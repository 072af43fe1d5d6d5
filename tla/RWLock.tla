------------------------------- MODULE RWLock -------------------------------
(***************************************************************************)
(* pthread_rwlock_* of hthread.cpp: a read-write lock made of a reader     *)
(* count r and a writer pointer w, taken without any other lock.  A reader *)
(* announces itself in r and then looks at w; a writer announces itself in *)
(* w and then looks at r; who sees the other backs off.                    *)
(*                                                                         *)
(* The callers are the most general client: a thread takes the lock in     *)
(* either mode, blocking or not, and unlocks what it holds.  Between two   *)
(* steps of one thread any other thread may run, so a yield (which only    *)
(* lets others run) is a step that changes nothing but the position in the *)
(* loop.  The callers are vthreads: a kernel thread the library did not    *)
(* create has a null "me", which as a writer would mean no writer.         *)
(***************************************************************************)
EXTENDS Integers, FiniteSets

CONSTANTS
  VThreads,  \* the vthreads that use the lock
  None,      \* the null pointer
  MaxCalls,  \* how many times a vthread takes the lock
  UsedOps    \* the ways in which it does

ASSUME RWThreadsAssumption ==
  /\ IsFiniteSet(VThreads)
  /\ None \notin VThreads
  /\ MaxCalls \in Nat

Ops == {"tryrdlock", "rdlock", "trywrlock", "wrlock"}

ASSUME UsedOpsAssumption == UsedOps \subseteq Ops

PCs ==
  { "ready",   \* in the program, between two calls
    "rd_test", \* (try)rdlock: reads w
    "rd_inc",  \* increments r
    "rd_look", \* reads w again
    "rd_undo", \* decrements r
    "wr_r",    \* (try)wrlock: reads r
    "wr_w",    \* reads w
    "wr_cas",  \* compare-and-swap on w
    "wr_look", \* reads r again
    "wr_undo", \* releases w
    "un_test", \* unlock: compares w with me
    "un_w",    \* releases w
    "un_r" }   \* decrements r

VARIABLES
  r,      \* hthread_rwlock_t::r
  w,      \* hthread_rwlock_t::w
  pc,     \* where each thread is
  op,     \* the operation that it is in, or was in last
  held,   \* the mode in which its program holds the lock
  calls   \* how many more times it may take the lock

vars == <<r, w, pc, op, held, calls>>

TypeOK ==
  /\ r \in Int
  /\ w \in VThreads \cup {None}
  /\ pc \in [VThreads -> PCs]
  /\ op \in [VThreads -> Ops \cup {None}]
  /\ held \in [VThreads -> {"no", "read", "write"}]
  /\ calls \in [VThreads -> 0..MaxCalls]

\* pthread_rwlock_init
Init ==
  /\ r = 0
  /\ w = None
  /\ pc = [t \in VThreads |-> "ready"]
  /\ op = [t \in VThreads |-> None]
  /\ held = [t \in VThreads |-> "no"]
  /\ calls = [t \in VThreads |-> MaxCalls]

-----------------------------------------------------------------------------

At(t, l) == pc[t] = l

Move(t, l) == pc' = [pc EXCEPT ![t] = l]

Got(t, mode) ==
  /\ held' = [held EXCEPT ![t] = mode]
  /\ Move(t, "ready")

(***************************************************************************)
(* Faulty forms of steps below.                                            *)
(***************************************************************************)

\* A reader does not look at w again after it has announced itself.
LookNot(t) ==
  /\ At(t, "rd_look")
  /\ Got(t, "read")
  /\ UNCHANGED <<r, w, op, calls>>

\* A reader that backs off stays counted in r.
UndoNot(t) ==
  /\ At(t, "rd_undo")
  /\ Move(t, IF op[t] = "rdlock" THEN "rd_test" ELSE "ready")
  /\ UNCHANGED <<r, w, op, held, calls>>

\* Unlock does not tell a writer from a reader.
UnTestNot(t) ==
  /\ At(t, "un_test")
  /\ Move(t, "un_r")
  /\ UNCHANGED <<r, w, op, held, calls>>

\* A writer that backs off stays in w.
WrUndoNot(t) ==
  /\ At(t, "wr_undo")
  /\ Move(t, IF op[t] = "wrlock" THEN "wr_r" ELSE "ready")
  /\ UNCHANGED <<r, w, op, held, calls>>

-----------------------------------------------------------------------------

Call(t, o) ==
  /\ At(t, "ready")
  /\ held[t] = "no"
  /\ calls[t] > 0
  /\ calls' = [calls EXCEPT ![t] = @ - 1]
  /\ op' = [op EXCEPT ![t] = o]
  /\ Move(t, IF o \in {"tryrdlock", "rdlock"} THEN "rd_test" ELSE "wr_r")
  /\ UNCHANGED <<r, w, held>>

\* The lock is taken: the try variants return EBUSY, the others do
\* me->yield_myself() and start over at the label first.
\* After a conflict the others start over without the yield.
BackOff(t, first) ==
  \/ op[t] \in {"tryrdlock", "trywrlock"} /\ Move(t, "ready")
  \/ op[t] \in {"rdlock", "wrlock"} /\ Move(t, first)

RdTest(t) ==
  /\ At(t, "rd_test")
  /\ \/ w # None /\ BackOff(t, "rd_test")
     \/ w = None /\ Move(t, "rd_inc")
  /\ UNCHANGED <<r, w, op, held, calls>>

RdInc(t) ==
  /\ At(t, "rd_inc")
  /\ r' = r + 1
  /\ Move(t, "rd_look")
  /\ UNCHANGED <<w, op, held, calls>>

RdLook(t) ==
  /\ At(t, "rd_look")
  /\ \/ w = None /\ Got(t, "read")
     \/ w # None /\ Move(t, "rd_undo") /\ UNCHANGED held
  /\ UNCHANGED <<r, w, op, calls>>

RdUndo(t) ==
  /\ At(t, "rd_undo")
  /\ r' = r - 1
  /\ BackOff(t, "rd_test")
  /\ UNCHANGED <<w, op, held, calls>>

\* hrw->r || hrw->w || !CAS(&hrw->w, nullptr, me)
WrTestR(t) ==
  /\ At(t, "wr_r")
  /\ \/ r # 0 /\ BackOff(t, "wr_r")
     \/ r = 0 /\ Move(t, "wr_w")
  /\ UNCHANGED <<r, w, op, held, calls>>

WrTestW(t) ==
  /\ At(t, "wr_w")
  /\ \/ w # None /\ BackOff(t, "wr_r")
     \/ w = None /\ Move(t, "wr_cas")
  /\ UNCHANGED <<r, w, op, held, calls>>

WrCas(t) ==
  /\ At(t, "wr_cas")
  /\ \/ w # None /\ BackOff(t, "wr_r") /\ UNCHANGED w
     \/ w = None /\ w' = t /\ Move(t, "wr_look")
  /\ UNCHANGED <<r, op, held, calls>>

WrLook(t) ==
  /\ At(t, "wr_look")
  /\ \/ r = 0 /\ Got(t, "write")
     \/ r # 0 /\ Move(t, "wr_undo") /\ UNCHANGED held
  /\ UNCHANGED <<r, w, op, calls>>

WrUndo(t) ==
  /\ At(t, "wr_undo")
  /\ w' = None
  /\ BackOff(t, "wr_r")
  /\ UNCHANGED <<r, op, held, calls>>

\* The program gives the lock up when it calls unlock.
CallUnlock(t) ==
  /\ At(t, "ready")
  /\ held[t] # "no"
  /\ held' = [held EXCEPT ![t] = "no"]
  /\ Move(t, "un_test")
  /\ UNCHANGED <<r, w, op, calls>>

UnTest(t) ==
  /\ At(t, "un_test")
  /\ Move(t, IF w = t THEN "un_w" ELSE "un_r")
  /\ UNCHANGED <<r, w, op, held, calls>>

UnW(t) ==
  /\ At(t, "un_w")
  /\ w' = None
  /\ Move(t, "ready")
  /\ UNCHANGED <<r, op, held, calls>>

UnR(t) ==
  /\ At(t, "un_r")
  /\ r' = r - 1
  /\ Move(t, "ready")
  /\ UNCHANGED <<w, op, held, calls>>

-----------------------------------------------------------------------------

Step(t) ==
  \/ \E o \in UsedOps : Call(t, o)
  \/ RdTest(t)
  \/ RdInc(t)
  \/ RdLook(t)
  \/ RdUndo(t)
  \/ WrTestR(t)
  \/ WrTestW(t)
  \/ WrCas(t)
  \/ WrLook(t)
  \/ WrUndo(t)
  \/ CallUnlock(t)
  \/ UnTest(t)
  \/ UnW(t)
  \/ UnR(t)

Next == \E t \in VThreads : Step(t)

Spec == Init /\ [][Next]_vars

\* A thread that yields goes back to vs_queue and is resumed in the end.
FairSpec == Spec /\ \A t \in VThreads : WF_vars(Step(t))

-----------------------------------------------------------------------------
(***************************************************************************)
(* Properties.                                                             *)
(***************************************************************************)

\* A thread that holds the lock for writing is the only one that holds it:
\* reader and writer announce themselves before they look at each other, so
\* that they cannot miss each other.
RWExclusion ==
  \A s, t \in VThreads : held[t] = "write" /\ s # t => held[s] = "no"

\* The threads whose increment of r has not been undone.
Announced(t) ==
  \/ pc[t] \in {"rd_look", "rd_undo", "un_r"}
  \/ held[t] = "read"
  \/ pc[t] = "un_test" /\ op[t] \in {"tryrdlock", "rdlock"}

\* r is the number of threads that are announced in it: no back-off and no
\* unlock decrements it twice, or releases w where it should decrement r.
ReadersCounted == r = Cardinality({t \in VThreads : Announced(t)})

\* Once nobody is in a call or holds the lock it is free again.
FreeAtRest ==
  (\A t \in VThreads : pc[t] = "ready" /\ held[t] = "no") => r = 0 /\ w = None

\* Every call returns and every thread gets through all its calls, unless
\* readers and writers go on for ever backing off from each other: no other
\* wait in these loops is without end.
ServedOrConflicting ==
  \/ <>[](\A t \in VThreads : pc[t] = "ready" /\ held[t] = "no" /\ calls[t] = 0)
  \/ /\ []<>(\E t \in VThreads : pc[t] = "rd_undo")
     /\ []<>(\E t \in VThreads : pc[t] = "wr_undo")

=============================================================================
