-------------------------------- MODULE Sem --------------------------------
(***************************************************************************)
(* sem_wait, sem_trywait and sem_post of strategy.h.  The semaphore is one *)
(* integer.  A caller that wants a unit decrements it first and looks at   *)
(* the old value afterwards: when that was not positive it adds the unit   *)
(* back, so for a while the integer is too small.                          *)
(*                                                                         *)
(* Between two steps of one caller any other may run, so a yield changes   *)
(* nothing but the position in the loop of sem_wait.                       *)
(***************************************************************************)
EXTENDS Integers, FiniteSets

CONSTANTS
  VThreads,    \* the vthreads that use the semaphore
  RawThreads,  \* kernel threads outside the library: me is null for them
  Initial,     \* the value sem_init gave it
  MaxCalls,    \* how many calls a caller makes
  VOps,        \* the operations vthreads call
  RawOps       \* the operations raw threads call

Callers == VThreads \cup RawThreads

ASSUME SemAssumption ==
  /\ IsFiniteSet(VThreads) /\ IsFiniteSet(RawThreads)
  /\ VThreads \cap RawThreads = {}
  /\ Initial \in Nat
  /\ MaxCalls \in Nat
  /\ VOps \cup RawOps \subseteq {"wait", "trywait", "post"}

VARIABLES
  c,      \* hthread_sem_t::c
  pc,     \* where each caller is
  op,     \* the call it is in, or was in last
  taken,  \* how many of its calls have returned with a unit
  calls,  \* how many more calls it may make
  fault   \* "none", or the memory error the program has run into

vars == <<c, pc, op, taken, calls, fault>>

TypeOK ==
  /\ c \in Int
  /\ pc \in [Callers -> {"ready", "test", "dec", "undo"}]
  /\ op \in [Callers -> {"wait", "trywait"}]
  /\ taken \in [Callers -> Nat]
  /\ calls \in [Callers -> 0..MaxCalls]
  /\ fault \in {"none", "nullptr"}

Init ==
  /\ c = Initial
  /\ pc = [a \in Callers |-> "ready"]
  /\ op = [a \in Callers |-> "trywait"]
  /\ taken = [a \in Callers |-> 0]
  /\ calls = [a \in Callers |-> MaxCalls]
  /\ fault = "none"

-----------------------------------------------------------------------------

At(a, l) == fault = "none" /\ pc[a] = l

Move(a, l) == pc' = [pc EXCEPT ![a] = l]

Calls(a, o) ==
  /\ At(a, "ready")
  /\ o \in (IF a \in VThreads THEN VOps ELSE RawOps)
  /\ calls[a] > 0
  /\ calls' = [calls EXCEPT ![a] = @ - 1]

Got(a) ==
  /\ taken' = [taken EXCEPT ![a] = @ + 1]
  /\ Move(a, "ready")

(***************************************************************************)
(* Faulty forms of steps below.                                            *)
(***************************************************************************)

\* The old value 0 passes for a unit.
DecAtZero(a) ==
  /\ At(a, "dec")
  /\ c' = c - 1
  /\ \/ c >= 0 /\ Got(a)
     \/ c < 0 /\ Move(a, "undo") /\ UNCHANGED taken
  /\ UNCHANGED <<op, calls, fault>>

\* A decrement that failed is not undone.
UndoNot(a) ==
  /\ At(a, "undo")
  /\ Move(a, IF op[a] = "wait" THEN "test" ELSE "ready")
  /\ UNCHANGED <<c, op, taken, calls, fault>>

-----------------------------------------------------------------------------

\* sem_trywait fails: it returns EBUSY, and sem_wait calls me->yield_myself and
\* tries again.  A raw thread gets no further than that call.
Fail(a) ==
  \/ op[a] = "trywait" /\ Move(a, "ready") /\ UNCHANGED fault
  \/ op[a] = "wait" /\ a \in VThreads /\ Move(a, "test") /\ UNCHANGED fault
  \/ op[a] = "wait" /\ a \in RawThreads /\ Move(a, "test") /\ fault' = "nullptr"

CallWait(a, o) ==
  /\ Calls(a, o)
  /\ op' = [op EXCEPT ![a] = o]
  /\ Move(a, "test")
  /\ UNCHANGED <<c, taken, fault>>

\* if (hs->c <= 0) return EBUSY
Test(a) ==
  /\ At(a, "test")
  /\ \/ c <= 0 /\ Fail(a)
     \/ c > 0 /\ Move(a, "dec") /\ UNCHANGED fault
  /\ UNCHANGED <<c, op, taken, calls>>

\* c = __sync_fetch_and_add(&hs->c, -1)
Dec(a) ==
  /\ At(a, "dec")
  /\ c' = c - 1
  /\ \/ c > 0 /\ Got(a)
     \/ c <= 0 /\ Move(a, "undo") /\ UNCHANGED taken
  /\ UNCHANGED <<op, calls, fault>>

Undo(a) ==
  /\ At(a, "undo")
  /\ c' = c + 1
  /\ Fail(a)
  /\ UNCHANGED <<op, taken, calls>>

Post(a) ==
  /\ Calls(a, "post")
  /\ c' = c + 1
  /\ UNCHANGED <<pc, op, taken, fault>>

Step(a) ==
  \/ \E o \in {"wait", "trywait"} : CallWait(a, o)
  \/ Test(a)
  \/ Dec(a)
  \/ Undo(a)
  \/ Post(a)

Next == \E a \in Callers : Step(a)

Spec == Init /\ [][Next]_vars

\* Kernel threads run on, and a vthread that yields is resumed in the end.
FairSpec == Spec /\ \A a \in Callers : WF_vars(Step(a))

-----------------------------------------------------------------------------
(***************************************************************************)
(* Properties.                                                             *)
(***************************************************************************)

\* The callers whose decrement has failed and is not undone yet.
Undoing == {a \in Callers : pc[a] = "undo"}

\* The units that are available: c, and what the failed decrements hide.
Avail == c + Cardinality(Undoing)

Counting == INSTANCE CountingSemaphore WITH avail <- Avail, Units <- Initial

\* The semaphore is a counting semaphore: however the decrements, the second
\* looks and the undoing of several callers interleave, no unit is taken
\* twice and none disappears.
IsCountingSemaphore == Counting!Spec

\* No sem_wait goes on waiting while a unit is available: the failing attempts
\* of the waiters do not hide it from each other for ever.
WaitersServed ==
  <>[](fault = "none" => (\A a \in Callers : pc[a] = "ready") \/ Avail = 0)

=============================================================================
