----------------------------- MODULE Scheduler -----------------------------
(***************************************************************************)
(* The user-space scheduler of HThread: the real threads of tthreads, each *)
(* running worker_routine, take vthreads from vthreads::vs_queue, resume   *)
(* them, and act on the code the vthread yields with.                      *)
(*                                                                         *)
(* The module models the state every blocking primitive of the library     *)
(* shares and the steps of worker_routine.  What a vthread does while it   *)
(* runs is left to the modules that extend this one (MutexCond, Barrier):  *)
(* they take steps for an actor that is Executing and hand control back    *)
(* with YieldMyself.                                                       *)
(*                                                                         *)
(* An actor is a vthread or a raw thread.  A raw thread is a kernel thread *)
(* the library did not create (the program's main thread): for it the key  *)
(* cur_hcoroutine holds a null pointer, so "me" is null in every library   *)
(* call it makes.                                                          *)
(***************************************************************************)
EXTENDS Naturals

CONSTANTS
  VThreads,    \* the vthreads the program has created
  RawThreads,  \* kernel threads outside the library that call it
  Workers,     \* the real threads of tthreads
  Locks,       \* the hthread_mutex_t objects a worker may be asked to release
  None         \* the null pointer

Actors == VThreads \cup RawThreads

\* enum hcoroutine_ret_t: used for vthread::cur_status, and as the code a
\* vthread yields with, which may also be the address of a mutex (ret > 5).
Status == {"FINISHED", "SUSPENDED", "BLOCKED", "LOCKFAIL"}

WorkerPCs ==
  { "idle",      \* in vs->get_and_work
    "check",     \* holds a vthread it dequeued, has not looked at runnable
    "resume",    \* found it runnable, has not jumped yet
    "run",       \* the vthread runs on this worker
    "ret",       \* resume() returned with the code wret
    "released",  \* has released the mutex the vthread yielded with
    "marked" }   \* and has set runnable

ASSUME ActorsAssumption ==
  /\ VThreads \cap RawThreads = {}
  /\ None \notin VThreads

ASSUME LocksAssumption == Locks \cap Status = {} /\ None \notin Locks

VARIABLES
  runq,        \* how many times a vthread is in vthreads::vs_queue
  runnable,    \* vthread::runnable
  cur_status,  \* vthread::cur_status
  c,           \* hthread_mutex_t::c
  wpc,         \* where each worker is in worker_routine
  pvth,        \* the worker's local variable pvth
  wret,        \* the worker's local variable ret
  fault        \* "none", or the memory error the program has run into

workerVars == <<wpc, pvth, wret>>
schedVars == <<runq, runnable, cur_status, c, wpc, pvth, wret, fault>>

SchedTypeOK ==
  /\ runq \in [VThreads -> Nat]
  /\ runnable \in [VThreads -> BOOLEAN]
  /\ cur_status \in [VThreads -> Status]
  /\ c \in [Locks -> {0, 1}]
  /\ wpc \in [Workers -> WorkerPCs]
  /\ pvth \in [Workers -> VThreads \cup {None}]
  /\ wret \in [Workers -> Status \cup Locks \cup {None}]
  /\ fault \in {"none", "nullptr", "stale_context"}

\* Every vthread has been through vthread::init and vthreads::add_vthread;
\* the workers have reached their loop.
SchedInit ==
  /\ runq = [v \in VThreads |-> 1]
  /\ runnable = [v \in VThreads |-> TRUE]
  /\ cur_status = [v \in VThreads |-> "SUSPENDED"]
  /\ c = [l \in Locks |-> 0]
  /\ wpc = [w \in Workers |-> "idle"]
  /\ pvth = [w \in Workers |-> None]
  /\ wret = [w \in Workers |-> None]
  /\ fault = "none"

-----------------------------------------------------------------------------
(***************************************************************************)
(* What the library calls of an actor use.                                 *)
(***************************************************************************)

RunsOn(v, w) == wpc[w] = "run" /\ pvth[w] = v

\* A vthread executes while a worker has it resumed; a raw thread always.  A
\* memory error ends the program, with all its threads.
Executing(a) ==
  /\ fault = "none"
  /\ a \in RawThreads \/ \E w \in Workers : RunsOn(a, w)

\* vs_queue.enqueue(v)
Enqueue(v) == runq' = [runq EXCEPT ![v] = @ + 1]

\* me->yield_myself(code): save the vthread's context and return from
\* resume() on its worker with the code.  For a raw thread me is null.
YieldMyself(a, code) ==
  \/ /\ a \in RawThreads
     /\ fault' = "nullptr"
     /\ UNCHANGED workerVars
  \/ \E w \in Workers :
       /\ RunsOn(a, w)
       /\ wpc' = [wpc EXCEPT ![w] = "ret"]
       /\ wret' = [wret EXCEPT ![w] = code]
       /\ UNCHANGED <<pvth, fault>>

-----------------------------------------------------------------------------
(***************************************************************************)
(* worker_routine.  At the head of its loop the values of pvth and ret are *)
(* dead, so ToLoop clears them.                                            *)
(***************************************************************************)

ToLoop(w) ==
  /\ wpc' = [wpc EXCEPT ![w] = "idle"]
  /\ pvth' = [pvth EXCEPT ![w] = None]
  /\ wret' = [wret EXCEPT ![w] = None]

WorkerAt(w, l) == fault = "none" /\ wpc[w] = l

Goto(w, l) ==
  /\ wpc' = [wpc EXCEPT ![w] = l]
  /\ UNCHANGED <<pvth, wret>>

(***************************************************************************)
(* Faulty forms of steps below.  Each is a mistake one could make in       *)
(* worker_routine, and a property of a module that extends this one must   *)
(* reject it.                                                              *)
(***************************************************************************)

\* STATUS_BLOCKED does not make the vthread runnable again.
RetBlockedForgets(w) ==
  /\ WorkerAt(w, "ret")
  /\ wret[w] = "BLOCKED"
  /\ ToLoop(w)
  /\ UNCHANGED <<runq, runnable, cur_status, c, fault>>

\* A vthread that yielded a mutex is not made runnable again.
MarkNothing(w) ==
  /\ WorkerAt(w, "released")
  /\ Goto(w, "marked")
  /\ UNCHANGED <<runq, runnable, cur_status, c, fault>>

\* A vthread that yielded a mutex is enqueued whatever its cur_status.
EnqueueAlways(w) ==
  /\ WorkerAt(w, "marked")
  /\ Enqueue(pvth[w])
  /\ ToLoop(w)
  /\ UNCHANGED <<runnable, cur_status, c, fault>>

-----------------------------------------------------------------------------

\* vs->get_and_work(ptth): vs_queue.wait_dequeue blocks while the queue is
\* empty.  The queue keeps no order between the elements of two producers, so
\* any element may come out.
GetAndWork(w, v) ==
  /\ WorkerAt(w, "idle")
  /\ runq[v] > 0
  /\ runq' = [runq EXCEPT ![v] = @ - 1]
  /\ wpc' = [wpc EXCEPT ![w] = "check"]
  /\ pvth' = [pvth EXCEPT ![w] = v]
  /\ UNCHANGED <<runnable, cur_status, c, wret, fault>>

\* if (!pvth->runnable) { vs->vs_queue.enqueue(pvth); continue; }
PutBack(w) ==
  /\ WorkerAt(w, "check")
  /\ ~runnable[pvth[w]]
  /\ Enqueue(pvth[w])
  /\ ToLoop(w)
  /\ UNCHANGED <<runnable, cur_status, c, fault>>

Accept(w) ==
  /\ WorkerAt(w, "check")
  /\ runnable[pvth[w]]
  /\ Goto(w, "resume")
  /\ UNCHANGED <<runq, runnable, cur_status, c, fault>>

\* vthread::ctx points to the context-data of a suspended vthread: the vthread
\* does not run, and it has not yielded STATUS_FINISHED, after which
\* vthread::manage has nothing left to run.
HasContext(v) ==
  /\ cur_status[v] # "FINISHED"
  /\ \A w \in Workers :
       pvth[w] = v => wpc[w] # "run" /\ ~(wpc[w] = "ret" /\ wret[w] = "FINISHED")

\* pvth->resume(): jump to pvth->ctx, whatever that points to.
Resume(w) ==
  /\ WorkerAt(w, "resume")
  /\ IF HasContext(pvth[w])
       THEN Goto(w, "run") /\ UNCHANGED fault
       ELSE fault' = "stale_context" /\ UNCHANGED workerVars
  /\ UNCHANGED <<runq, runnable, cur_status, c>>

\* if ( ret == STATUS_BLOCKED ) { pvth->runnable = true; continue; }
RetBlocked(w) ==
  /\ WorkerAt(w, "ret")
  /\ wret[w] = "BLOCKED"
  /\ runnable' = [runnable EXCEPT ![pvth[w]] = TRUE]
  /\ ToLoop(w)
  /\ UNCHANGED <<runq, cur_status, c, fault>>

\* if ( ret == STATUS_SUSPENDED || ret == STATUS_LOCKFAIL ) enqueue(pvth)
RetSuspended(w) ==
  /\ WorkerAt(w, "ret")
  /\ wret[w] \in {"SUSPENDED", "LOCKFAIL"}
  /\ Enqueue(pvth[w])
  /\ ToLoop(w)
  /\ UNCHANGED <<runnable, cur_status, c, fault>>

\* else if ( ret > 5 ): ret is the mutex the vthread yielded with; release it,
\* then set runnable, then look at cur_status.
RetMutex(w) ==
  /\ WorkerAt(w, "ret")
  /\ wret[w] \in Locks
  /\ c' = [c EXCEPT ![wret[w]] = 0]
  /\ Goto(w, "released")
  /\ UNCHANGED <<runq, runnable, cur_status, fault>>

MarkRunnable(w) ==
  /\ WorkerAt(w, "released")
  /\ runnable' = [runnable EXCEPT ![pvth[w]] = TRUE]
  /\ Goto(w, "marked")
  /\ UNCHANGED <<runq, cur_status, c, fault>>

EnqueueIfSuspended(w) ==
  /\ WorkerAt(w, "marked")
  /\ \/ cur_status[pvth[w]] = "SUSPENDED" /\ Enqueue(pvth[w])
     \/ cur_status[pvth[w]] # "SUSPENDED" /\ UNCHANGED runq
  /\ ToLoop(w)
  /\ UNCHANGED <<runnable, cur_status, c, fault>>

\* strategy::finish_vthread of a vthread that nobody has joined: join_mutex is
\* free and join_waiters_num is 0, so wake_up_joined only sets cur_status.
FinishUnjoined(w) ==
  /\ WorkerAt(w, "ret")
  /\ wret[w] = "FINISHED"
  /\ cur_status' = [cur_status EXCEPT ![pvth[w]] = "FINISHED"]
  /\ ToLoop(w)
  /\ UNCHANGED <<runq, runnable, c, fault>>

\* Every step of worker_routine but strategy::finish_vthread.
LoopStep(w) ==
  \/ \E v \in VThreads : GetAndWork(w, v)
  \/ PutBack(w)
  \/ Accept(w)
  \/ Resume(w)
  \/ RetBlocked(w)
  \/ RetSuspended(w)
  \/ RetMutex(w)
  \/ MarkRunnable(w)
  \/ EnqueueIfSuspended(w)

WorkerStep(w) == LoopStep(w) \/ FinishUnjoined(w)

=============================================================================
