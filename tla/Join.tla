-------------------------------- MODULE Join --------------------------------
(***************************************************************************)
(* How vthreads end and are joined: vthread::join, wake_up_joined and      *)
(* manage (vthread.hpp), pthread_exit (strategy.h) and the binary          *)
(* semaphore join_sem on which a raw thread waits (htypes.hpp), running on *)
(* the scheduler of module Scheduler.                                      *)
(*                                                                         *)
(* Each actor joins the vthreads Joins gives it, in any order, and a       *)
(* vthread then ends.  The lock of vthread v in c is v's join_mutex.       *)
(*                                                                         *)
(* wake_up_joined runs on the worker after the vthread has ended; when     *)
(* join_mutex is taken its yield_myself returns to itself, the stack       *)
(* frame it jumps to being its own, so it waits until the mutex is free.   *)
(***************************************************************************)
EXTENDS Scheduler, Integers, Sequences, FiniteSets

CONSTANTS
  Joins,   \* the vthreads each actor joins
  Exiters  \* the actors that end with pthread_exit

ASSUME JoinAssumption ==
  /\ Locks = VThreads
  /\ Joins \in [Actors -> SUBSET VThreads]
  /\ Exiters \subseteq Actors

PCs ==
  { "ready",     \* in the program, between two calls
    "j_lock",    \* join: before the test-and-set on join_mutex
    "j_look",    \* join: holds join_mutex
    "j_yield",   \* join, vthread: yields with join_mutex
    "j_blocked", \* join, vthread: has yielded
    "j_wait",    \* join, raw thread: in join_sem.wait, before its CAS
    "j_futex",   \* ... the CAS has failed: before FUTEX_WAIT
    "j_sleep",   \* ... asleep in the kernel
    "e_lock",    \* pthread_exit: before the test-and-set
    "e_set",     \* pthread_exit: holds join_mutex
    "e_yield",   \* before yield_myself(STATUS_FINISHED)
    "ended" }    \* the vthread has yielded it

FinishPCs ==
  { "no",      \* not in wake_up_joined, or before its test-and-set
    "locked",  \* holds join_mutex
    "walk",    \* walks the list of waiting vthreads
    "enq",     \* has set the cur_status of one, and enqueues it
    "post",    \* posts join_sem for the raw threads
    "wake" }   \* has posted, and calls FUTEX_WAKE

VARIABLES
  join_waiters_num, \* vthread::join_waiters_num
  join_wait_queue,  \* vthread::join_wait_queue, head first
  retval,           \* vthread::retval: the joiner whose variable it points to
  routine_ret,      \* vthread::routine_ret: whether it has been set
  fut,              \* vthread::join_sem.fut
  pc,               \* where each actor is
  target,           \* the vthread it is joining, or None
  todo,             \* the vthreads it has still to join
  result,           \* the vthreads whose result it has received
  fpc,              \* where each worker is in wake_up_joined
  waiters,          \* its local variable waiters
  head              \* its local variable head

joinVars == <<join_waiters_num, join_wait_queue, retval, routine_ret, fut, pc,
              target, todo, result>>
finishVars == <<fpc, waiters, head>>
vars == <<schedVars, joinVars, finishVars>>

TypeOK ==
  /\ SchedTypeOK
  /\ join_waiters_num \in [VThreads -> Nat]
  /\ join_wait_queue \in [VThreads -> Seq(VThreads)]
  /\ retval \in [VThreads -> Actors \cup {None}]
  /\ routine_ret \in [VThreads -> BOOLEAN]
  /\ fut \in [VThreads -> {0, 1}]
  /\ pc \in [Actors -> PCs]
  /\ target \in [Actors -> VThreads \cup {None}]
  /\ todo \in [Actors -> SUBSET VThreads]
  /\ result \in [Actors -> SUBSET VThreads]
  /\ fpc \in [Workers -> FinishPCs]
  /\ waiters \in [Workers -> Int]
  /\ head \in [Workers -> Seq(VThreads)]

\* vthread::init
Init ==
  /\ SchedInit
  /\ join_waiters_num = [v \in VThreads |-> 0]
  /\ join_wait_queue = [v \in VThreads |-> <<>>]
  /\ retval = [v \in VThreads |-> None]
  /\ routine_ret = [v \in VThreads |-> FALSE]
  /\ fut = [v \in VThreads |-> 0]
  /\ pc = [a \in Actors |-> "ready"]
  /\ target = [a \in Actors |-> None]
  /\ todo = Joins
  /\ result = [a \in Actors |-> {}]
  /\ fpc = [w \in Workers |-> "no"]
  /\ waiters = [w \in Workers |-> 0]
  /\ head = [w \in Workers |-> <<>>]

-----------------------------------------------------------------------------
(***************************************************************************)
(* vthread::join.                                                          *)
(***************************************************************************)

At(a, l) == pc[a] = l /\ Executing(a)

Move(a, l) == pc' = [pc EXCEPT ![a] = l]

(***************************************************************************)
(* Faulty forms of steps below.                                            *)
(***************************************************************************)

\* The joiner releases join_mutex itself, and so will its worker.
EnlistReleases(a) ==
  /\ a \in VThreads
  /\ At(a, "j_look")
  /\ cur_status[target[a]] # "FINISHED"
  /\ retval' = [retval EXCEPT ![target[a]] = a]
  /\ join_waiters_num' = [join_waiters_num EXCEPT ![target[a]] = @ + 1]
  /\ cur_status' = [cur_status EXCEPT ![a] = "BLOCKED"]
  /\ join_wait_queue' = [join_wait_queue EXCEPT ![target[a]] = <<a>> \o @]
  /\ c' = [c EXCEPT ![target[a]] = 0]
  /\ Move(a, "j_yield")
  /\ UNCHANGED <<runq, runnable, workerVars, fault, finishVars, routine_ret,
                 fut, target, todo, result>>

\* The raw joiner sleeps without looking at fut again.
SleepAnyway(a) ==
  /\ At(a, "j_futex")
  /\ Move(a, "j_sleep")
  /\ UNCHANGED <<schedVars, finishVars, join_waiters_num, join_wait_queue,
                 retval, routine_ret, fut, target, todo, result>>

\* The ending vthread clears its list before it has taken it over.
PublishClears(w) ==
  LET v == pvth[w] IN
  /\ WorkerAt(w, "ret") /\ wret[w] = "FINISHED" /\ fpc[w] = "locked"
  /\ result' = [a \in Actors |->
                  IF retval[v] = a /\ routine_ret[v] THEN result[a] \cup {v}
                                                     ELSE result[a]]
  /\ cur_status' = [cur_status EXCEPT ![v] = "FINISHED"]
  /\ waiters' = [waiters EXCEPT ![w] = join_waiters_num[v]]
  /\ head' = [head EXCEPT ![w] = <<>>]
  /\ join_waiters_num' = [join_waiters_num EXCEPT ![v] = 0]
  /\ join_wait_queue' = [join_wait_queue EXCEPT ![v] = <<>>]
  /\ c' = [c EXCEPT ![v] = 0]
  /\ fpc' = [fpc EXCEPT ![w] = "walk"]
  /\ UNCHANGED <<runq, runnable, workerVars, fault, retval, routine_ret, fut,
                 pc, target, todo>>

-----------------------------------------------------------------------------

CallJoin(a, v) ==
  /\ At(a, "ready")
  /\ v \in todo[a]
  /\ target' = [target EXCEPT ![a] = v]
  /\ todo' = [todo EXCEPT ![a] = @ \ {v}]
  /\ Move(a, "j_lock")
  /\ UNCHANGED <<schedVars, finishVars, join_waiters_num, join_wait_queue,
                 retval, routine_ret, fut, result>>

JoinLock(a) ==
  /\ At(a, "j_lock")
  /\ c[target[a]] = 0
  /\ c' = [c EXCEPT ![target[a]] = 1]
  /\ Move(a, "j_look")
  /\ UNCHANGED <<runq, runnable, cur_status, workerVars, fault, finishVars,
                 join_waiters_num, join_wait_queue, retval, routine_ret, fut,
                 target, todo, result>>

\* A vthread yields; a raw thread counts to 1000 and tries again.
JoinLockFail(a) ==
  /\ a \in VThreads
  /\ At(a, "j_lock")
  /\ c[target[a]] = 1
  /\ YieldMyself(a, "LOCKFAIL")
  /\ UNCHANGED <<runq, runnable, cur_status, c, finishVars, joinVars>>

\* The target has not finished: a vthread puts itself in the list, and its
\* worker will release join_mutex.
JoinEnlist(a) ==
  /\ a \in VThreads
  /\ At(a, "j_look")
  /\ cur_status[target[a]] # "FINISHED"
  /\ retval' = [retval EXCEPT ![target[a]] = a]
  /\ join_waiters_num' = [join_waiters_num EXCEPT ![target[a]] = @ + 1]
  /\ cur_status' = [cur_status EXCEPT ![a] = "BLOCKED"]
  /\ join_wait_queue' = [join_wait_queue EXCEPT ![target[a]] = <<a>> \o @]
  /\ Move(a, "j_yield")
  /\ UNCHANGED <<runq, runnable, c, workerVars, fault, finishVars, routine_ret,
                 fut, target, todo, result>>

JoinYield(a) ==
  /\ At(a, "j_yield")
  /\ YieldMyself(a, target[a])
  /\ Move(a, "j_blocked")
  /\ UNCHANGED <<runq, runnable, cur_status, c, finishVars, join_waiters_num,
                 join_wait_queue, retval, routine_ret, fut, target, todo, result>>

\* The call returns to the program.
Return(a) ==
  /\ target' = [target EXCEPT ![a] = None]
  /\ Move(a, "ready")

JoinResumed(a) ==
  /\ At(a, "j_blocked")
  /\ Return(a)
  /\ UNCHANGED <<schedVars, finishVars, join_waiters_num, join_wait_queue,
                 retval, routine_ret, fut, todo, result>>

\* The target has not finished: a raw thread counts itself, releases
\* join_mutex and goes to wait on join_sem.
JoinEnlistRaw(a) ==
  /\ a \in RawThreads
  /\ At(a, "j_look")
  /\ cur_status[target[a]] # "FINISHED"
  /\ retval' = [retval EXCEPT ![target[a]] = a]
  /\ join_waiters_num' = [join_waiters_num EXCEPT ![target[a]] = @ + 1]
  /\ c' = [c EXCEPT ![target[a]] = 0]
  /\ Move(a, "j_wait")
  /\ UNCHANGED <<runq, runnable, cur_status, workerVars, fault, finishVars,
                 join_wait_queue, routine_ret, fut, target, todo, result>>

\* The target has finished: fetch its result.
JoinFinished(a) ==
  /\ At(a, "j_look")
  /\ cur_status[target[a]] = "FINISHED"
  /\ retval' = [retval EXCEPT ![target[a]] = a]
  /\ result' = [result EXCEPT ![a] =
                  IF routine_ret[target[a]] THEN @ \cup {target[a]} ELSE @]
  /\ c' = [c EXCEPT ![target[a]] = 0]
  /\ Return(a)
  /\ UNCHANGED <<runq, runnable, cur_status, workerVars, fault, finishVars,
                 join_waiters_num, join_wait_queue, routine_ret, fut, todo>>

\* hthread_bin_sema_t::wait: the compare-and-swap succeeds.
SemaTake(a) ==
  /\ At(a, "j_wait")
  /\ fut[target[a]] = 1
  /\ fut' = [fut EXCEPT ![target[a]] = 0]
  /\ Return(a)
  /\ UNCHANGED <<schedVars, finishVars, join_waiters_num, join_wait_queue,
                 retval, routine_ret, todo, result>>

SemaTakeFail(a) ==
  /\ At(a, "j_wait")
  /\ fut[target[a]] = 0
  /\ Move(a, "j_futex")
  /\ UNCHANGED <<schedVars, finishVars, join_waiters_num, join_wait_queue,
                 retval, routine_ret, fut, target, todo, result>>

\* FUTEX_WAIT sleeps only if fut is still 0 (EAGAIN otherwise).
FutexWait(a) ==
  /\ At(a, "j_futex")
  /\ Move(a, IF fut[target[a]] = 0 THEN "j_sleep" ELSE "j_wait")
  /\ UNCHANGED <<schedVars, finishVars, join_waiters_num, join_wait_queue,
                 retval, routine_ret, fut, target, todo, result>>

-----------------------------------------------------------------------------
(***************************************************************************)
(* The end of a vthread: it returns from its start routine, or calls       *)
(* pthread_exit, which sets routine_ret under join_mutex.                  *)
(***************************************************************************)

ReturnFromRoutine(a) ==
  /\ a \in VThreads \ Exiters
  /\ At(a, "ready")
  /\ todo[a] = {}
  /\ routine_ret' = [routine_ret EXCEPT ![a] = TRUE]
  /\ Move(a, "e_yield")
  /\ UNCHANGED <<schedVars, finishVars, join_waiters_num, join_wait_queue,
                 retval, fut, target, todo, result>>

\* For a raw thread me is null.
CallExit(a) ==
  /\ a \in Exiters
  /\ At(a, "ready")
  /\ todo[a] = {}
  /\ \/ a \in VThreads /\ Move(a, "e_lock") /\ UNCHANGED fault
     \/ a \in RawThreads /\ fault' = "nullptr" /\ UNCHANGED pc
  /\ UNCHANGED <<runq, runnable, cur_status, c, workerVars, finishVars,
                 join_waiters_num, join_wait_queue, retval, routine_ret, fut,
                 target, todo, result>>

ExitLock(a) ==
  /\ At(a, "e_lock")
  /\ c[a] = 0
  /\ c' = [c EXCEPT ![a] = 1]
  /\ Move(a, "e_set")
  /\ UNCHANGED <<runq, runnable, cur_status, workerVars, fault, finishVars,
                 join_waiters_num, join_wait_queue, retval, routine_ret, fut,
                 target, todo, result>>

ExitLockFail(a) ==
  /\ At(a, "e_lock")
  /\ c[a] = 1
  /\ YieldMyself(a, "LOCKFAIL")
  /\ UNCHANGED <<runq, runnable, cur_status, c, finishVars, joinVars>>

ExitSet(a) ==
  /\ At(a, "e_set")
  /\ routine_ret' = [routine_ret EXCEPT ![a] = TRUE]
  /\ c' = [c EXCEPT ![a] = 0]
  /\ Move(a, "e_yield")
  /\ UNCHANGED <<runq, runnable, cur_status, workerVars, fault, finishVars,
                 join_waiters_num, join_wait_queue, retval, fut, target, todo,
                 result>>

End(a) ==
  /\ At(a, "e_yield")
  /\ YieldMyself(a, "FINISHED")
  /\ Move(a, "ended")
  /\ UNCHANGED <<runq, runnable, cur_status, c, finishVars, join_waiters_num,
                 join_wait_queue, retval, routine_ret, fut, target, todo, result>>

-----------------------------------------------------------------------------
(***************************************************************************)
(* strategy::finish_vthread: wake_up_joined on the worker w.               *)
(***************************************************************************)

FinishAt(w, l) == WorkerAt(w, "ret") /\ wret[w] = "FINISHED" /\ fpc[w] = l

FinishGoto(w, l) == fpc' = [fpc EXCEPT ![w] = l]

FinishLock(w) ==
  /\ FinishAt(w, "no")
  /\ c[pvth[w]] = 0
  /\ c' = [c EXCEPT ![pvth[w]] = 1]
  /\ FinishGoto(w, "locked")
  /\ UNCHANGED <<runq, runnable, cur_status, workerVars, fault, joinVars,
                 waiters, head>>

\* Under join_mutex: hand over the result, set cur_status, take the list and
\* the count of the waiters; then release join_mutex.
FinishPublish(w) ==
  LET v == pvth[w] IN
  /\ FinishAt(w, "locked")
  /\ result' = [a \in Actors |->
                  IF retval[v] = a /\ routine_ret[v] THEN result[a] \cup {v}
                                                     ELSE result[a]]
  /\ cur_status' = [cur_status EXCEPT ![v] = "FINISHED"]
  /\ waiters' = [waiters EXCEPT ![w] = join_waiters_num[v]]
  /\ head' = [head EXCEPT ![w] = join_wait_queue[v]]
  /\ join_waiters_num' = [join_waiters_num EXCEPT ![v] = 0]
  /\ join_wait_queue' = [join_wait_queue EXCEPT ![v] = <<>>]
  /\ c' = [c EXCEPT ![v] = 0]
  /\ FinishGoto(w, "walk")
  /\ UNCHANGED <<runq, runnable, workerVars, fault, retval, routine_ret, fut,
                 pc, target, todo>>

\* p = dequeue(&head); p->vth->cur_status = STATUS_SUSPENDED
FinishMark(w) ==
  /\ FinishAt(w, "walk")
  /\ head[w] # <<>>
  /\ cur_status' = [cur_status EXCEPT ![Head(head[w])] = "SUSPENDED"]
  /\ FinishGoto(w, "enq")
  /\ UNCHANGED <<runq, runnable, c, workerVars, fault, joinVars, waiters, head>>

\* vs->vs_queue.enqueue(p->vth); waiters--
FinishEnqueue(w) ==
  /\ FinishAt(w, "enq")
  /\ Enqueue(Head(head[w]))
  /\ head' = [head EXCEPT ![w] = Tail(@)]
  /\ waiters' = [waiters EXCEPT ![w] = @ - 1]
  /\ FinishGoto(w, "walk")
  /\ UNCHANGED <<runnable, cur_status, c, workerVars, fault, joinVars>>

FinishWalked(w) ==
  /\ FinishAt(w, "walk")
  /\ head[w] = <<>>
  /\ FinishGoto(w, "post")
  /\ UNCHANGED <<schedVars, joinVars, waiters, head>>

\* One turn of while (waiters--) join_sem.post(): post changes fut from 0 to 1
\* and then calls FUTEX_WAKE, or does nothing when fut is 1 already.
FinishPost(w) ==
  LET v == pvth[w] IN
  /\ FinishAt(w, "post")
  /\ waiters[w] # 0
  /\ waiters' = [waiters EXCEPT ![w] = @ - 1]
  /\ \/ fut[v] = 0 /\ fut' = [fut EXCEPT ![v] = 1] /\ FinishGoto(w, "wake")
     \/ fut[v] = 1 /\ UNCHANGED <<fut, fpc>>
  /\ UNCHANGED <<schedVars, join_waiters_num, join_wait_queue, retval,
                 routine_ret, pc, target, todo, result, head>>

Sleepers(v) == {a \in RawThreads : pc[a] = "j_sleep" /\ target[a] = v}

\* FUTEX_WAKE wakes one sleeper, if there is one.
FutexWake(w) ==
  /\ FinishAt(w, "wake")
  /\ \/ Sleepers(pvth[w]) = {} /\ UNCHANGED pc
     \/ \E a \in Sleepers(pvth[w]) : Move(a, "j_wait")
  /\ FinishGoto(w, "post")
  /\ UNCHANGED <<schedVars, join_waiters_num, join_wait_queue, retval,
                 routine_ret, fut, target, todo, result, waiters, head>>

FinishDone(w) ==
  /\ FinishAt(w, "post")
  /\ waiters[w] = 0
  /\ FinishGoto(w, "no")
  /\ ToLoop(w)
  /\ UNCHANGED <<runq, runnable, cur_status, c, fault, joinVars, waiters, head>>

-----------------------------------------------------------------------------

ActorStep(a) ==
  \/ \E v \in VThreads : CallJoin(a, v)
  \/ JoinLock(a)
  \/ JoinLockFail(a)
  \/ JoinEnlist(a)
  \/ JoinYield(a)
  \/ JoinResumed(a)
  \/ JoinEnlistRaw(a)
  \/ JoinFinished(a)
  \/ SemaTake(a)
  \/ SemaTakeFail(a)
  \/ FutexWait(a)
  \/ ReturnFromRoutine(a)
  \/ CallExit(a)
  \/ ExitLock(a)
  \/ ExitLockFail(a)
  \/ ExitSet(a)
  \/ End(a)

FinishStep(w) ==
  \/ FinishLock(w)
  \/ FinishPublish(w)
  \/ FinishMark(w)
  \/ FinishEnqueue(w)
  \/ FinishWalked(w)
  \/ FinishPost(w)
  \/ FutexWake(w)
  \/ FinishDone(w)

\* One step of the real thread w.
Work(w) ==
  \/ LoopStep(w) /\ UNCHANGED <<joinVars, finishVars>>
  \/ FinishStep(w)

Next ==
  \/ \E a \in Actors : ActorStep(a)
  \/ \E w \in Workers : Work(w)

Spec == Init /\ [][Next]_vars

\* As in MutexCond.
Fairness ==
  /\ \A a \in Actors : WF_vars(ActorStep(a))
  /\ \A w \in Workers : WF_vars(Work(w))

FairSpec == Spec /\ Fairness

-----------------------------------------------------------------------------
(***************************************************************************)
(* Properties.                                                             *)
(***************************************************************************)

\* The vthreads a has joined: the call has returned.
Joined(a) == (Joins[a] \ todo[a]) \ {target[a]}

\* A join that returns has received the result of its target, whichever of the
\* joiner, the target and the worker that ends the target is first at
\* join_mutex.  (Of several joiners of one vthread the last one to call leaves
\* its address in retval, and the others receive nothing.)
JoinDelivers ==
  \A a \in Actors : \A v \in Joined(a) :
    (\A b \in Actors \ {a} : v \notin Joins[b]) => v \in result[a]

\* A join never returns before its target has ended, however many actors join
\* the same one.
JoinWaits == \A a \in Actors : \A v \in Joined(a) : pc[v] = "ended"

\* A joiner whose call has not returned is never forgotten: it is in the list
\* or the count of a target that has not finished, in the hands of the worker
\* that ends its target, or already woken.
JoinerRemembered ==
  \A a \in Actors :
    /\ pc[a] = "j_blocked" =>
         \/ \E i \in DOMAIN join_wait_queue[target[a]] : join_wait_queue[target[a]][i] = a
         \/ \E w \in Workers : \E i \in DOMAIN head[w] : head[w][i] = a
         \/ runq[a] > 0
         \/ \E w \in Workers : pvth[w] = a /\ wpc[w] \in {"check", "resume", "run"}
    /\ pc[a] \in {"j_wait", "j_futex", "j_sleep"} =>
         \/ join_waiters_num[target[a]] > 0
         \/ fut[target[a]] = 1
         \/ \E w \in Workers : pvth[w] = target[a] /\ fpc[w] # "no"

\* join_mutex of v is taken only by someone that is going to release it.
JoinMutexOwned ==
  \A v \in VThreads :
    c[v] = Cardinality({a \in Actors : pc[a] \in {"j_look", "j_yield"} /\ target[a] = v})
           + (IF pc[v] = "e_set" THEN 1 ELSE 0)
           + Cardinality({w \in Workers : wpc[w] = "ret" /\ wret[w] = v})
           + Cardinality({w \in Workers : pvth[w] = v /\ fpc[w] = "locked"})

\* Every join returns, unless the program has run into a memory error.
JoinsReturn ==
  <>[](fault # "none" \/ \A a \in Actors : todo[a] = {} /\ target[a] = None)

\* What pthread_join promises: it returns after its target has ended, with the
\* target's result, and no joiner is forgotten on the way.
JoinInv ==
  /\ TypeOK
  /\ JoinDelivers
  /\ JoinWaits
  /\ JoinerRemembered

=============================================================================
