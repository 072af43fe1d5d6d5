----------------------------- MODULE MutexCond -----------------------------
(***************************************************************************)
(* pthread_mutex_* and pthread_cond_* of strategy.h as HThread builds them *)
(* (SPIN_LOCK_STYLE on, LOCKFREE_COND and MUST_WAKE off), running on the   *)
(* scheduler of module Scheduler.                                          *)
(*                                                                         *)
(* The callers are the most general client of one mutex and one condition  *)
(* variable that respects the POSIX rules: an actor unlocks and waits only *)
(* with the mutex held, locks only without it, and signals at any time.    *)
(* Each actor makes at most MaxCalls calls, unlocking not counted.         *)
(***************************************************************************)
EXTENDS Scheduler, Integers, Sequences, FiniteSets

CONSTANTS
  Mutex,     \* the hthread_mutex_t
  MaxCalls,  \* how many calls an actor may make
  VOps,      \* the operations vthreads call
  RawOps     \* the operations raw threads call

Ops == {"lock", "trylock", "wait", "signal", "broadcast", "yield"}

ASSUME ClientAssumption ==
  /\ Mutex \in Locks
  /\ MaxCalls \in Nat
  /\ VOps \subseteq Ops
  /\ RawOps \subseteq Ops

\* The null pointer is not a queue.
ASSUME QueueAssumption == None \notin Seq(VThreads)

PCs ==
  { "ready",    \* in the program, between two library calls
    "lock",     \* pthread_mutex_lock, before the test-and-set
    "chk",      \* wait, signal, broadcast: reads hc->blocked_vths
    "alloc",    \* it was null: before the compare-and-swap
    "cw_count", \* wait: increments waiter_num
    "cw_mark",  \* wait: sets cur_status
    "cw_hide",  \* wait: sets runnable
    "cw_push",  \* wait: pushes me
    "cw_yield", \* wait: yields with the mutex
    "cw_blocked", \* wait: has yielded
    "cw_relock",\* wait: retakes the mutex
    "pop",      \* signal, broadcast: pops a waiter
    "pop_count",\* signal, broadcast: has popped one, decrements waiter_num
    "sig_mark", \* signal: sets the waiter's cur_status
    "enq",      \* signal, broadcast: enqueues the waiter
    "ended" }   \* the vthread has returned from start_routine

VARIABLES
  blocked_vths, \* hthread_cond_t::blocked_vths, None or the queue's contents
  waiter_num,   \* hthread_cond_t::waiter_num
  pc,           \* where each actor is
  call,         \* the operation it is in, or None
  got,          \* the local variable waiter of signal and broadcast
  holds,        \* whether the actor owns the mutex, as its program sees it
  calls         \* how many more calls it may make

clientVars == <<blocked_vths, waiter_num, pc, call, got, holds, calls>>
vars == <<schedVars, clientVars>>

TypeOK ==
  /\ SchedTypeOK
  /\ blocked_vths \in Seq(VThreads) \cup {None}
  /\ waiter_num \in Int
  /\ pc \in [Actors -> PCs]
  /\ call \in [Actors -> {"wait", "signal", "broadcast", None}]
  /\ got \in [Actors -> VThreads \cup {None}]
  /\ holds \in [Actors -> BOOLEAN]
  /\ calls \in [Actors -> 0..MaxCalls]

Init ==
  /\ SchedInit
  /\ blocked_vths = None
  /\ waiter_num = 0
  /\ pc = [a \in Actors |-> "ready"]
  /\ call = [a \in Actors |-> None]
  /\ got = [a \in Actors |-> None]
  /\ holds = [a \in Actors |-> FALSE]
  /\ calls = [a \in Actors |-> MaxCalls]

-----------------------------------------------------------------------------

At(a, l) == pc[a] = l /\ Executing(a)

Move(a, l) == pc' = [pc EXCEPT ![a] = l]

OpsOf(a) == IF a \in VThreads THEN VOps ELSE RawOps

\* The program calls op: the call counts against its budget.
Calls(a, op) ==
  /\ At(a, "ready")
  /\ op \in OpsOf(a)
  /\ calls[a] > 0
  /\ calls' = [calls EXCEPT ![a] = @ - 1]

\* __sync_lock_test_and_set(&hm->c, 1) that finds the mutex free
TakeMutex(a) ==
  /\ c[Mutex] = 0
  /\ c' = [c EXCEPT ![Mutex] = 1]
  /\ holds' = [holds EXCEPT ![a] = TRUE]

(***************************************************************************)
(* Faulty forms of steps below.                                            *)
(***************************************************************************)

\* pthread_cond_wait takes the mutex back without looking at its old value.
RelockBlindly(a) ==
  /\ At(a, "cw_relock")
  /\ c' = [c EXCEPT ![Mutex] = 1]
  /\ holds' = [holds EXCEPT ![a] = TRUE]
  /\ Move(a, "ready")
  /\ call' = [call EXCEPT ![a] = None]
  /\ UNCHANGED <<runq, runnable, cur_status, workerVars, fault,
                 blocked_vths, waiter_num, got, calls>>

\* The queue is stored in hc->blocked_vths without a compare-and-swap.
AllocStores(a) ==
  /\ At(a, "alloc")
  /\ blocked_vths' = <<>>
  /\ Move(a, IF call[a] = "wait" THEN "cw_count" ELSE "pop")
  /\ UNCHANGED <<schedVars, waiter_num, call, got, holds, calls>>

\* Only pthread_cond_signal decrements waiter_num.
CountSignalled(a) ==
  /\ At(a, "pop_count")
  /\ waiter_num' = IF call[a] = "signal" THEN waiter_num - 1 ELSE waiter_num
  /\ Move(a, IF call[a] = "signal" THEN "sig_mark" ELSE "enq")
  /\ UNCHANGED <<schedVars, blocked_vths, call, got, holds, calls>>

-----------------------------------------------------------------------------

CallLock(a) ==
  /\ Calls(a, "lock")
  /\ ~holds[a]
  /\ Move(a, "lock")
  /\ UNCHANGED <<schedVars, blocked_vths, waiter_num, call, got, holds>>

MutexLock(a) ==
  /\ At(a, "lock")
  /\ TakeMutex(a)
  /\ Move(a, "ready")
  /\ UNCHANGED <<runq, runnable, cur_status, workerVars, fault,
                 blocked_vths, waiter_num, call, got, calls>>

\* The mutex is taken: me->yield_myself(STATUS_LOCKFAIL), then try again.
MutexLockFail(a) ==
  /\ At(a, "lock")
  /\ c[Mutex] = 1
  /\ YieldMyself(a, "LOCKFAIL")
  /\ UNCHANGED <<runq, runnable, cur_status, c, clientVars>>

MutexTrylock(a) ==
  /\ Calls(a, "trylock")
  /\ ~holds[a]
  /\ \/ TakeMutex(a)
     \/ c[Mutex] = 1 /\ UNCHANGED <<c, holds>>
  /\ UNCHANGED <<runq, runnable, cur_status, workerVars, fault,
                 blocked_vths, waiter_num, pc, call, got>>

MutexUnlock(a) ==
  /\ At(a, "ready")
  /\ holds[a]
  /\ c' = [c EXCEPT ![Mutex] = 0]
  /\ holds' = [holds EXCEPT ![a] = FALSE]
  /\ UNCHANGED <<runq, runnable, cur_status, workerVars, fault,
                 blocked_vths, waiter_num, pc, call, got, calls>>

SchedYield(a) ==
  /\ Calls(a, "yield")
  /\ YieldMyself(a, "SUSPENDED")
  /\ UNCHANGED <<runq, runnable, cur_status, c,
                 blocked_vths, waiter_num, pc, call, got, holds>>

\* vthread::manage: start_routine returns, yield_myself(STATUS_FINISHED).
End(a) ==
  /\ a \in VThreads
  /\ At(a, "ready")
  /\ ~holds[a]
  /\ YieldMyself(a, "FINISHED")
  /\ Move(a, "ended")
  /\ UNCHANGED <<runq, runnable, cur_status, c,
                 blocked_vths, waiter_num, call, got, holds, calls>>

-----------------------------------------------------------------------------
(***************************************************************************)
(* The condition variable.  boost::lockfree::queue is linearizable: push   *)
(* and pop are one step each.                                              *)
(***************************************************************************)

\* pthread_cond_wait, pthread_cond_signal or pthread_cond_broadcast is called.
CallCond(a, op) ==
  /\ Calls(a, op)
  /\ op = "wait" => holds[a]
  /\ call' = [call EXCEPT ![a] = op]
  /\ Move(a, "chk")
  /\ UNCHANGED <<schedVars, blocked_vths, waiter_num, got, holds>>

\* Where each operation goes once hc->blocked_vths exists.
AfterAlloc(a) == IF call[a] = "wait" THEN "cw_count" ELSE "pop"

\* while (!hc->blocked_vths) { ... }
CheckQueue(a) ==
  /\ At(a, "chk")
  /\ Move(a, IF blocked_vths = None THEN "alloc" ELSE AfterAlloc(a))
  /\ UNCHANGED <<schedVars, blocked_vths, waiter_num, call, got, holds, calls>>

\* __sync_bool_compare_and_swap(&hc->blocked_vths, nullptr, tmp)
AllocQueue(a) ==
  /\ At(a, "alloc")
  /\ \/ blocked_vths = None /\ blocked_vths' = <<>> /\ Move(a, AfterAlloc(a))
     \/ blocked_vths # None /\ Move(a, "chk") /\ UNCHANGED blocked_vths
  /\ UNCHANGED <<schedVars, waiter_num, call, got, holds, calls>>

\* __sync_add_and_fetch(&hc->waiter_num, 1)
CondWaitCount(a) ==
  /\ At(a, "cw_count")
  /\ waiter_num' = waiter_num + 1
  /\ Move(a, "cw_mark")
  /\ UNCHANGED <<schedVars, blocked_vths, call, got, holds, calls>>

\* me->cur_status = STATUS_BLOCKED; for a raw thread me is null.
CondWaitMark(a) ==
  /\ At(a, "cw_mark")
  /\ \/ /\ a \in RawThreads
        /\ fault' = "nullptr"
        /\ UNCHANGED <<cur_status, pc>>
     \/ /\ a \in VThreads
        /\ cur_status' = [cur_status EXCEPT ![a] = "BLOCKED"]
        /\ Move(a, "cw_hide")
        /\ UNCHANGED fault
  /\ UNCHANGED <<runq, runnable, c, workerVars,
                 blocked_vths, waiter_num, call, got, holds, calls>>

CondWaitHide(a) ==
  /\ At(a, "cw_hide")
  /\ runnable' = [runnable EXCEPT ![a] = FALSE]
  /\ Move(a, "cw_push")
  /\ UNCHANGED <<runq, cur_status, c, workerVars, fault,
                 blocked_vths, waiter_num, call, got, holds, calls>>

CondWaitPush(a) ==
  /\ At(a, "cw_push")
  /\ blocked_vths' = Append(blocked_vths, a)
  /\ Move(a, "cw_yield")
  /\ UNCHANGED <<schedVars, waiter_num, call, got, holds, calls>>

\* me->yield_myself(hm): the worker will release the mutex.
CondWaitYield(a) ==
  /\ At(a, "cw_yield")
  /\ YieldMyself(a, Mutex)
  /\ Move(a, "cw_blocked")
  /\ holds' = [holds EXCEPT ![a] = FALSE]
  /\ UNCHANGED <<runq, runnable, cur_status, c,
                 blocked_vths, waiter_num, call, got, calls>>

\* The waiter has been resumed: me->cur_status = STATUS_SUSPENDED.
CondWaitResumed(a) ==
  /\ At(a, "cw_blocked")
  /\ cur_status' = [cur_status EXCEPT ![a] = "SUSPENDED"]
  /\ Move(a, "cw_relock")
  /\ UNCHANGED <<runq, runnable, c, workerVars, fault,
                 blocked_vths, waiter_num, call, got, holds, calls>>

CondWaitRelock(a) ==
  /\ At(a, "cw_relock")
  /\ TakeMutex(a)
  /\ Move(a, "ready")
  /\ call' = [call EXCEPT ![a] = None]
  /\ UNCHANGED <<runq, runnable, cur_status, workerVars, fault,
                 blocked_vths, waiter_num, got, calls>>

CondWaitRelockFail(a) ==
  /\ At(a, "cw_relock")
  /\ c[Mutex] = 1
  /\ YieldMyself(a, "LOCKFAIL")
  /\ UNCHANGED <<runq, runnable, cur_status, c, clientVars>>

\* hc->blocked_vths->pop(waiter) succeeds.
CondPop(a) ==
  /\ At(a, "pop")
  /\ blocked_vths # <<>>
  /\ got' = [got EXCEPT ![a] = Head(blocked_vths)]
  /\ blocked_vths' = Tail(blocked_vths)
  /\ Move(a, "pop_count")
  /\ UNCHANGED <<schedVars, waiter_num, call, holds, calls>>

\* __sync_add_and_fetch(&hc->waiter_num, -1), after the pop: others see the
\* queue and waiter_num in between.
CondPopCount(a) ==
  /\ At(a, "pop_count")
  /\ waiter_num' = waiter_num - 1
  /\ Move(a, IF call[a] = "signal" THEN "sig_mark" ELSE "enq")
  /\ UNCHANGED <<schedVars, blocked_vths, call, got, holds, calls>>

\* pop fails: signal returns, and so does broadcast after it has set
\* me->cur_status.
CondPopEmpty(a) ==
  /\ At(a, "pop")
  /\ blocked_vths = <<>>
  /\ \/ /\ call[a] = "signal"
        /\ UNCHANGED <<cur_status, fault>>
     \/ /\ call[a] = "broadcast" /\ a \in RawThreads
        /\ fault' = "nullptr"
        /\ UNCHANGED cur_status
     \/ /\ call[a] = "broadcast" /\ a \in VThreads
        /\ cur_status' = [cur_status EXCEPT ![a] = "SUSPENDED"]
        /\ UNCHANGED fault
  /\ Move(a, "ready")
  /\ call' = [call EXCEPT ![a] = None]
  /\ UNCHANGED <<runq, runnable, c, workerVars,
                 blocked_vths, waiter_num, got, holds, calls>>

CondSignalMark(a) ==
  /\ At(a, "sig_mark")
  /\ cur_status' = [cur_status EXCEPT ![got[a]] = "SUSPENDED"]
  /\ Move(a, "enq")
  /\ UNCHANGED <<runq, runnable, c, workerVars, fault,
                 blocked_vths, waiter_num, call, got, holds, calls>>

\* vs->vs_queue.enqueue(waiter): signal returns, broadcast pops the next one.
CondEnqueue(a) ==
  /\ At(a, "enq")
  /\ Enqueue(got[a])
  /\ got' = [got EXCEPT ![a] = None]
  /\ \/ call[a] = "signal" /\ Move(a, "ready") /\ call' = [call EXCEPT ![a] = None]
     \/ call[a] = "broadcast" /\ Move(a, "pop") /\ UNCHANGED call
  /\ UNCHANGED <<runnable, cur_status, c, workerVars, fault,
                 blocked_vths, waiter_num, holds, calls>>

-----------------------------------------------------------------------------

\* One step of the actor a.
ActorStep(a) ==
  \/ CallLock(a)
  \/ MutexLock(a)
  \/ MutexLockFail(a)
  \/ MutexTrylock(a)
  \/ MutexUnlock(a)
  \/ SchedYield(a)
  \/ End(a)
  \/ \E op \in {"wait", "signal", "broadcast"} : CallCond(a, op)
  \/ CheckQueue(a)
  \/ AllocQueue(a)
  \/ CondWaitCount(a)
  \/ CondWaitMark(a)
  \/ CondWaitHide(a)
  \/ CondWaitPush(a)
  \/ CondWaitYield(a)
  \/ CondWaitResumed(a)
  \/ CondWaitRelock(a)
  \/ CondWaitRelockFail(a)
  \/ CondPop(a)
  \/ CondPopCount(a)
  \/ CondPopEmpty(a)
  \/ CondSignalMark(a)
  \/ CondEnqueue(a)

\* One step of the real thread w in worker_routine.
Work(w) == WorkerStep(w) /\ UNCHANGED clientVars

Next ==
  \/ \E a \in Actors : ActorStep(a)
  \/ \E w \in Workers : Work(w)

Spec == Init /\ [][Next]_vars

\* The kernel runs every real thread, and a real thread goes on running its
\* vthread or its loop.  Which vthread comes out of vs_queue is left open.
Fairness ==
  /\ \A a \in Actors : WF_vars(ActorStep(a))
  /\ \A w \in Workers : WF_vars(Work(w))

FairSpec == Spec /\ Fairness

-----------------------------------------------------------------------------
(***************************************************************************)
(* Properties.                                                             *)
(***************************************************************************)

\* The worker w has resumed a vthread that yielded the mutex in cond_wait and
\* has not released it yet: the mutex is still taken, on behalf of nobody.
OwesRelease(w) == wpc[w] = "ret" /\ wret[w] = Mutex

\* The mutex has at most one owner, counting a worker that must still release
\* it for a waiting vthread, and c is 1 exactly while it has one: neither the
\* hand-over from cond_wait to worker_routine nor the retry loops of
\* pthread_mutex_lock and pthread_cond_wait lose or duplicate ownership.
MutexOwned ==
  /\ \A a, b \in Actors : holds[a] /\ holds[b] => a = b
  /\ \A a \in Actors, w \in Workers : ~(holds[a] /\ OwesRelease(w))
  /\ \A w, x \in Workers : OwesRelease(w) /\ OwesRelease(x) => w = x
  /\ c[Mutex] = 1 <=> \/ \E a \in Actors : holds[a]
                      \/ \E w \in Workers : OwesRelease(w)

\* The positions of v in the condition variable's queue.
PositionsOf(v) ==
  IF blocked_vths = None
    THEN {}
    ELSE {i \in 1..Len(blocked_vths) : blocked_vths[i] = v}

\* The workers that have v and will run it on or put it back in vs_queue.
Carriers(v) ==
  {w \in Workers :
     /\ pvth[w] = v
     /\ \/ wpc[w] \in {"check", "resume", "run"}
        \/ wpc[w] = "ret" /\ wret[w] \in {"SUSPENDED", "LOCKFAIL"}}

\* The signallers that have popped v and will put it in vs_queue.
Wakers(v) == {a \in Actors : got[a] = v}

\* A vthread that has not returned from its start routine can always get to
\* run again: it is in vs_queue, a worker has it, it waits in the condition
\* variable, or a signaller is about to enqueue it.  A vthread for which none
\* of this holds is lost: no code has a pointer to it any more.
NoVthreadLost ==
  \A v \in VThreads :
    pc[v] # "ended" =>
      \/ runq[v] > 0
      \/ Carriers(v) # {}
      \/ PositionsOf(v) # {}
      \/ Wakers(v) # {}

\* Exactly one party is responsible for running a vthread next: it is in one
\* place only, except that a vthread that has just pushed itself on the
\* condition variable's queue still runs.
ExactlyOnePlace ==
  \A v \in VThreads :
    LET places == runq[v] + Cardinality(Carriers(v))
                    + Cardinality(PositionsOf(v)) + Cardinality(Wakers(v))
    IN  places = CASE pc[v] = "ended" -> 0
                   [] pc[v] = "cw_yield" -> 2
                   [] OTHER -> 1

\* Between the calls waiter_num is the number of vthreads in the queue.  It may be
\* more and never less: the waiters that are counted and not in the queue yet, and
\* the signallers that have popped one and not subtracted it yet, are the
\* difference.
WaiterNumCounts ==
  LET queued == IF blocked_vths = None THEN 0 ELSE Len(blocked_vths)
      coming == {a \in Actors : pc[a] \in {"cw_mark", "cw_hide", "cw_push"}}
      going  == {a \in Actors : pc[a] = "pop_count"}
  IN  waiter_num = queued + Cardinality(coming) + Cardinality(going)

\* No worker jumps to a context that does not hold a suspended vthread.
JumpsToContextData == fault # "stale_context"

\* Every vthread that is not waiting for a signal returns from its start
\* routine in the end: nobody starves in the retry loop of pthread_mutex_lock.
AllEndOrWait ==
  <>[](\/ fault # "none"
       \/ \A v \in VThreads : pc[v] = "ended" \/ PositionsOf(v) # {})

\* The state is well typed, and waiter_num, which waiters change before the queue
\* and signallers after it, agrees with it.
CondInv == TypeOK /\ WaiterNumCounts

=============================================================================
