-------------------------- MODULE MutexCondProofs --------------------------
(***************************************************************************)
(* Proofs about MutexCond, for any number of vthreads, raw threads,        *)
(* workers and calls: type correctness, ownership of the mutex, that no    *)
(* vthread is lost, and that waiter_num agrees with the queue.             *)
(***************************************************************************)
EXTENDS MutexCond, FiniteSetTheorems, SequenceTheorems, TLAPS

\* Facts about control points that the types alone do not give.
ControlOK ==
  /\ \A w \in Workers : wpc[w] # "idle" => pvth[w] \in VThreads
  /\ \A a \in Actors :
       /\ pc[a] \in {"cw_count", "cw_mark", "cw_hide", "cw_push", "cw_yield",
                     "cw_blocked", "cw_relock", "pop", "pop_count", "sig_mark", "enq"}
            => blocked_vths \in Seq(VThreads)
       /\ pc[a] \in {"cw_hide", "cw_push", "cw_yield", "cw_blocked", "cw_relock"}
            => a \in VThreads
       /\ pc[a] \in {"pop_count", "sig_mark", "enq"} <=> got[a] # None

TypeInv == TypeOK /\ ControlOK

\* The initial states are well typed.
LEMMA TypeInit == Init => TypeInv
BY ActorsAssumption, LocksAssumption, ClientAssumption
   DEF Init, SchedInit, TypeInv, TypeOK, SchedTypeOK, ControlOK, Actors, Status,
       WorkerPCs, PCs

\* A step of a worker keeps the types and the control facts.
LEMMA TypeWorker ==
  ASSUME TypeInv, NEW w \in Workers, Work(w)
  PROVE  TypeInv'
<1> USE ActorsAssumption, LocksAssumption, ClientAssumption
        DEF TypeInv, TypeOK, SchedTypeOK, ControlOK, clientVars, WorkerAt,
            WorkerPCs, Status
<1>1. CASE \E v \in VThreads : GetAndWork(w, v)
  BY <1>1 DEF Work, GetAndWork
<1>2. CASE PutBack(w)
  BY <1>2 DEF Work, PutBack, Enqueue, ToLoop
<1>3. CASE Accept(w)
  BY <1>3 DEF Work, Accept, Goto
<1>4. CASE Resume(w)
  <2>1. /\ wpc[w] = "resume"
        /\ UNCHANGED <<runq, runnable, cur_status, c, pvth, wret, clientVars>>
    BY <1>4 DEF Work, Resume, Goto, workerVars
  <2>2. CASE HasContext(pvth[w])
    <3>1. wpc' = [wpc EXCEPT ![w] = "run"] /\ fault' = fault
      BY <1>4, <2>2 DEF Resume, Goto
    <3> QED
      BY <2>1, <3>1
  <2>3. CASE ~HasContext(pvth[w])
    <3>1. wpc' = wpc /\ fault' = "stale_context"
      BY <1>4, <2>3 DEF Resume, workerVars
    <3> QED
      BY <2>1, <3>1
  <2> QED
    BY <2>2, <2>3
<1>5. CASE RetBlocked(w)
  BY <1>5 DEF Work, RetBlocked, ToLoop
<1>6. CASE RetSuspended(w)
  BY <1>6 DEF Work, RetSuspended, Enqueue, ToLoop
<1>7. CASE RetMutex(w)
  BY <1>7 DEF Work, RetMutex, Goto
<1>8. CASE MarkRunnable(w)
  BY <1>8 DEF Work, MarkRunnable, Goto
<1>9. CASE EnqueueIfSuspended(w)
  BY <1>9 DEF Work, EnqueueIfSuspended, Enqueue, ToLoop
<1>10. CASE FinishUnjoined(w)
  BY <1>10 DEF Work, FinishUnjoined, ToLoop
<1> QED
  BY <1>1, <1>2, <1>3, <1>4, <1>5, <1>6, <1>7, <1>8, <1>9, <1>10
     DEF Work, WorkerStep, LoopStep

\* What a yield does to the variables of the workers.
LEMMA YieldTypes ==
  ASSUME TypeInv, NEW a \in Actors, NEW code \in Status \cup Locks,
         YieldMyself(a, code)
  PROVE  /\ wpc' \in [Workers -> WorkerPCs]
         /\ pvth' \in [Workers -> VThreads \cup {None}]
         /\ wret' \in [Workers -> Status \cup Locks \cup {None}]
         /\ fault' \in {"none", "nullptr", "stale_context"}
         /\ \A w \in Workers : wpc'[w] # "idle" => pvth'[w] \in VThreads
<1> USE DEF TypeInv, TypeOK, SchedTypeOK, ControlOK, workerVars
<1>1. CASE fault' = "nullptr" /\ UNCHANGED workerVars
  BY <1>1
<1>2. CASE \E w \in Workers :
             /\ RunsOn(a, w)
             /\ wpc' = [wpc EXCEPT ![w] = "ret"]
             /\ wret' = [wret EXCEPT ![w] = code]
             /\ UNCHANGED <<pvth, fault>>
  <2> PICK w \in Workers :
             /\ RunsOn(a, w)
             /\ wpc' = [wpc EXCEPT ![w] = "ret"]
             /\ wret' = [wret EXCEPT ![w] = code]
             /\ UNCHANGED <<pvth, fault>>
    BY <1>2
  <2> QED
    BY DEF RunsOn, WorkerPCs
<1> QED
  BY <1>1, <1>2 DEF YieldMyself

\* A step of an actor keeps the types and the control facts.
LEMMA TypeActor ==
  ASSUME TypeInv, NEW a \in Actors, ActorStep(a)
  PROVE  TypeInv'
<1> USE ActorsAssumption, LocksAssumption, ClientAssumption
        DEF TypeInv, TypeOK, SchedTypeOK, ControlOK, clientVars, schedVars,
            workerVars, At, Move, Status, WorkerPCs, PCs, Actors
<1>1. CASE CallLock(a)
  <2>1. /\ pc[a] = "ready"
        /\ pc' = [pc EXCEPT ![a] = "lock"]
        /\ calls[a] > 0
        /\ calls' = [calls EXCEPT ![a] = @ - 1]
        /\ UNCHANGED <<runq, runnable, cur_status, c, wpc, pvth, wret, fault,
                       blocked_vths, waiter_num, call, got, holds>>
    BY <1>1 DEF CallLock, Calls
  <2>2. pc' \in [Actors -> PCs] /\ calls' \in [Actors -> 0..MaxCalls]
    BY <2>1
  <2>3. TypeOK'
    BY <2>1, <2>2
  <2>4. ControlOK'
    BY <2>1
  <2> QED
    BY <2>3, <2>4
<1>2. CASE MutexLock(a)
  BY <1>2 DEF MutexLock, TakeMutex
<1>3. CASE MutexLockFail(a)
  BY <1>3, YieldTypes DEF MutexLockFail
<1>4. CASE MutexTrylock(a)
  <2>1. CASE TakeMutex(a)
    BY <1>4, <2>1 DEF MutexTrylock, Calls, TakeMutex
  <2>2. CASE UNCHANGED <<c, holds>>
    BY <1>4, <2>2 DEF MutexTrylock, Calls
  <2> QED
    BY <1>4, <2>1, <2>2 DEF MutexTrylock
<1>5. CASE MutexUnlock(a)
  BY <1>5 DEF MutexUnlock
<1>6. CASE SchedYield(a)
  BY <1>6, YieldTypes DEF SchedYield, Calls
<1>7. CASE End(a)
  BY <1>7, YieldTypes DEF End
<1>8. CASE \E op \in {"wait", "signal", "broadcast"} : CallCond(a, op)
  BY <1>8 DEF CallCond, Calls
<1>9. CASE CheckQueue(a)
  BY <1>9 DEF CheckQueue, AfterAlloc
<1>10. CASE AllocQueue(a)
  <2>1. CASE blocked_vths' = <<>> /\ Move(a, AfterAlloc(a))
    BY <1>10, <2>1 DEF AllocQueue, AfterAlloc
  <2>2. CASE Move(a, "chk") /\ UNCHANGED blocked_vths
    BY <1>10, <2>2 DEF AllocQueue
  <2> QED
    BY <1>10, <2>1, <2>2 DEF AllocQueue
<1>11. CASE CondWaitMark(a)
  <2>1. CASE a \in RawThreads
    BY <1>11, <2>1 DEF CondWaitMark
  <2>2. CASE a \in VThreads
    <3>1. waiter_num' \in Int
      BY <1>11 DEF CondWaitMark
    <3>b. cur_status' = [cur_status EXCEPT ![a] = "BLOCKED"]
      BY <1>11, <2>2 DEF CondWaitMark
    <3>2. cur_status' \in [VThreads -> Status]
      BY <2>2, <3>b
    <3>3. pc' = [pc EXCEPT ![a] = "cw_hide"] /\ pc[a] = "cw_mark"
      BY <1>11, <2>2 DEF CondWaitMark
    <3>4. UNCHANGED <<runq, runnable, c, wpc, pvth, wret, fault,
                      blocked_vths, call, got, holds, calls>>
      BY <1>11, <2>2 DEF CondWaitMark
    <3>a. pc' \in [Actors -> PCs]
      BY <3>3
    <3>5. TypeOK'
      BY <3>1, <3>2, <3>4, <3>a
    <3>6. ControlOK'
      BY <2>2, <3>3, <3>4
    <3> QED
      BY <3>5, <3>6
  <2> QED
    BY <2>1, <2>2
<1>12. CASE CondWaitHide(a)
  <2>1. a \in VThreads /\ pc[a] = "cw_hide"
    BY <1>12 DEF CondWaitHide
  <2>2. /\ pc' = [pc EXCEPT ![a] = "cw_push"]
        /\ runnable' = [runnable EXCEPT ![a] = FALSE]
        /\ UNCHANGED <<runq, cur_status, c, wpc, pvth, wret, fault,
                       blocked_vths, waiter_num, call, got, holds, calls>>
    BY <1>12 DEF CondWaitHide
  <2>3. runnable' \in [VThreads -> BOOLEAN]
    BY <2>1, <2>2, Zenon
  <2>4. pc' \in [Actors -> PCs]
    BY <2>2
  <2>5. TypeOK'
    BY <2>2, <2>3, <2>4
  <2>6. ControlOK'
    BY <2>1, <2>2
  <2> QED
    BY <2>5, <2>6
<1>13. CASE CondWaitPush(a)
  <2>1. a \in VThreads /\ pc[a] = "cw_push" /\ blocked_vths \in Seq(VThreads)
    BY <1>13 DEF CondWaitPush
  <2>2. /\ pc' = [pc EXCEPT ![a] = "cw_yield"]
        /\ blocked_vths' = Append(blocked_vths, a)
        /\ UNCHANGED <<runq, runnable, cur_status, c, wpc, pvth, wret, fault,
                       waiter_num, call, got, holds, calls>>
    BY <1>13 DEF CondWaitPush
  <2>3. blocked_vths' \in Seq(VThreads)
    BY <2>1, <2>2
  <2>4. pc' \in [Actors -> PCs]
    BY <2>2
  <2>5. TypeOK'
    BY <2>2, <2>3, <2>4
  <2>6. ControlOK'
    BY <2>1, <2>2, <2>3
  <2> QED
    BY <2>5, <2>6
<1>14. CASE CondWaitYield(a)
  BY <1>14, YieldTypes DEF CondWaitYield
<1>15. CASE CondWaitResumed(a)
  BY <1>15 DEF CondWaitResumed
<1>16. CASE CondWaitRelock(a)
  <2>1. /\ pc[a] = "cw_relock"
        /\ pc' = [pc EXCEPT ![a] = "ready"]
        /\ c' = [c EXCEPT ![Mutex] = 1]
        /\ call' = [call EXCEPT ![a] = None]
        /\ holds' = [holds EXCEPT ![a] = TRUE]
    BY <1>16 DEF CondWaitRelock, TakeMutex
  <2>2. UNCHANGED <<runq, runnable, cur_status, wpc, pvth, wret, fault,
                    blocked_vths, waiter_num, got, calls>>
    BY <1>16 DEF CondWaitRelock
  <2>3. holds' \in [Actors -> BOOLEAN]
    BY <2>1, Zenon
  <2>4. /\ c' \in [Locks -> {0, 1}]
        /\ call' \in [Actors -> {"wait", "signal", "broadcast", None}]
        /\ pc' \in [Actors -> PCs]
    BY <2>1
  <2>5. TypeOK'
    BY <2>2, <2>3, <2>4
  <2>6. ControlOK'
    BY <2>1, <2>2
  <2> QED
    BY <2>5, <2>6
<1>17. CASE CondWaitRelockFail(a)
  BY <1>17, YieldTypes DEF CondWaitRelockFail
<1>18. CASE CondPop(a)
  <2>1. pc[a] = "pop" /\ blocked_vths \in Seq(VThreads) /\ blocked_vths # <<>>
    BY <1>18 DEF CondPop
  <2>2. /\ got' = [got EXCEPT ![a] = Head(blocked_vths)]
        /\ blocked_vths' = Tail(blocked_vths)
        /\ UNCHANGED <<runq, runnable, cur_status, c, wpc, pvth, wret, fault,
                       waiter_num, call, holds, calls>>
    BY <1>18 DEF CondPop
  <2>3. pc' = [pc EXCEPT ![a] = "pop_count"]
    BY <1>18 DEF CondPop
  <2>4. Head(blocked_vths) \in VThreads /\ blocked_vths' \in Seq(VThreads)
    BY <2>1, <2>2
  <2>5. got' \in [Actors -> VThreads \cup {None}] /\ pc' \in [Actors -> PCs]
    BY <2>2, <2>3, <2>4
  <2>6. TypeOK'
    BY <2>2, <2>4, <2>5
  <2>7. ControlOK'
    <3>1. \A x \in Workers : wpc'[x] # "idle" => pvth'[x] \in VThreads
      BY <2>2
    <3>2. ASSUME NEW b \in Actors
          PROVE  /\ pc'[b] \in {"cw_hide", "cw_push", "cw_yield", "cw_blocked",
                                "cw_relock"} => b \in VThreads
                 /\ pc'[b] \in {"pop_count", "sig_mark", "enq"} <=> got'[b] # None
      BY <2>2, <2>3, <2>4
    <3> QED
      BY <2>4, <3>1, <3>2
  <2> QED
    BY <2>6, <2>7
<1>19. CASE CondPopEmpty(a)
  <2>1. /\ pc[a] = "pop"
        /\ pc' = [pc EXCEPT ![a] = "ready"]
        /\ call' = [call EXCEPT ![a] = None]
        /\ UNCHANGED <<runq, runnable, c, wpc, pvth, wret,
                       blocked_vths, waiter_num, got, holds, calls>>
    BY <1>19 DEF CondPopEmpty
  <2>2. cur_status' \in [VThreads -> Status] /\ fault' \in {fault, "nullptr"}
    BY <1>19 DEF CondPopEmpty
  <2>3. /\ pc' \in [Actors -> PCs]
        /\ call' \in [Actors -> {"wait", "signal", "broadcast", None}]
    BY <2>1
  <2>4. TypeOK'
    BY <2>1, <2>2, <2>3
  <2>5. ControlOK'
    BY <2>1
  <2> QED
    BY <2>4, <2>5
<1>20. CASE CondSignalMark(a)
  <2>1. /\ pc[a] = "sig_mark" /\ got[a] \in VThreads
        /\ pc' = [pc EXCEPT ![a] = "enq"]
        /\ cur_status' = [cur_status EXCEPT ![got[a]] = "SUSPENDED"]
        /\ UNCHANGED <<runq, runnable, c, wpc, pvth, wret, fault,
                       blocked_vths, waiter_num, call, got, holds, calls>>
    BY <1>20 DEF CondSignalMark
  <2>2. cur_status' \in [VThreads -> Status] /\ pc' \in [Actors -> PCs]
    BY <2>1
  <2>3. TypeOK'
    BY <2>1, <2>2
  <2>4. ControlOK'
    BY <2>1
  <2> QED
    BY <2>3, <2>4
<1>21. CASE CondEnqueue(a)
  <2>1. got[a] \in VThreads
    BY <1>21 DEF CondEnqueue
  <2>4. runq' \in [VThreads -> Nat]
    BY <1>21, <2>1 DEF CondEnqueue, Enqueue
  <2>5. got' = [got EXCEPT ![a] = None] /\ pc[a] = "enq"
    BY <1>21 DEF CondEnqueue
  <2>6. UNCHANGED <<runnable, cur_status, c, wpc, pvth, wret, fault,
                    blocked_vths, waiter_num, holds, calls>>
    BY <1>21 DEF CondEnqueue
  <2>2. CASE call[a] = "signal"
    <3>1. pc' = [pc EXCEPT ![a] = "ready"] /\ call' = [call EXCEPT ![a] = None]
      BY <1>21, <2>2 DEF CondEnqueue
    <3>2. TypeOK'
      BY <2>4, <2>5, <2>6, <3>1
    <3>3. ControlOK'
      BY <2>5, <2>6, <3>1
    <3> QED
      BY <3>2, <3>3
  <2>3. CASE call[a] = "broadcast"
    <3>1. pc' = [pc EXCEPT ![a] = "pop"] /\ call' = call
      BY <1>21, <2>3 DEF CondEnqueue
    <3>2. TypeOK'
      BY <2>4, <2>5, <2>6, <3>1
    <3>3. ControlOK'
      BY <2>3, <2>5, <2>6, <3>1
    <3> QED
      BY <3>2, <3>3
  <2> QED
    BY <1>21, <2>2, <2>3 DEF CondEnqueue
<1>22. CASE CondWaitCount(a)
  <2>1. /\ pc[a] = "cw_count"
        /\ pc' = [pc EXCEPT ![a] = "cw_mark"]
        /\ waiter_num' = waiter_num + 1
        /\ UNCHANGED <<runq, runnable, cur_status, c, wpc, pvth, wret, fault,
                       blocked_vths, call, got, holds, calls>>
    BY <1>22 DEF CondWaitCount
  <2>2. pc' \in [Actors -> PCs] /\ waiter_num' \in Int
    BY <2>1
  <2>3. TypeOK'
    BY <2>1, <2>2
  <2>4. ControlOK'
    BY <2>1
  <2> QED
    BY <2>3, <2>4
<1>23. CASE CondPopCount(a)
  <2>1. /\ pc[a] = "pop_count"
        /\ waiter_num' = waiter_num - 1
        /\ UNCHANGED <<runq, runnable, cur_status, c, wpc, pvth, wret, fault,
                       blocked_vths, call, got, holds, calls>>
    BY <1>23 DEF CondPopCount
  <2>2. PICK l \in {"sig_mark", "enq"} : pc' = [pc EXCEPT ![a] = l]
    BY <1>23 DEF CondPopCount
  <2>3. pc' \in [Actors -> PCs] /\ waiter_num' \in Int
    BY <2>1, <2>2
  <2>4. TypeOK'
    BY <2>1, <2>3
  <2>5. ControlOK'
    BY <2>1, <2>2
  <2> QED
    BY <2>4, <2>5
<1> QED
  BY <1>1, <1>2, <1>3, <1>4, <1>5, <1>6, <1>7, <1>8, <1>9, <1>10, <1>11,
     <1>12, <1>13, <1>14, <1>15, <1>16, <1>17, <1>18, <1>19, <1>20, <1>21,
     <1>22, <1>23
     DEF ActorStep

\* Every variable of MutexCond has its type, and a control point that uses the
\* condition variable's queue, a popped waiter or a worker's vthread finds it
\* there: no step of strategy.h reads a null queue or a null waiter.
THEOREM TypeCorrect == Spec => []TypeInv
<1>1. TypeInv /\ [Next]_vars => TypeInv'
  <2> SUFFICES ASSUME TypeInv, [Next]_vars PROVE TypeInv'
    OBVIOUS
  <2>1. CASE \E a \in Actors : ActorStep(a)
    BY <2>1, TypeActor
  <2>2. CASE \E w \in Workers : Work(w)
    BY <2>2, TypeWorker
  <2>3. CASE UNCHANGED vars
    BY <2>3 DEF vars, schedVars, clientVars, TypeInv, TypeOK, SchedTypeOK, ControlOK
  <2> QED
    BY <2>1, <2>2, <2>3 DEF Next
<1> QED
  BY <1>1, TypeInit, PTL DEF Spec

-----------------------------------------------------------------------------
(***************************************************************************)
(* Ownership of the mutex.  MutexOwned is not inductive: the step that     *)
(* hands the mutex to the worker needs that the waiter owns it.            *)
(***************************************************************************)

\* An actor in pthread_cond_wait owns the mutex until it yields.
WaiterHolds ==
  \A a \in Actors :
    \/ pc[a] \in {"cw_count", "cw_mark", "cw_hide", "cw_push", "cw_yield"}
    \/ pc[a] \in {"chk", "alloc"} /\ call[a] = "wait"
    => holds[a]

OwnInv == MutexOwned /\ WaiterHolds

\* A step of a worker keeps the ownership of the mutex: it may only release the
\* mutex that it owes.
LEMMA OwnWorker ==
  ASSUME TypeInv, OwnInv, NEW w \in Workers, Work(w)
  PROVE  OwnInv'
<1> USE LocksAssumption, ClientAssumption
        DEF TypeInv, TypeOK, SchedTypeOK, OwnInv, MutexOwned, OwesRelease,
            WaiterHolds, clientVars, WorkerAt, Status
<1>1. CASE \E v \in VThreads : GetAndWork(w, v)
  BY <1>1 DEF Work, GetAndWork
<1>2. CASE PutBack(w)
  BY <1>2 DEF Work, PutBack, ToLoop
<1>3. CASE Accept(w)
  BY <1>3 DEF Work, Accept, Goto
<1>4. CASE Resume(w)
  <2>1. /\ wpc[w] = "resume" /\ UNCHANGED <<c, wret, clientVars>>
        /\ wpc' = wpc \/ wpc' = [wpc EXCEPT ![w] = "run"]
    BY <1>4 DEF Work, Resume, Goto, workerVars
  <2>2. \A x \in Workers : OwesRelease(x)' <=> OwesRelease(x)
    BY <2>1
  <2> QED
    BY <2>1, <2>2
<1>5. CASE RetBlocked(w)
  BY <1>5 DEF Work, RetBlocked, ToLoop
<1>6. CASE RetSuspended(w)
  BY <1>6 DEF Work, RetSuspended, ToLoop
<1>7. CASE RetMutex(w)
  BY <1>7 DEF Work, RetMutex, Goto
<1>8. CASE MarkRunnable(w)
  BY <1>8 DEF Work, MarkRunnable, Goto
<1>9. CASE EnqueueIfSuspended(w)
  BY <1>9 DEF Work, EnqueueIfSuspended, ToLoop
<1>10. CASE FinishUnjoined(w)
  BY <1>10 DEF Work, FinishUnjoined, ToLoop
<1> QED
  BY <1>1, <1>2, <1>3, <1>4, <1>5, <1>6, <1>7, <1>8, <1>9, <1>10
     DEF Work, WorkerStep, LoopStep

\* A yield with a code that is not the mutex leaves no worker owing a release
\* that did not owe one before.
LEMMA YieldOwes ==
  ASSUME TypeInv, NEW a \in Actors, NEW code \in Status, YieldMyself(a, code)
  PROVE  \A w \in Workers : OwesRelease(w)' <=> OwesRelease(w)
BY LocksAssumption, ClientAssumption
   DEF YieldMyself, RunsOn, OwesRelease, TypeInv, TypeOK, SchedTypeOK, workerVars

\* A step of an actor keeps the ownership of the mutex.
LEMMA OwnActor ==
  ASSUME TypeInv, OwnInv, NEW a \in Actors, ActorStep(a)
  PROVE  OwnInv'
<1> USE LocksAssumption, ClientAssumption
        DEF TypeInv, TypeOK, SchedTypeOK, OwnInv, MutexOwned, WaiterHolds,
            clientVars, schedVars, workerVars, At, Move
<1>1. CASE CallLock(a)
  BY <1>1 DEF CallLock, Calls, OwesRelease
<1>2. CASE MutexLock(a)
  BY <1>2 DEF MutexLock, TakeMutex, OwesRelease
<1>3. CASE MutexLockFail(a)
  BY <1>3, YieldOwes DEF MutexLockFail, Status
<1>4. CASE MutexTrylock(a)
  <2>1. CASE TakeMutex(a)
    BY <1>4, <2>1 DEF MutexTrylock, Calls, TakeMutex, OwesRelease
  <2>2. CASE UNCHANGED <<c, holds>>
    BY <1>4, <2>2 DEF MutexTrylock, OwesRelease
  <2> QED
    BY <1>4, <2>1, <2>2 DEF MutexTrylock
<1>5. CASE MutexUnlock(a)
  BY <1>5 DEF MutexUnlock, OwesRelease
<1>6. CASE SchedYield(a)
  BY <1>6, YieldOwes DEF SchedYield, Calls, Status
<1>7. CASE End(a)
  BY <1>7, YieldOwes DEF End, Status
<1>8. CASE \E op \in {"wait", "signal", "broadcast"} : CallCond(a, op)
  BY <1>8 DEF CallCond, Calls, OwesRelease
<1>9. CASE CheckQueue(a)
  BY <1>9 DEF CheckQueue, AfterAlloc, OwesRelease
<1>10. CASE AllocQueue(a)
  BY <1>10 DEF AllocQueue, AfterAlloc, OwesRelease
<1>11. CASE CondWaitMark(a)
  BY <1>11 DEF CondWaitMark, OwesRelease
<1>12. CASE CondWaitHide(a)
  BY <1>12 DEF CondWaitHide, OwesRelease
<1>13. CASE CondWaitPush(a)
  BY <1>13 DEF CondWaitPush, OwesRelease
<1>14. CASE CondWaitYield(a)
  <2>1. /\ holds[a] /\ c[Mutex] = 1
        /\ \A b \in Actors : holds[b] => b = a
        /\ \A x \in Workers : ~OwesRelease(x)
        /\ c' = c
        /\ holds' = [holds EXCEPT ![a] = FALSE]
    BY <1>14 DEF CondWaitYield
  <2>2. \A b \in Actors : ~holds'[b]
    BY <2>1
  <2>3. a \in VThreads
    BY <1>14 DEF CondWaitYield, ControlOK
  <2>4. PICK w \in Workers :
               /\ wpc' = [wpc EXCEPT ![w] = "ret"]
               /\ wret' = [wret EXCEPT ![w] = Mutex]
    BY <1>14, <2>3, ActorsAssumption DEF CondWaitYield, YieldMyself
  <2>5. \A x \in Workers : OwesRelease(x)' <=> x = w
    BY <2>1, <2>4 DEF OwesRelease
  <2>6. MutexOwned'
    BY <2>1, <2>2, <2>5
  <2>7. WaiterHolds'
    BY <1>14, <2>2 DEF CondWaitYield
  <2> QED
    BY <2>6, <2>7
<1>15. CASE CondWaitResumed(a)
  BY <1>15 DEF CondWaitResumed, OwesRelease
<1>16. CASE CondWaitRelock(a)
  <2>1. /\ c[Mutex] = 0
        /\ c'[Mutex] = 1
        /\ pc' = [pc EXCEPT ![a] = "ready"]
        /\ call' = [call EXCEPT ![a] = None]
        /\ holds' = [holds EXCEPT ![a] = TRUE]
        /\ UNCHANGED <<wpc, wret>>
    BY <1>16 DEF CondWaitRelock, TakeMutex
  <2>2. /\ \A b \in Actors : ~holds[b]
        /\ \A x \in Workers : ~OwesRelease(x)
    BY <2>1
  <2>3. \A x \in Workers : ~OwesRelease(x)'
    BY <2>1, <2>2 DEF OwesRelease
  <2>4. \A b \in Actors : holds'[b] <=> b = a
    BY <2>1, <2>2, Zenon
  <2>5. MutexOwned'
    BY <2>1, <2>3, <2>4
  <2>6. WaiterHolds'
    BY <2>1, <2>2, <2>4
  <2> QED
    BY <2>5, <2>6
<1>17. CASE CondWaitRelockFail(a)
  BY <1>17, YieldOwes DEF CondWaitRelockFail, Status
<1>18. CASE CondPop(a)
  BY <1>18 DEF CondPop, OwesRelease
<1>19. CASE CondPopEmpty(a)
  BY <1>19 DEF CondPopEmpty, OwesRelease
<1>20. CASE CondSignalMark(a)
  BY <1>20 DEF CondSignalMark, OwesRelease
<1>21. CASE CondEnqueue(a)
  <2>1. UNCHANGED <<c, holds, wpc, wret>>
    BY <1>21 DEF CondEnqueue
  <2>2. \A b \in Actors : \/ pc'[b] = pc[b] /\ call'[b] = call[b]
                          \/ pc'[b] \in {"ready", "pop"}
    BY <1>21 DEF CondEnqueue
  <2>3. MutexOwned'
    BY <2>1 DEF OwesRelease
  <2>4. WaiterHolds'
    BY <2>1, <2>2
  <2> QED
    BY <2>3, <2>4
<1>22. CASE CondWaitCount(a)
  BY <1>22 DEF CondWaitCount, OwesRelease
<1>23. CASE CondPopCount(a)
  BY <1>23 DEF CondPopCount, OwesRelease
<1> QED
  BY <1>1, <1>2, <1>3, <1>4, <1>5, <1>6, <1>7, <1>8, <1>9, <1>10, <1>11,
     <1>12, <1>13, <1>14, <1>15, <1>16, <1>17, <1>18, <1>19, <1>20, <1>21,
     <1>22, <1>23
     DEF ActorStep

\* For any number of actors, the mutex has at most one owner, and c is 1
\* exactly while it has one: see MutexOwned.
THEOREM MutexOwnership == Spec => []MutexOwned
<1>1. Init => OwnInv
  BY ClientAssumption
     DEF Init, SchedInit, OwnInv, MutexOwned, OwesRelease, WaiterHolds
<1>2. TypeInv /\ OwnInv /\ [Next]_vars => OwnInv'
  <2> SUFFICES ASSUME TypeInv, OwnInv, [Next]_vars PROVE OwnInv'
    OBVIOUS
  <2>1. CASE \E a \in Actors : ActorStep(a)
    BY <2>1, OwnActor
  <2>2. CASE \E w \in Workers : Work(w)
    BY <2>2, OwnWorker
  <2>3. CASE UNCHANGED vars
    BY <2>3 DEF vars, schedVars, clientVars, OwnInv, MutexOwned, OwesRelease,
                WaiterHolds
  <2> QED
    BY <2>1, <2>2, <2>3 DEF Next
<1>3. OwnInv => MutexOwned
  BY DEF OwnInv
<1> QED
  BY <1>1, <1>2, <1>3, TypeCorrect, PTL DEF Spec

-----------------------------------------------------------------------------
(***************************************************************************)
(* No vthread is lost.  A vthread that yields the mutex in cond_wait gives *)
(* up the worker that runs it, so it must already be somewhere else: the   *)
(* strengthening follows it from the moment it pushes itself.              *)
(***************************************************************************)

InQueue(v) ==
  blocked_vths # None /\ \E i \in 1..Len(blocked_vths) : blocked_vths[i] = v

BeingWoken(v) == \E a \in Actors : got[a] = v

Carried(v) ==
  \E w \in Workers :
    /\ pvth[w] = v
    /\ \/ wpc[w] \in {"check", "resume", "run"}
       \/ wpc[w] = "ret" /\ wret[w] \in {"SUSPENDED", "LOCKFAIL"}

\* v can be resumed by a party other than the worker that runs it now.
Elsewhere(v) ==
  \/ runq[v] > 0
  \/ InQueue(v)
  \/ BeingWoken(v)
  \/ \E w \in Workers : pvth[w] = v /\ wpc[w] \in {"check", "resume"}

\* The control points at which a vthread never gives up its worker.
RunningPCs ==
  {"chk", "alloc", "cw_count", "cw_mark", "cw_hide", "cw_push", "cw_yield",
   "pop", "pop_count", "sig_mark", "enq"}

PlacedInv ==
  \A v \in VThreads :
    /\ pc[v] # "ended" => Elsewhere(v) \/ Carried(v)
    /\ pc[v] \in RunningPCs => \E w \in Workers : RunsOn(v, w)
    /\ pc[v] = "cw_yield" => Elsewhere(v)

\* The inductive invariant implies the property.
LEMMA PlacedImpliesNotLost == PlacedInv => NoVthreadLost
<1> SUFFICES ASSUME PlacedInv, NEW v \in VThreads, pc[v] # "ended"
             PROVE  \/ runq[v] > 0
                    \/ Carriers(v) # {}
                    \/ PositionsOf(v) # {}
                    \/ Wakers(v) # {}
  BY DEF NoVthreadLost
<1>1. InQueue(v) => PositionsOf(v) # {}
  BY DEF InQueue, PositionsOf
<1>2. BeingWoken(v) => Wakers(v) # {}
  BY DEF BeingWoken, Wakers
<1>3. Carried(v) => Carriers(v) # {}
  BY DEF Carried, Carriers
<1> QED
  BY <1>1, <1>2, <1>3 DEF PlacedInv, Elsewhere, Carried

\* A step of w that changes only the variables of w, when w does not have v,
\* takes v from no other worker.
LEMMA WorkersFrame ==
  ASSUME NEW v \in VThreads, NEW w \in Workers,
         wpc[w] \in {"idle", "released", "marked"} \/ pvth[w] # v,
         \A y \in Workers \ {w} :
           pvth'[y] = pvth[y] /\ wpc'[y] = wpc[y] /\ wret'[y] = wret[y]
  PROVE  /\ Carried(v) => Carried(v)'
         /\ (\E y \in Workers : pvth[y] = v /\ wpc[y] \in {"check", "resume"})
              => \E y \in Workers : pvth'[y] = v /\ wpc'[y] \in {"check", "resume"}
         /\ \A y \in Workers : RunsOn(v, y) => RunsOn(v, y)'
BY DEF Carried, RunsOn

\* A step of a worker leaves every vthread placed.
LEMMA PlacedWorker ==
  ASSUME TypeInv, PlacedInv, NEW w \in Workers, Work(w)
  PROVE  PlacedInv'
<1> SUFFICES ASSUME NEW v \in VThreads
             PROVE  /\ pc'[v] # "ended" => Elsewhere(v)' \/ Carried(v)'
                    /\ pc'[v] \in RunningPCs => \E x \in Workers : RunsOn(v, x)'
                    /\ pc'[v] = "cw_yield" => Elsewhere(v)'
  BY DEF PlacedInv
<1>a. /\ InQueue(v)' <=> InQueue(v)
      /\ BeingWoken(v)' <=> BeingWoken(v)
      /\ pc' = pc
  BY DEF Work, clientVars, InQueue, BeingWoken
<1> USE <1>a, LocksAssumption
        DEF TypeInv, TypeOK, SchedTypeOK, ControlOK, PlacedInv, Elsewhere,
            Carried, RunsOn, WorkerAt, Work, Status
<1>1. CASE \E x \in VThreads : GetAndWork(w, x)
  <2>1. PICK x \in VThreads : GetAndWork(w, x)
    BY <1>1
  <2>2. \A y \in Workers : RunsOn(v, y) => RunsOn(v, y)'
    BY <2>1 DEF GetAndWork
  <2>3. CASE v = x
    <3>1. pvth'[w] = v /\ wpc'[w] = "check"
      BY <2>1, <2>3 DEF GetAndWork
    <3> QED
      BY <2>2, <3>1
  <2>4. CASE v # x
    <3>1. runq'[v] = runq[v]
      BY <2>1, <2>4 DEF GetAndWork
    <3>2. /\ wpc[w] = "idle"
          /\ wpc' = [wpc EXCEPT ![w] = "check"]
          /\ pvth' = [pvth EXCEPT ![w] = x]
          /\ wret' = wret
      BY <2>1 DEF GetAndWork
    <3>3. \A y \in Workers \ {w} :
             pvth'[y] = pvth[y] /\ wpc'[y] = wpc[y] /\ wret'[y] = wret[y]
      BY <3>2
    <3> HIDE DEF Carried, RunsOn
    <3>4. Carried(v) => Carried(v)'
      BY <3>2, <3>3, WorkersFrame
    <3>5. Elsewhere(v) => Elsewhere(v)'
      BY <3>1, <3>2, <3>3, WorkersFrame
    <3> QED
      BY <2>2, <3>4, <3>5
  <2> QED
    BY <2>3, <2>4
<1>2. CASE PutBack(w)
  BY <1>2 DEF PutBack, Enqueue, ToLoop
<1>3. CASE Accept(w)
  BY <1>3 DEF Accept, Goto
<1>4. CASE Resume(w)
  <2>1. CASE HasContext(pvth[w])
    <3>1. /\ wpc[w] = "resume"
          /\ wpc' = [wpc EXCEPT ![w] = "run"]
          /\ UNCHANGED <<pvth, wret, runq>>
      BY <1>4, <2>1 DEF Resume, Goto
    <3>2. \A y \in Workers : RunsOn(v, y) => RunsOn(v, y)'
      BY <3>1
    <3>3. CASE v = pvth[w]
      <4>1. Carried(v)'
        BY <3>1, <3>3
      <4>2. ~ \E y \in Workers : RunsOn(v, y)
        BY <2>1, <3>3 DEF HasContext
      <4> QED
        BY <3>2, <4>1, <4>2 DEF RunningPCs
    <3>4. CASE v # pvth[w]
      <4>1. Carried(v) => Carried(v)'
        BY <3>1, <3>4
      <4>2. Elsewhere(v) => Elsewhere(v)'
        BY <3>1, <3>4
      <4> QED
        BY <3>2, <4>1, <4>2
    <3> QED
      BY <3>3, <3>4
  <2>2. CASE ~HasContext(pvth[w])
    BY <1>4, <2>2 DEF Resume, workerVars
  <2> QED
    BY <2>1, <2>2
<1>5. CASE RetBlocked(w)
  BY <1>5 DEF RetBlocked, ToLoop
<1>6. CASE RetSuspended(w)
  BY <1>6 DEF RetSuspended, Enqueue, ToLoop
<1>7. CASE RetMutex(w)
  <2>1. /\ wpc[w] = "ret" /\ wret[w] \notin {"SUSPENDED", "LOCKFAIL"}
        /\ wpc' = [wpc EXCEPT ![w] = "released"]
        /\ UNCHANGED <<pvth, wret, runq>>
    BY <1>7 DEF RetMutex, Goto
  <2>2. \A y \in Workers : RunsOn(v, y) => RunsOn(v, y)'
    BY <2>1
  <2>3. Carried(v) => Carried(v)'
    BY <2>1
  <2>4. Elsewhere(v) => Elsewhere(v)'
    BY <2>1
  <2> QED
    BY <2>2, <2>3, <2>4
<1>8. CASE MarkRunnable(w)
  <2>1. /\ wpc[w] = "released"
        /\ wpc' = [wpc EXCEPT ![w] = "marked"]
        /\ UNCHANGED <<pvth, wret, runq>>
    BY <1>8 DEF MarkRunnable, Goto
  <2>2. \A y \in Workers : RunsOn(v, y) => RunsOn(v, y)'
    BY <2>1
  <2>3. Carried(v) => Carried(v)'
    BY <2>1
  <2>4. Elsewhere(v) => Elsewhere(v)'
    BY <2>1
  <2> QED
    BY <2>2, <2>3, <2>4
<1>9. CASE EnqueueIfSuspended(w)
  <2>1. /\ wpc[w] = "marked"
        /\ wpc' = [wpc EXCEPT ![w] = "idle"]
        /\ pvth' = [pvth EXCEPT ![w] = None]
        /\ wret' = [wret EXCEPT ![w] = None]
    BY <1>9 DEF EnqueueIfSuspended, ToLoop
  <2>2. runq[v] > 0 => runq'[v] > 0
    <3>1. CASE UNCHANGED runq
      BY <3>1
    <3>2. CASE Enqueue(pvth[w])
      <4>1. runq' = [runq EXCEPT ![pvth[w]] = runq[pvth[w]] + 1]
        BY <3>2 DEF Enqueue
      <4>2. runq[v] \in Nat /\ runq'[v] \in {runq[v], runq[v] + 1}
        BY <4>1
      <4> QED
        BY <4>2
    <3> QED
      BY <1>9, <3>1, <3>2 DEF EnqueueIfSuspended
  <2>3. \A y \in Workers : RunsOn(v, y) => RunsOn(v, y)'
    BY <2>1
  <2>4. Carried(v) => Carried(v)'
    BY <2>1
  <2>5. Elsewhere(v) => Elsewhere(v)'
    BY <2>1, <2>2
  <2> QED
    BY <2>3, <2>4, <2>5
<1>10. CASE FinishUnjoined(w)
  BY <1>10 DEF FinishUnjoined, ToLoop
<1> QED
  BY <1>1, <1>2, <1>3, <1>4, <1>5, <1>6, <1>7, <1>8, <1>9, <1>10
     DEF WorkerStep, LoopStep

\* A step of an actor that leaves the workers alone keeps PlacedInv if it puts
\* nobody in a worse place.
LEMMA PlacedStep ==
  ASSUME PlacedInv, NEW a \in Actors, Executing(a), UNCHANGED workerVars,
         NEW l, l # "cw_yield" \/ Elsewhere(a)', pc \in [Actors -> PCs],
         pc' = [pc EXCEPT ![a] = l],
         \A v \in VThreads : Elsewhere(v) => Elsewhere(v)'
  PROVE  PlacedInv'
<1> SUFFICES ASSUME NEW v \in VThreads
             PROVE  /\ pc'[v] # "ended" => Elsewhere(v)' \/ Carried(v)'
                    /\ pc'[v] \in RunningPCs => \E x \in Workers : RunsOn(v, x)'
                    /\ pc'[v] = "cw_yield" => Elsewhere(v)'
  BY DEF PlacedInv
<1>1. Carried(v)' <=> Carried(v)
  BY DEF Carried, workerVars
<1>2. \A x \in Workers : RunsOn(v, x)' <=> RunsOn(v, x)
  BY DEF RunsOn, workerVars
<1>3. CASE v = a
  <2>1. \E x \in Workers : RunsOn(v, x)
    BY <1>3, ActorsAssumption DEF Executing
  <2>2. Carried(v)
    BY <2>1 DEF Carried, RunsOn
  <2>3. pc'[v] = l
    BY <1>3
  <2> QED
    BY <1>1, <1>2, <1>3, <2>1, <2>2, <2>3
<1>4. CASE v # a
  <2>1. pc'[v] = pc[v]
    BY <1>4 DEF Actors
  <2> QED
    BY <1>1, <1>2, <2>1 DEF PlacedInv
<1> QED
  BY <1>3, <1>4

\* A yield takes a vthread other than the one that yields from no worker, and
\* with SUSPENDED or LOCKFAIL not even that one.
LEMMA YieldPlaced ==
  ASSUME TypeInv, NEW a \in Actors, NEW code, YieldMyself(a, code),
         NEW v \in VThreads, v # a \/ code \in {"SUSPENDED", "LOCKFAIL"}
  PROVE  /\ Carried(v) => Carried(v)'
         /\ v # a => \A x \in Workers : RunsOn(v, x) => RunsOn(v, x)'
<1>1. CASE UNCHANGED workerVars
  BY <1>1 DEF Carried, RunsOn, workerVars
<1>2. CASE \E w \in Workers :
             /\ RunsOn(a, w)
             /\ wpc' = [wpc EXCEPT ![w] = "ret"]
             /\ wret' = [wret EXCEPT ![w] = code]
             /\ UNCHANGED <<pvth, fault>>
  <2> PICK w \in Workers :
             /\ RunsOn(a, w)
             /\ wpc' = [wpc EXCEPT ![w] = "ret"]
             /\ wret' = [wret EXCEPT ![w] = code]
             /\ UNCHANGED <<pvth, fault>>
    BY <1>2
  <2>1. wpc'[w] = "ret" /\ wret'[w] = code /\ pvth'[w] = a /\ pvth[w] = a
    BY DEF RunsOn, TypeInv, TypeOK, SchedTypeOK
  <2>2. \A y \in Workers \ {w} :
          pvth'[y] = pvth[y] /\ wpc'[y] = wpc[y] /\ wret'[y] = wret[y]
    BY DEF TypeInv, TypeOK, SchedTypeOK
  <2>3. CASE v # a
    BY <2>1, <2>2, <2>3, WorkersFrame
  <2>4. CASE v = a
    BY <2>1, <2>4 DEF Carried
  <2> QED
    BY <2>3, <2>4
<1> QED
  BY <1>1, <1>2 DEF YieldMyself

\* A yield leaves v wherever else it was.
LEMMA YieldElsewhere ==
  ASSUME TypeInv, NEW a \in Actors, NEW code, YieldMyself(a, code),
         NEW v \in VThreads, Elsewhere(v), UNCHANGED <<runq, blocked_vths, got>>
  PROVE  Elsewhere(v)'
<1>1. /\ InQueue(v)' <=> InQueue(v)
      /\ BeingWoken(v)' <=> BeingWoken(v)
  BY DEF InQueue, BeingWoken
<1>2. ASSUME NEW y \in Workers, pvth[y] = v, wpc[y] \in {"check", "resume"}
      PROVE  pvth'[y] = v /\ wpc'[y] \in {"check", "resume"}
  BY <1>2 DEF YieldMyself, RunsOn, workerVars, TypeInv, TypeOK, SchedTypeOK
<1> QED
  BY <1>1, <1>2 DEF Elsewhere

\* A step that leaves the run queue, the workers, the condition variable's
\* queue and the popped waiters alone.
LEMMA PlacedQuiet ==
  ASSUME TypeInv, PlacedInv, NEW a \in Actors, Executing(a),
         NEW l, l # "cw_yield", pc' = [pc EXCEPT ![a] = l],
         UNCHANGED <<runq, workerVars, blocked_vths, got>>
  PROVE  PlacedInv'
<1>1. \A v \in VThreads : Elsewhere(v) => Elsewhere(v)'
  BY DEF Elsewhere, InQueue, BeingWoken, workerVars
<1> QED
  BY <1>1, PlacedStep DEF TypeInv, TypeOK

\* A step that yields SUSPENDED or LOCKFAIL, and will retry where it is.
LEMMA PlacedYield ==
  ASSUME TypeInv, PlacedInv, NEW a \in Actors, pc[a] \in {"ready", "lock", "cw_relock"},
         NEW code \in {"SUSPENDED", "LOCKFAIL"}, YieldMyself(a, code),
         UNCHANGED <<runq, blocked_vths, got, pc>>
  PROVE  PlacedInv'
<1> SUFFICES ASSUME NEW v \in VThreads
             PROVE  /\ pc'[v] # "ended" => Elsewhere(v)' \/ Carried(v)'
                    /\ pc'[v] \in RunningPCs => \E x \in Workers : RunsOn(v, x)'
                    /\ pc'[v] = "cw_yield" => Elsewhere(v)'
  BY DEF PlacedInv
<1>1. Elsewhere(v) => Elsewhere(v)'
  BY YieldElsewhere
<1>2. Carried(v) => Carried(v)'
  BY YieldPlaced
<1>3. pc[v] \in RunningPCs => v # a
  BY DEF RunningPCs
<1>4. v # a => \A x \in Workers : RunsOn(v, x) => RunsOn(v, x)'
  BY YieldPlaced
<1> QED
  BY <1>1, <1>2, <1>3, <1>4 DEF PlacedInv

\* A step of an actor leaves every vthread placed.
LEMMA PlacedActor ==
  ASSUME TypeInv, PlacedInv, NEW a \in Actors, ActorStep(a)
  PROVE  PlacedInv'
<1> USE DEF At, Move, schedVars, clientVars, workerVars
<1>t. pc \in [Actors -> PCs] /\ got \in [Actors -> VThreads \cup {None}]
  BY DEF TypeInv, TypeOK
<1>1. CASE CallLock(a)
  BY <1>1, PlacedQuiet DEF CallLock, Calls
<1>2. CASE MutexLock(a)
  BY <1>2, PlacedQuiet DEF MutexLock
<1>3. CASE MutexLockFail(a)
  BY <1>3, PlacedYield DEF MutexLockFail
<1>4. CASE MutexTrylock(a)
  <2>1. pc' = [pc EXCEPT ![a] = "ready"]
    BY <1>4, <1>t DEF MutexTrylock, Calls
  <2> QED
    BY <1>4, <2>1, PlacedQuiet DEF MutexTrylock, Calls
<1>5. CASE MutexUnlock(a)
  <2>1. pc' = [pc EXCEPT ![a] = "ready"]
    BY <1>5, <1>t DEF MutexUnlock
  <2> QED
    BY <1>5, <2>1, PlacedQuiet DEF MutexUnlock
<1>6. CASE SchedYield(a)
  BY <1>6, PlacedYield DEF SchedYield, Calls
<1>7. CASE End(a)
  <2> SUFFICES ASSUME NEW v \in VThreads, v # a
               PROVE  /\ pc'[v] # "ended" => Elsewhere(v)' \/ Carried(v)'
                      /\ pc'[v] \in RunningPCs => \E x \in Workers : RunsOn(v, x)'
                      /\ pc'[v] = "cw_yield" => Elsewhere(v)'
    BY <1>7, <1>t DEF End, PlacedInv, RunningPCs
  <2>1. YieldMyself(a, "FINISHED") /\ UNCHANGED <<runq, blocked_vths, got>>
    BY <1>7 DEF End
  <2>2. Elsewhere(v) => Elsewhere(v)'
    BY <2>1, YieldElsewhere
  <2>3. /\ Carried(v) => Carried(v)'
        /\ \A x \in Workers : RunsOn(v, x) => RunsOn(v, x)'
    BY <2>1, YieldPlaced
  <2>4. pc'[v] = pc[v]
    BY <1>7, <1>t DEF End, Actors
  <2> QED
    BY <2>2, <2>3, <2>4 DEF PlacedInv
<1>8. CASE \E op \in {"wait", "signal", "broadcast"} : CallCond(a, op)
  BY <1>8, PlacedQuiet DEF CallCond, Calls
<1>9. CASE CheckQueue(a)
  <2> DEFINE l == IF blocked_vths = None THEN "alloc" ELSE AfterAlloc(a)
  <2>1. l # "cw_yield"
    BY DEF AfterAlloc
  <2>2. pc' = [pc EXCEPT ![a] = l]
    BY <1>9 DEF CheckQueue
  <2> QED
    BY <1>9, <2>1, <2>2, PlacedQuiet DEF CheckQueue
<1>10. CASE AllocQueue(a)
  <2>1. PICK l \in {"chk", "pop", "cw_count"} : pc' = [pc EXCEPT ![a] = l]
    BY <1>10 DEF AllocQueue, AfterAlloc
  <2>2. \A v \in VThreads : InQueue(v) => InQueue(v)'
    BY <1>10 DEF AllocQueue, InQueue
  <2>3. \A v \in VThreads : Elsewhere(v) => Elsewhere(v)'
    BY <1>10, <2>2 DEF AllocQueue, Elsewhere, BeingWoken
  <2> QED
    BY <1>10, <1>t, <2>1, <2>3, PlacedStep DEF AllocQueue
<1>11. CASE CondWaitMark(a)
  <2>1. PICK l \in {"cw_mark", "cw_hide"} : pc' = [pc EXCEPT ![a] = l]
    BY <1>11, <1>t DEF CondWaitMark
  <2> QED
    BY <1>11, <2>1, PlacedQuiet DEF CondWaitMark
<1>12. CASE CondWaitHide(a)
  BY <1>12, PlacedQuiet DEF CondWaitHide
<1>13. CASE CondWaitPush(a)
  <2>1. blocked_vths \in Seq(VThreads) /\ a \in VThreads
    BY <1>13 DEF CondWaitPush, TypeInv, ControlOK
  <2>2. blocked_vths' = Append(blocked_vths, a) /\ blocked_vths' \in Seq(VThreads)
    BY <1>13, <2>1 DEF CondWaitPush
  <2>3. blocked_vths' # None
    BY <2>2, QueueAssumption
  <2>4. \A v \in VThreads : InQueue(v) => InQueue(v)'
    BY <2>1, <2>2, <2>3 DEF InQueue
  <2>5. InQueue(a)'
    BY <2>1, <2>2, <2>3 DEF InQueue
  <2>6. \A v \in VThreads : Elsewhere(v) => Elsewhere(v)'
    BY <1>13, <2>4 DEF CondWaitPush, Elsewhere, BeingWoken
  <2>7. Elsewhere(a)'
    BY <2>5 DEF Elsewhere
  <2> QED
    BY <1>13, <1>t, <2>6, <2>7, PlacedStep DEF CondWaitPush
<1>14. CASE CondWaitYield(a)
  <2> SUFFICES ASSUME NEW v \in VThreads
               PROVE  /\ pc'[v] # "ended" => Elsewhere(v)' \/ Carried(v)'
                      /\ pc'[v] \in RunningPCs => \E x \in Workers : RunsOn(v, x)'
                      /\ pc'[v] = "cw_yield" => Elsewhere(v)'
    BY DEF PlacedInv
  <2>1. YieldMyself(a, Mutex) /\ UNCHANGED <<runq, blocked_vths, got>>
    BY <1>14 DEF CondWaitYield
  <2>2. Elsewhere(v) => Elsewhere(v)'
    BY <2>1, YieldElsewhere
  <2>3. CASE v = a
    <3>1. Elsewhere(v)
      BY <1>14, <2>3 DEF CondWaitYield, PlacedInv
    <3>2. pc'[v] = "cw_blocked"
      BY <1>14, <1>t, <2>3 DEF CondWaitYield
    <3> QED
      BY <2>2, <3>1, <3>2 DEF RunningPCs
  <2>4. CASE v # a
    <3>1. /\ Carried(v) => Carried(v)'
          /\ \A x \in Workers : RunsOn(v, x) => RunsOn(v, x)'
      BY <2>1, <2>4, YieldPlaced
    <3>2. pc'[v] = pc[v]
      BY <1>14, <1>t, <2>4 DEF CondWaitYield, Actors
    <3> QED
      BY <2>2, <3>1, <3>2 DEF PlacedInv
  <2> QED
    BY <2>3, <2>4
<1>15. CASE CondWaitResumed(a)
  BY <1>15, PlacedQuiet DEF CondWaitResumed
<1>16. CASE CondWaitRelock(a)
  BY <1>16, PlacedQuiet DEF CondWaitRelock
<1>17. CASE CondWaitRelockFail(a)
  BY <1>17, PlacedYield DEF CondWaitRelockFail
<1>18. CASE CondPop(a)
  <2>1. blocked_vths \in Seq(VThreads) /\ got[a] = None /\ pc[a] = "pop"
    BY <1>18 DEF CondPop, TypeInv, ControlOK
  <2>2. /\ got' = [got EXCEPT ![a] = Head(blocked_vths)]
        /\ blocked_vths # <<>> /\ blocked_vths' = Tail(blocked_vths)
    BY <1>18 DEF CondPop
  <2>3. blocked_vths' # None
    BY <2>1, <2>2, QueueAssumption
  <2>4. ASSUME NEW v \in VThreads, InQueue(v)
        PROVE  InQueue(v)' \/ got'[a] = v
    <3>1. PICK i \in 1..Len(blocked_vths) : blocked_vths[i] = v
      BY <2>4 DEF InQueue
    <3>2. CASE i = 1
      BY <2>1, <2>2, <1>t, <3>1, <3>2
    <3>3. CASE i # 1
      <4>1. i - 1 \in 1..Len(blocked_vths') /\ blocked_vths'[i - 1] = v
        BY <2>1, <2>2, <3>1, <3>3
      <4> QED
        BY <2>3, <4>1 DEF InQueue
    <3> QED
      BY <3>2, <3>3
  <2>5. \A v \in VThreads : BeingWoken(v) => BeingWoken(v)'
    BY <2>1, <2>2, <1>t, ActorsAssumption DEF BeingWoken
  <2>6. \A v \in VThreads : got'[a] = v => BeingWoken(v)'
    BY DEF BeingWoken
  <2>7. \A v \in VThreads : Elsewhere(v) => Elsewhere(v)'
    BY <1>18, <2>4, <2>5, <2>6 DEF CondPop, Elsewhere
  <2> QED
    BY <1>18, <1>t, <2>7, PlacedStep DEF CondPop
<1>19. CASE CondPopEmpty(a)
  BY <1>19, PlacedQuiet DEF CondPopEmpty
<1>20. CASE CondSignalMark(a)
  BY <1>20, PlacedQuiet DEF CondSignalMark
<1>21. CASE CondEnqueue(a)
  <2>1. got[a] \in VThreads /\ runq \in [VThreads -> Nat]
    BY <1>21, <1>t DEF CondEnqueue, TypeInv, TypeOK, SchedTypeOK, ControlOK
  <2>2. /\ runq' = [runq EXCEPT ![got[a]] = @ + 1]
        /\ got' = [got EXCEPT ![a] = None]
    BY <1>21 DEF CondEnqueue, Enqueue
  <2>3. \A v \in VThreads : runq[v] > 0 => runq'[v] > 0
    BY <2>1, <2>2
  <2>4. runq'[got[a]] > 0
    BY <2>1, <2>2
  <2>5. \A v \in VThreads : BeingWoken(v) => BeingWoken(v)' \/ got[a] = v
    BY <2>2, <1>t DEF BeingWoken
  <2>6. \A v \in VThreads : InQueue(v)' <=> InQueue(v)
    BY <1>21 DEF CondEnqueue, InQueue
  <2>7. \A v \in VThreads : Elsewhere(v) => Elsewhere(v)'
    BY <1>21, <2>3, <2>4, <2>5, <2>6 DEF CondEnqueue, Elsewhere
  <2>8. PICK l \in {"ready", "pop"} : pc' = [pc EXCEPT ![a] = l]
    BY <1>21 DEF CondEnqueue
  <2> QED
    BY <1>21, <1>t, <2>7, <2>8, PlacedStep DEF CondEnqueue
<1>22. CASE CondWaitCount(a)
  BY <1>22, PlacedQuiet DEF CondWaitCount
<1>23. CASE CondPopCount(a)
  <2>1. PICK l \in {"sig_mark", "enq"} : pc' = [pc EXCEPT ![a] = l]
    BY <1>23 DEF CondPopCount
  <2> QED
    BY <1>23, <2>1, PlacedQuiet DEF CondPopCount
<1> QED
  BY <1>1, <1>2, <1>3, <1>4, <1>5, <1>6, <1>7, <1>8, <1>9, <1>10, <1>11,
     <1>12, <1>13, <1>14, <1>15, <1>16, <1>17, <1>18, <1>19, <1>20, <1>21,
     <1>22, <1>23
     DEF ActorStep

\* The strengthening is an invariant.
LEMMA PlacedAlways == Spec => []PlacedInv
<1>1. Init => PlacedInv
  <2> SUFFICES ASSUME Init, NEW v \in VThreads
               PROVE  pc[v] = "ready" /\ Elsewhere(v)
    BY DEF PlacedInv, RunningPCs
  <2>1. runq[v] = 1
    BY DEF Init, SchedInit
  <2>2. pc[v] = "ready"
    BY DEF Init, Actors
  <2> QED
    BY <2>1, <2>2 DEF Elsewhere
<1>2. TypeInv /\ PlacedInv /\ [Next]_vars => PlacedInv'
  <2> SUFFICES ASSUME TypeInv, PlacedInv, [Next]_vars PROVE PlacedInv'
    OBVIOUS
  <2>1. CASE \E a \in Actors : ActorStep(a)
    BY <2>1, PlacedActor
  <2>2. CASE \E w \in Workers : Work(w)
    BY <2>2, PlacedWorker
  <2>3. CASE UNCHANGED vars
    BY <2>3 DEF vars, schedVars, clientVars, PlacedInv, Elsewhere, InQueue,
                BeingWoken, Carried, RunsOn
  <2> QED
    BY <2>1, <2>2, <2>3 DEF Next
<1> QED
  BY <1>1, <1>2, TypeCorrect, PTL DEF Spec

\* For any number of actors and workers, a vthread that has not ended is always
\* somewhere it can be resumed from: see NoVthreadLost.
THEOREM NobodyLost == Spec => []NoVthreadLost
BY PlacedAlways, PlacedImpliesNotLost, PTL

-----------------------------------------------------------------------------
(***************************************************************************)
(* waiter_num.  A waiter adds itself before it pushes itself and a         *)
(* signaller subtracts a waiter after it has popped it: Coming and Going   *)
(* are the actors in between.                                              *)
(***************************************************************************)

\* The waiters that are counted and have not pushed themselves yet.
Coming == {a \in Actors : pc[a] \in {"cw_mark", "cw_hide", "cw_push"}}

\* The signallers that have popped a waiter that is still counted.
Going == {a \in Actors : pc[a] = "pop_count"}

Queued == IF blocked_vths = None THEN 0 ELSE Len(blocked_vths)

CountInv ==
  /\ IsFiniteSet(Coming) /\ IsFiniteSet(Going)
  /\ waiter_num = Queued + Cardinality(Coming) + Cardinality(Going)

\* A move between control points of which none or both are those of Coming, and
\* none or both that of Going.
LEMMA BetweenSame ==
  ASSUME TypeInv, NEW a \in Actors, NEW l, Move(a, l),
         pc[a] \in {"cw_mark", "cw_hide", "cw_push"}
           <=> l \in {"cw_mark", "cw_hide", "cw_push"},
         pc[a] = "pop_count" <=> l = "pop_count"
  PROVE  Coming' = Coming /\ Going' = Going
BY DEF Coming, Going, Move, TypeInv, TypeOK

\* The length of the queue is a natural number.
LEMMA QueuedNat == TypeInv => Queued \in Nat
<1> SUFFICES ASSUME TypeInv, blocked_vths # None PROVE Len(blocked_vths) \in Nat
  BY DEF Queued
<1>1. blocked_vths \in Seq(VThreads)
  BY DEF TypeInv, TypeOK
<1> QED
  BY <1>1, LenProperties

\* A step that leaves Coming, Going, the queue and waiter_num alone.
LEMMA CountQuiet ==
  ASSUME CountInv, Coming' = Coming, Going' = Going,
         UNCHANGED <<blocked_vths, waiter_num>>
  PROVE  CountInv'
BY DEF CountInv, Queued

\* A step of an actor keeps the count.
LEMMA CountActor ==
  ASSUME TypeInv, CountInv, NEW a \in Actors, ActorStep(a)
  PROVE  CountInv'
<1> USE DEF At, schedVars, clientVars
<1>0. /\ pc \in [Actors -> PCs]
      /\ waiter_num = Queued + Cardinality(Coming) + Cardinality(Going)
      /\ IsFiniteSet(Coming) /\ Cardinality(Coming) \in Nat
      /\ IsFiniteSet(Going) /\ Cardinality(Going) \in Nat
      /\ Queued \in Nat
  BY QueuedNat, FS_CardinalityType DEF CountInv, TypeInv, TypeOK
<1>1. CASE \E l \in PCs :
             /\ pc[a] \notin {"cw_mark", "cw_hide", "cw_push", "pop_count"}
             /\ l \notin {"cw_mark", "cw_hide", "cw_push", "pop_count"}
             /\ Move(a, l) /\ UNCHANGED <<blocked_vths, waiter_num>>
  BY <1>1, BetweenSame, CountQuiet
<1>2. CASE UNCHANGED <<pc, blocked_vths, waiter_num>>
  <2>1. Coming' = Coming /\ Going' = Going
    BY <1>2 DEF Coming, Going
  <2> QED
    BY <1>2, <2>1, CountQuiet
<1>3. CASE AllocQueue(a)
  <2>1. \E l \in {"cw_count", "pop", "chk"} : Move(a, l)
    BY <1>3 DEF AllocQueue, AfterAlloc
  <2>2. Coming' = Coming /\ Going' = Going
    BY <1>3, <2>1, BetweenSame DEF AllocQueue
  <2>3. Queued' = Queued
    BY <1>3, QueueAssumption, EmptySeq DEF AllocQueue, Queued
  <2> QED
    BY <1>0, <1>3, <2>2, <2>3 DEF AllocQueue, CountInv
<1>4. CASE CondWaitCount(a)
  <2>1. Coming' = Coming \cup {a} /\ a \notin Coming /\ Going' = Going
    BY <1>0, <1>4 DEF CondWaitCount, Coming, Going, Move
  <2>2. IsFiniteSet(Coming') /\ Cardinality(Coming') = Cardinality(Coming) + 1
    BY <1>0, <2>1, FS_AddElement
  <2>3. Queued' = Queued /\ waiter_num' = waiter_num + 1
    BY <1>4 DEF CondWaitCount, Queued
  <2> QED
    BY <1>0, <2>1, <2>2, <2>3 DEF CountInv
<1>5. CASE CondWaitMark(a)
  <2>1. CASE UNCHANGED pc
    BY <1>2, <1>5, <2>1 DEF CondWaitMark
  <2>2. CASE Move(a, "cw_hide")
    BY <1>5, <2>2, BetweenSame, CountQuiet DEF CondWaitMark
  <2> QED
    BY <1>5, <2>1, <2>2 DEF CondWaitMark
<1>6. CASE CondWaitHide(a)
  BY <1>6, BetweenSame, CountQuiet DEF CondWaitHide
<1>7. CASE CondWaitPush(a)
  <2>1. blocked_vths \in Seq(VThreads) /\ a \in VThreads
    BY <1>7 DEF CondWaitPush, TypeInv, ControlOK
  <2>2. Coming' = Coming \ {a} /\ a \in Coming /\ Going' = Going
    BY <1>0, <1>7 DEF CondWaitPush, Coming, Going, Move
  <2>3. IsFiniteSet(Coming') /\ Cardinality(Coming') = Cardinality(Coming) - 1
    BY <1>0, <2>2, FS_RemoveElement
  <2>4. blocked_vths' = Append(blocked_vths, a) /\ waiter_num' = waiter_num
    BY <1>7 DEF CondWaitPush
  <2>5. blocked_vths' \in Seq(VThreads) /\ Len(blocked_vths') = Len(blocked_vths) + 1
    BY <2>1, <2>4
  <2>6. Queued' = Queued + 1
    BY <2>1, <2>5, QueueAssumption DEF Queued
  <2> QED
    BY <1>0, <2>2, <2>3, <2>4, <2>6 DEF CountInv
<1>8. CASE CondPop(a)
  <2>1. blocked_vths \in Seq(VThreads) /\ blocked_vths # <<>>
    BY <1>8 DEF CondPop, TypeInv, ControlOK
  <2>2. blocked_vths' = Tail(blocked_vths) /\ waiter_num' = waiter_num
    BY <1>8 DEF CondPop
  <2>3. blocked_vths' \in Seq(VThreads) /\ Len(blocked_vths') = Len(blocked_vths) - 1
    BY <2>1, <2>2, HeadTailProperties
  <2>4. Queued' = Queued - 1
    BY <2>1, <2>3, QueueAssumption DEF Queued
  <2>5. Going' = Going \cup {a} /\ a \notin Going /\ Coming' = Coming
    BY <1>0, <1>8 DEF CondPop, Coming, Going, Move
  <2>6. IsFiniteSet(Going') /\ Cardinality(Going') = Cardinality(Going) + 1
    BY <1>0, <2>5, FS_AddElement
  <2> QED
    BY <1>0, <2>2, <2>4, <2>5, <2>6 DEF CountInv
<1>9. CASE CondPopCount(a)
  <2>1. \E l \in {"sig_mark", "enq"} : Move(a, l)
    BY <1>9 DEF CondPopCount
  <2>2. Going' = Going \ {a} /\ a \in Going /\ Coming' = Coming
    BY <1>0, <1>9, <2>1 DEF CondPopCount, Coming, Going, Move
  <2>3. IsFiniteSet(Going') /\ Cardinality(Going') = Cardinality(Going) - 1
    BY <1>0, <2>2, FS_RemoveElement
  <2>4. Queued' = Queued /\ waiter_num' = waiter_num - 1
    BY <1>9 DEF CondPopCount, Queued
  <2> QED
    BY <1>0, <2>2, <2>3, <2>4 DEF CountInv
<1>10. CASE CallLock(a) \/ MutexLock(a) \/ End(a) \/ CondWaitYield(a)
            \/ CondWaitResumed(a) \/ CondWaitRelock(a) \/ CondPopEmpty(a)
            \/ CondSignalMark(a)
  BY <1>1, <1>10
     DEF CallLock, Calls, MutexLock, End, CondWaitYield, CondWaitResumed,
         CondWaitRelock, CondPopEmpty, CondSignalMark, PCs
<1>11. CASE (\E op \in {"wait", "signal", "broadcast"} : CallCond(a, op))
            \/ CheckQueue(a) \/ CondEnqueue(a)
  BY <1>1, <1>11 DEF CallCond, Calls, CheckQueue, AfterAlloc, CondEnqueue, PCs
<1>12. CASE MutexLockFail(a) \/ MutexTrylock(a) \/ MutexUnlock(a) \/ SchedYield(a)
            \/ CondWaitRelockFail(a)
  BY <1>2, <1>12
     DEF MutexLockFail, MutexTrylock, MutexUnlock, SchedYield, CondWaitRelockFail
<1> QED
  BY <1>3, <1>4, <1>5, <1>6, <1>7, <1>8, <1>9, <1>10, <1>11, <1>12 DEF ActorStep

\* In every state waiter_num is the number of vthreads in the queue, of waiters
\* that are counted and not pushed yet, and of signallers that have popped one
\* and not subtracted it yet; and every variable has its type: see CondInv.
THEOREM WaitersCounted == Spec => []CondInv
<1>1. Init => CountInv
  <2> SUFFICES ASSUME Init PROVE CountInv
    OBVIOUS
  <2>1. Coming = {} /\ Going = {}
    BY DEF Init, Coming, Going
  <2> QED
    BY <2>1, FS_EmptySet DEF Init, CountInv, Queued
<1>2. TypeInv /\ CountInv /\ [Next]_vars => CountInv'
  <2> SUFFICES ASSUME TypeInv, CountInv, [Next]_vars PROVE CountInv'
    OBVIOUS
  <2>1. CASE \E a \in Actors : ActorStep(a)
    BY <2>1, CountActor
  <2>2. CASE \E w \in Workers : Work(w)
    <3>1. UNCHANGED clientVars
      BY <2>2 DEF Work
    <3>2. Coming' = Coming /\ Going' = Going
      BY <3>1 DEF clientVars, Coming, Going
    <3> QED
      BY <3>1, <3>2, CountQuiet DEF clientVars
  <2>3. CASE UNCHANGED vars
    BY <2>3 DEF vars, clientVars, CountInv, Queued, Coming, Going
  <2> QED
    BY <2>1, <2>2, <2>3 DEF Next
<1>3. TypeInv /\ CountInv => CondInv
  BY DEF TypeInv, CountInv, CondInv, WaiterNumCounts, Coming, Going, Queued
<1> QED
  BY <1>1, <1>2, <1>3, TypeCorrect, PTL DEF Spec

-----------------------------------------------------------------------------
(***************************************************************************)
(* One real thread.  While it runs a vthread nothing else moves, and while *)
(* it releases the mutex of a waiter no signaller can see that waiter.     *)
(* With a second real thread or a raw thread that signals this fails: the  *)
(* run of JumpsToContextData shows a vthread that is resumed twice.        *)
(***************************************************************************)

\* The program runs on one real thread and on no other kernel thread.
OneWorker == RawThreads = {} /\ \E w : Workers = {w}

\* The worker has left a waiter and has not looked at its cur_status yet.
HandsOver(w) ==
  \/ wpc[w] = "ret" /\ wret[w] \in Locks
  \/ wpc[w] \in {"released", "marked"}

\* v is in one place at most, and in two only between its push and its yield.
\* A vthread that is about to hide itself is not marked SUSPENDED.
SinglePlace(v) ==
  /\ runq[v] <= 1
  /\ runq[v] > 0 => ~InQueue(v) /\ ~BeingWoken(v) /\ ~Carried(v)
  /\ BeingWoken(v) => ~InQueue(v) /\ ~Carried(v)
  /\ pc[v] = "cw_yield" <=> InQueue(v) /\ Carried(v)
  /\ pc[v] = "ended" =>
       runq[v] = 0 /\ ~InQueue(v) /\ ~BeingWoken(v) /\ ~Carried(v)
  /\ pc[v] \in {"cw_hide", "cw_push", "cw_yield"} => cur_status[v] # "SUSPENDED"

QueueDistinct ==
  blocked_vths # None =>
    \A i, j \in 1..Len(blocked_vths) : blocked_vths[i] = blocked_vths[j] => i = j

WorkerSingle(w) ==
  /\ ~(wpc[w] = "ret" /\ wret[w] = "BLOCKED")
  /\ HandsOver(w) => cur_status[pvth[w]] # "SUSPENDED"

SingleInv ==
  /\ \A v \in VThreads : SinglePlace(v)
  /\ QueueDistinct
  /\ \A w \in Workers : WorkerSingle(w)

\* An actor that executes has the only worker: no other vthread is carried, is
\* in the middle of a call or has popped a waiter.
LEMMA AloneFacts ==
  ASSUME TypeInv, PlacedInv, RawThreads = {}, NEW w, Workers = {w},
         NEW a \in Actors, Executing(a)
  PROVE  /\ a \in VThreads /\ wpc[w] = "run" /\ pvth[w] = a
         /\ \A v \in VThreads : Carried(v) <=> v = a
         /\ \A v \in VThreads : v # a => pc[v] \notin RunningPCs
         /\ \A v \in VThreads : BeingWoken(v) <=> got[a] = v
<1>1. a \in VThreads /\ wpc[w] = "run" /\ pvth[w] = a
  BY DEF Executing, RunsOn, Actors
<1>2. \A v \in VThreads : Carried(v) <=> v = a
  BY <1>1 DEF Carried
<1>3. \A v \in VThreads : v # a => pc[v] \notin RunningPCs
  BY <1>1 DEF PlacedInv, RunsOn
<1>4. \A b \in Actors : b # a => got[b] = None
  <2> SUFFICES ASSUME NEW b \in Actors, b # a PROVE got[b] = None
    OBVIOUS
  <2>1. pc[b] \notin RunningPCs
    BY <1>3 DEF Actors
  <2> QED
    BY <2>1 DEF RunningPCs, TypeInv, ControlOK
<1>5. \A v \in VThreads : BeingWoken(v) <=> got[a] = v
  BY <1>4, ActorsAssumption DEF BeingWoken
<1> QED
  BY <1>1, <1>2, <1>3, <1>5

\* A step of the running vthread that moves no vthread: it goes to a control
\* point other than cw_yield and ended, and sets no cur_status that a worker
\* or a waiter still relies on.
LEMMA SingleQuiet ==
  ASSUME TypeInv, PlacedInv, SingleInv, RawThreads = {}, NEW w, Workers = {w},
         NEW a \in Actors, Executing(a), pc[a] # "cw_yield",
         NEW l, l \notin {"cw_yield", "ended"}, pc' = [pc EXCEPT ![a] = l],
         l \in {"cw_hide", "cw_push"} => cur_status'[a] # "SUSPENDED",
         blocked_vths' = blocked_vths \/ (blocked_vths = None /\ blocked_vths' = <<>>),
         UNCHANGED <<runq, workerVars, got>>
  PROVE  SingleInv'
<1> USE DEF workerVars
<1>1. /\ wpc[w] = "run" /\ pc \in [Actors -> PCs] /\ a \in VThreads
      /\ \A v \in VThreads : v # a => pc[v] \notin RunningPCs
  BY AloneFacts DEF TypeInv, TypeOK
<1>2. \A v \in VThreads : InQueue(v)' <=> InQueue(v)
  BY DEF InQueue
<1>3. \A v \in VThreads :
        /\ Carried(v)' <=> Carried(v)
        /\ BeingWoken(v)' <=> BeingWoken(v)
  BY DEF Carried, BeingWoken
<1>4. ASSUME NEW v \in VThreads PROVE SinglePlace(v)'
  <2>1. SinglePlace(v)
    BY DEF SingleInv
  <2>2. CASE v = a
    <3>1. pc'[v] = l
      BY <1>1, <2>2
    <3>2. pc[v] # "cw_yield"
      BY <2>2
    <3> QED
      BY <1>2, <1>3, <2>1, <2>2, <3>1, <3>2 DEF SinglePlace
  <2>3. CASE v # a
    <3>1. pc'[v] = pc[v] /\ pc[v] \notin RunningPCs
      BY <1>1, <2>3 DEF Actors
    <3> QED
      BY <1>2, <1>3, <2>1, <3>1 DEF SinglePlace, RunningPCs
  <2> QED
    BY <2>2, <2>3
<1>5. QueueDistinct'
  BY DEF SingleInv, QueueDistinct
<1>6. \A x \in Workers : WorkerSingle(x)'
  BY <1>1 DEF SingleInv, WorkerSingle, HandsOver
<1> QED
  BY <1>4, <1>5, <1>6 DEF SingleInv

\* The running vthread yields with SUSPENDED or LOCKFAIL: the worker still
\* has it.
LEMMA SingleYield ==
  ASSUME TypeInv, PlacedInv, SingleInv, RawThreads = {}, NEW w, Workers = {w},
         NEW a \in Actors, Executing(a),
         NEW code \in {"SUSPENDED", "LOCKFAIL"}, YieldMyself(a, code),
         UNCHANGED <<runq, cur_status, blocked_vths, got, pc>>
  PROVE  SingleInv'
<1>1. /\ wpc[w] = "run" /\ pvth[w] = a
      /\ wpc'[w] = "ret" /\ wret'[w] = code /\ pvth'[w] = a
  BY AloneFacts DEF YieldMyself, RunsOn, TypeInv, TypeOK, SchedTypeOK
<1>2. \A v \in VThreads :
        /\ InQueue(v)' <=> InQueue(v)
        /\ Carried(v)' <=> Carried(v)
        /\ BeingWoken(v)' <=> BeingWoken(v)
  BY <1>1 DEF InQueue, Carried, BeingWoken
<1>3. ASSUME NEW v \in VThreads PROVE SinglePlace(v)'
  BY <1>2 DEF SingleInv, SinglePlace
<1>4. QueueDistinct'
  BY DEF SingleInv, QueueDistinct
<1>5. WorkerSingle(w)'
  BY <1>1, LocksAssumption DEF WorkerSingle, HandsOver, Status
<1> QED
  BY <1>3, <1>4, <1>5 DEF SingleInv

\* The running vthread leaves its worker for good: with FINISHED it is nowhere,
\* with the mutex it is in the condition variable's queue only.
LEMMA SingleLeave ==
  ASSUME TypeInv, PlacedInv, SingleInv, RawThreads = {}, NEW w, Workers = {w},
         NEW a \in Actors, End(a) \/ CondWaitYield(a)
  PROVE  SingleInv'
<1> USE DEF At
<1>1. /\ Executing(a) /\ UNCHANGED <<runq, cur_status, blocked_vths, got>>
      /\ pc[a] = "ready" \/ pc[a] = "cw_yield"
  BY DEF End, CondWaitYield
<1>2. /\ a \in VThreads /\ wpc[w] = "run" /\ pvth[w] = a
      /\ \A v \in VThreads : Carried(v) <=> v = a
      /\ \A v \in VThreads : v # a => pc[v] \notin RunningPCs
  BY <1>1, AloneFacts
<1>3. /\ wpc'[w] = "ret" /\ pvth'[w] = a
      /\ \/ End(a) /\ wret'[w] = "FINISHED"
         \/ CondWaitYield(a) /\ wret'[w] = Mutex
  BY <1>2, ActorsAssumption
     DEF End, CondWaitYield, YieldMyself, RunsOn, TypeInv, TypeOK, SchedTypeOK
<1>4. wret'[w] \notin {"SUSPENDED", "LOCKFAIL", "BLOCKED"}
  BY <1>3, LocksAssumption, ClientAssumption DEF Status
<1>5. \A v \in VThreads :
        /\ ~Carried(v)'
        /\ InQueue(v)' <=> InQueue(v)
        /\ BeingWoken(v)' <=> BeingWoken(v)
  BY <1>1, <1>3, <1>4 DEF Carried, InQueue, BeingWoken
<1>6. pc \in [Actors -> PCs] /\ SinglePlace(a)
  BY <1>2 DEF TypeInv, TypeOK, SingleInv
<1>7. ASSUME NEW v \in VThreads PROVE SinglePlace(v)'
  <2>1. SinglePlace(v)
    BY DEF SingleInv
  <2>2. CASE v = a
    <3>1. CASE End(a)
      <4>1. pc[a] = "ready" /\ pc'[a] = "ended"
        BY <1>6, <3>1 DEF End, Move
      <4>2. runq[a] = 0
        BY <1>2, <1>6 DEF SinglePlace, TypeInv, TypeOK, SchedTypeOK
      <4> QED
        BY <1>1, <1>2, <1>5, <1>6, <2>2, <4>1, <4>2 DEF SinglePlace
    <3>2. CASE CondWaitYield(a)
      <4>1. pc[a] = "cw_yield" /\ pc'[a] = "cw_blocked"
        BY <1>6, <3>2 DEF CondWaitYield, Move
      <4> QED
        BY <1>1, <1>5, <1>6, <2>2, <4>1 DEF SinglePlace
    <3> QED
      BY <3>1, <3>2
  <2>3. CASE v # a
    <3>1. pc'[v] = pc[v] /\ pc[v] \notin RunningPCs
      BY <1>2, <1>6, <2>3 DEF End, CondWaitYield, Move, Actors
    <3> QED
      BY <1>1, <1>5, <2>1, <3>1 DEF SinglePlace, RunningPCs
  <2> QED
    BY <2>2, <2>3
<1>8. QueueDistinct'
  BY <1>1 DEF SingleInv, QueueDistinct
<1>9. WorkerSingle(w)'
  <2>1. CASE End(a)
    <3>1. ~HandsOver(w)'
      BY <1>3, <2>1, LocksAssumption, ClientAssumption
         DEF HandsOver, Status, End, CondWaitYield
    <3> QED
      BY <1>4, <3>1 DEF WorkerSingle
  <2>2. CASE CondWaitYield(a)
    <3>1. cur_status[a] # "SUSPENDED"
      BY <1>6, <2>2 DEF CondWaitYield, SinglePlace
    <3> QED
      BY <1>1, <1>3, <1>4, <3>1 DEF WorkerSingle
  <2> QED
    BY <2>1, <2>2
<1> QED
  BY <1>7, <1>8, <1>9 DEF SingleInv

\* The running vthread pushes itself: it was in no other place.
LEMMA SinglePush ==
  ASSUME TypeInv, PlacedInv, SingleInv, RawThreads = {}, NEW w, Workers = {w},
         NEW a \in Actors, CondWaitPush(a)
  PROVE  SingleInv'
<1> USE DEF At, schedVars
<1>1. /\ Executing(a) /\ pc[a] = "cw_push"
      /\ blocked_vths' = Append(blocked_vths, a)
      /\ pc' = [pc EXCEPT ![a] = "cw_yield"]
      /\ UNCHANGED <<runq, cur_status, wpc, pvth, wret, got>>
  BY DEF CondWaitPush, Move
<1>2. /\ a \in VThreads /\ wpc[w] = "run"
      /\ \A v \in VThreads : Carried(v) <=> v = a
      /\ \A v \in VThreads : v # a => pc[v] \notin RunningPCs
  BY <1>1, AloneFacts
<1>3. /\ pc \in [Actors -> PCs] /\ blocked_vths \in Seq(VThreads)
      /\ blocked_vths # None
  BY <1>1, QueueAssumption DEF TypeInv, TypeOK, ControlOK
<1>4. blocked_vths' \in Seq(VThreads) /\ blocked_vths' # None
  BY <1>1, <1>2, <1>3, QueueAssumption
<1>5. SinglePlace(a) /\ QueueDistinct
  BY <1>2 DEF SingleInv
<1>6. ~InQueue(a) /\ ~BeingWoken(a) /\ runq[a] = 0 /\ Carried(a)
  BY <1>1, <1>2, <1>5 DEF SinglePlace, TypeInv, TypeOK, SchedTypeOK
<1>7. /\ Len(blocked_vths') = Len(blocked_vths) + 1
      /\ Len(blocked_vths) \in Nat
      /\ \A i \in 1..Len(blocked_vths) : blocked_vths'[i] = blocked_vths[i]
      /\ blocked_vths'[Len(blocked_vths) + 1] = a
  BY <1>1, <1>2, <1>3
<1>8. \A i \in 1..Len(blocked_vths) : blocked_vths[i] # a
  BY <1>3, <1>6 DEF InQueue
<1>9. QueueDistinct'
  <2> SUFFICES ASSUME NEW i \in 1..Len(blocked_vths'), NEW j \in 1..Len(blocked_vths'),
                      blocked_vths'[i] = blocked_vths'[j]
               PROVE  i = j
    BY DEF QueueDistinct
  <2>1. CASE i \in 1..Len(blocked_vths) /\ j \in 1..Len(blocked_vths)
    BY <1>3, <1>5, <1>7, <2>1 DEF QueueDistinct
  <2>2. CASE i = Len(blocked_vths) + 1 \/ j = Len(blocked_vths) + 1
    <3>1. \A k \in 1..Len(blocked_vths') :
            k = Len(blocked_vths) + 1 \/ k \in 1..Len(blocked_vths)
      BY <1>7
    <3> QED
      BY <1>7, <1>8, <2>2, <3>1
  <2> QED
    BY <1>7, <2>1, <2>2
<1>10. \A v \in VThreads : InQueue(v)' <=> InQueue(v) \/ v = a
  <2>1. \A k : k \in 1..Len(blocked_vths') <=>
                 k = Len(blocked_vths) + 1 \/ k \in 1..Len(blocked_vths)
    BY <1>7
  <2> QED
    BY <1>3, <1>4, <1>7, <2>1 DEF InQueue
<1>11. \A v \in VThreads :
         /\ Carried(v)' <=> Carried(v)
         /\ BeingWoken(v)' <=> BeingWoken(v)
  BY <1>1 DEF Carried, BeingWoken
<1>12. ASSUME NEW v \in VThreads PROVE SinglePlace(v)'
  <2>1. SinglePlace(v)
    BY DEF SingleInv
  <2>2. CASE v = a
    <3>1. pc'[v] = "cw_yield" /\ cur_status[v] # "SUSPENDED"
      BY <1>1, <1>3, <1>5, <2>2 DEF SinglePlace
    <3> QED
      BY <1>1, <1>6, <1>10, <1>11, <2>2, <3>1 DEF SinglePlace
  <2>3. CASE v # a
    <3>1. pc'[v] = pc[v] /\ pc[v] \notin RunningPCs
      BY <1>1, <1>2, <1>3, <2>3 DEF Actors
    <3> QED
      BY <1>1, <1>10, <1>11, <2>1, <2>3, <3>1 DEF SinglePlace, RunningPCs
  <2> QED
    BY <2>2, <2>3
<1>13. WorkerSingle(w)'
  BY <1>1, <1>2 DEF SingleInv, WorkerSingle, HandsOver
<1> QED
  BY <1>9, <1>12, <1>13 DEF SingleInv

\* The running vthread pops a waiter: the waiter is then in its hands only.
LEMMA SinglePop ==
  ASSUME TypeInv, PlacedInv, SingleInv, RawThreads = {}, NEW w, Workers = {w},
         NEW a \in Actors, CondPop(a)
  PROVE  SingleInv'
<1> USE DEF At, schedVars
<1> DEFINE h == Head(blocked_vths)
<1>1. /\ Executing(a) /\ pc[a] = "pop" /\ blocked_vths # <<>>
      /\ blocked_vths' = Tail(blocked_vths)
      /\ got' = [got EXCEPT ![a] = h]
      /\ UNCHANGED <<runq, cur_status, wpc, pvth, wret>>
  BY DEF CondPop
<1>2. /\ a \in VThreads /\ wpc[w] = "run"
      /\ \A v \in VThreads : Carried(v) <=> v = a
      /\ \A v \in VThreads : v # a => pc[v] \notin RunningPCs
      /\ \A v \in VThreads : BeingWoken(v) <=> got[a] = v
  BY <1>1, AloneFacts
<1>3. /\ pc \in [Actors -> PCs] /\ got \in [Actors -> VThreads \cup {None}]
      /\ blocked_vths \in Seq(VThreads) /\ blocked_vths # None
  BY <1>1, QueueAssumption DEF TypeInv, TypeOK, ControlOK
<1>4. /\ h \in VThreads /\ blocked_vths' \in Seq(VThreads)
      /\ Len(blocked_vths) \in Nat /\ Len(blocked_vths) > 0
      /\ Len(blocked_vths') = Len(blocked_vths) - 1
      /\ h = blocked_vths[1]
      /\ \A i \in 1..Len(blocked_vths') : blocked_vths'[i] = blocked_vths[i + 1]
  BY <1>1, <1>3
<1>5. blocked_vths' # None
  BY <1>4, QueueAssumption
<1>6. \A i \in 1..Len(blocked_vths) : blocked_vths[i] = h => i = 1
  BY <1>3, <1>4 DEF SingleInv, QueueDistinct
<1>7. QueueDistinct'
  <2> SUFFICES ASSUME NEW i \in 1..Len(blocked_vths'), NEW j \in 1..Len(blocked_vths'),
                      blocked_vths'[i] = blocked_vths'[j]
               PROVE  i = j
    BY DEF QueueDistinct
  <2>1. i + 1 \in 1..Len(blocked_vths) /\ j + 1 \in 1..Len(blocked_vths)
    BY <1>4
  <2>2. i + 1 = j + 1
    BY <1>3, <1>4, <2>1 DEF SingleInv, QueueDistinct
  <2> QED
    BY <2>2
<1>8. \A v \in VThreads : InQueue(v)' <=> InQueue(v) /\ v # h
  <2> TAKE v \in VThreads
  <2>1. ASSUME InQueue(v)' PROVE InQueue(v) /\ v # h
    <3>1. PICK i \in 1..Len(blocked_vths') : blocked_vths'[i] = v
      BY <2>1 DEF InQueue
    <3>2. i + 1 \in 1..Len(blocked_vths) /\ blocked_vths[i + 1] = v /\ i + 1 # 1
      BY <1>4, <3>1
    <3> QED
      BY <1>3, <1>6, <3>2 DEF InQueue
  <2>2. ASSUME InQueue(v), v # h PROVE InQueue(v)'
    <3>1. PICK i \in 1..Len(blocked_vths) : blocked_vths[i] = v
      BY <2>2 DEF InQueue
    <3>2. i - 1 \in 1..Len(blocked_vths') /\ blocked_vths'[i - 1] = v
      BY <1>4, <2>2, <3>1
    <3> QED
      BY <1>5, <3>2 DEF InQueue
  <2> QED
    BY <2>1, <2>2
<1>9. InQueue(h)
  BY <1>3, <1>4 DEF InQueue
<1>10. got[a] = None
  BY <1>1 DEF TypeInv, ControlOK
<1>11. \A v \in VThreads : ~BeingWoken(v) /\ (BeingWoken(v)' <=> v = h)
  <2>1. \A v \in VThreads : ~BeingWoken(v)
    BY <1>2, <1>10, ActorsAssumption
  <2> QED
    BY <1>1, <1>3, <2>1 DEF BeingWoken
<1>12. \A v \in VThreads : Carried(v)' <=> Carried(v)
  BY <1>1 DEF Carried
<1>13. h # a
  BY <1>1, <1>2, <1>9 DEF SingleInv, SinglePlace
<1>14. pc' = [pc EXCEPT ![a] = "pop_count"]
  BY DEF CondPop, Move
<1>15. ASSUME NEW v \in VThreads PROVE SinglePlace(v)'
  <2>1. SinglePlace(v)
    BY DEF SingleInv
  <2>2. CASE v = a
    <3>1. pc'[v] = "pop_count" /\ pc[v] = "pop"
      BY <1>1, <1>3, <1>14, <2>2
    <3> QED
      BY <1>1, <1>8, <1>11, <1>12, <1>13, <2>1, <2>2, <3>1 DEF SinglePlace
  <2>3. CASE v # a
    <3>1. pc'[v] = pc[v] /\ pc[v] \notin RunningPCs /\ ~Carried(v)
      BY <1>2, <1>3, <1>14, <2>3 DEF Actors
    <3>2. v = h => runq[v] = 0 /\ pc[v] # "ended"
      BY <1>9, <2>1 DEF SinglePlace, TypeInv, TypeOK, SchedTypeOK
    <3> QED
      BY <1>1, <1>8, <1>11, <1>12, <2>1, <3>1, <3>2 DEF SinglePlace, RunningPCs
  <2> QED
    BY <2>2, <2>3
<1>16. WorkerSingle(w)'
  BY <1>1, <1>2 DEF SingleInv, WorkerSingle, HandsOver
<1> QED
  BY <1>7, <1>15, <1>16 DEF SingleInv

\* The running vthread puts the waiter that it popped in the run queue.
LEMMA SingleEnqueue ==
  ASSUME TypeInv, PlacedInv, SingleInv, RawThreads = {}, NEW w, Workers = {w},
         NEW a \in Actors, CondEnqueue(a)
  PROVE  SingleInv'
<1> USE DEF At
<1> DEFINE g == got[a]
<1>1. /\ Executing(a) /\ pc[a] = "enq"
      /\ runq' = [runq EXCEPT ![g] = @ + 1]
      /\ got' = [got EXCEPT ![a] = None]
      /\ UNCHANGED <<cur_status, wpc, pvth, wret, blocked_vths>>
  BY DEF CondEnqueue, Enqueue, workerVars
<1>2. /\ a \in VThreads /\ wpc[w] = "run"
      /\ \A v \in VThreads : Carried(v) <=> v = a
      /\ \A v \in VThreads : v # a => pc[v] \notin RunningPCs
      /\ \A v \in VThreads : BeingWoken(v) <=> g = v
  BY <1>1, AloneFacts
<1>3. /\ pc \in [Actors -> PCs] /\ got \in [Actors -> VThreads \cup {None}]
      /\ runq \in [VThreads -> Nat] /\ g \in VThreads
  BY <1>1 DEF TypeInv, TypeOK, SchedTypeOK, ControlOK
<1>4. PICK l \in {"ready", "pop"} : pc' = [pc EXCEPT ![a] = l]
  BY DEF CondEnqueue, Move
<1>5. \A v \in VThreads :
        /\ InQueue(v)' <=> InQueue(v)
        /\ Carried(v)' <=> Carried(v)
  BY <1>1 DEF InQueue, Carried
<1>6. \A v \in VThreads : ~BeingWoken(v)'
  <2> SUFFICES ASSUME NEW v \in VThreads, NEW b \in Actors, got'[b] = v
               PROVE  FALSE
    BY DEF BeingWoken
  <2>1. CASE b = a
    BY <1>1, <1>3, <2>1, ActorsAssumption
  <2>2. CASE b # a
    <3>1. got[b] = v
      BY <1>1, <1>3, <2>2
    <3>2. pc[b] \in {"pop_count", "sig_mark", "enq"}
      BY <3>1, ActorsAssumption DEF TypeInv, ControlOK
    <3> QED
      BY <1>2, <2>2, <3>2 DEF RunningPCs, Actors
  <2> QED
    BY <2>1, <2>2
<1>7. runq[g] = 0 /\ ~InQueue(g) /\ ~Carried(g) /\ pc[g] # "ended" /\ g # a
  <2>1. BeingWoken(g) /\ SinglePlace(g)
    BY <1>2, <1>3 DEF SingleInv
  <2> QED
    BY <1>2, <1>3, <2>1 DEF SinglePlace
<1>8. ASSUME NEW v \in VThreads PROVE SinglePlace(v)'
  <2>1. SinglePlace(v)
    BY DEF SingleInv
  <2>2. CASE v = g
    <3>1. pc'[v] = pc[v] /\ pc[v] \notin RunningPCs /\ runq'[v] = 1
      BY <1>1, <1>2, <1>3, <1>4, <1>7, <2>2 DEF Actors
    <3> QED
      BY <1>5, <1>6, <1>7, <2>2, <3>1 DEF SinglePlace, RunningPCs
  <2>3. CASE v # g
    <3>1. runq'[v] = runq[v]
      BY <1>1, <1>3, <2>3
    <3>2. CASE v = a
      <4>1. pc'[v] = l /\ pc[v] = "enq"
        BY <1>1, <1>3, <1>4, <3>2
      <4> QED
        BY <1>5, <1>6, <2>1, <3>1, <4>1 DEF SinglePlace
    <3>3. CASE v # a
      <4>1. pc'[v] = pc[v] /\ pc[v] \notin RunningPCs
        BY <1>2, <1>3, <1>4, <3>3 DEF Actors
      <4> QED
        BY <1>5, <1>6, <2>1, <3>1, <4>1 DEF SinglePlace, RunningPCs
    <3> QED
      BY <3>2, <3>3
  <2> QED
    BY <2>2, <2>3
<1>9. QueueDistinct'
  BY <1>1 DEF SingleInv, QueueDistinct
<1>10. WorkerSingle(w)'
  BY <1>1, <1>2 DEF SingleInv, WorkerSingle, HandsOver
<1> QED
  BY <1>8, <1>9, <1>10 DEF SingleInv

\* With one worker, a step of a vthread leaves every vthread in one place.
LEMMA SingleActor ==
  ASSUME TypeInv, PlacedInv, SingleInv, RawThreads = {}, NEW w, Workers = {w},
         NEW a \in Actors, ActorStep(a)
  PROVE  SingleInv'
<1> USE DEF At, Move, schedVars, clientVars, workerVars
<1>t. pc \in [Actors -> PCs] /\ cur_status \in [VThreads -> Status]
  BY DEF TypeInv, TypeOK, SchedTypeOK
<1>1. CASE CallLock(a)
  BY <1>1, SingleQuiet DEF CallLock, Calls
<1>2. CASE MutexLock(a)
  BY <1>2, SingleQuiet DEF MutexLock
<1>3. CASE MutexLockFail(a)
  BY <1>3, SingleYield DEF MutexLockFail
<1>4. CASE MutexTrylock(a) \/ MutexUnlock(a)
  <2>1. /\ Executing(a) /\ pc[a] = "ready"
        /\ UNCHANGED <<runq, wpc, pvth, wret, blocked_vths, got, pc>>
    BY <1>4 DEF MutexTrylock, MutexUnlock, Calls
  <2>2. pc' = [pc EXCEPT ![a] = "ready"]
    BY <1>t, <2>1
  <2> QED
    BY <2>1, <2>2, SingleQuiet
<1>6. CASE SchedYield(a)
  BY <1>6, SingleYield DEF SchedYield, Calls
<1>7. CASE End(a) \/ CondWaitYield(a)
  BY <1>7, SingleLeave
<1>8. CASE \E op \in {"wait", "signal", "broadcast"} : CallCond(a, op)
  BY <1>8, SingleQuiet DEF CallCond, Calls
<1>9. CASE CheckQueue(a) \/ AllocQueue(a)
  <2>1. PICK l \in {"chk", "alloc", "pop", "cw_count"} : pc' = [pc EXCEPT ![a] = l]
    BY <1>9 DEF CheckQueue, AllocQueue, AfterAlloc
  <2> QED
    BY <1>9, <2>1, SingleQuiet DEF CheckQueue, AllocQueue
<1>11. CASE CondWaitMark(a)
  <2>1. Executing(a) /\ pc[a] = "cw_mark"
    BY <1>11 DEF CondWaitMark
  <2>2. a \in VThreads
    BY <2>1, AloneFacts
  <2>3. pc' = [pc EXCEPT ![a] = "cw_hide"] /\ cur_status'[a] = "BLOCKED"
    BY <1>11, <1>t, <2>2 DEF CondWaitMark
  <2> QED
    BY <1>11, <2>1, <2>3, SingleQuiet DEF CondWaitMark
<1>12. CASE CondWaitHide(a)
  <2>1. Executing(a) /\ pc[a] = "cw_hide" /\ cur_status' = cur_status
    BY <1>12 DEF CondWaitHide
  <2>2. a \in VThreads
    BY <2>1, AloneFacts
  <2>3. cur_status'[a] # "SUSPENDED"
    BY <2>1, <2>2 DEF SingleInv, SinglePlace
  <2> QED
    BY <1>12, <2>1, <2>3, SingleQuiet DEF CondWaitHide
<1>13. CASE CondWaitPush(a)
  BY <1>13, SinglePush
<1>15. CASE CondWaitResumed(a)
  BY <1>15, SingleQuiet DEF CondWaitResumed
<1>16. CASE CondWaitRelock(a)
  BY <1>16, SingleQuiet DEF CondWaitRelock
<1>17. CASE CondWaitRelockFail(a)
  BY <1>17, SingleYield DEF CondWaitRelockFail
<1>18. CASE CondPop(a)
  BY <1>18, SinglePop
<1>19. CASE CondPopEmpty(a)
  BY <1>19, SingleQuiet DEF CondPopEmpty
<1>20. CASE CondSignalMark(a)
  BY <1>20, SingleQuiet DEF CondSignalMark
<1>21. CASE CondEnqueue(a)
  BY <1>21, SingleEnqueue
<1>22. CASE CondWaitCount(a)
  BY <1>22, SingleQuiet DEF CondWaitCount
<1>23. CASE CondPopCount(a)
  <2>1. PICK l \in {"sig_mark", "enq"} : pc' = [pc EXCEPT ![a] = l]
    BY <1>23 DEF CondPopCount
  <2> QED
    BY <1>23, <2>1, SingleQuiet DEF CondPopCount
<1> QED
  BY <1>1, <1>2, <1>3, <1>4, <1>6, <1>7, <1>8, <1>9, <1>11, <1>12, <1>13,
     <1>15, <1>16, <1>17, <1>18, <1>19, <1>20, <1>21, <1>22, <1>23
     DEF ActorStep

\* With one worker, a step of the worker leaves every vthread in one place.
LEMMA SingleWorker ==
  ASSUME TypeInv, PlacedInv, SingleInv, RawThreads = {}, NEW w, Workers = {w},
         Work(w)
  PROVE  SingleInv'
<1>a. /\ UNCHANGED <<pc, blocked_vths, got>> /\ QueueDistinct'
      /\ \A v \in VThreads : (InQueue(v)' <=> InQueue(v))
                             /\ (BeingWoken(v)' <=> BeingWoken(v))
  BY DEF Work, clientVars, InQueue, BeingWoken, SingleInv, QueueDistinct
<1>b. /\ runq \in [VThreads -> Nat] /\ cur_status \in [VThreads -> Status]
      /\ wpc \in [Workers -> WorkerPCs] /\ pvth \in [Workers -> VThreads \cup {None}]
      /\ wret \in [Workers -> Status \cup Locks \cup {None}]
      /\ wpc[w] # "idle" => pvth[w] \in VThreads
      /\ WorkerSingle(w)
  BY DEF TypeInv, TypeOK, SchedTypeOK, ControlOK, SingleInv
<1>c. \A v \in VThreads : SinglePlace(v) /\ (pc[v] \in RunningPCs => wpc[w] = "run")
  BY DEF SingleInv, PlacedInv, RunsOn
<1> USE DEF WorkerAt
<1>1. CASE \E x \in VThreads : GetAndWork(w, x)
  <2>1. PICK x \in VThreads : GetAndWork(w, x)
    BY <1>1
  <2>2. /\ wpc[w] = "idle" /\ wpc'[w] = "check" /\ pvth'[w] = x /\ runq[x] > 0
        /\ runq' = [runq EXCEPT ![x] = @ - 1] /\ cur_status' = cur_status
        /\ wret' = wret
    BY <1>b, <2>1 DEF GetAndWork
  <2>3. \A v \in VThreads : ~Carried(v) /\ (Carried(v)' <=> v = x)
    BY <2>2 DEF Carried
  <2>4. runq'[x] = 0 /\ \A v \in VThreads : v # x => runq'[v] = runq[v]
    BY <1>b, <1>c, <2>2 DEF SinglePlace
  <2>5. ASSUME NEW v \in VThreads PROVE SinglePlace(v)'
    <3>1. CASE v = x
      BY <1>a, <1>c, <2>2, <2>3, <2>4, <3>1 DEF SinglePlace, RunningPCs
    <3>2. CASE v # x
      BY <1>a, <1>c, <2>2, <2>3, <2>4, <3>2 DEF SinglePlace, RunningPCs
    <3> QED
      BY <3>1, <3>2
  <2>6. WorkerSingle(w)'
    BY <1>b, <2>2 DEF WorkerSingle, HandsOver
  <2> QED
    BY <1>a, <2>5, <2>6 DEF SingleInv
<1>2. CASE PutBack(w) \/ RetSuspended(w)
  <2> DEFINE x == pvth[w]
  <2>1. /\ wpc[w] = "check" \/ (wpc[w] = "ret" /\ wret[w] \in {"SUSPENDED", "LOCKFAIL"})
        /\ wpc'[w] = "idle" /\ wret'[w] = None
        /\ runq' = [runq EXCEPT ![x] = @ + 1] /\ cur_status' = cur_status
    BY <1>b, <1>2 DEF PutBack, RetSuspended, Enqueue, ToLoop
  <2>2. x \in VThreads /\ Carried(x)
    BY <1>b, <2>1 DEF Carried
  <2>3. \A v \in VThreads : ~Carried(v)' /\ (Carried(v) <=> v = x)
    BY <2>1, <2>2 DEF Carried
  <2>4. /\ runq'[x] = runq[x] + 1
        /\ \A v \in VThreads : v # x => runq'[v] = runq[v]
    BY <1>b, <2>1, <2>2
  <2>5. ASSUME NEW v \in VThreads PROVE SinglePlace(v)'
    <3>1. CASE v = x
      <4>1. pc[v] \notin RunningPCs
        BY <1>c, <2>1
      <4>2. ~InQueue(v) /\ ~BeingWoken(v) /\ runq[v] = 0 /\ pc[v] # "ended"
        BY <1>b, <1>c, <2>2, <3>1, <4>1 DEF SinglePlace, RunningPCs
      <4> QED
        BY <1>a, <2>3, <2>4, <3>1, <4>1, <4>2 DEF SinglePlace, RunningPCs
    <3>2. CASE v # x
      BY <1>a, <1>c, <2>1, <2>3, <2>4, <3>2 DEF SinglePlace, RunningPCs
    <3> QED
      BY <3>1, <3>2
  <2>6. WorkerSingle(w)'
    BY <2>1 DEF WorkerSingle, HandsOver
  <2> QED
    BY <1>a, <2>5, <2>6 DEF SingleInv
<1>3. CASE \/ Accept(w) \/ Resume(w) \/ RetMutex(w) \/ MarkRunnable(w)
  <2>1. UNCHANGED <<pvth, wret, runq, cur_status>>
    BY <1>3 DEF Accept, Resume, RetMutex, MarkRunnable, Goto, workerVars
  <2>2. /\ wpc[w] = wpc'[w]
           \/ (wpc[w] = "check" /\ wpc'[w] = "resume")
           \/ (wpc[w] = "resume" /\ wpc'[w] = "run")
           \/ (HandsOver(w) /\ wpc'[w] \in {"released", "marked"})
    BY <1>b, <1>3
       DEF Accept, Resume, RetMutex, MarkRunnable, Goto, workerVars, HandsOver
  <2>3. \A v \in VThreads : Carried(v)' <=> Carried(v)
    BY <2>1, <2>2, LocksAssumption DEF Carried, HandsOver, Status
  <2>4. ASSUME NEW v \in VThreads PROVE SinglePlace(v)'
    BY <1>a, <1>c, <2>1, <2>3 DEF SinglePlace
  <2>5. WorkerSingle(w)'
    BY <1>b, <2>1, <2>2 DEF WorkerSingle, HandsOver
  <2> QED
    BY <1>a, <2>4, <2>5 DEF SingleInv
<1>4. CASE RetBlocked(w)
  BY <1>b, <1>4 DEF RetBlocked, WorkerSingle
<1>5. CASE EnqueueIfSuspended(w) \/ FinishUnjoined(w)
  <2>1. /\ wpc[w] = "marked" \/ (wpc[w] = "ret" /\ wret[w] = "FINISHED")
        /\ wpc'[w] = "idle" /\ wret'[w] = None
    BY <1>b, <1>5 DEF EnqueueIfSuspended, FinishUnjoined, ToLoop
  <2>2. runq' = runq
    BY <1>b, <1>5 DEF EnqueueIfSuspended, FinishUnjoined, WorkerSingle, HandsOver
  <2>3. \A v \in VThreads : ~Carried(v)' /\ ~Carried(v)
    BY <2>1 DEF Carried
  <2>4. \A v \in VThreads : pc[v] \notin RunningPCs
    BY <1>c, <2>1
  <2>5. ASSUME NEW v \in VThreads PROVE SinglePlace(v)'
    BY <1>a, <1>c, <2>2, <2>3, <2>4 DEF SinglePlace, RunningPCs
  <2>6. WorkerSingle(w)'
    BY <2>1 DEF WorkerSingle, HandsOver
  <2> QED
    BY <1>a, <2>5, <2>6 DEF SingleInv
<1> QED
  BY <1>1, <1>2, <1>3, <1>4, <1>5 DEF Work, WorkerStep, LoopStep

\* A set that has an element and no two of them has cardinality 1.
LEMMA OneElement ==
  ASSUME NEW S, NEW x \in S, \A y \in S : y = x
  PROVE  Cardinality(S) = 1
<1>1. S = {x}
  OBVIOUS
<1> QED
  BY <1>1, FS_Singleton

\* The inductive invariants imply the property.
LEMMA SingleImpliesOnePlace ==
  ASSUME TypeInv, PlacedInv, SingleInv, RawThreads = {}, NEW w, Workers = {w}
  PROVE  ExactlyOnePlace
<1> SUFFICES ASSUME NEW v \in VThreads
             PROVE  runq[v] + Cardinality(Carriers(v))
                      + Cardinality(PositionsOf(v)) + Cardinality(Wakers(v))
                    = CASE pc[v] = "ended" -> 0
                        [] pc[v] = "cw_yield" -> 2
                        [] OTHER -> 1
  BY DEF ExactlyOnePlace
<1>1. Cardinality(Carriers(v)) = IF Carried(v) THEN 1 ELSE 0
  <2>1. CASE Carried(v)
    <3>1. PICK x \in Workers : x \in Carriers(v)
      BY <2>1 DEF Carried, Carriers
    <3>2. \A y \in Carriers(v) : y = x
      BY <3>1 DEF Carriers
    <3> QED
      BY <2>1, <3>1, <3>2, OneElement
  <2>2. CASE ~Carried(v)
    <3>1. Carriers(v) = {}
      BY <2>2 DEF Carried, Carriers
    <3> QED
      BY <2>2, <3>1, FS_EmptySet
  <2> QED
    BY <2>1, <2>2
<1>2. Cardinality(PositionsOf(v)) = IF InQueue(v) THEN 1 ELSE 0
  <2>1. CASE InQueue(v)
    <3>1. PICK i \in 1..Len(blocked_vths) : blocked_vths[i] = v
      BY <2>1 DEF InQueue
    <3>2. i \in PositionsOf(v) /\ \A j \in PositionsOf(v) : j = i
      BY <2>1, <3>1 DEF InQueue, PositionsOf, SingleInv, QueueDistinct
    <3> QED
      BY <2>1, <3>2, OneElement
  <2>2. CASE ~InQueue(v)
    <3>1. PositionsOf(v) = {}
      BY <2>2 DEF InQueue, PositionsOf
    <3> QED
      BY <2>2, <3>1, FS_EmptySet
  <2> QED
    BY <2>1, <2>2
<1>3. Cardinality(Wakers(v)) = IF BeingWoken(v) THEN 1 ELSE 0
  <2>1. CASE BeingWoken(v)
    <3>1. PICK a \in Actors : got[a] = v
      BY <2>1 DEF BeingWoken
    <3>2. ASSUME NEW b \in Actors, got[b] = v PROVE RunsOn(b, w)
      <4>1. got[b] # None
        BY <3>2, ActorsAssumption
      <4>2. pc[b] \in {"pop_count", "sig_mark", "enq"} /\ b \in VThreads
        BY <4>1 DEF TypeInv, ControlOK, Actors
      <4> QED
        BY <4>2 DEF PlacedInv, RunningPCs
    <3>3. a \in Wakers(v) /\ \A b \in Wakers(v) : b = a
      BY <3>1, <3>2 DEF Wakers, RunsOn
    <3> QED
      BY <2>1, <3>3, OneElement
  <2>2. CASE ~BeingWoken(v)
    <3>1. Wakers(v) = {}
      BY <2>2 DEF BeingWoken, Wakers
    <3> QED
      BY <2>2, <3>1, FS_EmptySet
  <2> QED
    BY <2>1, <2>2
<1>4. /\ runq[v] \in {0, 1} /\ SinglePlace(v)
      /\ pc[v] # "ended" => runq[v] > 0 \/ InQueue(v) \/ BeingWoken(v) \/ Carried(v)
  <2>1. SinglePlace(v) /\ runq[v] \in Nat
    BY DEF SingleInv, TypeInv, TypeOK, SchedTypeOK
  <2> QED
    BY <2>1 DEF SinglePlace, PlacedInv, Elsewhere, Carried
<1>5. CASE pc[v] = "ended"
  BY <1>1, <1>2, <1>3, <1>4, <1>5 DEF SinglePlace
<1>6. CASE pc[v] = "cw_yield"
  BY <1>1, <1>2, <1>3, <1>4, <1>6 DEF SinglePlace
<1>7. CASE pc[v] \notin {"ended", "cw_yield"}
  BY <1>1, <1>2, <1>3, <1>4, <1>7 DEF SinglePlace
<1> QED
  BY <1>5, <1>6, <1>7

\* On one real thread, whatever the number of vthreads and calls, exactly one
\* party is responsible for running a vthread next: see ExactlyOnePlace.
THEOREM OnePlaceEach ==
  ASSUME OneWorker
  PROVE  Spec => []ExactlyOnePlace
<1>1. PICK w : RawThreads = {} /\ Workers = {w}
  BY DEF OneWorker
<1>2. Init => SingleInv
  <2> SUFFICES ASSUME Init PROVE SingleInv
    OBVIOUS
  <2>1. wpc[w] = "idle"
    BY <1>1 DEF Init, SchedInit
  <2>2. \A v \in VThreads :
          /\ runq[v] = 1 /\ pc[v] = "ready"
          /\ ~InQueue(v) /\ ~BeingWoken(v) /\ ~Carried(v)
    BY <1>1, <2>1, ActorsAssumption
       DEF Init, SchedInit, InQueue, BeingWoken, Carried, Actors
  <2>3. QueueDistinct
    BY DEF Init, QueueDistinct
  <2>4. WorkerSingle(w)
    BY <2>1 DEF WorkerSingle, HandsOver
  <2> QED
    BY <1>1, <2>2, <2>3, <2>4 DEF SingleInv, SinglePlace
<1>3. TypeInv /\ PlacedInv /\ SingleInv /\ [Next]_vars => SingleInv'
  <2> SUFFICES ASSUME TypeInv, PlacedInv, SingleInv, [Next]_vars PROVE SingleInv'
    OBVIOUS
  <2>1. CASE \E a \in Actors : ActorStep(a)
    BY <1>1, <2>1, SingleActor
  <2>2. CASE \E x \in Workers : Work(x)
    BY <1>1, <2>2, SingleWorker
  <2>3. CASE UNCHANGED vars
    BY <2>3 DEF vars, schedVars, clientVars, SingleInv, SinglePlace, QueueDistinct,
                WorkerSingle, HandsOver, InQueue, BeingWoken, Carried
  <2> QED
    BY <2>1, <2>2, <2>3 DEF Next
<1>4. TypeInv /\ PlacedInv /\ SingleInv => ExactlyOnePlace
  BY <1>1, SingleImpliesOnePlace
<1> QED
  BY <1>2, <1>3, <1>4, TypeCorrect, PlacedAlways, PTL DEF Spec

=============================================================================
