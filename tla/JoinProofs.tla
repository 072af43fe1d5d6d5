----------------------------- MODULE JoinProofs -----------------------------
(***************************************************************************)
(* Proofs about Join, for any number of vthreads, raw threads and workers: *)
(* for every program, type correctness and ownership of join_mutex; and    *)
(* for the programs of Simple below, everything pthread_join promises.     *)
(***************************************************************************)
EXTENDS Join, FiniteSetTheorems, SequenceTheorems, TLAPS

JoinPCs == {"j_lock", "j_look", "j_yield", "j_blocked", "j_wait", "j_futex", "j_sleep"}

\* Facts about control points that the types alone do not give.
ControlOK ==
  /\ \A w \in Workers :
       /\ wpc[w] = "idle" <=> pvth[w] = None
       /\ fpc[w] # "no" => wpc[w] = "ret" /\ wret[w] = "FINISHED"
       /\ fpc[w] = "enq" => head[w] # <<>>
  /\ \A a \in Actors :
       /\ pc[a] \in JoinPCs <=> target[a] # None
       /\ pc[a] \in {"j_yield", "j_blocked", "e_lock", "e_set", "e_yield", "ended"}
            => a \in VThreads
       /\ pc[a] \in {"j_wait", "j_futex", "j_sleep"} => a \in RawThreads

TypeInv == TypeOK /\ ControlOK

\* The initial states are well typed.
LEMMA TypeInit == Init => TypeInv
BY ActorsAssumption, LocksAssumption, JoinAssumption
   DEF Init, SchedInit, TypeInv, TypeOK, SchedTypeOK, ControlOK, Actors, Status,
       WorkerPCs, PCs, FinishPCs, JoinPCs

\* A step of the loop of a worker keeps the types and the control facts.
LEMMA TypeLoop ==
  ASSUME TypeInv, NEW w \in Workers, LoopStep(w), UNCHANGED <<joinVars, finishVars>>
  PROVE  TypeInv'
<1> USE ActorsAssumption, LocksAssumption, JoinAssumption
        DEF TypeInv, TypeOK, SchedTypeOK, ControlOK, joinVars, finishVars,
            WorkerAt, WorkerPCs, Status
<1>1. CASE \E v \in VThreads : GetAndWork(w, v)
  <2>1. PICK v \in VThreads : GetAndWork(w, v)
    BY <1>1
  <2>2. /\ runq' \in [VThreads -> Nat] /\ pvth' \in [Workers -> VThreads \cup {None}]
        /\ wpc' \in [Workers -> WorkerPCs]
    BY <2>1 DEF GetAndWork
  <2>3. /\ wpc' = [wpc EXCEPT ![w] = "check"] /\ pvth' = [pvth EXCEPT ![w] = v]
        /\ wpc[w] = "idle" /\ UNCHANGED <<runnable, cur_status, c, wret, fault>>
    BY <2>1 DEF GetAndWork
  <2>4. TypeOK'
    BY <2>2, <2>3
  <2>5. ControlOK'
    BY <2>3
  <2> QED
    BY <2>4, <2>5
<1>2. CASE PutBack(w)
  BY <1>2 DEF PutBack, Enqueue, ToLoop
<1>3. CASE Accept(w)
  BY <1>3 DEF Accept, Goto
<1>4. CASE Resume(w)
  <2>1. CASE HasContext(pvth[w])
    <3>1. /\ wpc[w] = "resume"
          /\ wpc' = [wpc EXCEPT ![w] = "run"]
          /\ UNCHANGED <<runq, runnable, cur_status, c, pvth, wret, fault>>
      BY <1>4, <2>1 DEF Resume, Goto
    <3> QED
      BY <3>1
  <2>2. CASE ~HasContext(pvth[w])
    BY <1>4, <2>2 DEF Resume, workerVars
  <2> QED
    BY <2>1, <2>2
<1>5. CASE RetBlocked(w)
  BY <1>5 DEF RetBlocked, ToLoop
<1>6. CASE RetSuspended(w)
  BY <1>6 DEF RetSuspended, Enqueue, ToLoop
<1>7. CASE RetMutex(w)
  BY <1>7 DEF RetMutex, Goto
<1>8. CASE MarkRunnable(w)
  BY <1>8 DEF MarkRunnable, Goto
<1>9. CASE EnqueueIfSuspended(w)
  <2>1. runq' \in [VThreads -> Nat]
    <3>3. pvth[w] \in VThreads /\ runq \in [VThreads -> Nat]
      BY <1>9 DEF EnqueueIfSuspended
    <3>1. CASE Enqueue(pvth[w])
      BY <3>1, <3>3 DEF Enqueue
    <3>2. CASE UNCHANGED runq
      BY <3>2
    <3> QED
      BY <1>9, <3>1, <3>2 DEF EnqueueIfSuspended
  <2> QED
    BY <1>9, <2>1 DEF EnqueueIfSuspended, ToLoop, Enqueue
<1> QED
  BY <1>1, <1>2, <1>3, <1>4, <1>5, <1>6, <1>7, <1>8, <1>9 DEF LoopStep

\* A step of wake_up_joined keeps them.
LEMMA TypeFinish ==
  ASSUME TypeInv, NEW w \in Workers, FinishStep(w)
  PROVE  TypeInv'
<1> USE ActorsAssumption, LocksAssumption, JoinAssumption
        DEF TypeInv, TypeOK, SchedTypeOK, ControlOK, joinVars, finishVars,
            schedVars, workerVars, WorkerAt, WorkerPCs, FinishPCs, Status,
            FinishAt, FinishGoto
<1>1. CASE FinishLock(w)
  BY <1>1 DEF FinishLock
<1>2. CASE FinishPublish(w)
  BY <1>2 DEF FinishPublish
<1>3. CASE FinishMark(w)
  BY <1>3 DEF FinishMark
<1>4. CASE FinishEnqueue(w)
  BY <1>4 DEF FinishEnqueue, Enqueue
<1>5. CASE FinishWalked(w)
  BY <1>5 DEF FinishWalked
<1>6. CASE FinishPost(w)
  <2>1. CASE fut' = [fut EXCEPT ![pvth[w]] = 1] /\ FinishGoto(w, "wake")
    BY <1>6, <2>1 DEF FinishPost
  <2>2. CASE UNCHANGED <<fut, fpc>>
    BY <1>6, <2>2 DEF FinishPost
  <2> QED
    BY <1>6, <2>1, <2>2 DEF FinishPost
<1>7. CASE FutexWake(w)
  <2>1. CASE UNCHANGED pc
    BY <1>7, <2>1 DEF FutexWake
  <2>2. CASE \E a \in Sleepers(pvth[w]) : Move(a, "j_wait")
    <3>1. PICK a \in RawThreads : pc[a] = "j_sleep" /\ pc' = [pc EXCEPT ![a] = "j_wait"]
      BY <2>2 DEF Sleepers, Move
    <3> QED
      BY <1>7, <3>1 DEF FutexWake, PCs, JoinPCs, Actors
  <2> QED
    BY <1>7, <2>1, <2>2 DEF FutexWake
<1>8. CASE FinishDone(w)
  BY <1>8 DEF FinishDone, ToLoop
<1> QED
  BY <1>1, <1>2, <1>3, <1>4, <1>5, <1>6, <1>7, <1>8 DEF FinishStep

\* What the yield of a vthread does: one worker that has run it returns from
\* resume with the code.
LEMMA YieldReturns ==
  ASSUME TypeInv, NEW a \in VThreads, NEW code, YieldMyself(a, code)
  PROVE  \E w \in Workers :
           /\ wpc[w] = "run" /\ pvth[w] = a /\ fpc[w] = "no"
           /\ wpc' = [wpc EXCEPT ![w] = "ret"]
           /\ wret' = [wret EXCEPT ![w] = code]
           /\ pvth' = pvth /\ fault' = fault
BY ActorsAssumption DEF YieldMyself, RunsOn, TypeInv, ControlOK

\* A yield keeps what concerns the workers.
LEMMA YieldTypes ==
  ASSUME TypeInv, NEW a \in VThreads, NEW code \in Status \cup Locks,
         YieldMyself(a, code), UNCHANGED finishVars
  PROVE  /\ wpc' \in [Workers -> WorkerPCs]
         /\ pvth' \in [Workers -> VThreads \cup {None}]
         /\ wret' \in [Workers -> Status \cup Locks \cup {None}]
         /\ fault' \in {"none", "nullptr", "stale_context"}
         /\ \A w \in Workers :
              /\ wpc'[w] = "idle" <=> pvth'[w] = None
              /\ fpc'[w] # "no" => wpc'[w] = "ret" /\ wret'[w] = "FINISHED"
              /\ fpc'[w] = "enq" => head'[w] # <<>>
<1>1. PICK w \in Workers :
         /\ wpc[w] = "run" /\ pvth[w] = a /\ fpc[w] = "no"
         /\ wpc' = [wpc EXCEPT ![w] = "ret"]
         /\ wret' = [wret EXCEPT ![w] = code]
         /\ pvth' = pvth /\ fault' = fault
  BY YieldReturns
<1> QED
  BY <1>1, LocksAssumption
     DEF TypeInv, TypeOK, SchedTypeOK, ControlOK, finishVars, WorkerPCs

\* A step of an actor keeps the types and the control facts.
LEMMA TypeActor ==
  ASSUME TypeInv, NEW a \in Actors, ActorStep(a)
  PROVE  TypeInv'
<1> USE ActorsAssumption, LocksAssumption, JoinAssumption
        DEF TypeInv, TypeOK, SchedTypeOK, ControlOK, joinVars, finishVars,
            schedVars, workerVars, At, Move, Status, PCs, JoinPCs, Actors
<1>1. CASE \E v \in VThreads : CallJoin(a, v)
  BY <1>1 DEF CallJoin
<1>2. CASE JoinLock(a)
  BY <1>2 DEF JoinLock
<1>3. CASE JoinLockFail(a)
  BY <1>3, YieldTypes DEF JoinLockFail
<1>4. CASE JoinEnlist(a)
  BY <1>4 DEF JoinEnlist
<1>5. CASE JoinYield(a)
  <2>1. a \in VThreads /\ target[a] \in Locks
    BY <1>5 DEF JoinYield
  <2>2. /\ YieldMyself(a, target[a]) /\ pc[a] = "j_yield" /\ pc' = [pc EXCEPT ![a] = "j_blocked"]
        /\ UNCHANGED <<runq, runnable, cur_status, c, finishVars, join_waiters_num,
                       join_wait_queue, retval, routine_ret, fut, target, todo, result>>
    BY <1>5 DEF JoinYield
  <2>3. TypeOK'
    BY <2>1, <2>2, YieldTypes
  <2>4. ControlOK'
    BY <2>1, <2>2, YieldTypes
  <2> QED
    BY <2>1, <2>2, <2>3, <2>4
<1>6. CASE JoinResumed(a)
  BY <1>6 DEF JoinResumed, Return
<1>7. CASE JoinEnlistRaw(a)
  BY <1>7 DEF JoinEnlistRaw
<1>8. CASE JoinFinished(a)
  BY <1>8 DEF JoinFinished, Return
<1>9. CASE SemaTake(a)
  BY <1>9 DEF SemaTake, Return
<1>10. CASE SemaTakeFail(a)
  BY <1>10 DEF SemaTakeFail
<1>11. CASE FutexWait(a)
  BY <1>11 DEF FutexWait
<1>12. CASE ReturnFromRoutine(a)
  <2>1. routine_ret' \in [VThreads -> BOOLEAN]
    BY <1>12, Zenon DEF ReturnFromRoutine
  <2>2. pc' = [pc EXCEPT ![a] = "e_yield"] /\ pc[a] = "ready" /\ a \in VThreads
    BY <1>12 DEF ReturnFromRoutine
  <2>3. UNCHANGED <<schedVars, finishVars, join_waiters_num, join_wait_queue,
                    retval, fut, target, todo, result>>
    BY <1>12 DEF ReturnFromRoutine
  <2>4. TypeOK'
    BY <2>1, <2>2, <2>3
  <2>5. ControlOK'
    BY <2>2, <2>3
  <2> QED
    BY <2>4, <2>5
<1>13. CASE CallExit(a)
  <2>1. CASE a \in VThreads /\ Move(a, "e_lock") /\ UNCHANGED fault
    <3>1. UNCHANGED <<runq, runnable, cur_status, c, wpc, pvth, wret, fault, fpc,
                      waiters, head, join_waiters_num, join_wait_queue, retval,
                      routine_ret, fut, target, todo, result>>
      BY <1>13, <2>1 DEF CallExit
    <3>2. pc[a] = "ready" /\ pc' = [pc EXCEPT ![a] = "e_lock"]
      BY <1>13, <2>1 DEF CallExit
    <3>3. TypeOK'
      BY <3>1, <3>2
    <3>4. ControlOK'
      BY <2>1, <3>1, <3>2
    <3> QED
      BY <3>3, <3>4
  <2>2. CASE a \in RawThreads /\ fault' = "nullptr" /\ UNCHANGED pc
    BY <1>13, <2>2 DEF CallExit
  <2> QED
    BY <1>13, <2>1, <2>2 DEF CallExit
<1>14. CASE ExitLock(a)
  <2>1. /\ c' \in [Locks -> {0, 1}] /\ pc[a] = "e_lock" /\ pc' = [pc EXCEPT ![a] = "e_set"]
        /\ UNCHANGED <<runq, runnable, cur_status, workerVars, fault, finishVars,
                       join_waiters_num, join_wait_queue, retval, routine_ret, fut,
                       target, todo, result>>
    BY <1>14 DEF ExitLock
  <2>2. TypeOK'
    BY <2>1
  <2>3. ControlOK'
    BY <2>1
  <2> QED
    BY <2>2, <2>3
<1>15. CASE ExitLockFail(a)
  BY <1>15, YieldTypes DEF ExitLockFail
<1>16. CASE ExitSet(a)
  <2>1. c' \in [Locks -> {0, 1}] /\ pc[a] = "e_set" /\ pc' = [pc EXCEPT ![a] = "e_yield"]
    BY <1>16 DEF ExitSet
  <2>2. routine_ret' \in [VThreads -> BOOLEAN]
    BY <1>16, Zenon DEF ExitSet
  <2>3. UNCHANGED <<runq, runnable, cur_status, workerVars, fault, finishVars,
                    join_waiters_num, join_wait_queue, retval, fut, target, todo, result>>
    BY <1>16 DEF ExitSet
  <2>4. TypeOK'
    BY <2>1, <2>2, <2>3
  <2>5. ControlOK'
    BY <2>1, <2>3
  <2> QED
    BY <2>4, <2>5
<1>17. CASE End(a)
  <2>1. /\ a \in VThreads /\ YieldMyself(a, "FINISHED")
        /\ pc[a] = "e_yield" /\ pc' = [pc EXCEPT ![a] = "ended"]
        /\ UNCHANGED <<runq, runnable, cur_status, c, finishVars, join_waiters_num,
                       join_wait_queue, retval, routine_ret, fut, target, todo, result>>
    BY <1>17 DEF End
  <2>2. TypeOK'
    BY <2>1, YieldTypes
  <2>3. ControlOK'
    BY <2>1, YieldTypes
  <2> QED
    BY <2>2, <2>3
<1> QED
  BY <1>1, <1>2, <1>3, <1>4, <1>5, <1>6, <1>7, <1>8, <1>9, <1>10, <1>11,
     <1>12, <1>13, <1>14, <1>15, <1>16, <1>17 DEF ActorStep

\* Every variable of Join has its type, and a control point that uses the
\* target of a join or the vthread of a worker finds it there.
THEOREM TypeCorrect == Spec => []TypeInv
<1>1. TypeInv /\ [Next]_vars => TypeInv'
  <2> SUFFICES ASSUME TypeInv, [Next]_vars PROVE TypeInv'
    OBVIOUS
  <2>1. CASE \E a \in Actors : ActorStep(a)
    BY <2>1, TypeActor
  <2>2. CASE \E w \in Workers : Work(w)
    BY <2>2, TypeLoop, TypeFinish DEF Work
  <2>3. CASE UNCHANGED vars
    BY <2>3 DEF vars, schedVars, joinVars, finishVars, TypeInv, TypeOK,
                SchedTypeOK, ControlOK
  <2> QED
    BY <2>1, <2>2, <2>3 DEF Next
<1> QED
  BY <1>1, TypeInit, PTL DEF Spec

-----------------------------------------------------------------------------
(***************************************************************************)
(* The steps of the loop of a worker.                                      *)
(***************************************************************************)

\* The worker w ends a vthread.
Ending(w) == wpc[w] = "ret" /\ wret[w] = "FINISHED"

\* The four things a step of the loop does with a vthread: take it from
\* vs_queue, put it back, leave it to others, or go on with it.
Takes(w, v) ==
  /\ wpc[w] = "idle" /\ wpc'[w] = "check" /\ pvth'[w] = v
  /\ runq[v] > 0 /\ runq' = [runq EXCEPT ![v] = @ - 1]

Puts(w) ==
  /\ \/ wpc[w] = "check"
     \/ wpc[w] = "ret" /\ wret[w] \notin Locks
     \/ wpc[w] = "marked" /\ cur_status[pvth[w]] = "SUSPENDED"
  /\ wpc'[w] = "idle" /\ pvth'[w] = None
  /\ runq' = [runq EXCEPT ![pvth[w]] = @ + 1]

Leaves(w) ==
  /\ wpc[w] \in {"ret", "marked"}
  /\ wpc'[w] = "idle" /\ pvth'[w] = None
  /\ runq' = runq

GoesOn(w) ==
  /\ \/ wpc[w] = "check" /\ wpc'[w] = "resume"
     \/ wpc[w] = "resume" /\ wpc'[w] = "run" /\ HasContext(pvth[w])
     \/ wpc[w] = "resume" /\ wpc'[w] = "resume"
     \/ wpc[w] = "ret" /\ wret[w] \in Locks /\ wpc'[w] = "released"
     \/ wpc[w] = "released" /\ wpc'[w] = "marked"
  /\ pvth' = pvth
  /\ runq' = runq

\* A step of the loop does one of them, for its own worker.
LEMMA LoopShape ==
  ASSUME TypeInv, NEW w \in Workers, LoopStep(w), UNCHANGED <<joinVars, finishVars>>
  PROVE  /\ UNCHANGED <<cur_status, join_waiters_num, join_wait_queue, retval,
                        routine_ret, fut, pc, target, todo, result, fpc, waiters, head>>
         /\ \A x \in Workers \ {w} :
              wpc'[x] = wpc[x] /\ pvth'[x] = pvth[x] /\ wret'[x] = wret[x]
         /\ fpc[w] = "no"
         /\ ~Ending(w) /\ ~Ending(w)'
         /\ \/ \E v \in VThreads : Takes(w, v)
            \/ Puts(w)
            \/ Leaves(w)
            \/ GoesOn(w)
<1> USE LocksAssumption
        DEF TypeInv, TypeOK, SchedTypeOK, ControlOK, joinVars, finishVars,
            WorkerAt, WorkerPCs, Status, Ending
<1>1. CASE \E v \in VThreads : GetAndWork(w, v)
  <2>1. PICK v \in VThreads : GetAndWork(w, v)
    BY <1>1
  <2>2. /\ wpc[w] = "idle" /\ runq[v] > 0 /\ runq' = [runq EXCEPT ![v] = @ - 1]
        /\ wpc' = [wpc EXCEPT ![w] = "check"] /\ pvth' = [pvth EXCEPT ![w] = v] /\ wret' = wret
        /\ UNCHANGED <<cur_status, join_waiters_num, join_wait_queue, retval,
                       routine_ret, fut, pc, target, todo, result, fpc, waiters, head>>
    BY <2>1 DEF GetAndWork
  <2>3. wpc'[w] = "check" /\ pvth'[w] = v /\ fpc[w] = "no"
    BY <2>2
  <2>4. \A x \in Workers \ {w} : wpc'[x] = wpc[x] /\ pvth'[x] = pvth[x] /\ wret'[x] = wret[x]
    BY <2>2
  <2> QED
    BY <2>2, <2>3, <2>4 DEF Takes
<1>2. CASE PutBack(w)
  BY <1>2 DEF PutBack, Enqueue, ToLoop, Puts
<1>3. CASE Accept(w)
  BY <1>3 DEF Accept, Goto, GoesOn
<1>4. CASE Resume(w)
  <2>1. CASE HasContext(pvth[w])
    <3>1. /\ wpc[w] = "resume"
          /\ wpc' = [wpc EXCEPT ![w] = "run"]
          /\ UNCHANGED <<runq, runnable, cur_status, c, pvth, wret, fault>>
      BY <1>4, <2>1 DEF Resume, Goto
    <3> QED
      BY <2>1, <3>1 DEF GoesOn
  <2>2. CASE ~HasContext(pvth[w])
    BY <1>4, <2>2 DEF Resume, workerVars, GoesOn
  <2> QED
    BY <2>1, <2>2
<1>5. CASE RetBlocked(w)
  BY <1>5 DEF RetBlocked, ToLoop, Leaves
<1>6. CASE RetSuspended(w)
  BY <1>6 DEF RetSuspended, Enqueue, ToLoop, Puts
<1>7. CASE RetMutex(w)
  BY <1>7 DEF RetMutex, Goto, GoesOn
<1>8. CASE MarkRunnable(w)
  BY <1>8 DEF MarkRunnable, Goto, GoesOn
<1>9. CASE EnqueueIfSuspended(w)
  <2>1. CASE cur_status[pvth[w]] = "SUSPENDED" /\ Enqueue(pvth[w])
    BY <1>9, <2>1 DEF EnqueueIfSuspended, Enqueue, ToLoop, Puts
  <2>2. CASE UNCHANGED runq
    BY <1>9, <2>2 DEF EnqueueIfSuspended, ToLoop, Leaves
  <2> QED
    BY <1>9, <2>1, <2>2 DEF EnqueueIfSuspended
<1> QED
  BY <1>1, <1>2, <1>3, <1>4, <1>5, <1>6, <1>7, <1>8, <1>9 DEF LoopStep

-----------------------------------------------------------------------------
(***************************************************************************)
(* Ownership of join_mutex, for every program.  The four kinds of owner    *)
(* are an actor in join, the vthread in pthread_exit, the worker a joiner  *)
(* has left the release to, and the worker in wake_up_joined.              *)
(***************************************************************************)

Looks(a, v) == pc[a] \in {"j_look", "j_yield"} /\ target[a] = v
Exits(v) == pc[v] = "e_set"
Owes(w, v) == wpc[w] = "ret" /\ wret[w] = v
Finishes(w, v) == pvth[w] = v /\ fpc[w] = "locked"

\* The owners of v's join_mutex.
OwnerIs(v, A, e, O, F) ==
  /\ \A a \in Actors : Looks(a, v) <=> a \in A
  /\ Exits(v) <=> e
  /\ \A w \in Workers : (Owes(w, v) <=> w \in O) /\ (Finishes(w, v) <=> w \in F)

OwnerOK(v) ==
  \/ c[v] = 0 /\ OwnerIs(v, {}, FALSE, {}, {})
  \/ c[v] = 1 /\ \E a \in Actors : OwnerIs(v, {a}, FALSE, {}, {})
  \/ c[v] = 1 /\ OwnerIs(v, {}, TRUE, {}, {})
  \/ c[v] = 1 /\ \E w \in Workers : OwnerIs(v, {}, FALSE, {w}, {})
  \/ c[v] = 1 /\ \E w \in Workers : OwnerIs(v, {}, FALSE, {}, {w})

OwnInv == \A v \in VThreads : OwnerOK(v)

\* A free join_mutex has no owner.
LEMMA FreeHasNone ==
  ASSUME NEW v \in VThreads, OwnerOK(v), c[v] = 0
  PROVE  OwnerIs(v, {}, FALSE, {}, {})
<1>1. c[v] # 1
  OBVIOUS
<1> QED
  BY <1>1, Zenon DEF OwnerOK

\* One that looks at it is the only owner.
LEMMA LooksAlone ==
  ASSUME NEW v \in VThreads, NEW a \in Actors, OwnerOK(v), Looks(a, v)
  PROVE  OwnerIs(v, {a}, FALSE, {}, {})
BY DEF OwnerOK, OwnerIs

\* A step that leaves join_mutex of v and its owners alone.
LEMMA OwnerKept ==
  ASSUME NEW v \in VThreads, OwnerOK(v), c'[v] = c[v],
         \A a \in Actors : Looks(a, v)' <=> Looks(a, v),
         Exits(v)' <=> Exits(v),
         \A w \in Workers : (Owes(w, v)' <=> Owes(w, v)) /\ (Finishes(w, v)' <=> Finishes(w, v))
  PROVE  OwnerOK(v)'
BY DEF OwnerOK, OwnerIs

\* A step of an actor, or of a worker in wake_up_joined, that does not take or
\* release join_mutex of v.
LEMMA OwnerQuiet ==
  ASSUME NEW v \in VThreads, OwnerOK(v), c'[v] = c[v], UNCHANGED <<wpc, pvth, wret>>,
         \A w \in Workers :
           fpc'[w] = fpc[w] \/ pvth[w] # v \/ "locked" \notin {fpc[w], fpc'[w]},
         \A b \in Actors :
           \/ pc'[b] = pc[b] /\ target'[b] = target[b]
           \/ {pc[b], pc'[b]} \cap {"j_look", "j_yield", "e_set"} = {}
           \/ /\ v \notin {target[b], target'[b]}
              /\ b = v => (pc[b] = "e_set" <=> pc'[b] = "e_set")
  PROVE  OwnerOK(v)'
<1>1. \A b \in Actors : Looks(b, v)' <=> Looks(b, v)
  BY DEF Looks
<1>2. Exits(v)' <=> Exits(v)
  BY DEF Exits, Actors
<1>3. \A x \in Workers : (Owes(x, v)' <=> Owes(x, v)) /\ (Finishes(x, v)' <=> Finishes(x, v))
  BY DEF Owes, Finishes
<1> QED
  BY <1>1, <1>2, <1>3, OwnerKept

\* The yield of a vthread with a code that is not a mutex.
LEMMA YieldOwner ==
  ASSUME TypeInv, OwnInv, NEW a \in VThreads, NEW code \in Status,
         YieldMyself(a, code), c' = c, UNCHANGED <<target, fpc>>,
         \A b \in Actors : pc'[b] = pc[b] \/ {pc[b], pc'[b]} \cap {"j_look", "j_yield", "e_set"} = {}
  PROVE  OwnInv'
<1>1. PICK w \in Workers :
         /\ wpc[w] = "run" /\ pvth[w] = a /\ fpc[w] = "no"
         /\ wpc' = [wpc EXCEPT ![w] = "ret"]
         /\ wret' = [wret EXCEPT ![w] = code]
         /\ pvth' = pvth /\ fault' = fault
  BY YieldReturns
<1> SUFFICES ASSUME NEW v \in VThreads PROVE OwnerOK(v)'
  BY DEF OwnInv
<1>2. OwnerOK(v)
  BY DEF OwnInv
<1>3. \A b \in Actors : Looks(b, v)' <=> Looks(b, v)
  BY DEF Looks
<1>4. Exits(v)' <=> Exits(v)
  BY DEF Exits, Actors
<1>5. \A x \in Workers : (Owes(x, v)' <=> Owes(x, v)) /\ (Finishes(x, v)' <=> Finishes(x, v))
  BY <1>1, LocksAssumption, JoinAssumption
     DEF Owes, Finishes, TypeInv, TypeOK, SchedTypeOK
<1> QED
  BY <1>2, <1>3, <1>4, <1>5, OwnerKept

\* A step of a worker keeps the ownership: it releases only what it owes.
LEMMA OwnLoop ==
  ASSUME TypeInv, OwnInv, NEW w \in Workers, LoopStep(w),
         UNCHANGED <<joinVars, finishVars>>
  PROVE  OwnInv'
<1>1. /\ UNCHANGED <<pc, target, fpc>> /\ fpc[w] = "no" /\ wpc'[w] # "ret"
      /\ \A x \in Workers \ {w} :
           wpc'[x] = wpc[x] /\ pvth'[x] = pvth[x] /\ wret'[x] = wret[x]
  BY LoopShape DEF Takes, Puts, Leaves, GoesOn
<1>2. RetMutex(w) \/ (c' = c /\ ~(wpc[w] = "ret" /\ wret[w] \in Locks))
  BY LocksAssumption
     DEF LoopStep, GetAndWork, PutBack, Accept, Resume, RetBlocked, RetSuspended,
         MarkRunnable, EnqueueIfSuspended, WorkerAt, Status
<1> SUFFICES ASSUME NEW v \in VThreads PROVE OwnerOK(v)'
  BY DEF OwnInv
<1>3. /\ OwnerOK(v)
      /\ \A b \in Actors : Looks(b, v)' <=> Looks(b, v)
      /\ Exits(v)' <=> Exits(v)
  BY <1>1 DEF OwnInv, Looks, Exits
<1>4. /\ \A x \in Workers : Finishes(x, v)' <=> Finishes(x, v)
      /\ \A x \in Workers : Owes(x, v)' <=> x # w /\ Owes(x, v)
  BY <1>1 DEF Finishes, Owes
<1>5. CASE RetMutex(w) /\ wret[w] = v
  <2>1. Owes(w, v) /\ c'[v] = 0
    BY <1>5, JoinAssumption DEF RetMutex, WorkerAt, Owes, TypeInv, TypeOK, SchedTypeOK
  <2>2. OwnerIs(v, {}, FALSE, {w}, {})
    BY <1>3, <2>1 DEF OwnerOK, OwnerIs
  <2>3. OwnerIs(v, {}, FALSE, {}, {})'
    BY <1>3, <1>4, <2>2 DEF OwnerIs
  <2> QED
    BY <2>1, <2>3 DEF OwnerOK
<1>6. CASE ~(RetMutex(w) /\ wret[w] = v)
  <2>1. c'[v] = c[v] /\ ~Owes(w, v)
    BY <1>2, <1>6, JoinAssumption DEF RetMutex, Owes, TypeInv, TypeOK, SchedTypeOK
  <2> QED
    BY <1>3, <1>4, <2>1, OwnerKept
<1> QED
  BY <1>5, <1>6

\* A step of wake_up_joined keeps it.
LEMMA OwnFinish ==
  ASSUME TypeInv, OwnInv, NEW w \in Workers, FinishStep(w)
  PROVE  OwnInv'
<1> USE LocksAssumption, JoinAssumption
        DEF TypeInv, TypeOK, SchedTypeOK, ControlOK, joinVars, finishVars,
            schedVars, workerVars, WorkerAt, Status, FinishAt, FinishGoto
<1> SUFFICES ASSUME NEW v \in VThreads PROVE OwnerOK(v)'
  BY DEF OwnInv
<1>0. OwnerOK(v)
  BY DEF OwnInv
<1>1. CASE FinishLock(w)
  <2>1. CASE pvth[w] = v
    <3>1. OwnerIs(v, {}, FALSE, {}, {}) /\ c'[v] = 1
      BY <1>0, <1>1, <2>1, FreeHasNone DEF FinishLock
    <3>2. OwnerIs(v, {}, FALSE, {}, {w})'
      BY <1>1, <2>1, <3>1 DEF FinishLock, OwnerIs, Looks, Exits, Owes, Finishes
    <3> QED
      BY <3>1, <3>2 DEF OwnerOK
  <2>2. CASE pvth[w] # v
    <3>1. c'[v] = c[v] /\ UNCHANGED <<wpc, pvth, wret, pc, target>>
      BY <1>1, <2>2 DEF FinishLock
    <3>2. \A x \in Workers : fpc'[x] = fpc[x] \/ pvth[x] # v
      BY <1>1, <2>2 DEF FinishLock
    <3> QED
      BY <1>0, <3>1, <3>2, OwnerQuiet
  <2> QED
    BY <2>1, <2>2
<1>2. CASE FinishPublish(w)
  <2>1. CASE pvth[w] = v
    <3>1. c'[v] = 0
      BY <1>2, <2>1 DEF FinishPublish
    <3>2. Finishes(w, v)
      BY <1>2, <2>1 DEF FinishPublish, Finishes
    <3>3. OwnerIs(v, {}, FALSE, {}, {w})
      BY <1>0, <3>2 DEF OwnerOK, OwnerIs
    <3>4. OwnerIs(v, {}, FALSE, {}, {})'
      BY <1>2, <2>1, <3>3 DEF FinishPublish, OwnerIs, Looks, Exits, Owes, Finishes
    <3> QED
      BY <3>1, <3>4 DEF OwnerOK
  <2>2. CASE pvth[w] # v
    <3>1. c'[v] = c[v] /\ UNCHANGED <<wpc, pvth, wret, pc, target>>
      BY <1>2, <2>2 DEF FinishPublish
    <3>2. \A x \in Workers : fpc'[x] = fpc[x] \/ pvth[x] # v
      BY <1>2, <2>2 DEF FinishPublish
    <3> QED
      BY <1>0, <3>1, <3>2, OwnerQuiet
  <2> QED
    BY <2>1, <2>2
<1>3. CASE FinishMark(w)
  <2>1. /\ UNCHANGED <<c, wpc, pvth, wret, pc, target>>
        /\ \A x \in Workers : fpc'[x] = fpc[x] \/ "locked" \notin {fpc[x], fpc'[x]}
    BY <1>3 DEF FinishMark
  <2> QED
    BY <1>0, <2>1, OwnerQuiet
<1>4. CASE FinishEnqueue(w)
  <2>1. /\ UNCHANGED <<c, wpc, pvth, wret, pc, target>>
        /\ \A x \in Workers : fpc'[x] = fpc[x] \/ "locked" \notin {fpc[x], fpc'[x]}
    BY <1>4 DEF FinishEnqueue
  <2> QED
    BY <1>0, <2>1, OwnerQuiet
<1>5. CASE FinishWalked(w)
  <2>1. /\ UNCHANGED <<c, wpc, pvth, wret, pc, target>>
        /\ \A x \in Workers : fpc'[x] = fpc[x] \/ "locked" \notin {fpc[x], fpc'[x]}
    BY <1>5 DEF FinishWalked
  <2> QED
    BY <1>0, <2>1, OwnerQuiet
<1>6. CASE FinishPost(w)
  <2>1. /\ UNCHANGED <<c, wpc, pvth, wret, pc, target>>
        /\ \A x \in Workers : fpc'[x] = fpc[x] \/ "locked" \notin {fpc[x], fpc'[x]}
    BY <1>6 DEF FinishPost
  <2> QED
    BY <1>0, <2>1, OwnerQuiet
<1>7. CASE FutexWake(w)
  <2>1. \A b \in Actors : pc'[b] = pc[b] \/ (pc[b] = "j_sleep" /\ pc'[b] = "j_wait")
    <3>1. CASE UNCHANGED pc
      BY <3>1
    <3>2. CASE \E a \in Sleepers(pvth[w]) : Move(a, "j_wait")
      BY <3>2 DEF Sleepers, Move, Actors
    <3> QED
      BY <1>7, <3>1, <3>2 DEF FutexWake
  <2>2. /\ UNCHANGED <<c, wpc, pvth, wret, target>>
        /\ \A x \in Workers : fpc'[x] = fpc[x] \/ "locked" \notin {fpc[x], fpc'[x]}
    BY <1>7 DEF FutexWake
  <2> QED
    BY <1>0, <2>1, <2>2, OwnerQuiet
<1>8. CASE FinishDone(w)
  BY <1>0, <1>8, OwnerKept DEF FinishDone, ToLoop, Looks, Exits, Owes, Finishes
<1> QED
  BY <1>1, <1>2, <1>3, <1>4, <1>5, <1>6, <1>7, <1>8 DEF FinishStep

\* A step of an actor keeps it.
LEMMA OwnActor ==
  ASSUME TypeInv, OwnInv, NEW a \in Actors, ActorStep(a)
  PROVE  OwnInv'
<1> USE LocksAssumption, JoinAssumption, ActorsAssumption
        DEF TypeInv, TypeOK, SchedTypeOK, ControlOK, joinVars, finishVars,
            schedVars, workerVars, At, Move, Status, Actors, JoinPCs
<1>0. \A v \in VThreads : OwnerOK(v)
  BY DEF OwnInv
<1>1. CASE \E v \in VThreads : CallJoin(a, v)
  <2>1. /\ \A b \in Actors : \/ pc'[b] = pc[b] /\ target'[b] = target[b]
                             \/ pc[b] = "ready" /\ pc'[b] = "j_lock"
        /\ UNCHANGED <<c, wpc, pvth, wret, fpc>>
    BY <1>1 DEF CallJoin
  <2>2. SUFFICES ASSUME NEW v \in VThreads PROVE OwnerOK(v)'
    BY DEF OwnInv
  <2> QED
    BY <1>0, <2>1, OwnerKept DEF Looks, Exits, Owes, Finishes
<1>2. CASE JoinLock(a)
  <2>1. SUFFICES ASSUME NEW v \in VThreads PROVE OwnerOK(v)'
    BY DEF OwnInv
  <2>2. CASE target[a] = v
    <3>1. OwnerIs(v, {}, FALSE, {}, {}) /\ c'[v] = 1
      BY <1>0, <1>2, <2>2, FreeHasNone DEF JoinLock
    <3>2. OwnerIs(v, {a}, FALSE, {}, {})'
      BY <1>2, <2>2, <3>1 DEF JoinLock, OwnerIs, Looks, Exits, Owes, Finishes
    <3> QED
      BY <3>1, <3>2 DEF OwnerOK
  <2>3. CASE target[a] # v
    <3>1. c'[v] = c[v] /\ UNCHANGED <<wpc, pvth, wret, fpc, target>>
      BY <1>2, <2>3 DEF JoinLock
    <3>2. \A b \in Actors : pc'[b] = pc[b] \/ (b = a /\ pc[b] = "j_lock" /\ pc'[b] = "j_look")
      BY <1>2 DEF JoinLock
    <3> QED
      BY <1>0, <2>3, <3>1, <3>2, OwnerQuiet
  <2> QED
    BY <2>2, <2>3
<1>3. CASE JoinLockFail(a)
  BY <1>3, YieldOwner DEF JoinLockFail
<1>4. CASE JoinEnlist(a)
  BY <1>0, <1>4, OwnerKept DEF JoinEnlist, OwnInv, Looks, Exits, Owes, Finishes
<1>5. CASE JoinYield(a)
  <2>1. a \in VThreads /\ target[a] \in VThreads
    BY <1>5 DEF JoinYield
  <2>2. PICK w \in Workers :
         /\ wpc[w] = "run" /\ pvth[w] = a /\ fpc[w] = "no"
         /\ wpc' = [wpc EXCEPT ![w] = "ret"]
         /\ wret' = [wret EXCEPT ![w] = target[a]]
         /\ pvth' = pvth /\ fault' = fault
    <3>1. YieldMyself(a, target[a]) /\ TypeInv
      BY <1>5 DEF JoinYield
    <3> HIDE DEF TypeInv
    <3> QED
      BY <2>1, <3>1, YieldReturns, Zenon
  <2>3. SUFFICES ASSUME NEW v \in VThreads PROVE OwnerOK(v)'
    BY DEF OwnInv
  <2>4. CASE target[a] = v
    <3>1. Looks(a, v)
      BY <1>5, <2>4 DEF JoinYield, Looks
    <3>2. OwnerIs(v, {a}, FALSE, {}, {}) /\ c[v] = 1
      BY <1>0, <3>1 DEF OwnerOK, OwnerIs
    <3>3. OwnerIs(v, {}, FALSE, {w}, {})' /\ c'[v] = 1
      BY <1>5, <2>2, <2>4, <3>2 DEF JoinYield, OwnerIs, Looks, Exits, Owes, Finishes
    <3> QED
      BY <3>3 DEF OwnerOK
  <2>5. CASE target[a] # v
    BY <1>0, <1>5, <2>2, <2>5, OwnerKept DEF JoinYield, Looks, Exits, Owes, Finishes
  <2> QED
    BY <2>4, <2>5
<1>6. CASE JoinResumed(a)
  <2>1. /\ UNCHANGED <<c, wpc, pvth, wret, fpc>>
        /\ \A b \in Actors : \/ pc'[b] = pc[b] /\ target'[b] = target[b]
                             \/ {pc[b], pc'[b]} \cap {"j_look", "j_yield", "e_set"} = {}
    BY <1>6 DEF JoinResumed, Return
  <2> QED
    BY <1>0, <2>1, OwnerQuiet DEF OwnInv
<1>7. CASE JoinEnlistRaw(a) \/ JoinFinished(a)
  <2>1. /\ pc[a] = "j_look" /\ pc' = [pc EXCEPT ![a] = pc'[a]]
        /\ pc'[a] \in {"j_wait", "ready"}
        /\ target' = target \/ target' = [target EXCEPT ![a] = None]
        /\ c' = [c EXCEPT ![target[a]] = 0]
        /\ UNCHANGED <<wpc, pvth, wret, fpc>>
    BY <1>7 DEF JoinEnlistRaw, JoinFinished, Return
  <2>2. SUFFICES ASSUME NEW v \in VThreads PROVE OwnerOK(v)'
    BY DEF OwnInv
  <2>3. CASE target[a] = v
    <3>1. Looks(a, v) /\ c'[v] = 0
      BY <2>1, <2>3 DEF Looks
    <3>2. OwnerIs(v, {a}, FALSE, {}, {})
      BY <1>0, <3>1, LooksAlone
    <3>3. OwnerIs(v, {}, FALSE, {}, {})'
      <4>1. \A b \in Actors : Looks(b, v)' <=> b # a /\ Looks(b, v)
        BY <2>1, <2>3 DEF Looks
      <4>2. Exits(v)' <=> Exits(v)
        BY <2>1 DEF Exits
      <4>3. \A x \in Workers : (Owes(x, v)' <=> Owes(x, v)) /\ (Finishes(x, v)' <=> Finishes(x, v))
        BY <2>1 DEF Owes, Finishes
      <4> QED
        BY <3>2, <4>1, <4>2, <4>3 DEF OwnerIs
    <3> QED
      BY <3>1, <3>3 DEF OwnerOK
  <2>4. CASE target[a] # v
    <3>1. Exits(v)' <=> Exits(v)
      BY <2>1 DEF Exits
    <3>2. \A b \in Actors : Looks(b, v)' <=> Looks(b, v)
      BY <2>1, <2>4 DEF Looks
    <3>3. \A x \in Workers : (Owes(x, v)' <=> Owes(x, v)) /\ (Finishes(x, v)' <=> Finishes(x, v))
      BY <2>1 DEF Owes, Finishes
    <3>4. c'[v] = c[v]
      BY <2>1, <2>4
    <3> QED
      BY <1>0, <3>1, <3>2, <3>3, <3>4, OwnerKept
  <2> QED
    BY <2>3, <2>4
<1>9. CASE SemaTake(a)
  <2>1. /\ UNCHANGED <<c, wpc, pvth, wret, fpc>>
        /\ \A b \in Actors : \/ pc'[b] = pc[b] /\ target'[b] = target[b]
                             \/ {pc[b], pc'[b]} \cap {"j_look", "j_yield", "e_set"} = {}
    BY <1>9 DEF SemaTake, Return
  <2> QED
    BY <1>0, <2>1, OwnerQuiet DEF OwnInv
<1>10. CASE SemaTakeFail(a)
  <2>1. /\ UNCHANGED <<c, wpc, pvth, wret, fpc>>
        /\ \A b \in Actors : \/ pc'[b] = pc[b] /\ target'[b] = target[b]
                             \/ {pc[b], pc'[b]} \cap {"j_look", "j_yield", "e_set"} = {}
    BY <1>10 DEF SemaTakeFail
  <2> QED
    BY <1>0, <2>1, OwnerQuiet DEF OwnInv
<1>11. CASE FutexWait(a)
  <2>1. /\ UNCHANGED <<c, wpc, pvth, wret, fpc>>
        /\ \A b \in Actors : \/ pc'[b] = pc[b] /\ target'[b] = target[b]
                             \/ {pc[b], pc'[b]} \cap {"j_look", "j_yield", "e_set"} = {}
    BY <1>11 DEF FutexWait
  <2> QED
    BY <1>0, <2>1, OwnerQuiet DEF OwnInv
<1>12. CASE ReturnFromRoutine(a)
  <2>1. /\ UNCHANGED <<c, wpc, pvth, wret, fpc>>
        /\ \A b \in Actors : \/ pc'[b] = pc[b] /\ target'[b] = target[b]
                             \/ {pc[b], pc'[b]} \cap {"j_look", "j_yield", "e_set"} = {}
    BY <1>12 DEF ReturnFromRoutine
  <2> QED
    BY <1>0, <2>1, OwnerQuiet DEF OwnInv
<1>13. CASE CallExit(a)
  <2>1. /\ UNCHANGED <<c, wpc, pvth, wret, fpc>>
        /\ \A b \in Actors : \/ pc'[b] = pc[b] /\ target'[b] = target[b]
                             \/ {pc[b], pc'[b]} \cap {"j_look", "j_yield", "e_set"} = {}
    BY <1>13 DEF CallExit
  <2> QED
    BY <1>0, <2>1, OwnerQuiet DEF OwnInv
<1>14. CASE ExitLock(a)
  <2>1. SUFFICES ASSUME NEW v \in VThreads PROVE OwnerOK(v)'
    BY DEF OwnInv
  <2>2. CASE a = v
    <3>1. OwnerIs(v, {}, FALSE, {}, {}) /\ c'[v] = 1
      <4>1. c[v] = 0 /\ c'[v] = 1
        BY <1>14, <2>2 DEF ExitLock
      <4> QED
        BY <1>0, <4>1, FreeHasNone
    <3>2. OwnerIs(v, {}, TRUE, {}, {})'
      BY <1>14, <2>2, <3>1 DEF ExitLock, OwnerIs, Looks, Exits, Owes, Finishes
    <3> QED
      BY <3>1, <3>2 DEF OwnerOK
  <2>3. CASE a # v
    <3>1. c'[v] = c[v] /\ UNCHANGED <<wpc, pvth, wret, fpc, target>>
      BY <1>14, <2>3 DEF ExitLock
    <3>2. \A b \in Actors : pc'[b] = pc[b] \/ (b = a /\ target[b] = None)
      BY <1>14 DEF ExitLock
    <3> QED
      BY <1>0, <2>3, <3>1, <3>2, OwnerQuiet
  <2> QED
    BY <2>2, <2>3
<1>15. CASE ExitLockFail(a)
  BY <1>15, YieldOwner DEF ExitLockFail
<1>16. CASE ExitSet(a)
  <2>1. SUFFICES ASSUME NEW v \in VThreads PROVE OwnerOK(v)'
    BY DEF OwnInv
  <2>2. CASE a = v
    <3>1. Exits(v) /\ c'[v] = 0
      BY <1>16, <2>2 DEF ExitSet, Exits
    <3>2. OwnerIs(v, {}, TRUE, {}, {})
      BY <1>0, <3>1 DEF OwnerOK, OwnerIs
    <3>3. OwnerIs(v, {}, FALSE, {}, {})'
      BY <1>16, <2>2, <3>2 DEF ExitSet, OwnerIs, Looks, Exits, Owes, Finishes
    <3> QED
      BY <3>1, <3>3 DEF OwnerOK
  <2>3. CASE a # v
    <3>1. c'[v] = c[v] /\ UNCHANGED <<wpc, pvth, wret, fpc, target>>
      BY <1>16, <2>3 DEF ExitSet
    <3>2. \A b \in Actors : pc'[b] = pc[b] \/ (b = a /\ target[b] = None)
      BY <1>16 DEF ExitSet
    <3> QED
      BY <1>0, <2>3, <3>1, <3>2, OwnerQuiet
  <2> QED
    BY <2>2, <2>3
<1>17. CASE End(a)
  <2>1. a \in VThreads /\ YieldMyself(a, "FINISHED") /\ c' = c /\ UNCHANGED <<target, fpc>>
    BY <1>17 DEF End
  <2>2. \A b \in Actors : pc'[b] = pc[b] \/ {pc[b], pc'[b]} \cap {"j_look", "j_yield", "e_set"} = {}
    BY <1>17 DEF End
  <2> QED
    BY <2>1, <2>2, YieldOwner
<1> QED
  BY <1>1, <1>2, <1>3, <1>4, <1>5, <1>6, <1>7, <1>9, <1>10, <1>11,
     <1>12, <1>13, <1>14, <1>15, <1>16, <1>17 DEF ActorStep

\* The owners as JoinMutexOwned counts them.
LEMMA OwnersCounted == OwnInv => JoinMutexOwned
<1> SUFFICES ASSUME OwnInv, NEW v \in VThreads
             PROVE  c[v] = Cardinality({a \in Actors : Looks(a, v)})
                           + (IF Exits(v) THEN 1 ELSE 0)
                           + Cardinality({w \in Workers : Owes(w, v)})
                           + Cardinality({w \in Workers : Finishes(w, v)})
  BY DEF JoinMutexOwned, Looks, Exits, Owes, Finishes
<1> DEFINE A == {a \in Actors : Looks(a, v)}
           O == {w \in Workers : Owes(w, v)}
           F == {w \in Workers : Finishes(w, v)}
<1>1. OwnerOK(v)
  BY DEF OwnInv
<1>2. Cardinality({}) = 0 /\ \A x : Cardinality({x}) = 1
  BY FS_EmptySet, FS_Singleton
<1>3. CASE c[v] = 0 /\ OwnerIs(v, {}, FALSE, {}, {})
  <2>1. /\ A = {} /\ O = {} /\ F = {} /\ ~Exits(v)
    BY <1>3 DEF OwnerIs
  <2>2. Cardinality(A) = 0 /\ Cardinality(O) = 0 /\ Cardinality(F) = 0
    BY <1>2, <2>1
  <2> QED
    BY <1>3, <2>1, <2>2
<1>4. CASE c[v] = 1 /\ \E a \in Actors : OwnerIs(v, {a}, FALSE, {}, {})
  <2>1. PICK a \in Actors : OwnerIs(v, {a}, FALSE, {}, {})
    BY <1>4
  <2>2. /\ A = {a} /\ O = {} /\ F = {} /\ ~Exits(v)
    BY <2>1 DEF OwnerIs
  <2>3. Cardinality(A) = 1 /\ Cardinality(O) = 0 /\ Cardinality(F) = 0
    BY <1>2, <2>2
  <2> QED
    BY <1>4, <2>2, <2>3
<1>5. CASE c[v] = 1 /\ OwnerIs(v, {}, TRUE, {}, {})
  <2>1. /\ A = {} /\ O = {} /\ F = {} /\ Exits(v)
    BY <1>5 DEF OwnerIs
  <2>2. Cardinality(A) = 0 /\ Cardinality(O) = 0 /\ Cardinality(F) = 0
    BY <1>2, <2>1
  <2> QED
    BY <1>5, <2>1, <2>2
<1>6. CASE c[v] = 1 /\ \E w \in Workers : OwnerIs(v, {}, FALSE, {w}, {})
  <2>1. PICK w \in Workers : OwnerIs(v, {}, FALSE, {w}, {})
    BY <1>6
  <2>2. /\ A = {} /\ O = {w} /\ F = {} /\ ~Exits(v)
    BY <2>1 DEF OwnerIs
  <2>3. Cardinality(A) = 0 /\ Cardinality(O) = 1 /\ Cardinality(F) = 0
    BY <1>2, <2>2
  <2> QED
    BY <1>6, <2>2, <2>3
<1>7. CASE c[v] = 1 /\ \E w \in Workers : OwnerIs(v, {}, FALSE, {}, {w})
  <2>1. PICK w \in Workers : OwnerIs(v, {}, FALSE, {}, {w})
    BY <1>7
  <2>2. /\ A = {} /\ O = {} /\ F = {w} /\ ~Exits(v)
    BY <2>1 DEF OwnerIs
  <2>3. Cardinality(A) = 0 /\ Cardinality(O) = 0 /\ Cardinality(F) = 1
    BY <1>2, <2>2
  <2> QED
    BY <1>7, <2>2, <2>3
<1> QED
  BY <1>1, <1>3, <1>4, <1>5, <1>6, <1>7 DEF OwnerOK

\* At first every join_mutex is free.
LEMMA OwnInit == Init => OwnInv
<1> SUFFICES ASSUME Init, NEW v \in VThreads PROVE OwnerOK(v)
  BY DEF OwnInv
<1>1. c[v] = 0
  BY JoinAssumption DEF Init, SchedInit
<1>2. OwnerIs(v, {}, FALSE, {}, {})
  BY DEF Init, SchedInit, OwnerIs, Looks, Exits, Owes, Finishes, Actors
<1> QED
  BY <1>1, <1>2 DEF OwnerOK

\* A step keeps the ownership.
LEMMA OwnStep == TypeInv /\ OwnInv /\ [Next]_vars => OwnInv'
<1> SUFFICES ASSUME TypeInv, OwnInv, [Next]_vars PROVE OwnInv'
  OBVIOUS
<1>1. CASE \E a \in Actors : ActorStep(a)
  BY <1>1, OwnActor
<1>2. CASE \E w \in Workers : Work(w)
  BY <1>2, OwnLoop, OwnFinish DEF Work
<1>3. CASE UNCHANGED vars
  BY <1>3 DEF vars, schedVars, joinVars, finishVars, OwnInv, OwnerOK, OwnerIs,
              Looks, Exits, Owes, Finishes
<1> QED
  BY <1>1, <1>2, <1>3 DEF Next

\* join_mutex of every vthread has at most one owner, an actor in join, the
\* vthread in pthread_exit or a worker, and c is 1 exactly while it has one:
\* in every program, even one that resumes a vthread twice.
THEOREM JoinMutexOwnership == Spec => []JoinMutexOwned
BY OwnInit, OwnStep, OwnersCounted, TypeCorrect, PTL DEF Spec

-----------------------------------------------------------------------------
(***************************************************************************)
(* What pthread_join promises.  A vthread that is woken from a join may be *)
(* in vs_queue twice afterwards, once by the worker that releases          *)
(* join_mutex for it and once by the worker that ends its target, and its  *)
(* next join could return at once; and the posts of join_sem for two raw   *)
(* threads may fall together.  So JoinInv does not hold of every program.  *)
(* It holds when a vthread joins at most once, and when no two raw threads *)
(* join the same vthread.                                                  *)
(***************************************************************************)

Simple ==
  /\ \A a \in VThreads : \A u, v \in Joins[a] : u = v
  /\ \A a, b \in RawThreads : a # b => Joins[a] \cap Joins[b] = {}

Finished(v) == cur_status[v] = "FINISHED"

\* A call is about a vthread the program joins, once.
TargetInv ==
  \A a \in Actors :
    /\ todo[a] \subseteq Joins[a]
    /\ target[a] # None => target[a] \in Joins[a] \ todo[a]

\* A vthread runs on one worker at a time and ends once, on one worker.
EndInv ==
  /\ \A w, x \in Workers :
       wpc[w] = "run" /\ wpc[x] = "run" /\ pvth[w] = pvth[x] => w = x
  /\ \A w, x \in Workers : Ending(w) /\ Ending(x) /\ pvth[w] = pvth[x] => w = x
  /\ \A w \in Workers : wpc[w] = "run" => pc[pvth[w]] # "ended"
  /\ \A w \in Workers, v \in VThreads :
       Ending(w) /\ pvth[w] = v =>
         /\ pc[v] = "ended"
         /\ Finished(v) <=> fpc[w] \in {"walk", "enq", "post", "wake"}
  /\ \A v \in VThreads :
       /\ Finished(v) => pc[v] = "ended"
       /\ pc[v] = "ended" => Finished(v) \/ \E w \in Workers : Ending(w) /\ pvth[w] = v
       /\ pc[v] \in {"e_yield", "ended"} => routine_ret[v]

Distinct(s) == \A i, j \in DOMAIN s : s[i] = s[j] => i = j

\* a is in the list of v.
Listed(a, v) == \E i \in DOMAIN join_wait_queue[v] : join_wait_queue[v][i] = a

\* The worker w, which ends the target of a, has still to mark a.
ToWake(w, a) == \E i \in DOMAIN head[w] : head[w][i] = a /\ (fpc[w] = "enq" => i # 1)

Asleep(a) ==
  pc[a] = "j_blocked" /\ (Listed(a, target[a]) \/ \E w \in Workers : ToWake(w, a))

\* a has not blocked in its join yet, and may still do so.
Early(a) == todo[a] # {} \/ pc[a] \in {"j_lock", "j_look", "j_yield"}

\* The lists of the waiting vthreads.
ListInv ==
  /\ \A v \in VThreads :
       /\ Distinct(join_wait_queue[v])
       /\ Finished(v) => join_wait_queue[v] = <<>>
       /\ \A a \in VThreads :
            Listed(a, v) => pc[a] \in {"j_yield", "j_blocked"} /\ target[a] = v
  /\ \A w \in Workers :
       /\ Distinct(head[w])
       /\ fpc[w] \notin {"walk", "enq"} => head[w] = <<>>
       /\ \A a \in VThreads : ToWake(w, a) => pc[a] = "j_blocked" /\ target[a] = pvth[w]
       /\ \A a \in VThreads :
            fpc[w] = "enq" /\ head[w][1] = a => ~Early(a) /\ ~Asleep(a)
  /\ \A a \in VThreads :
       /\ pc[a] = "j_yield" => Listed(a, target[a])
       /\ pc[a] = "j_blocked" => Asleep(a) \/ Finished(target[a])

\* a is once in vs_queue, or with one worker, or nowhere.
OnePlace(a) ==
  /\ runq[a] <= 1
  /\ \A w \in Workers : pvth[w] = a => runq[a] = 0
  /\ \A w, x \in Workers : pvth[w] = a /\ pvth[x] = a => w = x

\* a is nowhere from where it would be resumed.
Unreached(a) ==
  /\ runq[a] = 0
  /\ cur_status[a] = "BLOCKED"
  /\ \A w \in Workers :
       pvth[w] = a => \/ wpc[w] \in {"released", "marked"}
                      \/ wpc[w] = "ret" /\ wret[w] \in Locks

\* a is on its way to a worker that runs it.
Coming(a) ==
  \/ \E w \in Workers : fpc[w] = "enq" /\ head[w][1] = a
  \/ runq[a] > 0
  \/ \E w \in Workers : pvth[w] = a /\ wpc[w] \in {"check", "resume", "run"}

\* Where a vthread is before it blocks, while it sleeps, and when it is woken.
PlaceInv ==
  \A a \in VThreads :
    /\ Early(a) => OnePlace(a)
    /\ pc[a] = "j_yield" => cur_status[a] = "BLOCKED"
    /\ Asleep(a) => Unreached(a)
    /\ pc[a] = "j_blocked" /\ ~Asleep(a) => Coming(a)

RawWaits(v) == \E a \in RawThreads : pc[a] \in {"j_wait", "j_futex", "j_sleep"} /\ target[a] = v

Unit(P) == IF P THEN 1 ELSE 0

\* The count of v: the waiting vthreads and the raw thread that waits.
CountOK(v) ==
  /\ ~Finished(v) => /\ fut[v] = 0
                     /\ join_waiters_num[v] = Len(join_wait_queue[v]) + Unit(RawWaits(v))
  /\ Finished(v) /\ RawWaits(v) =>
       fut[v] = 1 \/ \E w \in Workers : pvth[w] = v /\ fpc[w] # "no"

\* The count of w, which ends v: the vthreads left in its list and the raw
\* thread that has not been posted.
FinishCountOK(w, v) ==
  fpc[w] \in {"walk", "enq", "post", "wake"} /\ pvth[w] = v =>
    waiters[w] = Len(head[w]) + Unit(RawWaits(v) /\ fut[v] = 0)

CountInv ==
  /\ \A v \in VThreads : CountOK(v)
  /\ \A w \in Workers, v \in VThreads : FinishCountOK(w, v)

\* a is the only one that joins v.
Sole(a, v) == \A b \in Actors \ {a} : v \notin Joins[b]

\* The control points of a join that waits, or has been woken.
WaitPCs == JoinPCs \ {"j_lock", "j_look"}

\* The results: retval holds the joiner until its target has finished.
ResultOK(a) ==
  /\ \A v \in Joined(a) : Finished(v) /\ (Sole(a, v) => v \in result[a])
  /\ \A v \in VThreads :
       pc[a] \in WaitPCs /\ target[a] = v /\ Sole(a, v) =>
         IF Finished(v) THEN v \in result[a] ELSE retval[v] = a

ResultInv == \A a \in Actors : ResultOK(a)

JoinIInv ==
  /\ TargetInv
  /\ EndInv
  /\ ListInv
  /\ PlaceInv
  /\ CountInv
  /\ ResultInv

\* Every step keeps TargetInv.
LEMMA TargetStep ==
  ASSUME TypeInv, TargetInv, Next
  PROVE  TargetInv'
<1> USE JoinAssumption DEF TypeInv, TypeOK, TargetInv
<1>1. CASE UNCHANGED <<todo, target>>
  BY <1>1
<1>2. ASSUME NEW a \in Actors, NEW v \in VThreads, CallJoin(a, v)
      PROVE  TargetInv'
  BY <1>2 DEF CallJoin
<1>3. ASSUME NEW a \in Actors, Return(a), UNCHANGED todo
      PROVE  TargetInv'
  BY <1>3 DEF Return
<1>4. ASSUME NEW a \in Actors, ActorStep(a)
      PROVE  TargetInv'
  BY <1>1, <1>2, <1>3, <1>4
     DEF ActorStep, JoinLock, JoinLockFail, JoinEnlist, JoinYield, JoinResumed,
         JoinEnlistRaw, JoinFinished, SemaTake, SemaTakeFail, FutexWait,
         ReturnFromRoutine, CallExit, ExitLock, ExitLockFail, ExitSet, End, joinVars
<1>5. ASSUME NEW w \in Workers, Work(w)
      PROVE  TargetInv'
  BY <1>1, <1>5
     DEF Work, FinishStep, FinishLock, FinishPublish, FinishMark, FinishEnqueue,
         FinishWalked, FinishPost, FutexWake, FinishDone, joinVars
<1> QED
  BY <1>4, <1>5 DEF Next

-----------------------------------------------------------------------------
(***************************************************************************)
(* EndInv.                                                                 *)
(***************************************************************************)

\* A step of the loop keeps EndInv: a vthread is resumed only if it has a
\* context, so not while it runs and not after it has ended.
LEMMA EndLoop ==
  ASSUME TypeInv, EndInv, NEW w \in Workers, LoopStep(w),
         UNCHANGED <<joinVars, finishVars>>
  PROVE  EndInv'
<1>1. /\ UNCHANGED <<cur_status, routine_ret, pc, fpc>>
      /\ \A x \in Workers \ {w} :
           wpc'[x] = wpc[x] /\ pvth'[x] = pvth[x] /\ wret'[x] = wret[x]
      /\ ~Ending(w) /\ ~Ending(w)'
  BY LoopShape
<1>2. wpc'[w] = "run" => pvth'[w] = pvth[w] /\ HasContext(pvth[w]) /\ pvth[w] \in VThreads
  <2>1. wpc[w] # "idle" => pvth[w] \in VThreads
    BY DEF TypeInv, TypeOK, SchedTypeOK, ControlOK
  <2>2. \/ \E v \in VThreads : Takes(w, v)
        \/ Puts(w)
        \/ Leaves(w)
        \/ GoesOn(w)
    BY LoopShape
  <2> QED
    BY <2>1, <2>2 DEF Takes, Puts, Leaves, GoesOn
<1>3. \A x \in Workers : Ending(x)' <=> Ending(x)
  BY <1>1 DEF Ending
<1>4. \A x \in Workers : Ending(x) => x # w /\ pvth'[x] = pvth[x]
  BY <1>1
<1>5. \A v : Finished(v)' <=> Finished(v)
  BY <1>1 DEF Finished
<1>6. wpc'[w] = "run" =>
        /\ pc[pvth[w]] # "ended"
        /\ \A x \in Workers : wpc[x] = "run" => pvth[x] # pvth[w]
  BY <1>2 DEF HasContext, EndInv, Ending, Finished
<1>7. \A x, y \in Workers : wpc'[x] = "run" /\ wpc'[y] = "run" /\ pvth'[x] = pvth'[y] => x = y
  BY <1>1, <1>2, <1>6 DEF EndInv
<1>8. \A x, y \in Workers : Ending(x)' /\ Ending(y)' /\ pvth'[x] = pvth'[y] => x = y
  BY <1>3, <1>4 DEF EndInv
<1>9. \A x \in Workers : wpc'[x] = "run" => pc'[pvth'[x]] # "ended"
  BY <1>1, <1>2, <1>6 DEF EndInv
<1>10. \A x \in Workers, v \in VThreads : Ending(x)' /\ pvth'[x] = v =>
         /\ pc'[v] = "ended"
         /\ Finished(v)' <=> fpc'[x] \in {"walk", "enq", "post", "wake"}
  BY <1>1, <1>3, <1>4, <1>5 DEF EndInv
<1>11. \A v \in VThreads :
       /\ Finished(v)' => pc'[v] = "ended"
       /\ pc'[v] = "ended" => Finished(v)' \/ \E x \in Workers : Ending(x)' /\ pvth'[x] = v
       /\ pc'[v] \in {"e_yield", "ended"} => routine_ret'[v]
  BY <1>1, <1>3, <1>4, <1>5 DEF EndInv
<1> QED
  BY <1>7, <1>8, <1>9, <1>10, <1>11, Zenon DEF EndInv

\* A step after which no vthread has ended that had not, and none has finished.
LEMMA EndKept ==
  ASSUME TypeInv, EndInv, pvth' = pvth,
         \A w \in Workers : wpc'[w] = "run" => wpc[w] = "run",
         \A w \in Workers : Ending(w)' <=> Ending(w),
         \A w \in Workers : Ending(w) =>
           (fpc'[w] \in {"walk", "enq", "post", "wake"} <=> fpc[w] \in {"walk", "enq", "post", "wake"}),
         \A v \in VThreads : Finished(v)' <=> Finished(v),
         \A v \in VThreads : pc'[v] = "ended" <=> pc[v] = "ended",
         \A v \in VThreads : pc'[v] \in {"e_yield", "ended"} => routine_ret'[v]
  PROVE  EndInv'
<1>1. \A w \in Workers : wpc[w] = "run" \/ Ending(w) => pvth[w] \in VThreads
  BY DEF TypeInv, TypeOK, SchedTypeOK, ControlOK, Ending
<1>2. \A x, y \in Workers : wpc'[x] = "run" /\ wpc'[y] = "run" /\ pvth'[x] = pvth'[y] => x = y
  BY DEF EndInv
<1>3. \A x, y \in Workers : Ending(x)' /\ Ending(y)' /\ pvth'[x] = pvth'[y] => x = y
  BY DEF EndInv
<1>4. \A x \in Workers : wpc'[x] = "run" => pc'[pvth'[x]] # "ended"
  BY <1>1 DEF EndInv
<1>5. \A x \in Workers, v \in VThreads : Ending(x)' /\ pvth'[x] = v =>
         /\ pc'[v] = "ended"
         /\ Finished(v)' <=> fpc'[x] \in {"walk", "enq", "post", "wake"}
  BY <1>1 DEF EndInv
<1>6. \A v \in VThreads :
       /\ Finished(v)' => pc'[v] = "ended"
       /\ pc'[v] = "ended" => Finished(v)' \/ \E x \in Workers : Ending(x)' /\ pvth'[x] = v
       /\ pc'[v] \in {"e_yield", "ended"} => routine_ret'[v]
  BY DEF EndInv
<1> QED
  BY <1>2, <1>3, <1>4, <1>5, <1>6, Zenon DEF EndInv

\* A vthread that runs has not finished, nor has one in the list of a worker.
LEMMA NotFinished ==
  ASSUME TypeInv, EndInv, NEW v \in VThreads, pc[v] # "ended"
  PROVE  ~Finished(v)
BY DEF EndInv

\* A step of wake_up_joined keeps EndInv: it finishes the vthread it is about.
LEMMA EndFinish ==
  ASSUME TypeInv, EndInv, ListInv, NEW w \in Workers, FinishStep(w)
  PROVE  EndInv'
<1> USE DEF FinishAt, FinishGoto, WorkerAt
<1>0. /\ wpc[w] = "ret" /\ wret[w] = "FINISHED" /\ Ending(w) /\ pvth[w] \in VThreads
      /\ pc[pvth[w]] = "ended"
  BY DEF FinishStep, FinishLock, FinishPublish, FinishMark, FinishEnqueue,
         FinishWalked, FinishPost, FutexWake, FinishDone, Ending, EndInv, TypeInv,
         TypeOK, SchedTypeOK, ControlOK
<1>1. CASE FinishLock(w)
  <2>1. /\ UNCHANGED <<wpc, pvth, wret, cur_status, pc, routine_ret>>
        /\ fpc[w] = "no" /\ fpc' = [fpc EXCEPT ![w] = "locked"]
    BY <1>1 DEF FinishLock, joinVars, workerVars
  <2>2. \A x \in Workers :
          fpc'[x] \in {"walk", "enq", "post", "wake"} <=> fpc[x] \in {"walk", "enq", "post", "wake"}
    BY <2>1 DEF TypeInv, TypeOK
  <2> QED
    BY <2>1, <2>2, EndKept DEF Ending, Finished, EndInv
<1>2. CASE FinishPublish(w)
  <2>1. /\ UNCHANGED <<wpc, pvth, wret, pc, routine_ret>>
        /\ fpc[w] = "locked"
        /\ fpc' = [fpc EXCEPT ![w] = "walk"]
        /\ cur_status' = [cur_status EXCEPT ![pvth[w]] = "FINISHED"]
    BY <1>2 DEF FinishPublish, workerVars
  <2>2. \A v \in VThreads : Finished(v)' <=> v = pvth[w] \/ Finished(v)
    BY <2>1, <1>0 DEF Finished, TypeInv, TypeOK, SchedTypeOK
  <2>3. \A x \in Workers : Ending(x)' <=> Ending(x)
    BY <2>1 DEF Ending
  <2>4. fpc'[w] = "walk" /\ \A x \in Workers \ {w} : fpc'[x] = fpc[x]
    BY <2>1 DEF TypeInv, TypeOK
  <2>6. \A x \in Workers, v \in VThreads : Ending(x)' /\ pvth'[x] = v =>
         /\ pc'[v] = "ended"
         /\ Finished(v)' <=> fpc'[x] \in {"walk", "enq", "post", "wake"}
    <3> SUFFICES ASSUME NEW x \in Workers, NEW v \in VThreads, Ending(x)', pvth'[x] = v
                 PROVE  /\ pc'[v] = "ended"
                        /\ Finished(v)' <=> fpc'[x] \in {"walk", "enq", "post", "wake"}
      OBVIOUS
    <3>1. Ending(x) /\ pvth[x] = v /\ pc' = pc
      BY <2>1, <2>3
    <3>2. CASE x = w
      BY <3>1, <3>2, <1>0, <2>2, <2>4
    <3>3. CASE x # w
      <4>1. pvth[x] # pvth[w]
        BY <3>1, <3>3, <1>0 DEF EndInv
      <4> QED
        BY <3>1, <3>3, <4>1, <2>2, <2>4 DEF EndInv
    <3> QED
      BY <3>2, <3>3
  <2>7. \A v \in VThreads :
       /\ Finished(v)' => pc'[v] = "ended"
       /\ pc'[v] = "ended" => Finished(v)' \/ \E x \in Workers : Ending(x)' /\ pvth'[x] = v
       /\ pc'[v] \in {"e_yield", "ended"} => routine_ret'[v]
    BY <1>0, <2>1, <2>2, <2>3 DEF EndInv
  <2> QED
    BY <2>1, <2>3, <2>6, <2>7 DEF EndInv
<1>3. CASE FinishMark(w)
  <2>1. /\ UNCHANGED <<wpc, pvth, wret, pc, routine_ret>>
        /\ fpc[w] = "walk"
        /\ fpc' = [fpc EXCEPT ![w] = "enq"]
        /\ cur_status' = [cur_status EXCEPT ![Head(head[w])] = "SUSPENDED"]
        /\ head[w] # <<>>
    BY <1>3 DEF FinishMark, workerVars, joinVars
  <2>2. Head(head[w]) \in VThreads /\ 1 \in DOMAIN head[w] /\ Head(head[w]) = head[w][1]
    BY <2>1 DEF TypeInv, TypeOK
  <2>3. pc[Head(head[w])] = "j_blocked"
    BY <2>1, <2>2 DEF ListInv, ToWake
  <2>4. \A v \in VThreads : Finished(v)' <=> Finished(v)
    BY <2>1, <2>2, <2>3, NotFinished DEF Finished, TypeInv, TypeOK, SchedTypeOK
  <2>5. \A x \in Workers : Ending(x)' <=> Ending(x)
    BY <2>1 DEF Ending
  <2>6. \A x \in Workers :
          fpc'[x] \in {"walk", "enq", "post", "wake"} <=> fpc[x] \in {"walk", "enq", "post", "wake"}
    BY <2>1 DEF TypeInv, TypeOK
  <2>7. \A v \in VThreads : pc'[v] \in {"e_yield", "ended"} => routine_ret'[v]
    BY <2>1 DEF EndInv
  <2> QED
    BY <2>1, <2>4, <2>5, <2>6, <2>7, EndKept
<1>4. CASE FinishEnqueue(w)
  <2>1. /\ UNCHANGED <<wpc, pvth, wret, cur_status, pc, routine_ret>>
        /\ fpc[w] = "enq" /\ fpc' = [fpc EXCEPT ![w] = "walk"]
    BY <1>4 DEF FinishEnqueue, joinVars, workerVars
  <2>2. \A x \in Workers :
          fpc'[x] \in {"walk", "enq", "post", "wake"} <=> fpc[x] \in {"walk", "enq", "post", "wake"}
    BY <2>1 DEF TypeInv, TypeOK
  <2>3. /\ \A x \in Workers : Ending(x)' <=> Ending(x)
        /\ \A v \in VThreads : Finished(v)' <=> Finished(v)
        /\ \A v \in VThreads : pc'[v] \in {"e_yield", "ended"} => routine_ret'[v]
    BY <2>1 DEF Ending, Finished, EndInv
  <2> QED
    BY <2>1, <2>2, <2>3, EndKept
<1>5. CASE FinishWalked(w)
  <2>1. /\ UNCHANGED <<wpc, pvth, wret, cur_status, pc, routine_ret>>
        /\ fpc[w] = "walk" /\ fpc' = [fpc EXCEPT ![w] = "post"]
    BY <1>5 DEF FinishWalked, joinVars, schedVars
  <2>2. \A x \in Workers :
          fpc'[x] \in {"walk", "enq", "post", "wake"} <=> fpc[x] \in {"walk", "enq", "post", "wake"}
    BY <2>1 DEF TypeInv, TypeOK
  <2>3. /\ \A x \in Workers : Ending(x)' <=> Ending(x)
        /\ \A v \in VThreads : Finished(v)' <=> Finished(v)
        /\ \A v \in VThreads : pc'[v] \in {"e_yield", "ended"} => routine_ret'[v]
    BY <2>1 DEF Ending, Finished, EndInv
  <2> QED
    BY <2>1, <2>2, <2>3, EndKept
<1>6. CASE FinishPost(w)
  <2>1. UNCHANGED <<wpc, pvth, wret, cur_status, pc, routine_ret>> /\ fpc[w] = "post"
    BY <1>6 DEF FinishPost, schedVars
  <2>2. fpc' = fpc \/ fpc' = [fpc EXCEPT ![w] = "wake"]
    BY <1>6 DEF FinishPost
  <2>3. \A x \in Workers :
          fpc'[x] \in {"walk", "enq", "post", "wake"} <=> fpc[x] \in {"walk", "enq", "post", "wake"}
    BY <2>1, <2>2 DEF TypeInv, TypeOK
  <2> QED
    BY <2>1, <2>3, EndKept DEF Ending, Finished, EndInv
<1>7. CASE FutexWake(w)
  <2>1. UNCHANGED <<wpc, pvth, wret, cur_status, routine_ret>> /\ fpc[w] = "wake"
        /\ fpc' = [fpc EXCEPT ![w] = "post"]
    BY <1>7 DEF FutexWake, schedVars
  <2>2. \A v \in VThreads : pc'[v] = pc[v]
    <3>1. CASE UNCHANGED pc
      BY <3>1
    <3>2. CASE \E a \in Sleepers(pvth[w]) : Move(a, "j_wait")
      BY <3>2, ActorsAssumption DEF Sleepers, Move, Actors, TypeInv, TypeOK
    <3> QED
      BY <1>7, <3>1, <3>2 DEF FutexWake
  <2>3. \A x \in Workers :
          fpc'[x] \in {"walk", "enq", "post", "wake"} <=> fpc[x] \in {"walk", "enq", "post", "wake"}
    BY <2>1 DEF TypeInv, TypeOK
  <2> QED
    BY <2>1, <2>2, <2>3, EndKept DEF Ending, Finished, EndInv
<1>8. CASE FinishDone(w)
  <2>1. /\ wpc' = [wpc EXCEPT ![w] = "idle"] /\ pvth' = [pvth EXCEPT ![w] = None]
        /\ wret' = [wret EXCEPT ![w] = None] /\ fpc' = [fpc EXCEPT ![w] = "no"]
        /\ UNCHANGED <<cur_status, pc, routine_ret>> /\ fpc[w] = "post"
    BY <1>8 DEF FinishDone, ToLoop, joinVars
  <2>2. Finished(pvth[w])
    BY <1>0, <2>1 DEF EndInv
  <2>3. /\ ~Ending(w)' /\ wpc'[w] # "run"
        /\ \A x \in Workers \ {w} : /\ Ending(x)' <=> Ending(x)
                                    /\ wpc'[x] = wpc[x] /\ pvth'[x] = pvth[x] /\ fpc'[x] = fpc[x]
    BY <2>1 DEF Ending, TypeInv, TypeOK, SchedTypeOK
  <2>4. \A v : Finished(v)' <=> Finished(v)
    BY <2>1 DEF Finished
  <2>5. \A v \in VThreads :
       /\ Finished(v)' => pc'[v] = "ended"
       /\ pc'[v] = "ended" => Finished(v)' \/ \E x \in Workers : Ending(x)' /\ pvth'[x] = v
       /\ pc'[v] \in {"e_yield", "ended"} => routine_ret'[v]
    BY <2>1, <2>2, <2>3, <2>4 DEF EndInv
  <2>6. \A x \in Workers, v \in VThreads : Ending(x)' /\ pvth'[x] = v =>
         /\ pc'[v] = "ended"
         /\ Finished(v)' <=> fpc'[x] \in {"walk", "enq", "post", "wake"}
    BY <2>1, <2>3, <2>4 DEF EndInv
  <2>7. /\ \A x, y \in Workers : Ending(x)' /\ Ending(y)' /\ pvth'[x] = pvth'[y] => x = y
        /\ \A x, y \in Workers :
             wpc'[x] = "run" /\ wpc'[y] = "run" /\ pvth'[x] = pvth'[y] => x = y
        /\ \A x \in Workers : wpc'[x] = "run" => pc'[pvth'[x]] # "ended"
    BY <2>1, <2>3 DEF EndInv
  <2> QED
    BY <2>5, <2>6, <2>7, Zenon DEF EndInv
<1> QED
  BY <1>1, <1>2, <1>3, <1>4, <1>5, <1>6, <1>7, <1>8 DEF FinishStep

\* The yield of a vthread with a code other than STATUS_FINISHED.
LEMMA EndYield ==
  ASSUME TypeInv, EndInv, NEW a \in VThreads, NEW code, code # "FINISHED",
         YieldMyself(a, code), UNCHANGED <<cur_status, routine_ret, fpc>>,
         \A v \in VThreads : pc'[v] = "ended" <=> pc[v] = "ended",
         \A v \in VThreads : pc'[v] = "e_yield" => pc[v] = "e_yield"
  PROVE  EndInv'
<1>1. PICK w \in Workers :
         /\ wpc[w] = "run" /\ pvth[w] = a /\ fpc[w] = "no"
         /\ wpc' = [wpc EXCEPT ![w] = "ret"]
         /\ wret' = [wret EXCEPT ![w] = code]
         /\ pvth' = pvth /\ fault' = fault
  BY YieldReturns
<1>2. \A x \in Workers : (Ending(x)' <=> Ending(x)) /\ (wpc'[x] = "run" => wpc[x] = "run")
  BY <1>1 DEF Ending, TypeInv, TypeOK, SchedTypeOK
<1>3. \A v \in VThreads : (Finished(v)' <=> Finished(v))
  BY DEF Finished
<1>4. \A v \in VThreads : pc'[v] \in {"e_yield", "ended"} => routine_ret'[v]
  BY DEF EndInv
<1> QED
  BY <1>1, <1>2, <1>3, <1>4, EndKept

\* The end of a vthread.
LEMMA EndEnd ==
  ASSUME TypeInv, EndInv, NEW a \in Actors, End(a)
  PROVE  EndInv'
<1>1. /\ a \in VThreads /\ pc[a] = "e_yield" /\ YieldMyself(a, "FINISHED")
      /\ pc' = [pc EXCEPT ![a] = "ended"]
      /\ UNCHANGED <<cur_status, routine_ret, fpc>>
  BY DEF End, At, Move, TypeInv, ControlOK, finishVars
<1>2. PICK w \in Workers :
         /\ wpc[w] = "run" /\ pvth[w] = a /\ fpc[w] = "no"
         /\ wpc' = [wpc EXCEPT ![w] = "ret"]
         /\ wret' = [wret EXCEPT ![w] = "FINISHED"]
         /\ pvth' = pvth /\ fault' = fault
  BY <1>1, YieldReturns
<1>3. /\ Ending(w)' /\ wpc'[w] # "run"
      /\ \A x \in Workers \ {w} : (Ending(x)' <=> Ending(x)) /\ wpc'[x] = wpc[x]
  BY <1>2 DEF Ending, TypeInv, TypeOK, SchedTypeOK
<1>4. \A v : Finished(v)' <=> Finished(v)
  BY <1>1 DEF Finished
<1>5. pc'[a] = "ended" /\ \A v \in VThreads \ {a} : pc'[v] = pc[v]
  BY <1>1 DEF TypeInv, TypeOK, Actors
<1>6. ~Finished(a) /\ routine_ret[a] /\ \A x \in Workers : Ending(x) => pvth[x] # a
  BY <1>1 DEF EndInv
<1>7. \A x \in Workers : wpc[x] = "run" /\ pvth[x] = a => x = w
  BY <1>2 DEF EndInv
<1>8. \A x, y \in Workers : Ending(x)' /\ Ending(y)' /\ pvth'[x] = pvth'[y] => x = y
  BY <1>2, <1>3, <1>6 DEF EndInv
<1>9. \A x, y \in Workers :
             wpc'[x] = "run" /\ wpc'[y] = "run" /\ pvth'[x] = pvth'[y] => x = y
  BY <1>2, <1>3 DEF EndInv
<1>10. \A x \in Workers : wpc'[x] = "run" => pc'[pvth'[x]] # "ended"
  <2> SUFFICES ASSUME NEW x \in Workers, wpc'[x] = "run" PROVE pc'[pvth'[x]] # "ended"
    OBVIOUS
  <2>1. x # w /\ wpc[x] = "run" /\ pvth'[x] = pvth[x]
    BY <1>2, <1>3
  <2>2. pvth[x] \in VThreads \ {a}
    BY <1>7, <2>1 DEF TypeInv, TypeOK, SchedTypeOK, ControlOK
  <2> QED
    BY <1>5, <2>1, <2>2 DEF EndInv
<1>11. \A x \in Workers, v \in VThreads : Ending(x)' /\ pvth'[x] = v =>
         /\ pc'[v] = "ended"
         /\ Finished(v)' <=> fpc'[x] \in {"walk", "enq", "post", "wake"}
  <2> SUFFICES ASSUME NEW x \in Workers, NEW v \in VThreads, Ending(x)', pvth'[x] = v
               PROVE  /\ pc'[v] = "ended"
                      /\ Finished(v)' <=> fpc'[x] \in {"walk", "enq", "post", "wake"}
    OBVIOUS
  <2>1. CASE x = w
    BY <1>1, <1>2, <1>4, <1>5, <1>6, <2>1
  <2>2. CASE x # w
    BY <1>1, <1>2, <1>3, <1>4, <1>5, <1>6, <2>2 DEF EndInv
  <2> QED
    BY <2>1, <2>2
<1>12. \A v \in VThreads :
       /\ Finished(v)' => pc'[v] = "ended"
       /\ pc'[v] = "ended" => Finished(v)' \/ \E x \in Workers : Ending(x)' /\ pvth'[x] = v
       /\ pc'[v] \in {"e_yield", "ended"} => routine_ret'[v]
  <2> SUFFICES ASSUME NEW v \in VThreads
               PROVE  /\ Finished(v)' => pc'[v] = "ended"
                      /\ pc'[v] = "ended" => Finished(v)' \/ \E x \in Workers : Ending(x)' /\ pvth'[x] = v
                      /\ pc'[v] \in {"e_yield", "ended"} => routine_ret'[v]
    OBVIOUS
  <2>1. CASE v = a
    BY <1>1, <1>2, <1>3, <1>4, <1>5, <1>6, <2>1
  <2>2. CASE v # a
    BY <1>1, <1>2, <1>3, <1>4, <1>5, <2>2 DEF EndInv
  <2> QED
    BY <2>1, <2>2
<1> QED
  BY <1>8, <1>9, <1>10, <1>11, <1>12, Zenon DEF EndInv

\* A step of an actor keeps EndInv.
LEMMA EndActor ==
  ASSUME TypeInv, EndInv, NEW a \in Actors, ActorStep(a)
  PROVE  EndInv'
<1>1. ASSUME UNCHANGED <<wpc, pvth, wret, fpc, cur_status>>,
             pc[a] # "ended", pc'[a] # "ended",
             \A v \in VThreads \ {a} : pc'[v] = pc[v] /\ routine_ret'[v] = routine_ret[v],
             pc'[a] = "e_yield" => routine_ret'[a]
      PROVE  EndInv'
  <2>1. \A v \in VThreads : pc'[v] = "ended" <=> pc[v] = "ended"
    BY <1>1
  <2>2. \A v \in VThreads : pc'[v] \in {"e_yield", "ended"} => routine_ret'[v]
    BY <1>1 DEF EndInv
  <2> QED
    BY <1>1, <2>1, <2>2, EndKept DEF Finished, Ending
<1> USE DEF At, Move, Return, schedVars, workerVars, finishVars, joinVars, TypeInv, TypeOK,
            SchedTypeOK, ControlOK, Actors
<1>2. CASE \E v \in VThreads : CallJoin(a, v)
  BY <1>1, <1>2 DEF CallJoin
<1>3. CASE JoinLock(a)
  BY <1>1, <1>3 DEF JoinLock
<1>4. CASE JoinResumed(a)
  BY <1>1, <1>4 DEF JoinResumed
<1>5. CASE JoinEnlistRaw(a)
  BY <1>1, <1>5 DEF JoinEnlistRaw
<1>6. CASE JoinFinished(a)
  BY <1>1, <1>6 DEF JoinFinished
<1>7. CASE SemaTake(a)
  BY <1>1, <1>7 DEF SemaTake
<1>8. CASE SemaTakeFail(a)
  BY <1>1, <1>8 DEF SemaTakeFail
<1>9. CASE FutexWait(a)
  BY <1>1, <1>9 DEF FutexWait
<1>10. CASE ReturnFromRoutine(a)
  BY <1>1, <1>10 DEF ReturnFromRoutine
<1>11. CASE CallExit(a)
  BY <1>1, <1>11 DEF CallExit
<1>12. CASE ExitLock(a)
  BY <1>1, <1>12 DEF ExitLock
<1>13. CASE ExitSet(a)
  BY <1>1, <1>13 DEF ExitSet
<1>14. CASE JoinEnlist(a)
  <2>1. /\ UNCHANGED <<wpc, pvth, wret, fpc, routine_ret>> /\ a \in VThreads
        /\ pc[a] = "j_look" /\ pc' = [pc EXCEPT ![a] = "j_yield"]
        /\ cur_status' = [cur_status EXCEPT ![a] = "BLOCKED"]
    BY <1>14 DEF JoinEnlist
  <2>2. \A v \in VThreads : Finished(v)' <=> Finished(v)
    BY <2>1, NotFinished DEF Finished
  <2>3. \A v \in VThreads : (pc'[v] = "ended" <=> pc[v] = "ended")
                            /\ (pc'[v] = "e_yield" => pc[v] = "e_yield")
    BY <2>1
  <2>4. \A v \in VThreads : pc'[v] \in {"e_yield", "ended"} => routine_ret'[v]
    BY <2>1, <2>3 DEF EndInv
  <2>5. \A w \in Workers : (Ending(w)' <=> Ending(w)) /\ wpc'[w] = wpc[w] /\ fpc'[w] = fpc[w]
    BY <2>1 DEF Ending
  <2> HIDE DEF TypeInv
  <2> QED
    BY <2>1, <2>2, <2>3, <2>4, <2>5, EndKept
<1>15. CASE JoinLockFail(a) \/ ExitLockFail(a) \/ JoinYield(a)
  <2>1. PICK code : code # "FINISHED" /\ YieldMyself(a, code)
    <3>1. CASE JoinLockFail(a)
      BY <3>1, Zenon DEF JoinLockFail
    <3>2. CASE ExitLockFail(a)
      BY <3>2, Zenon DEF ExitLockFail
    <3>3. CASE JoinYield(a)
      <4>1. target[a] # "FINISHED"
        BY <3>3, LocksAssumption, JoinAssumption DEF JoinYield, Status, JoinPCs
      <4> QED
        BY <3>3, <4>1, Zenon DEF JoinYield
    <3> QED
      BY <1>15, <3>1, <3>2, <3>3
  <2>2. /\ a \in VThreads /\ UNCHANGED <<cur_status, routine_ret, fpc>>
        /\ \A v \in VThreads : pc'[v] = "ended" <=> pc[v] = "ended"
        /\ \A v \in VThreads : pc'[v] = "e_yield" => pc[v] = "e_yield"
    BY <1>15 DEF JoinLockFail, ExitLockFail, JoinYield
  <2> HIDE DEF TypeInv
  <2> QED
    BY <2>1, <2>2, EndYield
<1>16. CASE End(a)
  <2> HIDE DEF TypeInv
  <2> QED
    BY <1>16, EndEnd
<1> QED
  BY <1>2, <1>3, <1>4, <1>5, <1>6, <1>7, <1>8, <1>9, <1>10, <1>11, <1>12, <1>13,
     <1>14, <1>15, <1>16 DEF ActorStep

-----------------------------------------------------------------------------
(***************************************************************************)
(* Where the joining vthreads are: ListInv and PlaceInv.                   *)
(***************************************************************************)

CoreInv == ListInv /\ PlaceInv

\* A vthread in a join has no other to join.
LEMMA JoinsOnce ==
  ASSUME Simple, TypeInv, TargetInv, NEW a \in VThreads, target[a] # None
  PROVE  todo[a] = {}
<1>1. target[a] \in Joins[a] \ todo[a] /\ todo[a] \subseteq Joins[a]
  BY DEF TargetInv, Actors
<1>2. \A v \in Joins[a] : v = target[a]
  BY <1>1 DEF Simple
<1> QED
  BY <1>1, <1>2

\* The lists are the same, and a worker that has marked the head of its list
\* has still to enqueue it.
SameLists ==
  /\ UNCHANGED <<join_wait_queue, head>>
  /\ \A w \in Workers : head[w] # <<>> => (fpc'[w] = "enq" <=> fpc[w] = "enq")

\* Then the same vthreads are in them, and the same ones sleep.
LEMMA ListsKept ==
  ASSUME TypeInv, SameLists
  PROVE  /\ \A a \in VThreads, v \in VThreads : Listed(a, v)' <=> Listed(a, v)
         /\ \A a \in VThreads, w \in Workers : ToWake(w, a)' <=> ToWake(w, a)
         /\ \A a \in VThreads : pc'[a] = pc[a] /\ target'[a] = target[a] =>
              (Asleep(a)' <=> Asleep(a))
<1>1. \A a \in VThreads, v \in VThreads : Listed(a, v)' <=> Listed(a, v)
  BY DEF SameLists, Listed
<1>2. \A a \in VThreads, w \in Workers : ToWake(w, a)' <=> ToWake(w, a)
  <2> TAKE a \in VThreads, w \in Workers
  <2>1. CASE head[w] = <<>>
    BY <2>1 DEF SameLists, ToWake
  <2>2. CASE head[w] # <<>>
    BY <2>2 DEF SameLists, ToWake
  <2> QED
    BY <2>1, <2>2
<1>3. \A a \in VThreads : pc'[a] = pc[a] /\ target'[a] = target[a] => (Asleep(a)' <=> Asleep(a))
  <2> SUFFICES ASSUME NEW a \in VThreads, pc'[a] = pc[a], target'[a] = target[a]
               PROVE  Asleep(a)' <=> Asleep(a)
    OBVIOUS
  <2>1. CASE pc[a] = "j_blocked"
    <3>1. target[a] \in VThreads
      BY <2>1 DEF TypeInv, TypeOK, ControlOK, Actors, JoinPCs
    <3>2. Listed(a, target[a])' <=> Listed(a, target[a])
      BY DEF SameLists, Listed
    <3> QED
      BY <1>2, <3>2 DEF Asleep
  <2>2. CASE pc[a] # "j_blocked"
    BY <2>2 DEF Asleep
  <2> QED
    BY <2>1, <2>2
<1> QED
  BY <1>1, <1>2, <1>3

\* A step that leaves the lists alone, wakes nobody and blocks nobody keeps
\* ListInv.
LEMMA ListKept ==
  ASSUME TypeInv, ListInv, SameLists, NEW a,
         \A w \in Workers : head[w] # <<>> => pvth'[w] = pvth[w],
         \A b \in VThreads \ {a} : pc'[b] = pc[b] /\ target'[b] = target[b] /\ todo'[b] = todo[b],
         a \in VThreads =>
           /\ pc[a] \notin {"j_yield"} /\ ~Asleep(a)
           /\ pc'[a] \notin {"j_yield", "j_blocked"}
           /\ Early(a)' => Early(a),
         \A w \in Workers : fpc'[w] \notin {"walk", "enq"} => head[w] = <<>>,
         \A w \in Workers : fpc'[w] = "enq" => fpc[w] = "enq",
         \A v \in VThreads : Finished(v)' <=> Finished(v)
  PROVE  ListInv'
<1>1. /\ \A b \in VThreads, v \in VThreads : Listed(b, v)' <=> Listed(b, v)
      /\ \A b \in VThreads, w \in Workers : ToWake(w, b)' <=> ToWake(w, b)
      /\ \A b \in VThreads \ {a} : (Asleep(b)' <=> Asleep(b)) /\ (Early(b)' <=> Early(b))
  BY ListsKept DEF Early
<1>2. a \in VThreads =>
        /\ ~Asleep(a)'
        /\ \A v \in VThreads : ~Listed(a, v)
        /\ \A w \in Workers : ~ToWake(w, a)
  BY DEF ListInv, Asleep
<1>3. \A v \in VThreads :
       /\ Distinct(join_wait_queue'[v])
       /\ Finished(v)' => join_wait_queue'[v] = <<>>
       /\ \A b \in VThreads :
            Listed(b, v)' => pc'[b] \in {"j_yield", "j_blocked"} /\ target'[b] = v
  BY <1>1, <1>2 DEF ListInv, SameLists
<1>4. \A w \in Workers :
       /\ Distinct(head'[w])
       /\ fpc'[w] \notin {"walk", "enq"} => head'[w] = <<>>
       /\ \A b \in VThreads : ToWake(w, b)' => pc'[b] = "j_blocked" /\ target'[b] = pvth'[w]
  <2>1. \A w \in Workers, b \in VThreads : ToWake(w, b) => head[w] # <<>>
    BY DEF ToWake
  <2> QED
    BY <1>1, <1>2, <2>1 DEF ListInv, SameLists
<1>5. \A w \in Workers : \A b \in VThreads :
        fpc'[w] = "enq" /\ head'[w][1] = b => ~Early(b)' /\ ~Asleep(b)'
  BY <1>1, <1>2 DEF ListInv, SameLists
<1>6. \A b \in VThreads :
       /\ pc'[b] = "j_yield" => Listed(b, target[b])'
       /\ pc'[b] = "j_blocked" => Asleep(b)' \/ Finished(target[b])'
  <2> TAKE b \in VThreads
  <2>1. CASE b = a
    BY <2>1
  <2>2. CASE b # a
    <3>1. pc[b] \in {"j_yield", "j_blocked"} => target[b] \in VThreads
      BY DEF TypeInv, TypeOK, ControlOK, Actors, JoinPCs
    <3> QED
      BY <1>1, <2>2, <3>1 DEF ListInv
  <2> QED
    BY <2>1, <2>2
<1> QED
  BY <1>3, <1>4, <1>5, <1>6 DEF ListInv

\* A step of the loop keeps them: it puts a vthread in vs_queue only when the
\* vthread does not sleep.
LEMMA CoreLoop ==
  ASSUME TypeInv, CoreInv, NEW w \in Workers, LoopStep(w),
         UNCHANGED <<joinVars, finishVars>>
  PROVE  CoreInv'
<1>0. ListInv /\ PlaceInv
  BY DEF CoreInv
<1>1. /\ UNCHANGED <<cur_status, join_wait_queue, pc, target, todo, fpc, head>>
      /\ \A x \in Workers \ {w} :
           wpc'[x] = wpc[x] /\ pvth'[x] = pvth[x] /\ wret'[x] = wret[x]
      /\ fpc[w] = "no"
  BY LoopShape
<1>2. SameLists
  BY <1>1 DEF SameLists
<1>3. \A b \in VThreads : (Asleep(b)' <=> Asleep(b)) /\ (Early(b)' <=> Early(b))
  BY <1>1, <1>2, ListsKept DEF Early
<1>4. \A v \in VThreads : Finished(v)' <=> Finished(v)
  BY <1>1 DEF Finished
<1>5. \A x \in Workers : head[x] # <<>> => x # w /\ pvth'[x] = pvth[x]
  BY <1>0, <1>1 DEF ListInv
<1>6. ListInv'
  BY <1>0, <1>1, <1>2, <1>4, <1>5, ActorsAssumption, ListKept DEF ListInv
<1>7. /\ \A x \in Workers : wpc[x] = "idle" <=> pvth[x] = None
      /\ \A x \in Workers : pvth[x] \in VThreads \cup {None}
      /\ None \notin VThreads
      /\ runq \in [VThreads -> Nat]
  BY ActorsAssumption DEF TypeInv, TypeOK, SchedTypeOK, ControlOK
<1>8. \A b \in VThreads : pc'[b] = "j_yield" => cur_status'[b] = "BLOCKED"
  BY <1>0, <1>1 DEF PlaceInv
<1>9. \/ \E v \in VThreads : Takes(w, v)
      \/ Puts(w)
      \/ Leaves(w)
      \/ GoesOn(w)
  BY LoopShape
<1>10. \A b \in VThreads : (Early(b) => OnePlace(b)) /\ (Asleep(b) => Unreached(b))
                           /\ (pc[b] = "j_blocked" /\ ~Asleep(b) => Coming(b))
  BY <1>0, Zenon DEF PlaceInv
<1>11. SUFFICES \A b \in VThreads :
         /\ Early(b) => OnePlace(b)'
         /\ Asleep(b) => Unreached(b)'
         /\ pc[b] = "j_blocked" /\ ~Asleep(b) => Coming(b)'
  <2>1. \A b \in VThreads : pc'[b] = pc[b]
    BY <1>1
  <2>2. PlaceInv'
    BY <1>3, <1>8, <1>11, <2>1, Zenon DEF PlaceInv
  <2> QED
    BY <1>6, <2>2 DEF CoreInv
<1>12. CASE \E v \in VThreads : Takes(w, v)
  <2>1. PICK v \in VThreads : Takes(w, v)
    BY <1>12
  <2>2. runq'[v] = runq[v] - 1 /\ runq[v] > 0 /\ \A b \in VThreads \ {v} : runq'[b] = runq[b]
    BY <1>7, <2>1 DEF Takes
  <2>3. ~Asleep(v)
    BY <1>7, <1>10, <2>2 DEF Unreached
  <2>4. pvth'[w] = v /\ wpc'[w] = "check" /\ pvth[w] = None
    BY <1>7, <2>1 DEF Takes
  <2>5. \A b \in VThreads : Early(b) => OnePlace(b)'
    BY <1>1, <1>7, <1>10, <2>2, <2>4 DEF OnePlace
  <2>6. \A b \in VThreads : Asleep(b) => Unreached(b)'
    BY <1>1, <1>7, <1>10, <2>2, <2>3, <2>4 DEF Unreached
  <2>7. \A b \in VThreads : pc[b] = "j_blocked" /\ ~Asleep(b) => Coming(b)'
    BY <1>1, <1>7, <1>10, <2>2, <2>4 DEF Coming
  <2> QED
    BY <2>5, <2>6, <2>7
<1>13. CASE Puts(w)
  <2>1. pvth[w] \in VThreads /\ pvth'[w] = None
    BY <1>7, <1>13 DEF Puts
  <2>2. /\ runq'[pvth[w]] = runq[pvth[w]] + 1
        /\ \A b \in VThreads \ {pvth[w]} : runq'[b] = runq[b]
    BY <1>7, <1>13, <2>1 DEF Puts
  <2>3. ~Asleep(pvth[w])
    BY <1>10, <1>13, <2>1 DEF Puts, Unreached
  <2>5. \A b \in VThreads : Early(b) => OnePlace(b)'
    BY <1>1, <1>7, <1>10, <2>1, <2>2 DEF OnePlace
  <2>6. \A b \in VThreads : Asleep(b) => Unreached(b)'
    BY <1>1, <1>7, <1>10, <2>1, <2>2, <2>3 DEF Unreached
  <2>7. \A b \in VThreads : pc[b] = "j_blocked" /\ ~Asleep(b) => Coming(b)'
    <3> SUFFICES ASSUME NEW b \in VThreads, Coming(b) PROVE Coming(b)'
      BY <1>10
    <3>1. CASE b = pvth[w]
      BY <1>7, <2>2, <3>1 DEF Coming
    <3>2. CASE b # pvth[w]
      BY <1>1, <2>2, <3>2 DEF Coming
    <3> QED
      BY <3>1, <3>2
  <2> QED
    BY <2>5, <2>6, <2>7
<1>14. CASE Leaves(w)
  <2>1. /\ pvth[w] \in VThreads /\ pvth'[w] = None /\ runq' = runq
        /\ wpc[w] \notin {"check", "resume", "run"}
    BY <1>7, <1>14 DEF Leaves
  <2>2. \A b \in VThreads : Early(b) => OnePlace(b)'
    BY <1>1, <1>7, <1>10, <2>1 DEF OnePlace
  <2>3. \A b \in VThreads : Asleep(b) => Unreached(b)'
    BY <1>1, <1>7, <1>10, <2>1 DEF Unreached
  <2>4. \A b \in VThreads : pc[b] = "j_blocked" /\ ~Asleep(b) => Coming(b)'
    BY <1>1, <1>7, <1>10, <2>1 DEF Coming
  <2> QED
    BY <2>2, <2>3, <2>4
<1>15. CASE GoesOn(w)
  <2>1. pvth' = pvth /\ runq' = runq
    BY <1>15 DEF GoesOn
  <2>2. \A b \in VThreads : Early(b) => OnePlace(b)'
    BY <1>10, <2>1 DEF OnePlace
  <2>3. \A b \in VThreads : Asleep(b) => Unreached(b)'
    BY <1>1, <1>10, <1>15, <2>1 DEF GoesOn, Unreached
  <2>4. \A b \in VThreads : pc[b] = "j_blocked" /\ ~Asleep(b) => Coming(b)'
    BY <1>1, <1>10, <1>15, <2>1 DEF GoesOn, Coming
  <2> QED
    BY <2>2, <2>3, <2>4
<1> QED
  BY <1>9, <1>12, <1>13, <1>14, <1>15

\* A step that leaves the lists and vs_queue alone and after which no vthread
\* is early or asleep that was not before.
LEMMA PlaceKept ==
  ASSUME TypeInv, PlaceInv, UNCHANGED <<runq, cur_status>>, SameLists,
         \A w \in Workers : /\ pvth'[w] = pvth[w] /\ wpc'[w] = wpc[w] /\ wret'[w] = wret[w]
                            /\ fpc[w] = "enq" => fpc'[w] = "enq",
         \A b \in VThreads :
           /\ Early(b)' => Early(b)
           /\ Asleep(b)' => Asleep(b)
           /\ pc'[b] = "j_yield" => pc[b] = "j_yield"
           /\ pc'[b] = "j_blocked" => pc[b] = "j_blocked" /\ (Asleep(b) => Asleep(b)')
  PROVE  PlaceInv'
<1>1. \A b \in VThreads : OnePlace(b) => OnePlace(b)'
  BY DEF OnePlace
<1>2. \A b \in VThreads : Unreached(b) => Unreached(b)'
  BY DEF Unreached
<1>3. \A b \in VThreads : Coming(b) => Coming(b)'
  BY DEF Coming, SameLists
<1> QED
  BY <1>1, <1>2, <1>3 DEF PlaceInv

\* FinishLock, FinishWalked, FinishPost, FutexWake and FinishDone: the worker has
\* no list.
LEMMA CoreNoList ==
  ASSUME TypeInv, CoreInv, NEW w \in Workers, Ending(w), head[w] = <<>>,
         UNCHANGED <<runq, cur_status, join_wait_queue, head, target, todo>>,
         \A b \in VThreads : pc'[b] = pc[b],
         fpc[w] # "enq", fpc'[w] \notin {"walk", "enq"},
         \A x \in Workers \ {w} : /\ pvth'[x] = pvth[x] /\ wpc'[x] = wpc[x]
                                  /\ wret'[x] = wret[x] /\ fpc'[x] = fpc[x],
         \/ pvth'[w] = pvth[w] /\ wpc'[w] = wpc[w] /\ wret'[w] = wret[w]
         \/ pvth'[w] = None
  PROVE  CoreInv'
<1>1. SameLists
  BY DEF SameLists
<1>2. \A b \in VThreads : (Asleep(b)' <=> Asleep(b)) /\ (Early(b)' <=> Early(b))
  BY <1>1, ListsKept DEF Early
<1>3. \A v \in VThreads : Finished(v)' <=> Finished(v)
  BY DEF Finished
<1>4. \A x \in Workers : head[x] # <<>> => pvth'[x] = pvth[x]
  OBVIOUS
<1>5. /\ \A x \in Workers : fpc'[x] \notin {"walk", "enq"} => head[x] = <<>>
      /\ \A x \in Workers : fpc'[x] = "enq" => fpc[x] = "enq"
  BY DEF CoreInv, ListInv
<1>6. ListInv'
  <2>1. None \notin VThreads
    BY ActorsAssumption
  <2>2. \A b \in VThreads \ {None} : pc'[b] = pc[b] /\ target'[b] = target[b] /\ todo'[b] = todo[b]
    OBVIOUS
  <2> QED
    BY <1>1, <1>3, <1>4, <1>5, <2>1, <2>2, ListKept DEF CoreInv
<1>7. CASE pvth'[w] = pvth[w] /\ wpc'[w] = wpc[w] /\ wret'[w] = wret[w]
  <2>1. PlaceInv'
    BY <1>1, <1>2, <1>7, PlaceKept DEF CoreInv
  <2> QED
    BY <1>6, <2>1 DEF CoreInv
<1>8. CASE pvth'[w] = None
  <2>1. None \notin VThreads /\ wpc[w] = "ret"
    BY ActorsAssumption DEF Ending
  <2>2. \A b \in VThreads : OnePlace(b) => OnePlace(b)'
    BY <1>8, <2>1 DEF OnePlace
  <2>3. \A b \in VThreads : Unreached(b) => Unreached(b)'
    BY <1>8, <2>1 DEF Unreached
  <2>4. \A b \in VThreads : Coming(b) => Coming(b)'
    BY <1>8, <2>1 DEF Coming
  <2>5. PlaceInv'
    BY <1>2, <2>2, <2>3, <2>4 DEF PlaceInv, CoreInv
  <2> QED
    BY <1>6, <2>5 DEF CoreInv
<1> QED
  BY <1>7, <1>8

\* FinishPublish takes the list of the vthread: those in it are asleep, since
\* one that has not yielded would own join_mutex.
LEMMA CorePublish ==
  ASSUME TypeInv, OwnInv, EndInv, CoreInv, NEW w \in Workers, FinishPublish(w)
  PROVE  CoreInv'
<1> DEFINE v == pvth[w]
<1>1. /\ Ending(w) /\ fpc[w] = "locked" /\ v \in VThreads /\ pc[v] = "ended"
      /\ ListInv /\ PlaceInv /\ head[w] = <<>>
  <2>1. wpc[w] = "ret" /\ wret[w] = "FINISHED" /\ fpc[w] = "locked"
    BY DEF FinishPublish, FinishAt, WorkerAt
  <2>2. pvth[w] \in VThreads
    BY <2>1 DEF TypeInv, TypeOK, SchedTypeOK, ControlOK
  <2> QED
    BY <2>1, <2>2 DEF Ending, EndInv, CoreInv, ListInv
<1>2. /\ UNCHANGED <<runq, wpc, pvth, wret, pc, target, todo>>
      /\ cur_status' = [cur_status EXCEPT ![v] = "FINISHED"]
      /\ head' = [head EXCEPT ![w] = join_wait_queue[v]]
      /\ join_wait_queue' = [join_wait_queue EXCEPT ![v] = <<>>]
      /\ fpc' = [fpc EXCEPT ![w] = "walk"]
  BY DEF FinishPublish, FinishGoto, workerVars
<1> HIDE DEF v
<1>3. /\ head'[w] = join_wait_queue[v] /\ fpc'[w] = "walk"
      /\ \A x \in Workers \ {w} : head'[x] = head[x] /\ fpc'[x] = fpc[x]
      /\ join_wait_queue'[v] = <<>>
      /\ \A u \in VThreads \ {v} : join_wait_queue'[u] = join_wait_queue[u]
      /\ cur_status'[v] = "FINISHED"
      /\ \A u \in VThreads \ {v} : cur_status'[u] = cur_status[u]
  BY <1>1, <1>2 DEF TypeInv, TypeOK, SchedTypeOK
<1>4. \A b \in VThreads : pc[b] = "j_yield" => target[b] # v
  <2>1. Finishes(w, v)
    BY <1>1 DEF Finishes, v
  <2>2. \A b \in Actors : ~Looks(b, v)
    BY <1>1, <2>1 DEF OwnInv, OwnerOK, OwnerIs
  <2> QED
    BY <2>2 DEF Looks, Actors
<1>5. \A b \in VThreads, u \in VThreads : Listed(b, u)' <=> u # v /\ Listed(b, u)
  BY <1>1, <1>3 DEF Listed
<1>6. \A b \in VThreads : ToWake(w, b)' <=> Listed(b, v)
  BY <1>3 DEF Listed, ToWake
<1>7. \A b \in VThreads : ~ToWake(w, b)
  BY <1>1 DEF ToWake
<1>8. \A b \in VThreads, x \in Workers : x # w => (ToWake(x, b)' <=> ToWake(x, b))
  BY <1>3 DEF ToWake
<1>9. \A b \in VThreads : Listed(b, v) => pc[b] = "j_blocked" /\ target[b] = v
  BY <1>1, <1>4 DEF ListInv
<1>10. \A b \in VThreads : pc[b] \in {"j_yield", "j_blocked"} => target[b] \in VThreads
  BY DEF TypeInv, TypeOK, ControlOK, Actors, JoinPCs
<1>11. \A b \in VThreads : Asleep(b)' <=> Asleep(b)
  <2> TAKE b \in VThreads
  <2>1. CASE pc[b] # "j_blocked"
    BY <1>2, <2>1 DEF Asleep
  <2>2. CASE pc[b] = "j_blocked"
    <3>1. pc'[b] = "j_blocked" /\ target'[b] = target[b] /\ target[b] \in VThreads
      BY <1>2, <1>10, <2>2
    <3>2. Asleep(b)' <=> (Listed(b, target[b]) /\ target[b] # v)
                         \/ Listed(b, v) \/ \E x \in Workers : x # w /\ ToWake(x, b)
      <4>1. (\E x \in Workers : ToWake(x, b)') <=>
              Listed(b, v) \/ \E x \in Workers : x # w /\ ToWake(x, b)
        BY <1>6, <1>8
      <4>2. Listed(b, target[b])' <=> (Listed(b, target[b]) /\ target[b] # v)
        BY <1>1, <1>3, <3>1 DEF Listed
      <4> QED
        BY <3>1, <4>1, <4>2 DEF Asleep
    <3>3. Asleep(b) <=> Listed(b, target[b]) \/ \E x \in Workers : x # w /\ ToWake(x, b)
      BY <1>7, <2>2 DEF Asleep
    <3> QED
      BY <1>9, <3>2, <3>3
  <2> QED
    BY <2>1, <2>2
<1>12. \A b \in VThreads : Early(b)' <=> Early(b)
  BY <1>2 DEF Early
<1>13. \A u \in VThreads : Finished(u)' <=> u = v \/ Finished(u)
  BY <1>1, <1>3 DEF Finished
<1>14. ListInv'
  <2>1. \A u \in VThreads :
       /\ Distinct(join_wait_queue'[u])
       /\ Finished(u)' => join_wait_queue'[u] = <<>>
       /\ \A b \in VThreads :
            Listed(b, u)' => pc'[b] \in {"j_yield", "j_blocked"} /\ target'[b] = u
    <3>1. Distinct(<<>>)
      BY DEF Distinct
    <3> QED
      BY <1>1, <1>2, <1>3, <1>5, <1>13, <3>1 DEF ListInv
  <2>2. \A x \in Workers :
       /\ Distinct(head'[x])
       /\ fpc'[x] \notin {"walk", "enq"} => head'[x] = <<>>
       /\ \A b \in VThreads : ToWake(x, b)' => pc'[b] = "j_blocked" /\ target'[b] = pvth'[x]
       /\ \A b \in VThreads : fpc'[x] = "enq" /\ head'[x][1] = b => ~Early(b)' /\ ~Asleep(b)'
    <3> TAKE x \in Workers
    <3>1. CASE x = w
      BY <1>1, <1>2, <1>3, <1>6, <1>9, <3>1 DEF ListInv, v
    <3>2. CASE x # w
      BY <1>1, <1>2, <1>3, <1>8, <1>11, <1>12, <3>2 DEF ListInv
    <3> QED
      BY <3>1, <3>2
  <2>3. \A b \in VThreads :
       /\ pc'[b] = "j_yield" => Listed(b, target[b])'
       /\ pc'[b] = "j_blocked" => Asleep(b)' \/ Finished(target[b])'
    <3> TAKE b \in VThreads
    <3>1. ASSUME pc'[b] = "j_yield" PROVE Listed(b, target[b])'
      BY <1>1, <1>2, <1>3, <1>4, <1>10, <3>1 DEF ListInv, Listed
    <3>2. ASSUME pc'[b] = "j_blocked" PROVE Asleep(b)' \/ Finished(target[b])'
      <4>1. Asleep(b) \/ Finished(target[b])
        BY <1>1, <1>2, <3>2 DEF ListInv
      <4>2. Finished(target[b]) => Finished(target[b])'
        BY <1>1, <1>2, <1>3, <1>10, <3>2 DEF Finished
      <4> QED
        BY <1>11, <4>1, <4>2
    <3> QED
      BY <3>1, <3>2
  <2> QED
    BY <2>1, <2>2, <2>3 DEF ListInv
<1>15. PlaceInv'
  <2>1. \A b \in VThreads : (OnePlace(b)' <=> OnePlace(b)) /\ (Coming(b) => Coming(b)')
    BY <1>1, <1>2, <1>3 DEF OnePlace, Coming
  <2>2. \A b \in VThreads : Asleep(b) /\ Unreached(b) => Unreached(b)'
    BY <1>1, <1>2, <1>3 DEF Unreached, Asleep
  <2>3. \A b \in VThreads : pc'[b] = "j_yield" => cur_status'[b] = "BLOCKED"
    BY <1>1, <1>2, <1>3 DEF PlaceInv
  <2> QED
    BY <1>1, <1>2, <1>11, <1>12, <2>1, <2>2, <2>3 DEF PlaceInv
<1> QED
  BY <1>14, <1>15 DEF CoreInv

\* FinishMark wakes the first vthread of the list: it is in no list any more,
\* and its only join is over.
LEMMA CoreMark ==
  ASSUME Simple, TypeInv, TargetInv, EndInv, CoreInv, NEW w \in Workers, FinishMark(w)
  PROVE  CoreInv'
<1>1. /\ Ending(w) /\ fpc[w] = "walk" /\ head[w] # <<>> /\ pvth[w] \in VThreads
      /\ ListInv /\ PlaceInv
  <2>1. wpc[w] = "ret" /\ wret[w] = "FINISHED" /\ fpc[w] = "walk" /\ head[w] # <<>>
    BY DEF FinishMark, FinishAt, WorkerAt
  <2>2. pvth[w] \in VThreads
    BY <2>1 DEF TypeInv, TypeOK, SchedTypeOK, ControlOK
  <2> QED
    BY <2>1, <2>2 DEF Ending, CoreInv
<1>2. PICK a \in VThreads : a = head[w][1] /\ 1 \in DOMAIN head[w] /\ Head(head[w]) = a
  <2>1. head[w] \in Seq(VThreads)
    BY DEF TypeInv, TypeOK
  <2> QED
    BY <1>1, <2>1
<1>3. /\ UNCHANGED <<runq, wpc, pvth, wret, pc, target, todo, join_wait_queue, head>>
      /\ cur_status' = [cur_status EXCEPT ![a] = "SUSPENDED"]
      /\ fpc' = [fpc EXCEPT ![w] = "enq"]
  BY <1>2 DEF FinishMark, FinishGoto, workerVars, joinVars
<1>4. /\ fpc'[w] = "enq" /\ \A x \in Workers \ {w} : fpc'[x] = fpc[x]
      /\ cur_status'[a] = "SUSPENDED"
      /\ \A u \in VThreads \ {a} : cur_status'[u] = cur_status[u]
  BY <1>2, <1>3 DEF TypeInv, TypeOK, SchedTypeOK
<1>5. ToWake(w, a)
  BY <1>2, <1>1, <1>2 DEF ToWake
<1>6. pc[a] = "j_blocked" /\ target[a] = pvth[w] /\ Finished(pvth[w])
  BY <1>1, <1>2, <1>5 DEF ListInv, EndInv
<1>7. ~Listed(a, target[a])
  BY <1>1, <1>6 DEF ListInv, Listed
<1>8. \A x \in Workers : ToWake(x, a) => x = w
  <2> SUFFICES ASSUME NEW x \in Workers, ToWake(x, a) PROVE x = w
    OBVIOUS
  <2>1. target[a] = pvth[x] /\ fpc[x] \in {"walk", "enq"}
    BY <1>1, <1>2 DEF ListInv, ToWake
  <2>2. Ending(x)
    BY <2>1 DEF TypeInv, ControlOK, Ending
  <2>3. pvth[x] = pvth[w] /\ Ending(w)
    BY <1>1, <1>6, <2>1
  <2> QED
    BY <2>2, <2>3, Zenon DEF EndInv
<1>9. \A b \in VThreads : ToWake(w, b)' <=> b # a /\ ToWake(w, b)
  <2> TAKE b \in VThreads
  <2>1. ToWake(w, b)' <=> \E i \in DOMAIN head[w] : head[w][i] = b /\ i # 1
    BY <1>3, <1>4 DEF ToWake
  <2>2. ToWake(w, b) <=> \E i \in DOMAIN head[w] : head[w][i] = b
    BY <1>1 DEF ToWake
  <2>3. \A i \in DOMAIN head[w] : head[w][i] = a <=> i = 1
    BY <1>2, <1>1, <1>2 DEF ListInv, Distinct
  <2> QED
    BY <2>1, <2>2, <2>3
<1>10. \A b \in VThreads, x \in Workers : x # w => (ToWake(x, b)' <=> ToWake(x, b))
  BY <1>3, <1>4 DEF ToWake
<1>11. \A b \in VThreads : \A v : Listed(b, v)' <=> Listed(b, v)
  BY <1>3 DEF Listed
<1>12. \A b \in VThreads : Asleep(b)' <=> b # a /\ Asleep(b)
  <2> TAKE b \in VThreads
  <2>1. Listed(b, target[b])' <=> Listed(b, target[b])
    BY <1>3 DEF Listed
  <2>2. (\E x \in Workers : ToWake(x, b)') <=> b # a /\ \E x \in Workers : ToWake(x, b)
    BY <1>8, <1>9, <1>10
  <2>3. Asleep(b)' <=> pc[b] = "j_blocked" /\ (Listed(b, target[b]) \/ \E x \in Workers : ToWake(x, b)')
    BY <1>3, <2>1 DEF Asleep
  <2> QED
    BY <1>7, <2>2, <2>3 DEF Asleep
<1>13. \A b \in VThreads : Early(b)' <=> Early(b)
  BY <1>3 DEF Early
<1>14. ~Early(a)
  <2>1. todo[a] = {}
    BY <1>1, <1>2, <1>6, ActorsAssumption, JoinsOnce
  <2> QED
    BY <1>6, <2>1 DEF Early
<1>15. \A u \in VThreads : Finished(u)' <=> Finished(u)
  BY <1>2, <1>4, <1>6, NotFinished DEF Finished
<1>16. ListInv'
  <2>1. \A u \in VThreads :
       /\ Distinct(join_wait_queue'[u])
       /\ Finished(u)' => join_wait_queue'[u] = <<>>
       /\ \A b \in VThreads :
            Listed(b, u)' => pc'[b] \in {"j_yield", "j_blocked"} /\ target'[b] = u
    BY <1>1, <1>3, <1>11, <1>15 DEF ListInv
  <2>2. \A x \in Workers :
       /\ Distinct(head'[x])
       /\ fpc'[x] \notin {"walk", "enq"} => head'[x] = <<>>
       /\ \A b \in VThreads : ToWake(x, b)' => pc'[b] = "j_blocked" /\ target'[b] = pvth'[x]
       /\ \A b \in VThreads : fpc'[x] = "enq" /\ head'[x][1] = b => ~Early(b)' /\ ~Asleep(b)'
    <3> TAKE x \in Workers
    <3>1. CASE x = w
      <4>1. \A b \in VThreads : head'[x][1] = b => b = a
        BY <1>2, <1>3, <3>1
      <4> QED
        BY <1>1, <1>3, <1>4, <1>9, <1>12, <1>13, <1>14, <3>1, <4>1 DEF ListInv
    <3>2. CASE x # w
      BY <1>1, <1>3, <1>4, <1>10, <1>12, <1>13, <3>2 DEF ListInv
    <3> QED
      BY <3>1, <3>2
  <2>3. \A b \in VThreads :
       /\ pc'[b] = "j_yield" => Listed(b, target[b])'
       /\ pc'[b] = "j_blocked" => Asleep(b)' \/ Finished(target[b])'
    <3> TAKE b \in VThreads
    <3>1. Listed(b, target[b])' <=> Listed(b, target[b])
      BY <1>3 DEF Listed
    <3>2. pc[b] = "j_blocked" => target[b] \in VThreads
      BY DEF TypeInv, TypeOK, ControlOK, Actors, JoinPCs
    <3>3. pc[b] = "j_blocked" => (Finished(target[b])' <=> Finished(target[b]))
      BY <1>2, <1>3, <1>4, <1>6, <3>2, NotFinished DEF Finished
    <3> QED
      BY <1>1, <1>3, <1>6, <1>12, <3>1, <3>3 DEF ListInv
  <2> QED
    BY <2>1, <2>2, <2>3 DEF ListInv
<1>17. PlaceInv'
  <2>1. \A b \in VThreads : (OnePlace(b)' <=> OnePlace(b)) /\ (Coming(b) => Coming(b)')
    BY <1>1, <1>3, <1>4 DEF OnePlace, Coming
  <2>2. Coming(a)'
    BY <1>2, <1>3, <1>4 DEF Coming
  <2>3. \A b \in VThreads : b # a /\ Unreached(b) => Unreached(b)'
    BY <1>3, <1>4 DEF Unreached
  <2>4. \A b \in VThreads : pc'[b] = "j_yield" => cur_status'[b] = "BLOCKED"
    BY <1>1, <1>3, <1>4, <1>6 DEF PlaceInv
  <2> QED
    BY <1>1, <1>3, <1>12, <1>13, <2>1, <2>2, <2>3, <2>4 DEF PlaceInv
<1> QED
  BY <1>16, <1>17 DEF CoreInv

\* FinishEnqueue puts a vthread that is awake in vs_queue.
LEMMA CoreEnqueue ==
  ASSUME TypeInv, CoreInv, NEW w \in Workers, FinishEnqueue(w)
  PROVE  CoreInv'
<1>1. /\ Ending(w) /\ fpc[w] = "enq" /\ head[w] # <<>> /\ head[w] \in Seq(VThreads)
      /\ ListInv /\ PlaceInv
  BY DEF FinishEnqueue, FinishAt, WorkerAt, Ending, CoreInv, TypeInv, TypeOK, ControlOK
<1>2. PICK a \in VThreads : a = head[w][1] /\ 1 \in DOMAIN head[w] /\ Head(head[w]) = a
  BY <1>1
<1>3. /\ UNCHANGED <<cur_status, wpc, pvth, wret, pc, target, todo, join_wait_queue>>
      /\ runq' = [runq EXCEPT ![a] = @ + 1]
      /\ fpc' = [fpc EXCEPT ![w] = "walk"]
      /\ head' = [head EXCEPT ![w] = Tail(@)]
  BY <1>2 DEF FinishEnqueue, FinishGoto, Enqueue, workerVars, joinVars
<1>4. ~Early(a) /\ ~Asleep(a)
  BY <1>1, <1>2 DEF ListInv
<1>5. /\ fpc'[w] = "walk" /\ \A x \in Workers \ {w} : fpc'[x] = fpc[x] /\ head'[x] = head[x]
      /\ head'[w] = Tail(head[w])
      /\ runq'[a] = runq[a] + 1 /\ runq[a] \in Nat
      /\ \A u \in VThreads \ {a} : runq'[u] = runq[u]
  BY <1>2, <1>3 DEF TypeInv, TypeOK, SchedTypeOK
<1>6. /\ DOMAIN head'[w] = 1..(Len(head[w]) - 1)
      /\ DOMAIN head[w] = 1..Len(head[w]) /\ Len(head[w]) \in Nat
      /\ \A i \in DOMAIN head'[w] : head'[w][i] = head[w][i + 1]
  BY <1>1, <1>5
<1>7. \A b \in VThreads : ToWake(w, b)' <=> ToWake(w, b)
  <2> TAKE b \in VThreads
  <2>1. ASSUME ToWake(w, b)' PROVE ToWake(w, b)
    <3>1. PICK i \in DOMAIN head'[w] : head'[w][i] = b
      BY <2>1 DEF ToWake
    <3>2. i + 1 \in DOMAIN head[w] /\ i + 1 # 1 /\ head[w][i + 1] = b
      BY <1>6, <3>1
    <3> QED
      BY <3>2 DEF ToWake
  <2>2. ASSUME ToWake(w, b) PROVE ToWake(w, b)'
    <3>1. PICK i \in DOMAIN head[w] : head[w][i] = b /\ i # 1
      BY <1>1, <2>2 DEF ToWake
    <3>2. i - 1 \in DOMAIN head'[w] /\ head'[w][i - 1] = head[w][(i - 1) + 1] /\ (i - 1) + 1 = i
      BY <1>6, <3>1
    <3> QED
      BY <1>5, <3>1, <3>2 DEF ToWake
  <2> QED
    BY <2>1, <2>2
<1>8. \A b \in VThreads, x \in Workers : ToWake(x, b)' <=> ToWake(x, b)
  <2> TAKE b \in VThreads, x \in Workers
  <2>1. CASE x = w
    BY <1>7, <2>1
  <2>2. CASE x # w
    BY <1>5, <2>2 DEF ToWake
  <2> QED
    BY <2>1, <2>2
<1>9. \A b \in VThreads : \A v : Listed(b, v)' <=> Listed(b, v)
  BY <1>3 DEF Listed
<1>10. \A b \in VThreads : (Asleep(b)' <=> Asleep(b)) /\ (Early(b)' <=> Early(b))
  <2> TAKE b \in VThreads
  <2>1. Listed(b, target[b])' <=> Listed(b, target[b])
    BY <1>3 DEF Listed
  <2> QED
    BY <1>3, <1>8, <2>1 DEF Asleep, Early
<1>11. \A u : Finished(u)' <=> Finished(u)
  BY <1>3 DEF Finished
<1>12. Distinct(head'[w])
  <2> SUFFICES ASSUME NEW i \in DOMAIN head'[w], NEW j \in DOMAIN head'[w],
                      head'[w][i] = head'[w][j]
               PROVE  i = j
    BY DEF Distinct
  <2>1. /\ i + 1 \in DOMAIN head[w] /\ j + 1 \in DOMAIN head[w]
        /\ head[w][i + 1] = head[w][j + 1]
    BY <1>6
  <2>2. i + 1 = j + 1
    BY <1>1, <2>1 DEF ListInv, Distinct
  <2> QED
    BY <1>6, <2>2
<1>13. ListInv'
  <2>1. \A u \in VThreads :
       /\ Distinct(join_wait_queue'[u])
       /\ Finished(u)' => join_wait_queue'[u] = <<>>
       /\ \A b \in VThreads :
            Listed(b, u)' => pc'[b] \in {"j_yield", "j_blocked"} /\ target'[b] = u
    BY <1>1, <1>3, <1>9, <1>11 DEF ListInv
  <2>2. \A x \in Workers :
       /\ Distinct(head'[x])
       /\ fpc'[x] \notin {"walk", "enq"} => head'[x] = <<>>
       /\ \A b \in VThreads : ToWake(x, b)' => pc'[b] = "j_blocked" /\ target'[b] = pvth'[x]
       /\ \A b \in VThreads : fpc'[x] = "enq" /\ head'[x][1] = b => ~Early(b)' /\ ~Asleep(b)'
    <3> TAKE x \in Workers
    <3>1. CASE x = w
      BY <1>1, <1>3, <1>5, <1>8, <1>12, <3>1 DEF ListInv
    <3>2. CASE x # w
      BY <1>1, <1>3, <1>5, <1>8, <1>10, <3>2 DEF ListInv
    <3> QED
      BY <3>1, <3>2
  <2>3. \A b \in VThreads :
       /\ pc'[b] = "j_yield" => Listed(b, target[b])'
       /\ pc'[b] = "j_blocked" => Asleep(b)' \/ Finished(target[b])'
    <3> TAKE b \in VThreads
    <3>1. Listed(b, target[b])' <=> Listed(b, target[b])
      BY <1>3 DEF Listed
    <3>2. Finished(target[b])' <=> Finished(target[b])
      BY <1>3 DEF Finished
    <3> QED
      BY <1>1, <1>3, <1>10, <3>1, <3>2 DEF ListInv
  <2> QED
    BY <2>1, <2>2, <2>3 DEF ListInv
<1>14. PlaceInv'
  <2>1. \A b \in VThreads : b # a => (OnePlace(b)' <=> OnePlace(b)) /\ (Unreached(b)' <=> Unreached(b))
    BY <1>3, <1>5 DEF OnePlace, Unreached
  <2>2. Coming(a)'
    BY <1>5 DEF Coming
  <2>3. \A b \in VThreads : b # a /\ Coming(b) => Coming(b)'
    BY <1>2, <1>3, <1>5 DEF Coming
  <2>4. \A b \in VThreads : pc'[b] = "j_yield" => cur_status'[b] = "BLOCKED"
    BY <1>1, <1>3 DEF PlaceInv
  <2> QED
    BY <1>1, <1>3, <1>4, <1>10, <2>1, <2>2, <2>3, <2>4 DEF PlaceInv
<1> QED
  BY <1>13, <1>14 DEF CoreInv

\* A step of wake_up_joined keeps them.
LEMMA CoreFinish ==
  ASSUME Simple, TypeInv, OwnInv, TargetInv, EndInv, CoreInv,
         NEW w \in Workers, FinishStep(w)
  PROVE  CoreInv'
<1>1. CASE FinishPublish(w)
  BY <1>1, CorePublish
<1>2. CASE FinishMark(w)
  BY <1>2, CoreMark
<1>3. CASE FinishEnqueue(w)
  BY <1>3, CoreEnqueue
<1>4. CASE FinishLock(w) \/ FinishWalked(w) \/ FinishPost(w) \/ FutexWake(w) \/ FinishDone(w)
  <2> USE DEF FinishAt, WorkerAt, FinishGoto, joinVars, schedVars, workerVars
  <2>1. Ending(w) /\ fpc[w] # "enq" /\ (fpc[w] = "walk" => head[w] = <<>>)
    BY <1>4 DEF FinishLock, FinishWalked, FinishPost, FutexWake, FinishDone, Ending
  <2>2. head[w] = <<>>
    BY <2>1 DEF CoreInv, ListInv
  <2>3. UNCHANGED <<runq, cur_status, join_wait_queue, head, target, todo>>
    BY <1>4 DEF FinishLock, FinishWalked, FinishPost, FutexWake, FinishDone
  <2>4. \A b \in VThreads : pc'[b] = pc[b]
    <3>1. CASE UNCHANGED pc
      BY <3>1
    <3>2. CASE \E a \in Sleepers(pvth[w]) : Move(a, "j_wait")
      BY <3>2, ActorsAssumption DEF Sleepers, Move, Actors, TypeInv, TypeOK
    <3> QED
      BY <1>4, <3>1, <3>2 DEF FinishLock, FinishWalked, FinishPost, FutexWake, FinishDone
  <2>5. /\ fpc'[w] \notin {"walk", "enq"}
        /\ \A x \in Workers \ {w} : fpc'[x] = fpc[x]
    <3>1. CASE FinishPost(w)
      BY <3>1 DEF FinishPost, TypeInv, TypeOK
    <3>2. CASE ~FinishPost(w)
      BY <1>4, <3>2 DEF FinishLock, FinishWalked, FutexWake, FinishDone, TypeInv, TypeOK
    <3> QED
      BY <3>1, <3>2
  <2>6. CASE FinishDone(w)
    <3>1. pvth'[w] = None
      BY <2>6 DEF FinishDone, ToLoop, TypeInv, TypeOK, SchedTypeOK
    <3>2. \A x \in Workers \ {w} : pvth'[x] = pvth[x] /\ wpc'[x] = wpc[x] /\ wret'[x] = wret[x]
      BY <2>6 DEF FinishDone, ToLoop, TypeInv, TypeOK, SchedTypeOK
    <3> QED
      BY <2>1, <2>2, <2>3, <2>4, <2>5, <3>1, <3>2, CoreNoList
  <2>7. CASE ~FinishDone(w)
    <3>1. UNCHANGED <<wpc, pvth, wret>>
      BY <1>4, <2>7 DEF FinishLock, FinishWalked, FinishPost, FutexWake
    <3> QED
      BY <2>1, <2>2, <2>3, <2>4, <2>5, <3>1, CoreNoList
  <2> QED
    BY <2>6, <2>7
<1> QED
  BY <1>1, <1>2, <1>3, <1>4 DEF FinishStep

\* A vthread that executes does not sleep.
LEMMA ExecutingAwake ==
  ASSUME TypeInv, CoreInv, NEW a \in VThreads, Executing(a)
  PROVE  ~Asleep(a)
<1>1. PICK w \in Workers : wpc[w] = "run" /\ pvth[w] = a
  BY ActorsAssumption DEF Executing, RunsOn
<1> QED
  BY <1>1 DEF CoreInv, PlaceInv, Unreached

\* A step of an actor that leaves the scheduler and the lists alone, and is not
\* about to block.
LEMMA CoreQuiet ==
  ASSUME Simple, TypeInv, TargetInv, CoreInv, NEW a \in Actors, Executing(a),
         UNCHANGED <<runq, cur_status, wpc, pvth, wret, join_wait_queue, fpc, head>>,
         \A b \in Actors \ {a} : pc'[b] = pc[b] /\ target'[b] = target[b] /\ todo'[b] = todo[b],
         pc[a] # "j_yield", pc'[a] \notin {"j_yield", "j_blocked"},
         todo'[a] \subseteq todo[a], pc'[a] \in {"j_lock", "j_look"} => Early(a)
  PROVE  CoreInv'
<1>1. SameLists
  BY DEF SameLists
<1>2. a \in VThreads =>
        /\ ~Asleep(a) /\ ~Asleep(a)'
        /\ Early(a)' => Early(a)
  BY ExecutingAwake DEF Asleep, Early
<1>3. \A b \in VThreads \ {a} : /\ pc'[b] = pc[b] /\ target'[b] = target[b] /\ todo'[b] = todo[b]
                                /\ Asleep(b)' <=> Asleep(b)
                                /\ Early(b)' <=> Early(b)
  BY <1>1, ListsKept DEF Actors, Early
<1>4. \A v \in VThreads : Finished(v)' <=> Finished(v)
  BY DEF Finished
<1>5. \A w \in Workers : fpc'[w] \notin {"walk", "enq"} => head[w] = <<>>
  BY DEF CoreInv, ListInv
<1>6. ListInv'
  BY <1>1, <1>2, <1>3, <1>4, <1>5, ListKept DEF CoreInv
<1>7. PlaceInv'
  <2>1. \A b \in VThreads :
           /\ Early(b)' => Early(b)
           /\ Asleep(b)' => Asleep(b)
           /\ pc'[b] = "j_yield" => pc[b] = "j_yield"
           /\ pc'[b] = "j_blocked" => pc[b] = "j_blocked" /\ (Asleep(b) => Asleep(b)')
    BY <1>2, <1>3
  <2> QED
    BY <1>1, <2>1, PlaceKept DEF CoreInv
<1> QED
  BY <1>6, <1>7 DEF CoreInv

\* A yield of a vthread that has not put itself in a list.
LEMMA CoreYield ==
  ASSUME TypeInv, CoreInv, NEW a \in VThreads, NEW code, YieldMyself(a, code),
         UNCHANGED <<runq, cur_status, join_wait_queue, fpc, head, target, todo>>,
         \A b \in VThreads \ {a} : pc'[b] = pc[b],
         pc[a] \notin {"j_yield", "j_blocked"}, pc'[a] \notin {"j_yield", "j_blocked"},
         pc'[a] \in {"j_lock", "j_look"} => Early(a)
  PROVE  CoreInv'
<1>1. PICK w \in Workers :
         /\ wpc[w] = "run" /\ pvth[w] = a /\ fpc[w] = "no"
         /\ wpc' = [wpc EXCEPT ![w] = "ret"]
         /\ wret' = [wret EXCEPT ![w] = code]
         /\ pvth' = pvth /\ fault' = fault
  BY YieldReturns
<1>2. \A x \in Workers \ {w} : wpc'[x] = wpc[x] /\ wret'[x] = wret[x]
  BY <1>1 DEF TypeInv, TypeOK, SchedTypeOK
<1>3. SameLists
  BY DEF SameLists
<1>4. ~Asleep(a) /\ ~Asleep(a)' /\ (Early(a)' => Early(a))
  BY DEF Asleep, Early
<1>5. \A b \in VThreads \ {a} : (Asleep(b)' <=> Asleep(b)) /\ (Early(b)' <=> Early(b))
  BY <1>3, ListsKept DEF Early
<1>6. \A v \in VThreads : Finished(v)' <=> Finished(v)
  BY DEF Finished
<1>7. \A x \in Workers : fpc'[x] \notin {"walk", "enq"} => head[x] = <<>>
  BY DEF CoreInv, ListInv
<1>8. ListInv'
  BY <1>1, <1>3, <1>4, <1>6, <1>7, ListKept DEF CoreInv
<1>9. PlaceInv'
  <2>1. \A b \in VThreads : OnePlace(b)' <=> OnePlace(b)
    BY <1>1 DEF OnePlace
  <2>2. \A b \in VThreads \ {a} : Unreached(b) => Unreached(b)'
    BY <1>1, <1>2 DEF Unreached
  <2>3. \A b \in VThreads \ {a} : Coming(b) => Coming(b)'
    BY <1>1, <1>2 DEF Coming
  <2> QED
    BY <1>4, <1>5, <2>1, <2>2, <2>3 DEF PlaceInv, CoreInv
<1> QED
  BY <1>8, <1>9 DEF CoreInv

\* The vthread that yields in its join is asleep: it is in the list, and it was
\* nowhere but on its worker, which now owes the release of join_mutex.
LEMMA CoreJoinYield ==
  ASSUME Simple, TypeInv, TargetInv, CoreInv, NEW a \in Actors, JoinYield(a)
  PROVE  CoreInv'
<1>1. /\ a \in VThreads /\ pc[a] = "j_yield" /\ target[a] \in VThreads
      /\ pc' = [pc EXCEPT ![a] = "j_blocked"] /\ YieldMyself(a, target[a])
      /\ UNCHANGED <<runq, cur_status, join_wait_queue, fpc, head, target, todo>>
      /\ ListInv /\ PlaceInv
  BY DEF JoinYield, At, Move, TypeInv, TypeOK, ControlOK, Actors, JoinPCs, finishVars, CoreInv
<1>2. PICK w \in Workers :
         /\ wpc[w] = "run" /\ pvth[w] = a /\ fpc[w] = "no"
         /\ wpc' = [wpc EXCEPT ![w] = "ret"]
         /\ wret' = [wret EXCEPT ![w] = target[a]]
         /\ pvth' = pvth /\ fault' = fault
  BY <1>1, YieldReturns
<1>3. /\ \A x \in Workers \ {w} : wpc'[x] = wpc[x] /\ wret'[x] = wret[x]
      /\ wpc'[w] = "ret" /\ wret'[w] = target[a] /\ target[a] \in Locks
      /\ pc'[a] = "j_blocked" /\ \A b \in VThreads \ {a} : pc'[b] = pc[b]
  BY <1>1, <1>2, JoinAssumption DEF TypeInv, TypeOK, SchedTypeOK, Actors
<1>4. SameLists
  BY <1>1 DEF SameLists
<1>5. /\ \A b \in VThreads, v \in VThreads : Listed(b, v)' <=> Listed(b, v)
      /\ \A b \in VThreads, x \in Workers : ToWake(x, b)' <=> ToWake(x, b)
      /\ \A b \in VThreads \ {a} : (Asleep(b)' <=> Asleep(b)) /\ (Early(b)' <=> Early(b))
  BY <1>1, <1>3, <1>4, ListsKept DEF Early
<1>6. Listed(a, target[a]) /\ Listed(a, target[a])'
  BY <1>1 DEF ListInv, Listed
<1>7. Asleep(a)' /\ Early(a) /\ todo[a] = {} /\ ~Early(a)'
  BY <1>1, <1>3, <1>6, ActorsAssumption, JoinsOnce DEF Asleep, Early
<1>8. OnePlace(a) /\ cur_status[a] = "BLOCKED" /\ runq[a] = 0
  BY <1>1, <1>2, <1>7 DEF PlaceInv, OnePlace
<1>9. \A v \in VThreads : Finished(v)' <=> Finished(v)
  BY <1>1 DEF Finished
<1>10. ListInv'
  <2>1. \A u \in VThreads :
       /\ Distinct(join_wait_queue'[u])
       /\ Finished(u)' => join_wait_queue'[u] = <<>>
       /\ \A b \in VThreads :
            Listed(b, u)' => pc'[b] \in {"j_yield", "j_blocked"} /\ target'[b] = u
    BY <1>1, <1>3, <1>5, <1>9 DEF ListInv
  <2>2. \A x \in Workers :
       /\ Distinct(head'[x])
       /\ fpc'[x] \notin {"walk", "enq"} => head'[x] = <<>>
       /\ \A b \in VThreads : ToWake(x, b)' => pc'[b] = "j_blocked" /\ target'[b] = pvth'[x]
       /\ \A b \in VThreads : fpc'[x] = "enq" /\ head'[x][1] = b => ~Early(b)' /\ ~Asleep(b)'
    BY <1>1, <1>2, <1>3, <1>5, <1>7 DEF ListInv
  <2>3. \A b \in VThreads :
       /\ pc'[b] = "j_yield" => Listed(b, target[b])'
       /\ pc'[b] = "j_blocked" => Asleep(b)' \/ Finished(target[b])'
    <3> TAKE b \in VThreads
    <3>1. Listed(b, target[b])' <=> Listed(b, target[b])
      BY <1>1 DEF Listed
    <3>2. Finished(target[b])' <=> Finished(target[b])
      BY <1>1 DEF Finished
    <3> QED
      BY <1>1, <1>3, <1>5, <1>7, <3>1, <3>2 DEF ListInv
  <2> QED
    BY <2>1, <2>2, <2>3 DEF ListInv
<1>11. PlaceInv'
  <2>1. Unreached(a)'
    BY <1>1, <1>2, <1>3, <1>8 DEF Unreached, OnePlace
  <2>2. \A b \in VThreads \ {a} : (OnePlace(b)' <=> OnePlace(b)) /\ (Unreached(b) => Unreached(b)')
                                  /\ (Coming(b) => Coming(b)')
    BY <1>1, <1>2, <1>3 DEF OnePlace, Unreached, Coming
  <2> QED
    BY <1>1, <1>3, <1>5, <1>7, <2>1, <2>2 DEF PlaceInv
<1> QED
  BY <1>10, <1>11 DEF CoreInv

\* The vthread that puts itself in the list of its target is not in it yet, and
\* the target has not finished.
LEMMA CoreEnlist ==
  ASSUME TypeInv, EndInv, CoreInv, NEW a \in Actors, JoinEnlist(a)
  PROVE  CoreInv'
<1>1. /\ a \in VThreads /\ pc[a] = "j_look" /\ target[a] \in VThreads
      /\ pc' = [pc EXCEPT ![a] = "j_yield"]
      /\ cur_status' = [cur_status EXCEPT ![a] = "BLOCKED"]
      /\ join_wait_queue' = [join_wait_queue EXCEPT ![target[a]] = <<a>> \o @]
      /\ UNCHANGED <<runq, wpc, pvth, wret, fpc, head, target, todo>>
      /\ ListInv /\ PlaceInv /\ ~Finished(target[a])
  BY DEF JoinEnlist, At, Move, TypeInv, TypeOK, ControlOK, Actors, JoinPCs, workerVars,
         finishVars, CoreInv, Finished
<1>2. PICK t \in VThreads : t = target[a]
  BY <1>1
<1>3. /\ pc'[a] = "j_yield" /\ \A b \in VThreads \ {a} : pc'[b] = pc[b]
      /\ cur_status'[a] = "BLOCKED" /\ \A b \in VThreads \ {a} : cur_status'[b] = cur_status[b]
      /\ join_wait_queue'[t] = <<a>> \o join_wait_queue[t]
      /\ \A v \in VThreads \ {t} : join_wait_queue'[v] = join_wait_queue[v]
  BY <1>1, <1>2 DEF TypeInv, TypeOK, SchedTypeOK, Actors
<1>4. /\ join_wait_queue[t] \in Seq(VThreads)
      /\ DOMAIN join_wait_queue'[t] = 1..(Len(join_wait_queue[t]) + 1)
      /\ DOMAIN join_wait_queue[t] = 1..Len(join_wait_queue[t]) /\ Len(join_wait_queue[t]) \in Nat
      /\ join_wait_queue'[t][1] = a
      /\ \A i \in DOMAIN join_wait_queue[t] : join_wait_queue'[t][i + 1] = join_wait_queue[t][i]
  <2>1. join_wait_queue[t] \in Seq(VThreads)
    BY DEF TypeInv, TypeOK
  <2> QED
    BY <1>3, <2>1
<1>5. /\ \A v \in VThreads : ~Listed(a, v)
      /\ \A w \in Workers : ~ToWake(w, a)
  BY <1>1 DEF ListInv
<1>6. \A b \in VThreads : Listed(b, t)' <=> b = a \/ Listed(b, t)
  <2> TAKE b \in VThreads
  <2>1. ASSUME Listed(b, t)' PROVE b = a \/ Listed(b, t)
    <3>1. PICK i \in DOMAIN join_wait_queue'[t] : join_wait_queue'[t][i] = b
      BY <2>1 DEF Listed
    <3>2. CASE i = 1
      BY <1>4, <3>1, <3>2
    <3>3. CASE i # 1
      <4>1. i - 1 \in DOMAIN join_wait_queue[t] /\ (i - 1) + 1 = i
        BY <1>4, <3>1, <3>3
      <4>2. join_wait_queue[t][i - 1] = b
        BY <1>4, <3>1, <4>1
      <4> QED
        BY <4>1, <4>2 DEF Listed
    <3> QED
      BY <3>2, <3>3
  <2>2. ASSUME b = a PROVE Listed(b, t)'
    <3>1. 1 \in DOMAIN join_wait_queue'[t]
      BY <1>4
    <3> QED
      BY <1>4, <2>2, <3>1 DEF Listed
  <2>3. ASSUME Listed(b, t) PROVE Listed(b, t)'
    <3>1. PICK i \in DOMAIN join_wait_queue[t] : join_wait_queue[t][i] = b
      BY <2>3 DEF Listed
    <3>2. i + 1 \in DOMAIN join_wait_queue'[t] /\ join_wait_queue'[t][i + 1] = b
      BY <1>4, <3>1
    <3> QED
      BY <3>2 DEF Listed
  <2> QED
    BY <2>1, <2>2, <2>3
<1>7. \A b \in VThreads, v \in VThreads : v # t => (Listed(b, v)' <=> Listed(b, v))
  BY <1>3 DEF Listed
<1>8. \A b \in VThreads, w \in Workers : ToWake(w, b)' <=> ToWake(w, b)
  BY <1>1 DEF ToWake
<1>9. ~Asleep(a)' /\ \A b \in VThreads \ {a} : (Asleep(b)' <=> Asleep(b)) /\ (Early(b)' <=> Early(b))
  <2>1. ~Asleep(a)'
    BY <1>3 DEF Asleep
  <2>2. ASSUME NEW b \in VThreads \ {a} PROVE Asleep(b)' <=> Asleep(b)
    <3>1. CASE pc[b] # "j_blocked"
      BY <1>3, <3>1 DEF Asleep
    <3>2. CASE pc[b] = "j_blocked"
      <4>1. PICK v \in VThreads : v = target[b]
        BY <3>2 DEF TypeInv, TypeOK, ControlOK, Actors, JoinPCs
      <4>2. Listed(b, v)' <=> Listed(b, v)
        BY <1>6, <1>7
      <4>3. Listed(b, target[b])' <=> Listed(b, v)'
        BY <1>1, <4>1 DEF Listed
      <4> QED
        BY <1>3, <1>8, <4>1, <4>2, <4>3 DEF Asleep
    <3> QED
      BY <3>1, <3>2
  <2>3. \A b \in VThreads \ {a} : Early(b)' <=> Early(b)
    BY <1>1, <1>3 DEF Early
  <2> QED
    BY <2>1, <2>2, <2>3
<1>10. \A v \in VThreads : Finished(v)' <=> Finished(v)
  BY <1>1, <1>3, NotFinished DEF Finished
<1>11. Distinct(join_wait_queue'[t])
  <2> SUFFICES ASSUME NEW i \in DOMAIN join_wait_queue'[t], NEW j \in DOMAIN join_wait_queue'[t],
                      join_wait_queue'[t][i] = join_wait_queue'[t][j]
               PROVE  i = j
    BY DEF Distinct
  <2>1. \A k \in DOMAIN join_wait_queue'[t] : k # 1 =>
          /\ k - 1 \in DOMAIN join_wait_queue[t]
          /\ join_wait_queue'[t][k] = join_wait_queue[t][k - 1]
          /\ join_wait_queue[t][k - 1] # a
    <3> TAKE k \in DOMAIN join_wait_queue'[t]
    <3> HAVE k # 1
    <3>1. k - 1 \in DOMAIN join_wait_queue[t] /\ (k - 1) + 1 = k
      BY <1>4
    <3>2. join_wait_queue'[t][k] = join_wait_queue[t][k - 1]
      BY <1>4, <3>1
    <3>3. join_wait_queue[t][k - 1] # a
      BY <1>5, <3>1 DEF Listed
    <3> QED
      BY <3>1, <3>2, <3>3
  <2>2. CASE i = 1 \/ j = 1
    BY <1>4, <2>1, <2>2
  <2>3. CASE i # 1 /\ j # 1
    <3>1. i - 1 = j - 1
      BY <1>1, <2>1, <2>3 DEF ListInv, Distinct
    <3> QED
      BY <1>4, <3>1
  <2> QED
    BY <2>2, <2>3
<1>12. ListInv'
  <2>1. \A u \in VThreads :
       /\ Distinct(join_wait_queue'[u])
       /\ Finished(u)' => join_wait_queue'[u] = <<>>
       /\ \A b \in VThreads :
            Listed(b, u)' => pc'[b] \in {"j_yield", "j_blocked"} /\ target'[b] = u
    <3> TAKE u \in VThreads
    <3>1. CASE u = t
      BY <1>1, <1>2, <1>3, <1>6, <1>10, <1>11, <3>1 DEF ListInv
    <3>2. CASE u # t
      BY <1>1, <1>3, <1>5, <1>7, <1>10, <3>2 DEF ListInv
    <3> QED
      BY <3>1, <3>2
  <2>2. \A x \in Workers :
       /\ Distinct(head'[x])
       /\ fpc'[x] \notin {"walk", "enq"} => head'[x] = <<>>
       /\ \A b \in VThreads : ToWake(x, b)' => pc'[b] = "j_blocked" /\ target'[b] = pvth'[x]
       /\ \A b \in VThreads : fpc'[x] = "enq" /\ head'[x][1] = b => ~Early(b)' /\ ~Asleep(b)'
    <3>1. Early(a)
      BY <1>1 DEF Early
    <3> QED
      BY <1>1, <1>3, <1>5, <1>8, <1>9, <3>1 DEF ListInv
  <2>3. \A b \in VThreads :
       /\ pc'[b] = "j_yield" => Listed(b, target[b])'
       /\ pc'[b] = "j_blocked" => Asleep(b)' \/ Finished(target[b])'
    <3> TAKE b \in VThreads
    <3>1. CASE pc'[b] \in {"j_yield", "j_blocked"}
      <4>1. PICK v \in VThreads : v = target[b]
        BY <1>1, <1>3, <3>1 DEF TypeInv, TypeOK, ControlOK, Actors, JoinPCs
      <4>2. Listed(b, target[b])' <=> Listed(b, v)'
        BY <1>1, <4>1 DEF Listed
      <4>3. Finished(target[b])' <=> Finished(v)'
        BY <1>1, <4>1 DEF Finished
      <4>4. CASE b = a
        BY <1>2, <1>3, <1>6, <4>1, <4>2, <4>4
      <4>5. CASE b # a
        BY <1>1, <1>3, <1>6, <1>7, <1>9, <1>10, <4>1, <4>2, <4>3, <4>5 DEF ListInv
      <4> QED
        BY <4>4, <4>5
    <3> QED
      BY <3>1
  <2> QED
    BY <2>1, <2>2, <2>3 DEF ListInv
<1>13. PlaceInv'
  <2>1. \A b \in VThreads : OnePlace(b)' <=> OnePlace(b)
    BY <1>1 DEF OnePlace
  <2>2. \A b \in VThreads \ {a} : (Unreached(b) => Unreached(b)') /\ (Coming(b) => Coming(b)')
    BY <1>1, <1>3 DEF Unreached, Coming
  <2>3. Early(a)
    BY <1>1 DEF Early
  <2> QED
    BY <1>1, <1>3, <1>9, <2>1, <2>2, <2>3 DEF PlaceInv
<1> QED
  BY <1>12, <1>13 DEF CoreInv

\* A step of an actor keeps them.
LEMMA CoreActor ==
  ASSUME Simple, TypeInv, TargetInv, EndInv, CoreInv, NEW a \in Actors, ActorStep(a)
  PROVE  CoreInv'
<1> USE DEF At, Move, Return, schedVars, workerVars, finishVars, joinVars
<1>1. CASE JoinEnlist(a)
  BY <1>1, CoreEnlist
<1>2. CASE JoinYield(a)
  BY <1>2, CoreJoinYield
<1>3. CASE JoinLockFail(a) \/ ExitLockFail(a)
  <2>1. /\ a \in VThreads /\ pc[a] \in {"j_lock", "e_lock"} /\ YieldMyself(a, "LOCKFAIL")
        /\ UNCHANGED <<runq, cur_status, join_wait_queue, fpc, head, target, todo, pc>>
    BY <1>3 DEF JoinLockFail, ExitLockFail, TypeInv, ControlOK
  <2> QED
    BY <2>1, CoreYield DEF Early
<1>4. CASE End(a)
  <2>1. /\ a \in VThreads /\ pc[a] = "e_yield" /\ YieldMyself(a, "FINISHED")
        /\ UNCHANGED <<runq, cur_status, join_wait_queue, fpc, head, target, todo>>
        /\ pc'[a] = "ended" /\ \A b \in VThreads \ {a} : pc'[b] = pc[b]
    BY <1>4 DEF End, TypeInv, TypeOK, ControlOK, Actors
  <2> QED
    BY <2>1, CoreYield
<1>5. CASE \E v \in VThreads : CallJoin(a, v)
  <2>1. /\ Executing(a) /\ pc[a] = "ready" /\ pc'[a] = "j_lock"
        /\ UNCHANGED <<runq, cur_status, wpc, pvth, wret, join_wait_queue, fpc, head>>
        /\ \A b \in Actors \ {a} : pc'[b] = pc[b] /\ target'[b] = target[b] /\ todo'[b] = todo[b]
        /\ todo'[a] \subseteq todo[a] /\ todo[a] # {}
    BY <1>5 DEF CallJoin, TypeInv, TypeOK
  <2> QED
    BY <2>1, CoreQuiet DEF Early
<1>6. CASE JoinLock(a)
  BY <1>6, CoreQuiet DEF JoinLock, TypeInv, TypeOK, Early
<1>7. CASE JoinResumed(a)
  BY <1>7, CoreQuiet DEF JoinResumed, TypeInv, TypeOK
<1>8. CASE JoinEnlistRaw(a)
  BY <1>8, CoreQuiet DEF JoinEnlistRaw, TypeInv, TypeOK
<1>9. CASE JoinFinished(a)
  BY <1>9, CoreQuiet DEF JoinFinished, TypeInv, TypeOK
<1>10. CASE SemaTake(a)
  BY <1>10, CoreQuiet DEF SemaTake, TypeInv, TypeOK
<1>11. CASE SemaTakeFail(a)
  BY <1>11, CoreQuiet DEF SemaTakeFail, TypeInv, TypeOK
<1>12. CASE FutexWait(a)
  BY <1>12, CoreQuiet DEF FutexWait, TypeInv, TypeOK
<1>13. CASE ReturnFromRoutine(a)
  BY <1>13, CoreQuiet DEF ReturnFromRoutine, TypeInv, TypeOK
<1>14. CASE CallExit(a)
  BY <1>14, CoreQuiet DEF CallExit, TypeInv, TypeOK
<1>15. CASE ExitLock(a)
  BY <1>15, CoreQuiet DEF ExitLock, TypeInv, TypeOK
<1>16. CASE ExitSet(a)
  BY <1>16, CoreQuiet DEF ExitSet, TypeInv, TypeOK
<1> QED
  BY <1>1, <1>2, <1>3, <1>4, <1>5, <1>6, <1>7, <1>8, <1>9, <1>10, <1>11, <1>12,
     <1>13, <1>14, <1>15, <1>16 DEF ActorStep

-----------------------------------------------------------------------------
(***************************************************************************)
(* The counts.                                                             *)
(***************************************************************************)

\* A vthread that has finished stays so, and only FinishPublish finishes one.
LEMMA ActorFinishes ==
  ASSUME TypeInv, EndInv, NEW a \in Actors, ActorStep(a)
  PROVE  \A v \in VThreads : Finished(v)' <=> Finished(v)
<1>1. CASE JoinEnlist(a)
  <2>1. a \in VThreads /\ pc[a] = "j_look" /\ cur_status' = [cur_status EXCEPT ![a] = "BLOCKED"]
    BY <1>1 DEF JoinEnlist, At
  <2> QED
    BY <2>1, NotFinished DEF Finished, TypeInv, TypeOK, SchedTypeOK
<1>2. CASE ~JoinEnlist(a)
  <2>1. cur_status' = cur_status
    BY <1>2 DEF ActorStep, CallJoin, JoinLock, JoinLockFail, JoinYield, JoinResumed,
         JoinEnlistRaw, JoinFinished, SemaTake, SemaTakeFail, FutexWait,
         ReturnFromRoutine, CallExit, ExitLock, ExitLockFail, ExitSet, End, schedVars
  <2> QED
    BY <2>1 DEF Finished
<1> QED
  BY <1>1, <1>2

\* No two raw threads wait for the same vthread.
LEMMA OneRaw ==
  ASSUME Simple, TypeInv, TargetInv, NEW a \in RawThreads, NEW b \in RawThreads,
         target[a] # None, target[a] = target[b]
  PROVE  a = b
<1>1. target[a] \in Joins[a] /\ target[b] \in Joins[b]
  BY DEF TargetInv, Actors
<1> QED
  BY <1>1 DEF Simple

\* A step of an actor that neither adds a waiter nor takes a post.
LEMMA CountKept ==
  ASSUME NEW v \in VThreads, CountOK(v), UNCHANGED <<fpc, pvth, waiters, head>>,
         fut'[v] = fut[v], join_waiters_num'[v] = join_waiters_num[v],
         join_wait_queue'[v] = join_wait_queue[v],
         RawWaits(v)' <=> RawWaits(v), Finished(v)' <=> Finished(v)
  PROVE  CountOK(v)' /\ \A w \in Workers : FinishCountOK(w, v) => FinishCountOK(w, v)'
<1>1. Unit(RawWaits(v))' = Unit(RawWaits(v))
  BY DEF Unit
<1>2. Unit(RawWaits(v) /\ fut[v] = 0)' = Unit(RawWaits(v) /\ fut[v] = 0)
  BY DEF Unit
<1> QED
  BY <1>1, <1>2 DEF CountOK, FinishCountOK

\* A step of an actor keeps the counts.
LEMMA CountActor ==
  ASSUME Simple, TypeInv, TargetInv, EndInv, CountInv, NEW a \in Actors, ActorStep(a)
  PROVE  CountInv'
<1>0. \A v \in VThreads : Finished(v)' <=> Finished(v)
  BY ActorFinishes
<1>f. UNCHANGED <<fpc, waiters, head, pvth>>
  BY DEF ActorStep, CallJoin, JoinLock, JoinLockFail, JoinEnlist, JoinYield, JoinResumed,
         JoinEnlistRaw, JoinFinished, SemaTake, SemaTakeFail, FutexWait, YieldMyself,
         ReturnFromRoutine, CallExit, ExitLock, ExitLockFail, ExitSet, End, schedVars,
         finishVars, workerVars
<1>1. CASE JoinEnlistRaw(a)
  <2>1. PICK t \in VThreads : t = target[a]
    BY <1>1 DEF JoinEnlistRaw, At, TypeInv, TypeOK, ControlOK, JoinPCs
  <2>2. /\ a \in RawThreads /\ pc[a] = "j_look" /\ ~Finished(t) /\ target' = target
        /\ pc'[a] = "j_wait" /\ \A b \in Actors \ {a} : pc'[b] = pc[b]
        /\ join_waiters_num'[t] = join_waiters_num[t] + 1
        /\ \A v \in VThreads \ {t} : join_waiters_num'[v] = join_waiters_num[v]
        /\ UNCHANGED <<fut, join_wait_queue>>
    BY <1>1, <2>1 DEF JoinEnlistRaw, At, Move, Finished, TypeInv, TypeOK
  <2>3. ~RawWaits(t) /\ RawWaits(t)'
    BY <2>1, <2>2, OneRaw, ActorsAssumption DEF RawWaits, Actors
  <2>4. \A v \in VThreads \ {t} : RawWaits(v)' <=> RawWaits(v)
    BY <2>1, <2>2 DEF RawWaits, Actors
  <2>5. CountOK(t)'
    <3>1. CountOK(t) /\ ~Finished(t)'
      BY <1>0, <2>2 DEF CountInv
    <3>2. Len(join_wait_queue[t]) \in Nat
      BY DEF TypeInv, TypeOK
    <3> QED
      BY <2>2, <2>3, <3>1, <3>2 DEF CountOK, Unit
  <2>6. \A w \in Workers : FinishCountOK(w, t)'
    BY <1>f, <2>2 DEF FinishCountOK, EndInv, TypeInv, ControlOK, Ending
  <2>7. \A v \in VThreads \ {t} : CountOK(v)' /\ \A w \in Workers : FinishCountOK(w, v)'
    BY <1>0, <1>f, <2>2, <2>4, CountKept DEF CountInv
  <2> QED
    BY <2>5, <2>6, <2>7 DEF CountInv
<1>2. CASE JoinEnlist(a)
  <2>1. PICK t \in VThreads : t = target[a]
    BY <1>2 DEF JoinEnlist, At, TypeInv, TypeOK, ControlOK, JoinPCs
  <2>2. /\ a \in VThreads /\ pc[a] = "j_look" /\ ~Finished(t) /\ target' = target
        /\ pc'[a] = "j_yield" /\ \A b \in Actors \ {a} : pc'[b] = pc[b]
        /\ join_waiters_num'[t] = join_waiters_num[t] + 1
        /\ \A v \in VThreads \ {t} : join_waiters_num'[v] = join_waiters_num[v]
        /\ join_wait_queue'[t] = <<a>> \o join_wait_queue[t]
        /\ \A v \in VThreads \ {t} : join_wait_queue'[v] = join_wait_queue[v]
        /\ UNCHANGED fut
    BY <1>2, <2>1 DEF JoinEnlist, At, Move, Finished, TypeInv, TypeOK
  <2>3. \A v \in VThreads : RawWaits(v)' <=> RawWaits(v)
    BY <2>2, ActorsAssumption DEF RawWaits, Actors
  <2>4. join_wait_queue[t] \in Seq(VThreads)
    BY DEF TypeInv, TypeOK
  <2>5. Len(join_wait_queue'[t]) = Len(join_wait_queue[t]) + 1
    BY <2>2, <2>4
  <2>6. CountOK(t)'
    <3>1. CountOK(t) /\ ~Finished(t)'
      BY <1>0, <2>2 DEF CountInv
    <3>2. Len(join_wait_queue[t]) \in Nat
      BY <2>4
    <3>3. Unit(RawWaits(t))' = Unit(RawWaits(t)) /\ Unit(RawWaits(t)) \in Nat
      BY <2>3 DEF Unit
    <3> QED
      BY <2>2, <2>5, <3>1, <3>2, <3>3 DEF CountOK
  <2>7. \A w \in Workers : FinishCountOK(w, t)'
    BY <1>f, <2>2 DEF FinishCountOK, EndInv, TypeInv, ControlOK, Ending
  <2>8. \A v \in VThreads \ {t} : CountOK(v)' /\ \A w \in Workers : FinishCountOK(w, v)'
    BY <1>0, <1>f, <2>2, <2>3, CountKept DEF CountInv
  <2> QED
    BY <2>6, <2>7, <2>8 DEF CountInv
<1>3. CASE SemaTake(a)
  <2>1. PICK t \in VThreads : t = target[a]
    BY <1>3 DEF SemaTake, At, TypeInv, TypeOK, ControlOK, JoinPCs
  <2>2. /\ a \in RawThreads /\ pc[a] = "j_wait" /\ fut[t] = 1 /\ fut'[t] = 0
        /\ \A v \in VThreads \ {t} : fut'[v] = fut[v]
        /\ pc'[a] = "ready" /\ \A b \in Actors \ {a} : pc'[b] = pc[b] /\ target'[b] = target[b]
        /\ UNCHANGED <<join_waiters_num, join_wait_queue>>
    BY <1>3, <2>1 DEF SemaTake, At, Move, Return, TypeInv, TypeOK, ControlOK
  <2>3. Finished(t) /\ Finished(t)'
    BY <1>0, <2>2 DEF CountInv, CountOK
  <2>4. ~RawWaits(t)'
    <3>1. \A b \in RawThreads : target[b] = t => b = a
      BY <2>1, <2>2, OneRaw, ActorsAssumption
    <3> QED
      BY <2>2, <3>1 DEF RawWaits, Actors
  <2>5. \A v \in VThreads \ {t} : RawWaits(v)' <=> RawWaits(v)
    BY <2>1, <2>2 DEF RawWaits, Actors
  <2>6. CountOK(t)'
    BY <2>3, <2>4 DEF CountOK
  <2>7. \A w \in Workers : FinishCountOK(w, t)'
    <3> TAKE w \in Workers
    <3>1. FinishCountOK(w, t)
      BY DEF CountInv
    <3>2. Unit(RawWaits(t) /\ fut[t] = 0) = 0 /\ Unit(RawWaits(t) /\ fut[t] = 0)' = 0
      BY <2>2, <2>4 DEF Unit
    <3> QED
      BY <1>f, <3>1, <3>2 DEF FinishCountOK
  <2>8. \A v \in VThreads \ {t} : CountOK(v)' /\ \A w \in Workers : FinishCountOK(w, v)'
    BY <1>0, <1>f, <2>2, <2>5, CountKept DEF CountInv
  <2> QED
    BY <2>6, <2>7, <2>8 DEF CountInv
<1>4. CASE ~(JoinEnlistRaw(a) \/ JoinEnlist(a) \/ SemaTake(a))
  <2> USE DEF At, Move, Return, schedVars, workerVars, finishVars, joinVars
  <2>1. UNCHANGED <<fut, join_waiters_num, join_wait_queue>>
    BY <1>4 DEF ActorStep, CallJoin, JoinLock, JoinLockFail, JoinYield, JoinResumed,
         JoinFinished, SemaTakeFail, FutexWait, ReturnFromRoutine, CallExit, ExitLock,
         ExitLockFail, ExitSet, End
  <2>2. \A b \in Actors : \/ pc'[b] = pc[b] /\ target'[b] = target[b]
                          \/ /\ pc[b] \in {"j_wait", "j_futex"}
                             /\ pc'[b] \in {"j_wait", "j_futex", "j_sleep"}
                             /\ target'[b] = target[b]
                          \/ {pc[b], pc'[b]} \cap {"j_wait", "j_futex", "j_sleep"} = {}
    BY <1>4 DEF ActorStep, CallJoin, JoinLock, JoinLockFail, JoinYield, JoinResumed,
         JoinFinished, SemaTakeFail, FutexWait, ReturnFromRoutine, CallExit, ExitLock,
         ExitLockFail, ExitSet, End, TypeInv, TypeOK
  <2>3. \A v \in VThreads : RawWaits(v)' <=> RawWaits(v)
    BY <2>2 DEF RawWaits, Actors
  <2> QED
    BY <1>0, <1>f, <2>1, <2>3, CountKept DEF CountInv
<1> QED
  BY <1>1, <1>2, <1>3, <1>4

\* A step of the loop keeps the counts: its worker is not in wake_up_joined.
LEMMA CountLoop ==
  ASSUME TypeInv, CountInv, NEW w \in Workers, LoopStep(w),
         UNCHANGED <<joinVars, finishVars>>
  PROVE  CountInv'
<1>1. /\ UNCHANGED <<cur_status, join_waiters_num, join_wait_queue, fut, pc, target,
                     fpc, waiters, head>>
      /\ \A x \in Workers \ {w} : pvth'[x] = pvth[x]
      /\ fpc[w] = "no"
  BY LoopShape
<1>2. \A v \in VThreads : /\ RawWaits(v)' <=> RawWaits(v)
                          /\ Finished(v)' <=> Finished(v)
                          /\ Unit(RawWaits(v))' = Unit(RawWaits(v))
                          /\ Unit(RawWaits(v) /\ fut[v] = 0)' = Unit(RawWaits(v) /\ fut[v] = 0)
  BY <1>1 DEF RawWaits, Finished, Unit
<1>3. ASSUME NEW v \in VThreads PROVE CountOK(v)'
  <2>1. CountOK(v)
    BY DEF CountInv
  <2>2. (\E x \in Workers : pvth[x] = v /\ fpc[x] # "no")
          => \E x \in Workers : pvth'[x] = v /\ fpc'[x] # "no"
    BY <1>1
  <2> QED
    BY <1>1, <1>2, <2>1, <2>2 DEF CountOK
<1>4. ASSUME NEW x \in Workers, NEW v \in VThreads PROVE FinishCountOK(x, v)'
  <2>1. FinishCountOK(x, v)
    BY DEF CountInv
  <2> QED
    BY <1>1, <1>2, <2>1 DEF FinishCountOK
<1> QED
  BY <1>3, <1>4 DEF CountInv

\* The worker w ends v, and no other worker does.
LEMMA EndsAlone ==
  ASSUME TypeInv, EndInv, NEW w \in Workers, FinishStep(w)
  PROVE  \E v \in VThreads : /\ pvth[w] = v /\ Ending(w)
                             /\ Finished(v) <=> fpc[w] \in {"walk", "enq", "post", "wake"}
                             /\ \A x \in Workers \ {w} : fpc[x] # "no" => pvth[x] # v
<1>1. Ending(w) /\ pvth[w] \in VThreads
  BY DEF FinishStep, FinishLock, FinishPublish, FinishMark, FinishEnqueue, FinishWalked,
         FinishPost, FutexWake, FinishDone, FinishAt, WorkerAt, Ending, TypeInv, TypeOK,
         SchedTypeOK, ControlOK
<1>2. Finished(pvth[w]) <=> fpc[w] \in {"walk", "enq", "post", "wake"}
  BY <1>1 DEF EndInv
<1>3. \A x \in Workers \ {w} : fpc[x] # "no" => pvth[x] # pvth[w]
  BY <1>1 DEF EndInv, TypeInv, ControlOK, Ending
<1> QED
  BY <1>1, <1>2, <1>3

\* What a step of wake_up_joined for v leaves alone keeps the counts of the
\* other vthreads.
LEMMA CountOthers ==
  ASSUME CountInv, NEW w \in Workers, NEW v \in VThreads, pvth[w] = v,
         pvth'[w] \in {v, None},
         \A x \in Workers \ {w} : /\ pvth'[x] = pvth[x] /\ fpc'[x] = fpc[x]
                                  /\ waiters'[x] = waiters[x] /\ head'[x] = head[x],
         \A u \in VThreads \ {v} : /\ fut'[u] = fut[u] /\ (Finished(u)' <=> Finished(u))
                                   /\ join_waiters_num'[u] = join_waiters_num[u]
                                   /\ join_wait_queue'[u] = join_wait_queue[u]
                                   /\ RawWaits(u)' <=> RawWaits(u)
  PROVE  \A u \in VThreads \ {v} : CountOK(u)' /\ \A x \in Workers : FinishCountOK(x, u)'
<1> TAKE u \in VThreads \ {v}
<1>0. u \in VThreads /\ u # v
  OBVIOUS
<1>1. CountOK(u) /\ \A x \in Workers : FinishCountOK(x, u)
  BY <1>0 DEF CountInv
<1>2. Unit(RawWaits(u))' = Unit(RawWaits(u))
      /\ Unit(RawWaits(u) /\ fut[u] = 0)' = Unit(RawWaits(u) /\ fut[u] = 0)
  BY <1>0 DEF Unit
<1>3. pvth'[w] # u
  BY <1>0, ActorsAssumption
<1>4. Finished(u)' <=> Finished(u)
  BY <1>0 DEF Finished
<1>5. CountOK(u)'
  <2>1. (\E x \in Workers : pvth[x] = u /\ fpc[x] # "no")
          => \E x \in Workers : pvth'[x] = u /\ fpc'[x] # "no"
    BY <1>0
  <2> QED
    BY <1>0, <1>1, <1>2, <1>4, <2>1 DEF CountOK
<1>6. \A x \in Workers : FinishCountOK(x, u)'
  BY <1>0, <1>1, <1>2, <1>3 DEF FinishCountOK
<1> QED
  BY <1>5, <1>6

\* Only FinishPublish finishes a vthread: FinishMark is about one that waits.
LEMMA WalkFinishes ==
  ASSUME TypeInv, EndInv, ListInv, NEW w \in Workers, FinishStep(w), ~FinishPublish(w)
  PROVE  \A v \in VThreads : Finished(v)' <=> Finished(v)
<1> USE DEF FinishAt, FinishGoto, WorkerAt, schedVars, joinVars, workerVars
<1>1. CASE FinishMark(w)
  <2>1. PICK a \in VThreads : a = head[w][1] /\ ToWake(w, a)
    <3>1. head[w] \in Seq(VThreads) /\ head[w] # <<>> /\ fpc[w] = "walk"
      BY <1>1 DEF FinishMark, TypeInv, TypeOK
    <3>2. 1 \in DOMAIN head[w] /\ head[w][1] \in VThreads
      BY <3>1
    <3> QED
      BY <3>1, <3>2 DEF ToWake
  <2>2. pc[a] = "j_blocked" /\ Head(head[w]) = a
    BY <2>1 DEF ListInv
  <2>3. ~Finished(a)
    BY <2>2, NotFinished
  <2> QED
    BY <1>1, <2>2, <2>3 DEF FinishMark, Finished, TypeInv, TypeOK, SchedTypeOK
<1>2. CASE ~FinishMark(w)
  BY <1>2 DEF FinishStep, FinishLock, FinishEnqueue, FinishWalked,
         FinishPost, FutexWake, FinishDone, Finished
<1> QED
  BY <1>1, <1>2

\* FinishPublish takes the count over.
LEMMA CountPublish ==
  ASSUME TypeInv, EndInv, CountInv, NEW w \in Workers, FinishPublish(w)
  PROVE  CountInv'
<1>1. PICK v \in VThreads : /\ pvth[w] = v
                            /\ Finished(v) <=> fpc[w] \in {"walk", "enq", "post", "wake"}
                            /\ \A x \in Workers \ {w} : fpc[x] # "no" => pvth[x] # v
  BY EndsAlone DEF FinishStep
<1>2. /\ fpc[w] = "locked" /\ fpc'[w] = "walk" /\ UNCHANGED <<pvth, fut, pc, target>>
      /\ waiters'[w] = join_waiters_num[v] /\ head'[w] = join_wait_queue[v]
      /\ \A x \in Workers \ {w} : fpc'[x] = fpc[x] /\ waiters'[x] = waiters[x] /\ head'[x] = head[x]
      /\ cur_status'[v] = "FINISHED"
      /\ \A u \in VThreads \ {v} : /\ cur_status'[u] = cur_status[u]
                                   /\ join_waiters_num'[u] = join_waiters_num[u]
                                   /\ join_wait_queue'[u] = join_wait_queue[u]
  BY <1>1 DEF FinishPublish, FinishAt, FinishGoto, workerVars, TypeInv, TypeOK, SchedTypeOK
<1>3. \A u \in VThreads : RawWaits(u)' <=> RawWaits(u)
  BY <1>2 DEF RawWaits
<1>4. /\ ~Finished(v) /\ Finished(v)'
      /\ \A u \in VThreads \ {v} : Finished(u)' <=> Finished(u)
  BY <1>1, <1>2 DEF Finished
<1>5. \A u \in VThreads \ {v} : CountOK(u)' /\ \A x \in Workers : FinishCountOK(x, u)'
  BY <1>1, <1>2, <1>3, <1>4, CountOthers
<1>6. CountOK(v)'
  BY <1>1, <1>2, <1>4 DEF CountOK
<1>7. ASSUME NEW x \in Workers PROVE FinishCountOK(x, v)'
  <2>1. fut[v] = 0 /\ join_waiters_num[v] = Len(join_wait_queue[v]) + Unit(RawWaits(v))
    BY <1>4 DEF CountInv, CountOK
  <2>2. Unit(RawWaits(v) /\ fut[v] = 0)' = Unit(RawWaits(v))
    BY <1>2, <1>3, <2>1 DEF Unit
  <2> QED
    BY <1>1, <1>2, <2>1, <2>2 DEF FinishCountOK
<1> QED
  BY <1>5, <1>6, <1>7 DEF CountInv

\* So do the steps that leave fut and the raw threads alone.
LEMMA CountWalk ==
  ASSUME TypeInv, EndInv, ListInv, CountInv, NEW w \in Workers, FinishStep(w),
         ~FinishPublish(w), ~FinishPost(w), ~FutexWake(w)
  PROVE  CountInv'
<1> USE DEF FinishAt, FinishGoto, WorkerAt, schedVars, joinVars, workerVars
<1>1. PICK v \in VThreads : /\ pvth[w] = v
                            /\ Finished(v) <=> fpc[w] \in {"walk", "enq", "post", "wake"}
                            /\ \A x \in Workers \ {w} : fpc[x] # "no" => pvth[x] # v
  BY EndsAlone
<1>2. /\ pvth'[w] \in {v, None} /\ UNCHANGED <<fut, pc, target, join_waiters_num, join_wait_queue>>
      /\ \A x \in Workers \ {w} : /\ pvth'[x] = pvth[x] /\ fpc'[x] = fpc[x]
                                  /\ waiters'[x] = waiters[x] /\ head'[x] = head[x]
  BY <1>1 DEF FinishStep, FinishLock, FinishMark, FinishEnqueue, FinishWalked, FinishDone,
         ToLoop, TypeInv, TypeOK, SchedTypeOK
<1>3. \A u \in VThreads : RawWaits(u)' <=> RawWaits(u)
  BY <1>2 DEF RawWaits
<1>4. \A u \in VThreads : Finished(u)' <=> Finished(u)
  BY WalkFinishes
<1>5. \A u \in VThreads \ {v} : CountOK(u)' /\ \A x \in Workers : FinishCountOK(x, u)'
  BY <1>1, <1>2, <1>3, <1>4, CountOthers
<1>6. /\ CountOK(v) /\ FinishCountOK(w, v)
      /\ Unit(RawWaits(v))' = Unit(RawWaits(v))
      /\ Unit(RawWaits(v) /\ fut[v] = 0)' = Unit(RawWaits(v) /\ fut[v] = 0)
      /\ Unit(RawWaits(v) /\ fut[v] = 0) \in Nat
  BY <1>2, <1>3 DEF CountInv, Unit
<1>7. \A x \in Workers \ {w} : FinishCountOK(x, v)'
  BY <1>1, <1>2 DEF FinishCountOK
<1>8. CountOK(v)' /\ FinishCountOK(w, v)'
  <2>1. CASE FinishLock(w)
    BY <1>1, <1>2, <1>3, <1>4, <1>6, <2>1 DEF FinishLock, CountOK, FinishCountOK, TypeInv, TypeOK
  <2>2. CASE FinishMark(w)
    BY <1>1, <1>2, <1>3, <1>4, <1>6, <2>2 DEF FinishMark, CountOK, FinishCountOK, TypeInv, TypeOK
  <2>3. CASE FinishEnqueue(w)
    <3>1. head[w] \in Seq(VThreads) /\ head[w] # <<>> /\ waiters[w] \in Int
      BY <2>3 DEF FinishEnqueue, TypeInv, TypeOK, ControlOK
    <3>2. Len(Tail(head[w])) = Len(head[w]) - 1 /\ Len(head[w]) \in Nat
      BY <3>1
    <3>3. /\ fpc[w] = "enq" /\ fpc'[w] = "walk" /\ pvth'[w] = v
          /\ head'[w] = Tail(head[w]) /\ waiters'[w] = waiters[w] - 1
      BY <1>1, <2>3 DEF FinishEnqueue, TypeInv, TypeOK
    <3>4. FinishCountOK(w, v)'
      BY <1>1, <1>6, <3>2, <3>3 DEF FinishCountOK
    <3> QED
      BY <1>1, <1>2, <1>3, <1>4, <3>3, <3>4 DEF CountOK
  <2>4. CASE FinishWalked(w)
    BY <1>1, <1>2, <1>3, <1>4, <1>6, <2>4 DEF FinishWalked, CountOK, FinishCountOK, TypeInv, TypeOK
  <2>5. CASE FinishDone(w)
    <3>1. fpc[w] = "post" /\ waiters[w] = 0 /\ fpc'[w] = "no"
      BY <2>5 DEF FinishDone, TypeInv, TypeOK
    <3>2. head[w] = <<>>
      BY <3>1 DEF ListInv
    <3>3. RawWaits(v) => fut[v] = 1
      BY <1>1, <1>6, <3>1, <3>2 DEF FinishCountOK, Unit, TypeInv, TypeOK
    <3> QED
      BY <1>1, <1>2, <1>3, <1>4, <3>1, <3>3 DEF CountOK, FinishCountOK
  <2> QED
    BY <2>1, <2>2, <2>3, <2>4, <2>5 DEF FinishStep
<1> QED
  BY <1>5, <1>7, <1>8 DEF CountInv

\* So do a post of join_sem and the call that wakes the raw thread.
LEMMA CountPost ==
  ASSUME TypeInv, EndInv, ListInv, CountInv, NEW w \in Workers,
         FinishPost(w) \/ FutexWake(w)
  PROVE  CountInv'
<1> USE DEF FinishAt, FinishGoto, WorkerAt, schedVars
<1>1. PICK v \in VThreads : /\ pvth[w] = v
                            /\ Finished(v) <=> fpc[w] \in {"walk", "enq", "post", "wake"}
                            /\ \A x \in Workers \ {w} : fpc[x] # "no" => pvth[x] # v
  BY EndsAlone DEF FinishStep
<1>2. /\ fpc[w] \in {"post", "wake"} /\ fpc'[w] \in {"post", "wake"}
      /\ UNCHANGED <<pvth, cur_status, target, join_waiters_num, join_wait_queue, head>>
      /\ \A x \in Workers \ {w} : fpc'[x] = fpc[x] /\ waiters'[x] = waiters[x]
      /\ \A u \in VThreads \ {v} : fut'[u] = fut[u]
  BY <1>1 DEF FinishPost, FutexWake, TypeInv, TypeOK
<1>3. \A u \in VThreads : RawWaits(u)' <=> RawWaits(u)
  <2>1. \A a \in RawThreads : pc'[a] = pc[a] \/ (pc[a] = "j_sleep" /\ pc'[a] = "j_wait")
    BY DEF FinishPost, FutexWake, Sleepers, Move, Actors, TypeInv, TypeOK
  <2> QED
    BY <1>2, <2>1 DEF RawWaits
<1>4. \A u \in VThreads : Finished(u)' <=> Finished(u)
  BY <1>2 DEF Finished
<1>5. \A u \in VThreads \ {v} : CountOK(u)' /\ \A x \in Workers : FinishCountOK(x, u)'
  BY <1>1, <1>2, <1>3, <1>4, CountOthers
<1>6. CountOK(v)'
  BY <1>1, <1>2, <1>4 DEF CountOK
<1>7. \A x \in Workers \ {w} : FinishCountOK(x, v)'
  BY <1>1, <1>2 DEF FinishCountOK
<1>8. head[w] = <<>> /\ Len(head[w]) = 0
  BY <1>2 DEF ListInv
<1>9. waiters[w] = Unit(RawWaits(v) /\ fut[v] = 0)
  <2>1. FinishCountOK(w, v)
    BY DEF CountInv
  <2>2. Unit(RawWaits(v) /\ fut[v] = 0) \in Nat
    BY DEF Unit
  <2> QED
    BY <1>1, <1>2, <1>8, <2>1, <2>2 DEF FinishCountOK
<1>10. waiters'[w] = Unit(RawWaits(v) /\ fut[v] = 0)'
  <2>1. CASE FinishPost(w)
    <3>1. RawWaits(v) /\ fut[v] = 0 /\ waiters[w] = 1
      BY <1>9, <2>1 DEF FinishPost, Unit
    <3>2. fut'[v] = 1 /\ waiters'[w] = 0
      BY <1>1, <2>1, <3>1 DEF FinishPost, TypeInv, TypeOK
    <3> QED
      BY <3>2 DEF Unit
  <2>2. CASE FutexWake(w)
    <3>1. UNCHANGED <<fut, waiters>>
      BY <2>2 DEF FutexWake
    <3> QED
      BY <1>3, <1>9, <3>1 DEF Unit
  <2> QED
    BY <2>1, <2>2
<1>11. FinishCountOK(w, v)'
  <2>1. Len(head'[w]) = 0 /\ Unit(RawWaits(v) /\ fut[v] = 0)' \in Nat
    BY <1>2, <1>8 DEF Unit
  <2> QED
    BY <1>10, <2>1 DEF FinishCountOK
<1> QED
  BY <1>5, <1>6, <1>7, <1>11 DEF CountInv

\* A step of wake_up_joined keeps the counts.
LEMMA CountFinish ==
  ASSUME TypeInv, EndInv, ListInv, CountInv, NEW w \in Workers, FinishStep(w)
  PROVE  CountInv'
BY CountPublish, CountPost, CountWalk

-----------------------------------------------------------------------------
(***************************************************************************)
(* The results.                                                            *)
(***************************************************************************)

\* A step that returns from no join of a, and lets it wait for nothing new.
LEMMA ResultKept ==
  ASSUME NEW a \in Actors, ResultOK(a),
         target'[a] = target[a], todo'[a] = todo[a],
         pc'[a] \in WaitPCs => pc[a] \in WaitPCs,
         result[a] \subseteq result'[a],
         \A v \in VThreads : Finished(v)' <=> Finished(v),
         \A v \in VThreads : target[a] = v /\ Sole(a, v) => retval'[v] = retval[v],
         Joins[a] \subseteq VThreads
  PROVE  ResultOK(a)'
<1>1. Joined(a)' = Joined(a) /\ Joined(a) \subseteq VThreads
  BY DEF Joined
<1>2. \A v \in VThreads : Sole(a, v)' <=> Sole(a, v)
  BY DEF Sole
<1>3. \A v \in Joined(a)' : Finished(v)' /\ (Sole(a, v)' => v \in result'[a])
  BY <1>1, <1>2 DEF ResultOK
<1>4. \A v \in VThreads :
        pc'[a] \in WaitPCs /\ target'[a] = v /\ Sole(a, v)' =>
          IF Finished(v)' THEN v \in result'[a] ELSE retval'[v] = a
  BY <1>2 DEF ResultOK
<1> QED
  BY <1>3, <1>4 DEF ResultOK, WaitPCs, JoinPCs

\* A step of wake_up_joined hands the result to the joiner retval names.
LEMMA ResultFinish ==
  ASSUME TypeInv, TargetInv, EndInv, ListInv, ResultInv, NEW w \in Workers, FinishStep(w)
  PROVE  ResultInv'
<1> USE DEF FinishAt, FinishGoto, WorkerAt
<1>0. \A a \in Actors : Joins[a] \subseteq VThreads
  BY JoinAssumption
<1>1. CASE ~FinishPublish(w)
  <2>1. UNCHANGED <<target, todo, result, retval>>
    BY <1>1 DEF FinishStep, FinishLock, FinishMark, FinishEnqueue, FinishWalked, FinishPost,
           FutexWake, FinishDone, joinVars
  <2>2. \A a \in Actors : pc'[a] \in WaitPCs => pc[a] \in WaitPCs
    BY <1>1 DEF FinishStep, FinishLock, FinishMark, FinishEnqueue, FinishWalked, FinishPost,
           FutexWake, FinishDone, joinVars, Sleepers, Move, WaitPCs, JoinPCs, TypeInv, TypeOK
  <2>3. \A v \in VThreads : Finished(v)' <=> Finished(v)
    BY <1>1, WalkFinishes
  <2> QED
    BY <1>0, <2>1, <2>2, <2>3, ResultKept DEF ResultInv
<1>2. CASE FinishPublish(w)
  <2>1. PICK v \in VThreads : /\ pvth[w] = v /\ Ending(w)
                              /\ Finished(v) <=> fpc[w] \in {"walk", "enq", "post", "wake"}
    BY EndsAlone
  <2>2. routine_ret[v]
    BY <2>1 DEF EndInv
  <2>3. /\ UNCHANGED <<pc, target, todo, retval>>
        /\ cur_status'[v] = "FINISHED"
        /\ \A u \in VThreads \ {v} : cur_status'[u] = cur_status[u]
        /\ \A a \in Actors : result[a] \subseteq result'[a] /\ (retval[v] = a => v \in result'[a])
    BY <1>2, <2>1, <2>2 DEF FinishPublish, TypeInv, TypeOK, SchedTypeOK
  <2>4. ~Finished(v) /\ \A u \in VThreads : Finished(u)' <=> Finished(u) \/ u = v
    BY <1>2, <2>1, <2>3 DEF FinishPublish, Finished
  <2>5. ASSUME NEW a \in Actors PROVE ResultOK(a)'
    <3>0. ResultOK(a)
      BY DEF ResultInv
    <3>1. Joined(a)' = Joined(a) /\ Joined(a) \subseteq VThreads
      BY <1>0, <2>3 DEF Joined
    <3>2. \A u \in VThreads : Sole(a, u)' <=> Sole(a, u)
      BY DEF Sole
    <3>3. \A u \in Joined(a)' : Finished(u)' /\ (Sole(a, u)' => u \in result'[a])
      BY <2>3, <2>4, <3>0, <3>1, <3>2 DEF ResultOK
    <3>4. \A u \in VThreads :
            pc'[a] \in WaitPCs /\ target'[a] = u /\ Sole(a, u)' =>
              IF Finished(u)' THEN u \in result'[a] ELSE retval'[u] = a
      BY <2>3, <2>4, <3>0, <3>2 DEF ResultOK
    <3> QED
      BY <3>3, <3>4 DEF ResultOK, WaitPCs, JoinPCs
  <2> QED
    BY <2>5 DEF ResultInv
<1> QED
  BY <1>1, <1>2

\* A return from the join of t, which has finished and handed over its result.
LEMMA ResultReturn ==
  ASSUME TypeInv, TargetInv, NEW a \in Actors, NEW t \in VThreads, target[a] = t,
         ResultOK(a), target'[a] = None, todo'[a] = todo[a], pc'[a] = "ready",
         result[a] \subseteq result'[a], Finished(t), Sole(a, t) => t \in result'[a],
         \A v \in VThreads : Finished(v)' <=> Finished(v)
  PROVE  ResultOK(a)'
<1>1. Joined(a)' = Joined(a) \cup {t} /\ Joined(a) \subseteq VThreads
  BY JoinAssumption, ActorsAssumption DEF Joined, TargetInv
<1>2. \A v \in VThreads : Sole(a, v)' <=> Sole(a, v)
  BY DEF Sole
<1>3. \A v \in Joined(a)' : Finished(v)' /\ (Sole(a, v)' => v \in result'[a])
  BY <1>1, <1>2 DEF ResultOK
<1>4. pc'[a] \notin WaitPCs
  BY DEF WaitPCs, JoinPCs
<1> QED
  BY <1>3, <1>4 DEF ResultOK, WaitPCs, JoinPCs

\* A step of an actor keeps the results: it returns from a join only after its
\* target has finished and, when it alone joins it, handed over its result.
LEMMA ResultActor ==
  ASSUME TypeInv, TargetInv, EndInv, CoreInv, CountInv, ResultInv,
         NEW a \in Actors, ActorStep(a)
  PROVE  ResultInv'
<1>0. /\ \A b \in Actors : Joins[b] \subseteq VThreads
      /\ \A b \in Actors : ResultOK(b)
  BY JoinAssumption DEF ResultInv
<1>1. \A v \in VThreads : Finished(v)' <=> Finished(v)
  BY ActorFinishes
<1>2. ASSUME NEW b \in Actors \ {a} PROVE ResultOK(b)'
  <2>1. /\ b \in Actors /\ pc'[b] = pc[b] /\ target'[b] = target[b]
        /\ todo'[b] = todo[b] /\ result'[b] = result[b]
    BY DEF ActorStep, CallJoin, JoinLock, JoinLockFail, JoinEnlist, JoinYield, JoinResumed,
           JoinEnlistRaw, JoinFinished, SemaTake, SemaTakeFail, FutexWait,
           ReturnFromRoutine, CallExit, ExitLock, ExitLockFail, ExitSet, End, Move, Return,
           joinVars, TypeInv, TypeOK
  <2>2. \A v \in VThreads : retval'[v] = retval[v] \/ v = target[a]
    BY DEF ActorStep, CallJoin, JoinLock, JoinLockFail, JoinEnlist, JoinYield, JoinResumed,
           JoinEnlistRaw, JoinFinished, SemaTake, SemaTakeFail, FutexWait,
           ReturnFromRoutine, CallExit, ExitLock, ExitLockFail, ExitSet, End,
           joinVars, TypeInv, TypeOK
  <2>3. \A v \in VThreads : v = target[a] => ~Sole(b, v)
    BY <2>1, ActorsAssumption DEF Sole, TargetInv
  <2> QED
    BY <1>0, <1>1, <2>1, <2>2, <2>3, ResultKept
<1>3. ASSUME NEW t \in VThreads, JoinEnlist(a) \/ JoinEnlistRaw(a), target[a] = t
      PROVE  ResultOK(a)'
  <2>1. /\ UNCHANGED <<target, todo, result>> /\ retval'[t] = a /\ ~Finished(t)
    BY <1>3 DEF JoinEnlist, JoinEnlistRaw, Finished, TypeInv, TypeOK
  <2>2. Joined(a)' = Joined(a) /\ Joined(a) \subseteq VThreads
    BY <1>0, <2>1 DEF Joined
  <2>3. \A v \in VThreads : Sole(a, v)' <=> Sole(a, v)
    BY DEF Sole
  <2>4. \A v \in Joined(a)' : Finished(v)' /\ (Sole(a, v)' => v \in result'[a])
    BY <1>0, <1>1, <2>1, <2>2, <2>3 DEF ResultOK
  <2>5. ~Finished(t)' /\ target'[a] = t
    BY <1>1, <1>3, <2>1
  <2> QED
    BY <2>1, <2>4, <2>5 DEF ResultOK, WaitPCs, JoinPCs
<1>4. ASSUME NEW v \in VThreads, CallJoin(a, v)
      PROVE  ResultOK(a)'
  <2>1. /\ pc[a] = "ready" /\ pc'[a] = "j_lock" /\ v \in todo[a] /\ target[a] = None
        /\ target'[a] = v /\ todo'[a] = todo[a] \ {v} /\ result' = result
    BY <1>4 DEF CallJoin, At, Move, TypeInv, TypeOK, ControlOK, JoinPCs
  <2>2. Joined(a)' = Joined(a) /\ Joined(a) \subseteq VThreads
    BY <1>0, <2>1, ActorsAssumption DEF Joined, TargetInv
  <2>3. \A u \in VThreads : Sole(a, u)' <=> Sole(a, u)
    BY DEF Sole
  <2>4. \A u \in Joined(a)' : Finished(u)' /\ (Sole(a, u)' => u \in result'[a])
    BY <1>0, <1>1, <2>1, <2>2, <2>3 DEF ResultOK
  <2>5. pc'[a] \notin WaitPCs
    BY <2>1 DEF WaitPCs, JoinPCs
  <2> QED
    BY <2>4, <2>5 DEF ResultOK, WaitPCs, JoinPCs
<1>5. ASSUME NEW t \in VThreads, target[a] = t, JoinResumed(a) \/ JoinFinished(a) \/ SemaTake(a)
      PROVE  ResultOK(a)'
  <2>1. /\ target'[a] = None /\ todo'[a] = todo[a] /\ pc'[a] = "ready"
        /\ result[a] \subseteq result'[a]
    BY <1>5 DEF JoinResumed, JoinFinished, SemaTake, Return, Move, TypeInv, TypeOK
  <2>2. Finished(t) /\ (Sole(a, t) => t \in result'[a])
    <3>1. CASE JoinResumed(a)
      <4>1. a \in VThreads /\ pc[a] = "j_blocked" /\ Executing(a) /\ result' = result
        BY <3>1 DEF JoinResumed, At, TypeInv, ControlOK
      <4>2. Finished(t)
        BY <1>5, <4>1, ExecutingAwake DEF CoreInv, ListInv
      <4> QED
        BY <1>0, <1>5, <4>1, <4>2 DEF ResultOK, WaitPCs, JoinPCs
    <3>2. CASE JoinFinished(a)
      <4>1. Finished(t)
        BY <1>5, <3>2 DEF JoinFinished, Finished
      <4>2. routine_ret[t]
        BY <4>1 DEF EndInv
      <4> QED
        BY <1>5, <3>2, <4>1, <4>2 DEF JoinFinished, TypeInv, TypeOK
    <3>3. CASE SemaTake(a)
      <4>1. fut[t] = 1 /\ pc[a] = "j_wait" /\ result' = result
        BY <1>5, <3>3 DEF SemaTake, At
      <4>2. Finished(t)
        BY <4>1 DEF CountInv, CountOK
      <4> QED
        BY <1>0, <1>5, <4>1, <4>2 DEF ResultOK, WaitPCs, JoinPCs
    <3> QED
      BY <1>5, <3>1, <3>2, <3>3
  <2> QED
    BY <1>0, <1>1, <1>5, <2>1, <2>2, ResultReturn
<1>6. ASSUME JoinEnlist(a) \/ JoinEnlistRaw(a) \/ JoinResumed(a) \/ JoinFinished(a) \/ SemaTake(a)
      PROVE  ResultOK(a)'
  <2>1. target[a] \in VThreads
    BY <1>6 DEF JoinEnlist, JoinEnlistRaw, JoinResumed, JoinFinished, SemaTake, At, TypeInv,
                TypeOK, ControlOK, JoinPCs
  <2> QED
    BY <1>3, <1>5, <1>6, <2>1
<1>7. ASSUME ~(\/ JoinEnlist(a) \/ JoinEnlistRaw(a) \/ JoinResumed(a) \/ JoinFinished(a)
               \/ SemaTake(a) \/ \E v \in VThreads : CallJoin(a, v))
      PROVE  ResultOK(a)'
  <2>1. UNCHANGED <<target, todo, result, retval>>
    BY <1>7 DEF ActorStep, JoinLock, JoinLockFail, JoinYield, SemaTakeFail, FutexWait,
           ReturnFromRoutine, CallExit, ExitLock, ExitLockFail, ExitSet, End, joinVars
  <2>2. pc'[a] \in WaitPCs => pc[a] \in WaitPCs
    BY <1>7 DEF ActorStep, JoinLock, JoinLockFail, JoinYield, SemaTakeFail, FutexWait,
           ReturnFromRoutine, CallExit, ExitLock, ExitLockFail, ExitSet, End, joinVars,
           At, Move, WaitPCs, JoinPCs, TypeInv, TypeOK
  <2> QED
    BY <1>0, <1>1, <2>1, <2>2, ResultKept
<1>8. ResultOK(a)'
  BY <1>4, <1>6, <1>7 DEF ActorStep
<1> QED
  BY <1>2, <1>8 DEF ResultInv

-----------------------------------------------------------------------------
(***************************************************************************)
(* The theorem.                                                            *)
(***************************************************************************)

\* The invariant holds initially: nothing has been joined, and every vthread is
\* in vs_queue once.
LEMMA JoinInit == Init => JoinIInv
<1> SUFFICES ASSUME Init PROVE JoinIInv
  OBVIOUS
<1> USE DEF Init, SchedInit
<1>1. /\ \A a \in Actors : todo[a] = Joins[a] /\ target[a] = None /\ pc[a] = "ready"
      /\ \A v \in VThreads : /\ ~Finished(v) /\ join_wait_queue[v] = <<>> /\ fut[v] = 0
                             /\ join_waiters_num[v] = 0 /\ runq[v] = 1
      /\ \A w \in Workers : wpc[w] = "idle" /\ pvth[w] = None /\ fpc[w] = "no" /\ head[w] = <<>>
      /\ \A v \in VThreads : v # None
  BY ActorsAssumption DEF Finished
<1> HIDE DEF Init, SchedInit
<1>2. TargetInv
  BY <1>1 DEF TargetInv
<1>3. EndInv
  BY <1>1 DEF EndInv, Ending, Actors
<1>4. \A a \in VThreads : ~Asleep(a)
  BY <1>1 DEF Asleep, Actors
<1>5. ListInv
  <2>1. \A a \in VThreads : ~(\E v \in VThreads : Listed(a, v)) /\ ~(\E w \in Workers : ToWake(w, a))
    BY <1>1 DEF Listed, ToWake
  <2> QED
    BY <1>1, <1>4, <2>1 DEF ListInv, Distinct, Actors
<1>6. PlaceInv
  <2> SUFFICES ASSUME NEW a \in VThreads
               PROVE  /\ OnePlace(a) /\ ~Asleep(a) /\ pc[a] \notin {"j_yield", "j_blocked"}
    BY Zenon DEF PlaceInv
  <2>1. /\ runq[a] = 1 /\ pc[a] = "ready"
        /\ \A w \in Workers : pvth[w] # a
    BY <1>1, Zenon DEF Actors
  <2> QED
    BY <1>4, <2>1 DEF OnePlace
<1>7. CountInv
  <2>1. ASSUME NEW v \in VThreads PROVE CountOK(v)
    <3>1. fut[v] = 0 /\ join_waiters_num[v] = 0 /\ join_wait_queue[v] = <<>> /\ ~Finished(v)
      BY <1>1, Zenon
    <3>2. ~RawWaits(v)
      BY <1>1, Zenon DEF RawWaits, Actors
    <3> QED
      BY <3>1, <3>2 DEF CountOK, Unit
  <2>2. ASSUME NEW w \in Workers, NEW v \in VThreads PROVE FinishCountOK(w, v)
    BY <1>1, Zenon DEF FinishCountOK
  <2> QED
    BY <2>1, <2>2, Zenon DEF CountInv
<1>8. ResultInv
  BY <1>1 DEF ResultInv, ResultOK, Joined, WaitPCs, JoinPCs
<1> QED
  BY <1>2, <1>3, <1>5, <1>6, <1>7, <1>8 DEF JoinIInv

\* Every step keeps the invariant.
LEMMA JoinStep ==
  ASSUME Simple, TypeInv, OwnInv, JoinIInv, [Next]_vars
  PROVE  JoinIInv'
<1>0. TargetInv /\ EndInv /\ ListInv /\ PlaceInv /\ CoreInv /\ CountInv /\ ResultInv
  BY DEF JoinIInv, CoreInv
<1>1. CASE \E a \in Actors : ActorStep(a)
  <2>1. PICK a \in Actors : ActorStep(a)
    BY <1>1
  <2>2. TargetInv'
    BY <1>0, <2>1, TargetStep DEF Next
  <2>3. EndInv'
    BY <1>0, <2>1, EndActor
  <2>4. CoreInv'
    BY <1>0, <2>1, CoreActor
  <2>5. CountInv'
    BY <1>0, <2>1, CountActor
  <2>6. ResultInv'
    BY <1>0, <2>1, ResultActor
  <2> QED
    BY <2>2, <2>3, <2>4, <2>5, <2>6 DEF JoinIInv, CoreInv
<1>2. CASE \E w \in Workers : LoopStep(w) /\ UNCHANGED <<joinVars, finishVars>>
  <2>1. PICK w \in Workers : LoopStep(w) /\ UNCHANGED <<joinVars, finishVars>>
    BY <1>2
  <2>2. TargetInv'
    BY <1>0, <2>1, TargetStep DEF Next, Work
  <2>3. EndInv'
    BY <1>0, <2>1, EndLoop
  <2>4. CoreInv'
    BY <1>0, <2>1, CoreLoop
  <2>5. CountInv'
    BY <1>0, <2>1, CountLoop
  <2>6. ResultInv'
    <3>1. UNCHANGED <<cur_status, pc, target, todo, result, retval>>
      BY <2>1, LoopShape
    <3> QED
      BY <1>0, <3>1 DEF ResultInv, ResultOK, Joined, Sole, Finished
  <2> QED
    BY <2>2, <2>3, <2>4, <2>5, <2>6 DEF JoinIInv, CoreInv
<1>3. CASE \E w \in Workers : FinishStep(w)
  <2>1. PICK w \in Workers : FinishStep(w)
    BY <1>3
  <2>2. TargetInv'
    BY <1>0, <2>1, TargetStep DEF Next, Work
  <2>3. EndInv'
    BY <1>0, <2>1, EndFinish
  <2>4. CoreInv'
    BY <1>0, <2>1, CoreFinish
  <2>5. CountInv'
    BY <1>0, <2>1, CountFinish
  <2>6. ResultInv'
    BY <1>0, <2>1, ResultFinish
  <2> QED
    BY <2>2, <2>3, <2>4, <2>5, <2>6 DEF JoinIInv, CoreInv
<1>4. CASE UNCHANGED vars
  <2>1. UNCHANGED <<schedVars, joinVars, finishVars>>
    BY <1>4 DEF vars
  <2> USE <1>0, <2>1 DEF schedVars, joinVars, finishVars
  <2>2. TargetInv'
    BY DEF TargetInv
  <2>3. EndInv'
    BY DEF EndInv, Ending, Finished
  <2>a. /\ \A a, v \in VThreads : Listed(a, v)' <=> Listed(a, v)
        /\ \A w \in Workers, a \in VThreads : ToWake(w, a)' <=> ToWake(w, a)
        /\ \A a \in VThreads : Asleep(a)' <=> Asleep(a)
        /\ \A a \in VThreads : Early(a)' <=> Early(a)
    BY DEF Listed, ToWake, Asleep, Early
  <2>4. ListInv'
    <3>1. SameLists /\ \A v \in VThreads : Finished(v)' <=> Finished(v)
      BY DEF SameLists, Finished
    <3> QED
      BY <2>a, <3>1, ListKept DEF ListInv
  <2>5. PlaceInv'
    <3>1. \A a \in VThreads : /\ OnePlace(a)' <=> OnePlace(a)
                              /\ Unreached(a)' <=> Unreached(a)
                              /\ Coming(a)' <=> Coming(a)
      BY DEF OnePlace, Unreached, Coming
    <3> QED
      BY <2>a, <3>1 DEF PlaceInv
  <2>6. CountInv'
    <3>1. \A v \in VThreads : /\ RawWaits(v)' <=> RawWaits(v)
                              /\ Unit(RawWaits(v))' = Unit(RawWaits(v))
                              /\ Unit(RawWaits(v) /\ fut[v] = 0)' = Unit(RawWaits(v) /\ fut[v] = 0)
      BY DEF RawWaits, Unit
    <3> QED
      BY <3>1 DEF CountInv, CountOK, FinishCountOK, Finished
  <2>7. ResultInv'
    BY DEF ResultInv, ResultOK, Joined, Sole, Finished
  <2> QED
    BY <2>2, <2>3, <2>4, <2>5, <2>6, <2>7 DEF JoinIInv
<1> QED
  BY <1>1, <1>2, <1>3, <1>4 DEF Next, Work

\* The invariant gives everything JoinInv says.
LEMMA JoinImplied ==
  ASSUME TypeInv, JoinIInv
  PROVE  JoinInv
<1>0. TargetInv /\ EndInv /\ ListInv /\ PlaceInv /\ CountInv /\ ResultInv
  BY DEF JoinIInv
<1>1. JoinDelivers
  BY <1>0 DEF JoinDelivers, ResultInv, ResultOK, Sole
<1>2. JoinWaits
  <2>1. \A a \in Actors : \A v \in Joined(a) : v \in VThreads
    BY JoinAssumption DEF Joined
  <2>2. \A v \in VThreads : Finished(v) => pc[v] = "ended"
    BY <1>0 DEF EndInv
  <2>3. \A a \in Actors : \A v \in Joined(a) : Finished(v)
    BY <1>0 DEF ResultInv, ResultOK
  <2> QED
    BY <2>1, <2>2, <2>3 DEF JoinWaits
<1>3. JoinerRemembered
  <2>1. ASSUME NEW a \in Actors, pc[a] = "j_blocked"
        PROVE  \/ \E i \in DOMAIN join_wait_queue[target[a]] : join_wait_queue[target[a]][i] = a
               \/ \E w \in Workers : \E i \in DOMAIN head[w] : head[w][i] = a
               \/ runq[a] > 0
               \/ \E w \in Workers : pvth[w] = a /\ wpc[w] \in {"check", "resume", "run"}
    <3>1. a \in VThreads
      BY <2>1 DEF TypeInv, ControlOK
    <3>2. CASE Asleep(a)
      BY <3>2 DEF Asleep, Listed, ToWake
    <3>3. CASE ~Asleep(a)
      <4>1. Coming(a)
        BY <1>0, <2>1, <3>1, <3>3 DEF PlaceInv
      <4>2. ASSUME NEW w \in Workers, fpc[w] = "enq", head[w][1] = a
            PROVE  \E i \in DOMAIN head[w] : head[w][i] = a
        <5>1. head[w] \in Seq(VThreads) /\ head[w] # <<>>
          BY <4>2 DEF TypeInv, TypeOK, ControlOK
        <5>2. 1 \in DOMAIN head[w]
          BY <5>1
        <5> QED
          BY <4>2, <5>2
      <4> QED
        BY <4>1, <4>2 DEF Coming
    <3> QED
      BY <3>2, <3>3
  <2>2. ASSUME NEW a \in Actors, pc[a] \in {"j_wait", "j_futex", "j_sleep"}
        PROVE  \/ join_waiters_num[target[a]] > 0
               \/ fut[target[a]] = 1
               \/ \E w \in Workers : pvth[w] = target[a] /\ fpc[w] # "no"
    <3>1. PICK t \in VThreads : target[a] = t
      BY <2>2 DEF TypeInv, TypeOK, ControlOK, JoinPCs
    <3>2. RawWaits(t)
      BY <2>2, <3>1 DEF RawWaits, TypeInv, ControlOK
    <3>3. CountOK(t)
      BY <1>0 DEF CountInv
    <3>4. CASE ~Finished(t)
      <4>1. join_waiters_num[t] = Len(join_wait_queue[t]) + 1
        BY <3>2, <3>3, <3>4 DEF CountOK, Unit
      <4>2. Len(join_wait_queue[t]) \in Nat
        BY DEF TypeInv, TypeOK
      <4> QED
        BY <3>1, <4>1, <4>2
    <3>5. CASE Finished(t)
      BY <3>1, <3>2, <3>3, <3>5 DEF CountOK
    <3> QED
      BY <3>4, <3>5
  <2> QED
    BY <2>1, <2>2 DEF JoinerRemembered
<1> QED
  BY <1>1, <1>2, <1>3 DEF JoinInv, TypeInv

\* pthread_join keeps its promise in every program of Simple, however many
\* vthreads, raw threads and workers there are: a join returns only after its
\* target has ended, a sole joiner has its result then, and no joiner is
\* forgotten on the way.
THEOREM JoinKeepsPromise ==
  ASSUME Simple
  PROVE  Spec => []JoinInv
<1>1. Init => OwnInv /\ JoinIInv
  BY OwnInit, JoinInit
<1>2. TypeInv /\ OwnInv /\ JoinIInv /\ [Next]_vars => OwnInv' /\ JoinIInv'
  BY OwnStep, JoinStep
<1>3. TypeInv /\ JoinIInv => JoinInv
  BY JoinImplied
<1> QED
  BY <1>1, <1>2, <1>3, TypeCorrect, PTL DEF Spec

=============================================================================
