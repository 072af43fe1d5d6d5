--------------------------- MODULE BarrierProofs ---------------------------
(***************************************************************************)
(* Proofs about Barrier, for any number of vthreads, raw threads, workers  *)
(* and rounds and for both builds: types, that no worker resumes a vthread *)
(* that runs, and, when the barrier is used by as many as it counts, that  *)
(* nobody leaves a round before everybody has arrived in it, that one      *)
(* caller of each round is the serial one, and that the branches "should   *)
(* not run to here" are not reached; and that those who use the barrier of *)
(* BLOCKED_BARRIER, however many they are, leave it in groups of its count.*)
(***************************************************************************)
EXTENDS Barrier, FiniteSetTheorems, SequenceTheorems, TLAPS

(***************************************************************************)
(* Types.                                                                  *)
(***************************************************************************)

\* The control points after the arrival at the barrier.
Inside ==
  {"b_hide", "b_push", "b_yield", "b_blocked", "b_look", "b_cas", "b_inc",
   "b_pop", "b_enq"}

\* What an actor has done, by its control point.
CallOK(a) ==
  /\ pc[a] = "b_enq" <=> got[a] # None
  /\ arrived[a] = left[a] + (IF pc[a] \in Inside THEN 1 ELSE 0)
  /\ left[a] <= setup.rounds[a]
  /\ pc[a] \notin {"ready", "ended"} => left[a] < setup.rounds[a]
  /\ pc[a] \in {"b_push", "b_yield", "b_blocked"} => a \in VThreads

ControlOK ==
  /\ \A w \in Workers : wpc[w] # "idle" => pvth[w] \in VThreads
  /\ \A a \in Actors : CallOK(a)

TypeInv == TypeOK /\ ControlOK

\* What the assumptions say of the program that runs.
LEMMA SetupFacts ==
  ASSUME TypeOK
  PROVE  /\ Count \in Nat \ {0}
         /\ setup.rounds \in [Actors -> 0..MaxRounds]
         /\ setup.build \in {"BLOCKED_BARRIER", "LOCKFREE_BARRIER"}
         /\ MaxRounds \in Nat
BY BarrierAssumption DEF TypeOK, Setup, Count

\* The initial states are well typed.
LEMMA TypeInit == Init => TypeInv
<1> SUFFICES ASSUME Init PROVE TypeInv
  OBVIOUS
<1>a. SchedTypeOK
  BY DEF Init, SchedInit, SchedTypeOK, Status, WorkerPCs
<1>b. /\ blocked_vths \in [{0, 1} -> Seq(VThreads)] /\ pc \in [Actors -> PCs]
      /\ round \in [Actors -> Nat] /\ cur_waiter \in [Actors -> Nat]
      /\ got \in [Actors -> VThreads \cup {None}]
      /\ arrived \in [Actors -> 0..MaxRounds] /\ left \in [Actors -> 0..MaxRounds]
  BY BarrierAssumption DEF Init, PCs
<1>1. TypeOK
  BY <1>a, <1>b DEF Init, TypeOK
<1>2. ControlOK
  BY <1>1, SetupFacts DEF Init, SchedInit, ControlOK, CallOK, Inside
<1> QED
  BY <1>1, <1>2 DEF TypeInv

\* A step that leaves the barrier alone keeps the facts about it.
LEMMA CallsKept ==
  ASSUME UNCHANGED barrierVars, \A a \in Actors : CallOK(a)
  PROVE  \A a \in Actors : CallOK(a)'
BY DEF barrierVars, CallOK

\* A step of a worker keeps the types.
LEMMA TypeWorker ==
  ASSUME TypeInv, NEW w \in Workers, Work(w)
  PROVE  TypeInv'
<1>1. UNCHANGED barrierVars
  BY DEF Work
<1>2. \A a \in Actors : CallOK(a)'
  BY <1>1, CallsKept DEF TypeInv, ControlOK
<1>3. SchedTypeOK' /\ \A x \in Workers : wpc'[x] # "idle" => pvth'[x] \in VThreads
  <2> USE ActorsAssumption, LocksAssumption
          DEF TypeInv, TypeOK, SchedTypeOK, ControlOK, WorkerAt, WorkerPCs, Status
  <2>1. CASE \E v \in VThreads : GetAndWork(w, v)
    BY <2>1 DEF GetAndWork
  <2>2. CASE PutBack(w)
    BY <2>2 DEF PutBack, Enqueue, ToLoop
  <2>3. CASE Accept(w)
    BY <2>3 DEF Accept, Goto
  <2>4. CASE Resume(w)
    <3>1. wpc[w] = "resume" /\ UNCHANGED <<runq, runnable, cur_status, c, pvth, wret>>
      BY <2>4 DEF Resume, Goto, workerVars
    <3>2. \/ wpc' = [wpc EXCEPT ![w] = "run"] /\ fault' = fault
          \/ wpc' = wpc /\ fault' = "stale_context"
      BY <2>4 DEF Resume, Goto, workerVars
    <3> QED
      BY <3>1, <3>2
  <2>5. CASE RetBlocked(w)
    BY <2>5 DEF RetBlocked, ToLoop
  <2>6. CASE RetSuspended(w)
    BY <2>6 DEF RetSuspended, Enqueue, ToLoop
  <2>7. CASE RetMutex(w)
    BY <2>7 DEF RetMutex, Goto
  <2>8. CASE MarkRunnable(w)
    BY <2>8 DEF MarkRunnable, Goto
  <2>9. CASE EnqueueIfSuspended(w)
    BY <2>9 DEF EnqueueIfSuspended, Enqueue, ToLoop
  <2>10. CASE FinishUnjoined(w)
    BY <2>10 DEF FinishUnjoined, ToLoop
  <2> QED
    BY <2>1, <2>2, <2>3, <2>4, <2>5, <2>6, <2>7, <2>8, <2>9, <2>10
       DEF Work, WorkerStep, LoopStep
<1> QED
  BY <1>1, <1>2, <1>3 DEF TypeInv, TypeOK, ControlOK, barrierVars

\* A yield keeps the types of the workers' variables.
LEMMA YieldTypes ==
  ASSUME TypeInv, NEW a \in Actors, NEW code \in Status, YieldMyself(a, code),
         UNCHANGED <<runq, runnable, cur_status, c>>
  PROVE  SchedTypeOK' /\ \A w \in Workers : wpc'[w] # "idle" => pvth'[w] \in VThreads
<1> USE DEF TypeInv, TypeOK, SchedTypeOK, ControlOK, workerVars
<1>1. CASE fault' = "nullptr" /\ UNCHANGED workerVars
  BY <1>1
<1>2. CASE \E w \in Workers :
             /\ RunsOn(a, w)
             /\ wpc' = [wpc EXCEPT ![w] = "ret"]
             /\ wret' = [wret EXCEPT ![w] = code]
             /\ UNCHANGED <<pvth, fault>>
  <2> PICK w \in Workers :
             /\ RunsOn(a, w)
             /\ wpc' = [wpc EXCEPT ![w] = "ret"]
             /\ wret' = [wret EXCEPT ![w] = code]
             /\ UNCHANGED <<pvth, fault>>
    BY <1>2
  <2> QED
    BY DEF RunsOn, WorkerPCs
<1> QED
  BY <1>1, <1>2 DEF YieldMyself

\* A step of a that leaves the other actors alone keeps CallOK for all if it
\* keeps it for a.
LEMMA CallsOfOthers ==
  ASSUME TypeInv, NEW a \in Actors, CallOK(a)', UNCHANGED setup,
         \A b \in Actors : b # a => /\ pc'[b] = pc[b] /\ got'[b] = got[b]
                                    /\ arrived'[b] = arrived[b] /\ left'[b] = left[b]
  PROVE  \A b \in Actors : CallOK(b)'
<1> SUFFICES ASSUME NEW b \in Actors, b # a PROVE CallOK(b)'
  OBVIOUS
<1> QED
  BY DEF TypeInv, ControlOK, CallOK

\* The variables of the workers and the run queue, when they are left alone.
LEMMA SchedKept ==
  ASSUME TypeInv, UNCHANGED schedVars
  PROVE  SchedTypeOK' /\ \A w \in Workers : wpc'[w] # "idle" => pvth'[w] \in VThreads
BY DEF TypeInv, TypeOK, ControlOK, SchedTypeOK, schedVars

\* A step of an actor keeps the types.
LEMMA TypeActor ==
  ASSUME TypeInv, NEW a \in Actors, ActorStep(a)
  PROVE  TypeInv'
<1> SUFFICES /\ SchedTypeOK'
             /\ \A w \in Workers : wpc'[w] # "idle" => pvth'[w] \in VThreads
             /\ cur_waiters' \in Nat /\ cur_round' \in Nat /\ serials' \in Nat
             /\ misfired' \in BOOLEAN
             /\ blocked_vths' \in [{0, 1} -> Seq(VThreads)]
             /\ pc' \in [Actors -> PCs]
             /\ round' \in [Actors -> Nat] /\ cur_waiter' \in [Actors -> Nat]
             /\ got' \in [Actors -> VThreads \cup {None}]
             /\ arrived' \in [Actors -> 0..MaxRounds]
             /\ left' \in [Actors -> 0..MaxRounds]
             /\ \A b \in Actors : CallOK(b)'
  BY DEF TypeInv, TypeOK, ControlOK, ActorStep
<1>t. /\ cur_waiters \in Nat /\ cur_round \in Nat /\ serials \in Nat
      /\ misfired \in BOOLEAN
      /\ blocked_vths \in [{0, 1} -> Seq(VThreads)]
      /\ pc \in [Actors -> PCs]
      /\ round \in [Actors -> Nat] /\ cur_waiter \in [Actors -> Nat]
      /\ got \in [Actors -> VThreads \cup {None}]
      /\ arrived \in [Actors -> 0..MaxRounds]
      /\ left \in [Actors -> 0..MaxRounds]
      /\ CallOK(a) /\ setup' = setup
  BY DEF TypeInv, TypeOK, ControlOK, ActorStep
<1>s. /\ setup.rounds[a] \in 0..MaxRounds /\ MaxRounds \in Nat
      /\ setup.build \in {"BLOCKED_BARRIER", "LOCKFREE_BARRIER"}
      /\ None \notin VThreads
  BY SetupFacts, ActorsAssumption DEF TypeInv
<1> USE <1>t, <1>s DEF At, Move, PCs
<1>1. CASE ReadRound(a)
  <2>1. CallOK(a)'
    BY <1>1 DEF ReadRound, CallOK, Inside
  <2> QED
    BY <1>1, <2>1, SchedKept, CallsOfOthers DEF ReadRound
<1>2. CASE AddWaiter(a)
  <2>1. PICK l \in {"b_hide", "b_look", "b_cas"} : pc' = [pc EXCEPT ![a] = l]
    BY <1>2 DEF AddWaiter, Waiting
  <2>2. arrived[a] + 1 \in 0..MaxRounds
    BY <1>2 DEF AddWaiter, CallOK, Inside
  <2>3. CallOK(a)'
    BY <1>2, <2>1, <2>2 DEF AddWaiter, CallOK, Inside
  <2> QED
    BY <1>2, <2>1, <2>2, <2>3, SchedKept, CallsOfOthers DEF AddWaiter
<1>3. CASE Hide(a)
  <2>1. /\ SchedTypeOK'
        /\ \A w \in Workers : wpc'[w] # "idle" => pvth'[w] \in VThreads
    BY <1>3 DEF Hide, TypeInv, TypeOK, SchedTypeOK, ControlOK, workerVars
  <2>2. CallOK(a)'
    BY <1>3 DEF Hide, CallOK, Inside
  <2>3. pc' = pc \/ pc' = [pc EXCEPT ![a] = "b_push"]
    BY <1>3 DEF Hide
  <2> QED
    BY <1>3, <2>1, <2>2, <2>3, CallsOfOthers DEF Hide
<1>4. CASE Push(a)
  <2>1. CallOK(a)' /\ a \in VThreads
    BY <1>4 DEF Push, CallOK, Inside
  <2>2. blocked_vths' \in [{0, 1} -> Seq(VThreads)]
    <3>1. Parity(a) \in {0, 1}
      BY DEF Parity
    <3>2. Append(blocked_vths[Parity(a)], a) \in Seq(VThreads)
      BY <2>1, <3>1
    <3> QED
      BY <1>4, <3>1, <3>2 DEF Push
  <2> QED
    BY <1>4, <2>1, <2>2, SchedKept, CallsOfOthers DEF Push
<1>5. CASE Block(a)
  <2>1. CallOK(a)'
    BY <1>5 DEF Block, CallOK, Inside
  <2> QED
    BY <1>5, <2>1, YieldTypes, CallsOfOthers DEF Block, Status
<1>6. CASE Released(a)
  <2>1. left[a] + 1 \in 0..MaxRounds
    BY <1>6 DEF Released, CallOK, Inside
  <2>2. CallOK(a)'
    BY <1>6, <2>1 DEF Released, Leave, CallOK, Inside
  <2> QED
    BY <1>6, <2>1, <2>2, SchedKept, CallsOfOthers DEF Released, Leave
<1>7. CASE LookAgain(a)
  <2>1. UNCHANGED barrierVars
    BY <1>7 DEF LookAgain
  <2>2. \A b \in Actors : CallOK(b)'
    BY <2>1, CallsKept DEF TypeInv, ControlOK
  <2>3. /\ SchedTypeOK'
        /\ \A w \in Workers : wpc'[w] # "idle" => pvth'[w] \in VThreads
    BY <1>7, YieldTypes DEF LookAgain, Status
  <2> QED
    BY <2>1, <2>2, <2>3 DEF barrierVars
<1>8. CASE LookReleased(a)
  <2>1. CASE Leave(a) /\ UNCHANGED misfired
    <3>1. left[a] + 1 \in 0..MaxRounds
      BY <1>8 DEF LookReleased, CallOK, Inside
    <3>2. CallOK(a)'
      BY <1>8, <2>1, <3>1 DEF LookReleased, Leave, CallOK, Inside
    <3> QED
      BY <1>8, <2>1, <3>1, <3>2, SchedKept, CallsOfOthers DEF LookReleased, Leave
  <2>2. CASE misfired' = TRUE /\ UNCHANGED <<pc, round, cur_waiter, left>>
    <3>1. CallOK(a)'
      BY <1>8, <2>2 DEF LookReleased, CallOK
    <3> QED
      BY <1>8, <2>2, <3>1, SchedKept, CallsOfOthers DEF LookReleased
  <2> QED
    BY <1>8, <2>1, <2>2 DEF LookReleased
<1>9. CASE ResetWaiters(a)
  <2>1. CallOK(a)'
    BY <1>9 DEF ResetWaiters, CallOK, Inside
  <2>2. cur_waiters' \in Nat
    BY <1>9 DEF ResetWaiters
  <2>3. misfired' \in BOOLEAN
    BY <1>9, Zenon DEF ResetWaiters
  <2> QED
    BY <1>9, <2>1, <2>2, <2>3, SchedKept, CallsOfOthers DEF ResetWaiters
<1>10. CASE NextRound(a)
  <2>1. CallOK(a)'
    BY <1>10 DEF NextRound, CallOK, Inside
  <2> QED
    BY <1>10, <2>1, SchedKept, CallsOfOthers DEF NextRound
<1>11. CASE PopWaiter(a)
  <2> DEFINE q == blocked_vths[Parity(a)]
  <2>1. Parity(a) \in {0, 1} /\ q \in Seq(VThreads) /\ q # <<>>
    BY <1>11 DEF PopWaiter, Parity
  <2>2. Head(q) \in VThreads /\ Tail(q) \in Seq(VThreads)
    BY <2>1
  <2>3. blocked_vths' \in [{0, 1} -> Seq(VThreads)]
    BY <1>11, <2>1, <2>2 DEF PopWaiter
  <2>4. /\ got' = [got EXCEPT ![a] = Head(q)]
        /\ cur_waiter' = [cur_waiter EXCEPT ![a] = @ - 1]
        /\ pc[a] = "b_pop" /\ pc' = [pc EXCEPT ![a] = "b_enq"]
        /\ UNCHANGED <<schedVars, cur_waiters, cur_round, round, arrived, left,
                       serials, misfired>>
        /\ cur_waiter[a] > 1
    BY <1>11 DEF PopWaiter, Waking
  <2>5. CallOK(a)'
    BY <2>2, <2>4 DEF CallOK, Inside
  <2>6. cur_waiter' \in [Actors -> Nat] /\ got' \in [Actors -> VThreads \cup {None}]
    BY <2>2, <2>4
  <2> QED
    BY <2>3, <2>4, <2>5, <2>6, SchedKept, CallsOfOthers
<1>12. CASE PopEmpty(a)
  <2>1. UNCHANGED barrierVars
    BY <1>12 DEF PopEmpty
  <2>2. \A b \in Actors : CallOK(b)'
    BY <2>1, CallsKept DEF TypeInv, ControlOK
  <2>3. /\ SchedTypeOK'
        /\ \A w \in Workers : wpc'[w] # "idle" => pvth'[w] \in VThreads
    BY <1>12, YieldTypes DEF PopEmpty, Status
  <2> QED
    BY <2>1, <2>2, <2>3 DEF barrierVars
<1>13. CASE EnqueueWaiter(a)
  <2>1. got[a] \in VThreads
    BY <1>13 DEF EnqueueWaiter, CallOK
  <2>2. /\ SchedTypeOK'
        /\ \A w \in Workers : wpc'[w] # "idle" => pvth'[w] \in VThreads
    BY <1>13, <2>1 DEF EnqueueWaiter, Enqueue, TypeInv, TypeOK, SchedTypeOK,
                       ControlOK, workerVars
  <2>3. CallOK(a)'
    BY <1>13 DEF EnqueueWaiter, CallOK, Inside
  <2> QED
    BY <1>13, <2>2, <2>3, CallsOfOthers DEF EnqueueWaiter
<1>14. CASE ReturnSerial(a)
  <2>1. left[a] + 1 \in 0..MaxRounds
    BY <1>14 DEF ReturnSerial, CallOK, Inside
  <2>2. CallOK(a)'
    BY <1>14, <2>1 DEF ReturnSerial, Leave, CallOK, Inside
  <2> QED
    BY <1>14, <2>1, <2>2, SchedKept, CallsOfOthers DEF ReturnSerial, Leave
<1>15. CASE End(a)
  <2>1. CallOK(a)'
    BY <1>15 DEF End, CallOK, Inside
  <2> QED
    BY <1>15, <2>1, YieldTypes, CallsOfOthers DEF End, Status
<1> QED
  BY <1>1, <1>2, <1>3, <1>4, <1>5, <1>6, <1>7, <1>8, <1>9, <1>10, <1>11, <1>12,
     <1>13, <1>14, <1>15 DEF ActorStep

\* Every variable of Barrier has its type, the calls are counted as their control
\* points say, and only a vthread gets past the first step of a waiter.
THEOREM TypeCorrect == Spec => []TypeInv
<1>1. TypeInv /\ [Next]_vars => TypeInv'
  <2> SUFFICES ASSUME TypeInv, [Next]_vars PROVE TypeInv'
    OBVIOUS
  <2>1. CASE \E a \in Actors : ActorStep(a)
    BY <2>1, TypeActor
  <2>2. CASE \E w \in Workers : Work(w)
    BY <2>2, TypeWorker
  <2>3. CASE UNCHANGED vars
    BY <2>3 DEF vars, schedVars, barrierVars, TypeInv, TypeOK, SchedTypeOK, ControlOK,
                CallOK
  <2> QED
    BY <2>1, <2>2, <2>3 DEF Next
<1> QED
  BY <1>1, TypeInit, PTL DEF Spec

-----------------------------------------------------------------------------
(***************************************************************************)
(* Places.  A vthread that does not run is in one place from which it can  *)
(* be resumed.  Between its push and the moment its worker has left it,    *)
(* a waiter that still runs is in such a place too, but then it does not   *)
(* look runnable.                                                          *)
(***************************************************************************)

\* w runs v, or has come back from it and not yet looked at the code.
Has(w, v) == pvth[w] = v /\ wpc[w] \in {"run", "ret"}

\* w is about to resume v or to put it back.
Takes(w, v) == pvth[w] = v /\ wpc[w] \in {"check", "resume"}

StandsAt(v, i, j) == j \in 1..Len(blocked_vths[i]) /\ blocked_vths[i][j] = v

InQueue(v) == \E i \in {0, 1}, j \in Nat : StandsAt(v, i, j)

BeingWoken(v) == \E a \in Actors : got[a] = v

Taken(v) == \E w \in Workers : Takes(w, v)

\* v is somewhere it can be resumed from.
Placed(v) == runq[v] > 0 \/ Taken(v) \/ InQueue(v) \/ BeingWoken(v)

\* v is in the queues once at most.
OnceQueued(v) ==
  \A i, k \in {0, 1}, j, l \in Nat : StandsAt(v, i, j) /\ StandsAt(v, k, l) => i = k /\ j = l

\* No two of the places have v, and no place has it twice.
OnePlace(v) ==
  /\ runq[v] <= 1
  /\ runq[v] > 0 => ~Taken(v) /\ ~InQueue(v) /\ ~BeingWoken(v)
  /\ Taken(v) => ~InQueue(v) /\ ~BeingWoken(v)
  /\ InQueue(v) => ~BeingWoken(v)
  /\ \A w, x \in Workers : Takes(w, v) /\ Takes(x, v) => w = x
  /\ \A a, b \in Actors : got[a] = v /\ got[b] = v => a = b
  /\ OnceQueued(v)

\* w has not got rid of v since v pushed itself.
Pushed(w, v) ==
  \/ wpc[w] = "run" /\ pc[v] = "b_yield"
  \/ wpc[w] = "ret" /\ pc[v] = "b_blocked"

\* A vthread has one worker at most.
OneWorker(v) ==
  /\ \A w, x \in Workers : Has(w, v) /\ Has(x, v) => w = x
  /\ Placed(v) => \A w \in Workers : Has(w, v) => Pushed(w, v) /\ ~runnable[v]
  /\ \A w, x \in Workers : pvth[w] = v /\ wpc[w] = "resume" => ~Has(x, v)

\* What a vthread's control point says of where it is.
PointOK(v) ==
  /\ InQueue(v) \/ BeingWoken(v) => pc[v] \in {"b_yield", "b_blocked"}
  /\ pc[v] = "ended" => ~Placed(v)
  /\ pc[v] \in {"b_push", "b_yield"} => ~runnable[v]
  /\ cur_status[v] = "FINISHED" => pc[v] = "ended"

\* The codes of a barrier's vthreads.
CodeOK(w) ==
  /\ wpc[w] \notin {"released", "marked"}
  /\ wpc[w] = "ret" => /\ wret[w] \in {"SUSPENDED", "BLOCKED", "FINISHED"}
                       /\ wret[w] = "BLOCKED" <=> pc[pvth[w]] = "b_blocked"
                       /\ wret[w] = "FINISHED" <=> pc[pvth[w]] = "ended"

PlaceInv ==
  /\ \A v \in VThreads : OnePlace(v) /\ OneWorker(v) /\ PointOK(v)
  /\ \A w \in Workers : CodeOK(w)
  /\ fault # "stale_context"

\* All that PlaceInv says of v.
PlaceOK(v) == OnePlace(v) /\ OneWorker(v) /\ PointOK(v)

\* The worker y means the same for v after the step as before.
SameFor(y, v) ==
  /\ Has(y, v)' <=> Has(y, v)
  /\ Takes(y, v)' <=> Takes(y, v)
  /\ (pvth[y] = v /\ wpc[y] = "resume")' <=> (pvth[y] = v /\ wpc[y] = "resume")
  /\ Has(y, v) => wpc'[y] = wpc[y]

\* A step that has nothing to do with v.
LEMMA PlaceFrame ==
  ASSUME NEW v \in VThreads, PlaceOK(v),
         runq'[v] = runq[v], pc'[v] = pc[v], runnable'[v] = runnable[v],
         cur_status'[v] = cur_status[v],
         \A y \in Workers : SameFor(y, v),
         InQueue(v)' <=> InQueue(v), OnceQueued(v)',
         \A a \in Actors : got'[a] = v <=> got[a] = v
  PROVE  PlaceOK(v)'
<1>1. /\ Taken(v)' <=> Taken(v)
      /\ InQueue(v)' <=> InQueue(v)
      /\ BeingWoken(v)' <=> BeingWoken(v)
  BY DEF SameFor, Taken, BeingWoken
<1>2. Placed(v)' <=> Placed(v)
  BY <1>1 DEF Placed
<1>3. OnePlace(v)'
  BY <1>1 DEF PlaceOK, OnePlace, SameFor
<1>4. OneWorker(v)'
  BY <1>2 DEF PlaceOK, OneWorker, SameFor, Pushed
<1>5. PointOK(v)'
  BY <1>1, <1>2 DEF PlaceOK, PointOK
<1> QED
  BY <1>3, <1>4, <1>5 DEF PlaceOK

\* A step of w has nothing to do with v if w has not got v before or after it.
LEMMA OtherWorker ==
  ASSUME NEW v \in VThreads, NEW w \in Workers,
         \A y \in Workers : y # w => pvth'[y] = pvth[y] /\ wpc'[y] = wpc[y],
         pvth[w] = v => wpc[w] = "idle", pvth'[w] = v => wpc'[w] = "idle"
  PROVE  \A y \in Workers : SameFor(y, v)
BY DEF SameFor, Has, Takes

\* The codes of the workers that a step leaves alone.
LEMMA CodeFrame ==
  ASSUME NEW y \in Workers, CodeOK(y),
         pvth'[y] = pvth[y], wpc'[y] = wpc[y], wret'[y] = wret[y],
         wpc[y] = "ret" => pc'[pvth[y]] = pc[pvth[y]]
  PROVE  CodeOK(y)'
BY DEF CodeOK

\* A step of a worker leaves queue, signallers and control points alone.
LEMMA WorkerLeaves ==
  ASSUME NEW w \in Workers, Work(w), NEW v \in VThreads
  PROVE  /\ pc' = pc /\ got' = got /\ blocked_vths' = blocked_vths
         /\ OnceQueued(v) => OnceQueued(v)'
         /\ \A a \in Actors : got'[a] = v <=> got[a] = v
         /\ InQueue(v)' <=> InQueue(v)
         /\ BeingWoken(v)' <=> BeingWoken(v)
<1>1. pc' = pc /\ got' = got /\ blocked_vths' = blocked_vths
  BY DEF Work, barrierVars
<1>2. \A i \in {0, 1}, j \in Nat : StandsAt(v, i, j)' <=> StandsAt(v, i, j)
  BY <1>1 DEF StandsAt
<1> QED
  BY <1>1, <1>2 DEF OnceQueued, InQueue, BeingWoken

\* A step of a worker keeps every vthread in its place.
LEMMA PlaceWorker ==
  ASSUME TypeInv, PlaceInv, NEW w \in Workers, Work(w)
  PROVE  PlaceInv'
<1> PICK u \in VThreads \cup {None} : u = pvth[w]
  BY DEF TypeInv, TypeOK, SchedTypeOK
<1>t. /\ runq \in [VThreads -> Nat] /\ runnable \in [VThreads -> BOOLEAN]
      /\ cur_status \in [VThreads -> Status]
      /\ wpc \in [Workers -> WorkerPCs] /\ pvth \in [Workers -> VThreads \cup {None}]
      /\ wret \in [Workers -> Status \cup Locks \cup {None}]
      /\ wpc[w] # "idle" => u \in VThreads
      /\ pc' = pc
  BY DEF TypeInv, TypeOK, SchedTypeOK, ControlOK, Work, barrierVars
<1>p. /\ \A v \in VThreads : PlaceOK(v) /\ OnceQueued(v)
      /\ CodeOK(w)
      /\ fault # "stale_context"
  BY DEF PlaceInv, PlaceOK, OnePlace
<1>o. ASSUME \A v \in VThreads : PlaceOK(v)', CodeOK(w)', fault' # "stale_context",
             \A y \in Workers : y # w => /\ pvth'[y] = pvth[y] /\ wpc'[y] = wpc[y]
                                         /\ wret'[y] = wret[y]
      PROVE  PlaceInv'
  <2>1. \A y \in Workers : CodeOK(y)'
    BY <1>o, <1>t, CodeFrame DEF PlaceInv
  <2> QED
    BY <1>o, <2>1 DEF PlaceInv, PlaceOK
<1> USE DEF WorkerAt
<1>1. CASE \E x \in VThreads : GetAndWork(w, x)
  <2>1. PICK x \in VThreads : GetAndWork(w, x)
    BY <1>1
  <2>2. /\ wpc[w] = "idle" /\ runq[x] > 0
        /\ runq' = [runq EXCEPT ![x] = @ - 1]
        /\ wpc' = [wpc EXCEPT ![w] = "check"]
        /\ pvth' = [pvth EXCEPT ![w] = x]
        /\ UNCHANGED <<runnable, cur_status, wret, fault>>
    BY <2>1 DEF GetAndWork
  <2>3. ASSUME NEW v \in VThreads, v # x PROVE PlaceOK(v)'
    <3>1. \A y \in Workers : SameFor(y, v)
      BY <1>t, <2>2, <2>3, OtherWorker
    <3> QED
      BY <1>t, <1>p, <2>2, <2>3, <3>1, PlaceFrame, WorkerLeaves
  <2>4. PlaceOK(x)'
    <3>1. /\ runq[x] = 1 /\ runq'[x] = 0 /\ Placed(x)
          /\ ~Taken(x) /\ ~InQueue(x) /\ ~BeingWoken(x)
      BY <1>t, <1>p, <2>2 DEF PlaceOK, OnePlace, Placed
    <3>2. \A y \in Workers : /\ Takes(y, x)' <=> y = w
                             /\ Has(y, x)' <=> Has(y, x)
                             /\ Has(y, x) => wpc'[y] = wpc[y]
                             /\ ~(pvth'[y] = x /\ wpc'[y] = "resume")
      BY <1>t, <2>2, <3>1 DEF Takes, Has, Taken
    <3>3. ~InQueue(x)' /\ ~BeingWoken(x)' /\ Taken(x)'
      BY <3>1, <3>2, WorkerLeaves DEF Taken
    <3>4. OnePlace(x)'
      BY <1>p, <3>1, <3>2, <3>3, WorkerLeaves DEF PlaceOK, OnePlace
    <3>5. OneWorker(x)'
      BY <1>t, <1>p, <2>2, <3>1, <3>2 DEF PlaceOK, OneWorker, Pushed
    <3>6. PointOK(x)'
      BY <1>t, <1>p, <2>2, <3>1, <3>3 DEF PlaceOK, PointOK
    <3> QED
      BY <3>4, <3>5, <3>6 DEF PlaceOK
  <2>5. CodeOK(w)'
    BY <1>t, <2>2 DEF CodeOK
  <2> QED
    BY <1>o, <1>t, <1>p, <2>2, <2>3, <2>4, <2>5
<1>2. CASE PutBack(w) \/ RetSuspended(w)
  <2>1. /\ wpc[w] = "check" \/ (wpc[w] = "ret" /\ wret[w] \in {"SUSPENDED", "LOCKFAIL"})
        /\ wpc' = [wpc EXCEPT ![w] = "idle"]
        /\ pvth' = [pvth EXCEPT ![w] = None]
        /\ wret' = [wret EXCEPT ![w] = None]
        /\ runq' = [runq EXCEPT ![u] = @ + 1]
        /\ UNCHANGED <<runnable, cur_status, fault>>
    BY <1>2 DEF PutBack, RetSuspended, Enqueue, ToLoop
  <2>2. u \in VThreads
    BY <1>t, <2>1
  <2>3. ASSUME NEW v \in VThreads, v # u PROVE PlaceOK(v)'
    <3>1. \A y \in Workers : SameFor(y, v)
      BY <1>t, <2>1, <2>3, OtherWorker
    <3> QED
      BY <1>t, <1>p, <2>1, <2>2, <2>3, <3>1, PlaceFrame, WorkerLeaves
  <2>4. PlaceOK(u)'
    <3>1. \A y \in Workers : y # w => ~Takes(y, u)
      <4>1. CASE wpc[w] = "check"
        BY <1>p, <2>2, <4>1 DEF PlaceOK, OnePlace, Takes
      <4>2. CASE wpc[w] = "ret"
        <5>1. Has(w, u) /\ ~Pushed(w, u)
          BY <1>p, <2>1, <4>2 DEF Has, Pushed, CodeOK
        <5>2. ~Placed(u)
          BY <1>p, <2>2, <5>1 DEF PlaceOK, OneWorker
        <5> QED
          BY <5>2 DEF Placed, Taken
      <4> QED
        BY <2>1, <4>1, <4>2
    <3>2. runq[u] = 0 /\ ~InQueue(u) /\ ~BeingWoken(u) /\ pc[u] # "ended"
      <4>1. CASE wpc[w] = "check"
        <5>1. Taken(u) /\ Placed(u)
          BY <4>1 DEF Taken, Takes, Placed
        <5> QED
          BY <1>t, <1>p, <2>2, <5>1 DEF PlaceOK, OnePlace, PointOK
      <4>2. CASE wpc[w] = "ret"
        <5>1. Has(w, u) /\ ~Pushed(w, u) /\ wret[w] = "SUSPENDED"
          BY <1>p, <2>1, <4>2 DEF Has, Pushed, CodeOK
        <5>2. ~Placed(u)
          BY <1>p, <2>2, <5>1 DEF PlaceOK, OneWorker
        <5>3. pc[u] # "ended"
          BY <1>p, <4>2, <5>1 DEF CodeOK
        <5> QED
          BY <1>t, <2>2, <5>2, <5>3 DEF Placed
      <4> QED
        BY <2>1, <4>1, <4>2
    <3>3. runq'[u] = 1
      BY <1>t, <2>1, <2>2, <3>2
    <3>4. \A y \in Workers : /\ ~Takes(y, u)'
                             /\ Has(y, u)' => Has(y, u) /\ y # w
                             /\ y # w => wpc'[y] = wpc[y]
                             /\ ~(pvth'[y] = u /\ wpc'[y] = "resume")
      BY <1>t, <2>1, <3>1 DEF Takes, Has
    <3>5. ~InQueue(u)' /\ ~BeingWoken(u)' /\ ~Taken(u)'
      BY <2>2, <3>2, <3>4, WorkerLeaves DEF Taken
    <3>6. OnePlace(u)'
      BY <1>p, <2>2, <3>3, <3>4, <3>5, WorkerLeaves DEF PlaceOK, OnePlace
    <3>7. OneWorker(u)'
      <4>1. ASSUME NEW y \in Workers, Has(y, u)' PROVE Pushed(y, u)' /\ ~runnable'[u]
        <5>1. Has(y, u) /\ y # w
          BY <3>4, <4>1
        <5>2. wpc[w] = "check"
          BY <1>p, <2>1, <2>2, <5>1 DEF PlaceOK, OneWorker, Has
        <5>3. Placed(u)
          BY <5>2 DEF Placed, Taken, Takes
        <5> QED
          BY <1>t, <1>p, <2>1, <2>2, <3>4, <5>1, <5>3 DEF PlaceOK, OneWorker, Pushed
      <4> QED
        BY <1>p, <2>2, <3>4, <4>1 DEF PlaceOK, OneWorker
    <3>8. PointOK(u)'
      BY <1>t, <1>p, <2>1, <2>2, <3>2, <3>5 DEF PlaceOK, PointOK
    <3> QED
      BY <3>6, <3>7, <3>8 DEF PlaceOK
  <2>5. CodeOK(w)'
    BY <1>t, <2>1 DEF CodeOK
  <2> QED
    BY <1>o, <1>t, <1>p, <2>1, <2>3, <2>4, <2>5
<1>3. CASE Accept(w)
  <2>1. /\ wpc[w] = "check" /\ runnable[u]
        /\ wpc' = [wpc EXCEPT ![w] = "resume"]
        /\ UNCHANGED <<runq, runnable, cur_status, pvth, wret, fault>>
    BY <1>3 DEF Accept, Goto
  <2>2. u \in VThreads /\ Placed(u)
    BY <1>t, <2>1 DEF Placed, Taken, Takes
  <2>3. ASSUME NEW v \in VThreads, v # u PROVE PlaceOK(v)'
    <3>1. \A y \in Workers : SameFor(y, v)
      BY <1>t, <2>1, <2>3, OtherWorker
    <3> QED
      BY <1>t, <1>p, <2>1, <2>2, <2>3, <3>1, PlaceFrame, WorkerLeaves
  <2>4. PlaceOK(u)'
    <3>1. \A y \in Workers : ~Has(y, u)
      BY <1>p, <2>1, <2>2 DEF PlaceOK, OneWorker
    <3>2. \A y \in Workers : (Takes(y, u)' <=> Takes(y, u)) /\ ~Has(y, u)'
      BY <1>t, <2>1, <3>1 DEF Takes, Has
    <3>3. /\ Taken(u)' <=> Taken(u)
          /\ InQueue(u)' <=> InQueue(u)
          /\ BeingWoken(u)' <=> BeingWoken(u)
      BY <2>2, <3>2, WorkerLeaves DEF Taken
    <3>4. OnePlace(u)'
      BY <1>p, <2>1, <2>2, <3>2, <3>3, WorkerLeaves DEF PlaceOK, OnePlace
    <3>5. OneWorker(u)'
      BY <3>2 DEF OneWorker
    <3>6. PointOK(u)'
      BY <1>t, <1>p, <2>1, <2>2, <3>3 DEF PlaceOK, PointOK, Placed
    <3> QED
      BY <3>4, <3>5, <3>6 DEF PlaceOK
  <2>5. CodeOK(w)'
    BY <1>t, <2>1 DEF CodeOK
  <2> QED
    BY <1>o, <1>t, <1>p, <2>1, <2>3, <2>4, <2>5
<1>4. CASE Resume(w)
  <2>1. wpc[w] = "resume" /\ u \in VThreads /\ Takes(w, u) /\ Taken(u) /\ Placed(u)
    BY <1>4, <1>t DEF Resume, Takes, Taken, Placed
  <2>2. \A y \in Workers : ~Has(y, u)
    BY <1>p, <2>1 DEF PlaceOK, OneWorker
  <2>3. cur_status[u] # "FINISHED"
    BY <1>p, <2>1 DEF PlaceOK, PointOK
  <2>4. HasContext(u)
    BY <2>2, <2>3 DEF HasContext, Has
  <2>5. /\ wpc' = [wpc EXCEPT ![w] = "run"]
        /\ UNCHANGED <<runq, runnable, cur_status, pvth, wret, fault>>
    BY <1>4, <2>4 DEF Resume, Goto
  <2>6. ASSUME NEW v \in VThreads, v # u PROVE PlaceOK(v)'
    <3>1. \A y \in Workers : SameFor(y, v)
      BY <1>t, <2>1, <2>5, <2>6, OtherWorker
    <3> QED
      BY <1>t, <1>p, <2>5, <2>6, <3>1, PlaceFrame, WorkerLeaves
  <2>7. PlaceOK(u)'
    <3>1. \A y \in Workers : Takes(y, u) => y = w
      BY <1>p, <2>1 DEF PlaceOK, OnePlace
    <3>2. \A y \in Workers : ~Takes(y, u)' /\ (Has(y, u)' <=> y = w)
      BY <1>t, <2>2, <2>5, <3>1 DEF Takes, Has
    <3>3. runq[u] = 0 /\ ~InQueue(u) /\ ~BeingWoken(u)
      BY <1>t, <1>p, <2>1 DEF PlaceOK, OnePlace
    <3>4. ~Taken(u)' /\ ~InQueue(u)' /\ ~BeingWoken(u)'
      BY <2>1, <3>2, <3>3, WorkerLeaves DEF Taken
    <3>5. ~Placed(u)'
      BY <1>t, <2>5, <3>3, <3>4 DEF Placed
    <3>6. OnePlace(u)'
      BY <1>p, <2>1, <2>5, <3>2, <3>3, <3>4, WorkerLeaves DEF PlaceOK, OnePlace
    <3>7. OneWorker(u)'
      <4>1. \A y \in Workers : ~(pvth'[y] = u /\ wpc'[y] = "resume")
        BY <3>2 DEF Takes
      <4> QED
        BY <3>2, <3>5, <4>1 DEF OneWorker
    <3>8. PointOK(u)'
      BY <1>t, <1>p, <2>1, <2>5, <3>4, <3>5 DEF PlaceOK, PointOK
    <3> QED
      BY <3>6, <3>7, <3>8 DEF PlaceOK
  <2>8. CodeOK(w)'
    BY <1>t, <2>5 DEF CodeOK
  <2> QED
    BY <1>o, <1>t, <1>p, <2>5, <2>6, <2>7, <2>8
<1>5. CASE RetBlocked(w) \/ FinishUnjoined(w)
  <2>1. /\ wpc[w] = "ret" /\ wret[w] \in {"BLOCKED", "FINISHED"}
        /\ wpc' = [wpc EXCEPT ![w] = "idle"]
        /\ pvth' = [pvth EXCEPT ![w] = None]
        /\ wret' = [wret EXCEPT ![w] = None]
        /\ UNCHANGED <<runq, fault>>
        /\ \/ /\ wret[w] = "BLOCKED" /\ cur_status' = cur_status
              /\ runnable' = [runnable EXCEPT ![u] = TRUE]
           \/ /\ wret[w] = "FINISHED" /\ runnable' = runnable
              /\ cur_status' = [cur_status EXCEPT ![u] = "FINISHED"]
    BY <1>5 DEF RetBlocked, FinishUnjoined, ToLoop
  <2>2. u \in VThreads /\ Has(w, u)
    BY <1>t, <2>1 DEF Has
  <2>3. ASSUME NEW v \in VThreads, v # u PROVE PlaceOK(v)'
    <3>1. \A y \in Workers : SameFor(y, v)
      BY <1>t, <2>1, <2>3, OtherWorker
    <3>2. runnable'[v] = runnable[v] /\ cur_status'[v] = cur_status[v]
      BY <1>t, <2>1, <2>2, <2>3
    <3> QED
      BY <1>t, <1>p, <2>1, <2>3, <3>1, <3>2, PlaceFrame, WorkerLeaves
  <2>4. PlaceOK(u)'
    <3>1. \A y \in Workers : Has(y, u) => y = w
      BY <1>p, <2>2 DEF PlaceOK, OneWorker
    <3>2. \A y \in Workers : /\ ~Has(y, u)'
                             /\ Takes(y, u)' <=> Takes(y, u)
      BY <1>t, <2>1, <3>1 DEF Takes, Has
    <3>3. /\ Taken(u)' <=> Taken(u)
          /\ InQueue(u)' <=> InQueue(u)
          /\ BeingWoken(u)' <=> BeingWoken(u)
      BY <2>2, <3>2, WorkerLeaves DEF Taken
    <3>4. OnePlace(u)'
      BY <1>p, <2>1, <2>2, <3>2, <3>3, WorkerLeaves DEF PlaceOK, OnePlace
    <3>5. OneWorker(u)'
      BY <3>2 DEF OneWorker
    <3>6. \/ pc[u] = "b_blocked" /\ cur_status' = cur_status
          \/ pc[u] = "ended"
      BY <1>p, <2>1 DEF CodeOK
    <3>7. PointOK(u)'
      BY <1>t, <1>p, <2>1, <2>2, <3>3, <3>6 DEF PlaceOK, PointOK, Placed
    <3> QED
      BY <3>4, <3>5, <3>7 DEF PlaceOK
  <2>5. CodeOK(w)'
    BY <1>t, <2>1 DEF CodeOK
  <2> QED
    BY <1>o, <1>t, <1>p, <2>1, <2>3, <2>4, <2>5
<1>6. CASE RetMutex(w) \/ MarkRunnable(w) \/ EnqueueIfSuspended(w)
  BY <1>6, <1>p, LocksAssumption
     DEF RetMutex, MarkRunnable, EnqueueIfSuspended, CodeOK, Status
<1> QED
  BY <1>1, <1>2, <1>3, <1>4, <1>5, <1>6 DEF Work, WorkerStep, LoopStep

\* A vthread that runs has one worker, and is nowhere it could be resumed from
\* unless it has just pushed itself.
LEMMA Runs ==
  ASSUME TypeInv, PlaceInv, NEW a \in VThreads, Executing(a)
  PROVE  /\ \E w \in Workers : RunsOn(a, w) /\ \A y \in Workers : Has(y, a) <=> y = w
         /\ pc[a] # "b_yield" => ~Placed(a)
<1>1. PICK w \in Workers : RunsOn(a, w)
  BY ActorsAssumption DEF Executing
<1>2. Has(w, a)
  BY <1>1 DEF RunsOn, Has
<1>3. \A y \in Workers : Has(y, a) <=> y = w
  BY <1>2 DEF PlaceInv, OneWorker
<1>4. ASSUME pc[a] # "b_yield" PROVE ~Placed(a)
  <2>1. ~Pushed(w, a)
    BY <1>1, <1>4 DEF Pushed, RunsOn
  <2> QED
    BY <1>2, <2>1 DEF PlaceInv, OneWorker
<1> QED
  BY <1>1, <1>3, <1>4

\* A step of a and the codes of the workers that have not got a.
LEMMA CodesOfOthers ==
  ASSUME TypeInv, PlaceInv, NEW a \in Actors, NEW y \in Workers, pvth[y] # a,
         pvth'[y] = pvth[y], wpc'[y] = wpc[y], wret'[y] = wret[y],
         \A v \in VThreads : v # a => pc'[v] = pc[v]
  PROVE  CodeOK(y)'
<1>1. wpc[y] = "ret" => pvth[y] \in VThreads
  BY DEF TypeInv, ControlOK
<1> QED
  BY <1>1, CodeFrame DEF PlaceInv

\* A step of a that leaves the queues alone.
LEMMA QueuesKept ==
  ASSUME PlaceInv, UNCHANGED <<got, blocked_vths>>, NEW v \in VThreads
  PROVE  /\ OnceQueued(v)'
         /\ InQueue(v)' <=> InQueue(v)
         /\ BeingWoken(v)' <=> BeingWoken(v)
         /\ \A b \in Actors : got'[b] = v <=> got[b] = v
<1>1. \A i \in {0, 1}, j \in Nat : StandsAt(v, i, j)' <=> StandsAt(v, i, j)
  BY DEF StandsAt
<1> QED
  BY <1>1 DEF PlaceInv, OnePlace, OnceQueued, InQueue, BeingWoken

\* A vthread that is nowhere stays well placed while its worker runs it.
LEMMA NowherePlaced ==
  ASSUME PlaceInv, NEW a \in VThreads, NEW w \in Workers,
         \A y \in Workers : Has(y, a) <=> y = w, ~Placed(a),
         \A y \in Workers : (Has(y, a)' <=> Has(y, a)) /\ ~Takes(y, a)',
         runq'[a] = 0, ~InQueue(a)', ~BeingWoken(a)', OnceQueued(a)',
         pc'[a] \in {"b_push", "b_yield"} => ~runnable'[a],
         cur_status'[a] = "FINISHED" => pc'[a] = "ended"
  PROVE  PlaceOK(a)'
<1>1. ~Taken(a)' /\ ~Placed(a)'
  BY DEF Taken, Placed
<1>2. \A b, d \in Actors : got'[b] = a /\ got'[d] = a => b = d
  BY DEF BeingWoken
<1>3. OnePlace(a)'
  BY <1>1, <1>2 DEF OnePlace
<1>4. \A y \in Workers : ~(pvth'[y] = a /\ wpc'[y] = "resume")
  BY DEF Takes
<1>5. OneWorker(a)'
  BY <1>1, <1>4 DEF OneWorker
<1>6. PointOK(a)'
  BY <1>1 DEF PointOK
<1> QED
  BY <1>3, <1>5, <1>6 DEF PlaceOK

\* A step of an actor that has not pushed itself and does not yield.
LEMMA PlaceQuiet ==
  ASSUME TypeInv, PlaceInv, NEW a \in Actors, Executing(a),
         UNCHANGED <<runq, cur_status, workerVars, got, blocked_vths>>,
         fault' # "stale_context",
         \A v \in VThreads : v # a => pc'[v] = pc[v] /\ runnable'[v] = runnable[v],
         pc[a] \notin {"b_yield", "ended"},
         pc'[a] \in {"b_push", "b_yield"} => ~runnable'[a]
  PROVE  PlaceInv'
<1>0. /\ \A v \in VThreads : PlaceOK(v)
      /\ pvth' = pvth /\ wpc' = wpc /\ wret' = wret
      /\ runq \in [VThreads -> Nat]
  BY DEF PlaceInv, PlaceOK, workerVars, TypeInv, TypeOK, SchedTypeOK
<1>1. ASSUME NEW v \in VThreads, v # a PROVE PlaceOK(v)'
  <2>1. \A y \in Workers : SameFor(y, v)
    BY <1>0 DEF SameFor, Has, Takes
  <2> QED
    BY <1>0, <1>1, <2>1, PlaceFrame, QueuesKept
<1>2. CASE a \in RawThreads
  <2>1. \A v \in VThreads : v # a
    BY <1>2, ActorsAssumption
  <2>2. \A y \in Workers : CodeOK(y)'
    BY <1>0, <2>1, CodeFrame DEF PlaceInv, TypeInv, ControlOK
  <2> QED
    BY <1>1, <2>1, <2>2 DEF PlaceInv, PlaceOK
<1>3. CASE a \in VThreads
  <2>1. PICK w \in Workers : RunsOn(a, w) /\ \A y \in Workers : Has(y, a) <=> y = w
    BY <1>3, Runs
  <2>2. ~Placed(a) /\ cur_status[a] # "FINISHED"
    BY <1>3, Runs DEF PlaceInv, PointOK
  <2>3. \A y \in Workers : (Has(y, a)' <=> Has(y, a)) /\ ~Takes(y, a)'
    BY <1>0, <2>2 DEF Has, Takes, Placed, Taken
  <2>4. PlaceOK(a)'
    BY <1>0, <1>3, <2>1, <2>2, <2>3, QueuesKept, NowherePlaced DEF Placed
  <2>5. ASSUME NEW y \in Workers PROVE CodeOK(y)'
    <3>1. CASE pvth[y] = a
      <4>1. wpc[y] # "ret"
        BY <2>1, <3>1 DEF Has, RunsOn
      <4> QED
        BY <1>0, <4>1 DEF CodeOK, PlaceInv
    <3> QED
      BY <1>0, <3>1, CodesOfOthers
  <2> QED
    BY <1>1, <2>4, <2>5 DEF PlaceInv, PlaceOK
<1> QED
  BY <1>2, <1>3 DEF Actors

\* The yields of a barrier's actors.
LEMMA PlaceYield ==
  ASSUME TypeInv, PlaceInv, NEW a \in Actors, Executing(a),
         NEW code, NEW l, YieldMyself(a, code), pc' = [pc EXCEPT ![a] = l],
         UNCHANGED <<runq, runnable, cur_status, got, blocked_vths>>,
         \/ code = "BLOCKED" /\ pc[a] = "b_yield" /\ l = "b_blocked"
         \/ code = "FINISHED" /\ pc[a] = "ready" /\ l = "ended"
         \/ code = "SUSPENDED" /\ pc[a] = l /\ l \in {"b_look", "b_pop"}
  PROVE  PlaceInv'
<1>0. /\ \A v \in VThreads : PlaceOK(v)
      /\ runq \in [VThreads -> Nat] /\ pc \in [Actors -> PCs]
      /\ wpc \in [Workers -> WorkerPCs]
      /\ wret \in [Workers -> Status \cup Locks \cup {None}]
      /\ \A v \in VThreads : v # a => pc'[v] = pc[v]
      /\ pc'[a] = l
      /\ fault # "stale_context"
  BY DEF PlaceInv, PlaceOK, TypeInv, TypeOK, SchedTypeOK, Actors
<1>1. CASE a \in RawThreads /\ fault' = "nullptr" /\ UNCHANGED workerVars
  <2>1. \A v \in VThreads : v # a
    BY <1>1, ActorsAssumption
  <2>2. pvth' = pvth /\ wpc' = wpc /\ wret' = wret
    BY <1>1 DEF workerVars
  <2>3. ASSUME NEW v \in VThreads PROVE PlaceOK(v)'
    <3>1. \A y \in Workers : SameFor(y, v)
      BY <2>2 DEF SameFor, Has, Takes
    <3> QED
      BY <1>0, <2>1, <3>1, PlaceFrame, QueuesKept
  <2>4. \A y \in Workers : CodeOK(y)'
    BY <1>0, <2>1, <2>2, CodeFrame DEF PlaceInv, TypeInv, ControlOK
  <2> QED
    BY <1>1, <2>3, <2>4 DEF PlaceInv, PlaceOK
<1>2. CASE \E w \in Workers : /\ RunsOn(a, w)
                              /\ wpc' = [wpc EXCEPT ![w] = "ret"]
                              /\ wret' = [wret EXCEPT ![w] = code]
                              /\ UNCHANGED <<pvth, fault>>
  <2>1. PICK w \in Workers : /\ RunsOn(a, w)
                             /\ wpc' = [wpc EXCEPT ![w] = "ret"]
                             /\ wret' = [wret EXCEPT ![w] = code]
                             /\ UNCHANGED <<pvth, fault>>
    BY <1>2
  <2>2. a \in VThreads
    BY <2>1 DEF RunsOn, TypeInv, ControlOK
  <2>3. \A y \in Workers : Has(y, a) <=> y = w
    BY <2>1, <2>2, Runs DEF RunsOn, Has
  <2>4. /\ wpc[w] = "run" /\ pvth[w] = a
        /\ wpc'[w] = "ret" /\ wret'[w] = code
        /\ \A y \in Workers : y # w => wpc'[y] = wpc[y] /\ wret'[y] = wret[y]
        /\ pvth' = pvth
    BY <1>0, <2>1 DEF RunsOn
  <2>5. \A y \in Workers : /\ Has(y, a)' <=> Has(y, a)
                           /\ Takes(y, a)' <=> Takes(y, a)
                           /\ ~(pvth'[y] = a /\ wpc'[y] = "resume")
    <3>1. \A y \in Workers : ~(pvth[y] = a /\ wpc[y] = "resume")
      BY <1>0, <2>2, <2>3 DEF PlaceOK, OneWorker
    <3> QED
      BY <2>4, <3>1 DEF Has, Takes
  <2>6. ASSUME NEW v \in VThreads, v # a PROVE PlaceOK(v)'
    <3>1. \A y \in Workers : SameFor(y, v)
      BY <2>4, <2>6 DEF SameFor, Has, Takes
    <3> QED
      BY <1>0, <2>6, <3>1, PlaceFrame, QueuesKept
  <2>7. PlaceOK(a)'
    <3>1. /\ Taken(a)' <=> Taken(a)
          /\ InQueue(a)' <=> InQueue(a)
          /\ BeingWoken(a)' <=> BeingWoken(a)
          /\ Placed(a)' <=> Placed(a)
      BY <2>2, <2>5, QueuesKept DEF Taken, Placed
    <3>2. OnePlace(a)'
      BY <1>0, <2>2, <2>5, <3>1, QueuesKept DEF PlaceOK, OnePlace
    <3>3. CASE code = "BLOCKED" /\ pc[a] = "b_yield" /\ l = "b_blocked"
      <4>1. OneWorker(a)'
        BY <1>0, <2>2, <2>3, <2>4, <2>5, <3>1, <3>3 DEF PlaceOK, OneWorker, Pushed
      <4>2. PointOK(a)'
        BY <1>0, <2>2, <3>1, <3>3 DEF PlaceOK, PointOK
      <4> QED
        BY <3>2, <4>1, <4>2 DEF PlaceOK
    <3>4. CASE pc[a] # "b_yield" /\ l \notin {"b_push", "b_yield"} /\ pc[a] # "ended"
      <4>1. ~Placed(a)'
        BY <2>2, <3>1, <3>4, Runs
      <4>2. OneWorker(a)'
        BY <1>0, <2>2, <2>3, <2>5, <4>1 DEF PlaceOK, OneWorker
      <4>3. PointOK(a)'
        BY <1>0, <2>2, <3>4, <4>1 DEF PlaceOK, PointOK, Placed
      <4> QED
        BY <3>2, <4>2, <4>3 DEF PlaceOK
    <3> QED
      BY <3>3, <3>4
  <2>8. ASSUME NEW y \in Workers PROVE CodeOK(y)'
    <3>1. CASE y = w
      BY <1>0, <2>4, <3>1 DEF CodeOK
    <3>2. CASE y # w /\ pvth[y] = a
      <4>1. wpc[y] # "ret"
        BY <2>3, <3>2 DEF Has
      <4> QED
        BY <2>4, <3>2, <4>1 DEF CodeOK, PlaceInv
    <3>3. CASE y # w /\ pvth[y] # a
      BY <1>0, <2>4, <3>3, CodesOfOthers
    <3> QED
      BY <3>1, <3>2, <3>3
  <2> QED
    BY <1>0, <2>1, <2>6, <2>7, <2>8 DEF PlaceInv, PlaceOK
<1> QED
  BY <1>1, <1>2 DEF YieldMyself

\* A push puts a at the end of the queue of its round's parity.
LEMMA PushStands ==
  ASSUME TypeInv, NEW a \in Actors, Push(a)
  PROVE  /\ a \in VThreads /\ Parity(a) \in {0, 1}
         /\ \A v \in VThreads, i \in {0, 1}, j \in Nat :
              StandsAt(v, i, j)' <=> \/ StandsAt(v, i, j)
                                     \/ /\ v = a /\ i = Parity(a)
                                        /\ j = Len(blocked_vths[i]) + 1
<1>1. /\ a \in VThreads /\ Parity(a) \in {0, 1}
      /\ blocked_vths \in [{0, 1} -> Seq(VThreads)]
      /\ blocked_vths' = [blocked_vths EXCEPT ![Parity(a)] = Append(@, a)]
  BY DEF TypeInv, TypeOK, ControlOK, CallOK, Push, At, Parity
<1>2. ASSUME NEW v \in VThreads, NEW i \in {0, 1}, NEW j \in Nat
      PROVE  StandsAt(v, i, j)' <=> \/ StandsAt(v, i, j)
                                    \/ /\ v = a /\ i = Parity(a)
                                       /\ j = Len(blocked_vths[i]) + 1
  <2> DEFINE q == blocked_vths[i]
  <2>1. q \in Seq(VThreads)
    BY <1>1
  <2>2. CASE i = Parity(a)
    <3>1. blocked_vths'[i] = Append(q, a)
      BY <1>1, <2>2
    <3>2. /\ Len(Append(q, a)) = Len(q) + 1
          /\ Append(q, a)[Len(q) + 1] = a
          /\ \A k \in 1..Len(q) : Append(q, a)[k] = q[k]
      BY <1>1, <2>1
    <3> HIDE DEF q
    <3>3. /\ j \in 1..Len(blocked_vths'[i]) <=> j \in 1..Len(q) \/ j = Len(q) + 1
          /\ Len(q) \in Nat
      BY <2>1, <3>1, <3>2
    <3>4. StandsAt(v, i, j)' <=> j \in 1..Len(blocked_vths'[i]) /\ blocked_vths'[i][j] = v
      BY DEF StandsAt
    <3>5. StandsAt(v, i, j) <=> j \in 1..Len(q) /\ q[j] = v
      BY DEF StandsAt, q
    <3>6. j \in 1..Len(q) => blocked_vths'[i][j] = q[j] /\ j # Len(q) + 1
      BY <3>1, <3>2, <3>3
    <3>7. j = Len(q) + 1 => blocked_vths'[i][j] = a
      BY <3>1, <3>2
    <3>8. StandsAt(v, i, j)' <=> StandsAt(v, i, j) \/ (v = a /\ j = Len(q) + 1)
      BY <3>3, <3>4, <3>5, <3>6, <3>7
    <3> QED
      BY <2>2, <3>8 DEF q
  <2>3. CASE i # Parity(a)
    BY <1>1, <2>3 DEF StandsAt
  <2> QED
    BY <2>2, <2>3
<1> QED
  BY <1>1, <1>2

\* A pop takes the first of the queue; the others move up.
LEMMA PopStands ==
  ASSUME TypeInv, NEW a \in Actors, PopWaiter(a)
  PROVE  /\ Parity(a) \in {0, 1} /\ got'[a] \in VThreads
         /\ StandsAt(got'[a], Parity(a), 1)
         /\ \A v \in VThreads, i \in {0, 1}, j \in Nat :
              StandsAt(v, i, j)' <=>
                j # 0 /\ StandsAt(v, i, IF i = Parity(a) THEN j + 1 ELSE j)
<1> DEFINE q == blocked_vths[Parity(a)]
<1>1. /\ Parity(a) \in {0, 1}
      /\ blocked_vths \in [{0, 1} -> Seq(VThreads)]
      /\ blocked_vths' = [blocked_vths EXCEPT ![Parity(a)] = Tail(@)]
      /\ q # <<>> /\ q \in Seq(VThreads)
      /\ got \in [Actors -> VThreads \cup {None}]
      /\ got' = [got EXCEPT ![a] = Head(q)]
  BY DEF TypeInv, TypeOK, PopWaiter, Parity
<1>2. /\ Head(q) \in VThreads /\ Head(q) = q[1]
      /\ Len(Tail(q)) = Len(q) - 1 /\ Len(q) \in Nat /\ Len(q) >= 1
      /\ \A k \in 1..Len(Tail(q)) : Tail(q)[k] = q[k + 1]
  BY <1>1, HeadTailProperties, EmptySeq
<1>3. ASSUME NEW v \in VThreads, NEW i \in {0, 1}, NEW j \in Nat
      PROVE  StandsAt(v, i, j)' <=>
               j # 0 /\ StandsAt(v, i, IF i = Parity(a) THEN j + 1 ELSE j)
  <2>1. CASE i = Parity(a)
    <3>1. blocked_vths'[i] = Tail(q) /\ blocked_vths[i] = q
      BY <1>1, <2>1
    <3> HIDE DEF q
    <3>2. StandsAt(v, i, j)' <=> j \in 1..Len(Tail(q)) /\ Tail(q)[j] = v
      BY <3>1 DEF StandsAt
    <3>3. StandsAt(v, i, j + 1) <=> j + 1 \in 1..Len(q) /\ q[j + 1] = v
      BY <3>1 DEF StandsAt
    <3>4. j \in 1..Len(Tail(q)) <=> j # 0 /\ j + 1 \in 1..Len(q)
      BY <1>2
    <3> QED
      BY <1>2, <2>1, <3>2, <3>3, <3>4
  <2>2. CASE i # Parity(a)
    <3>1. blocked_vths'[i] = blocked_vths[i] /\ Len(blocked_vths[i]) \in Nat
      BY <1>1, <2>2
    <3> QED
      BY <2>2, <3>1 DEF StandsAt
  <2> QED
    BY <2>1, <2>2
<1>4. got'[a] = q[1] /\ got'[a] \in VThreads /\ 1 \in 1..Len(q)
  BY <1>1, <1>2
<1> QED
  BY <1>1, <1>3, <1>4 DEF StandsAt

\* Nobody but the one taken leaves the queues.
LEMMA PopLeaves ==
  ASSUME TypeInv, NEW a \in Actors, PopWaiter(a), NEW v \in VThreads, v # got'[a],
         InQueue(v)
  PROVE  InQueue(v)'
<1>1. PICK p \in {0, 1} : p = Parity(a)
  BY PopStands
<1>2. PICK i \in {0, 1}, j \in Nat : StandsAt(v, i, j)
  BY DEF InQueue
<1>3. j # 0 /\ (i = p => j # 1)
  BY <1>1, <1>2, PopStands DEF StandsAt
<1>4. PICK k \in Nat \ {0} : j = IF i = p THEN k + 1 ELSE k
  <2>1. CASE i = p
    <3>1. j - 1 \in Nat \ {0} /\ j = (j - 1) + 1
      BY <1>3, <2>1
    <3> QED
      BY <2>1, <3>1
  <2> QED
    BY <1>3, <2>1
<1>5. StandsAt(v, i, k)'
  BY <1>1, <1>2, <1>4, PopStands
<1> QED
  BY <1>5 DEF InQueue

\* A waiter that pushes itself is in its place before it yields.
LEMMA PlacePush ==
  ASSUME TypeInv, PlaceInv, NEW a \in Actors, Push(a)
  PROVE  PlaceInv'
<1>0. /\ \A v \in VThreads : PlaceOK(v)
      /\ pvth' = pvth /\ wpc' = wpc /\ wret' = wret /\ runq' = runq
      /\ runnable' = runnable /\ cur_status' = cur_status /\ fault' = fault
      /\ fault # "stale_context"
      /\ got' = got /\ pc[a] = "b_push" /\ pc'[a] = "b_yield" /\ Executing(a)
      /\ \A v \in VThreads : v # a => pc'[v] = pc[v]
      /\ a \in VThreads
  BY PushStands DEF PlaceInv, PlaceOK, schedVars, TypeInv, TypeOK, Actors, Push, Move, At
<1>s. /\ Parity(a) \in {0, 1} /\ Len(blocked_vths[Parity(a)]) + 1 \in Nat
      /\ \A v \in VThreads, i \in {0, 1}, j \in Nat :
           StandsAt(v, i, j)' <=> \/ StandsAt(v, i, j)
                                  \/ /\ v = a /\ i = Parity(a)
                                     /\ j = Len(blocked_vths[i]) + 1
  BY PushStands DEF TypeInv, TypeOK
<1>1. PICK w \in Workers : RunsOn(a, w) /\ \A y \in Workers : Has(y, a) <=> y = w
  BY <1>0, Runs
<1>2. ~Placed(a) /\ ~runnable[a] /\ cur_status[a] # "FINISHED"
  BY <1>0, Runs DEF PlaceInv, PointOK
<1>3. ASSUME NEW v \in VThreads, v # a PROVE PlaceOK(v)'
  <2>1. \A y \in Workers : SameFor(y, v)
    BY <1>0 DEF SameFor, Has, Takes
  <2>2. \A i \in {0, 1}, j \in Nat : StandsAt(v, i, j)' <=> StandsAt(v, i, j)
    BY <1>3, <1>s
  <2>3. (InQueue(v)' <=> InQueue(v)) /\ OnceQueued(v)'
    BY <1>0, <2>2 DEF InQueue, PlaceOK, OnePlace, OnceQueued
  <2> QED
    BY <1>0, <1>3, <2>1, <2>3, PlaceFrame
<1>4. PlaceOK(a)'
  <2>1. \A y \in Workers : (Takes(y, a)' <=> Takes(y, a)) /\ (Has(y, a)' <=> Has(y, a))
    BY <1>0 DEF Takes, Has
  <2>2. runq[a] = 0 /\ ~Taken(a)' /\ ~BeingWoken(a)'
    BY <1>0, <1>2, <2>1 DEF Placed, Taken, BeingWoken, TypeInv, TypeOK, SchedTypeOK
  <2>3. \A i \in {0, 1}, j \in Nat :
          StandsAt(a, i, j)' <=> i = Parity(a) /\ j = Len(blocked_vths[i]) + 1
    BY <1>0, <1>2, <1>s DEF Placed, InQueue
  <2>4. OnceQueued(a)'
    BY <2>3 DEF OnceQueued
  <2>5. \A y \in Workers : ~Takes(y, a)'
    BY <2>2 DEF Taken
  <2>6. OnePlace(a)'
    BY <1>0, <2>2, <2>4, <2>5 DEF OnePlace, BeingWoken
  <2>7. \A y \in Workers : ~(pvth'[y] = a /\ wpc'[y] = "resume")
    BY <2>5 DEF Takes
  <2>8. OneWorker(a)'
    BY <1>0, <1>1, <1>2, <2>1, <2>7 DEF OneWorker, Pushed, RunsOn
  <2>9. PointOK(a)'
    BY <1>0, <1>2 DEF PointOK
  <2> QED
    BY <2>6, <2>8, <2>9 DEF PlaceOK
<1>5. ASSUME NEW y \in Workers PROVE CodeOK(y)'
  <2>1. CASE pvth[y] = a
    <3>1. wpc[y] # "ret"
      BY <1>1, <2>1 DEF Has, RunsOn
    <3> QED
      BY <1>0, <3>1 DEF CodeOK, PlaceInv
  <2> QED
    BY <1>0, <2>1, CodesOfOthers
<1> QED
  BY <1>0, <1>3, <1>4, <1>5 DEF PlaceInv, PlaceOK

\* The last arriver takes a waiter out of its queue.
LEMMA PlacePop ==
  ASSUME TypeInv, PlaceInv, NEW a \in Actors, PopWaiter(a)
  PROVE  PlaceInv'
<1> PICK p \in {0, 1} : p = Parity(a)
  BY PopStands
<1>0. /\ \A v \in VThreads : PlaceOK(v)
      /\ pvth' = pvth /\ wpc' = wpc /\ wret' = wret /\ runq' = runq
      /\ runnable' = runnable /\ cur_status' = cur_status /\ fault' = fault
      /\ fault # "stale_context"
      /\ pc[a] = "b_pop" /\ pc'[a] = "b_enq" /\ Executing(a)
      /\ \A v \in VThreads : v # a => pc'[v] = pc[v]
      /\ \A b \in Actors : b # a => got'[b] = got[b]
      /\ got[a] = None /\ None \notin VThreads
  BY ActorsAssumption
     DEF PlaceInv, PlaceOK, schedVars, TypeInv, TypeOK, ControlOK, CallOK, Actors,
         PopWaiter, Move, At
<1>s. /\ got'[a] \in VThreads
      /\ StandsAt(got'[a], p, 1)
      /\ \A v \in VThreads, i \in {0, 1}, j \in Nat :
           StandsAt(v, i, j)' <=> j # 0 /\ StandsAt(v, i, IF i = p THEN j + 1 ELSE j)
  BY PopStands
<1>1. PICK u \in VThreads : u = got'[a]
  BY <1>s
<1>o. ASSUME NEW v \in VThreads PROVE OnceQueued(v)'
  <2>1. SUFFICES ASSUME NEW i \in {0, 1}, NEW k \in {0, 1}, NEW j \in Nat, NEW l \in Nat,
                        StandsAt(v, i, j)', StandsAt(v, k, l)'
                 PROVE  i = k /\ j = l
    BY DEF OnceQueued
  <2>2. /\ StandsAt(v, i, IF i = p THEN j + 1 ELSE j)
        /\ StandsAt(v, k, IF k = p THEN l + 1 ELSE l)
    BY <1>s, <2>1
  <2>3. /\ i = k
        /\ (IF i = p THEN j + 1 ELSE j) = (IF k = p THEN l + 1 ELSE l)
    BY <1>0, <2>2 DEF PlaceOK, OnePlace, OnceQueued
  <2> QED
    BY <2>3
<1>q. ASSUME NEW v \in VThreads, InQueue(v)' PROVE InQueue(v)
  <2>1. PICK i \in {0, 1}, j \in Nat : StandsAt(v, i, j)'
    BY <1>q DEF InQueue
  <2>2. StandsAt(v, i, IF i = p THEN j + 1 ELSE j)
    BY <1>s, <2>1
  <2> QED
    BY <2>2 DEF InQueue
<1>2. InQueue(u) /\ pc[u] \in {"b_yield", "b_blocked"} /\ u # a
  BY <1>0, <1>s, <1>1 DEF InQueue, PlaceOK, PointOK
<1>w. ASSUME NEW v \in VThreads
      PROVE  \A y \in Workers : SameFor(y, v)
  BY <1>0 DEF SameFor, Has, Takes
<1>3. ASSUME NEW v \in VThreads, v # a, v # u PROVE PlaceOK(v)'
  <2>1. InQueue(v) => InQueue(v)'
    BY <1>1, <1>3, PopLeaves
  <2>2. \A b \in Actors : got'[b] = v <=> got[b] = v
    BY <1>0, <1>1, <1>3
  <2> QED
    BY <1>0, <1>3, <1>o, <1>q, <1>w, <2>1, <2>2, PlaceFrame
<1>4. PlaceOK(u)'
  <2>1. ~InQueue(u)'
    <3>1. SUFFICES ASSUME NEW i \in {0, 1}, NEW j \in Nat, StandsAt(u, i, j)' PROVE FALSE
      BY DEF InQueue
    <3>2. j # 0 /\ StandsAt(u, i, IF i = p THEN j + 1 ELSE j) /\ StandsAt(u, p, 1)
      BY <1>s, <1>1, <3>1
    <3>3. i = p /\ (IF i = p THEN j + 1 ELSE j) = 1
      BY <1>0, <1>s, <3>2 DEF PlaceOK, OnePlace, OnceQueued
    <3> QED
      BY <3>2, <3>3
  <2>2. runq[u] = 0 /\ ~Taken(u) /\ ~BeingWoken(u) /\ Placed(u)
    BY <1>0, <1>2 DEF PlaceOK, OnePlace, Placed, TypeInv, TypeOK, SchedTypeOK
  <2>3. \A b \in Actors : got'[b] = u <=> b = a
    BY <1>0, <1>1, <2>2 DEF BeingWoken
  <2>4. ~Taken(u)' /\ BeingWoken(u)' /\ Placed(u)'
    BY <1>w, <2>2, <2>3 DEF Taken, SameFor, BeingWoken, Placed
  <2>5. OnePlace(u)'
    BY <1>0, <1>o, <1>w, <2>1, <2>2, <2>3, <2>4 DEF PlaceOK, OnePlace, SameFor
  <2>6. OneWorker(u)'
    BY <1>0, <1>2, <1>w, <2>2 DEF PlaceOK, OneWorker, SameFor, Pushed
  <2>7. PointOK(u)'
    BY <1>0, <1>2 DEF PlaceOK, PointOK
  <2> QED
    BY <2>5, <2>6, <2>7 DEF PlaceOK
<1>5. ASSUME a \in VThreads
      PROVE  PlaceOK(a)' /\ \A y \in Workers : pvth[y] = a => wpc[y] # "ret"
  <2>1. PICK w \in Workers : RunsOn(a, w) /\ \A y \in Workers : Has(y, a) <=> y = w
    BY <1>0, <1>5, Runs
  <2>2. ~Placed(a) /\ cur_status[a] # "FINISHED"
    BY <1>0, <1>5, Runs DEF PlaceInv, PointOK
  <2>3. ~InQueue(a)' /\ ~BeingWoken(a)'
    BY <1>0, <1>1, <1>2, <1>5, <1>q, <2>2 DEF Placed, BeingWoken
  <2>4. \A y \in Workers : (Has(y, a)' <=> Has(y, a)) /\ ~Takes(y, a)'
    BY <1>5, <1>w, <2>2 DEF SameFor, Placed, Taken
  <2>5. runq'[a] = 0
    BY <1>0, <1>5, <2>2 DEF Placed, TypeInv, TypeOK, SchedTypeOK
  <2>6. PlaceOK(a)'
    BY <1>0, <1>5, <1>o, <2>1, <2>2, <2>3, <2>4, <2>5, NowherePlaced
  <2> QED
    BY <2>1, <2>6 DEF Has, RunsOn
<1>6. ASSUME NEW y \in Workers PROVE CodeOK(y)'
  <2>1. CASE pvth[y] = a
    <3>1. wpc[y] # "ret"
      BY <1>5, <2>1 DEF TypeInv, ControlOK
    <3> QED
      BY <1>0, <3>1 DEF CodeOK, PlaceInv
  <2> QED
    BY <1>0, <2>1, CodesOfOthers
<1> QED
  BY <1>0, <1>3, <1>4, <1>5, <1>6 DEF PlaceInv, PlaceOK

\* The last arriver puts the waiter into the run queue.
LEMMA PlaceEnqueue ==
  ASSUME TypeInv, PlaceInv, NEW a \in Actors, EnqueueWaiter(a)
  PROVE  PlaceInv'
<1>1. PICK u \in VThreads : u = got[a]
  BY DEF TypeInv, TypeOK, ControlOK, CallOK, EnqueueWaiter, At
<1>0. /\ \A v \in VThreads : PlaceOK(v)
      /\ pvth' = pvth /\ wpc' = wpc /\ wret' = wret
      /\ runq' = [runq EXCEPT ![u] = @ + 1] /\ runq \in [VThreads -> Nat]
      /\ runnable' = runnable /\ cur_status' = cur_status /\ fault' = fault
      /\ fault # "stale_context"
      /\ blocked_vths' = blocked_vths
      /\ pc[a] = "b_enq" /\ pc'[a] = "b_pop" /\ Executing(a)
      /\ \A v \in VThreads : v # a => pc'[v] = pc[v]
      /\ \A b \in Actors : b # a => got'[b] = got[b]
      /\ got'[a] = None /\ None \notin VThreads
  BY <1>1, ActorsAssumption
     DEF PlaceInv, PlaceOK, workerVars, TypeInv, TypeOK, SchedTypeOK, Actors,
         EnqueueWaiter, Enqueue, Move, At
<1>2. BeingWoken(u) /\ pc[u] \in {"b_yield", "b_blocked"} /\ u # a
  BY <1>0, <1>1 DEF BeingWoken, PlaceOK, PointOK
<1>q. ASSUME NEW v \in VThreads PROVE OnceQueued(v)' /\ (InQueue(v)' <=> InQueue(v))
  <2>1. \A i \in {0, 1}, j \in Nat : StandsAt(v, i, j)' <=> StandsAt(v, i, j)
    BY <1>0 DEF StandsAt
  <2> QED
    BY <1>0, <2>1 DEF PlaceOK, OnePlace, OnceQueued, InQueue
<1>w. ASSUME NEW v \in VThreads
      PROVE  \A y \in Workers : SameFor(y, v)
  BY <1>0 DEF SameFor, Has, Takes
<1>3. ASSUME NEW v \in VThreads, v # a, v # u PROVE PlaceOK(v)'
  <2>1. (\A b \in Actors : got'[b] = v <=> got[b] = v) /\ runq'[v] = runq[v]
    BY <1>0, <1>1, <1>3
  <2> QED
    BY <1>0, <1>3, <1>q, <1>w, <2>1, PlaceFrame
<1>4. PlaceOK(u)'
  <2>1. runq[u] = 0 /\ ~Taken(u) /\ ~InQueue(u) /\ Placed(u)
    BY <1>0, <1>2 DEF PlaceOK, OnePlace, Placed
  <2>2. \A b \in Actors : got'[b] # u
    BY <1>0, <1>1 DEF PlaceOK, OnePlace
  <2>3. ~Taken(u)' /\ ~BeingWoken(u)' /\ ~InQueue(u)' /\ runq'[u] = 1
    BY <1>0, <1>q, <1>w, <2>1, <2>2 DEF Taken, SameFor, BeingWoken
  <2>4. OnePlace(u)'
    BY <1>0, <1>q, <1>w, <2>2, <2>3 DEF PlaceOK, OnePlace, SameFor
  <2>5. OneWorker(u)'
    BY <1>0, <1>2, <1>w, <2>1 DEF PlaceOK, OneWorker, SameFor, Pushed
  <2>6. PointOK(u)'
    BY <1>0, <1>2 DEF PlaceOK, PointOK
  <2> QED
    BY <2>4, <2>5, <2>6 DEF PlaceOK
<1>5. ASSUME a \in VThreads
      PROVE  PlaceOK(a)' /\ \A y \in Workers : pvth[y] = a => wpc[y] # "ret"
  <2>1. PICK w \in Workers : RunsOn(a, w) /\ \A y \in Workers : Has(y, a) <=> y = w
    BY <1>0, <1>5, Runs
  <2>2. ~Placed(a) /\ cur_status[a] # "FINISHED"
    BY <1>0, <1>5, Runs DEF PlaceInv, PointOK
  <2>3. ~InQueue(a)' /\ ~BeingWoken(a)'
    BY <1>0, <1>5, <1>q, <2>2 DEF Placed, BeingWoken
  <2>4. \A y \in Workers : (Has(y, a)' <=> Has(y, a)) /\ ~Takes(y, a)'
    BY <1>5, <1>w, <2>2 DEF SameFor, Placed, Taken
  <2>5. runq'[a] = 0
    BY <1>0, <1>2, <1>5, <2>2 DEF Placed
  <2>6. PlaceOK(a)'
    BY <1>0, <1>5, <1>q, <2>1, <2>2, <2>3, <2>4, <2>5, NowherePlaced
  <2> QED
    BY <2>1, <2>6 DEF Has, RunsOn
<1>6. ASSUME NEW y \in Workers PROVE CodeOK(y)'
  <2>1. CASE pvth[y] = a
    <3>1. wpc[y] # "ret"
      BY <1>5, <2>1 DEF TypeInv, ControlOK
    <3> QED
      BY <1>0, <3>1 DEF CodeOK, PlaceInv
  <2> QED
    BY <1>0, <2>1, CodesOfOthers
<1> QED
  BY <1>0, <1>3, <1>4, <1>5, <1>6 DEF PlaceInv, PlaceOK

\* A step of an actor keeps every vthread in its place.
LEMMA PlaceActor ==
  ASSUME TypeInv, PlaceInv, NEW a \in Actors, ActorStep(a)
  PROVE  PlaceInv'
<1>0. /\ pc \in [Actors -> PCs] /\ fault # "stale_context"
      /\ \A v \in VThreads : v \in Actors
      /\ runnable \in [VThreads -> BOOLEAN]
  BY DEF TypeInv, TypeOK, SchedTypeOK, PlaceInv, Actors
<1>1. CASE ReadRound(a)
  BY <1>0, <1>1, PlaceQuiet DEF ReadRound, At, Move, schedVars, workerVars
<1>2. CASE AddWaiter(a)
  <2>1. PICK l \in {"b_hide", "b_look", "b_cas"} : pc' = [pc EXCEPT ![a] = l]
    BY <1>2 DEF AddWaiter, Move, Waiting
  <2> QED
    BY <1>0, <1>2, <2>1, PlaceQuiet DEF AddWaiter, At, schedVars, workerVars
<1>3. CASE Hide(a)
  <2>1. CASE /\ a \in VThreads
             /\ runnable' = [runnable EXCEPT ![a] = FALSE]
             /\ pc' = [pc EXCEPT ![a] = "b_push"]
             /\ UNCHANGED fault
    <3>1. /\ \A v \in VThreads : v # a => pc'[v] = pc[v] /\ runnable'[v] = runnable[v]
          /\ ~runnable'[a]
      BY <1>0, <2>1
    <3> QED
      BY <1>0, <1>3, <2>1, <3>1, PlaceQuiet DEF Hide, At
  <2>2. CASE a \in RawThreads /\ fault' = "nullptr" /\ UNCHANGED <<runnable, pc>>
    BY <1>0, <1>3, <2>2, PlaceQuiet DEF Hide, At
  <2> QED
    BY <1>3, <2>1, <2>2 DEF Hide, Move
<1>4. CASE Push(a)
  BY <1>4, PlacePush
<1>5. CASE Block(a)
  BY <1>5, PlaceYield DEF Block, At, Move
<1>6. CASE Released(a)
  BY <1>0, <1>6, PlaceQuiet DEF Released, Leave, At, Move, schedVars, workerVars
<1>7. CASE LookAgain(a)
  <2>1. pc' = [pc EXCEPT ![a] = "b_look"] /\ UNCHANGED <<got, blocked_vths>>
    BY <1>0, <1>7 DEF LookAgain, barrierVars, At
  <2> QED
    BY <1>7, <2>1, PlaceYield DEF LookAgain, At
<1>8. CASE LookReleased(a)
  <2>1. pc'[a] \in {"ready", "b_look"} /\ \A v \in VThreads : v # a => pc'[v] = pc[v]
    BY <1>0, <1>8 DEF LookReleased, Leave, At, Move
  <2> QED
    BY <1>0, <1>8, <2>1, PlaceQuiet DEF LookReleased, At, schedVars, workerVars
<1>9. CASE ResetWaiters(a)
  BY <1>0, <1>9, PlaceQuiet DEF ResetWaiters, At, Move, schedVars, workerVars
<1>10. CASE NextRound(a)
  BY <1>0, <1>10, PlaceQuiet DEF NextRound, At, Move, schedVars, workerVars
<1>11. CASE PopWaiter(a)
  BY <1>11, PlacePop
<1>12. CASE PopEmpty(a)
  <2>1. pc' = [pc EXCEPT ![a] = "b_pop"] /\ UNCHANGED <<got, blocked_vths>>
    BY <1>0, <1>12 DEF PopEmpty, barrierVars, At
  <2> QED
    BY <1>12, <2>1, PlaceYield DEF PopEmpty, At
<1>13. CASE EnqueueWaiter(a)
  BY <1>13, PlaceEnqueue
<1>14. CASE ReturnSerial(a)
  BY <1>0, <1>14, PlaceQuiet DEF ReturnSerial, Leave, At, Move, schedVars, workerVars
<1>15. CASE End(a)
  BY <1>15, PlaceYield DEF End, At, Move
<1> QED
  BY <1>1, <1>2, <1>3, <1>4, <1>5, <1>6, <1>7, <1>8, <1>9, <1>10, <1>11, <1>12,
     <1>13, <1>14, <1>15 DEF ActorStep

\* In the initial states every vthread is in the run queue.
LEMMA PlaceInit == Init => PlaceInv
<1> SUFFICES ASSUME Init PROVE PlaceInv
  OBVIOUS
<1>1. \A w \in Workers : wpc[w] = "idle" /\ CodeOK(w)
  BY DEF Init, SchedInit, CodeOK
<1>2. ASSUME NEW v \in VThreads PROVE OnePlace(v) /\ OneWorker(v) /\ PointOK(v)
  <2>1. /\ runq[v] = 1 /\ runnable[v] = TRUE /\ cur_status[v] = "SUSPENDED"
        /\ pc[v] = "ready"
    BY DEF Init, SchedInit, Actors
  <2>2. \A w \in Workers : ~Takes(w, v) /\ ~Has(w, v)
    BY <1>1 DEF Takes, Has
  <2>3. \A a \in Actors : got[a] # v
    BY ActorsAssumption DEF Init
  <2>4. \A i \in {0, 1}, j \in Nat : ~StandsAt(v, i, j)
    BY DEF Init, StandsAt
  <2>5. ~Taken(v) /\ ~InQueue(v) /\ ~BeingWoken(v)
    BY <2>2, <2>3, <2>4 DEF Taken, InQueue, BeingWoken
  <2>6. OnePlace(v)
    BY <2>1, <2>2, <2>3, <2>4, <2>5 DEF OnePlace, OnceQueued
  <2>7. OneWorker(v)
    BY <2>2 DEF OneWorker
  <2>8. PointOK(v)
    BY <2>1, <2>5 DEF PointOK
  <2> QED
    BY <2>6, <2>7, <2>8
<1>3. fault = "none"
  BY DEF Init, SchedInit
<1> QED
  BY <1>1, <1>2, <1>3 DEF PlaceInv

-----------------------------------------------------------------------------
(***************************************************************************)
(* Rounds, when the barrier is used by as many as it counts.               *)
(***************************************************************************)

\* Those who have arrived in the current round.
Here == {a \in Parties : arrived[a] = cur_round + 1}

\* Those who complete the current round, and those who wake up the waiters of
\* the one before.
Last == {a \in Parties : pc[a] \in {"b_cas", "b_inc"}}
Wakes == {a \in Parties : pc[a] \in {"b_pop", "b_enq"}}

\* Where a party is between the round before and the current one.
PartyOK(a) ==
  /\ arrived[a] \in {cur_round, cur_round + 1}
  /\ left[a] <= cur_round
  /\ pc[a] = "b_add" => round[a] = cur_round
  /\ pc[a] \in Inside => round[a] = arrived[a] - 1
  /\ a \in Last => cur_waiter[a] = Count
  /\ a \in Wakes => arrived[a] = cur_round

\* Somebody completes the current round exactly when everybody is in it.
LastOK ==
  /\ Last # {} <=> Here = Parties
  /\ \A a, b \in Last : a = b
  /\ cur_waiters = IF \E a \in Last : pc[a] = "b_inc" THEN 0 ELSE Cardinality(Here)

\* One party wakes up the waiters of the round before, or has done so and left.
WakesOK ==
  /\ \A a, b \in Wakes : a = b
  /\ serials = cur_round - (IF Wakes # {} THEN 1 ELSE 0)
  /\ cur_round > 0 => Wakes # {} \/ \E a \in Parties : left[a] = cur_round

\* A queue has the waiters of its parity, and a waiter that has been taken out
\* is of a round that is complete.
QueueOK ==
  /\ \A v \in VThreads, i \in {0, 1}, j \in Nat : StandsAt(v, i, j) => Parity(v) = i
  /\ \A v \in VThreads :
       pc[v] \in {"b_yield", "b_blocked"} => InQueue(v) \/ round[v] < cur_round

RoundInv ==
  /\ \A a \in Parties : PartyOK(a)
  /\ LastOK
  /\ WakesOK
  /\ QueueOK
  /\ ~misfired

BarrierIInv == TypeInv /\ PlaceInv /\ (Matched => RoundInv)

\* The program that runs does not change.
LEMMA SetupKept ==
  ASSUME UNCHANGED setup
  PROVE  Parties' = Parties /\ Count' = Count /\ (Matched' <=> Matched)
BY DEF Parties, Count, Matched

\* What the types say of a party.
LEMMA PartyFacts ==
  ASSUME TypeInv, NEW a \in Parties
  PROVE  /\ a \in Actors /\ pc[a] \in PCs /\ round[a] \in Nat /\ cur_waiter[a] \in Nat
         /\ arrived[a] \in Nat /\ left[a] \in Nat
         /\ arrived[a] = left[a] + (IF pc[a] \in Inside THEN 1 ELSE 0)
         /\ cur_round \in Nat /\ serials \in Nat /\ cur_waiters \in Nat
<1>1. a \in Actors
  BY DEF Parties
<1>2. MaxRounds \in Nat
  BY BarrierAssumption
<1> QED
  BY <1>1, <1>2 DEF TypeInv, TypeOK, ControlOK, CallOK

\* Only a party is anywhere in pthread_barrier_wait.
LEMMA InsideParties ==
  ASSUME TypeInv, NEW a \in Actors, pc[a] \notin {"ready", "ended"}
  PROVE  a \in Parties
<1>1. left[a] \in Nat /\ left[a] < setup.rounds[a] /\ setup.rounds[a] \in Nat
  BY SetupFacts DEF TypeInv, TypeOK, ControlOK, CallOK
<1> QED
  BY <1>1 DEF Parties

\* The parties are finitely many, and at least one.
LEMMA PartiesFinite ==
  ASSUME TypeInv, Matched
  PROVE  /\ IsFiniteSet(Parties) /\ Parties # {} /\ Cardinality(Parties) = Count
         /\ Count \in Nat \ {0}
         /\ IsFiniteSet(Here) /\ Cardinality(Here) \in Nat
<1>1. Parties \subseteq Actors /\ Here \subseteq Parties
  BY DEF Parties, Here
<1>2. IsFiniteSet(Parties) /\ IsFiniteSet(Here)
  BY <1>1, BarrierAssumption, FS_Subset
<1>3. Count \in Nat \ {0} /\ Cardinality(Parties) = Count
  BY SetupFacts DEF TypeInv, Matched
<1> QED
  BY <1>2, <1>3, FS_EmptySet, FS_CardinalityType

\* A vthread of one of the queues is a party that waits.
LEMMA QueuedParty ==
  ASSUME TypeInv, PlaceInv, NEW v \in VThreads, InQueue(v)
  PROVE  v \in Parties /\ pc[v] \in {"b_yield", "b_blocked"}
<1>1. pc[v] \in {"b_yield", "b_blocked"} /\ v \in Actors
  BY DEF PlaceInv, PointOK, Actors
<1> QED
  BY <1>1, InsideParties

\* A step that leaves counters and arrivals alone.
LEMMA SameRounds ==
  ASSUME TypeInv, RoundInv, QueueOK',
         UNCHANGED <<setup, cur_waiters, cur_round, serials, misfired, arrived, left, round>>,
         \A b \in Parties : /\ pc'[b] \in Inside <=> pc[b] \in Inside
                            /\ pc'[b] = "b_add" <=> pc[b] = "b_add"
                            /\ pc'[b] = "b_inc" <=> pc[b] = "b_inc"
                            /\ pc'[b] = "b_cas" <=> pc[b] = "b_cas"
                            /\ pc'[b] \in {"b_pop", "b_enq"} <=> pc[b] \in {"b_pop", "b_enq"}
                            /\ pc[b] \in {"b_cas", "b_inc"} => cur_waiter'[b] = cur_waiter[b]
  PROVE  RoundInv'
<1>1. Parties' = Parties /\ Count' = Count
  BY SetupKept
<1>2. Here' = Here /\ Last' = Last /\ Wakes' = Wakes
  BY <1>1 DEF Here, Last, Wakes
<1>3. ASSUME NEW b \in Parties PROVE PartyOK(b)'
  BY <1>1, <1>2 DEF RoundInv, PartyOK, Last
<1>4. (\E a \in Last : pc'[a] = "b_inc") <=> \E a \in Last : pc[a] = "b_inc"
  BY DEF Last
<1>5. LastOK'
  BY <1>1, <1>2, <1>4 DEF RoundInv, LastOK
<1>6. WakesOK'
  BY <1>1, <1>2 DEF RoundInv, WakesOK
<1>7. misfired' = misfired /\ ~misfired
  BY DEF RoundInv
<1> QED
  BY <1>1, <1>3, <1>5, <1>6, <1>7 DEF RoundInv

\* The queues, when a step leaves them and the waiters' rounds alone.
LEMMA QueueKept ==
  ASSUME QueueOK, blocked_vths' = blocked_vths, cur_round \in Nat, cur_round' \in Nat,
         cur_round' >= cur_round, round \in [Actors -> Nat],
         \A v \in VThreads : InQueue(v) => round'[v] = round[v],
         \A v \in VThreads : pc'[v] \in {"b_yield", "b_blocked"} =>
                               /\ pc[v] \in {"b_yield", "b_blocked"}
                               /\ round'[v] = round[v]
  PROVE  QueueOK'
<1>1. \A v \in VThreads : InQueue(v)' <=> InQueue(v)
  BY DEF InQueue, StandsAt
<1>2. ASSUME NEW v \in VThreads, NEW i \in {0, 1}, NEW j \in Nat, StandsAt(v, i, j)'
      PROVE  Parity(v)' = i
  <2>1. StandsAt(v, i, j)
    BY <1>2 DEF StandsAt
  <2>2. InQueue(v)
    BY <2>1 DEF InQueue
  <2> QED
    BY <2>1, <2>2 DEF QueueOK, Parity
<1>3. ASSUME NEW v \in VThreads, pc'[v] \in {"b_yield", "b_blocked"}
      PROVE  InQueue(v)' \/ round'[v] < cur_round'
  <2>1. InQueue(v) \/ round[v] < cur_round
    BY <1>3 DEF QueueOK
  <2>2. round[v] \in Nat /\ round'[v] = round[v]
    BY <1>3 DEF Actors
  <2> QED
    BY <1>1, <2>1, <2>2
<1> QED
  BY <1>2, <1>3 DEF QueueOK

\* An arrival: the last one of the round is told by the count.
LEMMA RoundAdd ==
  ASSUME TypeInv, PlaceInv, Matched, RoundInv, NEW a \in Actors, AddWaiter(a),
         UNCHANGED setup
  PROVE  RoundInv'
<1>0. /\ pc[a] = "b_add" /\ pc \in [Actors -> PCs]
      /\ cur_waiters' = cur_waiters + 1
      /\ cur_waiter' = [cur_waiter EXCEPT ![a] = cur_waiters + 1]
      /\ arrived' = [arrived EXCEPT ![a] = @ + 1]
      /\ pc' = [pc EXCEPT ![a] = IF cur_waiters + 1 # Count THEN Waiting ELSE "b_cas"]
      /\ UNCHANGED <<cur_round, blocked_vths, round, got, left, serials, misfired>>
      /\ Waiting \in {"b_hide", "b_look"}
      /\ arrived \in [Actors -> 0..MaxRounds] /\ cur_waiter \in [Actors -> Nat]
      /\ round \in [Actors -> Nat] /\ cur_round \in Nat
      /\ blocked_vths' = blocked_vths
  BY DEF TypeInv, TypeOK, AddWaiter, At, Move, Waiting
<1>1. a \in Parties
  BY <1>0, InsideParties
<1>2. arrived[a] = cur_round /\ left[a] = cur_round /\ round[a] = cur_round
  BY <1>0, <1>1, PartyFacts DEF RoundInv, PartyOK, Inside
<1>3. /\ IsFiniteSet(Parties) /\ Cardinality(Parties) = Count /\ Parties # {}
      /\ IsFiniteSet(Here) /\ Cardinality(Here) \in Nat /\ Count \in Nat
  BY PartiesFinite
<1>4. a \notin Here /\ Last = {}
  BY <1>0, <1>1, <1>2 DEF Here, RoundInv, LastOK
<1>5. cur_waiters = Cardinality(Here)
  BY <1>4 DEF RoundInv, LastOK
<1>6. Parties' = Parties /\ Count' = Count
  BY SetupKept
<1>7. Here' = Here \cup {a}
  <2>1. arrived'[a] = cur_round + 1 /\ \A b \in Parties : b # a => arrived'[b] = arrived[b]
    BY <1>0, <1>1, <1>2 DEF Parties
  <2> QED
    BY <1>0, <1>1, <1>6, <2>1 DEF Here
<1>8. Cardinality(Here') = cur_waiters + 1
  BY <1>3, <1>4, <1>5, <1>7, FS_AddElement
<1>9. Here' = Parties <=> cur_waiters + 1 = Count
  <2>1. Here' \subseteq Parties
    BY <1>1, <1>7 DEF Here
  <2>2. Cardinality(Here') = Cardinality(Parties) => Here' = Parties
    BY <1>3, <2>1, FS_Subset
  <2> QED
    BY <1>3, <1>8, <2>2
<1>10. Last' = IF cur_waiters + 1 = Count THEN {a} ELSE {}
  <2>1. \A b \in Parties : b # a => pc'[b] = pc[b]
    BY <1>0 DEF Parties
  <2>2. pc'[a] = IF cur_waiters + 1 # Count THEN Waiting ELSE "b_cas"
    BY <1>0
  <2> QED
    BY <1>0, <1>1, <1>4, <1>6, <2>1, <2>2 DEF Last
<1>11. Wakes' = Wakes
  <2>1. pc'[a] \notin {"b_pop", "b_enq"} /\ \A b \in Parties : b # a => pc'[b] = pc[b]
    BY <1>0 DEF Parties
  <2> QED
    BY <1>0, <1>6, <2>1 DEF Wakes
<1>12. ASSUME NEW b \in Parties PROVE PartyOK(b)'
  <2>1. CASE b = a
    <3>1. arrived'[a] = cur_round + 1 /\ pc'[a] \in {"b_hide", "b_look", "b_cas"}
      BY <1>0, <1>2
    <3>2. a \in Last' => cur_waiter'[a] = Count
      BY <1>0, <1>10
    <3>3. a \notin Wakes'
      BY <3>1 DEF Wakes
    <3> QED
      BY <1>0, <1>2, <1>6, <2>1, <3>1, <3>2, <3>3 DEF PartyOK
  <2>2. CASE b # a
    <3>1. /\ pc'[b] = pc[b] /\ arrived'[b] = arrived[b]
          /\ (b \in Wakes' <=> b \in Wakes) /\ b \notin Last'
      BY <1>0, <1>10, <1>11, <2>2 DEF Parties
    <3> QED
      BY <1>0, <3>1 DEF RoundInv, PartyOK
  <2> QED
    BY <2>1, <2>2
<1>13. LastOK'
  <2>1. ~\E b \in Last' : pc'[b] = "b_inc"
    BY <1>0, <1>10
  <2>2. \A b, d \in Last' : b = d
    BY <1>10
  <2>3. Last' # {} <=> Here' = Parties'
    BY <1>6, <1>9, <1>10
  <2> QED
    BY <1>0, <1>8, <2>1, <2>2, <2>3 DEF LastOK
<1>14. WakesOK'
  BY <1>0, <1>6, <1>11 DEF RoundInv, WakesOK
<1>15. QueueOK'
  <2>1. \A v \in VThreads : v \in Actors
    BY DEF Actors
  <2>2. pc'[a] \notin {"b_yield", "b_blocked"} /\ \A b \in Actors : b # a => pc'[b] = pc[b]
    BY <1>0
  <2> QED
    BY <1>0, <2>1, <2>2, QueueKept DEF RoundInv
<1>16. ~misfired'
  BY <1>0 DEF RoundInv
<1> QED
  BY <1>6, <1>12, <1>13, <1>14, <1>15, <1>16 DEF RoundInv

\* A party returns from the round that is complete.
LEMMA RoundLeave ==
  ASSUME TypeInv, PlaceInv, Matched, RoundInv, NEW a \in Parties, Leave(a),
         pc[a] \in Inside \ {"b_cas", "b_inc"}, arrived[a] = cur_round,
         a \in VThreads => ~InQueue(a),
         serials' = serials + (IF a \in Wakes THEN 1 ELSE 0),
         UNCHANGED <<setup, cur_waiters, cur_round, blocked_vths, arrived, misfired>>
  PROVE  RoundInv'
<1>0. /\ a \in Actors /\ pc \in [Actors -> PCs] /\ cur_round \in Nat
      /\ pc' = [pc EXCEPT ![a] = "ready"]
      /\ round' = [round EXCEPT ![a] = 0] /\ round \in [Actors -> Nat]
      /\ cur_waiter' = [cur_waiter EXCEPT ![a] = 0]
      /\ cur_waiter \in [Actors -> Nat]
      /\ left' = [left EXCEPT ![a] = @ + 1] /\ left \in [Actors -> 0..MaxRounds]
      /\ serials \in Nat
  BY DEF TypeInv, TypeOK, Leave, Move, Parties
<1>1. left[a] + 1 = cur_round
  BY PartyFacts
<1>2. Parties' = Parties /\ Count' = Count
  BY SetupKept
<1>3. /\ pc'[a] = "ready" /\ left'[a] = cur_round
      /\ \A b \in Actors : b # a => /\ pc'[b] = pc[b] /\ left'[b] = left[b]
                                    /\ round'[b] = round[b]
                                    /\ cur_waiter'[b] = cur_waiter[b]
  BY <1>0, <1>1
<1>4. Here' = Here /\ Last' = Last
  BY <1>2, <1>3 DEF Here, Last, Parties
<1>5. Wakes' = Wakes \ {a}
  BY <1>2, <1>3 DEF Wakes, Parties
<1>6. ASSUME NEW b \in Parties PROVE PartyOK(b)'
  <2>1. CASE b = a
    <3>1. a \notin Last' /\ a \notin Wakes'
      BY <1>3 DEF Last, Wakes
    <3> QED
      BY <1>0, <1>3, <2>1, <3>1 DEF PartyOK, Inside
  <2>2. CASE b # a
    BY <1>2, <1>3, <1>4, <1>5, <2>2 DEF RoundInv, PartyOK, Parties
  <2> QED
    BY <2>1, <2>2
<1>7. LastOK'
  <2>1. a \notin Last
    BY DEF Last
  <2>2. (\E b \in Last : pc'[b] = "b_inc") <=> \E b \in Last : pc[b] = "b_inc"
    BY <1>3, <2>1 DEF Last, Parties
  <2> QED
    BY <1>2, <1>4, <2>2 DEF RoundInv, LastOK
<1>8. WakesOK'
  <2>1. \A b, d \in Wakes : b = d
    BY DEF RoundInv, WakesOK
  <2>2. a \in Wakes => Wakes' = {}
    BY <1>5, <2>1
  <2>3. a \notin Wakes => Wakes' = Wakes
    BY <1>5
  <2>4. serials' = cur_round - (IF Wakes' # {} THEN 1 ELSE 0)
    BY <1>0, <2>2, <2>3 DEF RoundInv, WakesOK
  <2> QED
    BY <1>2, <1>3, <1>5, <2>1, <2>4 DEF WakesOK
<1>9. QueueOK'
  <2>1. \A v \in VThreads : v \in Actors
    BY DEF Actors
  <2> QED
    BY <1>0, <1>3, <2>1, QueueKept DEF RoundInv
<1>10. ~misfired'
  BY DEF RoundInv
<1> QED
  BY <1>2, <1>6, <1>7, <1>8, <1>9, <1>10 DEF RoundInv

\* The last arriver finds the count as it left it, and resets it.
LEMMA RoundReset ==
  ASSUME TypeInv, PlaceInv, Matched, RoundInv, NEW a \in Actors, ResetWaiters(a),
         UNCHANGED setup
  PROVE  RoundInv'
<1>0. /\ pc[a] = "b_cas" /\ pc \in [Actors -> PCs] /\ cur_round \in Nat
      /\ pc' = [pc EXCEPT ![a] = "b_inc"] /\ round \in [Actors -> Nat]
      /\ UNCHANGED <<cur_round, blocked_vths, round, cur_waiter, got, arrived, left, serials>>
  BY DEF TypeInv, TypeOK, ResetWaiters, At, Move
<1>1. a \in Parties /\ a \in Last
  BY <1>0, InsideParties DEF Last
<1>2. \A b \in Last : b = a
  BY <1>1 DEF RoundInv, LastOK
<1>3. Here = Parties /\ cur_waiter[a] = Count
  BY <1>1 DEF RoundInv, LastOK, PartyOK
<1>4. cur_waiters = Count
  BY <1>0, <1>2, <1>3, PartiesFinite DEF RoundInv, LastOK
<1>5. cur_waiters' = 0 /\ misfired' = misfired
  BY <1>3, <1>4 DEF ResetWaiters
<1>6. Parties' = Parties /\ Count' = Count
  BY SetupKept
<1>7. pc'[a] = "b_inc" /\ \A b \in Actors : b # a => pc'[b] = pc[b]
  BY <1>0
<1>8. Here' = Here /\ Last' = Last /\ Wakes' = Wakes
  BY <1>0, <1>6, <1>7 DEF Here, Last, Wakes, Parties
<1>9. ASSUME NEW b \in Parties PROVE PartyOK(b)'
  BY <1>0, <1>6, <1>7, <1>8 DEF RoundInv, PartyOK, Parties, Inside
<1>10. LastOK'
  BY <1>1, <1>5, <1>6, <1>7, <1>8 DEF RoundInv, LastOK
<1>11. WakesOK'
  BY <1>0, <1>6, <1>8 DEF RoundInv, WakesOK
<1>12. QueueOK'
  <2>1. \A v \in VThreads : v \in Actors
    BY DEF Actors
  <2> QED
    BY <1>0, <1>7, <2>1, QueueKept DEF RoundInv
<1>13. ~misfired'
  BY <1>5 DEF RoundInv
<1> QED
  BY <1>6, <1>9, <1>10, <1>11, <1>12, <1>13 DEF RoundInv

\* The next round starts when all are in this one and nobody is left to wake up
\* the waiters of the round before.
LEMMA RoundNext ==
  ASSUME TypeInv, PlaceInv, Matched, RoundInv, NEW a \in Actors, NextRound(a),
         UNCHANGED setup
  PROVE  RoundInv'
<1>0. /\ pc[a] = "b_inc" /\ pc \in [Actors -> PCs] /\ cur_round \in Nat
      /\ pc' = [pc EXCEPT ![a] = "b_pop"] /\ round \in [Actors -> Nat]
      /\ cur_round' = cur_round + 1
      /\ UNCHANGED <<cur_waiters, blocked_vths, round, cur_waiter, got, arrived, left,
                     serials, misfired>>
  BY DEF TypeInv, TypeOK, NextRound, At, Move
<1>1. a \in Parties /\ a \in Last
  BY <1>0, InsideParties DEF Last
<1>2. (\A b \in Last : b = a) /\ Here = Parties /\ cur_waiters = 0
  BY <1>0, <1>1 DEF RoundInv, LastOK
<1>3. \A b \in Parties : arrived[b] = cur_round + 1
  BY <1>2 DEF Here
<1>4. Wakes = {}
  <2>1. \A b \in Wakes : b \in Parties /\ arrived[b] = cur_round
    BY DEF RoundInv, PartyOK, Wakes
  <2> QED
    BY <1>0, <1>3, <2>1
<1>5. Parties' = Parties /\ Count' = Count
  BY SetupKept
<1>6. pc'[a] = "b_pop" /\ \A b \in Actors : b # a => pc'[b] = pc[b]
  BY <1>0
<1>7. Last' = {}
  BY <1>2, <1>5, <1>6 DEF Last, Parties
<1>8. Wakes' = {a}
  BY <1>1, <1>4, <1>5, <1>6 DEF Wakes, Parties
<1>9. Here' = {}
  BY <1>0, <1>3, <1>5 DEF Here
<1>10. ASSUME NEW b \in Parties PROVE PartyOK(b)'
  <2>1. /\ arrived[b] \in Nat /\ left[b] \in Nat
        /\ arrived[b] = left[b] + (IF pc[b] \in Inside THEN 1 ELSE 0)
    BY PartyFacts
  <2>2. left[b] <= cur_round /\ (pc[b] \in Inside => round[b] = arrived[b] - 1)
    BY DEF RoundInv, PartyOK
  <2>3. pc'[b] \in Inside <=> pc[b] \in Inside
    BY <1>0, <1>6 DEF Inside, Parties
  <2>4. pc[b] \in Inside
    BY <1>0, <1>3, <2>1, <2>2
  <2>5. pc'[b] # "b_add"
    BY <2>3, <2>4 DEF Inside
  <2>6. b \notin Last'
    BY <1>7
  <2>7. arrived'[b] = cur_round' /\ left'[b] <= cur_round' /\ round'[b] = arrived'[b] - 1
    BY <1>0, <1>3, <2>1, <2>2, <2>4
  <2> QED
    BY <2>5, <2>6, <2>7 DEF PartyOK
<1>11. LastOK'
  BY <1>0, <1>2, <1>5, <1>7, <1>9, PartiesFinite, FS_EmptySet DEF LastOK
<1>12. WakesOK'
  <2>1. serials' = cur_round' - 1
    BY <1>0, <1>4 DEF RoundInv, WakesOK
  <2> QED
    BY <1>8, <2>1 DEF WakesOK
<1>13. QueueOK'
  <2>1. \A v \in VThreads : v \in Actors
    BY DEF Actors
  <2>2. cur_round' \in Nat /\ cur_round' >= cur_round
    BY <1>0
  <2> QED
    BY <1>0, <1>6, <2>1, <2>2, QueueKept DEF RoundInv
<1>14. ~misfired'
  BY <1>0 DEF RoundInv
<1> QED
  BY <1>5, <1>10, <1>11, <1>12, <1>13, <1>14 DEF RoundInv

\* A call reads the current round.
LEMMA RoundRead ==
  ASSUME TypeInv, PlaceInv, RoundInv, NEW a \in Actors, ReadRound(a),
         UNCHANGED setup
  PROVE  RoundInv'
<1>0. /\ pc[a] = "ready" /\ pc \in [Actors -> PCs] /\ cur_round \in Nat
      /\ pc' = [pc EXCEPT ![a] = "b_add"]
      /\ round' = [round EXCEPT ![a] = cur_round] /\ round \in [Actors -> Nat]
      /\ UNCHANGED <<cur_waiters, cur_round, blocked_vths, cur_waiter, got, arrived, left,
                     serials, misfired>>
  BY DEF TypeInv, TypeOK, ReadRound, At, Move
<1>1. Parties' = Parties /\ Count' = Count
  BY SetupKept
<1>2. /\ pc'[a] = "b_add" /\ round'[a] = cur_round
      /\ \A b \in Actors : b # a => pc'[b] = pc[b] /\ round'[b] = round[b]
  BY <1>0
<1>3. Here' = Here /\ Last' = Last /\ Wakes' = Wakes
  BY <1>0, <1>1, <1>2 DEF Here, Last, Wakes, Parties
<1>4. ASSUME NEW b \in Parties PROVE PartyOK(b)'
  <2>1. b = a => b \notin Last' /\ b \notin Wakes'
    BY <1>2 DEF Last, Wakes
  <2> QED
    BY <1>0, <1>1, <1>2, <1>3, <2>1 DEF RoundInv, PartyOK, Parties, Inside
<1>5. LastOK'
  <2>1. (\E b \in Last : pc'[b] = "b_inc") <=> \E b \in Last : pc[b] = "b_inc"
    BY <1>0, <1>2 DEF Last, Parties
  <2> QED
    BY <1>0, <1>1, <1>3, <2>1 DEF RoundInv, LastOK
<1>6. WakesOK'
  BY <1>0, <1>1, <1>3 DEF RoundInv, WakesOK
<1>7. QueueOK'
  <2>1. \A v \in VThreads : v \in Actors /\ (InQueue(v) => v # a)
    BY <1>0, QueuedParty DEF Actors
  <2> QED
    BY <1>0, <1>2, <2>1, QueueKept DEF RoundInv
<1>8. ~misfired'
  BY <1>0 DEF RoundInv
<1> QED
  BY <1>1, <1>4, <1>5, <1>6, <1>7, <1>8 DEF RoundInv

\* A waiter goes into the queue of its round.
LEMMA RoundPush ==
  ASSUME TypeInv, PlaceInv, RoundInv, NEW a \in Actors, Push(a), UNCHANGED setup
  PROVE  RoundInv'
<1>0. /\ pc[a] = "b_push" /\ pc \in [Actors -> PCs]
      /\ pc' = [pc EXCEPT ![a] = "b_yield"]
      /\ UNCHANGED <<cur_waiters, cur_round, round, cur_waiter, got, arrived, left,
                     serials, misfired>>
  BY DEF TypeInv, TypeOK, Push, At, Move
<1>1. pc'[a] = "b_yield" /\ \A b \in Actors : b # a => pc'[b] = pc[b]
  BY <1>0
<1>2. \A v \in VThreads : (InQueue(v) => InQueue(v)') /\ InQueue(a)'
  <2>1. Len(blocked_vths[Parity(a)]) + 1 \in Nat /\ Parity(a) \in {0, 1} /\ a \in VThreads
    BY PushStands DEF TypeInv, TypeOK
  <2>2. InQueue(a)'
    <3>1. PICK i \in {0, 1}, j \in Nat : i = Parity(a) /\ j = Len(blocked_vths[i]) + 1
      BY <2>1
    <3>2. StandsAt(a, i, j)'
      BY <2>1, <3>1, PushStands
    <3> QED
      BY <3>2 DEF InQueue
  <2> QED
    BY <2>1, <2>2, PushStands DEF InQueue
<1>3. QueueOK'
  <2>1. ASSUME NEW v \in VThreads, NEW i \in {0, 1}, NEW j \in Nat, StandsAt(v, i, j)'
        PROVE  Parity(v)' = i
    BY <1>0, <2>1, PushStands DEF RoundInv, QueueOK, Parity
  <2>2. ASSUME NEW v \in VThreads, pc'[v] \in {"b_yield", "b_blocked"}
        PROVE  InQueue(v)' \/ round'[v] < cur_round'
    BY <1>0, <1>1, <1>2, <2>2 DEF RoundInv, QueueOK, Actors
  <2> QED
    BY <2>1, <2>2 DEF QueueOK
<1>4. \A b \in Parties : b \in Actors
  BY DEF Parties
<1> QED
  BY <1>0, <1>1, <1>3, <1>4, SameRounds DEF Inside

\* The one who is taken out of a queue waits for a round that is complete.
LEMMA RoundPop ==
  ASSUME TypeInv, PlaceInv, RoundInv, NEW a \in Actors, PopWaiter(a), UNCHANGED setup
  PROVE  RoundInv'
<1>0. /\ pc[a] = "b_pop" /\ pc \in [Actors -> PCs] /\ cur_round \in Nat
      /\ pc' = [pc EXCEPT ![a] = "b_enq"]
      /\ cur_waiter' = [cur_waiter EXCEPT ![a] = @ - 1] /\ cur_waiter \in [Actors -> Nat]
      /\ round \in [Actors -> Nat]
      /\ UNCHANGED <<cur_waiters, cur_round, round, arrived, left, serials, misfired>>
  BY DEF TypeInv, TypeOK, PopWaiter, At, Move
<1>1. /\ pc'[a] = "b_enq"
      /\ \A b \in Actors : b # a => pc'[b] = pc[b] /\ cur_waiter'[b] = cur_waiter[b]
  BY <1>0
<1>2. a \in Parties /\ arrived[a] = cur_round /\ round[a] = cur_round - 1
  <2>1. a \in Parties /\ a \in Wakes /\ pc[a] \in Inside
    BY <1>0, InsideParties DEF Wakes, Inside
  <2> QED
    BY <2>1 DEF RoundInv, PartyOK
<1>3. PICK u \in VThreads : u = got'[a]
  BY PopStands
<1>4. round[u] < cur_round
  <2>1. StandsAt(u, Parity(a), 1) /\ Parity(a) \in {0, 1}
    BY <1>3, PopStands
  <2>2. Parity(u) = Parity(a) /\ InQueue(u)
    BY <2>1 DEF RoundInv, QueueOK, InQueue
  <2>3. u \in Parties /\ pc[u] \in Inside
    BY <2>2, QueuedParty DEF Inside
  <2>4. round[u] \in {cur_round - 1, cur_round} /\ round[u] \in Nat
    BY <1>0, <2>3, PartyFacts DEF RoundInv, PartyOK
  <2>5. round[u] % 2 = (cur_round - 1) % 2 /\ cur_round - 1 \in Nat
    BY <1>0, <1>2, <2>2 DEF Parity
  <2> QED
    BY <1>0, <2>4, <2>5
<1>5. QueueOK'
  <2>1. ASSUME NEW v \in VThreads, NEW i \in {0, 1}, NEW j \in Nat, StandsAt(v, i, j)'
        PROVE  Parity(v)' = i
    <3>1. PICK k \in Nat : StandsAt(v, i, k)
      BY <2>1, PopStands
    <3> QED
      BY <1>0, <3>1 DEF RoundInv, QueueOK, Parity
  <2>2. ASSUME NEW v \in VThreads, pc'[v] \in {"b_yield", "b_blocked"}
        PROVE  InQueue(v)' \/ round'[v] < cur_round'
    <3>1. pc[v] \in {"b_yield", "b_blocked"}
      BY <1>0, <1>1, <2>2 DEF Actors
    <3>2. CASE v = u
      BY <1>0, <1>4, <3>2
    <3>3. CASE v # u
      BY <1>0, <1>3, <3>1, <3>3, PopLeaves DEF RoundInv, QueueOK
    <3> QED
      BY <3>2, <3>3
  <2> QED
    BY <2>1, <2>2 DEF QueueOK
<1>6. \A b \in Parties : b \in Actors
  BY DEF Parties
<1> QED
  BY <1>0, <1>1, <1>5, <1>6, SameRounds DEF Inside

\* A step that moves an actor to a control point of the same kind.
LEMMA RoundMove ==
  ASSUME TypeInv, RoundInv, NEW a \in Actors, NEW l,
         UNCHANGED <<setup, cur_waiters, cur_round, serials, misfired, arrived, left, round,
                     cur_waiter, blocked_vths>>,
         pc' = [pc EXCEPT ![a] = l],
         \/ pc[a] = l
         \/ pc[a] = "b_hide" /\ l = "b_push"
         \/ pc[a] = "b_yield" /\ l = "b_blocked"
         \/ pc[a] = "b_enq" /\ l = "b_pop"
         \/ pc[a] = "ready" /\ l = "ended"
  PROVE  RoundInv'
<1>1. /\ pc \in [Actors -> PCs] /\ round \in [Actors -> Nat] /\ cur_round \in Nat
      /\ \A b \in Parties : b \in Actors
      /\ \A v \in VThreads : v \in Actors
  BY DEF TypeInv, TypeOK, Parties, Actors
<1>2. pc'[a] = l /\ \A b \in Actors : b # a => pc'[b] = pc[b]
  BY <1>1
<1>3. QueueOK'
  <2>1. \A v \in VThreads : pc'[v] \in {"b_yield", "b_blocked"} => pc[v] \in {"b_yield", "b_blocked"}
    BY <1>1, <1>2
  <2> QED
    BY <1>1, <2>1, QueueKept DEF RoundInv
<1>4. \A b \in Parties : /\ pc'[b] \in Inside <=> pc[b] \in Inside
                         /\ pc'[b] = "b_add" <=> pc[b] = "b_add"
                         /\ pc'[b] = "b_inc" <=> pc[b] = "b_inc"
                         /\ pc'[b] = "b_cas" <=> pc[b] = "b_cas"
                         /\ pc'[b] \in {"b_pop", "b_enq"} <=> pc[b] \in {"b_pop", "b_enq"}
  BY <1>1, <1>2 DEF Inside
<1> QED
  BY <1>3, <1>4, SameRounds

\* A step of an actor keeps the rounds apart.
LEMMA RoundActor ==
  ASSUME TypeInv, PlaceInv, Matched, RoundInv, NEW a \in Actors, ActorStep(a)
  PROVE  RoundInv'
<1>0. /\ pc \in [Actors -> PCs] /\ setup' = setup
      /\ cur_round \in Nat /\ round \in [Actors -> Nat] /\ serials \in Nat
  BY DEF TypeInv, TypeOK, ActorStep
<1>p. ASSUME pc[a] \in Inside
      PROVE  /\ a \in Parties /\ a \in Actors /\ arrived[a] \in Nat
             /\ arrived[a] \in {cur_round, cur_round + 1} /\ round[a] = arrived[a] - 1
  <2>1. a \in Parties
    BY <1>p, InsideParties DEF Inside
  <2> QED
    BY <1>p, <2>1, PartyFacts DEF RoundInv, PartyOK
<1>q. ASSUME pc[a] # "b_yield", Executing(a), a \in VThreads PROVE ~InQueue(a)
  BY <1>q, Runs DEF Placed
<1>1. CASE ReadRound(a)
  BY <1>0, <1>1, RoundRead
<1>2. CASE AddWaiter(a)
  BY <1>0, <1>2, RoundAdd
<1>3. CASE Hide(a)
  <2>1. pc[a] = "b_hide" /\ (pc' = [pc EXCEPT ![a] = "b_push"] \/ pc' = pc)
    BY <1>3 DEF Hide, At, Move
  <2>2. pc' = [pc EXCEPT ![a] = "b_push"] \/ pc' = [pc EXCEPT ![a] = pc[a]]
    BY <1>0, <2>1
  <2> QED
    BY <1>0, <1>3, <2>1, <2>2, RoundMove DEF Hide
<1>4. CASE Push(a)
  BY <1>0, <1>4, RoundPush
<1>5. CASE Block(a)
  BY <1>0, <1>5, RoundMove DEF Block, At, Move
<1>6. CASE Released(a)
  <2>1. /\ pc[a] = "b_blocked" /\ a \in VThreads /\ Executing(a) /\ Leave(a)
        /\ UNCHANGED <<cur_waiters, cur_round, blocked_vths, arrived, misfired, serials>>
    BY <1>6 DEF Released, At, TypeInv, ControlOK, CallOK
  <2>2. ~InQueue(a) /\ round[a] < cur_round
    BY <1>q, <2>1 DEF RoundInv, QueueOK
  <2>3. arrived[a] = cur_round /\ a \in Parties /\ a \notin Wakes
    BY <1>0, <1>p, <2>1, <2>2 DEF Inside, Wakes
  <2>4. serials' = serials + (IF a \in Wakes THEN 1 ELSE 0)
    BY <1>0, <2>1, <2>3
  <2> QED
    BY <1>0, <2>1, <2>2, <2>3, <2>4, RoundLeave DEF Inside
<1>7. CASE LookAgain(a)
  <2>1. pc' = [pc EXCEPT ![a] = pc[a]]
    BY <1>0, <1>7 DEF LookAgain, barrierVars
  <2> QED
    BY <1>7, <2>1, RoundMove DEF LookAgain, barrierVars
<1>8. CASE LookReleased(a)
  <2>1. /\ pc[a] = "b_look" /\ Executing(a) /\ cur_round # round[a]
        /\ UNCHANGED <<cur_waiters, cur_round, blocked_vths, arrived, serials>>
    BY <1>8 DEF LookReleased, At
  <2>2. arrived[a] = cur_round /\ a \in Parties /\ a \notin Wakes /\ cur_round = round[a] + 1
    BY <1>0, <1>p, <2>1 DEF Inside, Wakes
  <2>3. Leave(a) /\ UNCHANGED misfired
    BY <1>8, <2>2 DEF LookReleased
  <2>4. serials' = serials + (IF a \in Wakes THEN 1 ELSE 0)
    BY <1>0, <2>1, <2>2
  <2> QED
    BY <1>0, <1>q, <2>1, <2>2, <2>3, <2>4, RoundLeave DEF Inside
<1>9. CASE ResetWaiters(a)
  BY <1>0, <1>9, RoundReset
<1>10. CASE NextRound(a)
  BY <1>0, <1>10, RoundNext
<1>11. CASE PopWaiter(a)
  BY <1>0, <1>11, RoundPop
<1>12. CASE PopEmpty(a)
  <2>1. pc' = [pc EXCEPT ![a] = pc[a]]
    BY <1>0, <1>12 DEF PopEmpty, barrierVars
  <2> QED
    BY <1>12, <2>1, RoundMove DEF PopEmpty, barrierVars
<1>13. CASE EnqueueWaiter(a)
  BY <1>0, <1>13, RoundMove DEF EnqueueWaiter, At, Move
<1>14. CASE ReturnSerial(a)
  <2>1. /\ pc[a] = "b_pop" /\ Executing(a) /\ Leave(a) /\ serials' = serials + 1
        /\ UNCHANGED <<cur_waiters, cur_round, blocked_vths, arrived, misfired>>
    BY <1>14 DEF ReturnSerial, At
  <2>2. a \in Parties /\ a \in Wakes
    BY <1>p, <2>1 DEF Inside, Wakes
  <2>3. arrived[a] = cur_round
    BY <2>2 DEF RoundInv, PartyOK
  <2> QED
    BY <1>0, <1>q, <2>1, <2>2, <2>3, RoundLeave DEF Inside
<1>15. CASE End(a)
  BY <1>0, <1>15, RoundMove DEF End, At, Move
<1> QED
  BY <1>1, <1>2, <1>3, <1>4, <1>5, <1>6, <1>7, <1>8, <1>9, <1>10, <1>11, <1>12,
     <1>13, <1>14, <1>15 DEF ActorStep

\* A step that leaves the barrier alone keeps the rounds apart.
LEMMA RoundKept ==
  ASSUME TypeInv, RoundInv, UNCHANGED barrierVars
  PROVE  RoundInv'
<1>1. UNCHANGED <<setup, cur_waiters, cur_round, serials, misfired, arrived, left, round,
                  cur_waiter, blocked_vths, pc>>
  BY DEF barrierVars
<1>2. round \in [Actors -> Nat] /\ cur_round \in Nat
  BY DEF TypeInv, TypeOK
<1>3. QueueOK'
  BY <1>1, <1>2, QueueKept DEF RoundInv
<1> QED
  BY <1>1, <1>3, SameRounds

\* Nobody has arrived in the initial states.
LEMMA RoundInit == Init /\ Matched => RoundInv
<1> SUFFICES ASSUME Init, Matched PROVE RoundInv
  OBVIOUS
<1>1. TypeInv
  BY TypeInit
<1>2. Parties # {}
  BY <1>1, PartiesFinite
<1>3. /\ cur_round = 0 /\ cur_waiters = 0 /\ serials = 0 /\ misfired = FALSE
      /\ \A a \in Parties : arrived[a] = 0 /\ left[a] = 0 /\ pc[a] = "ready"
  BY DEF Init, Parties
<1>4. Here = {} /\ Last = {} /\ Wakes = {}
  BY <1>3 DEF Here, Last, Wakes
<1>5. \A a \in Parties : PartyOK(a)
  BY <1>3, <1>4 DEF PartyOK, Inside
<1>6. LastOK
  BY <1>2, <1>3, <1>4, FS_EmptySet DEF LastOK
<1>7. WakesOK
  BY <1>3, <1>4 DEF WakesOK
<1>8. QueueOK
  <2>1. \A v \in VThreads, i \in {0, 1}, j \in Nat : ~StandsAt(v, i, j)
    BY DEF Init, StandsAt
  <2>2. \A v \in VThreads : pc[v] \notin {"b_yield", "b_blocked"}
    BY DEF Init, Actors
  <2> QED
    BY <2>1, <2>2 DEF QueueOK
<1> QED
  BY <1>3, <1>5, <1>6, <1>7, <1>8 DEF RoundInv

\* BarrierIInv is an inductive invariant.
THEOREM BarrierInductive == Spec => []BarrierIInv
<1>1. Init => BarrierIInv
  BY TypeInit, PlaceInit, RoundInit DEF BarrierIInv
<1>2. BarrierIInv /\ [Next]_vars => BarrierIInv'
  <2> SUFFICES ASSUME BarrierIInv, [Next]_vars PROVE BarrierIInv'
    OBVIOUS
  <2> USE DEF BarrierIInv
  <2>1. CASE \E a \in Actors : ActorStep(a)
    <3>1. PICK a \in Actors : ActorStep(a)
      BY <2>1
    <3>2. Matched' <=> Matched
      BY <3>1, SetupKept DEF ActorStep
    <3> QED
      BY <3>1, <3>2, TypeActor, PlaceActor, RoundActor
  <2>2. CASE \E w \in Workers : Work(w)
    <3>1. PICK w \in Workers : Work(w)
      BY <2>2
    <3>2. UNCHANGED barrierVars /\ (Matched' <=> Matched)
      BY <3>1, SetupKept DEF Work, barrierVars
    <3> QED
      BY <3>1, <3>2, TypeWorker, PlaceWorker, RoundKept
  <2>3. CASE UNCHANGED vars
    <3>1. UNCHANGED barrierVars /\ UNCHANGED schedVars
      BY <2>3 DEF vars
    <3>2. Matched' <=> Matched
      BY <3>1, SetupKept DEF barrierVars
    <3>3. TypeInv'
      BY <3>1 DEF schedVars, barrierVars, TypeInv, TypeOK, SchedTypeOK, ControlOK, CallOK
    <3>4. PlaceInv'
      <4>1. /\ pvth' = pvth /\ wpc' = wpc /\ wret' = wret /\ fault' = fault
            /\ runq' = runq /\ runnable' = runnable /\ cur_status' = cur_status
            /\ pc' = pc /\ got' = got /\ blocked_vths' = blocked_vths
        BY <3>1 DEF schedVars, barrierVars
      <4>2. ASSUME NEW v \in VThreads PROVE PlaceOK(v)'
        <5>1. \A y \in Workers : SameFor(y, v)
          BY <4>1 DEF SameFor, Has, Takes
        <5> QED
          BY <4>1, <5>1, QueuesKept, PlaceFrame DEF PlaceInv, PlaceOK
      <4>3. \A y \in Workers : CodeOK(y)'
        BY <4>1, CodeFrame DEF PlaceInv
      <4> QED
        BY <4>1, <4>2, <4>3 DEF PlaceInv, PlaceOK
    <3> QED
      BY <3>1, <3>2, <3>3, <3>4, RoundKept
  <2> QED
    BY <2>1, <2>2, <2>3 DEF Next
<1> QED
  BY <1>1, <1>2, PTL DEF Spec

\* Nobody returns from its n-th pthread_barrier_wait before everybody has arrived
\* in its n-th, in either build, with any number of actors and workers.
THEOREM RoundsSynchronise == Spec => []BarrierSync
<1>1. BarrierIInv => BarrierSync
  <2> SUFFICES ASSUME BarrierIInv, Matched, NEW a \in Parties, NEW b \in Parties
               PROVE  left[a] <= arrived[b]
    BY DEF BarrierSync
  <2> QED
    BY PartyFacts DEF BarrierIInv, RoundInv, PartyOK
<1> QED
  BY <1>1, BarrierInductive, PTL

\* When everybody has passed the barrier n times, exactly n calls have returned
\* PTHREAD_BARRIER_SERIAL_THREAD, and never more than rounds everybody arrived in.
THEOREM SerialPerRound == Spec => []OneSerialPerRound
<1>1. BarrierIInv => OneSerialPerRound
  <2> SUFFICES ASSUME BarrierIInv, Matched
               PROVE  /\ \A a \in Parties : serials <= arrived[a]
                      /\ \A n \in 0..MaxRounds :
                           (\A a \in Parties : left[a] = n) => serials = n
    BY DEF OneSerialPerRound
  <2>0. TypeInv /\ RoundInv /\ cur_round \in Nat /\ serials \in Nat /\ MaxRounds \in Nat
    BY BarrierAssumption DEF BarrierIInv, TypeInv, TypeOK
  <2>1. serials = cur_round - (IF Wakes # {} THEN 1 ELSE 0)
    BY <2>0 DEF RoundInv, WakesOK
  <2>2. ASSUME NEW a \in Parties PROVE serials <= arrived[a]
    <3>1. arrived[a] \in {cur_round, cur_round + 1}
      BY <2>0 DEF RoundInv, PartyOK
    <3> QED
      BY <2>0, <2>1, <3>1
  <2>3. ASSUME NEW n \in 0..MaxRounds, \A a \in Parties : left[a] = n
        PROVE  serials = n
    <3>1. PICK b \in Parties : TRUE
      BY <2>0, PartiesFinite
    <3>2. n \in Nat /\ n \in {cur_round - 1, cur_round}
      <4>1. /\ arrived[b] = n + (IF pc[b] \in Inside THEN 1 ELSE 0)
            /\ arrived[b] \in {cur_round, cur_round + 1} /\ n <= cur_round /\ n \in Nat
        BY <2>0, <2>3, PartyFacts DEF RoundInv, PartyOK
      <4> QED
        BY <2>0, <4>1
    <3>3. CASE Wakes # {}
      <4>1. PICK a \in Wakes : TRUE
        BY <3>3
      <4>2. a \in Parties /\ pc[a] \in Inside
        BY DEF Wakes, Inside
      <4>3. arrived[a] = cur_round /\ arrived[a] = n + 1
        BY <2>0, <2>3, <4>2, PartyFacts DEF RoundInv, PartyOK
      <4> QED
        BY <2>0, <2>1, <3>2, <3>3, <4>3
    <3>4. CASE Wakes = {}
      <4>1. cur_round > 0 => n = cur_round
        BY <2>0, <2>3, <3>4 DEF RoundInv, WakesOK
      <4> QED
        BY <2>0, <2>1, <3>2, <3>4, <4>1
    <3> QED
      BY <3>3, <3>4
  <2> QED
    BY <2>2, <2>3
<1> QED
  BY <1>1, BarrierInductive, PTL

\* Of each queue somebody is missing: who completes the round, who has not
\* arrived in it, who wakes its waiters up, or who has left it.
LEMMA SomebodyMissing ==
  ASSUME TypeInv, PlaceInv, Matched, RoundInv, NEW i \in {0, 1}
  PROVE  \E x \in Parties : \A j \in Nat : ~StandsAt(x, i, j)
<1>0. cur_round \in Nat
  BY DEF TypeInv, TypeOK
<1>q. ASSUME NEW v \in VThreads, NEW j \in Nat, StandsAt(v, i, j)
      PROVE  /\ v \in Parties /\ pc[v] \in {"b_yield", "b_blocked"} /\ round[v] % 2 = i
             /\ round[v] = left[v] /\ round[v] \in {cur_round - 1, cur_round}
             /\ round[v] \in Nat /\ arrived[v] = round[v] + 1
  <2>1. InQueue(v) /\ Parity(v) = i
    BY <1>q DEF RoundInv, QueueOK, InQueue
  <2>2. v \in Parties /\ pc[v] \in {"b_yield", "b_blocked"}
    BY <2>1, QueuedParty
  <2>3. pc[v] \in Inside
    BY <2>2 DEF Inside
  <2>4. /\ round[v] \in Nat /\ left[v] \in Nat /\ arrived[v] \in Nat
        /\ arrived[v] = left[v] + 1
    BY <2>2, <2>3, PartyFacts
  <2>5. arrived[v] \in {cur_round, cur_round + 1} /\ round[v] = arrived[v] - 1
    BY <2>2, <2>3 DEF RoundInv, PartyOK
  <2> QED
    BY <1>0, <2>1, <2>2, <2>4, <2>5 DEF Parity
<1>v. ASSUME NEW x \in Parties, NEW j \in Nat, StandsAt(x, i, j) PROVE x \in VThreads
  BY <1>v DEF StandsAt, TypeInv, TypeOK
<1>1. CASE cur_round % 2 = i
  <2>1. CASE Here = Parties
    <3>1. PICK x \in Last : TRUE
      BY <2>1 DEF RoundInv, LastOK
    <3>2. x \in Parties /\ pc[x] \in {"b_cas", "b_inc"}
      BY DEF Last
    <3> QED
      BY <1>q, <1>v, <3>2
  <2>2. CASE Here # Parties
    <3>1. PICK x \in Parties : arrived[x] # cur_round + 1
      BY <2>2 DEF Here
    <3>2. ASSUME NEW j \in Nat, StandsAt(x, i, j) PROVE FALSE
      BY <1>0, <1>1, <1>q, <1>v, <3>1, <3>2
    <3> QED
      BY <3>2
  <2> QED
    BY <2>1, <2>2
<1>2. CASE cur_round % 2 # i
  <2>1. ASSUME NEW v \in VThreads, NEW j \in Nat, StandsAt(v, i, j)
        PROVE  left[v] = cur_round - 1
    BY <1>0, <1>2, <1>q, <2>1
  <2>2. CASE \E x \in Parties : left[x] = cur_round
    BY <1>0, <1>v, <2>1, <2>2
  <2>3. CASE Wakes # {}
    <3>1. PICK x \in Wakes : TRUE
      BY <2>3
    <3>2. x \in Parties /\ pc[x] \in {"b_pop", "b_enq"}
      BY DEF Wakes
    <3> QED
      BY <1>q, <1>v, <3>2
  <2>4. CASE cur_round = 0
    <3>1. \A v \in VThreads, j \in Nat : ~StandsAt(v, i, j)
      BY <1>2, <1>q, <2>4
    <3> QED
      BY <1>v, <3>1, PartiesFinite
  <2> QED
    BY <1>0, <2>2, <2>3, <2>4 DEF RoundInv, WakesOK
<1> QED
  BY <1>1, <1>2

\* A queue holds fewer than Count.
LEMMA QueueShort ==
  ASSUME TypeInv, PlaceInv, Matched, RoundInv, NEW i \in {0, 1}
  PROVE  Len(blocked_vths[i]) < Count
<1> DEFINE q == blocked_vths[i]
           n == Len(q)
<1>1. q \in Seq(VThreads) /\ n \in Nat
  BY DEF TypeInv, TypeOK
<1>2. PICK x \in Parties : \A j \in Nat : ~StandsAt(x, i, j)
  BY SomebodyMissing
<1>3. ASSUME NEW j \in 1..n PROVE q[j] \in Parties \ {x} /\ q[j] \in VThreads
  <2>1. q[j] \in VThreads /\ j \in Nat
    BY <1>1
  <2>2. StandsAt(q[j], i, j)
    BY DEF StandsAt
  <2>3. InQueue(q[j])
    BY <2>1, <2>2 DEF InQueue
  <2> QED
    BY <1>2, <2>1, <2>2, <2>3, QueuedParty
<1>4. ASSUME NEW j \in 1..n, NEW k \in 1..n, q[j] = q[k] PROVE j = k
  <2>1. StandsAt(q[j], i, j) /\ StandsAt(q[j], i, k) /\ j \in Nat /\ k \in Nat
    BY <1>1, <1>4 DEF StandsAt
  <2> QED
    BY <1>3, <2>1 DEF PlaceInv, OnePlace, OnceQueued
<1>5. /\ IsFiniteSet(Parties \ {x})
      /\ Cardinality(Parties \ {x}) = Count - 1 /\ Count \in Nat
  BY PartiesFinite, FS_RemoveElement
<1>6. IsFiniteSet(1..n) /\ Cardinality(1..n) = n
  <2>1. 1 \in Int /\ n \in Int
    BY <1>1
  <2> HIDE DEF n
  <2>2. IsFiniteSet(1..n) /\ Cardinality(1..n) = IF 1 > n THEN 0 ELSE n - 1 + 1
    BY <2>1, FS_Interval, Zenon
  <2>3. (IF 1 > n THEN 0 ELSE n - 1 + 1) = n
    BY <1>1
  <2> QED
    BY <2>2, <2>3
<1> DEFINE f == [j \in 1..n |-> q[j]]
<1>7. f \in Injection(1..n, Parties \ {x})
  <2>1. f \in [1..n -> Parties \ {x}]
    BY <1>3
  <2>2. IsInjective(f)
    BY <1>4 DEF IsInjective
  <2> QED
    BY <2>1, <2>2 DEF Injection
<1>8. Cardinality(1..n) <= Cardinality(Parties \ {x})
  BY <1>5, <1>7, FS_Injection
<1> QED
  BY <1>1, <1>5, <1>6, <1>8

\* The branches "should not run to here" are not reached, the retry loop around
\* push never turns, and no worker jumps to the context of a vthread that runs or
\* has ended.
THEOREM BarrierCorrect == Spec => []BarrierInv
<1>1. BarrierIInv => BarrierInv
  <2> SUFFICES ASSUME BarrierIInv PROVE BarrierInv
    OBVIOUS
  <2>1. TypeInv /\ PlaceInv /\ (Matched => RoundInv)
    BY DEF BarrierIInv
  <2>2. NeverMisfires
    BY <2>1 DEF NeverMisfires, RoundInv
  <2>3. QueuesBounded
    BY <2>1, QueueShort DEF QueuesBounded
  <2>4. JumpsToContextData
    BY <2>1 DEF PlaceInv, JumpsToContextData
  <2> QED
    BY <2>1, <2>2, <2>3, <2>4 DEF BarrierInv, TypeInv
<1> QED
  BY <1>1, BarrierInductive, PTL

-----------------------------------------------------------------------------
(***************************************************************************)
(* Groups.  However many use the barrier of BLOCKED_BARRIER, every round   *)
(* admits Count of them: its last arriver and the ones it wakes.  Whoever  *)
(* has been admitted has left, or has been taken out of a queue, or is the *)
(* last arriver, who owes the others their wake-up.                        *)
(***************************************************************************)

\* The last arrivers that have not reset cur_waiters yet, and those that have
\* and have not incremented cur_round yet.
AtReset == {a \in Actors : pc[a] = "b_cas"}
AtNext == {a \in Actors : pc[a] = "b_inc"}

\* How many returns the last arriver still stands for: its own, and those of the
\* waiters it has not taken out of the queue yet.
Owed == [a \in Actors |-> IF pc[a] \in {"b_pop", "b_enq"} THEN cur_waiter[a] ELSE 0]

\* The waiters that were taken out of a queue and have not returned.
Called == {v \in VThreads : pc[v] \in {"b_yield", "b_blocked"} /\ ~InQueue(v)}

\* What the control point of an actor says of its cur_waiter.
LocalOK(a) ==
  /\ pc[a] # "b_look"
  /\ pc[a] \in {"b_cas", "b_inc"} => cur_waiter[a] = Count
  /\ pc[a] \in {"b_pop", "b_enq"} => cur_waiter[a] >= 1

\* The rounds that are complete, and have admitted whom they count.
AdmittedOK == Times(left) + Cardinality(Called) + Times(Owed) = Count * cur_round

\* The arrivals: those of the complete rounds, of the rounds about to be, and
\* those that cur_waiters counts.  Once a reset has failed cur_waiters counts
\* one round's arrivals again, and nobody ever takes itself for the last.
ArrivalsOK ==
  /\ \A a, b \in AtReset : a = b
  /\ misfired => AtReset = {} /\ cur_waiters > Count
  /\ ~misfired => (cur_waiters >= Count <=> AtReset # {})
  /\ Times(arrived) + (IF misfired THEN Count ELSE 0)
       = Count * (cur_round + Cardinality(AtNext)) + cur_waiters

GroupInv ==
  setup.build = "BLOCKED_BARRIER" =>
    (\A a \in Actors : LocalOK(a)) /\ AdmittedOK /\ ArrivalsOK

-----------------------------------------------------------------------------
(***************************************************************************)
(* Sums over the actors.                                                   *)
(***************************************************************************)

\* The pairs that Times counts for the actors in S.
Pairs(f, S) == UNION {{a} \X (1..f[a]) : a \in S}

\* They are finitely many.
LEMMA PairsFinite ==
  ASSUME NEW f \in [Actors -> Nat], NEW S \in SUBSET Actors
  PROVE  IsFiniteSet(Pairs(f, S)) /\ Cardinality(Pairs(f, S)) \in Nat
<1> DEFINE U == {{a} \X (1..f[a]) : a \in S}
<1>1. IsFiniteSet(S)
  BY BarrierAssumption, FS_Subset
<1>2. IsFiniteSet(U)
  <2> DEFINE h == [a \in S |-> {a} \X (1..f[a])]
  <2>1. h \in Surjection(S, U)
    BY DEF Surjection
  <2> QED
    BY <1>1, <2>1, FS_Surjection, Zenon
<1>3. \A T \in U : IsFiniteSet(T)
  <2> SUFFICES ASSUME NEW a \in S PROVE IsFiniteSet({a} \X (1..f[a]))
    OBVIOUS
  <2>1. PICK n \in Int : n = f[a]
    OBVIOUS
  <2>2. 1 \in Int /\ n \in Int
    OBVIOUS
  <2>3. IsFiniteSet(1..n) /\ IsFiniteSet({a})
    BY <2>2, FS_Interval, FS_Singleton, Zenon
  <2> QED
    BY <2>1, <2>3, FS_Product, Zenon
<1>4. IsFiniteSet(UNION U)
  BY <1>2, <1>3, FS_UNION
<1> QED
  BY <1>4, FS_CardinalityType DEF Pairs

\* The part of one actor.
LEMMA TimesSplit ==
  ASSUME NEW f \in [Actors -> Nat], NEW a \in Actors
  PROVE  Times(f) = Cardinality(Pairs(f, Actors \ {a})) + f[a]
<1> DEFINE R == Pairs(f, Actors \ {a})
           A == {a} \X (1..f[a])
<1>1. IsFiniteSet(R)
  BY PairsFinite
<1>2. f[a] \in Nat
  OBVIOUS
<1>3. IsFiniteSet(A) /\ Cardinality(A) = f[a]
  <2>1. IsFiniteSet(1..f[a]) /\ Cardinality(1..f[a]) = f[a]
    <3>1. PICK n \in Nat : n = f[a]
      BY <1>2
    <3>2. 1 \in Int /\ n \in Int
      OBVIOUS
    <3>3. IsFiniteSet(1..n) /\ Cardinality(1..n) = IF 1 > n THEN 0 ELSE n - 1 + 1
      BY <3>2, FS_Interval, Zenon
    <3> QED
      BY <3>1, <3>3
  <2>2. IsFiniteSet({a}) /\ Cardinality({a}) = 1
    BY FS_Singleton
  <2>3. IsFiniteSet(A) /\ Cardinality(A) = 1 * f[a]
    BY <2>1, <2>2, FS_Product
  <2> QED
    BY <1>2, <2>3
<1>4. UNION {{b} \X (1..f[b]) : b \in Actors} = R \cup A
  <2>1. \A e : e \in UNION {{b} \X (1..f[b]) : b \in Actors}
                <=> \E b \in Actors : e \in {b} \X (1..f[b])
    OBVIOUS
  <2>2. \A e : e \in R <=> \E b \in Actors \ {a} : e \in {b} \X (1..f[b])
    BY DEF Pairs
  <2> QED
    BY <2>1, <2>2
<1>5. R \cap A = {}
  <2> SUFFICES ASSUME NEW e \in R, e \in A PROVE FALSE
    OBVIOUS
  <2>1. PICK b \in Actors \ {a} : e \in {b} \X (1..f[b])
    BY DEF Pairs
  <2>2. e[1] = b /\ e[1] = a
    BY <2>1
  <2> QED
    BY <2>2
<1>6. Cardinality(R) \in Nat
  BY <1>1, FS_CardinalityType
<1> HIDE DEF R, A
<1>7. Cardinality(R \cup A) = Cardinality(R) + Cardinality(A) - Cardinality(R \cap A)
  BY <1>1, <1>3, FS_Union, Zenon
<1>8. Cardinality(R \cap A) = 0
  BY <1>5, FS_EmptySet
<1>9. Times(f) = Cardinality(R \cup A)
  BY <1>4 DEF Times
<1>10. Cardinality(R \cup A) = Cardinality(R) + f[a]
  BY <1>2, <1>3, <1>6, <1>7, <1>8
<1> QED
  BY <1>9, <1>10 DEF R

\* What one actor does more than before, all do.
LEMMA TimesChange ==
  ASSUME NEW f \in [Actors -> Nat], NEW g \in [Actors -> Nat], NEW a \in Actors,
         \A b \in Actors : b # a => g[b] = f[b]
  PROVE  /\ Times(f) \in Nat /\ Times(g) \in Nat
         /\ Times(g) + f[a] = Times(f) + g[a]
<1>1. Pairs(g, Actors \ {a}) = Pairs(f, Actors \ {a})
  BY DEF Pairs
<1>2. PICK r \in Nat : r = Cardinality(Pairs(f, Actors \ {a}))
  BY PairsFinite
<1>3. Times(f) = r + f[a] /\ Times(g) = r + g[a]
  BY <1>1, <1>2, TimesSplit
<1>4. f[a] \in Nat /\ g[a] \in Nat
  OBVIOUS
<1> QED
  BY <1>3, <1>4

\* The sum is a natural number.
LEMMA TimesType ==
  ASSUME NEW f \in [Actors -> Nat]
  PROVE  Times(f) \in Nat
<1>1. Times(f) = Cardinality(Pairs(f, Actors))
  BY DEF Times, Pairs
<1> QED
  BY <1>1, PairsFinite

\* The sum of nothing.
LEMMA TimesZero ==
  ASSUME NEW f \in [Actors -> Nat], \A a \in Actors : f[a] = 0
  PROVE  Times(f) = 0
<1>1. UNION {{a} \X (1..f[a]) : a \in Actors} = {}
  <2>1. \A a \in Actors : 1..f[a] = {}
    OBVIOUS
  <2> QED
    BY <2>1
<1> QED
  BY <1>1, FS_EmptySet DEF Times

-----------------------------------------------------------------------------
(***************************************************************************)
(* The steps of actors and the groups.                                     *)
(***************************************************************************)

\* The types the sums need.
LEMMA GroupTypes ==
  ASSUME TypeInv
  PROVE  /\ Owed \in [Actors -> Nat] /\ left \in [Actors -> Nat] /\ arrived \in [Actors -> Nat]
         /\ Count \in Nat \ {0} /\ cur_round \in Nat /\ cur_waiters \in Nat
         /\ cur_waiter \in [Actors -> Nat] /\ pc \in [Actors -> PCs]
         /\ Times(Owed) \in Nat /\ Times(left) \in Nat /\ Times(arrived) \in Nat
         /\ IsFiniteSet(AtNext) /\ Cardinality(AtNext) \in Nat
         /\ IsFiniteSet(Called) /\ Cardinality(Called) \in Nat
<1>1. /\ left \in [Actors -> Nat] /\ arrived \in [Actors -> Nat]
      /\ cur_waiter \in [Actors -> Nat] /\ pc \in [Actors -> PCs]
      /\ cur_round \in Nat /\ cur_waiters \in Nat
  BY SetupFacts DEF TypeInv, TypeOK
<1>2. Owed \in [Actors -> Nat]
  BY <1>1 DEF Owed
<1>3. Times(Owed) \in Nat /\ Times(left) \in Nat /\ Times(arrived) \in Nat
  BY <1>1, <1>2, TimesType
<1>4. AtNext \subseteq Actors /\ Called \subseteq Actors
  BY DEF AtNext, Called, Actors
<1>5. IsFiniteSet(AtNext) /\ IsFiniteSet(Called)
  BY <1>4, BarrierAssumption, FS_Subset
<1>6. Cardinality(AtNext) \in Nat /\ Cardinality(Called) \in Nat
  BY <1>5, FS_CardinalityType
<1> QED
  BY <1>1, <1>2, <1>3, <1>5, <1>6, SetupFacts DEF TypeInv

\* Who is in a queue depends on the queues only.
LEMMA InQueueKept ==
  ASSUME blocked_vths' = blocked_vths
  PROVE  \A v : InQueue(v)' <=> InQueue(v)
BY DEF InQueue, StandsAt

\* A step by which nobody arrives, is admitted or returns.
LEMMA GroupQuiet ==
  ASSUME TypeInv, GroupInv, setup.build = "BLOCKED_BARRIER", NEW a \in Actors, NEW l,
         pc' = [pc EXCEPT ![a] = l], l # "b_look",
         l = "b_cas" <=> pc[a] = "b_cas", l = "b_inc" <=> pc[a] = "b_inc",
         l \in {"b_pop", "b_enq"} <=> pc[a] \in {"b_pop", "b_enq"},
         l \in {"b_yield", "b_blocked"} <=> pc[a] \in {"b_yield", "b_blocked"},
         UNCHANGED <<setup, cur_waiters, cur_round, blocked_vths, cur_waiter, arrived,
                     left, misfired>>
  PROVE  GroupInv'
<1>1. (\A b \in Actors : LocalOK(b)) /\ AdmittedOK /\ ArrivalsOK
  BY DEF GroupInv
<1>2. \A b \in Actors : pc'[b] = IF b = a THEN l ELSE pc[b]
  BY GroupTypes
<1>3. Count' = Count
  BY DEF Count
<1>4. \A b \in Actors : LocalOK(b)'
  BY <1>1, <1>2, <1>3 DEF LocalOK
<1>5. AtReset' = AtReset /\ AtNext' = AtNext /\ Owed' = Owed
  BY <1>2 DEF AtReset, AtNext, Owed
<1>6. Called' = Called
  BY <1>2, InQueueKept DEF Called, Actors
<1>7. AdmittedOK'
  BY <1>1, <1>3, <1>5, <1>6 DEF AdmittedOK
<1>8. ArrivalsOK'
  BY <1>1, <1>3, <1>5 DEF ArrivalsOK
<1> QED
  BY <1>4, <1>7, <1>8 DEF GroupInv

\* An arrival.  Only when cur_waiters reaches Count the one that arrives takes
\* itself for the last, and then there is no other.
LEMMA GroupAdd ==
  ASSUME TypeInv, GroupInv, setup.build = "BLOCKED_BARRIER", NEW a \in Actors,
         AddWaiter(a), UNCHANGED setup
  PROVE  GroupInv'
<1>1. (\A b \in Actors : LocalOK(b)) /\ AdmittedOK /\ ArrivalsOK
  BY DEF GroupInv
<1>2. /\ pc[a] = "b_add" /\ cur_waiters' = cur_waiters + 1
      /\ cur_waiter' = [cur_waiter EXCEPT ![a] = cur_waiters + 1]
      /\ arrived' = [arrived EXCEPT ![a] = @ + 1]
      /\ UNCHANGED <<setup, cur_round, blocked_vths, left, misfired>>
  BY DEF AddWaiter, At
<1> DEFINE l == IF cur_waiters + 1 # Count THEN "b_hide" ELSE "b_cas"
<1>3. pc' = [pc EXCEPT ![a] = l]
  BY DEF AddWaiter, Waiting, Move
<1>4. l \in {"b_hide", "b_cas"} /\ (l = "b_cas" <=> cur_waiters + 1 = Count)
  OBVIOUS
<1> HIDE DEF l
<1>5. /\ \A b \in Actors : pc'[b] = IF b = a THEN l ELSE pc[b]
      /\ \A b \in Actors : b # a => cur_waiter'[b] = cur_waiter[b]
      /\ cur_waiter'[a] = cur_waiters + 1
  BY <1>2, <1>3, GroupTypes
<1>6. Count' = Count
  BY <1>2 DEF Count
<1>7. \A b \in Actors : LocalOK(b)'
  BY <1>1, <1>4, <1>5, <1>6 DEF LocalOK
<1>8. AtNext' = AtNext /\ Owed' = Owed
  BY <1>2, <1>4, <1>5 DEF AtNext, Owed
<1>9. AtReset' = IF l = "b_cas" THEN AtReset \cup {a} ELSE AtReset
  BY <1>2, <1>4, <1>5 DEF AtReset
<1>10. Called' = Called
  BY <1>2, <1>4, <1>5, InQueueKept DEF Called, Actors
<1>11. AdmittedOK'
  BY <1>1, <1>2, <1>6, <1>8, <1>10 DEF AdmittedOK
<1>12. Times(arrived') = Times(arrived) + 1
  <2>1. arrived' \in [Actors -> Nat] /\ arrived'[a] = arrived[a] + 1 /\ arrived[a] \in Nat
        /\ \A b \in Actors : b # a => arrived'[b] = arrived[b]
    BY <1>2, GroupTypes
  <2>2. /\ Times(arrived) \in Nat /\ Times(arrived') \in Nat
        /\ Times(arrived') + arrived[a] = Times(arrived) + arrived'[a]
    BY <2>1, GroupTypes, TimesChange
  <2> QED
    BY <2>1, <2>2
<1>13. ArrivalsOK'
  <2>1. Times(arrived') + (IF misfired' THEN Count' ELSE 0)
          = Count' * (cur_round' + Cardinality(AtNext')) + cur_waiters'
    <3>1. PICK n \in Nat : n = Count * (cur_round + Cardinality(AtNext))
      BY GroupTypes
    <3>2. Times(arrived) + (IF misfired THEN Count ELSE 0) = n + cur_waiters
      BY <1>1, <3>1 DEF ArrivalsOK
    <3>3. Count' * (cur_round' + Cardinality(AtNext')) = n
      BY <1>2, <1>6, <1>8, <3>1
    <3>4. Times(arrived) \in Nat /\ Count \in Nat /\ cur_waiters \in Nat
      BY GroupTypes
    <3> QED
      BY <1>2, <1>6, <1>12, <3>2, <3>3, <3>4
  <2>2. cur_waiters \in Nat /\ Count \in Nat
    BY GroupTypes
  <2>3. l = "b_cas" => ~misfired /\ AtReset = {}
    BY <1>1, <1>4, <2>2 DEF ArrivalsOK
  <2>4. \A x, y \in AtReset' : x = y
    BY <1>1, <1>9, <2>3 DEF ArrivalsOK
  <2>5. misfired' => AtReset' = {} /\ cur_waiters' > Count'
    BY <1>1, <1>2, <1>6, <1>9, <2>2, <2>3 DEF ArrivalsOK
  <2>6. ~misfired' => (cur_waiters' >= Count' <=> AtReset' # {})
    BY <1>1, <1>2, <1>4, <1>6, <1>9, <2>2 DEF ArrivalsOK
  <2> QED
    BY <2>1, <2>4, <2>5, <2>6 DEF ArrivalsOK
<1> QED
  BY <1>7, <1>11, <1>13 DEF GroupInv

\* The returns of one round more.
LEMMA OneRoundMore ==
  ASSUME NEW n \in Nat, NEW x \in Nat
  PROVE  n * (x + 1) = n * x + n /\ n * x \in Nat
OBVIOUS

\* The last arriver resets cur_waiters, or finds it higher than it left it.
LEMMA GroupReset ==
  ASSUME TypeInv, GroupInv, setup.build = "BLOCKED_BARRIER", NEW a \in Actors,
         ResetWaiters(a), UNCHANGED setup
  PROVE  GroupInv'
<1>1. (\A b \in Actors : LocalOK(b)) /\ AdmittedOK /\ ArrivalsOK
  BY DEF GroupInv
<1>2. /\ pc[a] = "b_cas" /\ pc' = [pc EXCEPT ![a] = "b_inc"]
      /\ UNCHANGED <<setup, cur_round, blocked_vths, cur_waiter, arrived, left>>
  BY DEF ResetWaiters, At, Move
<1>3. \A b \in Actors : pc'[b] = IF b = a THEN "b_inc" ELSE pc[b]
  BY <1>2, GroupTypes
<1>4. Count' = Count
  BY <1>2 DEF Count
<1>5. \A b \in Actors : LocalOK(b)'
  BY <1>1, <1>2, <1>3, <1>4 DEF LocalOK
<1>6. Owed' = Owed
  BY <1>2, <1>3 DEF Owed
<1>7. Called' = Called
  BY <1>2, <1>3, InQueueKept DEF Called, Actors
<1>8. AdmittedOK'
  BY <1>1, <1>2, <1>4, <1>6, <1>7 DEF AdmittedOK
<1>9. AtReset = {a} /\ AtReset' = {}
  BY <1>1, <1>2, <1>3 DEF AtReset, ArrivalsOK
<1>10. Cardinality(AtNext') = Cardinality(AtNext) + 1
  <2>1. AtNext' = AtNext \cup {a} /\ a \notin AtNext
    BY <1>2, <1>3 DEF AtNext
  <2> QED
    BY <2>1, GroupTypes, FS_AddElement
<1>11. ~misfired /\ cur_waiters >= Count /\ cur_waiter[a] = Count
  BY <1>1, <1>2, <1>9 DEF ArrivalsOK, LocalOK
<1>12. /\ Count \in Nat \ {0} /\ cur_waiters \in Nat /\ Times(arrived) \in Nat
       /\ cur_round + Cardinality(AtNext) \in Nat /\ cur_round \in Nat
       /\ Cardinality(AtNext) \in Nat
  BY GroupTypes
<1>13. PICK n \in Nat : /\ n = Count * (cur_round + Cardinality(AtNext))
                        /\ Count' * (cur_round' + Cardinality(AtNext')) = n + Count
  <2>1. cur_round' + Cardinality(AtNext') = (cur_round + Cardinality(AtNext)) + 1
    BY <1>2, <1>10, <1>12
  <2> QED
    BY <1>4, <1>12, <2>1, OneRoundMore
<1>14. Times(arrived) = n + cur_waiters
  BY <1>1, <1>11, <1>12, <1>13 DEF ArrivalsOK
<1>15. ArrivalsOK'
  <2>1. CASE cur_waiters = cur_waiter[a] /\ cur_waiters' = 0 /\ UNCHANGED misfired
    BY <1>2, <1>4, <1>9, <1>11, <1>12, <1>13, <1>14, <2>1 DEF ArrivalsOK
  <2>2. CASE cur_waiters # cur_waiter[a] /\ misfired' = TRUE /\ UNCHANGED cur_waiters
    BY <1>2, <1>4, <1>9, <1>11, <1>12, <1>13, <1>14, <2>2 DEF ArrivalsOK
  <2> QED
    BY <2>1, <2>2 DEF ResetWaiters
<1> QED
  BY <1>5, <1>8, <1>15 DEF GroupInv

\* The next round begins: the last arriver owes all returns of its round.
LEMMA GroupNext ==
  ASSUME TypeInv, GroupInv, setup.build = "BLOCKED_BARRIER", NEW a \in Actors,
         NextRound(a), UNCHANGED setup
  PROVE  GroupInv'
<1>1. (\A b \in Actors : LocalOK(b)) /\ AdmittedOK /\ ArrivalsOK
  BY DEF GroupInv
<1>2. /\ pc[a] = "b_inc" /\ pc' = [pc EXCEPT ![a] = "b_pop"] /\ cur_round' = cur_round + 1
      /\ UNCHANGED <<setup, cur_waiters, blocked_vths, cur_waiter, arrived, left, misfired>>
  BY DEF NextRound, At, Move
<1>3. \A b \in Actors : pc'[b] = IF b = a THEN "b_pop" ELSE pc[b]
  BY <1>2, GroupTypes
<1>4. Count' = Count /\ cur_waiter[a] = Count
  BY <1>1, <1>2 DEF Count, LocalOK
<1>5. /\ Count \in Nat \ {0} /\ cur_waiters \in Nat /\ Times(arrived) \in Nat
      /\ Times(left) \in Nat /\ Times(Owed) \in Nat /\ cur_round \in Nat
      /\ IsFiniteSet(AtNext) /\ Cardinality(AtNext) \in Nat /\ Cardinality(Called) \in Nat
      /\ Owed \in [Actors -> Nat]
  BY GroupTypes
<1>6. \A b \in Actors : LocalOK(b)'
  BY <1>1, <1>2, <1>3, <1>4, <1>5 DEF LocalOK
<1>7. AtReset' = AtReset /\ Called' = Called
  BY <1>2, <1>3, InQueueKept DEF AtReset, Called, Actors
<1>8. Cardinality(AtNext') = Cardinality(AtNext) - 1
  <2>1. AtNext' = AtNext \ {a} /\ a \in AtNext
    BY <1>2, <1>3 DEF AtNext
  <2> QED
    BY <1>5, <2>1, FS_RemoveElement
<1>9. Times(Owed') = Times(Owed) + Count /\ Times(Owed') \in Nat
  <2>1. /\ Owed' \in [Actors -> Nat] /\ Owed[a] = 0 /\ Owed'[a] = Count
        /\ \A b \in Actors : b # a => Owed'[b] = Owed[b]
    BY <1>2, <1>3, <1>4, <1>5, GroupTypes DEF Owed
  <2>2. /\ Times(Owed') \in Nat /\ Times(Owed') + Owed[a] = Times(Owed) + Owed'[a]
    BY <1>5, <2>1, TimesChange
  <2> QED
    BY <1>5, <2>1, <2>2
<1>10. AdmittedOK'
  <2>1. Count * (cur_round + 1) = Count * cur_round + Count
    BY <1>5, OneRoundMore
  <2>2. PICK n \in Nat : n = Count * cur_round
    BY <1>5, OneRoundMore
  <2>3. Times(left) + Cardinality(Called) + Times(Owed) = n
    BY <1>1, <2>2 DEF AdmittedOK
  <2>4. Times(left)' + Cardinality(Called') + Times(Owed)' = n + Count
    BY <1>2, <1>5, <1>7, <1>9, <2>3
  <2>5. Count' * cur_round' = n + Count
    BY <1>2, <1>4, <2>1, <2>2
  <2> QED
    BY <2>4, <2>5 DEF AdmittedOK
<1>11. ArrivalsOK'
  <2>1. cur_round' + Cardinality(AtNext') = cur_round + Cardinality(AtNext)
    BY <1>2, <1>5, <1>8
  <2> QED
    BY <1>1, <1>2, <1>4, <1>7, <2>1 DEF ArrivalsOK
<1> QED
  BY <1>6, <1>10, <1>11 DEF GroupInv

\* A waiter pushes itself: nobody has taken it out of a queue yet.
LEMMA GroupPush ==
  ASSUME TypeInv, GroupInv, setup.build = "BLOCKED_BARRIER", NEW a \in Actors,
         Push(a), UNCHANGED setup
  PROVE  GroupInv'
<1>1. (\A b \in Actors : LocalOK(b)) /\ AdmittedOK /\ ArrivalsOK
  BY DEF GroupInv
<1>2. /\ pc[a] = "b_push" /\ pc' = [pc EXCEPT ![a] = "b_yield"]
      /\ UNCHANGED <<setup, cur_waiters, cur_round, cur_waiter, arrived, left, misfired>>
  BY DEF Push, At, Move
<1>3. \A b \in Actors : pc'[b] = IF b = a THEN "b_yield" ELSE pc[b]
  BY <1>2, GroupTypes
<1>4. Count' = Count
  BY <1>2 DEF Count
<1>5. \A b \in Actors : LocalOK(b)'
  BY <1>1, <1>2, <1>3, <1>4 DEF LocalOK
<1>6. AtReset' = AtReset /\ AtNext' = AtNext /\ Owed' = Owed
  BY <1>2, <1>3 DEF AtReset, AtNext, Owed
<1>7. Called' = Called
  <2>1. a \in VThreads /\ Parity(a) \in {0, 1}
    BY PushStands
  <2>2. InQueue(a)'
    <3>1. PICK p \in {0, 1} : p = Parity(a)
      BY <2>1
    <3>2. PICK j \in Nat : j = Len(blocked_vths[p]) + 1
      BY DEF TypeInv, TypeOK
    <3>3. StandsAt(a, p, j)'
      BY <2>1, <3>1, <3>2, PushStands
    <3> QED
      BY <3>3 DEF InQueue
  <2>3. \A v \in VThreads : v # a => (InQueue(v)' <=> InQueue(v))
    BY PushStands DEF InQueue
  <2> QED
    BY <1>2, <1>3, <2>1, <2>2, <2>3 DEF Called, Actors
<1>8. AdmittedOK'
  BY <1>1, <1>2, <1>4, <1>6, <1>7 DEF AdmittedOK
<1>9. ArrivalsOK'
  BY <1>1, <1>2, <1>4, <1>6 DEF ArrivalsOK
<1> QED
  BY <1>5, <1>8, <1>9 DEF GroupInv

\* The last arriver takes a waiter out of the queue, and owes one return less.
LEMMA GroupPop ==
  ASSUME TypeInv, PlaceInv, GroupInv, setup.build = "BLOCKED_BARRIER",
         NEW a \in Actors, PopWaiter(a), UNCHANGED setup
  PROVE  GroupInv'
<1>1. (\A b \in Actors : LocalOK(b)) /\ AdmittedOK /\ ArrivalsOK
  BY DEF GroupInv
<1>2. /\ pc[a] = "b_pop" /\ pc' = [pc EXCEPT ![a] = "b_enq"] /\ cur_waiter[a] > 1
      /\ cur_waiter' = [cur_waiter EXCEPT ![a] = @ - 1]
      /\ UNCHANGED <<setup, cur_waiters, cur_round, arrived, left, misfired>>
  BY DEF PopWaiter, Waking, At, Move
<1>3. /\ \A b \in Actors : pc'[b] = IF b = a THEN "b_enq" ELSE pc[b]
      /\ \A b \in Actors : b # a => cur_waiter'[b] = cur_waiter[b]
      /\ cur_waiter'[a] = cur_waiter[a] - 1 /\ cur_waiter[a] \in Nat
  BY <1>2, GroupTypes
<1>4. Count' = Count
  BY <1>2 DEF Count
<1>5. \A b \in Actors : LocalOK(b)'
  BY <1>1, <1>2, <1>3, <1>4 DEF LocalOK
<1>6. AtReset' = AtReset /\ AtNext' = AtNext
  BY <1>2, <1>3 DEF AtReset, AtNext
<1>7. /\ Times(Owed) \in Nat /\ Times(left) \in Nat /\ Cardinality(Called) \in Nat
      /\ IsFiniteSet(Called) /\ Owed \in [Actors -> Nat]
  BY GroupTypes
<1>8. Times(Owed') = Times(Owed) - 1 /\ Times(Owed') \in Nat
  <2>1. /\ Owed[a] = cur_waiter[a] /\ Owed'[a] = cur_waiter[a] - 1
        /\ \A b \in Actors : b # a => Owed'[b] = Owed[b]
        /\ Owed' \in [Actors -> Nat]
    BY <1>2, <1>3, GroupTypes DEF Owed
  <2>2. Times(Owed') \in Nat /\ Times(Owed') + Owed[a] = Times(Owed) + Owed'[a]
    BY <1>7, <2>1, TimesChange
  <2> QED
    BY <1>3, <1>7, <2>1, <2>2
<1>9. Cardinality(Called') = Cardinality(Called) + 1
  <2>0. PICK p \in {0, 1}, u \in VThreads : p = Parity(a) /\ u = got'[a]
    BY PopStands
  <2>s. /\ StandsAt(u, p, 1)
        /\ \A v \in VThreads, i \in {0, 1}, j \in Nat :
             StandsAt(v, i, j)' <=> j # 0 /\ StandsAt(v, i, IF i = p THEN j + 1 ELSE j)
    BY <2>0, PopStands
  <2>1. InQueue(u) /\ pc[u] \in {"b_yield", "b_blocked"} /\ u # a
    BY <1>2, <2>s DEF InQueue, PlaceInv, PointOK
  <2>2. ~InQueue(u)'
    <3>1. SUFFICES ASSUME NEW i \in {0, 1}, NEW j \in Nat, StandsAt(u, i, j)' PROVE FALSE
      BY DEF InQueue
    <3>2. j # 0 /\ StandsAt(u, i, IF i = p THEN j + 1 ELSE j)
      BY <2>s, <3>1
    <3>3. i = p /\ (IF i = p THEN j + 1 ELSE j) = 1
      BY <2>s, <3>2 DEF PlaceInv, OnePlace, OnceQueued
    <3> QED
      BY <3>2, <3>3
  <2>3. ASSUME NEW v \in VThreads, v # u PROVE InQueue(v)' <=> InQueue(v)
    <3>1. ASSUME InQueue(v)' PROVE InQueue(v)
      <4>1. PICK i \in {0, 1}, j \in Nat : StandsAt(v, i, j)'
        BY <3>1 DEF InQueue
      <4>2. StandsAt(v, i, IF i = p THEN j + 1 ELSE j)
        BY <2>s, <4>1
      <4> QED
        BY <4>2 DEF InQueue
    <3> QED
      BY <2>0, <2>3, <3>1, PopLeaves
  <2>4. Called' = Called \cup {u} /\ u \notin Called
    BY <1>2, <1>3, <2>1, <2>2, <2>3 DEF Called, Actors
  <2> QED
    BY <1>7, <2>4, FS_AddElement
<1>10. AdmittedOK'
  <2>1. Times(left)' + Cardinality(Called') + Times(Owed)'
          = Times(left) + Cardinality(Called) + Times(Owed)
    BY <1>2, <1>7, <1>8, <1>9
  <2> QED
    BY <1>1, <1>2, <1>4, <2>1 DEF AdmittedOK
<1>11. ArrivalsOK'
  BY <1>1, <1>2, <1>4, <1>6 DEF ArrivalsOK
<1> QED
  BY <1>5, <1>10, <1>11 DEF GroupInv

\* A waiter returns: it had been taken out of its queue.
LEMMA GroupReleased ==
  ASSUME TypeInv, PlaceInv, GroupInv, setup.build = "BLOCKED_BARRIER",
         NEW a \in Actors, Released(a), UNCHANGED setup
  PROVE  GroupInv'
<1>1. (\A b \in Actors : LocalOK(b)) /\ AdmittedOK /\ ArrivalsOK
  BY DEF GroupInv
<1>2. /\ pc[a] = "b_blocked" /\ Executing(a) /\ pc' = [pc EXCEPT ![a] = "ready"]
      /\ cur_waiter' = [cur_waiter EXCEPT ![a] = 0] /\ left' = [left EXCEPT ![a] = @ + 1]
      /\ UNCHANGED <<setup, cur_waiters, cur_round, blocked_vths, arrived, misfired>>
  BY DEF Released, Leave, At, Move
<1>3. /\ \A b \in Actors : pc'[b] = IF b = a THEN "ready" ELSE pc[b]
      /\ \A b \in Actors : b # a => cur_waiter'[b] = cur_waiter[b]
  BY <1>2, GroupTypes
<1>4. Count' = Count
  BY <1>2 DEF Count
<1>5. \A b \in Actors : LocalOK(b)'
  BY <1>1, <1>2, <1>3, <1>4 DEF LocalOK
<1>6. AtReset' = AtReset /\ AtNext' = AtNext /\ Owed' = Owed
  BY <1>2, <1>3 DEF AtReset, AtNext, Owed
<1>7. /\ Times(Owed) \in Nat /\ Times(left) \in Nat /\ Cardinality(Called) \in Nat
      /\ IsFiniteSet(Called)
  BY GroupTypes
<1>8. Cardinality(Called') = Cardinality(Called) - 1
  <2>1. a \in VThreads
    BY <1>2 DEF TypeInv, ControlOK, CallOK
  <2>2. ~InQueue(a)
    BY <1>2, <2>1, Runs DEF Placed
  <2>3. Called' = Called \ {a} /\ a \in Called
    BY <1>2, <1>3, <2>1, <2>2, InQueueKept DEF Called, Actors
  <2> QED
    BY <1>7, <2>3, FS_RemoveElement
<1>9. Times(left') = Times(left) + 1
  <2>1. left' \in [Actors -> Nat] /\ left'[a] = left[a] + 1 /\ left[a] \in Nat
        /\ \A b \in Actors : b # a => left'[b] = left[b]
    BY <1>2, GroupTypes
  <2>2. Times(left') \in Nat /\ Times(left') + left[a] = Times(left) + left'[a]
    BY <2>1, GroupTypes, TimesChange
  <2> QED
    BY <1>7, <2>1, <2>2
<1>10. AdmittedOK'
  <2>1. Times(left)' + Cardinality(Called') + Times(Owed)'
          = Times(left) + Cardinality(Called) + Times(Owed)
    BY <1>6, <1>7, <1>8, <1>9
  <2> QED
    BY <1>1, <1>2, <1>4, <2>1 DEF AdmittedOK
<1>11. ArrivalsOK'
  BY <1>1, <1>2, <1>4, <1>6 DEF ArrivalsOK
<1> QED
  BY <1>5, <1>10, <1>11 DEF GroupInv

\* The last arriver returns; it owed nothing but its own return.
LEMMA GroupSerial ==
  ASSUME TypeInv, GroupInv, setup.build = "BLOCKED_BARRIER", NEW a \in Actors,
         ReturnSerial(a), UNCHANGED setup
  PROVE  GroupInv'
<1>1. (\A b \in Actors : LocalOK(b)) /\ AdmittedOK /\ ArrivalsOK
  BY DEF GroupInv
<1>2. /\ pc[a] = "b_pop" /\ ~(cur_waiter[a] > 1) /\ pc' = [pc EXCEPT ![a] = "ready"]
      /\ cur_waiter' = [cur_waiter EXCEPT ![a] = 0] /\ left' = [left EXCEPT ![a] = @ + 1]
      /\ UNCHANGED <<setup, cur_waiters, cur_round, blocked_vths, arrived, misfired>>
  BY DEF ReturnSerial, Waking, Leave, At, Move
<1>3. /\ \A b \in Actors : pc'[b] = IF b = a THEN "ready" ELSE pc[b]
      /\ \A b \in Actors : b # a => cur_waiter'[b] = cur_waiter[b]
      /\ cur_waiter[a] \in Nat
  BY <1>2, GroupTypes
<1>4. Count' = Count
  BY <1>2 DEF Count
<1>5. \A b \in Actors : LocalOK(b)'
  BY <1>1, <1>2, <1>3, <1>4 DEF LocalOK
<1>6. AtReset' = AtReset /\ AtNext' = AtNext
  BY <1>2, <1>3 DEF AtReset, AtNext
<1>7. Called' = Called
  BY <1>2, <1>3, InQueueKept DEF Called, Actors
<1>8. /\ Times(Owed) \in Nat /\ Times(left) \in Nat /\ Cardinality(Called) \in Nat
      /\ Owed \in [Actors -> Nat]
  BY GroupTypes
<1>9. Times(Owed') = Times(Owed) - 1 /\ Times(Owed') \in Nat
  <2>1. /\ Owed[a] = 1 /\ Owed'[a] = 0 /\ Owed' \in [Actors -> Nat]
        /\ \A b \in Actors : b # a => Owed'[b] = Owed[b]
    BY <1>1, <1>2, <1>3, GroupTypes DEF Owed, LocalOK
  <2>2. Times(Owed') \in Nat /\ Times(Owed') + Owed[a] = Times(Owed) + Owed'[a]
    BY <1>8, <2>1, TimesChange
  <2> QED
    BY <1>8, <2>1, <2>2
<1>10. Times(left') = Times(left) + 1
  <2>1. left' \in [Actors -> Nat] /\ left'[a] = left[a] + 1 /\ left[a] \in Nat
        /\ \A b \in Actors : b # a => left'[b] = left[b]
    BY <1>2, GroupTypes
  <2>2. Times(left') \in Nat /\ Times(left') + left[a] = Times(left) + left'[a]
    BY <2>1, GroupTypes, TimesChange
  <2> QED
    BY <1>8, <2>1, <2>2
<1>11. AdmittedOK'
  <2>1. Times(left)' + Cardinality(Called') + Times(Owed)'
          = Times(left) + Cardinality(Called) + Times(Owed)
    BY <1>7, <1>8, <1>9, <1>10
  <2> QED
    BY <1>1, <1>2, <1>4, <2>1 DEF AdmittedOK
<1>12. ArrivalsOK'
  BY <1>1, <1>2, <1>4, <1>6 DEF ArrivalsOK
<1> QED
  BY <1>5, <1>11, <1>12 DEF GroupInv

\* A step that leaves the barrier alone.
LEMMA GroupKept ==
  ASSUME GroupInv, UNCHANGED barrierVars
  PROVE  GroupInv'
<1>1. UNCHANGED <<setup, cur_waiters, cur_round, blocked_vths, pc, cur_waiter, arrived,
                  left, misfired>>
  BY DEF barrierVars
<1>2. Called' = Called
  BY <1>1, InQueueKept DEF Called
<1> QED
  BY <1>1, <1>2 DEF GroupInv, LocalOK, AdmittedOK, ArrivalsOK, AtReset, AtNext, Owed, Count

\* A step of an actor keeps the groups.
LEMMA GroupActor ==
  ASSUME TypeInv, PlaceInv, GroupInv, NEW a \in Actors, ActorStep(a)
  PROVE  GroupInv'
<1>0. CASE setup.build # "BLOCKED_BARRIER"
  BY <1>0 DEF GroupInv, ActorStep
<1> SUFFICES ASSUME setup.build = "BLOCKED_BARRIER" PROVE GroupInv'
  BY <1>0
<1>s. setup' = setup /\ pc \in [Actors -> PCs] /\ LocalOK(a)
  BY DEF ActorStep, TypeInv, TypeOK, GroupInv
<1>1. CASE ReadRound(a)
  BY <1>1, <1>s, GroupQuiet DEF ReadRound, At, Move
<1>2. CASE AddWaiter(a)
  BY <1>2, <1>s, GroupAdd
<1>3. CASE Hide(a)
  <2>1. /\ pc[a] = "b_hide"
        /\ UNCHANGED <<setup, cur_waiters, cur_round, blocked_vths, cur_waiter, arrived,
                       left, misfired>>
    BY <1>3, <1>s DEF Hide, At
  <2>2. CASE pc' = [pc EXCEPT ![a] = "b_push"]
    BY <2>1, <2>2, GroupQuiet
  <2>3. CASE pc' = pc
    <3>1. pc' = [pc EXCEPT ![a] = "b_hide"]
      BY <1>s, <2>1, <2>3
    <3> QED
      BY <2>1, <3>1, GroupQuiet
  <2> QED
    BY <1>3, <2>2, <2>3 DEF Hide, Move
<1>4. CASE Push(a)
  BY <1>4, <1>s, GroupPush
<1>5. CASE Block(a)
  BY <1>5, <1>s, GroupQuiet DEF Block, At, Move
<1>6. CASE Released(a)
  BY <1>6, <1>s, GroupReleased
<1>7. CASE LookAgain(a) \/ LookReleased(a)
  BY <1>7, <1>s DEF LookAgain, LookReleased, At, LocalOK
<1>8. CASE ResetWaiters(a)
  BY <1>8, <1>s, GroupReset
<1>9. CASE NextRound(a)
  BY <1>9, <1>s, GroupNext
<1>10. CASE PopWaiter(a)
  BY <1>10, <1>s, GroupPop
<1>11. CASE PopEmpty(a)
  BY <1>11, GroupKept DEF PopEmpty
<1>12. CASE EnqueueWaiter(a)
  BY <1>12, <1>s, GroupQuiet DEF EnqueueWaiter, At, Move
<1>13. CASE ReturnSerial(a)
  BY <1>13, <1>s, GroupSerial
<1>14. CASE End(a)
  BY <1>14, <1>s, GroupQuiet DEF End, At, Move
<1> QED
  BY <1>1, <1>2, <1>3, <1>4, <1>5, <1>6, <1>7, <1>8, <1>9, <1>10, <1>11, <1>12,
     <1>13, <1>14 DEF ActorStep

\* In the initial states nobody has arrived.
LEMMA GroupInit == Init => GroupInv
<1> SUFFICES ASSUME Init PROVE GroupInv
  OBVIOUS
<1>1. TypeInv
  BY TypeInit
<1>2. /\ \A a \in Actors : pc[a] = "ready" /\ left[a] = 0 /\ arrived[a] = 0
      /\ cur_round = 0 /\ cur_waiters = 0 /\ misfired = FALSE
  BY DEF Init
<1>3. \A a \in Actors : LocalOK(a)
  BY <1>2 DEF LocalOK
<1>4. AtReset = {} /\ AtNext = {} /\ Called = {} /\ \A a \in Actors : Owed[a] = 0
  <2>1. AtReset = {} /\ AtNext = {}
    BY <1>2 DEF AtReset, AtNext
  <2>2. Called = {}
    BY <1>2 DEF Called, Actors
  <2>3. \A a \in Actors : Owed[a] = 0
    BY <1>2 DEF Owed
  <2> QED
    BY <2>1, <2>2, <2>3
<1>5. Times(left) = 0 /\ Times(arrived) = 0 /\ Times(Owed) = 0
  <2>1. left \in [Actors -> Nat] /\ arrived \in [Actors -> Nat] /\ Owed \in [Actors -> Nat]
    BY <1>1, GroupTypes
  <2> QED
    BY <1>2, <1>4, <2>1, TimesZero
<1>6. Cardinality(AtNext) = 0 /\ Cardinality(Called) = 0 /\ Count \in Nat \ {0}
  BY <1>1, <1>4, FS_EmptySet, GroupTypes
<1>7. Count * 0 = 0 /\ Count * (0 + 0) = 0
  BY <1>6
<1>8. AdmittedOK
  BY <1>2, <1>5, <1>6, <1>7 DEF AdmittedOK
<1>9. ArrivalsOK
  BY <1>2, <1>4, <1>5, <1>6, <1>7 DEF ArrivalsOK
<1> QED
  BY <1>3, <1>8, <1>9 DEF GroupInv

\* However many use the barrier of BLOCKED_BARRIER, and even after the reset of
\* cur_waiters has failed, they leave it in groups of Count: no more have returned
\* than the completed rounds admit, and every completed round had Count arrivals.
THEOREM GroupsReleased == Spec => []GroupRelease
<1>1. Init => GroupInv
  BY GroupInit
<1>2. BarrierIInv /\ GroupInv /\ [Next]_vars => GroupInv'
  <2> SUFFICES ASSUME BarrierIInv, GroupInv, [Next]_vars PROVE GroupInv'
    OBVIOUS
  <2>1. CASE \E a \in Actors : ActorStep(a)
    BY <2>1, GroupActor DEF BarrierIInv
  <2>2. CASE \E w \in Workers : Work(w)
    BY <2>2, GroupKept DEF Work
  <2>3. CASE UNCHANGED vars
    BY <2>3, GroupKept DEF vars
  <2> QED
    BY <2>1, <2>2, <2>3 DEF Next
<1>3. BarrierIInv /\ GroupInv => GroupRelease
  <2> SUFFICES ASSUME BarrierIInv, GroupInv, setup.build = "BLOCKED_BARRIER"
               PROVE  Times(left) <= Count * cur_round /\ Count * cur_round <= Times(arrived)
    BY DEF GroupRelease
  <2>1. /\ Times(left) \in Nat /\ Times(Owed) \in Nat /\ Times(arrived) \in Nat
        /\ Cardinality(Called) \in Nat /\ Cardinality(AtNext) \in Nat
        /\ Count \in Nat /\ cur_round \in Nat /\ cur_waiters \in Nat
    BY GroupTypes DEF BarrierIInv
  <2>2. PICK n \in Nat, m \in Nat :
          /\ n = Count * cur_round /\ m = Count * Cardinality(AtNext)
          /\ Count * (cur_round + Cardinality(AtNext)) = n + m
    BY <2>1
  <2>3. Times(left) + Cardinality(Called) + Times(Owed) = n
    BY <2>2 DEF GroupInv, AdmittedOK
  <2>4. /\ Times(arrived) + (IF misfired THEN Count ELSE 0) = n + m + cur_waiters
        /\ misfired => cur_waiters > Count
    BY <2>2 DEF GroupInv, ArrivalsOK
  <2> QED
    BY <2>1, <2>2, <2>3, <2>4
<1> QED
  BY <1>1, <1>2, <1>3, BarrierInductive, PTL DEF Spec

=============================================================================
