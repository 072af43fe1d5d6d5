---------------------------- MODULE RWLockProofs ----------------------------
(***************************************************************************)
(* Proofs about RWLock for any finite number of vthreads and any number of *)
(* calls.                                                                  *)
(***************************************************************************)
EXTENDS RWLock, FiniteSetTheorems, TLAPS

RdOps == {"tryrdlock", "rdlock"}
WrOps == {"trywrlock", "wrlock"}

\* What the position of a thread says about its call and its mode.
ControlOK ==
  \A t \in VThreads :
    /\ held[t] # "no" => pc[t] = "ready"
    /\ held[t] = "read" => op[t] \in RdOps
    /\ held[t] = "write" => op[t] \in WrOps
    /\ pc[t] \in {"rd_test", "rd_inc", "rd_look", "rd_undo", "un_r"} => op[t] \in RdOps
    /\ pc[t] \in {"wr_r", "wr_w", "wr_cas", "wr_look", "wr_undo", "un_w"} => op[t] \in WrOps
    /\ pc[t] = "un_test" => op[t] \in Ops

\* The threads that have put themselves in w and have not taken themselves out.
InW(t) ==
  \/ pc[t] \in {"wr_look", "wr_undo", "un_w"}
  \/ held[t] = "write"
  \/ pc[t] = "un_test" /\ op[t] \in WrOps

WriterInv == \A t \in VThreads : InW(t) <=> w = t

Readers == {t \in VThreads : Announced(t)}

Inv == TypeOK /\ ControlOK /\ WriterInv /\ ReadersCounted /\ RWExclusion

\* A step of a thread keeps the types.
LEMMA TypeStep ==
  ASSUME TypeOK, NEW t \in VThreads, Step(t)
  PROVE  TypeOK'
<1> USE RWThreadsAssumption, UsedOpsAssumption DEF TypeOK, PCs, Ops, At, Move
<1>1. CASE \E o \in UsedOps : Call(t, o)
  BY <1>1 DEF Call
<1>2. CASE RdTest(t)
  BY <1>2 DEF RdTest, BackOff
<1>3. CASE RdInc(t)
  BY <1>3 DEF RdInc
<1>4. CASE RdLook(t)
  BY <1>4 DEF RdLook, Got
<1>5. CASE RdUndo(t)
  BY <1>5 DEF RdUndo, BackOff
<1>6. CASE WrTestR(t)
  BY <1>6 DEF WrTestR, BackOff
<1>7. CASE WrTestW(t)
  BY <1>7 DEF WrTestW, BackOff
<1>8. CASE WrCas(t)
  BY <1>8 DEF WrCas, BackOff
<1>9. CASE WrLook(t)
  BY <1>9 DEF WrLook, Got
<1>10. CASE WrUndo(t)
  BY <1>10 DEF WrUndo, BackOff
<1>11. CASE CallUnlock(t)
  BY <1>11 DEF CallUnlock
<1>12. CASE UnTest(t)
  BY <1>12 DEF UnTest
<1>13. CASE UnW(t)
  BY <1>13 DEF UnW
<1>14. CASE UnR(t)
  BY <1>14 DEF UnR
<1> QED
  BY <1>1, <1>2, <1>3, <1>4, <1>5, <1>6, <1>7, <1>8, <1>9, <1>10, <1>11,
     <1>12, <1>13, <1>14
     DEF Step

\* A step of a thread keeps the control facts, and w names the thread that has
\* put itself there.
LEMMA ControlStep ==
  ASSUME TypeOK, ControlOK, WriterInv, NEW t \in VThreads, Step(t)
  PROVE  ControlOK' /\ WriterInv'
<1> USE RWThreadsAssumption, UsedOpsAssumption
        DEF TypeOK, ControlOK, WriterInv, InW, RdOps, WrOps, Ops, At, Move
<1>1. CASE \E o \in UsedOps : Call(t, o)
  BY <1>1 DEF Call
<1>2. CASE RdTest(t)
  BY <1>2 DEF RdTest, BackOff
<1>3. CASE RdInc(t)
  BY <1>3 DEF RdInc
<1>4. CASE RdLook(t)
  BY <1>4 DEF RdLook, Got
<1>5. CASE RdUndo(t)
  BY <1>5 DEF RdUndo, BackOff
<1>6. CASE WrTestR(t)
  BY <1>6 DEF WrTestR, BackOff
<1>7. CASE WrTestW(t)
  BY <1>7 DEF WrTestW, BackOff
<1>8. CASE WrCas(t)
  BY <1>8 DEF WrCas, BackOff
<1>9. CASE WrLook(t)
  BY <1>9 DEF WrLook, Got
<1>10. CASE WrUndo(t)
  BY <1>10 DEF WrUndo, BackOff
<1>11. CASE CallUnlock(t)
  BY <1>11 DEF CallUnlock
<1>12. CASE UnTest(t)
  BY <1>12 DEF UnTest
<1>13. CASE UnW(t)
  BY <1>13 DEF UnW
<1>14. CASE UnR(t)
  BY <1>14 DEF UnR
<1> QED
  BY <1>1, <1>2, <1>3, <1>4, <1>5, <1>6, <1>7, <1>8, <1>9, <1>10, <1>11,
     <1>12, <1>13, <1>14
     DEF Step

\* The set of announced readers changes by one thread, and only where r does.
LEMMA ReadersStep ==
  ASSUME TypeOK, ControlOK, WriterInv, NEW t \in VThreads, Step(t)
  PROVE  \/ r' = r /\ Readers' = Readers
         \/ r' = r + 1 /\ t \notin Readers /\ Readers' = Readers \cup {t}
         \/ r' = r - 1 /\ t \in Readers /\ Readers' = Readers \ {t}
<1>1. \A s \in VThreads \ {t} : Announced(s)' <=> Announced(s)
  <2> SUFFICES ASSUME NEW s \in VThreads, s # t
               PROVE  pc'[s] = pc[s] /\ held'[s] = held[s] /\ op'[s] = op[s]
    BY DEF Announced
  <2> QED
    BY DEF TypeOK, Step, Move, Call, RdTest, RdInc, RdLook, Got, RdUndo, BackOff,
           WrTestR, WrTestW, WrCas, WrLook, WrUndo, CallUnlock, UnTest, UnW, UnR
<1>2. CASE r' = r /\ (Announced(t)' <=> Announced(t))
  BY <1>1, <1>2 DEF Readers
<1>3. CASE RdInc(t)
  <2>1. r' = r + 1 /\ ~Announced(t) /\ Announced(t)'
    BY <1>3 DEF RdInc, At, Move, Announced, TypeOK, ControlOK
  <2> QED
    BY <1>1, <2>1 DEF Readers
<1>4. CASE RdUndo(t)
  <2>1. r' = r - 1 /\ Announced(t) /\ ~Announced(t)'
    BY <1>4 DEF RdUndo, BackOff, At, Move, Announced, TypeOK, ControlOK
  <2> QED
    BY <1>1, <2>1 DEF Readers
<1>5. CASE UnR(t)
  <2>1. r' = r - 1 /\ Announced(t) /\ ~Announced(t)'
    BY <1>5 DEF UnR, At, Move, Announced, TypeOK, ControlOK
  <2> QED
    BY <1>1, <2>1 DEF Readers
<1>6. CASE ~(RdInc(t) \/ RdUndo(t) \/ UnR(t))
  <2>1. r' = r
    BY <1>6 DEF Step, Call, RdTest, RdLook, WrTestR, WrTestW, WrCas, WrLook, WrUndo,
                CallUnlock, UnTest, UnW
  <2> USE RWThreadsAssumption, UsedOpsAssumption
          DEF Announced, At, Move, TypeOK, ControlOK, WriterInv, InW, RdOps, WrOps, Ops
  <2>2. CASE \E o \in UsedOps : Call(t, o)
    BY <1>2, <2>1, <2>2 DEF Call
  <2>3. CASE RdTest(t)
    BY <1>2, <2>1, <2>3 DEF RdTest, BackOff
  <2>4. CASE RdLook(t)
    BY <1>2, <2>1, <2>4 DEF RdLook, Got
  <2>5. CASE WrTestR(t)
    BY <1>2, <2>1, <2>5 DEF WrTestR, BackOff
  <2>6. CASE WrTestW(t)
    BY <1>2, <2>1, <2>6 DEF WrTestW, BackOff
  <2>7. CASE WrCas(t)
    BY <1>2, <2>1, <2>7 DEF WrCas, BackOff
  <2>8. CASE WrLook(t)
    BY <1>2, <2>1, <2>8 DEF WrLook, Got
  <2>9. CASE WrUndo(t)
    BY <1>2, <2>1, <2>9 DEF WrUndo, BackOff
  <2>10. CASE CallUnlock(t)
    BY <1>2, <2>1, <2>10 DEF CallUnlock
  <2>11. CASE UnTest(t)
    BY <1>2, <2>1, <2>11 DEF UnTest
  <2>12. CASE UnW(t)
    BY <1>2, <2>1, <2>12 DEF UnW
  <2> QED
    BY <1>6, <2>2, <2>3, <2>4, <2>5, <2>6, <2>7, <2>8, <2>9, <2>10, <2>11, <2>12
       DEF Step
<1> QED
  BY <1>3, <1>4, <1>5, <1>6

\* The announced readers are finitely many, so they can be counted.
LEMMA ReadersFinite == IsFiniteSet(Readers)
BY RWThreadsAssumption, FS_Subset DEF Readers

\* A step of a thread keeps r equal to the number of announced readers.
LEMMA CountStep ==
  ASSUME TypeOK, ControlOK, WriterInv, ReadersCounted,
         NEW t \in VThreads, Step(t)
  PROVE  ReadersCounted'
<1>1. r = Cardinality(Readers) /\ IsFiniteSet(Readers)
  BY ReadersFinite DEF ReadersCounted, Readers
<1>2. r' = Cardinality(Readers')
  BY <1>1, ReadersStep, FS_AddElement, FS_RemoveElement
<1> QED
  BY <1>2 DEF ReadersCounted, Readers

\* A thread gets the lock for reading only while w is null, and for writing
\* only while r is zero and w points to it.
LEMMA ExclusionStep ==
  ASSUME TypeOK, ControlOK, WriterInv, ReadersCounted, RWExclusion,
         NEW t \in VThreads, Step(t)
  PROVE  RWExclusion'
<1>1. CASE RdLook(t) /\ w = None
  <2>1. \A s \in VThreads : held[s] # "write"
    BY <1>1, RWThreadsAssumption DEF WriterInv, InW
  <2>2. held' = [held EXCEPT ![t] = "read"] \/ held' = held
    BY <1>1 DEF RdLook, Got
  <2> QED
    BY <2>1, <2>2 DEF RWExclusion, TypeOK
<1>2. CASE WrLook(t) /\ r = 0
  <2>1. w = t
    BY <1>2 DEF WrLook, At, WriterInv, InW
  <2>2. Readers = {}
    <3>1. r = Cardinality(Readers) /\ IsFiniteSet(Readers)
      BY ReadersFinite DEF ReadersCounted, Readers
    <3> QED
      BY <1>2, <3>1, FS_EmptySet
  <2>3. \A s \in VThreads : s # t => held[s] = "no"
    BY <2>1, <2>2 DEF Readers, Announced, WriterInv, InW, TypeOK
  <2>4. held' = [held EXCEPT ![t] = "write"] \/ held' = held
    BY <1>2 DEF WrLook, Got
  <2> QED
    BY <2>3, <2>4 DEF RWExclusion, TypeOK
<1>3. CASE held' = held \/ held' = [held EXCEPT ![t] = "no"]
  BY <1>3 DEF RWExclusion, TypeOK
<1>4. held' = held \/ held' = [held EXCEPT ![t] = "no"]
      \/ (RdLook(t) /\ w = None) \/ (WrLook(t) /\ r = 0)
  BY DEF Step, Call, RdTest, RdInc, RdLook, RdUndo, WrTestR, WrTestW, WrCas, WrLook,
         WrUndo, CallUnlock, UnTest, UnW, UnR
<1> QED
  BY <1>1, <1>2, <1>3, <1>4

\* The initial states satisfy the inductive invariant.
LEMMA RWInit == Init => Inv
<1> SUFFICES ASSUME Init PROVE Inv
  OBVIOUS
<1>1. TypeOK
  BY RWThreadsAssumption DEF Init, TypeOK, PCs
<1>2. ControlOK /\ RWExclusion
  BY DEF Init, ControlOK, RWExclusion
<1>3. WriterInv
  BY RWThreadsAssumption DEF Init, WriterInv, InW
<1>4. {t \in VThreads : Announced(t)} = {}
  BY DEF Init, Announced
<1>5. ReadersCounted
  BY <1>4, FS_EmptySet DEF Init, ReadersCounted
<1> QED
  BY <1>1, <1>2, <1>3, <1>5 DEF Inv

\* A stuttering step keeps the inductive invariant.
LEMMA RWStutter == Inv /\ UNCHANGED vars => Inv'
<1> SUFFICES ASSUME Inv, UNCHANGED vars PROVE Inv'
  OBVIOUS
<1>1. {t \in VThreads : Announced(t)}' = {t \in VThreads : Announced(t)}
  BY DEF Announced, vars
<1>2. ReadersCounted'
  BY <1>1 DEF Inv, vars, ReadersCounted
<1>3. TypeOK' /\ ControlOK' /\ WriterInv' /\ RWExclusion'
  BY DEF Inv, vars, TypeOK, ControlOK, WriterInv, InW, RWExclusion
<1> QED
  BY <1>2, <1>3 DEF Inv

\* The inductive invariant holds in every reachable state.
LEMMA RWInvariant == Spec => []Inv
<1>1. Inv /\ [Next]_vars => Inv'
  BY TypeStep, ControlStep, CountStep, ExclusionStep, RWStutter DEF Next, Inv
<1> QED
  BY <1>1, RWInit, PTL DEF Spec

\* A writer of the read-write lock is alone, however many
\* threads take the lock and in whatever order their steps interleave.
THEOREM RWExclusionHolds == Spec => []RWExclusion
<1>1. Inv => RWExclusion
  BY DEF Inv
<1> QED
  BY <1>1, RWInvariant, PTL

\* r is always the number of readers announced in it.
THEOREM ReadersCountedHolds == Spec => []ReadersCounted
<1>1. Inv => ReadersCounted
  BY DEF Inv
<1> QED
  BY <1>1, RWInvariant, PTL

\* The lock is free again once nobody uses it.
THEOREM FreeAtRestHolds == Spec => []FreeAtRest
<1>1. Inv => FreeAtRest
  <2> SUFFICES ASSUME Inv, \A t \in VThreads : pc[t] = "ready" /\ held[t] = "no"
               PROVE  r = 0 /\ w = None
    BY DEF FreeAtRest
  <2>1. {t \in VThreads : Announced(t)} = {}
    BY DEF Announced
  <2>2. r = 0
    BY <2>1, FS_EmptySet DEF Inv, ReadersCounted
  <2>3. w = None
    BY DEF Inv, TypeOK, WriterInv, InW
  <2> QED
    BY <2>2, <2>3
<1> QED
  BY <1>1, RWInvariant, PTL

=============================================================================
