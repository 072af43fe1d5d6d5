----------------------------- MODULE SemProofs -----------------------------
(***************************************************************************)
(* Sem and KernelSem implement CountingSemaphore, for any finite set of    *)
(* callers, any initial value and any number of calls.                     *)
(***************************************************************************)
EXTENDS Sem, KernelSem, Functions, FiniteSetTheorems, TLAPS

\* The type invariant holds of every step of a caller.
LEMMA TypeStep ==
  ASSUME TypeOK, NEW a \in Callers, Step(a)
  PROVE  TypeOK'
<1> USE SemAssumption DEF TypeOK, At, Move
<1>1. CASE \E o \in {"wait", "trywait"} : CallWait(a, o)
  BY <1>1 DEF CallWait, Calls
<1>2. CASE Test(a)
  BY <1>2 DEF Test, Fail
<1>3. CASE Dec(a)
  BY <1>3 DEF Dec, Got
<1>4. CASE Undo(a)
  BY <1>4 DEF Undo, Fail
<1>5. CASE Post(a)
  BY <1>5 DEF Post, Calls
<1> QED
  BY <1>1, <1>2, <1>3, <1>4, <1>5 DEF Step

\* The type invariant holds in every reachable state.
THEOREM SemTypes == Spec => []TypeOK
<1>1. Init => TypeOK
  BY SemAssumption DEF Init, TypeOK
<1>2. TypeOK /\ [Next]_vars => TypeOK'
  BY TypeStep DEF Next, TypeOK, vars
<1> QED
  BY <1>1, <1>2, PTL DEF Spec

\* Undoing is a finite set, so its cardinality is a natural number.
LEMMA UndoingFinite ==
  /\ IsFiniteSet(Undoing)
  /\ Cardinality(Undoing) \in Nat
<1>1. IsFiniteSet(Callers)
  BY SemAssumption, FS_Union DEF Callers
<1>2. IsFiniteSet(Undoing)
  BY <1>1, FS_Subset DEF Undoing
<1> QED
  BY <1>2, FS_CardinalityType

\* A move that neither starts nor ends at "undo" leaves Undoing alone.
LEMMA UndoingSame ==
  ASSUME TypeOK, NEW a \in Callers, NEW l \in {"ready", "test", "dec"},
         pc[a] # "undo", Move(a, l)
  PROVE  Undoing' = Undoing
BY DEF Undoing, Move, TypeOK

\* A failed decrement hides one unit.
LEMMA UndoingGrows ==
  ASSUME TypeOK, NEW a \in Callers, pc[a] # "undo", Move(a, "undo")
  PROVE  Cardinality(Undoing') = Cardinality(Undoing) + 1
<1>1. Undoing' = Undoing \cup {a} /\ a \notin Undoing
  BY DEF Undoing, Move, TypeOK
<1> QED
  BY <1>1, UndoingFinite, FS_AddElement

\* Undoing a decrement shows the hidden unit again.
LEMMA UndoingShrinks ==
  ASSUME TypeOK, NEW a \in Callers, NEW l \in {"ready", "test", "dec"},
         pc[a] = "undo", Move(a, l)
  PROVE  Cardinality(Undoing') = Cardinality(Undoing) - 1
<1>1. Undoing' = Undoing \ {a} /\ a \in Undoing
  BY DEF Undoing, Move, TypeOK
<1> QED
  BY <1>1, UndoingFinite, FS_RemoveElement

-----------------------------------------------------------------------------

\* Initially nobody is undoing anything, and all the units are available.
LEMMA RefinesInit == Init => Counting!Init
<1> SUFFICES ASSUME Init PROVE Avail = Initial
  BY DEF Init, Counting!Init
<1>1. Undoing = {}
  BY DEF Init, Undoing
<1> QED
  BY <1>1, FS_EmptySet, SemAssumption DEF Init, Avail

\* A step of a caller takes a unit, releases one, or changes nothing that the
\* abstract semaphore sees.
LEMMA RefinesStep ==
  ASSUME TypeOK, NEW a \in Callers, Step(a)
  PROVE  Counting!Next \/ UNCHANGED <<Avail, taken>>
<1> DEFINE n == Cardinality(Undoing)
<1>0. n \in Nat /\ c \in Int
  BY UndoingFinite DEF TypeOK
<1>1. CASE \E o \in {"wait", "trywait"} : CallWait(a, o)
  <2>1. pc[a] # "undo" /\ Move(a, "test") /\ c' = c /\ taken' = taken
    BY <1>1 DEF CallWait, Calls, At
  <2> QED
    BY <2>1, UndoingSame DEF Avail
<1>2. CASE Test(a)
  <2>1. c' = c /\ taken' = taken /\ pc[a] # "undo"
    BY <1>2 DEF Test, At
  <2>2. Move(a, "ready") \/ Move(a, "test") \/ Move(a, "dec")
    BY <1>2 DEF Test, Fail
  <2>3. Undoing' = Undoing
    BY <2>1, <2>2, UndoingSame
  <2> QED
    BY <2>1, <2>3 DEF Avail
<1>3. CASE Dec(a)
  <2>1. pc[a] # "undo" /\ c' = c - 1
    BY <1>3 DEF Dec, At
  <2>2. CASE c > 0 /\ Got(a)
    <3>1. Undoing' = Undoing
      BY <2>1, <2>2, UndoingSame DEF Got
    <3>2. Avail > 0 /\ Avail' = Avail - 1
      BY <1>0, <2>1, <2>2, <3>1 DEF Avail
    <3>3. Avail \in Int /\ Avail' \in Int /\ Avail - Avail' = 1 /\ Avail' >= 0
      BY <1>0, <3>2 DEF Avail
    <3>4. taken' = [taken EXCEPT ![a] = @ + (Avail - Avail')]
      BY <2>2, <3>3 DEF Got
    <3>5. Avail' < Avail
      BY <1>0, <2>1, <2>2, <3>1 DEF Avail
    <3>6. Counting!Acquire(a)
      BY ONLY <3>3, <3>4, <3>5 DEF Counting!Acquire
    <3> QED
      BY <3>6 DEF Counting!Next
  <2>3. CASE c <= 0 /\ Move(a, "undo") /\ UNCHANGED taken
    <3>1. Cardinality(Undoing') = n + 1
      BY <2>1, <2>3, UndoingGrows
    <3> QED
      BY <1>0, <2>1, <2>3, <3>1 DEF Avail
  <2> QED
    BY <1>3, <2>2, <2>3 DEF Dec
<1>4. CASE Undo(a)
  <2>1. pc[a] = "undo" /\ c' = c + 1 /\ taken' = taken
    BY <1>4 DEF Undo, At
  <2>2. Move(a, "ready") \/ Move(a, "test")
    BY <1>4 DEF Undo, Fail
  <2>3. Cardinality(Undoing') = n - 1
    BY <2>1, <2>2, UndoingShrinks
  <2> QED
    BY <1>0, <2>1, <2>3 DEF Avail
<1>5. CASE Post(a)
  <2>1. c' = c + 1 /\ taken' = taken /\ Undoing' = Undoing
    BY <1>5 DEF Post, Undoing
  <2>2. Avail' = Avail + 1
    BY <1>0, <2>1 DEF Avail
  <2>3. Avail' > Avail
    BY <1>0, <2>2 DEF Avail
  <2> QED
    BY <2>1, <2>3 DEF Counting!Next, Counting!Release
<1> QED
  BY <1>1, <1>2, <1>3, <1>4, <1>5 DEF Step

\* The semaphore of strategy.h implements the counting semaphore: no unit is
\* taken twice and none disappears.
THEOREM SemImplementsCounting == Spec => IsCountingSemaphore
<1>1. Init => Counting!Init
  BY RefinesInit
<1>2. TypeOK /\ [Next]_vars => [Counting!Next]_<<Avail, taken>>
  <2> SUFFICES ASSUME TypeOK, [Next]_vars
               PROVE  [Counting!Next]_<<Avail, taken>>
    OBVIOUS
  <2>1. CASE Next
    BY <2>1, RefinesStep DEF Next
  <2>2. CASE UNCHANGED vars
    BY <2>2 DEF vars, Avail, Undoing
  <2> QED
    BY <2>1, <2>2
<1> QED
  BY <1>1, <1>2, SemTypes, PTL DEF Spec, IsCountingSemaphore, Counting!Spec

-----------------------------------------------------------------------------
(***************************************************************************)
(* KernelSem implements CountingSemaphore.  The unit of a thread that      *)
(* sleeps in LightweightSemaphore::wait comes through the kernel's         *)
(* semaphore: whoever raises a negative counter owes as many posts as it   *)
(* has raised it towards zero, so that there are as many sleepers below    *)
(* zero as there are neither posted nor owed.                              *)
(***************************************************************************)

LightPoints == {"ready", "w_spin", "w_sleep", "w_more", "s_post"}
MutexPoints == {"ready", "held", "l_spin", "t_spin", "u_spin", "l_in", "t_in", "u_in",
                "l_fut", "l_sleep", "exited", "u_post", "u_wake"}

\* The threads that are at one of the points of P.
AtAny(P) == {t \in Threads : at[t] \in P}

\* The posts that are owed, one pair for each.
Owed == {o \in Threads \X Nat : at[o[1]] = "s_post" /\ o[2] \in 1..arg[o[1]]}

KTypeOK ==
  /\ kind \in Kinds
  /\ count \in Int
  /\ sema \in Nat
  /\ asleep \subseteq Threads
  /\ at \in [Threads -> IF kind = "light" THEN LightPoints
                        ELSE IF kind = "queued" THEN MutexPoints ELSE {"ready"}]
  /\ arg \in [Threads -> Nat]
  /\ has \in [Threads -> Nat]

LightInv ==
  /\ \A t \in Threads : at[t] \in LightPoints \ {"ready"} => arg[t] >= 1
  /\ IsFiniteSet(Owed)
  /\ Least(count, 0) + Cardinality(AtAny({"w_sleep"})) = sema + Cardinality(Owed)

KIInv ==
  /\ KTypeOK
  /\ kind = "light" => LightInv
  /\ kind = "queued" => count \in {0, 1}

\* The units that are available to the abstract semaphore.
KAvail == count + Cardinality(Pending)

\* The threads at some points are finitely many.
LEMMA AtAnyFinite ==
  ASSUME NEW P
  PROVE  IsFiniteSet(AtAny(P)) /\ Cardinality(AtAny(P)) \in Nat
<1>1. AtAny(P) \subseteq Threads
  BY DEF AtAny
<1>2. IsFiniteSet(AtAny(P))
  BY <1>1, KernelSemAssumption, FS_Subset
<1> QED
  BY <1>2, FS_CardinalityType

\* How their number changes when one thread goes on.
LEMMA AtAnyMoved ==
  ASSUME NEW P, NEW Q, at \in [Threads -> Q], NEW t \in Threads, NEW l, Goto(t, l)
  PROVE  Cardinality(AtAny(P)') = Cardinality(AtAny(P)) + (IF l \in P THEN 1 ELSE 0)
                                                      - (IF at[t] \in P THEN 1 ELSE 0)
<1> DEFINE S == AtAny(P)
<1>1. IsFiniteSet(S) /\ Cardinality(S) \in Nat
  BY AtAnyFinite
<1>2. (t \in S <=> at[t] \in P) /\ AtAny(P)' = IF l \in P THEN S \cup {t} ELSE S \ {t}
  <2>1. \A u \in Threads : at'[u] = IF u = t THEN l ELSE at[u]
    BY DEF Goto
  <2>2. /\ S = {u \in Threads : at[u] \in P}
        /\ AtAny(P)' = {u \in Threads : at'[u] \in P}
    BY DEF AtAny
  <2> HIDE DEF S
  <2> QED
    BY <2>1, <2>2
<1> HIDE DEF S
<1>3. Cardinality(S \cup {t}) = IF t \in S THEN Cardinality(S) ELSE Cardinality(S) + 1
  BY <1>1, FS_AddElement
<1>4. Cardinality(S \ {t}) = IF t \in S THEN Cardinality(S) - 1 ELSE Cardinality(S)
  BY <1>1, FS_RemoveElement
<1>5. Cardinality(AtAny(P)') = Cardinality(S) + (IF l \in P THEN 1 ELSE 0)
                                             - (IF at[t] \in P THEN 1 ELSE 0)
  BY <1>1, <1>2, <1>3, <1>4
<1> QED
  BY <1>5 DEF S

\* Nobody begins or ends to owe posts.
LEMMA OwedSame ==
  ASSUME \A t \in Threads : at'[t] = "s_post" <=> at[t] = "s_post",
         \A t \in Threads : at[t] = "s_post" => arg'[t] = arg[t]
  PROVE  Owed' = Owed
<1>1. \A o \in Threads \X Nat : o[1] \in Threads
  OBVIOUS
<1>2. /\ Owed = {o \in Threads \X Nat : at[o[1]] = "s_post" /\ o[2] \in 1..arg[o[1]]}
      /\ Owed' = {o \in Threads \X Nat : at'[o[1]] = "s_post" /\ o[2] \in 1..arg'[o[1]]}
  BY DEF Owed
<1> QED
  BY <1>1, <1>2

\* t begins to owe r posts.
LEMMA OwedGrows ==
  ASSUME NEW Q, at \in [Threads -> Q], arg \in [Threads -> Nat], IsFiniteSet(Owed),
         NEW t \in Threads, NEW r \in Nat, at[t] # "s_post", GotoSet(t, "s_post", r)
  PROVE  IsFiniteSet(Owed') /\ Cardinality(Owed') = Cardinality(Owed) + r
<1> DEFINE N == {<<t, i>> : i \in 1..r}
           f == [i \in 1..r |-> <<t, i>>]
<1>1. \A u \in Threads : /\ at'[u] = IF u = t THEN "s_post" ELSE at[u]
                         /\ arg'[u] = IF u = t THEN r ELSE arg[u]
  BY DEF GotoSet, Goto
<1>2. Owed' = Owed \cup N /\ Owed \cap N = {}
  <2>1. /\ Owed = {o \in Threads \X Nat : at[o[1]] = "s_post" /\ o[2] \in 1..arg[o[1]]}
        /\ Owed' = {o \in Threads \X Nat : at'[o[1]] = "s_post" /\ o[2] \in 1..arg'[o[1]]}
    BY DEF Owed
  <2>2. \A o : o \in N <=> o \in Threads \X Nat /\ o[1] = t /\ o[2] \in 1..r
    OBVIOUS
  <2> HIDE DEF N
  <2>3. \A o \in Threads \X Nat : o \in Owed' <=> o \in Owed \/ o \in N
    BY <1>1, <2>1, <2>2
  <2>4. Owed' \subseteq Threads \X Nat /\ Owed \subseteq Threads \X Nat /\ N \subseteq Threads \X Nat
    BY <2>1, <2>2
  <2>5. \A o : ~(o \in Owed /\ o \in N)
    BY <2>1, <2>2
  <2> QED
    BY <2>3, <2>4, <2>5
<1>3. IsFiniteSet(1..r) /\ Cardinality(1..r) = r
  <2>1. IsFiniteSet(1..r) /\ Cardinality(1..r) = IF 1 > r THEN 0 ELSE r - 1 + 1
    BY FS_Interval
  <2> QED
    BY <2>1
<1>4. IsFiniteSet(N) /\ Cardinality(N) = r
  <2>1. f \in Surjection(1..r, N)
    BY DEF Surjection
  <2>2. f \in Injection(1..r, N)
    BY DEF Injection, IsInjective
  <2>3. IsFiniteSet(N) /\ (Cardinality(N) = Cardinality(1..r) <=> f \in Injection(1..r, N))
    BY <1>3, <2>1, FS_Surjection
  <2> QED
    BY <1>3, <2>2, <2>3
<1>5. Cardinality(Owed \cap N) = 0
  BY <1>2, FS_EmptySet
<1>6. /\ IsFiniteSet(Owed \cup N)
      /\ Cardinality(Owed \cup N) = Cardinality(Owed) + Cardinality(N) - Cardinality(Owed \cap N)
  BY <1>4, FS_Union
<1>7. Cardinality(Owed) \in Nat
  BY FS_CardinalityType
<1> QED
  BY <1>2, <1>4, <1>5, <1>6, <1>7

\* One post is made.
LEMMA OwedShrinks ==
  ASSUME NEW Q, at \in [Threads -> Q], arg \in [Threads -> Nat], IsFiniteSet(Owed),
         NEW t \in Threads, at[t] = "s_post", arg[t] >= 1,
         GotoSet(t, IF arg[t] = 1 THEN "ready" ELSE "s_post", arg[t] - 1)
  PROVE  IsFiniteSet(Owed') /\ Cardinality(Owed') = Cardinality(Owed) - 1
<1> DEFINE x == <<t, arg[t]>>
<1>1. \A u \in Threads : /\ at'[u] = IF u = t THEN (IF arg[t] = 1 THEN "ready" ELSE "s_post")
                                              ELSE at[u]
                         /\ arg'[u] = IF u = t THEN arg[t] - 1 ELSE arg[u]
  BY DEF GotoSet, Goto
<1>2. Owed' = Owed \ {x} /\ x \in Owed
  <2>1. /\ Owed = {o \in Threads \X Nat : at[o[1]] = "s_post" /\ o[2] \in 1..arg[o[1]]}
        /\ Owed' = {o \in Threads \X Nat : at'[o[1]] = "s_post" /\ o[2] \in 1..arg'[o[1]]}
    BY DEF Owed
  <2>2. \A o \in Threads \X Nat : o = x <=> o[1] = t /\ o[2] = arg[t]
    OBVIOUS
  <2>3. x \in Threads \X Nat /\ x[1] = t /\ x[2] = arg[t] /\ arg[t] \in 1..arg[t]
    OBVIOUS
  <2> HIDE DEF x
  <2>4. \A o \in Threads \X Nat : o \in Owed' <=> o \in Owed /\ o # x
    <3> SUFFICES ASSUME NEW o \in Threads \X Nat PROVE o \in Owed' <=> o \in Owed /\ o # x
      OBVIOUS
    <3>1. o[1] \in Threads /\ o[2] \in Nat
      OBVIOUS
    <3>2. CASE o[1] # t
      BY <1>1, <2>1, <2>2, <3>1, <3>2
    <3>3. CASE o[1] = t
      <4>1. o \in Owed' <=> arg[t] # 1 /\ o[2] \in 1..arg[t] - 1
        BY <1>1, <2>1, <3>1, <3>3
      <4>2. o \in Owed <=> o[2] \in 1..arg[t]
        BY <2>1, <3>1, <3>3
      <4>3. o = x <=> o[2] = arg[t]
        BY <2>2, <3>3
      <4>4. arg[t] \in Nat
        OBVIOUS
      <4> QED
        BY <3>1, <4>1, <4>2, <4>3, <4>4
    <3> QED
      BY <3>2, <3>3
  <2>5. x \in Owed
    BY <2>1, <2>3
  <2>6. Owed' \subseteq Threads \X Nat /\ Owed \subseteq Threads \X Nat
    BY <2>1
  <2> QED
    BY <2>4, <2>5, <2>6
<1> QED
  BY <1>2, FS_RemoveElement

-----------------------------------------------------------------------------

\* A step of the semaphore that gives t what avail shrinks by.
LEMMA KTakes ==
  ASSUME NEW t \in Threads, NEW n \in Nat \ {0}, KAvail \in Int, KAvail' = KAvail - n,
         KAvail' >= 0, has' = [has EXCEPT ![t] = @ + n]
  PROVE  Units!Next
<1>1. n = KAvail - KAvail' /\ KAvail' < KAvail
  OBVIOUS
<1>2. has' = [has EXCEPT ![t] = @ + (KAvail - KAvail')]
  BY <1>1
<1>3. Units!Acquire(t)
  BY <1>1, <1>2 DEF Units!Acquire, KAvail
<1> QED
  BY <1>3 DEF Units!Next

\* The types of the variables under "light", one by one.
LEMMA LightFacts ==
  ASSUME KIInv, kind = "light"
  PROVE  /\ count \in Int /\ sema \in Nat
         /\ at \in [Threads -> LightPoints] /\ arg \in [Threads -> Nat]
         /\ has \in [Threads -> Nat] /\ LightInv
         /\ Cardinality(Pending) \in Nat /\ Pending = AtAny({"w_sleep", "w_more"})
         /\ KAvail \in Int
<1>1. /\ count \in Int /\ sema \in Nat
      /\ at \in [Threads -> LightPoints] /\ arg \in [Threads -> Nat]
      /\ has \in [Threads -> Nat] /\ LightInv
  BY DEF KIInv, KTypeOK
<1>2. Pending = AtAny({"w_sleep", "w_more"})
  BY DEF Pending, AtAny
<1>3. Cardinality(Pending) \in Nat
  BY <1>2, AtAnyFinite
<1> QED
  BY <1>1, <1>2, <1>3 DEF KAvail

\* The invariant, put together again.
LEMMA LightNext ==
  ASSUME KIInv, kind = "light", kind' = kind, asleep' = asleep,
         count' \in Int, sema' \in Nat, at' \in [Threads -> LightPoints],
         arg' \in [Threads -> Nat], has' \in [Threads -> Nat], LightInv'
  PROVE  KIInv'
BY DEF KIInv, KTypeOK

\* A thread goes from l to m, none of which is s_post, and keeps or loses its
\* argument.
LEMMA LightMoved ==
  ASSUME KIInv, kind = "light", NEW t \in Threads, NEW m \in LightPoints \ {"s_post"},
         at[t] # "s_post", Goto(t, m), NEW a \in Nat, arg' = [arg EXCEPT ![t] = a],
         m = "ready" \/ a >= 1, sema' \in Nat,
         Least(count', 0) + (IF m = "w_sleep" THEN 1 ELSE 0) - sema'
           = Least(count, 0) + (IF at[t] = "w_sleep" THEN 1 ELSE 0) - sema,
         count' \in Int
  PROVE  /\ LightInv' /\ at' \in [Threads -> LightPoints] /\ arg' \in [Threads -> Nat]
         /\ Cardinality(Pending') = Cardinality(Pending)
               + (IF m \in {"w_sleep", "w_more"} THEN 1 ELSE 0)
               - (IF at[t] \in {"w_sleep", "w_more"} THEN 1 ELSE 0)
<1>1. /\ count \in Int /\ sema \in Nat
      /\ at \in [Threads -> LightPoints] /\ arg \in [Threads -> Nat] /\ LightInv
      /\ Pending = AtAny({"w_sleep", "w_more"})
  BY LightFacts
<1>2. /\ at' \in [Threads -> LightPoints] /\ arg' \in [Threads -> Nat]
      /\ \A u \in Threads : /\ at'[u] = IF u = t THEN m ELSE at[u]
                            /\ arg'[u] = IF u = t THEN a ELSE arg[u]
  BY <1>1 DEF Goto
<1>3. Owed' = Owed
  BY <1>2, OwedSame
<1>4. Cardinality(AtAny({"w_sleep"})') = Cardinality(AtAny({"w_sleep"}))
         + (IF m \in {"w_sleep"} THEN 1 ELSE 0) - (IF at[t] \in {"w_sleep"} THEN 1 ELSE 0)
  BY <1>1, AtAnyMoved
<1>5. Cardinality(AtAny({"w_sleep", "w_more"})') = Cardinality(AtAny({"w_sleep", "w_more"}))
         + (IF m \in {"w_sleep", "w_more"} THEN 1 ELSE 0)
         - (IF at[t] \in {"w_sleep", "w_more"} THEN 1 ELSE 0)
  BY <1>1, AtAnyMoved
<1>6. Pending' = AtAny({"w_sleep", "w_more"})'
  BY DEF Pending, AtAny
<1>7. /\ Cardinality(AtAny({"w_sleep"})) \in Nat /\ Cardinality(Owed) \in Nat
      /\ Least(count, 0) \in Int /\ Least(count', 0) \in Int
  BY <1>1, AtAnyFinite, FS_CardinalityType DEF LightInv, Least
<1>8. Least(count', 0) + Cardinality(AtAny({"w_sleep"})') = sema' + Cardinality(Owed')
  <2>1. Least(count, 0) + Cardinality(AtAny({"w_sleep"})) = sema + Cardinality(Owed)
    BY <1>1 DEF LightInv
  <2> QED
    BY <1>1, <1>3, <1>4, <1>7, <2>1
<1>9. \A u \in Threads : at'[u] \in LightPoints \ {"ready"} => arg'[u] >= 1
  BY <1>1, <1>2 DEF LightInv
<1>10. LightInv'
  <2>1. LightInv' <=> /\ \A u \in Threads : at'[u] \in LightPoints \ {"ready"} => arg'[u] >= 1
                      /\ IsFiniteSet(Owed')
                      /\ Least(count', 0) + Cardinality(AtAny({"w_sleep"})') = sema' + Cardinality(Owed')
    BY DEF LightInv, Least
  <2>2. IsFiniteSet(Owed')
    BY <1>1, <1>3 DEF LightInv
  <2> QED
    BY <1>8, <1>9, <2>1, <2>2
<1> QED
  BY <1>1, <1>2, <1>5, <1>6, <1>10

\* What a step of t must show of the invariant and of the abstract semaphore.
KGood == KIInv' /\ (Units!Next \/ (KAvail' = KAvail /\ has' = has))

\* t is given n units of the counter, and with them the one it waited for when it
\* leaves Pending.
LEMMA LightTakes ==
  ASSUME KIInv, kind = "light", kind' = kind, asleep' = asleep, sema' = sema,
         NEW t \in Threads, at[t] \in {"ready", "w_spin", "w_more"},
         Goto(t, "ready"), NEW a \in Nat, arg' = [arg EXCEPT ![t] = a],
         NEW n \in Nat, count' = count - n, n # 0 => n <= count,
         NEW k \in Nat \ {0}, has' = [has EXCEPT ![t] = @ + k],
         k = n + (IF at[t] = "w_more" THEN 1 ELSE 0)
  PROVE  KGood
<1>1. /\ count \in Int /\ sema \in Nat /\ has \in [Threads -> Nat] /\ LightInv
      /\ Cardinality(Pending) \in Nat /\ Pending = AtAny({"w_sleep", "w_more"})
      /\ KAvail \in Int
  BY LightFacts
<1>2. count' \in Int /\ Least(count', 0) = Least(count, 0) /\ sema' \in Nat
  BY <1>1 DEF Least
<1>3. /\ LightInv' /\ at' \in [Threads -> LightPoints] /\ arg' \in [Threads -> Nat]
      /\ Cardinality(Pending') = Cardinality(Pending)
            - (IF at[t] = "w_more" THEN 1 ELSE 0)
  <2>1. "ready" \in LightPoints \ {"s_post"} /\ at[t] # "s_post"
    BY DEF LightPoints
  <2>2. Least(count', 0) + (IF "ready" = "w_sleep" THEN 1 ELSE 0) - sema'
           = Least(count, 0) + (IF at[t] = "w_sleep" THEN 1 ELSE 0) - sema
    <3>1. Least(count', 0) \in Int
      BY <1>2 DEF Least
    <3> QED
      BY <1>1, <1>2, <3>1
  <2>3. /\ LightInv' /\ at' \in [Threads -> LightPoints] /\ arg' \in [Threads -> Nat]
        /\ Cardinality(Pending') = Cardinality(Pending)
             + (IF "ready" \in {"w_sleep", "w_more"} THEN 1 ELSE 0)
             - (IF at[t] \in {"w_sleep", "w_more"} THEN 1 ELSE 0)
    BY <1>2, <2>1, <2>2, LightMoved
  <2> QED
    BY <1>1, <2>3
<1>4. has' \in [Threads -> Nat]
  BY <1>1
<1>5. KIInv'
  BY <1>2, <1>3, <1>4, LightNext
<1>6. KAvail' = KAvail - k
  <2>1. KAvail = count + Cardinality(Pending) /\ KAvail' = count' + Cardinality(Pending')
    BY DEF KAvail
  <2> QED
    BY <1>1, <1>3, <2>1
<1>7. KAvail' >= 0
  <2>1. KAvail' = count - n + Cardinality(Pending')
    BY DEF KAvail
  <2>2. at[t] = "w_more" => Cardinality(AtAny({"w_sleep"})) <= Cardinality(Pending')
    <3> SUFFICES ASSUME at[t] = "w_more"
                 PROVE  Cardinality(AtAny({"w_sleep"})) <= Cardinality(Pending')
      OBVIOUS
    <3>1. AtAny({"w_sleep"}) \subseteq Pending \ {t} /\ t \in Pending
      BY DEF AtAny, Pending
    <3>2. IsFiniteSet(Pending)
      BY <1>1, AtAnyFinite
    <3>3. IsFiniteSet(Pending \ {t}) /\ Cardinality(Pending \ {t}) = Cardinality(Pending) - 1
      BY <3>1, <3>2, FS_RemoveElement
    <3>4. Cardinality(AtAny({"w_sleep"})) <= Cardinality(Pending \ {t})
      BY <3>1, <3>3, FS_Subset
    <3> QED
      BY <1>1, <1>3, <3>3, <3>4
  <2>3. Least(count, 0) + Cardinality(AtAny({"w_sleep"})) >= 0
    <3>1. Cardinality(Owed) \in Nat
      BY <1>1, FS_CardinalityType DEF LightInv
    <3> QED
      BY <1>1, <3>1 DEF LightInv
  <2>4. Cardinality(AtAny({"w_sleep"})) \in Nat
    BY AtAnyFinite
  <2>5. CASE n # 0
    <3>1. Cardinality(Pending') >= 0
      BY <1>1, <1>3, <2>2, <2>4
    <3>2. Cardinality(Pending') \in Int
      BY <1>1, <1>3
    <3> QED
      BY <1>1, <2>1, <2>5, <3>1, <3>2
  <2>6. CASE n = 0
    <3>1. at[t] = "w_more"
      BY <2>6
    <3>2. count >= Least(count, 0) /\ Least(count, 0) \in Int /\ Cardinality(Pending') \in Int
      BY <1>1, <1>3 DEF Least
    <3> QED
      BY <1>1, <2>1, <2>2, <2>3, <2>4, <2>6, <3>1, <3>2
  <2> QED
    BY <2>5, <2>6
<1>8. Units!Next
  BY <1>1, <1>6, <1>7, KTakes
<1> QED
  BY <1>5, <1>8 DEF KGood

\* What leaves the counter is pending.
LEMMA SumKept ==
  ASSUME NEW i \in Int, NEW j \in Int, NEW p \in Int, NEW q \in Int,
         NEW x \in {0, 1}, NEW y \in {0, 1}, j + x = i + y, q = p + x - y
  PROVE  j + q = i + p
OBVIOUS

\* A step that neither gives units nor brings new ones.
LEMMA LightWaits ==
  ASSUME KIInv, kind = "light", kind' = kind, asleep' = asleep, has' = has,
         NEW t \in Threads, at[t] # "s_post", NEW m \in LightPoints \ {"s_post"},
         Goto(t, m), NEW a \in Nat, arg' = [arg EXCEPT ![t] = a],
         m = "ready" \/ a >= 1, sema' \in Nat, count' \in Int,
         Least(count', 0) + (IF m = "w_sleep" THEN 1 ELSE 0) - sema'
           = Least(count, 0) + (IF at[t] = "w_sleep" THEN 1 ELSE 0) - sema,
         count' + (IF m \in {"w_sleep", "w_more"} THEN 1 ELSE 0)
           = count + (IF at[t] \in {"w_sleep", "w_more"} THEN 1 ELSE 0)
  PROVE  KGood
<1>1. /\ count \in Int /\ has \in [Threads -> Nat] /\ Cardinality(Pending) \in Nat
  BY LightFacts
<1>2. /\ LightInv' /\ at' \in [Threads -> LightPoints] /\ arg' \in [Threads -> Nat]
      /\ Cardinality(Pending') = Cardinality(Pending)
            + (IF m \in {"w_sleep", "w_more"} THEN 1 ELSE 0)
            - (IF at[t] \in {"w_sleep", "w_more"} THEN 1 ELSE 0)
  BY LightMoved
<1>3. KIInv'
  BY <1>1, <1>2, LightNext
<1>4. KAvail' = KAvail
  <2>1. KAvail = count + Cardinality(Pending) /\ KAvail' = count' + Cardinality(Pending')
    BY DEF KAvail
  <2>2. PICK x \in {0, 1} : x = IF m \in {"w_sleep", "w_more"} THEN 1 ELSE 0
    OBVIOUS
  <2>3. PICK y \in {0, 1} : y = IF at[t] \in {"w_sleep", "w_more"} THEN 1 ELSE 0
    OBVIOUS
  <2>4. count' + x = count + y
    BY <2>2, <2>3
  <2>5. Cardinality(Pending') = Cardinality(Pending) + x - y
    BY <1>2, <2>2, <2>3
  <2>6. count \in Int /\ Cardinality(Pending) \in Int /\ Cardinality(Pending') \in Int
    BY <1>1, <2>5
  <2>7. count' + Cardinality(Pending') = count + Cardinality(Pending)
    <3>1. PICK p \in Int : p = Cardinality(Pending)
      BY <2>6
    <3>2. PICK q \in Int : q = Cardinality(Pending')
      BY <2>6
    <3>3. PICK i \in Int : i = count
      BY <2>6
    <3>4. PICK j \in Int : j = count'
      OBVIOUS
    <3>5. j + x = i + y
      BY <2>4, <3>3, <3>4
    <3>6. q = p + x - y
      BY ONLY <2>5, <3>1, <3>2
    <3>7. j + q = i + p
      BY ONLY <3>5, <3>6, SumKept, i \in Int, j \in Int, p \in Int, q \in Int, x \in {0, 1}, y \in {0, 1}
    <3> QED
      BY ONLY <3>1, <3>2, <3>3, <3>4, <3>7
  <2> QED
    BY <2>1, <2>7
<1> QED
  BY <1>3, <1>4 DEF KGood

\* The numbers behind LightInv, as integers.
LEMMA LightNumbers ==
  ASSUME KIInv, kind = "light"
  PROVE  /\ Least(count, 0) \in Int
         /\ Cardinality(AtAny({"w_sleep"})) \in Nat
         /\ IsFiniteSet(Owed) /\ Cardinality(Owed) \in Nat
         /\ Least(count, 0) + Cardinality(AtAny({"w_sleep"})) = sema + Cardinality(Owed)
<1>1. count \in Int /\ LightInv
  BY LightFacts
<1>2. IsFiniteSet(Owed) /\ Cardinality(Owed) \in Nat
  BY <1>1, FS_CardinalityType DEF LightInv
<1> QED
  BY <1>1, <1>2, AtAnyFinite DEF LightInv, Least

\* A signal raises the counter by n, and owes the r posts by which it brings a
\* negative counter towards zero.
LEMMA LightSignals ==
  ASSUME KIInv, kind = "light", kind' = kind, asleep' = asleep, has' = has, sema' = sema,
         NEW t \in Threads, at[t] = "ready", NEW n \in Nat \ {0}, count' = count + n,
         NEW r \in Nat \ {0}, r = Least(-count, n), GotoSet(t, "s_post", r)
  PROVE  KGood
<1>1. /\ count \in Int /\ sema \in Nat /\ has \in [Threads -> Nat]
      /\ at \in [Threads -> LightPoints] /\ arg \in [Threads -> Nat] /\ LightInv
      /\ Cardinality(Pending) \in Nat /\ Pending = AtAny({"w_sleep", "w_more"})
      /\ KAvail \in Int
  BY LightFacts
<1>2. /\ at' \in [Threads -> LightPoints] /\ arg' \in [Threads -> Nat]
      /\ \A u \in Threads : /\ at'[u] = IF u = t THEN "s_post" ELSE at[u]
                            /\ arg'[u] = IF u = t THEN r ELSE arg[u]
  BY <1>1 DEF GotoSet, Goto, LightPoints
<1>3. IsFiniteSet(Owed') /\ Cardinality(Owed') = Cardinality(Owed) + r
  BY <1>1, LightNumbers, OwedGrows
<1>4. Cardinality(AtAny({"w_sleep"})') = Cardinality(AtAny({"w_sleep"}))
  <2>1. AtAny({"w_sleep"})' = AtAny({"w_sleep"})
    BY <1>2 DEF AtAny
  <2> QED
    BY <2>1
<1>5. Pending' = Pending
  BY <1>2 DEF Pending
<1>6. Least(count', 0) = Least(count, 0) + r
  BY <1>1 DEF Least
<1>7. Least(count', 0) + Cardinality(AtAny({"w_sleep"})') = sema' + Cardinality(Owed')
  BY <1>1, <1>3, <1>4, <1>6, LightNumbers
<1>8. \A u \in Threads : at'[u] \in LightPoints \ {"ready"} => arg'[u] >= 1
  BY <1>1, <1>2 DEF LightInv
<1>9. LightInv'
  <2>1. LightInv' <=> /\ \A u \in Threads : at'[u] \in LightPoints \ {"ready"} => arg'[u] >= 1
                      /\ IsFiniteSet(Owed')
                      /\ Least(count', 0) + Cardinality(AtAny({"w_sleep"})') = sema' + Cardinality(Owed')
    BY DEF LightInv, Least
  <2> QED
    BY <1>3, <1>7, <1>8, <2>1
<1>10. KIInv'
  BY <1>1, <1>2, <1>9, LightNext
<1>11. KAvail' > KAvail
  BY <1>1, <1>5 DEF KAvail
<1>12. Units!Next
  BY <1>11 DEF Units!Next, Units!Release, KAvail
<1> QED
  BY <1>10, <1>12 DEF KGood

\* A signal of a counter that is not negative owes nothing.
LEMMA LightSignalsNobody ==
  ASSUME KIInv, kind = "light", kind' = kind, asleep' = asleep, has' = has, sema' = sema,
         at' = at, arg' = arg, NEW n \in Nat \ {0}, count' = count + n, Least(-count, n) <= 0
  PROVE  KGood
<1>1. /\ count \in Int /\ sema \in Nat /\ has \in [Threads -> Nat]
      /\ at \in [Threads -> LightPoints] /\ arg \in [Threads -> Nat] /\ LightInv
      /\ Cardinality(Pending) \in Nat /\ KAvail \in Int
  BY LightFacts
<1>2. count >= 0 /\ Least(count', 0) = 0 /\ Least(count, 0) = 0 /\ count' \in Int
  BY <1>1 DEF Least
<1>3. Owed' = Owed /\ AtAny({"w_sleep"})' = AtAny({"w_sleep"}) /\ Pending' = Pending
  BY DEF Owed, AtAny, Pending
<1>4. LightInv'
  <2>1. LightInv' <=> /\ \A u \in Threads : at'[u] \in LightPoints \ {"ready"} => arg'[u] >= 1
                      /\ IsFiniteSet(Owed')
                      /\ Least(count', 0) + Cardinality(AtAny({"w_sleep"})') = sema' + Cardinality(Owed')
    BY DEF LightInv, Least
  <2>2. \A u \in Threads : at'[u] \in LightPoints \ {"ready"} => arg'[u] >= 1
    BY <1>1 DEF LightInv
  <2> QED
    BY <1>2, <1>3, <2>1, <2>2, LightNumbers
<1>5. KIInv'
  BY <1>1, <1>2, <1>4, LightNext
<1>6. KAvail' > KAvail
  BY <1>1, <1>3 DEF KAvail
<1>7. Units!Next
  BY <1>6 DEF Units!Next, Units!Release, KAvail
<1> QED
  BY <1>5, <1>7 DEF KGood

\* An owed post reaches the kernel's semaphore.
LEMMA LightPosts ==
  ASSUME KIInv, kind = "light", kind' = kind, asleep' = asleep, has' = has, count' = count,
         NEW t \in Threads, at[t] = "s_post", sema' = sema + 1,
         GotoSet(t, IF arg[t] = 1 THEN "ready" ELSE "s_post", arg[t] - 1)
  PROVE  KGood
<1>1. /\ count \in Int /\ sema \in Nat /\ has \in [Threads -> Nat]
      /\ at \in [Threads -> LightPoints] /\ arg \in [Threads -> Nat] /\ LightInv
  BY LightFacts
<1>2. arg[t] >= 1 /\ arg[t] \in Nat
  BY <1>1 DEF LightInv, LightPoints
<1>3. /\ at' \in [Threads -> LightPoints] /\ arg' \in [Threads -> Nat]
      /\ \A u \in Threads :
           /\ at'[u] = IF u = t THEN (IF arg[t] = 1 THEN "ready" ELSE "s_post") ELSE at[u]
           /\ arg'[u] = IF u = t THEN arg[t] - 1 ELSE arg[u]
  BY <1>1, <1>2 DEF GotoSet, Goto, LightPoints
<1>4. IsFiniteSet(Owed') /\ Cardinality(Owed') = Cardinality(Owed) - 1
  BY <1>1, <1>2, LightNumbers, OwedShrinks
<1>5. AtAny({"w_sleep"})' = AtAny({"w_sleep"}) /\ Pending' = Pending
  BY <1>3 DEF AtAny, Pending
<1>6. Least(count', 0) + Cardinality(AtAny({"w_sleep"})') = sema' + Cardinality(Owed')
  BY <1>1, <1>4, <1>5, LightNumbers
<1>7. \A u \in Threads : at'[u] \in LightPoints \ {"ready"} => arg'[u] >= 1
  BY <1>1, <1>2, <1>3 DEF LightInv
<1>8. LightInv'
  <2>1. LightInv' <=> /\ \A u \in Threads : at'[u] \in LightPoints \ {"ready"} => arg'[u] >= 1
                      /\ IsFiniteSet(Owed')
                      /\ Least(count', 0) + Cardinality(AtAny({"w_sleep"})') = sema' + Cardinality(Owed')
    BY DEF LightInv, Least
  <2> QED
    BY <1>4, <1>6, <1>7, <2>1
<1>9. KIInv'
  BY <1>1, <1>3, <1>8, LightNext
<1> QED
  BY <1>5, <1>9 DEF KGood, KAvail

-----------------------------------------------------------------------------

\* A call of wait or tryWait.
LEMMA LightCallStep ==
  ASSUME KIInv, kind' = kind, asleep' = asleep, NEW t \in Threads, NEW max \in Counts,
         TryWait(t, max) \/ Wait(t, max)
  PROVE  KGood
<1>1. kind = "light" /\ at[t] = "ready" /\ sema' = sema
  BY DEF TryWait, Wait, KCall, IsAt
<1>2. /\ count \in Int /\ sema \in Nat /\ has \in [Threads -> Nat]
      /\ at \in [Threads -> LightPoints] /\ arg \in [Threads -> Nat]
      /\ max \in Nat \ {0}
  BY <1>1, LightFacts, KernelSemAssumption
<1> DEFINE n == Least(count, max)
<1>3. n \in Int /\ n <= count /\ (n > 0 <=> count > 0)
  BY <1>2 DEF Least
<1>4. PICK m \in LightPoints \ {"s_post"}, a \in Nat :
         /\ Goto(t, m) /\ arg' = [arg EXCEPT ![t] = a]
         /\ \/ n > 0 /\ m = "ready" /\ count' = count - n /\ has' = [has EXCEPT ![t] = @ + n]
            \/ n <= 0 /\ (m = "ready" \/ (m = "w_spin" /\ a >= 1)) /\ count' = count /\ has' = has
  <2>1. "ready" \in LightPoints \ {"s_post"} /\ "w_spin" \in LightPoints \ {"s_post"}
    BY DEF LightPoints
  <2>2. CASE TryWait(t, max)
    <3>1. at' = [at EXCEPT ![t] = "ready"] /\ arg' = [arg EXCEPT ![t] = arg[t]] /\ arg[t] \in Nat
      BY <1>1, <1>2, <2>2 DEF TryWait
    <3>2. \/ n > 0 /\ count' = count - n /\ has' = [has EXCEPT ![t] = @ + n]
          \/ n <= 0 /\ count' = count /\ has' = has
      BY <2>2 DEF TryWait
    <3>3. Goto(t, "ready")
      BY <3>1 DEF Goto
    <3> HIDE DEF n
    <3>4. PICK a \in Nat : a = arg[t]
      BY <3>1
    <3>5. arg' = [arg EXCEPT ![t] = a]
      BY <3>1, <3>4
    <3> QED
      BY <2>1, <3>2, <3>3, <3>5
  <2>3. CASE Wait(t, max)
    <3>1. \/ n > 0 /\ count' = count - n /\ Given(t, n, "ready")
          \/ n <= 0 /\ GotoSet(t, "w_spin", max) /\ count' = count /\ has' = has
      BY <2>3 DEF Wait
    <3> HIDE DEF n
    <3> QED
      BY <1>2, <2>1, <3>1 DEF Given, GotoSet
  <2> QED
    BY <2>2, <2>3
<1> HIDE DEF n
<1>5. CASE n > 0
  <2>1. n \in Nat \ {0} /\ m = "ready" /\ count' = count - n /\ has' = [has EXCEPT ![t] = @ + n]
    BY <1>3, <1>4, <1>5
  <2>2. Goto(t, "ready") /\ n = n + (IF at[t] = "w_more" THEN 1 ELSE 0)
    BY <1>1, <1>4, <2>1
  <2> QED
    BY <1>1, <1>3, <1>4, <2>1, <2>2, LightTakes
<1>6. CASE ~(n > 0)
  <2>1. (m = "ready" \/ (m = "w_spin" /\ a >= 1)) /\ count' = count /\ has' = has
    BY <1>3, <1>4, <1>6
  <2>2. /\ Least(count', 0) + (IF m = "w_sleep" THEN 1 ELSE 0) - sema'
             = Least(count, 0) + (IF at[t] = "w_sleep" THEN 1 ELSE 0) - sema
        /\ count' + (IF m \in {"w_sleep", "w_more"} THEN 1 ELSE 0)
             = count + (IF at[t] \in {"w_sleep", "w_more"} THEN 1 ELSE 0)
        /\ count' \in Int /\ sema' \in Nat /\ at[t] # "s_post"
    BY <1>1, <1>2, <2>1
  <2> QED
    BY <1>1, <1>4, <2>1, <2>2, LightWaits
<1> QED
  BY <1>5, <1>6

\* A call of signal.
LEMMA LightSignalStep ==
  ASSUME KIInv, kind' = kind, asleep' = asleep, NEW t \in Threads, NEW n \in Counts,
         Signal(t, n)
  PROVE  KGood
<1>1. kind = "light" /\ at[t] = "ready" /\ sema' = sema /\ has' = has /\ count' = count + n
  BY DEF Signal, KCall, IsAt
<1>2. count \in Int /\ n \in Nat \ {0}
  BY <1>1, LightFacts, KernelSemAssumption
<1> DEFINE r == Least(-count, n)
<1>3. IF r > 0 THEN GotoSet(t, "s_post", r) ELSE UNCHANGED <<at, arg>>
  BY DEF Signal
<1>4. r \in Int
  BY <1>2 DEF Least
<1>5. CASE r > 0
  <2>1. r \in Nat \ {0} /\ GotoSet(t, "s_post", r)
    BY <1>3, <1>4, <1>5
  <2> QED
    BY <1>1, <1>2, <2>1, LightSignals
<1>6. CASE ~(r > 0)
  <2>1. r <= 0 /\ at' = at /\ arg' = arg
    BY <1>3, <1>4, <1>6
  <2> QED
    BY <1>1, <1>2, <2>1, LightSignalsNobody
<1> QED
  BY <1>5, <1>6

\* A thread that is at a point of wait or of signal uses the semaphore of workers.
LEMMA LightKind ==
  ASSUME KIInv, NEW t \in Threads, at[t] \in LightPoints \ {"ready"}
  PROVE  kind = "light"
BY DEF KIInv, KTypeOK, LightPoints, MutexPoints

\* The steps of a wait that has found no unit at first.
LEMMA LightSpinStep ==
  ASSUME KIInv, kind' = kind, asleep' = asleep, NEW t \in Threads,
         SpinTake(t) \/ SpinEnd(t) \/ SemaWait(t) \/ WaitMore(t)
  PROVE  KGood
<1>1. at[t] \in LightPoints \ {"ready"} /\ at[t] # "s_post"
  BY DEF SpinTake, SpinEnd, SemaWait, WaitMore, IsAt, LightPoints
<1>2. kind = "light"
  BY <1>1, LightKind
<1>3. /\ count \in Int /\ sema \in Nat /\ has \in [Threads -> Nat]
      /\ at \in [Threads -> LightPoints] /\ arg \in [Threads -> Nat]
      /\ arg[t] \in Nat /\ arg[t] >= 1
  BY <1>1, <1>2, LightFacts DEF LightInv
<1>4. CASE SpinTake(t)
  <2> DEFINE n == Least(count, arg[t])
  <2>1. n \in Nat \ {0} /\ n <= count
    BY <1>3, <1>4 DEF SpinTake, Least
  <2>2. /\ at[t] = "w_spin" /\ sema' = sema /\ count' = count - n
        /\ has' = [has EXCEPT ![t] = @ + n]
        /\ Goto(t, "ready") /\ arg' = [arg EXCEPT ![t] = 0]
    BY <1>4 DEF SpinTake, IsAt, Given, GotoSet
  <2> HIDE DEF n
  <2>3. n = n + (IF at[t] = "w_more" THEN 1 ELSE 0) /\ n \in Nat /\ 0 \in Nat
    BY <2>1, <2>2
  <2> QED
    BY <1>2, <2>1, <2>2, <2>3, LightTakes
<1>5. CASE SpinEnd(t)
  <2>1. PICK m \in LightPoints \ {"s_post"} : m = IF count <= 0 THEN "w_sleep" ELSE "w_more"
    BY DEF LightPoints
  <2>2. /\ at[t] = "w_spin" /\ count' = count - 1 /\ Goto(t, m) /\ sema' = sema
        /\ has' = has /\ arg' = [arg EXCEPT ![t] = arg[t]]
    BY <1>3, <1>5, <2>1 DEF SpinEnd, IsAt
  <2>3. Least(count', 0) + (IF m = "w_sleep" THEN 1 ELSE 0) - sema'
          = Least(count, 0) + (IF at[t] = "w_sleep" THEN 1 ELSE 0) - sema
    BY <1>3, <2>1, <2>2 DEF Least
  <2>4. /\ count' + (IF m \in {"w_sleep", "w_more"} THEN 1 ELSE 0)
             = count + (IF at[t] \in {"w_sleep", "w_more"} THEN 1 ELSE 0)
        /\ count' \in Int /\ sema' \in Nat
    BY <1>3, <2>1, <2>2
  <2> QED
    BY <1>1, <1>2, <1>3, <2>2, <2>3, <2>4, LightWaits
<1>6. CASE SemaWait(t)
  <2>1. /\ at[t] = "w_sleep" /\ sema > 0 /\ sema' = sema - 1 /\ count' = count
        /\ Goto(t, "w_more") /\ has' = has /\ arg' = [arg EXCEPT ![t] = arg[t]]
    BY <1>3, <1>6 DEF SemaWait, IsAt
  <2>2. Least(count', 0) + (IF "w_more" = "w_sleep" THEN 1 ELSE 0) - sema'
          = Least(count, 0) + (IF at[t] = "w_sleep" THEN 1 ELSE 0) - sema
    BY <1>3, <2>1 DEF Least
  <2>3. /\ count' + (IF "w_more" \in {"w_sleep", "w_more"} THEN 1 ELSE 0)
             = count + (IF at[t] \in {"w_sleep", "w_more"} THEN 1 ELSE 0)
        /\ count' \in Int /\ sema' \in Nat
    BY <1>3, <2>1
  <2>4. "w_more" \in LightPoints \ {"s_post"}
    BY DEF LightPoints
  <2> QED
    BY <1>1, <1>2, <1>3, <2>1, <2>2, <2>3, <2>4, LightWaits
<1>7. CASE WaitMore(t)
  <2> DEFINE n == IF count > 0 THEN Least(count, arg[t] - 1) ELSE 0
  <2>1. n \in Nat /\ n + 1 \in Nat \ {0} /\ (n # 0 => n <= count)
    BY <1>3 DEF Least
  <2>2. /\ at[t] = "w_more" /\ sema' = sema /\ count' = count - n
        /\ has' = [has EXCEPT ![t] = @ + (n + 1)]
        /\ Goto(t, "ready") /\ arg' = [arg EXCEPT ![t] = 0]
    BY <1>7 DEF WaitMore, IsAt, Given, GotoSet
  <2> HIDE DEF n
  <2>3. n + 1 = n + (IF at[t] = "w_more" THEN 1 ELSE 0) /\ 0 \in Nat
    BY <2>1, <2>2
  <2> QED
    BY <1>2, <2>1, <2>2, <2>3, LightTakes
<1> QED
  BY <1>4, <1>5, <1>6, <1>7

\* Every step of LightweightSemaphore.
LEMMA LightStepGood ==
  ASSUME KIInv, kind' = kind, NEW t \in Threads, LightStep(t)
  PROVE  KGood
<1>1. asleep' = asleep
  BY DEF LightStep
<1>2. CASE \E n \in Counts : TryWait(t, n) \/ Wait(t, n) \/ Signal(t, n)
  BY <1>1, <1>2, LightCallStep, LightSignalStep
<1>3. CASE SpinTake(t) \/ SpinEnd(t) \/ SemaWait(t) \/ WaitMore(t)
  BY <1>1, <1>3, LightSpinStep
<1>4. CASE SemaPost(t)
  <2>1. /\ at[t] = "s_post" /\ sema' = sema + 1 /\ count' = count /\ has' = has
        /\ GotoSet(t, IF arg[t] = 1 THEN "ready" ELSE "s_post", arg[t] - 1)
    BY <1>4 DEF SemaPost, IsAt
  <2>2. kind = "light"
    BY <2>1, LightKind DEF LightPoints
  <2> QED
    BY <1>1, <2>1, <2>2, LightPosts
<1> QED
  BY <1>2, <1>3, <1>4 DEF LightStep

-----------------------------------------------------------------------------

\* With the mutex nobody waits for the kernel's semaphore.
LEMMA QueuedPending ==
  ASSUME NEW Q, Q \cap {"w_sleep", "w_more"} = {}, at \in [Threads -> Q]
  PROVE  Pending = {} /\ Cardinality(Pending) = 0
<1>1. Pending = {}
  BY DEF Pending
<1> QED
  BY <1>1, FS_EmptySet

\* Where the steps of the mutex lead, and what they leave alone.
LEMMA MutexMoves ==
  ASSUME KIInv, kind' = kind, NEW t \in Threads, MutexStep(t)
  PROVE  kind = "queued" /\ at' \in [Threads -> MutexPoints] /\ asleep' \subseteq Threads
<1>1. kind = "queued"
  <2>1. kind = "queued" \/ at[t] \in MutexPoints \ {"ready"}
    BY DEF MutexStep, MutexCall, KCall, HspinLock, LockIn, TryIn, UnlockIn, BinWait, BinSleep,
           BinInterrupt, BinPost, BinWake, IsAt, MutexPoints
  <2> QED
    BY <2>1 DEF KIInv, KTypeOK, LightPoints, MutexPoints
<1>2. at \in [Threads -> MutexPoints] /\ asleep \subseteq Threads
  BY <1>1 DEF KIInv, KTypeOK
<1>3. \A m \in MutexPoints : Goto(t, m) => at' \in [Threads -> MutexPoints]
  BY <1>2 DEF Goto
<1>4. CASE MutexCall(t) \/ HspinLock(t) \/ LockIn(t) \/ TryIn(t) \/ UnlockIn(t)
  <2>1. asleep' = asleep
    BY <1>4 DEF MutexCall, HspinLock, LockIn, TryIn, UnlockIn
  <2>2. \E m \in MutexPoints : Goto(t, m)
    BY <1>4 DEF MutexCall, HspinLock, LockIn, TryIn, UnlockIn, TakeMutex, MutexPoints
  <2> QED
    BY <1>1, <1>2, <1>3, <2>1, <2>2
<1>5. CASE BinWait(t) \/ BinSleep(t) \/ BinInterrupt(t) \/ BinPost(t)
  <2>1. asleep' \subseteq Threads
    BY <1>2, <1>5 DEF BinWait, BinSleep, BinInterrupt, BinPost
  <2>2. at' = at \/ \E m \in MutexPoints : Goto(t, m)
    BY <1>5 DEF BinWait, BinSleep, BinInterrupt, BinPost, MutexPoints
  <2> QED
    BY <1>1, <1>2, <1>3, <2>1, <2>2
<1>6. CASE BinWake(t)
  <2>1. CASE asleep = {} /\ Goto(t, "ready") /\ UNCHANGED asleep
    BY <1>1, <1>2, <1>3, <2>1 DEF MutexPoints
  <2>2. CASE \E s \in asleep : /\ asleep' = asleep \ {s}
                               /\ at' = [at EXCEPT ![s] = "l_fut", ![t] = "ready"]
    BY <1>1, <1>2, <2>2 DEF MutexPoints
  <2> QED
    BY <1>6, <2>1, <2>2 DEF BinWake
<1> QED
  BY <1>4, <1>5, <1>6 DEF MutexStep

\* Every step of the mutex: it takes the one unit, gives it back, or the
\* abstract semaphore sees nothing.
LEMMA MutexStepGood ==
  ASSUME KIInv, kind' = kind, NEW t \in Threads, MutexStep(t)
  PROVE  KGood
<1>1. kind = "queued" /\ at' \in [Threads -> MutexPoints] /\ asleep' \subseteq Threads
  BY MutexMoves
<1>2. /\ at \in [Threads -> MutexPoints] /\ has \in [Threads -> Nat] /\ count \in {0, 1}
      /\ sema \in Nat /\ arg \in [Threads -> Nat]
  BY <1>1 DEF KIInv, KTypeOK
<1>3. sema' = sema /\ arg' = arg
  BY DEF MutexStep
<1>4. \/ count = 1 /\ count' = 0 /\ has' = [has EXCEPT ![t] = @ + 1]
      \/ count' = 1 /\ has' = has
      \/ count' = count /\ has' = has
  BY DEF MutexStep, MutexCall, HspinLock, LockIn, TryIn, UnlockIn, TakeMutex, BinWait,
         BinSleep, BinInterrupt, BinPost, BinWake
<1>5. Cardinality(Pending) = 0 /\ Cardinality(Pending') = 0
  <2>1. MutexPoints \cap {"w_sleep", "w_more"} = {}
    BY DEF MutexPoints
  <2>2. Pending = {}
    BY <1>2, <2>1, QueuedPending
  <2>3. Pending' = {}
    BY <1>1, <2>1 DEF Pending
  <2> QED
    BY <2>2, <2>3, FS_EmptySet
<1>6. KAvail = count /\ KAvail' = count'
  BY <1>2, <1>4, <1>5 DEF KAvail
<1>7. has' \in [Threads -> Nat] /\ count' \in {0, 1}
  BY <1>2, <1>4
<1>8. KIInv'
  BY <1>1, <1>2, <1>3, <1>7 DEF KIInv, KTypeOK
<1>9. CASE count = 1 /\ count' = 0 /\ has' = [has EXCEPT ![t] = @ + 1]
  <2>1. KAvail \in Int /\ KAvail' = KAvail - 1 /\ KAvail' >= 0 /\ 1 \in Nat \ {0}
    BY <1>6, <1>9
  <2>2. Units!Next
    BY <1>9, <2>1, KTakes
  <2> QED
    BY <1>8, <2>2 DEF KGood
<1>10. CASE count' = 1 /\ has' = has
  <2>1. CASE count = 0
    <3>1. KAvail' > KAvail
      BY <1>6, <1>10, <2>1
    <3>2. Units!Next
      BY <1>10, <3>1 DEF Units!Next, Units!Release, KAvail
    <3> QED
      BY <1>8, <3>2 DEF KGood
  <2>2. CASE count = 1
    BY <1>6, <1>8, <1>10, <2>2 DEF KGood
  <2> QED
    BY <1>2, <2>1, <2>2
<1>11. CASE count' = count /\ has' = has
  BY <1>6, <1>8, <1>11 DEF KGood
<1> QED
  BY <1>4, <1>9, <1>10, <1>11

-----------------------------------------------------------------------------

\* Initially nobody waits, sleeps or owes anything.
LEMMA KStarts == KInit => KIInv /\ Units!Init
<1> SUFFICES ASSUME KInit PROVE KIInv /\ Units!Init
  OBVIOUS
<1>1. /\ kind \in Kinds /\ count = Start /\ sema = 0 /\ asleep = {}
      /\ at = [t \in Threads |-> "ready"] /\ arg = [t \in Threads |-> 0]
      /\ has = [t \in Threads |-> 0]
  BY DEF KInit
<1>2. Start \in Nat /\ ("queued" \in Kinds => Start = 1)
  BY KernelSemAssumption
<1>3. Owed = {} /\ AtAny({"w_sleep"}) = {} /\ Pending = {}
  BY <1>1 DEF Owed, AtAny, Pending
<1>4. Cardinality({}) = 0 /\ IsFiniteSet({})
  BY FS_EmptySet
<1>5. KTypeOK
  BY <1>1, <1>2 DEF KTypeOK, LightPoints, MutexPoints
<1>6. LightInv
  BY <1>1, <1>2, <1>3, <1>4 DEF LightInv, Least
<1>7. KIInv
  BY <1>1, <1>2, <1>5, <1>6 DEF KIInv
<1>8. count + Cardinality(Pending) = Start
  BY <1>1, <1>2, <1>3, <1>4
<1> QED
  BY <1>1, <1>7, <1>8 DEF Units!Init

\* The inductive invariant of the two kernel semaphores: under "light", below zero
\* the counter and the kernel's semaphore agree on who is still to be woken.
THEOREM KernelSemInductive == KSpec => []KIInv
<1>1. KInit => KIInv
  BY KStarts
<1>2. KIInv /\ [KNext]_kvars => KIInv'
  <2> SUFFICES ASSUME KIInv, [KNext]_kvars PROVE KIInv'
    OBVIOUS
  <2>1. CASE KNext
    BY <2>1, LightStepGood, MutexStepGood DEF KNext, KStep, KGood
  <2>2. CASE UNCHANGED kvars
    BY <2>2 DEF kvars, KIInv, KTypeOK, LightInv, Owed, AtAny
  <2> QED
    BY <2>1, <2>2
<1> QED
  BY <1>1, <1>2, PTL DEF KSpec

\* LightweightSemaphore and the queued mutex each implement the counting
\* semaphore: no unit is given to two threads, whether it comes through the
\* counter or through the kernel's semaphore, and none disappears.
THEOREM KernelSemImplementsCounting == KSpec => KernelSemCounts
<1>1. KInit => Units!Init
  BY KStarts
<1>2. KIInv /\ [KNext]_kvars => [Units!Next]_<<count + Cardinality(Pending), has>>
  <2> SUFFICES ASSUME KIInv, [KNext]_kvars
               PROVE  [Units!Next]_<<count + Cardinality(Pending), has>>
    OBVIOUS
  <2>1. CASE KNext
    <3>1. KGood
      BY <2>1, LightStepGood, MutexStepGood DEF KNext, KStep
    <3> QED
      BY <3>1 DEF KGood, KAvail
  <2>2. CASE UNCHANGED kvars
    BY <2>2 DEF kvars, Pending
  <2> QED
    BY <2>1, <2>2
<1> QED
  BY <1>1, <1>2, KernelSemInductive, PTL DEF KSpec, KernelSemCounts, Units!Spec

=============================================================================
