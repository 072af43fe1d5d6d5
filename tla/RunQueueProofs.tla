--------------------------- MODULE RunQueueProofs ---------------------------
(***************************************************************************)
(* Proofs about the run queue, for any number of threads.                  *)
(*                                                                         *)
(* FreeList: whatever is taken and put back between the steps of an add or *)
(* a try_get, a block is in one place, the list is no cycle, and no block  *)
(* is lost.                                                                *)
(*                                                                         *)
(* VsQueue: whatever the thread ids hash to, and whatever allocations      *)
(* fail, the chain of hash tables leads each thread to its one producer,   *)
(* and no table fills up.                                                  *)
(***************************************************************************)
EXTENDS VsQueue, FreeList, Functions, FiniteSetTheorems, SequenceTheorems,
        WellFoundedInduction, NaturalsInduction, TLAPS

\* A set of numbers that has an element has a least one.
LEMMA LeastNumber ==
  ASSUME NEW T \in SUBSET Nat, T # {}
  PROVE  \E x \in T : \A y \in T : ~(y < x)
<1>1. IsWellFoundedOn(OpToRel(<, Nat), Nat)
  BY NatLessThanWellFounded, Zenon
<1>2. PICK x \in T : \A y \in T : ~(<<y, x>> \in OpToRel(<, Nat))
  BY <1>1, WFMin, Zenon
<1>3. OpToRel(<, Nat) = {p \in Nat \X Nat : p[1] < p[2]}
  BY Zenon DEF OpToRel
<1>4. \A y \in T : ~(<<y, x>> \in {p \in Nat \X Nat : p[1] < p[2]})
  BY <1>2, <1>3, Zenon
<1> QED
  BY <1>4

-----------------------------------------------------------------------------
(***************************************************************************)
(* The free list: the inductive invariant.                                 *)
(***************************************************************************)

\* The control points of one who gives back or takes a node, the ones of one who
\* knows that nobody refers to it, and the ones of one who has stored or still
\* has the reference that the list has to it.
HoldPoints == {"add", "put", "put_next", "put_refs", "put_head", "put_undo", "got"}
PutPoints == {"put", "put_next", "put_refs"}
CountPoints == {"put_head", "put_undo", "got"}

\* The control points of one who has added its reference to the count.
RefPoints == {"get_next", "get_head", "got", "unref"}

\* The threads that refer to n.
Referring(n) == {t \in Users : Node(t) = n /\ at[t] \in RefPoints}

Puts(n) == \E t \in Holders(n) : at[t] \in PutPoints
Counts(n) == \E t \in Holders(n) : at[t] \in CountPoints

\* s is the list, from its head on.
IsChain(s) ==
  /\ s \in Seq(Nodes)
  /\ \A i, j \in 1..Len(s) : s[i] = s[j] => i = j
  /\ freeListHead = IF s = <<>> THEN nullptr ELSE s[1]
  /\ \A i \in 1..Len(s) :
       freeListNext[s[i]] = IF i < Len(s) THEN s[i + 1] ELSE nullptr

\* n has been left, with its flag, to whoever drops the last reference to it.
Orphan(n, L) == n \notin used /\ n \notin L /\ Holders(n) = {}

\* What is known of node n when the nodes of L are on the list: its count is that
\* of the threads that refer to it and of the list, and its flag is set while it
\* waits for the count to become zero and until the count is stored again.
NodeOK(n, L) ==
  /\ n \in used => n \notin L /\ Holders(n) = {}
  /\ n \in L => Holders(n) = {}
  /\ \A t, u \in Holders(n) : t = u
  /\ refs[n] = Cardinality(Referring(n)) + (IF n \in L \/ Counts(n) THEN 1 ELSE 0)
  /\ should[n] <=> Puts(n) \/ Orphan(n, L)
  /\ Puts(n) => Referring(n) = {}
  /\ Orphan(n, L) => Referring(n) # {}

\* What thread t remembers: a node's successor does not change while t refers to
\* the node, nor while t is about to make the node the head.
ThreadOK(t) ==
  /\ at[t] \in HoldPoints \cup RefPoints \cup {"get_ref"} => Node(t) \in Nodes
  /\ at[t] = "get_refs" => mine[t].head \in Nodes
  /\ at[t] = "get_ref" => mine[t].refs # 0
  /\ at[t] \in {"get_head", "put_refs", "put_head"} =>
       mine[t].next = freeListNext[Node(t)]

ListIInv ==
  /\ ListTypeOK
  /\ \A t \in Users : ThreadOK(t)
  /\ \E s \in Seq(Nodes) : IsChain(s) /\ \A n \in Nodes : NodeOK(n, Range(s))

-----------------------------------------------------------------------------
(***************************************************************************)
(* Steps and the threads and nodes they leave alone.                       *)
(***************************************************************************)

\* The control points and the local variables of a thread.
Points == {"ready", "get", "get_refs", "get_ref", "get_next", "get_head", "got", "unref",
           "add", "put", "put_next", "put_refs", "put_head", "put_undo"}
Locals == [op : {"none", "add", "get"}, node : Pointers, head : Pointers,
           next : Pointers, refs : Nat, should : BOOLEAN]

\* The other threads do not notice a step of t.
Alone(t) == \A u \in Users \ {t} : at'[u] = at[u] /\ mine'[u] = mine[u]

\* t has to do with no node, but for what it remembers.
Free(t) == at[t] \notin HoldPoints \cup RefPoints

\* The types of the variables, one by one.
LEMMA TypeFacts ==
  ASSUME ListTypeOK
  PROVE  /\ freeListHead \in Pointers /\ freeListNext \in [Nodes -> Pointers]
         /\ refs \in [Nodes -> Nat] /\ should \in [Nodes -> BOOLEAN]
         /\ used \subseteq Nodes /\ at \in [Users -> Points]
         /\ mine \in [Users -> Locals] /\ turns \in 0..MaxTurns
         /\ \A t \in Users : /\ mine[t].node \in Pointers /\ mine[t].head \in Pointers
                             /\ mine[t].next \in Pointers /\ mine[t].refs \in Nat
                             /\ mine[t].should \in BOOLEAN
                             /\ mine[t].op \in {"none", "add", "get"}
BY DEF ListTypeOK, Points, Locals

\* Who holds m and who refers to it after a step of t.
LEMMA Moved ==
  ASSUME NEW t \in Users, Alone(t), NEW m
  PROVE  /\ Holders(m)' = (Holders(m) \ {t}) \cup
              (IF mine'[t].node = m /\ at'[t] \in HoldPoints THEN {t} ELSE {})
         /\ Referring(m)' = (Referring(m) \ {t}) \cup
              (IF mine'[t].node = m /\ at'[t] \in RefPoints THEN {t} ELSE {})
         /\ t \in Holders(m) <=> mine[t].node = m /\ at[t] \in HoldPoints
         /\ t \in Referring(m) <=> mine[t].node = m /\ at[t] \in RefPoints
         /\ \A u \in Holders(m) : u # t => at'[u] = at[u]
<1>1. /\ Holders(m) = {u \in Users : mine[u].node = m /\ at[u] \in HoldPoints}
      /\ Holders(m)' = {u \in Users : mine'[u].node = m /\ at'[u] \in HoldPoints}
  BY DEF Holders, Node, HoldPoints
<1>2. /\ Referring(m) = {u \in Users : mine[u].node = m /\ at[u] \in RefPoints}
      /\ Referring(m)' = {u \in Users : mine'[u].node = m /\ at'[u] \in RefPoints}
  BY DEF Referring, Node
<1>3. \A u \in Users : u # t => at'[u] = at[u] /\ mine'[u] = mine[u]
  BY DEF Alone
<1>4. Holders(m)' = (Holders(m) \ {t}) \cup
              (IF mine'[t].node = m /\ at'[t] \in HoldPoints THEN {t} ELSE {})
  BY <1>1, <1>3
<1>5. Referring(m)' = (Referring(m) \ {t}) \cup
              (IF mine'[t].node = m /\ at'[t] \in RefPoints THEN {t} ELSE {})
  BY <1>2, <1>3
<1> QED
  BY <1>1, <1>2, <1>3, <1>4, <1>5

\* A node for which t is the same before and after its step.
LEMMA NodeFrame ==
  ASSUME NEW t \in Users, Alone(t), NEW n, NEW L, NEW M, NodeOK(n, L),
         refs'[n] = refs[n], should'[n] = should[n],
         n \in used' <=> n \in used, n \in M <=> n \in L,
         t \in Holders(n)' <=> t \in Holders(n),
         t \in Referring(n)' <=> t \in Referring(n),
         t \in Holders(n) => /\ at'[t] \in PutPoints <=> at[t] \in PutPoints
                             /\ at'[t] \in CountPoints <=> at[t] \in CountPoints
  PROVE  NodeOK(n, M)'
<1>0. /\ Holders(n)' = (Holders(n) \ {t}) \cup
           (IF mine'[t].node = n /\ at'[t] \in HoldPoints THEN {t} ELSE {})
      /\ Referring(n)' = (Referring(n) \ {t}) \cup
           (IF mine'[t].node = n /\ at'[t] \in RefPoints THEN {t} ELSE {})
  BY Moved
<1>1. Holders(n)' = Holders(n) /\ Referring(n)' = Referring(n)
  <2>1. \A u : (u \in Holders(n)' <=> u \in Holders(n)) /\ (u \in Referring(n)' <=> u \in Referring(n))
    BY <1>0
  <2> QED
    BY <2>1
<1>2. \A u \in Holders(n) : u # t => at'[u] = at[u]
  BY Moved
<1>3. (Puts(n)' <=> Puts(n)) /\ (Counts(n)' <=> Counts(n))
  BY <1>1, <1>2 DEF Puts, Counts
<1>4. Orphan(n, M)' <=> Orphan(n, L)
  BY <1>1 DEF Orphan
<1> QED
  BY <1>1, <1>3, <1>4 DEF NodeOK

\* The nodes t has nothing to do with.
LEMMA Elsewhere ==
  ASSUME NEW t \in Users, Alone(t), NEW m, NEW L, NEW M,
         \A n \in Nodes : NodeOK(n, L),
         Free(t) \/ mine[t].node = m, Free(t)' \/ mine'[t].node = m,
         \A n \in Nodes \ {m} : /\ refs'[n] = refs[n] /\ should'[n] = should[n]
                                /\ n \in used' <=> n \in used
                                /\ n \in M <=> n \in L
  PROVE  \A n \in Nodes \ {m} : NodeOK(n, M)'
<1> SUFFICES ASSUME NEW n \in Nodes \ {m} PROVE NodeOK(n, M)'
  OBVIOUS
<1>1. t \notin Holders(n) /\ t \notin Referring(n)
  BY Moved DEF Free
<1>2. t \notin Holders(n)' /\ t \notin Referring(n)'
  BY <1>1, Moved DEF Free
<1> QED
  BY <1>1, <1>2, NodeFrame

\* What the other threads remember.
LEMMA ThreadsKept ==
  ASSUME NEW t \in Users, Alone(t), \A u \in Users : ThreadOK(u), ThreadOK(t)',
         \A u \in Users \ {t} : at[u] \in {"get_head", "put_refs", "put_head"} =>
                                  freeListNext'[mine[u].node] = freeListNext[mine[u].node]
  PROVE  \A u \in Users : ThreadOK(u)'
<1> SUFFICES ASSUME NEW u \in Users \ {t} PROVE ThreadOK(u)'
  OBVIOUS
<1> QED
  BY DEF Alone, ThreadOK, Node

\* The list, when its head and the successors of its nodes stay as they are.
LEMMA ChainKept ==
  ASSUME NEW s \in Seq(Nodes), IsChain(s), freeListHead' = freeListHead,
         \A n \in Range(s) : freeListNext'[n] = freeListNext[n]
  PROVE  IsChain(s)'
<1>1. \A i \in 1..Len(s) : s[i] \in Range(s)
  BY DEF Range
<1> QED
  BY <1>1 DEF IsChain

\* The threads that refer to a node are finitely many.
LEMMA RefsFinite ==
  ASSUME NEW n
  PROVE  /\ IsFiniteSet(Referring(n)) /\ Cardinality(Referring(n)) \in Nat
         /\ Cardinality(Referring(n)) = 0 <=> Referring(n) = {}
<1>1. Referring(n) \subseteq Users
  BY DEF Referring
<1>2. IsFiniteSet(Referring(n))
  BY <1>1, FreeListAssumption, FS_Subset
<1> QED
  BY <1>2, FS_CardinalityType, FS_EmptySet

\* A step that changes neither the list nor counts, flags and the nodes in use, and
\* leaves t where it was in regard to its node.
LEMMA Quiet ==
  ASSUME ListIInv, NEW t \in Users, Alone(t), ListTypeOK', ThreadOK(t)',
         UNCHANGED <<freeListHead, freeListNext, refs, should, used>>,
         \/ Free(t) /\ Free(t)'
         \/ /\ mine'[t].node = mine[t].node
            /\ at'[t] \in HoldPoints <=> at[t] \in HoldPoints
            /\ at'[t] \in RefPoints <=> at[t] \in RefPoints
            /\ at'[t] \in PutPoints <=> at[t] \in PutPoints
            /\ at'[t] \in CountPoints <=> at[t] \in CountPoints
  PROVE  ListIInv'
<1>1. PICK s \in Seq(Nodes) : IsChain(s) /\ \A n \in Nodes : NodeOK(n, Range(s))
  BY DEF ListIInv
<1>2. IsChain(s)'
  BY <1>1, ChainKept
<1>3. ASSUME NEW n \in Nodes PROVE NodeOK(n, Range(s))'
  <2>1. (t \in Holders(n)' <=> t \in Holders(n)) /\ (t \in Referring(n)' <=> t \in Referring(n))
    BY Moved DEF Free
  <2>2. t \in Holders(n) => /\ at'[t] \in PutPoints <=> at[t] \in PutPoints
                            /\ at'[t] \in CountPoints <=> at[t] \in CountPoints
    BY Moved DEF Free
  <2> QED
    BY <1>1, <2>1, <2>2, NodeFrame
<1>4. \A u \in Users : ThreadOK(u)'
  BY ThreadsKept DEF ListIInv
<1> QED
  BY <1>2, <1>3, <1>4 DEF ListIInv

-----------------------------------------------------------------------------
(***************************************************************************)
(* The steps.                                                              *)
(***************************************************************************)

\* A step that leaves t's local variables alone.
LEMMA Went ==
  ASSUME ListTypeOK, NEW t \in Users, NEW l \in Points, Goto(t, l), mine' = mine
  PROVE  Alone(t) /\ at' \in [Users -> Points] /\ at'[t] = l /\ mine' \in [Users -> Locals]
BY TypeFacts DEF Goto, Alone

\* A step that moves t and gives its variable next, or head, a value.
LEMMA NextSet ==
  ASSUME ListTypeOK, NEW t \in Users, NEW l \in Points, Goto(t, l), NEW x \in Pointers,
         mine' = [mine EXCEPT ![t].next = x]
  PROVE  /\ Alone(t) /\ at' \in [Users -> Points] /\ at'[t] = l
         /\ mine' \in [Users -> Locals]
         /\ mine'[t].node = mine[t].node /\ mine'[t].next = x
<1>1. mine \in [Users -> Locals] /\ at \in [Users -> Points]
  BY TypeFacts
<1>2. /\ mine' \in [Users -> Locals]
      /\ mine'[t].node = mine[t].node /\ mine'[t].next = x
  BY <1>1 DEF Locals
<1>3. \A u \in Users : u # t => mine'[u] = mine[u]
  BY <1>1 DEF Locals
<1> QED
  BY <1>1, <1>2, <1>3 DEF Goto, Alone

LEMMA HeadSet ==
  ASSUME ListTypeOK, NEW t \in Users, NEW l \in Points, Goto(t, l), NEW x \in Pointers,
         mine' = [mine EXCEPT ![t].head = x]
  PROVE  /\ Alone(t) /\ at' \in [Users -> Points] /\ at'[t] = l
         /\ mine' \in [Users -> Locals]
         /\ mine'[t].node = mine[t].node /\ mine'[t].head = x
<1>1. mine \in [Users -> Locals] /\ at \in [Users -> Points]
  BY TypeFacts
<1>2. /\ mine' \in [Users -> Locals]
      /\ mine'[t].node = mine[t].node /\ mine'[t].head = x
  BY <1>1 DEF Locals
<1>3. \A u \in Users : u # t => mine'[u] = mine[u]
  BY <1>1 DEF Locals
<1> QED
  BY <1>1, <1>2, <1>3 DEF Goto, Alone

\* A call begins.
LEMMA Called ==
  ASSUME ListTypeOK, NEW t \in Users, NEW o \in {"add", "get"}, NEW n \in Pointers,
         ListCall(t, o, n)
  PROVE  /\ at[t] = "ready" /\ Free(t) /\ turns' \in 0..MaxTurns
         /\ Alone(t) /\ at' \in [Users -> Points] /\ at'[t] = o
         /\ mine' \in [Users -> Locals] /\ mine'[t].node = n
<1>1. /\ mine \in [Users -> Locals] /\ at \in [Users -> Points]
      /\ turns \in 0..MaxTurns /\ MaxTurns \in Nat
  BY TypeFacts, FreeListAssumption
<1>2. /\ at[t] = "ready" /\ at' = [at EXCEPT ![t] = o]
      /\ turns > 0 /\ turns' = turns - 1
      /\ mine' = [mine EXCEPT ![t].op = o, ![t].node = n]
  BY DEF ListCall, FromTo, Goto
<1>3. mine' \in [Users -> Locals] /\ mine'[t].node = n
  <2>1. o \in {"none", "add", "get"} /\ mine[t] \in Locals
    BY <1>1
  <2>2. mine'[t] = [mine[t] EXCEPT !.op = o, !.node = n]
    BY <1>1, <1>2
  <2>3. mine'[t] \in Locals /\ mine'[t].node = n
    BY <2>1, <2>2 DEF Locals
  <2>4. mine' = [mine EXCEPT ![t] = mine'[t]]
    BY <1>1, <1>2
  <2>5. mine \in [Users -> Locals]
    BY <1>1
  <2> QED
    BY <2>3, <2>4, <2>5
<1>4. \A u \in Users : u # t => mine'[u] = mine[u] /\ at'[u] = at[u]
  BY <1>1, <1>2 DEF Locals
<1>5. turns' \in 0..MaxTurns
  BY <1>1, <1>2
<1>6. Free(t)
  BY <1>2 DEF Free, HoldPoints, RefPoints
<1> QED
  BY <1>1, <1>2, <1>3, <1>4, <1>5, <1>6 DEF Alone, Points

\* A step that returns from the call.
LEMMA Returned ==
  ASSUME ListTypeOK, NEW t \in Users, ListReturn(t)
  PROVE  /\ Alone(t) /\ at' \in [Users -> Points] /\ mine' \in [Users -> Locals]
         /\ at'[t] = "ready" /\ Free(t)' /\ ThreadOK(t)'
<1>1. nullptr \in Pointers /\ "ready" \in Points
  BY DEF Pointers, Points
<1>2. /\ mine' = [mine EXCEPT ![t] = NoLocals] /\ at' = [at EXCEPT ![t] = "ready"]
      /\ mine \in [Users -> Locals] /\ at \in [Users -> Points]
  BY TypeFacts DEF ListReturn, Goto
<1>3. /\ Alone(t) /\ at' \in [Users -> Points] /\ mine' \in [Users -> Locals]
      /\ at'[t] = "ready"
  BY <1>1, <1>2 DEF NoLocals, Locals, Alone
<1> QED
  BY <1>3 DEF Free, ThreadOK, HoldPoints, RefPoints

\* add_knowing_refcount_is_zero returns to its caller.
LEMMA PutReturned ==
  ASSUME ListTypeOK, NEW t \in Users, PutReturn(t)
  PROVE  /\ Alone(t) /\ at' \in [Users -> Points] /\ mine' \in [Users -> Locals]
         /\ at'[t] \in {"ready", "get_refs"} /\ Free(t)' /\ ThreadOK(t)'
<1>1. CASE ListReturn(t)
  BY <1>1, Returned
<1>2. CASE mine[t].head # nullptr /\ Goto(t, "get_refs") /\ mine' = mine
  <2>1. /\ Alone(t) /\ at' \in [Users -> Points] /\ at'[t] = "get_refs"
        /\ mine' \in [Users -> Locals]
    BY <1>2, Went DEF Points
  <2>2. mine'[t].head \in Nodes
    BY <1>2, TypeFacts DEF Pointers
  <2> QED
    BY <2>1, <2>2 DEF Free, ThreadOK, HoldPoints, RefPoints
<1> QED
  BY <1>1, <1>2 DEF PutReturn

\* The steps of try_get that only look, and the first one of a put.
LEMMA LookStep ==
  ASSUME ListIInv, NEW t \in Users,
         CallGet(t) \/ Get(t) \/ GetRefs(t) \/ GetNext(t) \/ Put(t)
  PROVE  ListIInv'
<1>0. ListTypeOK /\ ThreadOK(t) /\ nullptr \in Pointers
  BY DEF ListIInv, Pointers
<1>t. /\ freeListHead \in Pointers /\ freeListNext \in [Nodes -> Pointers]
      /\ refs \in [Nodes -> Nat] /\ should \in [Nodes -> BOOLEAN]
      /\ at \in [Users -> Points] /\ turns \in 0..MaxTurns /\ MaxTurns \in Nat
      /\ mine[t].node \in Pointers /\ mine[t].head \in Pointers
      /\ mine[t].next \in Pointers /\ mine[t].refs \in Nat
      /\ mine[t].should \in BOOLEAN /\ mine[t].op \in {"none", "add", "get"}
  BY <1>0, TypeFacts, FreeListAssumption
<1>k. UNCHANGED <<freeListHead, freeListNext, refs, should, used>>
  BY DEF CallGet, Get, GetRefs, GetNext, Put, list, counts
<1>o. ASSUME at' \in [Users -> Points], mine' \in [Users -> Locals], turns' \in 0..MaxTurns
      PROVE  ListTypeOK'
  BY <1>0, <1>k, <1>o DEF ListTypeOK, Points, Locals
<1> USE DEF Points
<1>1. CASE CallGet(t)
  <2>1. /\ Alone(t) /\ at' \in [Users -> Points] /\ mine' \in [Users -> Locals]
        /\ Free(t) /\ at'[t] = "get" /\ turns' \in 0..MaxTurns
    BY <1>0, <1>1, Called DEF CallGet
  <2>2. Free(t)' /\ ThreadOK(t)'
    BY <2>1 DEF Free, ThreadOK, HoldPoints, RefPoints
  <2> QED
    BY <1>k, <1>o, <2>1, <2>2, Quiet
<1>2. CASE Get(t)
  <2>0. at[t] = "get" /\ turns' = turns
    BY <1>2 DEF Get
  <2>1. CASE ListReturn(t)
    <3>1. Free(t)
      BY <2>0 DEF Free, HoldPoints, RefPoints
    <3> QED
      BY <1>0, <1>t, <1>k, <1>o, <2>0, <2>1, <3>1, Returned, Quiet
  <2>2. CASE /\ freeListHead # nullptr /\ Goto(t, "get_refs")
             /\ mine' = [mine EXCEPT ![t].head = freeListHead]
    <3>2. /\ Alone(t) /\ at' \in [Users -> Points] /\ mine' \in [Users -> Locals]
          /\ at'[t] = "get_refs" /\ mine'[t].head = freeListHead
      BY <1>0, <1>t, <2>2, HeadSet
    <3>3. Free(t) /\ Free(t)' /\ ThreadOK(t)'
      BY <1>t, <2>0, <2>2, <3>2 DEF Free, ThreadOK, HoldPoints, RefPoints, Pointers
    <3> QED
      BY <1>t, <1>k, <1>o, <2>0, <3>2, <3>3, Quiet
  <2> QED
    BY <1>2, <2>1, <2>2 DEF Get
<1>3. CASE GetRefs(t)
  <2>0. at[t] = "get_refs" /\ turns' = turns /\ mine[t].head \in Nodes
    BY <1>0, <1>3 DEF GetRefs, ThreadOK
  <2>1. CASE Goto(t, "get") /\ mine' = mine
    <3>1. /\ Alone(t) /\ at' \in [Users -> Points] /\ at'[t] = "get"
          /\ mine' \in [Users -> Locals]
      BY <1>0, <2>1, Went
    <3>2. Free(t) /\ Free(t)' /\ ThreadOK(t)'
      BY <2>0, <3>1 DEF Free, ThreadOK, HoldPoints, RefPoints
    <3> QED
      BY <1>t, <1>k, <1>o, <2>0, <3>1, <3>2, Quiet
  <2>2. CASE /\ refs[mine[t].head] # 0 /\ Goto(t, "get_ref")
             /\ mine' = [mine EXCEPT ![t].node = mine[t].head,
                                     ![t].refs = refs[mine[t].head],
                                     ![t].should = should[mine[t].head]]
    <3>2. refs[mine[t].head] \in Nat /\ should[mine[t].head] \in BOOLEAN
      BY <1>t, <2>0
    <3>3. /\ Alone(t) /\ at' \in [Users -> Points] /\ mine' \in [Users -> Locals]
          /\ at'[t] = "get_ref" /\ mine'[t].node = mine[t].head
          /\ mine'[t].refs = refs[mine[t].head]
      <4>1. PICK b \in BOOLEAN : b = should[mine[t].head]
        BY <3>2
      <4>2. PICK r \in Nat : r = refs[mine[t].head]
        BY <3>2
      <4>h. PICK h \in Pointers : h = mine[t].head
        BY <1>t
      <4>3. mine' = [mine EXCEPT ![t].node = h, ![t].refs = r, ![t].should = b]
        BY <2>2, <4>1, <4>2, <4>h, Zenon
      <4>4. mine \in [Users -> Locals]
        BY <1>0, TypeFacts
      <4>5. mine' \in [Users -> Locals] /\ mine'[t].node = h /\ mine'[t].refs = r
        <5>1. mine'[t] = [mine[t] EXCEPT !.node = h, !.refs = r, !.should = b]
          BY <4>3, <4>4 DEF Locals
        <5>2. mine[t] \in Locals
          BY <4>4
        <5>3. mine'[t] \in Locals /\ mine'[t].node = h /\ mine'[t].refs = r
          BY <5>1, <5>2 DEF Locals
        <5>4. mine' = [mine EXCEPT ![t] = mine'[t]]
          BY <4>3, <4>4
        <5> QED
          BY <4>4, <5>3, <5>4
      <4>6. \A u \in Users : u # t => mine'[u] = mine[u]
        BY <4>3, <4>4 DEF Locals
      <4> QED
        BY <1>t, <2>2, <4>2, <4>h, <4>5, <4>6 DEF Goto, Alone
    <3>4. Free(t) /\ Free(t)' /\ ThreadOK(t)'
      BY <2>0, <2>2, <3>3 DEF Free, ThreadOK, HoldPoints, RefPoints, Node
    <3> QED
      BY <1>t, <1>k, <1>o, <2>0, <3>3, <3>4, Quiet
  <2> QED
    BY <1>3, <2>1, <2>2 DEF GetRefs
<1>4. CASE GetNext(t)
  <2>0. /\ at[t] = "get_next" /\ turns' = turns /\ Goto(t, "get_head")
        /\ mine[t].node \in Nodes
        /\ mine' = [mine EXCEPT ![t].next = freeListNext[mine[t].node]]
    BY <1>0, <1>4 DEF GetNext, FromTo, ThreadOK, Node, RefPoints
  <2>2. freeListNext[mine[t].node] \in Pointers
    BY <1>t, <2>0
  <2>3. /\ Alone(t) /\ at' \in [Users -> Points] /\ mine' \in [Users -> Locals]
        /\ at'[t] = "get_head" /\ mine'[t].node = mine[t].node
        /\ mine'[t].next = freeListNext[mine[t].node]
    <3>1. PICK x \in Pointers : x = freeListNext[mine[t].node]
      BY <2>2
    <3>2. mine' = [mine EXCEPT ![t].next = x] /\ "get_head" \in Points
      BY <2>0, <3>1
    <3> HIDE DEF Points
    <3>3. ListTypeOK /\ Goto(t, "get_head")
      BY <1>0, <2>0
    <3> QED
      BY <3>1, <3>2, <3>3, NextSet
  <2>4. ThreadOK(t)'
    BY <1>k, <2>0, <2>3 DEF ThreadOK, Node
  <2> QED
    BY <1>t, <1>k, <1>o, <2>0, <2>3, <2>4, Quiet
       DEF HoldPoints, RefPoints, PutPoints, CountPoints
<1>5. CASE Put(t)
  <2>0. /\ at[t] = "put" /\ turns' = turns /\ Goto(t, "put_next")
        /\ mine[t].node \in Nodes
        /\ mine' = [mine EXCEPT ![t].next = freeListHead]
    BY <1>0, <1>5 DEF Put, FromTo, ThreadOK, Node, HoldPoints
  <2>3. /\ Alone(t) /\ at' \in [Users -> Points] /\ mine' \in [Users -> Locals]
        /\ at'[t] = "put_next" /\ mine'[t].node = mine[t].node
    BY <1>0, <1>t, <2>0, NextSet
  <2>4. ThreadOK(t)'
    BY <1>k, <2>0, <2>3 DEF ThreadOK, Node
  <2> QED
    BY <1>t, <1>k, <1>o, <2>0, <2>3, <2>4, Quiet
       DEF HoldPoints, RefPoints, PutPoints, CountPoints
<1> QED
  BY <1>1, <1>2, <1>3, <1>4, <1>5

\* The types, put together again.
LEMMA TypeNext ==
  ASSUME freeListHead' \in Pointers, freeListNext' \in [Nodes -> Pointers],
         refs' \in [Nodes -> Nat], should' \in [Nodes -> BOOLEAN], used' \subseteq Nodes,
         at' \in [Users -> Points], mine' \in [Users -> Locals], turns' \in 0..MaxTurns
  PROVE  ListTypeOK'
BY DEF ListTypeOK, Points, Locals

\* A step of t that has to do with node m, when M is the list after it.
LEMMA OneNode ==
  ASSUME ListIInv, NEW t \in Users, Alone(t), NEW m, NEW s \in Seq(Nodes), NEW M \in Seq(Nodes),
         \A n \in Nodes : NodeOK(n, Range(s)),
         Free(t) \/ mine[t].node = m, Free(t)' \/ mine'[t].node = m,
         \A n \in Nodes \ {m} : /\ refs'[n] = refs[n] /\ should'[n] = should[n]
                                /\ n \in used' <=> n \in used
                                /\ n \in Range(M) <=> n \in Range(s),
         NodeOK(m, Range(M))', IsChain(M)', freeListNext' = freeListNext,
         ThreadOK(t)', ListTypeOK'
  PROVE  ListIInv'
<1>1. \A n \in Nodes \ {m} : NodeOK(n, Range(M))'
  <2> DEFINE L == Range(s)
             K == Range(M)
  <2>1. /\ \A n \in Nodes : NodeOK(n, L)
        /\ \A n \in Nodes \ {m} : /\ refs'[n] = refs[n] /\ should'[n] = should[n]
                                  /\ n \in used' <=> n \in used
                                  /\ n \in K <=> n \in L
    OBVIOUS
  <2> HIDE DEF L, K
  <2>2. \A n \in Nodes \ {m} : NodeOK(n, K)'
    BY <2>1, Elsewhere
  <2> QED
    BY <2>2 DEF K
<1>2. \A n \in Nodes : NodeOK(n, Range(M))'
  BY <1>1
<1>3. \A u \in Users : ThreadOK(u)'
  BY ThreadsKept DEF ListIInv
<1> QED
  BY <1>2, <1>3 DEF ListIInv

\* A node that is in use.
LEMMA Out ==
  ASSUME NEW m, NEW L, NodeOK(m, L), m \in used
  PROVE  /\ Holders(m) = {} /\ m \notin L /\ ~should[m]
         /\ refs[m] = Cardinality(Referring(m))
<1>1. Holders(m) = {} /\ m \notin L
  BY DEF NodeOK
<1>2. ~Puts(m) /\ ~Counts(m) /\ ~Orphan(m, L)
  BY <1>1 DEF Puts, Counts, Orphan
<1>3. ~should[m]
  BY <1>2 DEF NodeOK
<1>4. refs[m] = Cardinality(Referring(m)) + 0
  BY <1>1, <1>2 DEF NodeOK
<1>5. Cardinality(Referring(m)) \in Nat
  BY RefsFinite
<1> QED
  BY <1>1, <1>3, <1>4, <1>5

\* A node that t gives back or takes, when the nodes of L are on the list.
LEMMA Held ==
  ASSUME NEW t \in Users, NEW m, NEW L, NodeOK(m, L), mine[t].node = m,
         at[t] \in HoldPoints
  PROVE  /\ Holders(m) = {t} /\ m \notin used /\ m \notin L
         /\ refs[m] = Cardinality(Referring(m)) + (IF at[t] \in CountPoints THEN 1 ELSE 0)
         /\ should[m] <=> at[t] \in PutPoints
         /\ at[t] \in PutPoints => Referring(m) = {}
<1>1. t \in Holders(m)
  BY DEF Holders, Node, HoldPoints
<1>2. Holders(m) = {t}
  BY <1>1 DEF NodeOK
<1>3. m \notin used /\ m \notin L
  BY <1>1 DEF NodeOK
<1>4. /\ Puts(m) <=> at[t] \in PutPoints
      /\ Counts(m) <=> at[t] \in CountPoints
      /\ ~Orphan(m, L)
  BY <1>2 DEF Puts, Counts, Orphan
<1> QED
  BY <1>2, <1>3, <1>4 DEF NodeOK

\* The same after a step.
LEMMA HeldNext ==
  ASSUME NEW t \in Users, NEW m, NEW L, Holders(m)' = {t}, m \notin used', m \notin L,
         refs'[m] = Cardinality(Referring(m)') + (IF at'[t] \in CountPoints THEN 1 ELSE 0),
         should'[m] <=> at'[t] \in PutPoints,
         at'[t] \in PutPoints => Referring(m)' = {}
  PROVE  NodeOK(m, L)'
<1>1. /\ Puts(m)' <=> at'[t] \in PutPoints
      /\ Counts(m)' <=> at'[t] \in CountPoints
      /\ ~Orphan(m, L)'
  BY DEF Puts, Counts, Orphan
<1> QED
  BY <1>1 DEF NodeOK

\* After a step that leaves a node to no thread.
LEMMA LooseNext ==
  ASSUME NEW m, NEW L, Holders(m)' = {}, m \notin used' \/ m \notin L,
         refs'[m] = Cardinality(Referring(m)') + (IF m \in L THEN 1 ELSE 0),
         should'[m] <=> m \notin used' /\ m \notin L,
         should'[m] => Referring(m)' # {}
  PROVE  NodeOK(m, L)'
<1>1. /\ ~Puts(m)' /\ ~Counts(m)'
      /\ Orphan(m, L)' <=> m \notin used' /\ m \notin L
  BY DEF Puts, Counts, Orphan
<1> QED
  BY <1>1 DEF NodeOK

\* The threads that hold m and refer to it, but for t.
LEMMA Others ==
  ASSUME NEW t \in Users, Alone(t), NEW m, NEW H, NEW R,
         H = Holders(m) \ {t}, R = Referring(m) \ {t}
  PROVE  /\ Free(t)' => Holders(m)' = H /\ Referring(m)' = R
         /\ mine'[t].node = m =>
              /\ Holders(m)' = IF at'[t] \in HoldPoints THEN H \cup {t} ELSE H
              /\ Referring(m)' = IF at'[t] \in RefPoints THEN R \cup {t} ELSE R
<1>1. /\ Holders(m)' = (Holders(m) \ {t}) \cup
           (IF mine'[t].node = m /\ at'[t] \in HoldPoints THEN {t} ELSE {})
      /\ Referring(m)' = (Referring(m) \ {t}) \cup
           (IF mine'[t].node = m /\ at'[t] \in RefPoints THEN {t} ELSE {})
  BY Moved
<1>2. ASSUME Free(t)' PROVE Holders(m)' = H /\ Referring(m)' = R
  BY <1>1, <1>2 DEF Free
<1>3. ASSUME mine'[t].node = m
      PROVE  /\ Holders(m)' = IF at'[t] \in HoldPoints THEN H \cup {t} ELSE H
             /\ Referring(m)' = IF at'[t] \in RefPoints THEN R \cup {t} ELSE R
  BY <1>1, <1>3
<1> QED
  BY <1>2, <1>3

\* A block is given back.
LEMMA CallAddStep ==
  ASSUME ListIInv, NEW t \in Users, NEW n \in Nodes, CallAdd(t, n)
  PROVE  ListIInv'
<1>0. ListTypeOK
  BY DEF ListIInv
<1>1. PICK s \in Seq(Nodes) : IsChain(s) /\ \A k \in Nodes : NodeOK(k, Range(s))
  BY DEF ListIInv
<1>2. /\ n \in used /\ used' = used \ {n} /\ ListCall(t, "add", n)
      /\ UNCHANGED <<freeListHead, freeListNext, refs, should>>
  BY DEF CallAdd, list, counts
<1>3. /\ Free(t) /\ turns' \in 0..MaxTurns
      /\ Alone(t) /\ at' \in [Users -> Points] /\ at'[t] = "add"
      /\ mine' \in [Users -> Locals] /\ mine'[t].node = n
  <2>1. n \in Pointers /\ "add" \in {"add", "get"}
    BY DEF Pointers
  <2> QED
    BY <1>0, <1>2, <2>1, Called
<1>4. /\ Holders(n) = {} /\ ~should[n] /\ n \notin Range(s)
      /\ refs[n] = Cardinality(Referring(n))
  BY <1>1, <1>2, Out
<1>5. Holders(n)' = {t} /\ Referring(n)' = Referring(n)
  <2>1. /\ Holders(n)' = (Holders(n) \ {t}) \cup
             (IF mine'[t].node = n /\ at'[t] \in HoldPoints THEN {t} ELSE {})
        /\ Referring(n)' = (Referring(n) \ {t}) \cup
             (IF mine'[t].node = n /\ at'[t] \in RefPoints THEN {t} ELSE {})
    BY <1>3, Moved
  <2>2. t \notin Referring(n)
    BY <1>3 DEF Free, Referring
  <2> QED
    BY <1>3, <1>4, <2>1, <2>2 DEF HoldPoints, RefPoints
<1>6. at'[t] \notin PutPoints /\ at'[t] \notin CountPoints
  BY <1>3 DEF PutPoints, CountPoints
<1>7. NodeOK(n, Range(s))'
  <2>1. n \notin used' /\ refs'[n] = Cardinality(Referring(n)') + 0 /\ ~should'[n]
    <3>1. n \notin used' /\ refs'[n] = Cardinality(Referring(n)')
      BY <1>2, <1>4, <1>5
    <3>2. ~should'[n]
      BY <1>2, <1>4
    <3>3. Cardinality(Referring(n)) \in Nat
      BY RefsFinite
    <3> QED
      BY <1>5, <3>1, <3>2, <3>3
  <2> QED
    BY <1>4, <1>5, <1>6, <2>1, HeldNext
<1>8. ThreadOK(t)'
  BY <1>3 DEF ThreadOK, Node
<1>9. ListTypeOK'
  BY <1>0, <1>2, <1>3, TypeFacts, TypeNext
<1>10. IsChain(s)'
  BY <1>1, <1>2, ChainKept
<1> QED
  BY <1>1, <1>2, <1>3, <1>7, <1>8, <1>9, <1>10, OneNode

\* The flag is set in add: at once on the way to the list, or left to others.
LEMMA AddStep ==
  ASSUME ListIInv, NEW t \in Users, Add(t)
  PROVE  ListIInv'
<1>0. ListTypeOK /\ ThreadOK(t) /\ at[t] = "add" /\ turns' = turns
  BY DEF ListIInv, Add
<1>1. PICK s \in Seq(Nodes) : IsChain(s) /\ \A k \in Nodes : NodeOK(k, Range(s))
  BY DEF ListIInv
<1>2. PICK m \in Nodes : m = mine[t].node
  BY <1>0 DEF ThreadOK, Node, HoldPoints
<1>3. /\ should' = [should EXCEPT ![m] = TRUE]
      /\ UNCHANGED <<freeListHead, freeListNext, refs, used>>
  BY <1>2 DEF Add, Node, list
<1>4. \/ refs[m] = 0 /\ Goto(t, "put") /\ mine' = mine
      \/ ~(refs[m] = 0 /\ ~should[m]) /\ ListReturn(t)
  BY <1>2 DEF Add, Node
<1>5. at[t] \in HoldPoints /\ at[t] \notin PutPoints /\ at[t] \notin CountPoints
      /\ at[t] \notin RefPoints
  BY <1>0 DEF HoldPoints, PutPoints, CountPoints, RefPoints
<1>6. Cardinality(Referring(m)) \in Nat /\ (Cardinality(Referring(m)) = 0 <=> Referring(m) = {})
  BY RefsFinite
<1>7. /\ Holders(m) = {t} /\ m \notin used /\ m \notin Range(s) /\ ~should[m]
      /\ refs[m] = Cardinality(Referring(m)) + 0
  <2>1. NodeOK(m, Range(s)) /\ mine[t].node = m
    BY <1>1, <1>2
  <2> QED
    BY <1>5, <2>1, Held
<1>8. t \notin Referring(m) /\ Holders(m) \ {t} = {} /\ Referring(m) \ {t} = Referring(m)
  <2>1. t \notin Referring(m)
    BY <1>5 DEF Referring
  <2> QED
    BY <1>7, <2>1
<1>9. /\ should'[m] /\ should' \in [Nodes -> BOOLEAN]
      /\ \A n \in Nodes \ {m} : should'[n] = should[n]
  BY <1>0, <1>3, TypeFacts
<1>10. IsChain(s)'
  BY <1>1, <1>3, ChainKept
<1>11. CASE refs[m] = 0 /\ Goto(t, "put") /\ mine' = mine
  <2>1. /\ Alone(t) /\ at' \in [Users -> Points] /\ at'[t] = "put"
        /\ mine' \in [Users -> Locals]
    BY <1>0, <1>11, Went DEF Points
  <2>2. /\ at'[t] \in HoldPoints /\ at'[t] \in PutPoints /\ at'[t] \notin CountPoints
        /\ at'[t] \notin RefPoints
    BY <2>1 DEF HoldPoints, PutPoints, CountPoints, RefPoints
  <2>3. Referring(m) = {}
    BY <1>6, <1>7, <1>11
  <2>4. mine'[t].node = m
    BY <1>2, <1>11
  <2>5. Holders(m)' = {t} /\ Referring(m)' = {}
    <3>1. Holders(m)' = {} \cup {t} /\ Referring(m)' = Referring(m)
      BY <1>8, <2>1, <2>2, <2>4, Others
    <3> QED
      BY <2>3, <3>1
  <2>6. m \notin used' /\ refs'[m] = Cardinality(Referring(m)') + 0
    BY <1>3, <1>7, <2>3, <2>5
  <2>7. NodeOK(m, Range(s))'
    BY <1>7, <1>9, <2>2, <2>5, <2>6, HeldNext
  <2>8. ThreadOK(t)'
    BY <2>1, <2>4 DEF ThreadOK, Node
  <2>9. ListTypeOK'
    BY <1>0, <1>3, <1>9, <2>1, TypeFacts, TypeNext
  <2> QED
    BY <1>1, <1>2, <1>3, <1>9, <1>10, <2>1, <2>4, <2>7, <2>8, <2>9, OneNode
<1>12. CASE refs[m] # 0 /\ ListReturn(t)
  <2>1. /\ Alone(t) /\ at' \in [Users -> Points] /\ mine' \in [Users -> Locals]
        /\ Free(t)' /\ ThreadOK(t)'
    BY <1>0, <1>12, Returned
  <2>2. Holders(m)' = {} /\ Referring(m)' = Referring(m)
    BY <1>8, <2>1, Others
  <2>3. Referring(m) # {} /\ refs'[m] = Cardinality(Referring(m)') + 0 /\ m \notin used'
    BY <1>3, <1>6, <1>7, <1>12, <2>2
  <2>4. NodeOK(m, Range(s))'
    BY <1>7, <1>9, <2>2, <2>3, LooseNext
  <2>5. ListTypeOK'
    BY <1>0, <1>3, <1>9, <2>1, TypeFacts, TypeNext
  <2> QED
    BY <1>1, <1>2, <1>3, <1>9, <1>10, <2>1, <2>4, <2>5, OneNode
<1> QED
  BY <1>4, <1>7, <1>11, <1>12

\* The successor of a node is written only while nobody else refers to the node.
LEMMA PutNextStep ==
  ASSUME ListIInv, NEW t \in Users, PutNext(t)
  PROVE  ListIInv'
<1>0. /\ ListTypeOK /\ ThreadOK(t) /\ at[t] = "put_next" /\ Goto(t, "put_refs")
      /\ UNCHANGED <<freeListHead, refs, should, used, mine, turns>>
  BY DEF ListIInv, PutNext, FromTo, counts
<1>1. PICK s \in Seq(Nodes) : IsChain(s) /\ \A k \in Nodes : NodeOK(k, Range(s))
  BY DEF ListIInv
<1>2. PICK m \in Nodes : m = mine[t].node
  BY <1>0 DEF ThreadOK, Node, HoldPoints
<1>3. /\ freeListNext' = [freeListNext EXCEPT ![m] = mine[t].next]
      /\ freeListNext \in [Nodes -> Pointers] /\ mine[t].next \in Pointers
  BY <1>0, <1>2, TypeFacts DEF PutNext, Node
<1>4. /\ freeListNext' \in [Nodes -> Pointers] /\ freeListNext'[m] = mine[t].next
      /\ \A n \in Nodes \ {m} : freeListNext'[n] = freeListNext[n]
  BY <1>3
<1>5. /\ Alone(t) /\ at' \in [Users -> Points] /\ at'[t] = "put_refs"
      /\ mine' \in [Users -> Locals]
  BY <1>0, Went DEF Points
<1>6. at[t] \in HoldPoints /\ at[t] \in PutPoints
  BY <1>0 DEF HoldPoints, PutPoints
<1>7. Holders(m) = {t} /\ m \notin Range(s) /\ Referring(m) = {}
  <2>1. NodeOK(m, Range(s)) /\ mine[t].node = m
    BY <1>1, <1>2
  <2> QED
    BY <1>6, <2>1, Held
<1>8. IsChain(s)'
  <2>1. \A n \in Range(s) : n \in Nodes \ {m}
    BY <1>7 DEF Range
  <2> QED
    BY <1>0, <1>1, <1>4, <2>1, ChainKept
<1>9. ASSUME NEW n \in Nodes PROVE NodeOK(n, Range(s))'
  <2>1. /\ at'[t] \in HoldPoints <=> at[t] \in HoldPoints
        /\ at'[t] \in RefPoints <=> at[t] \in RefPoints
        /\ at'[t] \in PutPoints <=> at[t] \in PutPoints
        /\ at'[t] \in CountPoints <=> at[t] \in CountPoints
    BY <1>0, <1>5 DEF HoldPoints, PutPoints, CountPoints, RefPoints
  <2>2. (t \in Holders(n)' <=> t \in Holders(n)) /\ (t \in Referring(n)' <=> t \in Referring(n))
    BY <1>0, <1>5, <2>1, Moved
  <2> QED
    BY <1>0, <1>1, <1>5, <2>1, <2>2, NodeFrame
<1>10. ThreadOK(t)'
  BY <1>0, <1>2, <1>4, <1>5 DEF ThreadOK, Node
<1>11. ASSUME NEW u \in Users \ {t}, at[u] \in {"get_head", "put_refs", "put_head"}
       PROVE  freeListNext'[mine[u].node] = freeListNext[mine[u].node]
  <2>1. mine[u].node \in Nodes
    BY <1>11 DEF ListIInv, ThreadOK, Node, HoldPoints, RefPoints
  <2>2. mine[u].node # m
    BY <1>7, <1>11 DEF Holders, Referring, Node, RefPoints
  <2> QED
    BY <1>4, <2>1, <2>2
<1>12. \A u \in Users : ThreadOK(u)'
  BY <1>5, <1>10, <1>11, ThreadsKept DEF ListIInv
<1>13. ListTypeOK'
  BY <1>0, <1>4, <1>5, TypeFacts, TypeNext
<1> QED
  BY <1>8, <1>9, <1>12, <1>13 DEF ListIInv

\* The count and the flag are stored.
LEMMA PutRefsStep ==
  ASSUME ListIInv, NEW t \in Users, PutRefs(t)
  PROVE  ListIInv'
<1>0. /\ ListTypeOK /\ ThreadOK(t) /\ at[t] = "put_refs" /\ Goto(t, "put_head")
      /\ UNCHANGED <<freeListHead, freeListNext, used, mine, turns>>
  BY DEF ListIInv, PutRefs, FromTo, list
<1>1. PICK s \in Seq(Nodes) : IsChain(s) /\ \A k \in Nodes : NodeOK(k, Range(s))
  BY DEF ListIInv
<1>2. PICK m \in Nodes : m = mine[t].node
  BY <1>0 DEF ThreadOK, Node, HoldPoints
<1>3. refs' = [refs EXCEPT ![m] = 1] /\ should' = [should EXCEPT ![m] = FALSE]
  BY <1>2 DEF PutRefs, Node
<1>4. /\ refs' \in [Nodes -> Nat] /\ refs'[m] = 1
      /\ \A n \in Nodes \ {m} : refs'[n] = refs[n]
  BY <1>0, <1>3, TypeFacts
<1>5. /\ should' \in [Nodes -> BOOLEAN] /\ ~should'[m]
      /\ \A n \in Nodes \ {m} : should'[n] = should[n]
  BY <1>0, <1>3, TypeFacts
<1>6. /\ Alone(t) /\ at' \in [Users -> Points] /\ at'[t] = "put_head"
      /\ mine' \in [Users -> Locals] /\ mine'[t].node = m
  BY <1>0, <1>2, Went DEF Points
<1>7. /\ at[t] \in HoldPoints /\ at[t] \in PutPoints
      /\ at'[t] \in HoldPoints /\ at'[t] \notin PutPoints /\ at'[t] \in CountPoints
      /\ at'[t] \notin RefPoints
  BY <1>0, <1>6 DEF HoldPoints, PutPoints, CountPoints, RefPoints
<1>8. Holders(m) = {t} /\ m \notin used /\ m \notin Range(s) /\ Referring(m) = {}
  BY <1>1, <1>2, <1>7, Held
<1>9. Holders(m)' = {t} /\ Referring(m)' = {}
  <2>1. Holders(m) \ {t} = {} /\ Referring(m) \ {t} = {}
    BY <1>8
  <2>2. Holders(m)' = {} \cup {t} /\ Referring(m)' = {}
    BY <1>6, <1>7, <2>1, Others
  <2> QED
    BY <2>2
<1>10. NodeOK(m, Range(s))'
  <2>1. m \notin used' /\ refs'[m] = Cardinality(Referring(m)') + 1
    BY <1>0, <1>4, <1>8, <1>9, FS_EmptySet
  <2> QED
    BY <1>5, <1>7, <1>8, <1>9, <2>1, HeldNext
<1>11. ThreadOK(t)'
  BY <1>0, <1>6 DEF ThreadOK, Node
<1>12. ListTypeOK'
  BY <1>0, <1>4, <1>5, <1>6, TypeFacts, TypeNext
<1>13. IsChain(s)'
  BY <1>0, <1>1, ChainKept
<1> QED
  BY <1>0, <1>1, <1>2, <1>4, <1>5, <1>6, <1>10, <1>11, <1>12, <1>13, OneNode

\* A node becomes the head.
LEMMA Pushed ==
  ASSUME NEW s \in Seq(Nodes), IsChain(s), NEW m \in Nodes, m \notin Range(s),
         freeListNext[m] = freeListHead, freeListHead' = m, freeListNext' = freeListNext
  PROVE  \E M \in Seq(Nodes) : IsChain(M)' /\ Range(M) = Range(s) \cup {m}
<1> DEFINE k == Len(s)
           M == [i \in 1..k + 1 |-> IF i = 1 THEN m ELSE s[i - 1]]
<1>1. k \in Nat /\ s \in [1..k -> Nodes] /\ (s = <<>> <=> k = 0)
  BY EmptySeq, LenProperties
<1>2. /\ \A i, j \in 1..k : s[i] = s[j] => i = j
      /\ freeListHead = IF k = 0 THEN nullptr ELSE s[1]
      /\ \A i \in 1..k : freeListNext[s[i]] = IF i < k THEN s[i + 1] ELSE nullptr
  BY <1>1 DEF IsChain
<1>3. \A i \in 1..k : s[i] # m
  BY <1>1 DEF Range
<1>4. M \in Seq(Nodes) /\ Len(M) = k + 1 /\ M # <<>>
  <2>1. \A i \in 1..k + 1 : M[i] \in Nodes
    BY <1>1
  <2>2. M \in Seq(Nodes)
    BY <1>1, <2>1, IsASeq
  <2>3. Len(M) = k + 1
    BY <1>1, <2>2, LenProperties
  <2> QED
    BY <1>1, <2>2, <2>3, EmptySeq
<1> HIDE DEF k
<1>5. M[1] = m /\ \A i \in 1..k : M[i + 1] = s[i] /\ i + 1 \in 1..k + 1
  BY <1>1
<1>6. \A i \in 1..k + 1 : i = 1 \/ (i - 1 \in 1..k /\ M[i] = s[i - 1])
  BY <1>1
<1>7. Range(M) = Range(s) \cup {m}
  <2>1. DOMAIN M = 1..k + 1 /\ DOMAIN s = 1..k
    BY <1>1
  <2> HIDE DEF M
  <2>2. 1 \in 1..k + 1
    BY <1>1
  <2>3. \A x \in Range(M) : x \in Range(s) \cup {m}
    BY <1>5, <1>6, <2>1 DEF Range
  <2>4. \A x \in Range(s) \cup {m} : x \in Range(M)
    BY <1>5, <2>1, <2>2 DEF Range
  <2> QED
    BY <2>3, <2>4
<1> HIDE DEF M
<1>8. \A i, j \in 1..k + 1 : M[i] = M[j] => i = j
  <2> SUFFICES ASSUME NEW i \in 1..k + 1, NEW j \in 1..k + 1, M[i] = M[j] PROVE i = j
    OBVIOUS
  <2> QED
    BY <1>1, <1>2, <1>3, <1>5, <1>6
<1>9. ASSUME NEW i \in 1..k + 1
      PROVE  freeListNext[M[i]] = IF i < k + 1 THEN M[i + 1] ELSE nullptr
  <2>1. CASE i = 1
    <3>1. freeListNext[M[1]] = IF k = 0 THEN nullptr ELSE s[1]
      BY <1>2, <1>5
    <3>2. k # 0 => M[2] = s[1]
      <4>1. ASSUME k # 0 PROVE 1 \in 1..k /\ 1 + 1 = 2
        BY <1>1, <4>1
      <4> QED
        BY <1>5, <4>1
    <3> QED
      BY <1>1, <2>1, <3>1, <3>2
  <2>2. CASE i # 1
    <3>1. PICK j \in 1..k : j = i - 1
      BY <1>6, <2>2
    <3>2. freeListNext[M[i]] = IF j < k THEN s[j + 1] ELSE nullptr
      BY <1>2, <1>6, <2>2, <3>1
    <3>3. j < k => j + 1 \in 1..k
      BY <1>1
    <3>4. j < k => M[(j + 1) + 1] = s[j + 1]
      BY <1>5, <3>3
    <3>5. i = j + 1 /\ (i < k + 1 <=> j < k)
      BY <1>1, <3>1
    <3> QED
      BY <3>2, <3>4, <3>5
  <2> QED
    BY <2>1, <2>2
<1>10. IsChain(M)'
  BY <1>4, <1>5, <1>8, <1>9 DEF IsChain
<1> QED
  BY <1>4, <1>7, <1>10

\* The head is taken.
LEMMA Popped ==
  ASSUME NEW s \in Seq(Nodes), IsChain(s), NEW m \in Nodes, freeListHead = m,
         freeListHead' = freeListNext[m], freeListNext' = freeListNext
  PROVE  /\ m \in Range(s)
         /\ \E M \in Seq(Nodes) : IsChain(M)' /\ Range(M) = Range(s) \ {m}
<1> DEFINE k == Len(s)
           M == [i \in 1..k - 1 |-> s[i + 1]]
<1>1. k \in Nat /\ s \in [1..k -> Nodes] /\ (s = <<>> <=> k = 0)
  BY EmptySeq, LenProperties
<1>2. /\ \A i, j \in 1..k : s[i] = s[j] => i = j
      /\ freeListHead = IF k = 0 THEN nullptr ELSE s[1]
      /\ \A i \in 1..k : freeListNext[s[i]] = IF i < k THEN s[i + 1] ELSE nullptr
  BY <1>1 DEF IsChain
<1>3. k > 0 /\ 1 \in 1..k /\ s[1] = m /\ k - 1 \in Nat
  BY <1>1, <1>2, FreeListAssumption
<1>4. M \in Seq(Nodes) /\ Len(M) = k - 1 /\ (M = <<>> <=> k - 1 = 0)
  <2>1. \A i \in 1..k - 1 : M[i] \in Nodes
    BY <1>1
  <2>2. M \in Seq(Nodes)
    <3>1. PICK j \in Nat : j = k - 1
      BY <1>3
    <3>2. \A i \in 1..j : s[i + 1] \in Nodes
      BY <1>1, <3>1
    <3>3. [i \in 1..j |-> s[i + 1]] \in Seq(Nodes)
      BY <3>2, IsASeq
    <3> QED
      BY <3>1, <3>3
  <2>3. Len(M) = k - 1
    BY <1>3, <2>2, LenProperties
  <2> QED
    BY <1>3, <2>2, <2>3, EmptySeq
<1> HIDE DEF k
<1>5. \A i \in 1..k - 1 : M[i] = s[i + 1] /\ i + 1 \in 1..k /\ i + 1 # 1
  BY <1>1
<1>6. \A i \in 1..k : i # 1 => i - 1 \in 1..k - 1 /\ M[i - 1] = s[i]
  BY <1>1
<1>7. Range(M) = Range(s) \ {m} /\ m \in Range(s)
  <2>1. DOMAIN M = 1..k - 1 /\ DOMAIN s = 1..k
    BY <1>1
  <2> HIDE DEF M
  <2>2. ASSUME NEW x \in Range(M) PROVE x \in Range(s) \ {m}
    <3>1. PICK i \in 1..k - 1 : x = M[i]
      BY <2>1 DEF Range
    <3>2. PICK j \in 1..k : j = i + 1 /\ j # 1
      BY <1>5
    <3>3. x = s[j] /\ s[j] # s[1]
      BY <1>2, <1>3, <1>5, <3>1, <3>2
    <3> QED
      BY <1>3, <2>1, <3>3 DEF Range
  <2>3. \A x \in Range(s) \ {m} : x \in Range(M)
    BY <1>3, <1>6, <2>1 DEF Range
  <2>4. m \in Range(s)
    BY <1>3, <2>1 DEF Range
  <2> QED
    BY <2>2, <2>3, <2>4
<1> HIDE DEF M
<1>8. \A i, j \in 1..k - 1 : M[i] = M[j] => i = j
  <2> SUFFICES ASSUME NEW i \in 1..k - 1, NEW j \in 1..k - 1, M[i] = M[j] PROVE i = j
    OBVIOUS
  <2>1. i + 1 = j + 1
    BY <1>2, <1>5
  <2> QED
    BY <1>1, <2>1
<1>9. ASSUME NEW i \in 1..k - 1
      PROVE  freeListNext[M[i]] = IF i < k - 1 THEN M[i + 1] ELSE nullptr
  <2>1. freeListNext[M[i]] = IF i + 1 < k THEN s[(i + 1) + 1] ELSE nullptr
    BY <1>2, <1>5
  <2>2. i + 1 < k => i + 1 \in 1..k - 1
    BY <1>1
  <2>3. i + 1 < k <=> i < k - 1
    BY <1>1
  <2> QED
    BY <1>5, <2>1, <2>2, <2>3
<1>10. freeListHead' = IF k - 1 = 0 THEN nullptr ELSE M[1]
  <2>1. freeListHead' = IF 1 < k THEN s[1 + 1] ELSE nullptr
    BY <1>2, <1>3
  <2>2. 1 < k => 1 \in 1..k - 1
    BY <1>1
  <2>3. 1 < k <=> k - 1 # 0
    BY <1>1, <1>3
  <2> QED
    BY <1>5, <2>1, <2>2, <2>3
<1>11. IsChain(M)'
  BY <1>4, <1>8, <1>9, <1>10 DEF IsChain
<1> QED
  BY <1>4, <1>7, <1>11

\* The node is made the head, or the head that was found instead is remembered.
LEMMA PutHeadStep ==
  ASSUME ListIInv, NEW t \in Users, PutHead(t)
  PROVE  ListIInv'
<1>0. /\ ListTypeOK /\ ThreadOK(t) /\ at[t] = "put_head"
      /\ UNCHANGED <<freeListNext, refs, should, used, turns>>
  BY DEF ListIInv, PutHead, counts
<1>1. PICK s \in Seq(Nodes) : IsChain(s) /\ \A k \in Nodes : NodeOK(k, Range(s))
  BY DEF ListIInv
<1>2. PICK m \in Nodes : m = mine[t].node
  BY <1>0 DEF ThreadOK, Node, HoldPoints
<1>3. CASE freeListHead = mine[t].next /\ freeListHead' = m /\ PutReturn(t)
  <2>1. /\ at[t] \in HoldPoints /\ at[t] \notin PutPoints /\ at[t] \in CountPoints
        /\ at[t] \notin RefPoints
    BY <1>0 DEF HoldPoints, PutPoints, CountPoints, RefPoints
  <2>2. /\ Holders(m) = {t} /\ m \notin used /\ m \notin Range(s) /\ ~should[m]
        /\ refs[m] = Cardinality(Referring(m)) + 1
    BY <1>1, <1>2, <2>1, Held
  <2>3. freeListNext[m] = freeListHead
    BY <1>0, <1>2, <1>3 DEF ThreadOK, Node
  <2>4. PICK M \in Seq(Nodes) : IsChain(M)' /\ Range(M) = Range(s) \cup {m}
    BY <1>0, <1>1, <1>3, <2>2, <2>3, Pushed
  <2>5. /\ Alone(t) /\ at' \in [Users -> Points] /\ mine' \in [Users -> Locals]
        /\ Free(t)' /\ ThreadOK(t)'
    BY <1>0, <1>3, PutReturned
  <2>6. Holders(m)' = {} /\ Referring(m)' = Referring(m)
    <3>1. t \notin Referring(m)
      BY <2>1 DEF Referring
    <3>2. Holders(m) \ {t} = {} /\ Referring(m) \ {t} = Referring(m)
      BY <2>2, <3>1
    <3> QED
      BY <2>5, <3>2, Others
  <2>7. m \in Range(M) /\ \A n \in Nodes \ {m} : n \in Range(M) <=> n \in Range(s)
    BY <2>4
  <2>8. NodeOK(m, Range(M))'
    <3>1. m \notin used' /\ refs'[m] = Cardinality(Referring(m)') + 1
      BY <1>0, <2>2, <2>6
    <3>2. ~should'[m]
      BY <1>0, <2>2
    <3> QED
      BY <2>6, <2>7, <3>1, <3>2, LooseNext
  <2>9. ListTypeOK'
    <3>1. freeListHead' \in Pointers
      BY <1>3 DEF Pointers
    <3> QED
      BY <1>0, <2>5, <3>1, TypeFacts, TypeNext
  <2>10. \A n \in Nodes \ {m} : /\ refs'[n] = refs[n] /\ should'[n] = should[n]
                                /\ n \in used' <=> n \in used
                                /\ n \in Range(M) <=> n \in Range(s)
    BY <1>0, <2>7
  <2> QED
    BY <1>0, <1>1, <1>2, <2>4, <2>5, <2>8, <2>9, <2>10, OneNode
<1>4. CASE /\ Goto(t, "put_undo") /\ mine' = [mine EXCEPT ![t].next = freeListHead]
           /\ freeListHead' = freeListHead
  <2>1. freeListHead \in Pointers /\ "put_undo" \in Points
    BY <1>0, TypeFacts DEF Points
  <2>2. /\ Alone(t) /\ at' \in [Users -> Points] /\ at'[t] = "put_undo"
        /\ mine' \in [Users -> Locals] /\ mine'[t].node = mine[t].node
    BY <1>0, <1>4, <2>1, NextSet
  <2>3. ThreadOK(t)'
    BY <1>2, <2>2 DEF ThreadOK, Node
  <2>4. ListTypeOK'
    BY <1>0, <1>4, <2>2, TypeFacts, TypeNext
  <2>5. /\ at'[t] \in HoldPoints <=> at[t] \in HoldPoints
        /\ at'[t] \in RefPoints <=> at[t] \in RefPoints
        /\ at'[t] \in PutPoints <=> at[t] \in PutPoints
        /\ at'[t] \in CountPoints <=> at[t] \in CountPoints
    BY <1>0, <2>2 DEF HoldPoints, PutPoints, CountPoints, RefPoints
  <2> QED
    BY <1>0, <1>4, <2>2, <2>3, <2>4, <2>5, Quiet
<1> QED
  BY <1>2, <1>3, <1>4 DEF PutHead, Node

\* The count that was stored is taken back: the node is put once more, or left to
\* the thread that drops the last reference.
LEMMA PutUndoStep ==
  ASSUME ListIInv, NEW t \in Users, PutUndo(t)
  PROVE  ListIInv'
<1>0. /\ ListTypeOK /\ ThreadOK(t) /\ at[t] = "put_undo"
      /\ UNCHANGED <<freeListHead, freeListNext, used, turns>>
  BY DEF ListIInv, PutUndo, list
<1>1. PICK s \in Seq(Nodes) : IsChain(s) /\ \A k \in Nodes : NodeOK(k, Range(s))
  BY DEF ListIInv
<1>2. PICK m \in Nodes : m = mine[t].node
  BY <1>0 DEF ThreadOK, Node, HoldPoints
<1>3. /\ refs' = [refs EXCEPT ![m] = @ - 1] /\ should' = [should EXCEPT ![m] = TRUE]
      /\ \/ refs[m] = 1 /\ Goto(t, "put_next") /\ mine' = mine
         \/ refs[m] # 1 /\ PutReturn(t)
  BY <1>2 DEF PutUndo, Node
<1>4. /\ at[t] \in HoldPoints /\ at[t] \notin PutPoints /\ at[t] \in CountPoints
      /\ at[t] \notin RefPoints
  BY <1>0 DEF HoldPoints, PutPoints, CountPoints, RefPoints
<1>5. /\ Holders(m) = {t} /\ m \notin used /\ m \notin Range(s)
      /\ refs[m] = Cardinality(Referring(m)) + 1
  BY <1>1, <1>2, <1>4, Held
<1>6. Cardinality(Referring(m)) \in Nat /\ (Cardinality(Referring(m)) = 0 <=> Referring(m) = {})
  BY RefsFinite
<1>7. /\ refs' \in [Nodes -> Nat] /\ refs'[m] = Cardinality(Referring(m))
      /\ \A n \in Nodes \ {m} : refs'[n] = refs[n]
  <2>1. refs \in [Nodes -> Nat]
    BY <1>0, TypeFacts
  <2>2. refs[m] - 1 = Cardinality(Referring(m))
    BY <1>5, <1>6
  <2> QED
    BY <1>3, <1>6, <2>1, <2>2
<1>8. /\ should'[m] /\ should' \in [Nodes -> BOOLEAN]
      /\ \A n \in Nodes \ {m} : should'[n] = should[n]
  BY <1>0, <1>3, TypeFacts
<1>9. Holders(m) \ {t} = {} /\ Referring(m) \ {t} = Referring(m)
  <2>1. t \notin Referring(m)
    BY <1>4 DEF Referring
  <2> QED
    BY <1>5, <2>1
<1>10. IsChain(s)'
  BY <1>0, <1>1, ChainKept
<1>11. \A n \in Nodes \ {m} : refs'[n] = refs[n] /\ should'[n] = should[n]
  BY <1>7, <1>8
<1>12. CASE refs[m] = 1 /\ Goto(t, "put_next") /\ mine' = mine
  <2>1. /\ Alone(t) /\ at' \in [Users -> Points] /\ at'[t] = "put_next"
        /\ mine' \in [Users -> Locals] /\ mine'[t].node = m
    BY <1>0, <1>2, <1>12, Went DEF Points
  <2>2. /\ at'[t] \in HoldPoints /\ at'[t] \in PutPoints /\ at'[t] \notin CountPoints
        /\ at'[t] \notin RefPoints
    BY <2>1 DEF HoldPoints, PutPoints, CountPoints, RefPoints
  <2>3. Referring(m) = {}
    BY <1>5, <1>6, <1>12
  <2>4. Holders(m)' = {} \cup {t} /\ Referring(m)' = Referring(m)
    BY <1>9, <2>1, <2>2, Others
  <2>5. Holders(m)' = {t} /\ Referring(m)' = {}
    BY <2>3, <2>4
  <2>6. m \notin used' /\ refs'[m] = Cardinality(Referring(m)') + 0
    BY <1>0, <1>5, <1>6, <1>7, <2>4
  <2>7. NodeOK(m, Range(s))'
    BY <1>5, <1>8, <2>2, <2>5, <2>6, HeldNext
  <2>8. ThreadOK(t)'
    BY <2>1 DEF ThreadOK, Node
  <2>9. ListTypeOK'
    BY <1>0, <1>7, <1>8, <2>1, TypeFacts, TypeNext
  <2> QED
    BY <1>0, <1>1, <1>2, <1>10, <1>11, <2>1, <2>7, <2>8, <2>9, OneNode
<1>13. CASE refs[m] # 1 /\ PutReturn(t)
  <2>1. /\ Alone(t) /\ at' \in [Users -> Points] /\ mine' \in [Users -> Locals]
        /\ Free(t)' /\ ThreadOK(t)'
    BY <1>0, <1>13, PutReturned
  <2>2. Holders(m)' = {} /\ Referring(m)' = Referring(m)
    BY <1>9, <2>1, Others
  <2>3. Referring(m) # {} /\ refs'[m] = Cardinality(Referring(m)') + 0 /\ m \notin used'
    BY <1>0, <1>5, <1>6, <1>7, <1>13, <2>2
  <2>4. NodeOK(m, Range(s))'
    BY <1>5, <1>8, <2>2, <2>3, LooseNext
  <2>5. ListTypeOK'
    BY <1>0, <1>7, <1>8, <2>1, TypeFacts, TypeNext
  <2> QED
    BY <1>0, <1>1, <1>2, <1>10, <1>11, <2>1, <2>4, <2>5, OneNode
<1> QED
  BY <1>3, <1>12, <1>13

\* A reference to m comes or goes, of a thread that does not hold m.
LEMMA RefsNext ==
  ASSUME NEW t \in Users, Alone(t), NEW m, NEW L, NodeOK(m, L),
         t \notin Holders(m), t \notin Holders(m)', ~Puts(m),
         should'[m] = should[m], m \in used' <=> m \in used,
         refs'[m] = Cardinality(Referring(m)') + (IF m \in L \/ Counts(m) THEN 1 ELSE 0),
         Orphan(m, L) => Referring(m)' # {}
  PROVE  NodeOK(m, L)'
<1>0. Holders(m)' = (Holders(m) \ {t}) \cup
           (IF mine'[t].node = m /\ at'[t] \in HoldPoints THEN {t} ELSE {})
  BY Moved
<1>1. Holders(m)' = Holders(m)
  <2>1. \A u : u \in Holders(m)' <=> u \in Holders(m)
    BY <1>0
  <2> QED
    BY <2>1
<1>2. \A u \in Holders(m) : u # t => at'[u] = at[u]
  BY Moved
<1>3. ~Puts(m)' /\ (Counts(m)' <=> Counts(m))
  BY <1>1, <1>2 DEF Puts, Counts
<1>4. Orphan(m, L)' <=> Orphan(m, L)
  BY <1>1 DEF Orphan
<1> QED
  BY <1>1, <1>3, <1>4 DEF NodeOK

\* What the count of a node shows: while it is not zero, nobody puts the node.
LEMMA NotPut ==
  ASSUME NEW m, NEW L, NodeOK(m, L), refs[m] # 0
  PROVE  ~Puts(m)
<1> SUFFICES ASSUME Puts(m) PROVE FALSE
  OBVIOUS
<1>1. m \notin L /\ Referring(m) = {}
  BY DEF NodeOK, Puts
<1>2. ~Counts(m)
  <2>1. \A t, u \in Holders(m) : t = u
    BY DEF NodeOK
  <2> QED
    BY <2>1 DEF Puts, Counts, PutPoints, CountPoints
<1>3. refs[m] = Cardinality(Referring(m)) + 0
  BY <1>1, <1>2 DEF NodeOK
<1> QED
  BY <1>1, <1>3, FS_EmptySet

\* One thread more or less that refers to m.
LEMMA RefsCount ==
  ASSUME NEW m, NEW t
  PROVE  /\ t \notin Referring(m) =>
              Cardinality(Referring(m) \cup {t}) = Cardinality(Referring(m)) + 1
         /\ t \in Referring(m) =>
              /\ Cardinality(Referring(m)) > 0
              /\ Cardinality(Referring(m) \ {t}) = Cardinality(Referring(m)) - 1
              /\ Referring(m) \ {t} = {} <=> Cardinality(Referring(m)) = 1
<1>1. /\ IsFiniteSet(Referring(m)) /\ Cardinality(Referring(m)) \in Nat
      /\ Cardinality(Referring(m)) = 0 <=> Referring(m) = {}
  BY RefsFinite
<1>2. t \notin Referring(m) =>
        Cardinality(Referring(m) \cup {t}) = Cardinality(Referring(m)) + 1
  BY <1>1, FS_AddElement
<1>3. /\ Cardinality(Referring(m) \ {t}) = IF t \in Referring(m) THEN Cardinality(Referring(m)) - 1
                                                             ELSE Cardinality(Referring(m))
      /\ IsFiniteSet(Referring(m) \ {t})
  BY <1>1, FS_RemoveElement
<1>4. Cardinality(Referring(m) \ {t}) = 0 <=> Referring(m) \ {t} = {}
  BY <1>3, FS_EmptySet
<1> QED
  BY <1>1, <1>2, <1>3, <1>4

\* A thread takes a reference to a node that somebody refers to already.
LEMMA GetRefStep ==
  ASSUME ListIInv, NEW t \in Users, GetRef(t)
  PROVE  ListIInv'
<1>0. /\ ListTypeOK /\ ThreadOK(t) /\ at[t] = "get_ref"
      /\ UNCHANGED <<freeListHead, freeListNext, should, used, mine, turns>>
  BY DEF ListIInv, GetRef, list
<1>1. PICK s \in Seq(Nodes) : IsChain(s) /\ \A k \in Nodes : NodeOK(k, Range(s))
  BY DEF ListIInv
<1>2. PICK m \in Nodes : m = mine[t].node
  BY <1>0 DEF ThreadOK, Node
<1>3. Free(t) /\ at[t] \notin RefPoints /\ at[t] \notin HoldPoints
  BY <1>0 DEF Free, HoldPoints, RefPoints
<1>4. CASE /\ refs[m] = mine[t].refs /\ Goto(t, "get_next")
           /\ refs' = [refs EXCEPT ![m] = @ + 1]
  <2>1. /\ Alone(t) /\ at' \in [Users -> Points] /\ at'[t] = "get_next"
        /\ mine' \in [Users -> Locals] /\ mine'[t].node = m
    BY <1>0, <1>2, <1>4, Went DEF Points
  <2>2. at'[t] \in RefPoints /\ at'[t] \notin HoldPoints
    BY <2>1 DEF RefPoints, HoldPoints
  <2>3. /\ refs \in [Nodes -> Nat] /\ refs' \in [Nodes -> Nat] /\ refs'[m] = refs[m] + 1
        /\ \A n \in Nodes \ {m} : refs'[n] = refs[n]
    <3>1. refs \in [Nodes -> Nat]
      BY <1>0, TypeFacts
    <3> QED
      BY <1>4, <3>1
  <2>4. ~Puts(m)
    <3>1. refs[m] # 0
      BY <1>0, <1>4 DEF ThreadOK
    <3> QED
      BY <1>1, <3>1, NotPut
  <2>5. t \notin Referring(m) /\ t \notin Holders(m)
    BY <1>2, <1>3, <2>1, Moved
  <2>6. Referring(m)' = Referring(m) \cup {t} /\ Holders(m)' = Holders(m)
    <3>1. Referring(m) \ {t} = Referring(m) /\ Holders(m) \ {t} = Holders(m)
      BY <2>5
    <3> QED
      BY <2>1, <2>2, <3>1, Others
  <2>7. refs'[m] = Cardinality(Referring(m)') +
                     (IF m \in Range(s) \/ Counts(m) THEN 1 ELSE 0)
    <3>1. Cardinality(Referring(m)') = Cardinality(Referring(m)) + 1
      BY <2>5, <2>6, RefsCount
    <3>2. refs[m] = Cardinality(Referring(m)) +
                      (IF m \in Range(s) \/ Counts(m) THEN 1 ELSE 0)
      BY <1>1 DEF NodeOK
    <3>3. Cardinality(Referring(m)) \in Nat
      BY RefsFinite
    <3> QED
      BY <2>3, <3>1, <3>2, <3>3
  <2>8. NodeOK(m, Range(s))'
    <3>1. should'[m] = should[m] /\ (m \in used' <=> m \in used) /\ Referring(m)' # {}
      BY <1>0, <2>6
    <3> QED
      BY <1>1, <2>1, <2>4, <2>5, <2>6, <2>7, <3>1, RefsNext
  <2>9. ThreadOK(t)'
    BY <2>1 DEF ThreadOK, Node
  <2>10. ListTypeOK'
    BY <1>0, <2>1, <2>3, TypeFacts, TypeNext
  <2>11. IsChain(s)'
    BY <1>0, <1>1, ChainKept
  <2> QED
    BY <1>0, <1>1, <1>2, <2>1, <2>3, <2>8, <2>9, <2>10, <2>11, OneNode
<1>5. CASE Goto(t, "get") /\ refs' = refs
  <2>1. /\ Alone(t) /\ at' \in [Users -> Points] /\ at'[t] = "get"
        /\ mine' \in [Users -> Locals]
    BY <1>0, <1>5, Went DEF Points
  <2>2. Free(t)' /\ ThreadOK(t)'
    BY <2>1 DEF Free, ThreadOK, HoldPoints, RefPoints
  <2>3. ListTypeOK'
    BY <1>0, <1>5, <2>1, TypeFacts, TypeNext
  <2> QED
    BY <1>0, <1>3, <1>5, <2>1, <2>2, <2>3, Quiet
<1> QED
  BY <1>2, <1>4, <1>5 DEF GetRef, Node

\* The head is replaced by the successor that was read, which is still the right
\* one because the thread refers to the node; or the new head is remembered.
LEMMA GetHeadStep ==
  ASSUME ListIInv, NEW t \in Users, GetHead(t)
  PROVE  ListIInv'
<1>0. /\ ListTypeOK /\ ThreadOK(t) /\ at[t] = "get_head"
      /\ UNCHANGED <<freeListNext, refs, should, used, turns>>
  BY DEF ListIInv, GetHead, counts
<1>1. PICK s \in Seq(Nodes) : IsChain(s) /\ \A k \in Nodes : NodeOK(k, Range(s))
  BY DEF ListIInv
<1>2. PICK m \in Nodes : m = mine[t].node
  BY <1>0 DEF ThreadOK, Node, RefPoints
<1>3. CASE /\ freeListHead = m /\ Goto(t, "got") /\ freeListHead' = mine[t].next
           /\ mine' = mine
  <2>1. /\ Alone(t) /\ at' \in [Users -> Points] /\ at'[t] = "got"
        /\ mine' \in [Users -> Locals] /\ mine'[t].node = m
    BY <1>0, <1>2, <1>3, Went DEF Points
  <2>2. freeListHead' = freeListNext[m]
    BY <1>0, <1>2, <1>3 DEF ThreadOK, Node
  <2>3. m \in Range(s) /\ \E M \in Seq(Nodes) : IsChain(M)' /\ Range(M) = Range(s) \ {m}
    BY <1>0, <1>1, <1>3, <2>2, Popped
  <2>4. PICK M \in Seq(Nodes) : IsChain(M)' /\ Range(M) = Range(s) \ {m}
    BY <2>3
  <2>5. m \notin Range(M) /\ \A n \in Nodes \ {m} : n \in Range(M) <=> n \in Range(s)
    BY <2>4
  <2>6. Holders(m) = {} /\ m \notin used
    BY <1>1, <2>3 DEF NodeOK
  <2>7. ~Puts(m) /\ ~Orphan(m, Range(s))
    BY <2>3, <2>6 DEF Puts, Orphan
  <2>8. ~should[m]
    BY <1>1, <2>7 DEF NodeOK
  <2>9. refs[m] = Cardinality(Referring(m)) + 1
    BY <1>1, <2>3 DEF NodeOK
  <2>10. at[t] \in RefPoints /\ at'[t] \in RefPoints /\ at'[t] \in HoldPoints
         /\ at'[t] \notin PutPoints /\ at'[t] \in CountPoints
    BY <1>0, <2>1 DEF HoldPoints, PutPoints, CountPoints, RefPoints
  <2>11. Holders(m)' = {t} /\ Referring(m)' = Referring(m)
    <3>1. t \in Referring(m)
      BY <1>2, <2>10 DEF Referring, Node
    <3>2. Holders(m) \ {t} = {}
      BY <2>6
    <3>3. Holders(m)' = {} \cup {t} /\ Referring(m)' = (Referring(m) \ {t}) \cup {t}
      BY <2>1, <2>10, <3>2, Others
    <3> QED
      BY <3>1, <3>3
  <2>12. NodeOK(m, Range(M))'
    <3>1. m \notin used' /\ refs'[m] = Cardinality(Referring(m)') + 1
      BY <1>0, <2>6, <2>9, <2>11
    <3>2. ~should'[m]
      BY <1>0, <2>8
    <3> QED
      BY <2>5, <2>10, <2>11, <3>1, <3>2, HeldNext
  <2>13. ThreadOK(t)'
    BY <2>1 DEF ThreadOK, Node
  <2>14. ListTypeOK'
    <3>1. freeListHead' \in Pointers
      BY <1>0, <1>3, TypeFacts
    <3> QED
      BY <1>0, <2>1, <3>1, TypeFacts, TypeNext
  <2>15. \A n \in Nodes \ {m} : /\ refs'[n] = refs[n] /\ should'[n] = should[n]
                                /\ n \in used' <=> n \in used
                                /\ n \in Range(M) <=> n \in Range(s)
    BY <1>0, <2>5
  <2> QED
    BY <1>0, <1>1, <1>2, <2>1, <2>4, <2>12, <2>13, <2>14, <2>15, OneNode
<1>4. CASE /\ Goto(t, "unref") /\ mine' = [mine EXCEPT ![t].head = freeListHead]
           /\ freeListHead' = freeListHead
  <2>1. freeListHead \in Pointers /\ "unref" \in Points
    BY <1>0, TypeFacts DEF Points
  <2>2. /\ Alone(t) /\ at' \in [Users -> Points] /\ at'[t] = "unref"
        /\ mine' \in [Users -> Locals] /\ mine'[t].node = mine[t].node
    BY <1>0, <1>4, <2>1, HeadSet
  <2>3. ThreadOK(t)'
    BY <1>2, <2>2 DEF ThreadOK, Node
  <2>4. ListTypeOK'
    BY <1>0, <1>4, <2>2, TypeFacts, TypeNext
  <2>5. /\ at'[t] \in HoldPoints <=> at[t] \in HoldPoints
        /\ at'[t] \in RefPoints <=> at[t] \in RefPoints
        /\ at'[t] \in PutPoints <=> at[t] \in PutPoints
        /\ at'[t] \in CountPoints <=> at[t] \in CountPoints
    BY <1>0, <2>2 DEF HoldPoints, PutPoints, CountPoints, RefPoints
  <2> QED
    BY <1>0, <1>4, <2>2, <2>3, <2>4, <2>5, Quiet
<1> QED
  BY <1>2, <1>3, <1>4 DEF GetHead, Node

\* The node that was taken is given out.
LEMMA GotStep ==
  ASSUME ListIInv, NEW t \in Users, Got(t)
  PROVE  ListIInv'
<1>0. /\ ListTypeOK /\ ThreadOK(t) /\ at[t] = "got" /\ ListReturn(t)
      /\ UNCHANGED <<freeListHead, freeListNext, should, turns>>
  BY DEF ListIInv, Got, list
<1>1. PICK s \in Seq(Nodes) : IsChain(s) /\ \A k \in Nodes : NodeOK(k, Range(s))
  BY DEF ListIInv
<1>2. PICK m \in Nodes : m = mine[t].node
  BY <1>0 DEF ThreadOK, Node, HoldPoints
<1>3. refs' = [refs EXCEPT ![m] = @ - 2] /\ used' = used \cup {m}
  BY <1>2 DEF Got, Node
<1>4. /\ at[t] \in HoldPoints /\ at[t] \notin PutPoints /\ at[t] \in CountPoints
      /\ at[t] \in RefPoints
  BY <1>0 DEF HoldPoints, PutPoints, CountPoints, RefPoints
<1>5. /\ Holders(m) = {t} /\ m \notin Range(s) /\ ~should[m]
      /\ refs[m] = Cardinality(Referring(m)) + 1
  BY <1>1, <1>2, <1>4, Held
<1>6. /\ Cardinality(Referring(m)) > 0 /\ Cardinality(Referring(m)) \in Nat
      /\ Cardinality(Referring(m) \ {t}) = Cardinality(Referring(m)) - 1
  <2>1. t \in Referring(m)
    BY <1>2, <1>4 DEF Referring, Node
  <2> QED
    BY <2>1, RefsCount, RefsFinite
<1>7. /\ refs' \in [Nodes -> Nat] /\ refs'[m] = Cardinality(Referring(m) \ {t})
      /\ \A n \in Nodes \ {m} : refs'[n] = refs[n]
  <2>1. refs \in [Nodes -> Nat]
    BY <1>0, TypeFacts
  <2>2. refs[m] - 2 = Cardinality(Referring(m) \ {t}) /\ refs[m] - 2 \in Nat
    BY <1>5, <1>6
  <2> QED
    BY <1>3, <2>1, <2>2
<1>8. /\ Alone(t) /\ at' \in [Users -> Points] /\ mine' \in [Users -> Locals]
      /\ Free(t)' /\ ThreadOK(t)'
  BY <1>0, Returned
<1>9. Holders(m)' = {} /\ Referring(m)' = Referring(m) \ {t}
  <2>1. Holders(m) \ {t} = {}
    BY <1>5
  <2> QED
    BY <1>8, <2>1, Others
<1>10. NodeOK(m, Range(s))'
  <2>1. m \in used' /\ refs'[m] = Cardinality(Referring(m)') + 0
    BY <1>3, <1>6, <1>7, <1>9
  <2>2. ~should'[m]
    BY <1>0, <1>5
  <2> QED
    BY <1>5, <1>9, <2>1, <2>2, LooseNext
<1>11. ListTypeOK'
  <2>1. used' \subseteq Nodes
    BY <1>0, <1>3, TypeFacts
  <2> QED
    BY <1>0, <1>7, <1>8, <2>1, TypeFacts, TypeNext
<1>12. IsChain(s)'
  BY <1>0, <1>1, ChainKept
<1>13. \A n \in Nodes \ {m} : /\ refs'[n] = refs[n] /\ should'[n] = should[n]
                              /\ n \in used' <=> n \in used
  BY <1>0, <1>3, <1>7
<1> QED
  BY <1>0, <1>1, <1>2, <1>8, <1>10, <1>11, <1>12, <1>13, OneNode

\* A reference is dropped, and with the last one a node that was left is put.
LEMMA UnrefStep ==
  ASSUME ListIInv, NEW t \in Users, Unref(t)
  PROVE  ListIInv'
<1>0. /\ ListTypeOK /\ ThreadOK(t) /\ at[t] = "unref"
      /\ UNCHANGED <<freeListHead, freeListNext, should, used, turns>>
  BY DEF ListIInv, Unref, list
<1>1. PICK s \in Seq(Nodes) : IsChain(s) /\ \A k \in Nodes : NodeOK(k, Range(s))
  BY DEF ListIInv
<1>2. PICK m \in Nodes : m = mine[t].node
  BY <1>0 DEF ThreadOK, Node, RefPoints
<1>3. /\ refs' = [refs EXCEPT ![m] = @ - 1]
      /\ \/ refs[m] = 1 /\ should[m] /\ Goto(t, "put") /\ mine' = mine
         \/ ~(refs[m] = 1 /\ should[m]) /\ PutReturn(t)
  BY <1>2 DEF Unref, Node
<1>4. at[t] \in RefPoints /\ at[t] \notin HoldPoints
  BY <1>0 DEF RefPoints, HoldPoints
<1>5. t \in Referring(m) /\ t \notin Holders(m)
  <2>1. t \in Referring(m)
    BY <1>2, <1>4 DEF Referring, Node
  <2>2. t \notin Holders(m)
    BY <1>4 DEF Holders, HoldPoints
  <2> QED
    BY <2>1, <2>2
<1>6. /\ Cardinality(Referring(m)) > 0 /\ Cardinality(Referring(m)) \in Nat
      /\ Cardinality(Referring(m) \ {t}) = Cardinality(Referring(m)) - 1
      /\ Referring(m) \ {t} = {} <=> Cardinality(Referring(m)) = 1
  BY <1>5, RefsCount, RefsFinite
<1>7. refs[m] = Cardinality(Referring(m)) +
                  (IF m \in Range(s) \/ Counts(m) THEN 1 ELSE 0)
  BY <1>1 DEF NodeOK
<1>8. /\ refs' \in [Nodes -> Nat] /\ refs'[m] = refs[m] - 1 /\ refs[m] \in Nat /\ refs[m] # 0
      /\ \A n \in Nodes \ {m} : refs'[n] = refs[n]
  <2>1. refs \in [Nodes -> Nat]
    BY <1>0, TypeFacts
  <2>2. refs[m] - 1 \in Nat /\ refs[m] # 0
    BY <1>6, <1>7
  <2> QED
    BY <1>3, <2>1, <2>2
<1>9. ~Puts(m)
  BY <1>1, <1>8, NotPut
<1>10. should[m] <=> Orphan(m, Range(s))
  BY <1>1, <1>9 DEF NodeOK
<1>11. IsChain(s)'
  BY <1>0, <1>1, ChainKept
<1>12. Orphan(m, Range(s)) => m \notin used /\ m \notin Range(s) /\ Holders(m) = {} /\ ~Counts(m)
  BY DEF Orphan, Counts
<1>13. CASE refs[m] = 1 /\ should[m] /\ Goto(t, "put") /\ mine' = mine
  <2>1. /\ Alone(t) /\ at' \in [Users -> Points] /\ at'[t] = "put"
        /\ mine' \in [Users -> Locals] /\ mine'[t].node = m
    BY <1>0, <1>2, <1>13, Went DEF Points
  <2>2. /\ at'[t] \in HoldPoints /\ at'[t] \in PutPoints /\ at'[t] \notin CountPoints
        /\ at'[t] \notin RefPoints
    BY <2>1 DEF HoldPoints, PutPoints, CountPoints, RefPoints
  <2>3. m \notin used /\ m \notin Range(s) /\ Holders(m) = {} /\ ~Counts(m)
    BY <1>10, <1>12, <1>13
  <2>4. Referring(m) \ {t} = {} /\ Holders(m) \ {t} = {}
    <3>1. Cardinality(Referring(m)) = 1
      BY <1>6, <1>7, <1>13, <2>3
    <3> QED
      BY <1>6, <2>3, <3>1
  <2>5. Holders(m)' = {} \cup {t} /\ Referring(m)' = {}
    BY <2>1, <2>2, <2>4, Others
  <2>6. NodeOK(m, Range(s))'
    <3>1. Holders(m)' = {t} /\ m \notin used'
      BY <1>0, <2>3, <2>5
    <3>2. refs'[m] = Cardinality(Referring(m)') + 0
      BY <1>8, <1>13, <2>5, FS_EmptySet
    <3>3. should'[m]
      BY <1>0, <1>13
    <3> QED
      BY <2>2, <2>3, <2>5, <3>1, <3>2, <3>3, HeldNext
  <2>7. ThreadOK(t)'
    BY <2>1 DEF ThreadOK, Node
  <2>8. ListTypeOK'
    BY <1>0, <1>8, <2>1, TypeFacts, TypeNext
  <2>9. \A n \in Nodes \ {m} : /\ refs'[n] = refs[n] /\ should'[n] = should[n]
                               /\ n \in used' <=> n \in used
    BY <1>0, <1>8
  <2> QED
    BY <1>0, <1>1, <1>2, <1>11, <2>1, <2>6, <2>7, <2>8, <2>9, OneNode
<1>14. CASE ~(refs[m] = 1 /\ should[m]) /\ PutReturn(t)
  <2>1. /\ Alone(t) /\ at' \in [Users -> Points] /\ mine' \in [Users -> Locals]
        /\ Free(t)' /\ ThreadOK(t)'
    BY <1>0, <1>14, PutReturned
  <2>2. Holders(m)' = Holders(m) /\ Referring(m)' = Referring(m) \ {t}
    <3>1. Holders(m) \ {t} = Holders(m)
      BY <1>5
    <3> QED
      BY <2>1, <3>1, Others
  <2>3. refs'[m] = Cardinality(Referring(m)') +
                     (IF m \in Range(s) \/ Counts(m) THEN 1 ELSE 0)
    BY <1>6, <1>7, <1>8, <2>2
  <2>4. Orphan(m, Range(s)) => Referring(m)' # {}
    <3>1. ASSUME Orphan(m, Range(s)) PROVE refs[m] # 1
      BY <1>10, <1>14, <3>1
    <3>2. ASSUME Orphan(m, Range(s)) PROVE refs[m] = Cardinality(Referring(m))
      BY <1>6, <1>7, <1>12, <3>2
    <3> QED
      BY <1>6, <2>2, <3>1, <3>2
  <2>5. NodeOK(m, Range(s))'
    <3>1. should'[m] = should[m] /\ (m \in used' <=> m \in used) /\ t \notin Holders(m)'
      BY <1>0, <1>5, <2>2
    <3> QED
      BY <1>1, <1>5, <1>9, <2>1, <2>3, <2>4, <3>1, RefsNext
  <2>6. ListTypeOK'
    BY <1>0, <1>8, <2>1, TypeFacts, TypeNext
  <2>7. \A n \in Nodes \ {m} : /\ refs'[n] = refs[n] /\ should'[n] = should[n]
                               /\ n \in used' <=> n \in used
    BY <1>0, <1>8
  <2> QED
    BY <1>0, <1>1, <1>2, <1>11, <2>1, <2>5, <2>6, <2>7, OneNode
<1> QED
  BY <1>3, <1>13, <1>14

-----------------------------------------------------------------------------
(***************************************************************************)
(* The invariant.                                                          *)
(***************************************************************************)

\* The list the program starts with.
LEMMA StartChain ==
  ASSUME NEW s \in Starts,
         freeListHead = IF s = <<>> THEN nullptr ELSE s[1],
         freeListNext =
            [n \in Nodes |->
               IF \E i \in 1..Len(s) - 1 : s[i] = n
               THEN s[1 + CHOOSE i \in 1..Len(s) - 1 : s[i] = n]
               ELSE nullptr]
  PROVE  /\ s \in Seq(Nodes) /\ IsChain(s)
         /\ freeListHead \in Pointers /\ freeListNext \in [Nodes -> Pointers]
<1> DEFINE k == Len(s)
           F(n) == CHOOSE i \in 1..k - 1 : s[i] = n
<1>1. s \in Seq(Nodes)
  BY FreeListAssumption
<1>2. k \in Nat /\ s \in [1..k -> Nodes] /\ (s = <<>> <=> k = 0)
  BY <1>1, EmptySeq, LenProperties
<1>3. \A i, j \in 1..k : s[i] = s[j] => i = j
  BY <1>2, FreeListAssumption
<1>4. freeListNext = [n \in Nodes |-> IF \E i \in 1..k - 1 : s[i] = n
                                      THEN s[1 + F(n)] ELSE nullptr]
  OBVIOUS
<1>5. \A n \in Nodes : (\E i \in 1..k - 1 : s[i] = n) => F(n) \in 1..k - 1 /\ s[F(n)] = n
  OBVIOUS
<1> HIDE DEF k, F
<1>6. ASSUME NEW i \in 1..k
      PROVE  freeListNext[s[i]] = IF i < k THEN s[i + 1] ELSE nullptr
  <2>0. s[i] \in Nodes
    BY <1>2
  <2>1. CASE i < k
    <3>1. i \in 1..k - 1
      BY <1>2, <2>1
    <3>2. F(s[i]) \in 1..k - 1 /\ s[F(s[i])] = s[i]
      BY <1>5, <2>0, <3>1
    <3>3. F(s[i]) = i
      BY <1>2, <1>3, <3>2
    <3>4. freeListNext[s[i]] = s[1 + F(s[i])]
      BY <1>4, <2>0, <3>1
    <3>5. 1 + i = i + 1
      BY <1>2
    <3> QED
      BY <2>1, <3>3, <3>4, <3>5
  <2>2. CASE ~(i < k)
    <3>1. \A j \in 1..k - 1 : j \in 1..k /\ j # i
      BY <1>2, <2>2
    <3>2. ~\E j \in 1..k - 1 : s[j] = s[i]
      BY <1>3, <3>1
    <3> QED
      BY <1>4, <2>0, <2>2, <3>2
  <2> QED
    BY <2>1, <2>2
<1>7. ASSUME NEW n \in Nodes PROVE freeListNext[n] \in Pointers
  <2>1. CASE \E i \in 1..k - 1 : s[i] = n
    <3>1. 1 + F(n) \in 1..k
      BY <1>2, <1>5, <2>1
    <3>2. freeListNext[n] = s[1 + F(n)]
      BY <1>4, <2>1
    <3> QED
      BY <1>2, <3>1, <3>2 DEF Pointers
  <2>2. CASE ~\E i \in 1..k - 1 : s[i] = n
    BY <1>4, <2>2 DEF Pointers
  <2> QED
    BY <2>1, <2>2
<1>8. freeListNext \in [Nodes -> Pointers]
  BY <1>4, <1>7
<1>9. freeListHead \in Pointers
  BY <1>2 DEF Pointers
<1>10. IsChain(s)
  BY <1>1, <1>3, <1>6 DEF IsChain, k
<1> QED
  BY <1>1, <1>8, <1>9, <1>10

LEMMA ListStarts ==
  ASSUME ListInit
  PROVE  ListIInv
<1>1. PICK s \in Starts :
         /\ freeListHead = IF s = <<>> THEN nullptr ELSE s[1]
         /\ freeListNext =
            [n \in Nodes |->
               IF \E i \in 1..Len(s) - 1 : s[i] = n
               THEN s[1 + CHOOSE i \in 1..Len(s) - 1 : s[i] = n]
               ELSE nullptr]
         /\ used = {n \in Nodes : \A i \in DOMAIN s : s[i] # n}
  BY DEF ListInit
<1>2. /\ s \in Seq(Nodes) /\ IsChain(s)
      /\ freeListHead \in Pointers /\ freeListNext \in [Nodes -> Pointers]
  BY <1>1, StartChain
<1>3. /\ refs = [n \in Nodes |-> IF n \in used THEN 0 ELSE 1]
      /\ should = [n \in Nodes |-> FALSE] /\ at = [t \in Users |-> "ready"]
      /\ mine = [t \in Users |-> NoLocals] /\ turns = MaxTurns
  BY DEF ListInit
<1>4. /\ refs \in [Nodes -> Nat] /\ used \subseteq Nodes
      /\ at \in [Users -> Points] /\ turns \in 0..MaxTurns
  BY <1>1, <1>3, FreeListAssumption DEF Points
<1>5. mine \in [Users -> Locals]
  BY <1>3 DEF Locals, NoLocals, Pointers
<1>6. should \in [Nodes -> BOOLEAN] /\ \A n \in Nodes : ~should[n]
  BY <1>3
<1>7. ListTypeOK
  BY <1>2, <1>4, <1>5, <1>6 DEF ListTypeOK, Points, Locals
<1>8. \A t \in Users : at[t] = "ready"
  BY <1>3
<1>9. \A t \in Users : ThreadOK(t)
  BY <1>8 DEF ThreadOK, HoldPoints, RefPoints
<1>10. ASSUME NEW n \in Nodes PROVE NodeOK(n, Range(s))
  <2>1. Holders(n) = {} /\ Referring(n) = {}
    BY <1>8 DEF Holders, Referring, RefPoints
  <2>2. ~Puts(n) /\ ~Counts(n)
    BY <2>1 DEF Puts, Counts
  <2>3. n \in used <=> n \notin Range(s)
    BY <1>1 DEF Range
  <2>4. ~Orphan(n, Range(s))
    BY <2>3 DEF Orphan
  <2>5. refs[n] = Cardinality(Referring(n)) + (IF n \in Range(s) \/ Counts(n) THEN 1 ELSE 0)
    BY <1>3, <2>1, <2>2, <2>3, FS_EmptySet
  <2>6. ~should[n]
    BY <1>6
  <2> QED
    BY <2>1, <2>2, <2>3, <2>4, <2>5, <2>6 DEF NodeOK
<1> QED
  BY <1>2, <1>7, <1>9, <1>10 DEF ListIInv

\* Nothing happens.
LEMMA ListStutters ==
  ASSUME ListIInv, UNCHANGED listVars
  PROVE  ListIInv'
<1>1. UNCHANGED <<freeListHead, freeListNext, refs, should, used, at, mine, turns>>
  BY DEF listVars
<1>2. ListTypeOK' /\ \A t \in Users : ThreadOK(t)'
  BY <1>1 DEF ListIInv, ListTypeOK, ThreadOK, Node
<1>3. PICK s \in Seq(Nodes) : IsChain(s) /\ \A n \in Nodes : NodeOK(n, Range(s))
  BY DEF ListIInv
<1>4. IsChain(s)'
  BY <1>1, <1>3, ChainKept
<1>5. ASSUME NEW n \in Nodes PROVE NodeOK(n, Range(s))'
  <2>1. Holders(n)' = Holders(n) /\ Referring(n)' = Referring(n)
    BY <1>1 DEF Holders, Referring, Node
  <2>2. (Puts(n)' <=> Puts(n)) /\ (Counts(n)' <=> Counts(n))
    BY <1>1, <2>1 DEF Puts, Counts
  <2>3. Orphan(n, Range(s))' <=> Orphan(n, Range(s))
    BY <1>1, <2>1 DEF Orphan
  <2> QED
    BY <1>1, <1>3, <2>1, <2>2, <2>3 DEF NodeOK
<1> QED
  BY <1>2, <1>4, <1>5 DEF ListIInv

LEMMA ListSteps ==
  ASSUME ListIInv, [ListNext]_listVars
  PROVE  ListIInv'
<1>1. CASE UNCHANGED listVars
  BY <1>1, ListStutters
<1>2. ASSUME NEW t \in Users, ListStep(t) PROVE ListIInv'
  BY <1>2, CallAddStep, AddStep, PutNextStep, PutRefsStep, PutHeadStep, PutUndoStep,
     LookStep, GetRefStep, GetHeadStep, GotStep, UnrefStep DEF ListStep
<1> QED
  BY <1>1, <1>2 DEF ListNext

\* In every state of FreeList the count of a node is the number of threads that refer
\* to it and of the list's one reference, and whoever has read the successor of a node
\* still knows it when it replaces the head.
THEOREM ListInductive == ListSpec => []ListIInv
<1>1. ListInit => ListIInv
  BY ListStarts
<1>2. ListIInv /\ [ListNext]_listVars => ListIInv'
  BY ListSteps
<1> QED
  BY <1>1, <1>2, PTL DEF ListSpec

-----------------------------------------------------------------------------
(***************************************************************************)
(* What the invariant says of the list that Nth walks.                     *)
(***************************************************************************)

\* Nth walks the list s and then stays at its end.
LEMMA NthOfChain ==
  ASSUME NEW s \in Seq(Nodes), IsChain(s), NEW k \in Nat
  PROVE  Nth[k] = IF k < Len(s) THEN s[k + 1] ELSE nullptr
<1> DEFINE f == [j \in Nat |-> IF j < Len(s) THEN s[j + 1] ELSE nullptr]
<1>1. /\ Len(s) \in Nat /\ s \in [1..Len(s) -> Nodes] /\ (s = <<>> <=> Len(s) = 0)
      /\ nullptr \notin Nodes
  BY EmptySeq, LenProperties, FreeListAssumption
<1>2. f[0] = freeListHead
  BY <1>1 DEF IsChain
<1>3. ASSUME NEW j \in Nat, j # 0
      PROVE  f[j] = IF f[j - 1] = nullptr THEN nullptr ELSE freeListNext[f[j - 1]]
  <2>0. j - 1 \in Nat /\ (j - 1) + 1 = j
    BY <1>3
  <2>1. CASE j - 1 < Len(s)
    <3>1. j \in 1..Len(s) /\ f[j - 1] = s[j]
      BY <1>1, <1>3, <2>0, <2>1
    <3>2. f[j - 1] # nullptr
      BY <1>1, <3>1
    <3>3. freeListNext[s[j]] = IF j < Len(s) THEN s[j + 1] ELSE nullptr
      BY <3>1 DEF IsChain
    <3> QED
      BY <3>1, <3>2, <3>3
  <2>2. CASE ~(j - 1 < Len(s))
    <3>1. f[j - 1] = nullptr /\ ~(j < Len(s))
      BY <1>1, <1>3, <2>0, <2>2
    <3> QED
      BY <3>1
  <2> QED
    BY <2>1, <2>2
<1> HIDE DEF f
<1>4. f = [j \in Nat |-> IF j = 0 THEN freeListHead
                         ELSE IF f[j - 1] = nullptr THEN nullptr ELSE freeListNext[f[j - 1]]]
  <2>1. f = [j \in Nat |-> f[j]]
    BY DEF f
  <2> QED
    BY <1>2, <1>3, <2>1
<1>5. Nth = [j \in Nat |-> IF j = 0 THEN freeListHead
                           ELSE IF Nth[j - 1] = nullptr THEN nullptr
                                ELSE freeListNext[Nth[j - 1]]]
  BY <1>4, Zenon DEF Nth
<1>6. \A j \in Nat : Nth[j] = f[j]
  <2> DEFINE T == {j \in Nat : Nth[j] # f[j]}
  <2> SUFFICES ASSUME T # {} PROVE FALSE
    OBVIOUS
  <2>1. PICK j \in T : \A i \in T : ~(i < j)
    BY LeastNumber
  <2>2. j \in Nat /\ Nth[j] # f[j]
    OBVIOUS
  <2>3. j # 0
    BY <1>2, <1>5, <2>2
  <2>4. j - 1 \in Nat /\ j - 1 < j
    BY <2>2, <2>3
  <2>5. Nth[j - 1] = f[j - 1]
    BY <2>1, <2>4
  <2>6. Nth[j] = IF Nth[j - 1] = nullptr THEN nullptr ELSE freeListNext[Nth[j - 1]]
    BY <1>5, <2>2, <2>3
  <2> QED
    BY <1>3, <2>2, <2>3, <2>5, <2>6
<1> QED
  BY <1>6 DEF f

\* The nodes that Nth reaches are those of the list, and it comes to its end.
LEMMA OnListIs ==
  ASSUME NEW s \in Seq(Nodes), IsChain(s)
  PROVE  OnList = Range(s) /\ Nth[Cardinality(Nodes)] = nullptr
<1> DEFINE k == Len(s)
           c == Cardinality(Nodes)
<1>1. k \in Nat /\ s \in [1..k -> Nodes] /\ DOMAIN s = 1..k /\ nullptr \notin Nodes
  BY LenProperties, FreeListAssumption
<1>2. c \in Nat
  BY FreeListAssumption, FS_CardinalityType
<1>3. \A j \in Nat : Nth[j] = IF j < k THEN s[j + 1] ELSE nullptr
  BY NthOfChain
<1>4. k <= c
  <2>1. \A i, j \in 1..k : s[i] = s[j] => i = j
    BY DEF IsChain
  <2>2. s \in Injection(1..k, Nodes)
    BY <1>1, <2>1 DEF Injection, IsInjective
  <2>3. IsFiniteSet(1..k) /\ Cardinality(1..k) = k
    <3>1. 1 \in Int /\ k \in Int
      BY <1>1
    <3> HIDE DEF k
    <3>2. IsFiniteSet(1..k) /\ Cardinality(1..k) = IF 1 > k THEN 0 ELSE k - 1 + 1
      BY <3>1, FS_Interval
    <3> QED
      BY <1>1, <3>2
  <2> HIDE DEF k, c
  <2>4. Cardinality(1..k) <= Cardinality(Nodes)
    BY <2>2, FS_Injection, FreeListAssumption
  <2> QED
    BY <2>3, <2>4 DEF c
<1> HIDE DEF k, c
<1>5. Nth[c] = nullptr
  BY <1>1, <1>2, <1>3, <1>4
<1>6. ASSUME NEW n \in OnList PROVE n \in Range(s)
  <2>1. PICK j \in 0..c : n = Nth[j] /\ n # nullptr
    BY DEF OnList, c
  <2>2. j \in Nat
    BY <1>2
  <2>3. j < k /\ n = s[j + 1]
    BY <1>3, <2>1, <2>2
  <2>4. j + 1 \in 1..k
    BY <1>1, <2>2, <2>3
  <2> QED
    BY <1>1, <2>3, <2>4 DEF Range
<1>7. ASSUME NEW n \in Range(s) PROVE n \in OnList
  <2>1. PICK i \in 1..k : n = s[i]
    BY <1>1 DEF Range
  <2>2. i - 1 \in Nat /\ i - 1 < k /\ (i - 1) + 1 = i /\ i - 1 \in 0..c
    BY <1>1, <1>2, <1>4
  <2>3. n = Nth[i - 1]
    BY <1>3, <2>1, <2>2
  <2>4. n # nullptr
    BY <1>1, <2>1
  <2> QED
    BY <2>2, <2>3, <2>4 DEF OnList, c
<1> QED
  BY <1>5, <1>6, <1>7 DEF c

\* The assertion of try_get holds, every block is in one place, and none is lost,
\* however many threads take and give back however many blocks.
THEOREM ListCorrect == ListSpec => []ListInv
<1>1. ListIInv => ListInv
  <2> SUFFICES ASSUME ListIInv PROVE ListInv
    OBVIOUS
  <2>1. PICK s \in Seq(Nodes) : IsChain(s) /\ \A n \in Nodes : NodeOK(n, Range(s))
    BY DEF ListIInv
  <2>2. OnList = Range(s) /\ Nth[Cardinality(Nodes)] = nullptr
    BY <2>1, OnListIs
  <2>3. OnePlace
    <3>1. ASSUME NEW n \in Nodes
          PROVE  /\ n \in used => n \notin OnList
                 /\ Holders(n) # {} => n \notin used \cup OnList
                 /\ Cardinality(Holders(n)) <= 1
      <4>1. /\ n \in used => n \notin Range(s) /\ Holders(n) = {}
            /\ n \in Range(s) => Holders(n) = {}
            /\ \A t, u \in Holders(n) : t = u
        BY <2>1 DEF NodeOK
      <4>2. Cardinality(Holders(n)) <= 1
        <5>1. CASE Holders(n) = {}
          BY <5>1, FS_EmptySet
        <5>2. CASE Holders(n) # {}
          <6>1. PICK t \in Holders(n) : Holders(n) = {t}
            BY <4>1, <5>2
          <6>2. Cardinality({t}) = 1
            BY FS_Singleton
          <6> QED
            BY <6>1, <6>2
        <5> QED
          BY <5>1, <5>2
      <4> QED
        BY <2>2, <4>1, <4>2
    <3>2. used \subseteq Nodes
      BY DEF ListIInv, ListTypeOK
    <3> QED
      BY <2>2, <3>1, <3>2 DEF OnePlace
  <2>4. FlagClear
    <3> SUFFICES ASSUME NEW t \in Users, at[t] = "got" PROVE ~should[Node(t)]
      BY DEF FlagClear
    <3>1. at[t] \in HoldPoints /\ at[t] \notin PutPoints
      BY DEF HoldPoints, PutPoints
    <3>2. PICK m \in Nodes : m = mine[t].node
      BY <3>1 DEF ListIInv, ThreadOK, Node
    <3>3. ~should[m]
      BY <2>1, <3>1, <3>2, Held
    <3> QED
      BY <3>2, <3>3 DEF Node
  <2>5. NothingLost
    <3> SUFFICES ASSUME \A t \in Users : at[t] = "ready", NEW n \in Nodes
                 PROVE  /\ ~should[n]
                        /\ \/ n \in used /\ refs[n] = 0
                           \/ n \in OnList /\ refs[n] = 1
      BY DEF NothingLost
    <3>1. Holders(n) = {} /\ Referring(n) = {}
      BY DEF Holders, Referring, RefPoints
    <3>2. NodeOK(n, Range(s)) /\ ~Puts(n) /\ ~Counts(n) /\ Cardinality(Referring(n)) = 0
      BY <2>1, <3>1, FS_EmptySet DEF Puts, Counts
    <3>3. ~Orphan(n, Range(s))
      BY <3>1, <3>2 DEF NodeOK
    <3>4. ~should[n]
      BY <3>2, <3>3 DEF NodeOK
    <3>5. n \in used \/ n \in Range(s)
      BY <3>1, <3>3 DEF Orphan
    <3>6. refs[n] = 0 + (IF n \in Range(s) THEN 1 ELSE 0)
      BY <3>2 DEF NodeOK
    <3>7. n \in used => n \notin Range(s)
      BY <3>2 DEF NodeOK
    <3> QED
      BY <2>2, <3>4, <3>5, <3>6, <3>7
  <2> QED
    BY <2>3, <2>4, <2>5 DEF ListInv, ListIInv
<1> QED
  BY <1>1, ListInductive, PTL

-----------------------------------------------------------------------------
(***************************************************************************)
(* The tables of producers.  A thread that is counted sees, in newCount,   *)
(* at least as many threads as are counted with it: whoever counts last    *)
(* has counted all the others that have not given up.  It adds itself      *)
(* only to a table of which newCount is less than three quarters, so that  *)
(* a table is never full, whoever comes late.                              *)
(***************************************************************************)

HashPoints == {"out", "lazy", "count", "full", "resize", "clear", "create", "slot",
               "found", "failed", "crashed"}

\* The control points of one that is counted and has no producer yet.
JoinPoints == {"full", "resize", "clear", "create"}

\* The tables of n slots, for any n.
TableSet == UNION {[0..(n - 1) -> Threads \cup {None}] : n \in Nat \ {0}}

\* Less than this is the newCount of one that adds itself to table k.
Quota(k) == Capacity(k) \div 2 + Capacity(k) \div 4

\* Thread t is in table k.
InTable(k, t) == \E i \in DOMAIN tables[k] : tables[k][i] = t

Registered == {t \in Threads : \E i \in 1..Len(producers) : producers[i] = t}

\* The threads that count counts.
Numbered == Registered \cup {t \in Threads : hpc[t] \in JoinPoints}

HashTypeOK ==
  /\ tables \in Seq(TableSet) /\ Len(tables) >= 1
  /\ producers \in Seq(Threads)
  /\ main \in [Threads -> Nat]
  /\ newCount \in [Threads -> Nat]
  /\ hpc \in [Threads -> HashPoints]

\* A later table is no smaller.
TablesGrow == \A j, k \in 1..Len(tables) : j <= k => Capacity(j) <= Capacity(k)

\* Of any threads that are counted one has seen them all.
CountsSeen ==
  /\ count = Cardinality(Numbered)
  /\ \A S \in SUBSET Numbered : S # {} => \E t \in S : newCount[t] >= Cardinality(S)

\* A thread that is in a table is found there, once, has a producer, and was
\* allowed to add itself.
TableOK(k) ==
  /\ \A t \in Threads : InTable(k, t) =>
       Holds(k, t) /\ t \in Registered /\ newCount[t] < Quota(k)
  /\ \A i, j \in DOMAIN tables[k] :
       tables[k][i] = tables[k][j] /\ tables[k][i] # None => i = j

\* A thread that looks for its producer, or is to add itself to a table.
FinderOK(t) ==
  /\ hpc[t] # "out" => main[t] \in 1..Len(tables)
  /\ hpc[t] \in JoinPoints \cup {"count", "failed"} => t \notin Registered
  /\ hpc[t] \in {"create", "slot", "lazy"} => newCount[t] < Quota(main[t])
  /\ hpc[t] = "slot" => t \in Registered /\ \A k \in 1..Len(tables) : ~InTable(k, t)
  /\ hpc[t] = "lazy" => t \in Registered /\ ~InTable(main[t], t)
  /\ t \in Registered /\ hpc[t] \notin {"slot", "crashed"} =>
       \E k \in 1..Len(tables) : InTable(k, t)

\* A thread outside of enqueue's search is at none of its steps.
Outside ==
  /\ DOMAIN loc = Threads
  /\ \A t \in Threads : loc[t].pc # "e_find" => hpc[t] = "out"

HashIInv ==
  /\ HashTypeOK
  /\ OneProducerPerThread
  /\ TablesGrow
  /\ CountsSeen
  /\ \A k \in 1..Len(tables) : TableOK(k)
  /\ \A t \in Threads : FinderOK(t)
  /\ Outside

-----------------------------------------------------------------------------
(***************************************************************************)
(* Arithmetic.                                                             *)
(***************************************************************************)

\* Min is the least number of a set that is not empty.
LEMMA MinOf ==
  ASSUME NEW S \in SUBSET Nat, S # {}
  PROVE  Min(S) \in S /\ \A k \in S : Min(S) <= k
<1>1. \E x \in S : \A y \in S : x <= y
  <2>1. PICK x \in S : \A y \in S : ~(y < x)
    BY LeastNumber
  <2>2. \A y \in S : x <= y
    BY <2>1
  <2> QED
    BY <2>2
<1> QED
  BY <1>1, Zenon DEF Min

\* The sequences of doublings, up to the m-th.
Doublings(m) ==
  {f \in [0..m -> Nat] : f[0] = 1 /\ \A i \in 1..m : f[i] = 2 * f[i - 1]}

\* There is one for each m ...
LEMMA DoublingsExist ==
  ASSUME NEW m \in Nat
  PROVE  Doublings(m) # {}
<1> DEFINE T == {k \in Nat : Doublings(k) = {}}
<1> SUFFICES ASSUME T # {} PROVE FALSE
  OBVIOUS
<1>1. PICK k \in T : \A j \in T : ~(j < k)
  BY LeastNumber
<1>2. k # 0
  <2>1. [i \in 0..0 |-> 1] \in Doublings(0)
    BY DEF Doublings
  <2> QED
    BY <2>1
<1>3. k - 1 \in Nat /\ k - 1 \notin T
  BY <1>1, <1>2
<1>4. PICK f : f \in Doublings(k - 1)
  BY <1>3
<1> DEFINE g == [i \in 0..k |-> IF i = k THEN 2 * f[k - 1] ELSE f[i]]
<1>5. f \in [0..(k - 1) -> Nat] /\ f[0] = 1 /\ \A i \in 1..(k - 1) : f[i] = 2 * f[i - 1]
  BY <1>4 DEF Doublings
<1>6. g \in [0..k -> Nat] /\ g[0] = 1
  BY <1>2, <1>3, <1>5
<1>7. \A i \in 1..k : g[i] = 2 * g[i - 1]
  <2> SUFFICES ASSUME NEW i \in 1..k PROVE g[i] = 2 * g[i - 1]
    OBVIOUS
  <2>1. i \in 0..k /\ i - 1 \in 0..k /\ i - 1 # k
    OBVIOUS
  <2>2. g[i - 1] = f[i - 1]
    BY <2>1
  <2>3. CASE i = k
    BY <2>1, <2>2, <2>3
  <2>4. CASE i # k
    <3>1. i \in 1..(k - 1) /\ g[i] = f[i]
      BY <2>1, <2>4
    <3> QED
      BY <1>5, <2>2, <3>1
  <2> QED
    BY <2>3, <2>4
<1>8. g \in Doublings(k)
  BY <1>6, <1>7 DEF Doublings
<1> QED
  BY <1>1, <1>8

\* ... and they agree.
LEMMA DoublingsAgree ==
  ASSUME NEW m \in Nat, NEW n \in Nat, m <= n, NEW f \in Doublings(m), NEW g \in Doublings(n),
         NEW i \in 0..m
  PROVE  f[i] = g[i]
<1> DEFINE T == {j \in 0..m : f[j] # g[j]}
<1> SUFFICES ASSUME T # {} PROVE FALSE
  OBVIOUS
<1>1. PICK j \in T : \A k \in T : ~(k < j)
  <2>1. T \in SUBSET Nat
    OBVIOUS
  <2> HIDE DEF T
  <2> QED
    BY <2>1, LeastNumber
<1>2. /\ f[0] = 1 /\ \A k \in 1..m : f[k] = 2 * f[k - 1]
      /\ g[0] = 1 /\ \A k \in 1..n : g[k] = 2 * g[k - 1]
  BY DEF Doublings
<1>3. j \in 1..m /\ j \in 1..n /\ j - 1 \in 0..m /\ j - 1 \notin T
  BY <1>1, <1>2
<1> QED
  BY <1>1, <1>2, <1>3

\* Shift doubles.
LEMMA ShiftDoubles ==
  /\ Shift[0] = 1
  /\ \A i \in Nat : Shift[i + 1] = 2 * Shift[i]
  /\ \A i \in Nat : Shift[i] \in Nat
<1> DEFINE D(n) == CHOOSE f : f \in Doublings(n)
           g == [i \in Nat |-> D(i)[i]]
<1>1. \A n \in Nat : D(n) \in Doublings(n)
  BY DoublingsExist
<1> HIDE DEF D
<1>2. g[0] = 1 /\ \A i \in Nat : g[i] \in Nat
  <2>1. \A i \in Nat : D(i) \in [0..i -> Nat] /\ D(i)[0] = 1
    BY <1>1 DEF Doublings
  <2> QED
    BY <2>1
<1>3. \A i \in Nat \ {0} : g[i] = 2 * g[i - 1]
  <2> SUFFICES ASSUME NEW i \in Nat \ {0} PROVE g[i] = 2 * g[i - 1]
    OBVIOUS
  <2>1. i - 1 \in Nat /\ i - 1 <= i /\ i - 1 \in 0..(i - 1) /\ i \in 1..i
    OBVIOUS
  <2>2. D(i - 1)[i - 1] = D(i)[i - 1]
    BY <1>1, <2>1, DoublingsAgree
  <2>3. D(i)[i] = 2 * D(i)[i - 1]
    BY <1>1, <2>1 DEF Doublings
  <2> QED
    BY <2>1, <2>2, <2>3
<1>4. g = [i \in Nat |-> IF i = 0 THEN 1 ELSE 2 * g[i - 1]]
  <2> HIDE DEF D
  <2>1. \A i \in Nat : g[i] = IF i = 0 THEN 1 ELSE 2 * g[i - 1]
    BY <1>2, <1>3
  <2> QED
    BY <2>1
<1> HIDE DEF g
<1>5. \E f : f = [i \in Nat |-> IF i = 0 THEN 1 ELSE 2 * f[i - 1]]
  BY <1>4
<1>6. Shift = [i \in Nat |-> IF i = 0 THEN 1 ELSE 2 * Shift[i - 1]]
  BY <1>5, Zenon DEF Shift
<1>7. Shift[0] = 1 /\ \A i \in Nat \ {0} : Shift[i] = 2 * Shift[i - 1]
  BY <1>6
<1>8. \A i \in Nat : Shift[i + 1] = 2 * Shift[i]
  <2> SUFFICES ASSUME NEW i \in Nat PROVE Shift[i + 1] = 2 * Shift[i]
    OBVIOUS
  <2>1. i + 1 \in Nat \ {0} /\ (i + 1) - 1 = i
    OBVIOUS
  <2> QED
    BY <1>7, <2>1
<1>9. \A i \in Nat : Shift[i] \in Nat
  <2> DEFINE T == {i \in Nat : Shift[i] \notin Nat}
  <2> SUFFICES ASSUME T # {} PROVE FALSE
    OBVIOUS
  <2>1. PICK j \in T : \A k \in T : ~(k < j)
    BY LeastNumber
  <2>2. j - 1 \in Nat \ T /\ j \in Nat \ {0}
    BY <1>7, <2>1
  <2> QED
    BY <1>7, <2>1, <2>2
<1> QED
  BY <1>7, <1>8, <1>9

\* It exceeds its argument.
LEMMA ShiftExceeds ==
  ASSUME NEW n \in Nat
  PROVE  Shift[n] > n
<1> DEFINE T == {i \in Nat : ~(Shift[i] > i)}
<1> SUFFICES ASSUME T # {} PROVE FALSE
  OBVIOUS
<1>1. PICK j \in T : \A k \in T : ~(k < j)
  BY LeastNumber
<1>2. j # 0
  BY <1>1, ShiftDoubles
<1>3. PICK i \in Nat : j = i + 1 /\ i \notin T
  <2>1. j - 1 \in Nat /\ j = (j - 1) + 1 /\ j - 1 \notin T
    BY <1>1, <1>2
  <2> QED
    BY <2>1
<1>4. Shift[i] > i /\ Shift[i] \in Nat /\ Shift[j] = 2 * Shift[i]
  BY <1>3, ShiftDoubles
<1> QED
  BY <1>1, <1>3, <1>4

\* The table that is allocated is larger than the newest one.
LEMMA NewCapacityGrows ==
  ASSUME NEW cap \in Nat \ {0}, NEW n \in Nat
  PROVE  NewCapacity(cap, n) \in Nat \ {0} /\ NewCapacity(cap, n) >= cap
<1> DEFINE C == {c \in {cap * Shift[i] : i \in 1..(n + 1)} : n < c \div 2}
<1>1. \A i \in 1..(n + 1) : Shift[i] \in Nat /\ Shift[i] >= 1
  <2> SUFFICES ASSUME NEW i \in 1..(n + 1) PROVE Shift[i] \in Nat /\ Shift[i] >= 1
    OBVIOUS
  <2>1. Shift[i] \in Nat /\ Shift[i] > i
    BY ShiftDoubles, ShiftExceeds
  <2> QED
    BY <2>1
<1>2. \A i \in 1..(n + 1) : cap * Shift[i] \in Nat /\ cap * Shift[i] >= cap
  <2> SUFFICES ASSUME NEW i \in 1..(n + 1) PROVE cap * Shift[i] \in Nat /\ cap * Shift[i] >= cap
    OBVIOUS
  <2>1. PICK e \in Nat : Shift[i] = e + 1
    <3>1. Shift[i] - 1 \in Nat /\ Shift[i] = (Shift[i] - 1) + 1
      BY <1>1
    <3> QED
      BY <3>1
  <2>2. cap * Shift[i] = cap * e + cap /\ cap * e \in Nat
    BY <2>1
  <2> QED
    BY <2>2
<1>3. C \in SUBSET Nat /\ \A c \in C : c >= cap
  BY <1>2
<1>4. cap * Shift[n + 1] \in C
  <2>1. Shift[n] \in Nat /\ Shift[n] > n /\ Shift[n + 1] = 2 * Shift[n]
    BY ShiftDoubles, ShiftExceeds
  <2>2. PICK e \in Nat : e = cap * Shift[n]
    BY <2>1
  <2>3. e >= Shift[n]
    <3>1. PICK d \in Nat : cap = d + 1
      <4>1. cap - 1 \in Nat /\ cap = (cap - 1) + 1
        OBVIOUS
      <4> QED
        BY <4>1
    <3>2. PICK s \in Nat : s = Shift[n]
      BY <2>1
    <3>3. e = d * s + s /\ d * s \in Nat
      BY <2>2, <3>1, <3>2
    <3>4. e >= s
      BY <3>3
    <3> QED
      BY <3>2, <3>4
  <2>4. cap * Shift[n + 1] = 2 * e
    BY <2>1, <2>2
  <2>5. (2 * e) \div 2 = e
    OBVIOUS
  <2>6. n < (cap * Shift[n + 1]) \div 2
    BY <2>1, <2>3, <2>4, <2>5
  <2>7. n + 1 \in 1..(n + 1)
    OBVIOUS
  <2> QED
    BY <2>6, <2>7
<1> HIDE DEF C
<1>5. Min(C) \in C
  BY <1>3, <1>4, MinOf
<1>6. NewCapacity(cap, n) = Min(C)
  BY DEF NewCapacity, C
<1>7. Min(C) \in Nat /\ Min(C) >= cap
  BY <1>3, <1>5
<1>8. \A x : x \in Nat /\ x >= cap => x \in Nat \ {0}
  OBVIOUS
<1> QED
  BY <1>6, <1>7, <1>8

-----------------------------------------------------------------------------
(***************************************************************************)
(* What a table and the probes into it are.                                *)
(***************************************************************************)

\* A table is a function on its slots, which are numbered from 0.
LEMMA TableFacts ==
  ASSUME HashTypeOK, NEW k \in 1..Len(tables)
  PROVE  /\ Capacity(k) \in Nat \ {0}
         /\ DOMAIN tables[k] = 0..(Capacity(k) - 1)
         /\ tables[k] \in [0..(Capacity(k) - 1) -> Threads \cup {None}]
<1>1. tables[k] \in TableSet
  BY DEF HashTypeOK
<1>2. PICK n \in Nat \ {0} : tables[k] \in [0..(n - 1) -> Threads \cup {None}]
  BY <1>1 DEF TableSet
<1>3. DOMAIN tables[k] = 0..(n - 1)
  BY <1>2
<1>4. Cardinality(0..(n - 1)) = n
  <2>1. Cardinality(0..(n - 1)) = IF 0 > n - 1 THEN 0 ELSE (n - 1) - 0 + 1
    BY FS_Interval
  <2> QED
    BY <2>1
<1>5. Capacity(k) = n
  BY <1>3, <1>4 DEF Capacity
<1> QED
  BY <1>2, <1>3, <1>5

\* A probe looks at a slot of the table.
LEMMA ProbeFacts ==
  ASSUME HashTypeOK, NEW k \in 1..Len(tables), NEW t \in Threads, NEW d \in Nat
  PROVE  (HashOf[t] + d) % Capacity(k) \in DOMAIN tables[k]
<1>1. Capacity(k) \in Nat \ {0} /\ DOMAIN tables[k] = 0..(Capacity(k) - 1)
  BY TableFacts
<1>2. HashOf[t] + d \in Nat
  BY HashAssumption
<1>3. \A x \in Nat, c \in Nat \ {0} : x % c \in 0..(c - 1)
  OBVIOUS
<1> QED
  BY <1>1, <1>2, <1>3

\* A thread that is found in a table is there.
LEMMA HeldIsIn ==
  ASSUME HashTypeOK, NEW k \in 1..Len(tables), NEW t \in Threads, Holds(k, t)
  PROVE  InTable(k, t)
<1>1. PICK d \in 0..(Capacity(k) - 1) : Probe(k, t, d) = t
  BY DEF Holds
<1>2. d \in Nat
  BY <1>1, TableFacts
<1>3. (HashOf[t] + d) % Capacity(k) \in DOMAIN tables[k]
  BY <1>2, ProbeFacts
<1> QED
  BY <1>1, <1>3 DEF Probe, InTable

\* What a step that leaves the tables alone leaves alone.
LEMMA SameTables ==
  ASSUME tables' = tables
  PROVE  \A k : /\ Capacity(k)' = Capacity(k) /\ Quota(k)' = Quota(k)
                /\ \A t : (InTable(k, t)' <=> InTable(k, t)) /\ (Holds(k, t)' <=> Holds(k, t))
<1>1. \A k : Capacity(k)' = Capacity(k) /\ Quota(k)' = Quota(k)
  BY DEF Capacity, Quota
<1>2. \A k, t : InTable(k, t)' <=> InTable(k, t)
  BY DEF InTable
<1>3. \A k, t, d : Probe(k, t, d)' = Probe(k, t, d)
  BY DEF Probe, Capacity
<1>4. \A k, t : Holds(k, t)' <=> Holds(k, t)
  BY <1>1, <1>3 DEF Holds
<1> QED
  BY <1>1, <1>2, <1>4

\* Claiming a slot: the first free one that t probes becomes its own, and it
\* will be found there; the others stay as they are.
LEMMA InsertFacts ==
  ASSUME HashTypeOK, NEW k \in 1..Len(tables), NEW t \in Threads, Insert(k, t)
  PROVE  \E i \in DOMAIN tables[k] :
           /\ tables[k][i] = None
           /\ tables' = [tables EXCEPT ![k][i] = t]
           /\ \E d \in 0..(Capacity(k) - 1) :
                /\ (HashOf[t] + d) % Capacity(k) = i
                /\ \A e \in 0..(d - 1) : Probe(k, t, e) # None
<1> DEFINE F == {d \in 0..(Capacity(k) - 1) : Probe(k, t, d) = None}
           m == Min(F)
<1>1. F # {} /\ tables' = [tables EXCEPT ![k][(HashOf[t] + m) % Capacity(k)] = t]
  BY DEF Insert
<1>2. Capacity(k) \in Nat \ {0}
  BY TableFacts
<1>3. F \in SUBSET Nat
  BY <1>2
<1> HIDE DEF F
<1>4. m \in F /\ \A d \in F : m <= d
  BY <1>1, <1>3, MinOf
<1> HIDE DEF m
<1>5. m \in 0..(Capacity(k) - 1) /\ m \in Nat /\ Probe(k, t, m) = None
  BY <1>2, <1>4 DEF F
<1>6. \A e \in 0..(m - 1) : Probe(k, t, e) # None
  BY <1>2, <1>4, <1>5 DEF F
<1>7. PICK i \in DOMAIN tables[k] : i = (HashOf[t] + m) % Capacity(k)
  BY <1>5, ProbeFacts
<1>8. tables[k][i] = None
  BY <1>5, <1>7 DEF Probe
<1>9. tables' = [tables EXCEPT ![k][i] = t]
  BY <1>1, <1>7
<1> QED
  BY <1>5, <1>6, <1>7, <1>8, <1>9

\* The tables after a slot was claimed.
LEMMA InsertedFacts ==
  ASSUME HashTypeOK, NEW k \in 1..Len(tables), NEW t \in Threads, Insert(k, t)
  PROVE  /\ tables' \in Seq(TableSet) /\ Len(tables') = Len(tables)
         /\ \A j \in 1..Len(tables) : Capacity(j)' = Capacity(j) /\ Quota(j)' = Quota(j)
         /\ \A j \in 1..Len(tables), u \in Threads :
              /\ InTable(j, u)' <=> InTable(j, u) \/ (j = k /\ u = t)
              /\ Holds(j, u) => Holds(j, u)'
         /\ Holds(k, t)'
         /\ \E i \in DOMAIN tables[k] :
              tables[k][i] = None /\ tables' = [tables EXCEPT ![k][i] = t]
<1>1. PICK i \in DOMAIN tables[k] :
         /\ tables[k][i] = None
         /\ tables' = [tables EXCEPT ![k][i] = t]
         /\ \E d \in 0..(Capacity(k) - 1) :
              /\ (HashOf[t] + d) % Capacity(k) = i
              /\ \A e \in 0..(d - 1) : Probe(k, t, e) # None
  BY InsertFacts
<1>2. tables \in Seq(TableSet)
  BY DEF HashTypeOK
<1>3. tables[k] \in [0..(Capacity(k) - 1) -> Threads \cup {None}] /\ Capacity(k) \in Nat \ {0}
  BY TableFacts
<1> DEFINE b == [tables[k] EXCEPT ![i] = t]
<1>4. b \in [0..(Capacity(k) - 1) -> Threads \cup {None}] /\ b \in TableSet
  BY <1>3 DEF TableSet
<1>5. /\ tables' \in Seq(TableSet) /\ Len(tables') = Len(tables)
      /\ tables'[k] = b /\ \A j \in 1..Len(tables) : j # k => tables'[j] = tables[j]
  BY <1>1, <1>2, <1>4
<1>6. \A j \in 1..Len(tables) : DOMAIN tables'[j] = DOMAIN tables[j]
  BY <1>3, <1>4, <1>5
<1>7. \A j \in 1..Len(tables) : Capacity(j)' = Capacity(j) /\ Quota(j)' = Quota(j)
  BY <1>6 DEF Capacity, Quota
<1>8. \A j \in 1..Len(tables) : \A x \in DOMAIN tables[j] :
        tables'[j][x] = IF j = k /\ x = i THEN t ELSE tables[j][x]
  BY <1>3, <1>5
<1> HIDE DEF b
<1>9. \A j \in 1..Len(tables), u \in Threads : InTable(j, u)' <=> InTable(j, u) \/ (j = k /\ u = t)
  <2> SUFFICES ASSUME NEW j \in 1..Len(tables), NEW u \in Threads
               PROVE  InTable(j, u)' <=> InTable(j, u) \/ (j = k /\ u = t)
    OBVIOUS
  <2>1. InTable(j, u)' <=> \E x \in DOMAIN tables'[j] : tables'[j][x] = u
    BY DEF InTable
  <2>2. InTable(j, u) <=> \E x \in DOMAIN tables[j] : tables[j][x] = u
    BY DEF InTable
  <2>3. u # None
    BY HashAssumption
  <2>4. i \in DOMAIN tables[k]
    OBVIOUS
  <2> QED
    BY <1>1, <1>6, <1>8, <2>1, <2>2, <2>3, <2>4
<1>10. \A j \in 1..Len(tables), u \in Threads, d \in Nat :
         /\ Probe(j, u, d) # None => Probe(j, u, d)' = Probe(j, u, d)
         /\ (j = k /\ (HashOf[u] + d) % Capacity(j) = i) => Probe(j, u, d)' = t
  <2> SUFFICES ASSUME NEW j \in 1..Len(tables), NEW u \in Threads, NEW d \in Nat
               PROVE  /\ Probe(j, u, d) # None => Probe(j, u, d)' = Probe(j, u, d)
                      /\ (j = k /\ (HashOf[u] + d) % Capacity(j) = i) => Probe(j, u, d)' = t
    OBVIOUS
  <2>1. PICK x \in DOMAIN tables[j] : x = (HashOf[u] + d) % Capacity(j)
    BY ProbeFacts
  <2>2. Probe(j, u, d) = tables[j][x] /\ Probe(j, u, d)' = tables'[j][x]
    BY <1>7, <2>1 DEF Probe
  <2> QED
    BY <1>1, <1>8, <2>1, <2>2
<1>11. \A j \in 1..Len(tables) : 0..(Capacity(j) - 1) \subseteq Nat
  BY TableFacts
<1>12. \A j \in 1..Len(tables), u \in Threads : Holds(j, u) => Holds(j, u)'
  <2> SUFFICES ASSUME NEW j \in 1..Len(tables), NEW u \in Threads, Holds(j, u)
               PROVE  Holds(j, u)'
    OBVIOUS
  <2>1. PICK d \in 0..(Capacity(j) - 1) :
           Probe(j, u, d) = u /\ \A e \in 0..(d - 1) : Probe(j, u, e) # None
    BY DEF Holds
  <2>2. u # None /\ d \in Nat /\ \A e \in 0..(d - 1) : e \in Nat
    BY <1>11, HashAssumption
  <2>3. Probe(j, u, d)' = u /\ \A e \in 0..(d - 1) : Probe(j, u, e)' # None
    BY <1>10, <2>1, <2>2
  <2>4. d \in 0..(Capacity(j)' - 1)
    BY <1>7
  <2> QED
    BY <2>3, <2>4 DEF Holds
<1>13. Holds(k, t)'
  <2>1. PICK d \in 0..(Capacity(k) - 1) :
           (HashOf[t] + d) % Capacity(k) = i /\ \A e \in 0..(d - 1) : Probe(k, t, e) # None
    BY <1>1
  <2>2. d \in Nat /\ \A e \in 0..(d - 1) : e \in Nat
    BY <1>11
  <2>3. Probe(k, t, d)' = t /\ \A e \in 0..(d - 1) : Probe(k, t, e)' # None
    BY <1>10, <2>1, <2>2
  <2>4. d \in 0..(Capacity(k)' - 1)
    BY <1>7
  <2> QED
    BY <2>3, <2>4 DEF Holds
<1> QED
  BY <1>1, <1>5, <1>7, <1>9, <1>12, <1>13

-----------------------------------------------------------------------------
(***************************************************************************)
(* The invariant says that the tables lead to the producers.               *)
(***************************************************************************)

\* No table is full: the threads in it would all have been counted, and one of
\* them would have seen as many as there are slots.
LEMMA RoomLeft ==
  ASSUME HashIInv, NEW k \in 1..Len(tables)
  PROVE  \E i \in DOMAIN tables[k] : tables[k][i] = None
<1> SUFFICES ASSUME \A i \in DOMAIN tables[k] : tables[k][i] # None
             PROVE  FALSE
  OBVIOUS
<1>1. HashTypeOK /\ CountsSeen /\ TableOK(k)
  BY DEF HashIInv
<1>2. PICK c \in Nat \ {0} :
         /\ c = Capacity(k) /\ DOMAIN tables[k] = 0..(c - 1)
         /\ tables[k] \in [0..(c - 1) -> Threads \cup {None}]
  BY <1>1, TableFacts
<1> DEFINE f == tables[k]
           D == 0..(c - 1)
           K == {u \in Threads : InTable(k, u)}
<1>3. f \in Surjection(D, K)
  <2>1. \A i \in D : f[i] \in Threads
    BY <1>2
  <2>2. f \in [D -> K]
    BY <1>2, <2>1 DEF InTable
  <2>3. \A u \in K : \E i \in D : f[i] = u
    BY <1>2 DEF InTable
  <2> QED
    BY <2>2, <2>3 DEF Surjection
<1>4. f \in Injection(D, K)
  <2>1. f \in [D -> K]
    BY <1>3 DEF Surjection
  <2>2. \A i, j \in D : f[i] = f[j] => i = j
    BY <1>1, <1>2 DEF TableOK
  <2> QED
    BY <2>1, <2>2 DEF Injection, IsInjective
<1>5. IsFiniteSet(D) /\ Cardinality(D) = c
  <2>1. IsFiniteSet(D) /\ Cardinality(D) = IF 0 > c - 1 THEN 0 ELSE (c - 1) - 0 + 1
    BY FS_Interval
  <2> QED
    BY <2>1
<1>6. IsFiniteSet(K) /\ Cardinality(K) = c
  BY <1>3, <1>4, <1>5, FS_Surjection
<1>7. K \subseteq Numbered
  BY <1>1 DEF TableOK, Numbered
<1>8. K # {}
  <2>1. 0 \in D /\ f[0] \in K
    BY <1>2, <1>3 DEF Surjection
  <2> QED
    BY <2>1
<1>9. PICK t \in K : newCount[t] >= c
  BY <1>1, <1>6, <1>7, <1>8 DEF CountsSeen
<1>10. newCount[t] < Quota(k) /\ newCount[t] \in Nat
  BY <1>1, <1>9 DEF TableOK, HashTypeOK
<1>11. Quota(k) <= c
  <2>1. Quota(k) = c \div 2 + c \div 4
    BY <1>2 DEF Quota
  <2> QED
    BY <2>1
<1>12. Quota(k) \in Nat
  BY <1>2 DEF Quota
<1> QED
  BY <1>9, <1>10, <1>11, <1>12

LEMMA HashImplies ==
  HashIInv => TablesInv
<1> SUFFICES ASSUME HashIInv PROVE TablesInv
  OBVIOUS
<1>1. OneProducerPerThread
  BY DEF HashIInv
<1>2. TablesHaveRoom
  BY RoomLeft DEF TablesHaveRoom
<1> QED
  BY <1>1, <1>2 DEF TablesInv

-----------------------------------------------------------------------------
(***************************************************************************)
(* What steps keep.                                                        *)
(***************************************************************************)

\* Of a thread that does not move, whose tables only become more, and are still
\* the same to it.
LEMMA FinderKept ==
  ASSUME HashTypeOK, NEW u \in Threads, FinderOK(u),
         hpc'[u] = hpc[u], main'[u] = main[u], newCount'[u] = newCount[u],
         u \in Registered' <=> u \in Registered,
         Len(tables') \in Nat, Len(tables') >= Len(tables),
         \A k \in 1..Len(tables) :
           Quota(k)' = Quota(k) /\ (InTable(k, u)' <=> InTable(k, u)),
         \A k \in 1..Len(tables') : k > Len(tables) => ~InTable(k, u)'
  PROVE  FinderOK(u)'
<1>1. Len(tables) \in Nat
  BY DEF HashTypeOK
<1>2. 1..Len(tables) \subseteq 1..Len(tables')
  BY <1>1
<1>3. \A k \in 1..Len(tables') : k \in 1..Len(tables) \/ k > Len(tables)
  BY <1>1
<1>4. (hpc[u] # "out" => main[u] \in 1..Len(tables))'
  BY <1>2 DEF FinderOK
<1>5. (hpc[u] \in JoinPoints \cup {"count", "failed"} => u \notin Registered)'
  BY DEF FinderOK
<1>6. (hpc[u] \in {"create", "slot", "lazy"} => newCount[u] < Quota(main[u]))'
  <2> SUFFICES ASSUME hpc[u] \in {"create", "slot", "lazy"}
               PROVE  (newCount[u] < Quota(main[u]))'
    OBVIOUS
  <2>1. main[u] \in 1..Len(tables) /\ newCount[u] < Quota(main[u])
    BY DEF FinderOK
  <2>2. Quota(main[u])' = Quota(main[u])
    <3>1. PICK k \in 1..Len(tables) : k = main[u]
      BY <2>1
    <3>2. Quota(main[u])' = Quota(k)'
      BY <3>1 DEF Quota, Capacity
    <3> QED
      BY <3>1, <3>2
  <2> QED
    BY <2>1, <2>2
<1>7. (hpc[u] = "slot" => u \in Registered /\ \A k \in 1..Len(tables) : ~InTable(k, u))'
  BY <1>3 DEF FinderOK
<1>8. (hpc[u] = "lazy" => u \in Registered /\ ~InTable(main[u], u))'
  <2> SUFFICES ASSUME hpc[u] = "lazy"
               PROVE  u \in Registered' /\ ~InTable(main[u], u)'
    OBVIOUS
  <2>1. main[u] \in 1..Len(tables) /\ u \in Registered /\ ~InTable(main[u], u)
    BY DEF FinderOK
  <2>2. PICK k \in 1..Len(tables) : k = main[u]
    BY <2>1
  <2>3. InTable(main[u], u)' <=> InTable(k, u)'
    BY <2>2 DEF InTable
  <2> QED
    BY <2>1, <2>2, <2>3
<1>9. (u \in Registered /\ hpc[u] \notin {"slot", "crashed"} =>
         \E k \in 1..Len(tables) : InTable(k, u))'
  BY <1>2 DEF FinderOK
<1> QED
  BY <1>4, <1>5, <1>6, <1>7, <1>8, <1>9 DEF FinderOK

\* The threads that have a producer, as a set.
LEMMA RegisteredFacts ==
  ASSUME HashTypeOK
  PROVE  /\ Registered \subseteq Threads /\ Numbered \subseteq Threads
         /\ IsFiniteSet(Numbered)
         /\ Registered \subseteq Numbered
<1>1. Registered \subseteq Threads /\ Numbered \subseteq Threads /\ Registered \subseteq Numbered
  BY DEF Registered, Numbered
<1> QED
  BY <1>1, FS_Subset, HashAssumption

\* Nobody is counted or loses its count, and none that is counted counts again.
LEMMA CountsKept ==
  ASSUME HashTypeOK, CountsSeen, count' = count, Numbered' = Numbered, newCount' = newCount
  PROVE  CountsSeen'
BY DEF CountsSeen

\* A table that is not changed, while others get producers or are counted.
LEMMA TableKept ==
  ASSUME HashTypeOK, NEW k \in 1..Len(tables), TableOK(k), tables'[k] = tables[k],
         Registered \subseteq Registered',
         \A u \in Registered : newCount'[u] = newCount[u]
  PROVE  TableOK(k)'
<1>1. /\ Capacity(k)' = Capacity(k) /\ Quota(k)' = Quota(k)
  BY DEF Capacity, Quota
<1>2. \A u : InTable(k, u)' <=> InTable(k, u)
  BY DEF InTable
<1>3. \A u, d : Probe(k, u, d)' = Probe(k, u, d)
  BY <1>1 DEF Probe
<1>4. \A u : Holds(k, u)' <=> Holds(k, u)
  BY <1>1, <1>3 DEF Holds
<1>5. \A u \in Threads : InTable(k, u)' =>
        Holds(k, u)' /\ u \in Registered' /\ newCount'[u] < Quota(k)'
  BY <1>1, <1>2, <1>4 DEF TableOK
<1>6. \A i, j \in DOMAIN tables'[k] :
        tables'[k][i] = tables'[k][j] /\ tables'[k][i] # None => i = j
  BY DEF TableOK
<1> QED
  BY <1>5, <1>6 DEF TableOK

\* A step of one thread that changes neither the tables nor the producers, and
\* nobody's newCount.
LEMMA QuietStep ==
  ASSUME HashIInv, NEW t \in Threads,
         tables' = tables, producers' = producers, newCount' = newCount,
         main' \in [Threads -> Nat], hpc' \in [Threads -> HashPoints],
         \A u \in Threads : u # t => main'[u] = main[u] /\ hpc'[u] = hpc[u],
         CountsSeen', FinderOK(t)', Outside'
  PROVE  HashIInv'
<1>1. HashTypeOK /\ HashTypeOK'
  BY DEF HashIInv, HashTypeOK
<1>2. Registered' = Registered
  BY DEF Registered
<1>3. OneProducerPerThread'
  BY DEF HashIInv, OneProducerPerThread
<1>4. TablesGrow'
  BY DEF HashIInv, TablesGrow, Capacity
<1>5. \A k \in 1..Len(tables') : TableOK(k)'
  BY <1>1, <1>2, TableKept DEF HashIInv
<1>6. \A u \in Threads : FinderOK(u)'
  <2> SUFFICES ASSUME NEW u \in Threads, u # t PROVE FinderOK(u)'
    OBVIOUS
  <2>1. Len(tables') \in Nat /\ Len(tables') >= Len(tables)
    BY <1>1 DEF HashTypeOK
  <2>2. \A k \in 1..Len(tables) :
          Quota(k)' = Quota(k) /\ (InTable(k, u)' <=> InTable(k, u))
    BY SameTables
  <2>3. \A k \in 1..Len(tables') : k > Len(tables) => ~InTable(k, u)'
    BY <2>1
  <2>4. FinderOK(u)
    BY DEF HashIInv
  <2> QED
    BY <1>1, <1>2, <2>1, <2>2, <2>3, <2>4, FinderKept
<1> QED
  BY <1>1, <1>3, <1>4, <1>5, <1>6 DEF HashIInv

\* Half of a larger table, and three quarters of it, are no less.
LEMMA QuotaGrows ==
  ASSUME HashTypeOK, TablesGrow, NEW j \in 1..Len(tables), NEW k \in 1..Len(tables), j <= k
  PROVE  Quota(j) \in Nat /\ Quota(k) \in Nat /\ Quota(j) <= Quota(k)
<1>1. PICK c \in Nat, d \in Nat : c = Capacity(j) /\ d = Capacity(k) /\ c <= d
  BY TableFacts DEF TablesGrow
<1>2. Quota(j) = c \div 2 + c \div 4 /\ Quota(k) = d \div 2 + d \div 4
  BY <1>1 DEF Quota
<1>3. c \div 2 <= d \div 2 /\ c \div 4 <= d \div 4
  <2>1. \A x, y \in Nat : x <= y => x \div 2 <= y \div 2
    OBVIOUS
  <2>2. \A x, y \in Nat : x <= y => x \div 4 <= y \div 4
    OBVIOUS
  <2> QED
    BY <1>1, <2>1, <2>2
<1>4. c \div 2 \in Nat /\ d \div 2 \in Nat /\ c \div 4 \in Nat /\ d \div 4 \in Nat
  BY <1>1
<1> QED
  BY <1>2, <1>3, <1>4

-----------------------------------------------------------------------------
(***************************************************************************)
(* The steps.                                                              *)
(***************************************************************************)

\* A thread that has a producer finds it, and one that is sent to the newest
\* table is not in it.
LEMMA LookupStep ==
  ASSUME HashIInv, NEW t \in Threads, hpc[t] = "out", Lookup(t), Outside'
  PROVE  HashIInv'
<1> DEFINE top == Len(tables)
           hits == {k \in 1..top : Holds(k, t)}
           to == CASE hits = {} -> "count"
                   [] top \in hits -> "found"
                   [] OTHER -> "lazy"
<1>1. /\ main' = [main EXCEPT ![t] = top]
      /\ hpc' = [hpc EXCEPT ![t] = to]
      /\ UNCHANGED <<tables, count, producers, newCount>>
  BY DEF Lookup, HMove
<1>2. HashTypeOK /\ CountsSeen /\ TablesGrow /\ FinderOK(t) /\ \A k \in 1..Len(tables) : TableOK(k)
  BY DEF HashIInv
<1>3. top \in Nat /\ top >= 1 /\ top \in 1..Len(tables)
  BY <1>2 DEF HashTypeOK
<1>4. to \in {"count", "found", "lazy"}
  OBVIOUS
<1>5. /\ to = "count" => hits = {}
      /\ to = "lazy" => hits # {} /\ top \notin hits
      /\ to = "found" => top \in hits
  OBVIOUS
<1> HIDE DEF to
<1>6. \A k \in 1..top : InTable(k, t) <=> k \in hits
  BY <1>2, HeldIsIn DEF TableOK
<1>7. t \in Registered <=> hits # {}
  <2>1. ASSUME t \in Registered PROVE hits # {}
    BY <1>2, <1>6, <2>1 DEF FinderOK
  <2>2. ASSUME NEW k \in hits PROVE t \in Registered
    BY <1>2, <1>6 DEF TableOK
  <2> QED
    BY <2>1, <2>2
<1>8. hits # {} => newCount[t] < Quota(top)
  <2> SUFFICES ASSUME NEW k \in hits PROVE newCount[t] < Quota(top)
    OBVIOUS
  <2>1. k \in 1..Len(tables) /\ newCount[t] < Quota(k) /\ newCount[t] \in Nat
    BY <1>2, <1>6 DEF TableOK, HashTypeOK
  <2>2. Quota(k) \in Nat /\ Quota(top) \in Nat /\ Quota(k) <= Quota(top)
    BY <1>2, <1>3, <2>1, QuotaGrows
  <2> QED
    BY <2>1, <2>2
<1> HIDE DEF hits
<1>9. main' \in [Threads -> Nat] /\ hpc' \in [Threads -> HashPoints]
  BY <1>1, <1>2, <1>3, <1>4 DEF HashTypeOK, HashPoints
<1>10. main'[t] = top /\ hpc'[t] = to
       /\ \A u \in Threads : u # t => main'[u] = main[u] /\ hpc'[u] = hpc[u]
  BY <1>1, <1>2 DEF HashTypeOK
<1>11. Registered' = Registered
  BY <1>1 DEF Registered
<1>12. Numbered' = Numbered
  BY <1>4, <1>10, <1>11 DEF Numbered, JoinPoints
<1>13. CountsSeen'
  BY <1>1, <1>2, <1>12, CountsKept
<1>14. FinderOK(t)'
  <2>1. Quota(main[t])' = Quota(top) /\ (InTable(main[t], t)' <=> InTable(top, t))
    BY <1>1, <1>10 DEF Quota, Capacity, InTable
  <2>2. \A k : InTable(k, t)' <=> InTable(k, t)
    BY <1>1 DEF InTable
  <2>3. Len(tables') = top /\ newCount'[t] = newCount[t]
    BY <1>1
  <2>4. hits # {} => \E k \in 1..Len(tables') : InTable(k, t)'
    BY <1>6, <2>2, <2>3 DEF hits
  <2>5. (hpc[t] = "lazy" => t \in Registered /\ ~InTable(main[t], t))'
    BY <1>3, <1>5, <1>6, <1>7, <1>10, <1>11, <2>1
  <2>6. (hpc[t] \in {"create", "slot", "lazy"} => newCount[t] < Quota(main[t]))'
    BY <1>4, <1>5, <1>8, <1>10, <2>1, <2>3
  <2>7. (hpc[t] \in JoinPoints \cup {"count", "failed"} => t \notin Registered)'
    BY <1>4, <1>5, <1>7, <1>10, <1>11 DEF JoinPoints
  <2>8. hpc'[t] # "slot"
    BY <1>4, <1>10
  <2>9. (t \in Registered /\ hpc[t] \notin {"slot", "crashed"} =>
           \E k \in 1..Len(tables) : InTable(k, t))'
    BY <1>7, <1>11, <2>4
  <2> QED
    BY <1>3, <1>10, <2>3, <2>5, <2>6, <2>7, <2>8, <2>9 DEF FinderOK
<1> QED
  BY <1>1, <1>9, <1>10, <1>13, <1>14, QuietStep

\* A thread that is counted goes on, with the same table or another one, of
\* which it will use three quarters at most.
LEMMA JoinerMoves ==
  ASSUME HashIInv, NEW t \in Threads, hpc[t] \in JoinPoints,
         NEW l \in JoinPoints, NEW m \in 1..Len(tables),
         hpc' = [hpc EXCEPT ![t] = l], main' = [main EXCEPT ![t] = m],
         l = "create" => newCount[t] < Quota(m),
         tables' = tables, count' = count, producers' = producers, newCount' = newCount,
         Outside'
  PROVE  HashIInv'
<1>1. HashTypeOK /\ CountsSeen /\ FinderOK(t)
  BY DEF HashIInv
<1>2. Len(tables) \in Nat
  BY <1>1 DEF HashTypeOK
<1>3. main' \in [Threads -> Nat] /\ hpc' \in [Threads -> HashPoints]
  BY <1>1, <1>2 DEF HashTypeOK, HashPoints, JoinPoints
<1>4. main'[t] = m /\ hpc'[t] = l
      /\ \A u \in Threads : u # t => main'[u] = main[u] /\ hpc'[u] = hpc[u]
  BY <1>1 DEF HashTypeOK
<1>5. Registered' = Registered
  BY DEF Registered
<1>6. Numbered' = Numbered
  BY <1>4, <1>5 DEF Numbered
<1>7. CountsSeen'
  BY <1>1, <1>6, CountsKept
<1>8. FinderOK(t)'
  <2>1. t \notin Registered'
    BY <1>1, <1>5 DEF FinderOK
  <2>2. Quota(main[t])' = Quota(m)
    BY <1>4 DEF Quota, Capacity
  <2>3. l \in {"full", "resize", "clear", "create"}
    BY DEF JoinPoints
  <2> QED
    BY <1>4, <2>1, <2>2, <2>3 DEF FinderOK
<1> QED
  BY <1>3, <1>4, <1>7, <1>8, QuietStep

\* Either it is to add itself to its table or it comes back with the newest.
LEMMA GoOnStep ==
  ASSUME HashIInv, NEW t \in Threads, hpc[t] \in JoinPoints, GoOn(t, main[t]),
         tables' = tables, count' = count, producers' = producers, newCount' = newCount,
         Outside'
  PROVE  HashIInv'
<1>1. HashTypeOK /\ FinderOK(t)
  BY DEF HashIInv
<1>2. main[t] \in 1..Len(tables) /\ Len(tables) \in 1..Len(tables)
  BY <1>1 DEF FinderOK, HashTypeOK, JoinPoints
<1>3. CASE newCount[t] < Quota(main[t])
  <2>1. hpc' = [hpc EXCEPT ![t] = "create"] /\ main' = main
    BY <1>3 DEF GoOn, Quota, HMove
  <2>2. main' = [main EXCEPT ![t] = main[t]]
    BY <1>1, <2>1 DEF HashTypeOK
  <2>3. "create" \in JoinPoints
    BY DEF JoinPoints
  <2> QED
    BY <1>2, <1>3, <2>1, <2>2, <2>3, JoinerMoves
<1>4. CASE ~(newCount[t] < Quota(main[t]))
  <2>1. hpc' = [hpc EXCEPT ![t] = "full"] /\ main' = [main EXCEPT ![t] = Len(tables)]
    BY <1>4 DEF GoOn, Quota, HMove
  <2>2. "full" \in JoinPoints /\ "full" # "create"
    BY DEF JoinPoints
  <2> QED
    BY <1>2, <2>1, <2>2, JoinerMoves
<1> QED
  BY <1>3, <1>4

LEMMA FullStep ==
  ASSUME HashIInv, NEW t \in Threads, Full(t), Outside'
  PROVE  HashIInv'
<1>1. /\ hpc[t] = "full" /\ hpc[t] \in JoinPoints
      /\ tables' = tables /\ count' = count /\ producers' = producers /\ newCount' = newCount
      /\ \/ GoOn(t, main[t])
         \/ HMove(t, "resize") /\ UNCHANGED main
  BY DEF Full, JoinPoints
<1>2. CASE GoOn(t, main[t])
  BY <1>1, <1>2, GoOnStep
<1>3. CASE HMove(t, "resize") /\ UNCHANGED main
  <2>1. HashTypeOK /\ FinderOK(t)
    BY DEF HashIInv
  <2>2. main[t] \in 1..Len(tables) /\ main' = [main EXCEPT ![t] = main[t]]
    BY <1>1, <1>3, <2>1 DEF FinderOK, HashTypeOK
  <2>3. "resize" \in JoinPoints /\ "resize" # "create" /\ hpc' = [hpc EXCEPT ![t] = "resize"]
    BY <1>3 DEF JoinPoints, HMove
  <2> QED
    BY <1>1, <2>2, <2>3, JoinerMoves
<1> QED
  BY <1>1, <1>2, <1>3

LEMMA ClearStep ==
  ASSUME HashIInv, NEW t \in Threads, Clear(t), Outside'
  PROVE  HashIInv'
<1>1. /\ hpc[t] \in JoinPoints /\ GoOn(t, main[t])
      /\ tables' = tables /\ count' = count /\ producers' = producers /\ newCount' = newCount
  BY DEF Clear, JoinPoints
<1> QED
  BY <1>1, GoOnStep

\* A thread that gives up takes its count back: the others have seen no less.
LEMMA GiveUpStep ==
  ASSUME HashIInv, NEW t \in Threads, hpc[t] \in JoinPoints, GiveUp(t),
         tables' = tables, producers' = producers, main' = main, newCount' = newCount,
         Outside'
  PROVE  HashIInv'
<1>1. HashTypeOK /\ CountsSeen /\ FinderOK(t)
  BY DEF HashIInv
<1>2. hpc' = [hpc EXCEPT ![t] = "failed"] /\ count' = count - 1
  BY DEF GiveUp, HMove
<1>3. main' \in [Threads -> Nat] /\ hpc' \in [Threads -> HashPoints]
  BY <1>1, <1>2 DEF HashTypeOK, HashPoints
<1>4. hpc'[t] = "failed" /\ \A u \in Threads : u # t => hpc'[u] = hpc[u]
  BY <1>1, <1>2 DEF HashTypeOK
<1>5. Registered' = Registered /\ t \notin Registered
  BY <1>1 DEF Registered, FinderOK
<1>6. Numbered' = Numbered \ {t} /\ t \in Numbered
  BY <1>4, <1>5 DEF Numbered, JoinPoints
<1>7. CountsSeen'
  <2>1. IsFiniteSet(Numbered)
    BY <1>1, RegisteredFacts
  <2>2. Cardinality(Numbered \ {t}) = Cardinality(Numbered) - 1
    BY <1>6, <2>1, FS_RemoveElement
  <2>3. count' = Cardinality(Numbered')
    BY <1>1, <1>2, <1>6, <2>2 DEF CountsSeen
  <2>4. \A S \in SUBSET Numbered' : S # {} => \E u \in S : newCount'[u] >= Cardinality(S)
    BY <1>1, <1>6 DEF CountsSeen
  <2> QED
    BY <2>3, <2>4 DEF CountsSeen
<1>8. FinderOK(t)'
  <2>1. main'[t] \in 1..Len(tables')
    BY <1>1 DEF FinderOK, JoinPoints
  <2> QED
    BY <1>4, <1>5, <2>1 DEF FinderOK
<1> QED
  BY <1>3, <1>4, <1>7, <1>8, QuietStep

\* enqueue goes on with its producer, or without one.
LEMMA LeaveStep ==
  ASSUME HashIInv, NEW t \in Threads, hpc[t] \in {"found", "failed"},
         hpc' = [hpc EXCEPT ![t] = "out"], UNCHANGED tableVars, Outside'
  PROVE  HashIInv'
<1>1. HashTypeOK /\ CountsSeen /\ FinderOK(t)
  BY DEF HashIInv
<1>2. tables' = tables /\ count' = count /\ producers' = producers /\ newCount' = newCount
      /\ main' = main
  BY DEF tableVars
<1>3. main' \in [Threads -> Nat] /\ hpc' \in [Threads -> HashPoints]
  BY <1>1, <1>2 DEF HashTypeOK, HashPoints
<1>4. hpc'[t] = "out" /\ \A u \in Threads : u # t => main'[u] = main[u] /\ hpc'[u] = hpc[u]
  BY <1>1, <1>2 DEF HashTypeOK
<1>5. Registered' = Registered
  BY <1>2 DEF Registered
<1>6. Numbered' = Numbered
  BY <1>4, <1>5 DEF Numbered, JoinPoints
<1>7. CountsSeen'
  BY <1>1, <1>2, <1>6, CountsKept
<1>8. FinderOK(t)'
  <2>1. \A k : InTable(k, t)' <=> InTable(k, t)
    BY <1>2, SameTables
  <2>2. t \in Registered' => \E k \in 1..Len(tables') : InTable(k, t)'
    BY <1>1, <1>2, <1>5, <2>1 DEF FinderOK
  <2> QED
    BY <1>4, <2>2 DEF FinderOK, JoinPoints
<1> QED
  BY <1>2, <1>3, <1>4, <1>7, <1>8, QuietStep

\* A thread that is counted sees in newCount all that are, itself included.
LEMMA CountStep ==
  ASSUME HashIInv, NEW t \in Threads, Count(t), Outside'
  PROVE  HashIInv'
<1>1. HashTypeOK /\ CountsSeen /\ FinderOK(t)
  BY DEF HashIInv
<1>2. /\ hpc[t] = "count" /\ hpc' = [hpc EXCEPT ![t] = "full"]
      /\ count' = count + 1 /\ newCount' = [newCount EXCEPT ![t] = count + 1]
      /\ tables' = tables /\ producers' = producers /\ main' = main
  BY DEF Count, HMove
<1>3. Registered' = Registered /\ t \notin Registered
  BY <1>1, <1>2 DEF Registered, FinderOK
<1>4. hpc'[t] = "full" /\ \A u \in Threads : u # t => hpc'[u] = hpc[u]
  BY <1>1, <1>2 DEF HashTypeOK
<1>5. newCount'[t] = count + 1 /\ \A u \in Threads : u # t => newCount'[u] = newCount[u]
  BY <1>1, <1>2 DEF HashTypeOK
<1>6. Numbered' = Numbered \cup {t} /\ t \notin Numbered
  BY <1>2, <1>3, <1>4 DEF Numbered, JoinPoints
<1>7. IsFiniteSet(Numbered) /\ Numbered \subseteq Threads
  BY <1>1, RegisteredFacts
<1>8. count \in Nat /\ count = Cardinality(Numbered)
  BY <1>1, <1>7, FS_CardinalityType DEF CountsSeen
<1>9. IsFiniteSet(Numbered') /\ Cardinality(Numbered') = count + 1
  BY <1>6, <1>7, <1>8, FS_AddElement
<1>10. CountsSeen'
  <2>1. \A S \in SUBSET Numbered' : S # {} => \E u \in S : newCount'[u] >= Cardinality(S)
    <3> SUFFICES ASSUME NEW S \in SUBSET Numbered', S # {}
                 PROVE  \E u \in S : newCount'[u] >= Cardinality(S)
      OBVIOUS
    <3>1. CASE t \in S
      <4>1. IsFiniteSet(S) /\ Cardinality(S) <= Cardinality(Numbered')
        BY <1>9, FS_Subset
      <4>2. newCount'[t] >= Cardinality(S)
        <5>1. Cardinality(S) \in Nat
          BY <4>1, FS_CardinalityType
        <5> QED
          BY <1>5, <1>8, <1>9, <4>1, <5>1
      <4> QED
        BY <3>1, <4>2
    <3>2. CASE t \notin S
      <4>1. S \in SUBSET Numbered
        BY <1>6, <3>2
      <4>2. PICK u \in S : newCount[u] >= Cardinality(S)
        BY <1>1, <4>1 DEF CountsSeen
      <4>3. newCount'[u] = newCount[u]
        BY <1>5, <1>7, <3>2, <4>1
      <4> QED
        BY <4>2, <4>3
    <3> QED
      BY <3>1, <3>2
  <2> QED
    BY <1>2, <1>9, <2>1 DEF CountsSeen
<1>11. HashTypeOK'
  <2>1. newCount' \in [Threads -> Nat]
    BY <1>1, <1>2, <1>8 DEF HashTypeOK
  <2>2. hpc' \in [Threads -> HashPoints]
    BY <1>1, <1>2 DEF HashTypeOK, HashPoints
  <2> QED
    BY <1>1, <1>2, <2>1, <2>2 DEF HashTypeOK
<1>12. OneProducerPerThread' /\ TablesGrow'
  BY <1>2 DEF HashIInv, OneProducerPerThread, TablesGrow, Capacity
<1>13. \A k \in 1..Len(tables') : TableOK(k)'
  <2>1. \A u \in Registered : newCount'[u] = newCount[u]
    BY <1>3, <1>5 DEF Registered
  <2> QED
    BY <1>1, <1>2, <1>3, <2>1, TableKept DEF HashIInv
<1>14. \A u \in Threads : FinderOK(u)'
  <2>1. ASSUME NEW u \in Threads, u # t PROVE FinderOK(u)'
    <3>1. Len(tables') \in Nat /\ Len(tables') >= Len(tables)
      BY <1>1, <1>2 DEF HashTypeOK
    <3>2. \A k \in 1..Len(tables) :
            Quota(k)' = Quota(k) /\ (InTable(k, u)' <=> InTable(k, u))
      BY <1>2, SameTables
    <3>3. \A k \in 1..Len(tables') : k > Len(tables) => ~InTable(k, u)'
      BY <1>2, <3>1
    <3>4. FinderOK(u)
      BY DEF HashIInv
    <3> QED
      BY <1>1, <1>2, <1>3, <1>4, <1>5, <2>1, <3>1, <3>2, <3>3, <3>4, FinderKept
  <2>2. FinderOK(t)'
    <3>1. main'[t] \in 1..Len(tables')
      BY <1>1, <1>2 DEF FinderOK
    <3> QED
      BY <1>3, <1>4, <3>1 DEF FinderOK
  <2> QED
    BY <2>1, <2>2
<1> QED
  BY <1>10, <1>11, <1>12, <1>13, <1>14 DEF HashIInv

\* A thread that had none creates a producer; it stays counted.
LEMMA ProducerAdded ==
  ASSUME HashIInv, NEW t \in Threads, hpc[t] = "create", NEW l \in {"slot", "crashed"},
         producers' = Append(producers, t), hpc' = [hpc EXCEPT ![t] = l],
         tables' = tables, count' = count, main' = main, newCount' = newCount,
         Outside'
  PROVE  HashIInv'
<1>1. HashTypeOK /\ CountsSeen /\ FinderOK(t) /\ OneProducerPerThread
  BY DEF HashIInv
<1>2. t \notin Registered
  BY <1>1 DEF FinderOK, JoinPoints
<1>3. hpc'[t] = l /\ \A u \in Threads : u # t => hpc'[u] = hpc[u]
  BY <1>1 DEF HashTypeOK
<1>4. PICK n \in Nat : n = Len(producers)
  BY <1>1 DEF HashTypeOK
<1>5. /\ producers' \in Seq(Threads) /\ Len(producers') = n + 1 /\ producers'[n + 1] = t
      /\ \A i \in 1..n : producers'[i] = producers[i]
  BY <1>1, <1>4 DEF HashTypeOK
<1>6. \A i \in 1..(n + 1) : i \in 1..n \/ i = n + 1
  OBVIOUS
<1>7. \A i \in 1..n : producers[i] # t
  BY <1>2, <1>4 DEF Registered
<1>8. Registered' = Registered \cup {t}
  <2>1. \A u : u \in Registered' <=> u \in Threads /\ \E i \in 1..(n + 1) : producers'[i] = u
    BY <1>5 DEF Registered
  <2>2. \A u : u \in Registered <=> u \in Threads /\ \E i \in 1..n : producers[i] = u
    BY <1>4 DEF Registered
  <2>3. n + 1 \in 1..(n + 1) /\ \A i \in 1..n : i \in 1..(n + 1)
    OBVIOUS
  <2>4. \A u : u \in Registered' <=> u \in Registered \/ u = t
    BY <1>5, <1>6, <2>1, <2>2, <2>3
  <2> QED
    BY <2>4
<1>9. OneProducerPerThread'
  <2>1. \A i, j \in 1..n : producers[i] = producers[j] => i = j
    BY <1>1, <1>4 DEF OneProducerPerThread
  <2>2. \A i, j \in 1..(n + 1) : producers'[i] = producers'[j] => i = j
    BY <1>5, <1>6, <1>7, <2>1
  <2> QED
    BY <1>5, <2>2 DEF OneProducerPerThread
<1>10. Numbered' = Numbered
  BY <1>3, <1>8 DEF Numbered, JoinPoints
<1>11. CountsSeen'
  BY <1>1, <1>10, CountsKept
<1>12. HashTypeOK'
  <2>1. hpc' \in [Threads -> HashPoints]
    BY <1>1 DEF HashTypeOK, HashPoints
  <2> QED
    BY <1>1, <1>5, <2>1 DEF HashTypeOK
<1>13. TablesGrow'
  BY DEF HashIInv, TablesGrow, Capacity
<1>14. \A k \in 1..Len(tables') : TableOK(k)'
  BY <1>1, <1>8, TableKept DEF HashIInv
<1>15. \A u \in Threads : FinderOK(u)'
  <2>1. ASSUME NEW u \in Threads, u # t PROVE FinderOK(u)'
    <3>1. Len(tables') \in Nat /\ Len(tables') >= Len(tables)
      BY <1>1 DEF HashTypeOK
    <3>2. \A k \in 1..Len(tables) :
            Quota(k)' = Quota(k) /\ (InTable(k, u)' <=> InTable(k, u))
      BY SameTables
    <3>3. \A k \in 1..Len(tables') : k > Len(tables) => ~InTable(k, u)'
      BY <3>1
    <3>4. FinderOK(u) /\ (u \in Registered' <=> u \in Registered)
      BY <1>8, <2>1 DEF HashIInv
    <3> QED
      BY <1>1, <1>3, <2>1, <3>1, <3>2, <3>3, <3>4, FinderKept
  <2>2. FinderOK(t)'
    <3>1. main'[t] \in 1..Len(tables') /\ newCount'[t] < Quota(main[t])'
      <4>1. main[t] \in 1..Len(tables) /\ newCount[t] < Quota(main[t])
        BY <1>1 DEF FinderOK
      <4>2. Quota(main[t])' = Quota(main[t])
        BY DEF Quota, Capacity
      <4> QED
        BY <4>1, <4>2
    <3>2. \A k \in 1..Len(tables') : ~InTable(k, t)'
      <4>1. \A k \in 1..Len(tables) : ~InTable(k, t)
        BY <1>2 DEF HashIInv, TableOK
      <4> QED
        BY <4>1, SameTables
    <3>3. t \in Registered'
      BY <1>8
    <3>4. l \notin JoinPoints \cup {"count", "failed", "lazy", "out", "create"}
      BY DEF JoinPoints
    <3> QED
      BY <1>3, <3>1, <3>2, <3>3, <3>4 DEF FinderOK
  <2> QED
    BY <2>1, <2>2
<1> QED
  BY <1>9, <1>11, <1>12, <1>13, <1>14, <1>15 DEF HashIInv

LEMMA CreateStep ==
  ASSUME HashIInv, NEW t \in Threads, Create(t), Outside'
  PROVE  HashIInv'
<1>1. /\ hpc[t] = "create" /\ hpc[t] \in JoinPoints
      /\ tables' = tables /\ main' = main /\ newCount' = newCount
  BY DEF Create, JoinPoints
<1>2. CASE producers' = Append(producers, t) /\ HMove(t, "slot") /\ UNCHANGED <<count, fails>>
  <2>1. hpc' = [hpc EXCEPT ![t] = "slot"] /\ count' = count
    BY <1>2 DEF HMove
  <2> QED
    BY <1>1, <1>2, <2>1, ProducerAdded
<1>3. CASE GiveUp(t) /\ UNCHANGED producers
  BY <1>1, <1>3, GiveUpStep
<1>4. CASE AllocationFails /\ producers' = Append(producers, t) /\ HMove(t, "crashed")
             /\ UNCHANGED count
  <2>1. hpc' = [hpc EXCEPT ![t] = "crashed"] /\ count' = count
    BY <1>4 DEF HMove
  <2> QED
    BY <1>1, <1>4, <2>1, ProducerAdded
<1> QED
  BY <1>2, <1>3, <1>4 DEF Create

\* A larger table is put in front of the others: it is empty, and what the
\* threads know of the older ones is as true as before.
LEMMA TableAdded ==
  ASSUME HashIInv, NEW t \in Threads, hpc[t] = "resize",
         NEW c \in Nat \ {0}, c >= Capacity(Len(tables)),
         tables' = Append(tables, EmptyTable(c)),
         hpc' = [hpc EXCEPT ![t] = "clear"], main' = [main EXCEPT ![t] = Len(tables) + 1],
         count' = count, producers' = producers, newCount' = newCount,
         Outside'
  PROVE  HashIInv'
<1>1. HashTypeOK /\ CountsSeen /\ FinderOK(t) /\ TablesGrow
  BY DEF HashIInv
<1>2. PICK n \in Nat : n = Len(tables) /\ n >= 1 /\ tables \in Seq(TableSet)
  BY <1>1 DEF HashTypeOK
<1>3. EmptyTable(c) \in [0..(c - 1) -> Threads \cup {None}] /\ EmptyTable(c) \in TableSet
      /\ \A i \in 0..(c - 1) : EmptyTable(c)[i] = None
  BY DEF EmptyTable, TableSet
<1>4. /\ tables' \in Seq(TableSet) /\ Len(tables') = n + 1
      /\ tables'[n + 1] = EmptyTable(c)
      /\ \A k \in 1..n : tables'[k] = tables[k]
  BY <1>2, <1>3
<1>5. hpc'[t] = "clear" /\ main'[t] = n + 1
      /\ \A u \in Threads : u # t => main'[u] = main[u] /\ hpc'[u] = hpc[u]
  BY <1>1, <1>2 DEF HashTypeOK
<1>6. HashTypeOK'
  <2>1. main' \in [Threads -> Nat] /\ hpc' \in [Threads -> HashPoints]
    BY <1>1, <1>2 DEF HashTypeOK, HashPoints
  <2> QED
    BY <1>1, <1>4, <2>1 DEF HashTypeOK
<1>7. \A k \in 1..n : Capacity(k)' = Capacity(k) /\ Quota(k)' = Quota(k)
  BY <1>4 DEF Capacity, Quota
<1>8. Capacity(n + 1)' = c
  <2>1. DOMAIN tables'[n + 1] = 0..(c - 1)
    BY <1>3, <1>4
  <2>2. Cardinality(0..(c - 1)) = IF 0 > c - 1 THEN 0 ELSE (c - 1) - 0 + 1
    BY FS_Interval
  <2>3. Cardinality(0..(c - 1)) = c
    BY <2>2
  <2> QED
    BY <2>1, <2>3 DEF Capacity
<1>9. \A k \in 1..n, u \in Threads : InTable(k, u)' <=> InTable(k, u)
  BY <1>4 DEF InTable
<1>10. \A u \in Threads : ~InTable(n + 1, u)'
  <2>1. \A i \in DOMAIN tables'[n + 1] : tables'[n + 1][i] = None
    BY <1>3, <1>4
  <2> QED
    BY <2>1, HashAssumption DEF InTable
<1>11. \A k \in 1..(n + 1) : k \in 1..n \/ k = n + 1
  OBVIOUS
<1>12. Registered' = Registered
  BY DEF Registered
<1>13. Numbered' = Numbered
  BY <1>5, <1>12 DEF Numbered, JoinPoints
<1>14. CountsSeen'
  BY <1>1, <1>13, CountsKept
<1>15. OneProducerPerThread'
  BY DEF HashIInv, OneProducerPerThread
<1>16. TablesGrow'
  <2>1. \A k \in 1..n : Capacity(k) \in Nat /\ Capacity(k) <= Capacity(n)
    <3>1. \A k \in 1..n : Capacity(k) \in Nat
      BY <1>1, <1>2, TableFacts
    <3>2. n \in 1..n /\ \A k \in 1..n : k <= n
      BY <1>2
    <3>3. \A k \in 1..n : Capacity(k) <= Capacity(n)
      BY <1>1, <1>2, <3>2 DEF TablesGrow
    <3> QED
      BY <3>1, <3>3
  <2>2. \A k \in 1..n : Capacity(k)' <= c
    <3>1. Capacity(n) <= c /\ Capacity(n) \in Nat
      BY <1>2, <2>1
    <3> QED
      BY <1>7, <2>1, <3>1
  <2>3. \A j, k \in 1..n : j <= k => Capacity(j)' <= Capacity(k)'
    BY <1>1, <1>2, <1>7 DEF TablesGrow
  <2>4. \A j, k \in 1..(n + 1) : j <= k => Capacity(j)' <= Capacity(k)'
    <3> SUFFICES ASSUME NEW j \in 1..(n + 1), NEW k \in 1..(n + 1), j <= k
                 PROVE  Capacity(j)' <= Capacity(k)'
      OBVIOUS
    <3>1. CASE k \in 1..n
      <4>1. j \in 1..n
        BY <3>1
      <4> QED
        BY <2>3, <3>1, <4>1
    <3>2. CASE k = n + 1
      <4>1. Capacity(k)' = c
        BY <1>8, <3>2
      <4>2. CASE j \in 1..n
        BY <2>2, <4>1, <4>2
      <4>3. CASE j = n + 1
        <5>1. Capacity(j)' = c
          BY <1>8, <4>3
        <5> QED
          BY <4>1, <5>1
      <4> QED
        BY <1>11, <4>2, <4>3
    <3> QED
      BY <1>11, <3>1, <3>2
  <2> QED
    BY <1>4, <2>4 DEF TablesGrow
<1>17. \A k \in 1..Len(tables') : TableOK(k)'
  <2>1. \A k \in 1..n : TableOK(k)'
    BY <1>1, <1>2, <1>4, <1>12, TableKept DEF HashIInv
  <2>2. TableOK(n + 1)'
    <3>1. \A i \in DOMAIN tables'[n + 1] : tables'[n + 1][i] = None
      BY <1>3, <1>4
    <3> QED
      BY <1>10, <3>1 DEF TableOK
  <2> QED
    BY <1>4, <1>11, <2>1, <2>2
<1>18. \A u \in Threads : FinderOK(u)'
  <2>1. ASSUME NEW u \in Threads, u # t PROVE FinderOK(u)'
    <3>1. Len(tables') \in Nat /\ Len(tables') >= Len(tables)
      BY <1>2, <1>4
    <3>2. \A k \in 1..Len(tables) :
            Quota(k)' = Quota(k) /\ (InTable(k, u)' <=> InTable(k, u))
      BY <1>2, <1>7, <1>9
    <3>3. \A k \in 1..Len(tables') : k > Len(tables) => ~InTable(k, u)'
      <4>1. \A k \in 1..n : ~(k > n)
        OBVIOUS
      <4> QED
        BY <1>2, <1>4, <1>10, <1>11, <4>1
    <3>4. FinderOK(u)
      BY DEF HashIInv
    <3> QED
      BY <1>1, <1>5, <1>12, <2>1, <3>1, <3>2, <3>3, <3>4, FinderKept
  <2>2. FinderOK(t)'
    <3>1. t \notin Registered'
      BY <1>1, <1>12 DEF FinderOK, JoinPoints
    <3>2. main'[t] \in 1..Len(tables')
      BY <1>4, <1>5
    <3> QED
      BY <1>5, <3>1, <3>2 DEF FinderOK
  <2> QED
    BY <2>1, <2>2
<1> QED
  BY <1>6, <1>14, <1>15, <1>16, <1>17, <1>18 DEF HashIInv

LEMMA ResizeStep ==
  ASSUME HashIInv, NEW t \in Threads, Resize(t), Outside'
  PROVE  HashIInv'
<1> DEFINE top == Len(tables)
           cap == Capacity(top)
<1>1. /\ hpc[t] = "resize" /\ hpc[t] \in JoinPoints
      /\ producers' = producers /\ newCount' = newCount
  BY DEF Resize, JoinPoints
<1>2. HashTypeOK
  BY DEF HashIInv
<1>3. top \in 1..Len(tables) /\ newCount[t] \in Nat /\ cap \in Nat \ {0}
  <2>1. top \in 1..Len(tables) /\ newCount[t] \in Nat
    BY <1>2 DEF HashTypeOK
  <2> QED
    BY <1>2, <2>1, TableFacts
<1>4. CASE /\ main' = [main EXCEPT ![t] = top]
           /\ HMove(t, "clear")
           /\ UNCHANGED <<tables, count>>
  <2>1. hpc' = [hpc EXCEPT ![t] = "clear"] /\ "clear" \in JoinPoints /\ "clear" # "create"
    BY <1>4 DEF HMove, JoinPoints
  <2> QED
    BY <1>1, <1>3, <1>4, <2>1, JoinerMoves
<1>5. CASE /\ tables' = Append(tables, EmptyTable(NewCapacity(cap, newCount[t])))
           /\ main' = [main EXCEPT ![t] = top + 1]
           /\ HMove(t, "clear")
           /\ UNCHANGED count
  <2>1. PICK c \in Nat \ {0} : c = NewCapacity(cap, newCount[t]) /\ c >= cap
    BY <1>3, NewCapacityGrows
  <2>2. hpc' = [hpc EXCEPT ![t] = "clear"]
    BY <1>5 DEF HMove
  <2> QED
    BY <1>1, <1>5, <2>1, <2>2, TableAdded
<1>6. CASE GiveUp(t) /\ UNCHANGED <<tables, main>>
  BY <1>1, <1>6, GiveUpStep
<1> QED
  BY <1>4, <1>5, <1>6 DEF Resize

\* A thread with a producer adds itself to a table in which it was not.
LEMMA SlotClaimed ==
  ASSUME HashIInv, NEW t \in Threads, hpc[t] \in {"slot", "lazy"}, Insert(main[t], t),
         hpc' = [hpc EXCEPT ![t] = "found"],
         count' = count, producers' = producers, main' = main, newCount' = newCount,
         Outside'
  PROVE  HashIInv'
<1>1. HashTypeOK /\ CountsSeen /\ FinderOK(t) /\ TablesGrow
  BY DEF HashIInv
<1>2. PICK k \in 1..Len(tables) : k = main[t]
  BY <1>1 DEF FinderOK
<1>3. t \in Registered /\ newCount[t] < Quota(k) /\ ~InTable(k, t)
  BY <1>1, <1>2 DEF FinderOK
<1>4. /\ tables' \in Seq(TableSet) /\ Len(tables') = Len(tables)
      /\ \A j \in 1..Len(tables) : Capacity(j)' = Capacity(j) /\ Quota(j)' = Quota(j)
      /\ \A j \in 1..Len(tables), u \in Threads :
           /\ InTable(j, u)' <=> InTable(j, u) \/ (j = k /\ u = t)
           /\ Holds(j, u) => Holds(j, u)'
      /\ Holds(k, t)'
      /\ \E i \in DOMAIN tables[k] :
           tables[k][i] = None /\ tables' = [tables EXCEPT ![k][i] = t]
  BY <1>1, <1>2, InsertedFacts
<1>5. hpc'[t] = "found" /\ \A u \in Threads : u # t => hpc'[u] = hpc[u]
  BY <1>1 DEF HashTypeOK
<1>6. HashTypeOK'
  <2>1. hpc' \in [Threads -> HashPoints]
    BY <1>1 DEF HashTypeOK, HashPoints
  <2> QED
    BY <1>1, <1>4, <2>1 DEF HashTypeOK
<1>7. Registered' = Registered
  BY DEF Registered
<1>8. Numbered' = Numbered
  BY <1>3, <1>5, <1>7 DEF Numbered
<1>9. CountsSeen'
  BY <1>1, <1>8, CountsKept
<1>10. OneProducerPerThread'
  BY DEF HashIInv, OneProducerPerThread
<1>11. TablesGrow'
  BY <1>1, <1>4 DEF TablesGrow
<1>12. \A j \in 1..Len(tables') : TableOK(j)'
  <2> SUFFICES ASSUME NEW j \in 1..Len(tables) PROVE TableOK(j)'
    BY <1>4
  <2>1. TableOK(j)
    BY DEF HashIInv
  <2>2. \A u \in Threads : InTable(j, u)' =>
          Holds(j, u)' /\ u \in Registered' /\ newCount'[u] < Quota(j)'
    BY <1>3, <1>4, <1>7, <2>1 DEF TableOK
  <2>3. \A x, y \in DOMAIN tables'[j] :
          tables'[j][x] = tables'[j][y] /\ tables'[j][x] # None => x = y
    <3>1. CASE j = k
      <4>1. PICK i \in DOMAIN tables[k] :
               tables[k][i] = None /\ tables' = [tables EXCEPT ![k][i] = t]
        BY <1>4
      <4>2. tables'[k] = [tables[k] EXCEPT ![i] = t]
        BY <1>1, <4>1 DEF HashTypeOK
      <4>3. tables[k] \in [DOMAIN tables[k] -> Threads \cup {None}]
        BY <1>1, TableFacts
      <4>4. DOMAIN tables'[k] = DOMAIN tables[k]
            /\ \A x \in DOMAIN tables[k] : tables'[k][x] = IF x = i THEN t ELSE tables[k][x]
        BY <4>2, <4>3
      <4>5. \A x \in DOMAIN tables[k] : tables[k][x] # t
        BY <1>3 DEF InTable
      <4> QED
        BY <2>1, <3>1, <4>4, <4>5 DEF TableOK
    <3>2. CASE j # k
      <4>1. tables'[j] = tables[j]
        BY <1>1, <1>4, <3>2 DEF HashTypeOK
      <4> QED
        BY <2>1, <4>1 DEF TableOK
    <3> QED
      BY <3>1, <3>2
  <2> QED
    BY <2>2, <2>3 DEF TableOK
<1>13. \A u \in Threads : FinderOK(u)'
  <2>1. ASSUME NEW u \in Threads, u # t PROVE FinderOK(u)'
    <3>1. Len(tables') \in Nat /\ Len(tables') >= Len(tables)
      BY <1>1, <1>4 DEF HashTypeOK
    <3>2. \A j \in 1..Len(tables) :
            Quota(j)' = Quota(j) /\ (InTable(j, u)' <=> InTable(j, u))
      BY <1>4, <2>1
    <3>3. \A j \in 1..Len(tables') : j > Len(tables) => ~InTable(j, u)'
      BY <1>4, <3>1
    <3>4. FinderOK(u)
      BY DEF HashIInv
    <3> QED
      BY <1>1, <1>5, <1>7, <2>1, <3>1, <3>2, <3>3, <3>4, FinderKept
  <2>2. FinderOK(t)'
    <3>1. main'[t] \in 1..Len(tables')
      BY <1>2, <1>4
    <3>2. \E j \in 1..Len(tables') : InTable(j, t)'
      BY <1>4
    <3> QED
      BY <1>5, <3>1, <3>2 DEF FinderOK, JoinPoints
  <2> QED
    BY <2>1, <2>2
<1> QED
  BY <1>6, <1>9, <1>10, <1>11, <1>12, <1>13 DEF HashIInv

\* Every step inside get_or_add_implicit_producer.
LEMMA HashStepKeeps ==
  ASSUME HashIInv, NEW t \in Threads, HashStep(t), Outside'
  PROVE  HashIInv'
<1>1. CASE Lazy(t) \/ Slot(t)
  <2>1. /\ hpc[t] \in {"slot", "lazy"} /\ Insert(main[t], t)
        /\ hpc' = [hpc EXCEPT ![t] = "found"]
        /\ count' = count /\ producers' = producers /\ main' = main /\ newCount' = newCount
    BY <1>1 DEF Lazy, Slot, HMove
  <2> QED
    BY <2>1, SlotClaimed
<1> QED
  BY <1>1, CountStep, FullStep, ResizeStep, ClearStep, CreateStep DEF HashStep

\* A step of HashStep moves no other thread.
LEMMA HashStepOutside ==
  ASSUME HashIInv, NEW t \in Threads, HashStep(t), loc[t].pc = "e_find", loc' = loc
  PROVE  Outside'
<1>1. hpc \in [Threads -> HashPoints] /\ Outside
  BY DEF HashIInv, HashTypeOK
<1>2. \E l : hpc' = [hpc EXCEPT ![t] = l]
  BY DEF HashStep, Lazy, Count, Full, GoOn, Resize, GiveUp, Clear, Create, Slot, HMove
<1>3. \A u \in Threads : u # t => hpc'[u] = hpc[u]
  BY <1>1, <1>2
<1> QED
  BY <1>1, <1>3 DEF Outside

-----------------------------------------------------------------------------
(***************************************************************************)
(* The other steps of the queue.                                           *)
(***************************************************************************)

\* Thread t is at none of the steps of the search, and moves alone.
Aside(t) ==
  /\ loc[t].pc # "e_find"
  /\ DOMAIN loc' = DOMAIN loc
  /\ \A u \in DOMAIN loc : u # t => loc'[u] = loc[u]

\* enqueue, once it has its producer ...
LEMMA EnqueueAside ==
  ASSUME NEW t \in Threads, DOMAIN loc = Threads,
         \/ InsertKey(t) \/ NoBlock(t) \/ InsertTail(t) \/ Undo(t) \/ GiveBack(t)
         \/ Requisition(t) \/ Write(t) \/ Publish(t) \/ Signal(t)
  PROVE  Aside(t)
<1>1. CASE InsertKey(t)
  BY <1>1 DEF InsertKey, Fail, At, Move, Aside
<1>2. CASE NoBlock(t)
  BY <1>2 DEF NoBlock, Fail, At, Move, Aside
<1>3. CASE InsertTail(t)
  BY <1>3 DEF InsertTail, At, Move, Aside
<1>4. CASE Undo(t)
  BY <1>4 DEF Undo, At, Aside
<1>5. CASE GiveBack(t)
  <2>1. loc[t].pc = "e_free" /\ \E x : loc' = [loc EXCEPT ![t] = x]
    BY <1>5, Zenon DEF GiveBack, At
  <2> QED
    BY <2>1 DEF Aside
<1>6. CASE Requisition(t)
  BY <1>6 DEF Requisition, Install, At, Aside
<1>7. CASE Write(t)
  BY <1>7 DEF Write, At, Move, Aside
<1>8. CASE Publish(t)
  BY <1>8 DEF Publish, At, Aside
<1>9. CASE Signal(t)
  BY <1>9 DEF Signal, At, Move, Aside
<1> QED
  BY <1>1, <1>2, <1>3, <1>4, <1>5, <1>6, <1>7, <1>8, <1>9

\* ... and get_wait.
LEMMA DequeueAside ==
  ASSUME NEW t \in Threads, DOMAIN loc = Threads, DequeueStep(t)
  PROVE  Aside(t)
<1>1. CASE GetWait(t)
  BY <1>1 DEF GetWait, At, Aside
<1>2. CASE Scan(t)
  BY <1>2 DEF Scan, At, Aside
<1>3. CASE Read(t)
  BY <1>3 DEF Read, At, Aside
<1>4. CASE Check(t)
  BY <1>4 DEF Check, At, Move, Aside
<1>5. CASE NextProducer(t)
  BY <1>5 DEF NextProducer, At, Aside
<1>6. CASE LoadHeader(t)
  BY <1>6 DEF LoadHeader, At, Aside
<1>7. CASE FindBlock(t)
  BY <1>7 DEF FindBlock, LoadBlock, At, Aside
<1>8. CASE NextBlock(t)
  <2>1. loc[t].pc = "d_more" /\ \E i : LoadBlock(t, i)
    BY <1>8, Zenon DEF NextBlock, At
  <2> QED
    BY <2>1 DEF LoadBlock, Aside
<1>9. CASE ReadItems(t)
  BY <1>9 DEF ReadItems, At, Aside
<1>10. CASE Claim(t)
  BY <1>10 DEF Claim, At, Aside
<1>11. CASE TakeHead(t)
  BY <1>11 DEF TakeHead, TakeFrom, At, Move, Aside
<1>12. CASE TakeFewer(t)
  BY <1>12 DEF TakeFewer, TakeFrom, At, Aside
<1>13. CASE Overcommit(t)
  BY <1>13 DEF Overcommit, At, Move, Aside
<1>14. CASE Unlink(t)
  BY <1>14 DEF Unlink, At, Move, Aside
<1>15. CASE SetEmpty(t)
  BY <1>15 DEF SetEmpty, Leave, At, Move, Aside
<1>16. CASE FreeBlock(t)
  BY <1>16 DEF FreeBlock, Leave, At, Aside
<1> QED
  BY <1>1, <1>2, <1>3, <1>4, <1>5, <1>6, <1>7, <1>8, <1>9, <1>10, <1>11, <1>12,
     <1>13, <1>14, <1>15, <1>16 DEF DequeueStep

\* A step that leaves the tables, and where the threads are in their search.
LEMMA SearchKept ==
  ASSUME HashIInv, UNCHANGED <<tableVars, hpc>>, Outside'
  PROVE  HashIInv'
<1>1. /\ tables' = tables /\ count' = count /\ producers' = producers
      /\ main' = main /\ newCount' = newCount /\ hpc' = hpc
  BY DEF tableVars
<1>2. HashTypeOK' /\ HashTypeOK
  BY <1>1 DEF HashIInv, HashTypeOK
<1>3. OneProducerPerThread' /\ TablesGrow'
  BY <1>1 DEF HashIInv, OneProducerPerThread, TablesGrow, Capacity
<1>4. Registered' = Registered
  BY <1>1 DEF Registered
<1>5. Numbered' = Numbered
  BY <1>1, <1>4 DEF Numbered
<1>6. CountsSeen'
  BY <1>1, <1>2, <1>5, CountsKept DEF HashIInv
<1>7. \A k \in 1..Len(tables') : TableOK(k)'
  BY <1>1, <1>2, <1>4, TableKept DEF HashIInv
<1>8. \A u \in Threads : FinderOK(u)'
  <2> SUFFICES ASSUME NEW u \in Threads PROVE FinderOK(u)'
    OBVIOUS
  <2>1. Len(tables') \in Nat /\ Len(tables') >= Len(tables)
    BY <1>1, <1>2 DEF HashTypeOK
  <2>2. \A k \in 1..Len(tables) :
          Quota(k)' = Quota(k) /\ (InTable(k, u)' <=> InTable(k, u))
    BY <1>1, SameTables
  <2>3. \A k \in 1..Len(tables') : k > Len(tables) => ~InTable(k, u)'
    BY <1>1, <2>1
  <2>4. FinderOK(u)
    BY DEF HashIInv
  <2> QED
    BY <1>1, <1>2, <1>4, <2>1, <2>2, <2>3, <2>4, FinderKept
<1> QED
  BY <1>2, <1>3, <1>6, <1>7, <1>8 DEF HashIInv

\* So do all the steps of threads that do not search.
LEMMA AsideKeeps ==
  ASSUME HashIInv, NEW t \in Threads, Aside(t), UNCHANGED <<tableVars, hpc>>
  PROVE  HashIInv'
<1>1. Outside
  BY DEF HashIInv
<1>2. Outside'
  BY <1>1 DEF Aside, Outside
<1> QED
  BY <1>2, SearchKept

-----------------------------------------------------------------------------
(***************************************************************************)
(* The invariant of the tables holds throughout.                           *)
(***************************************************************************)

LEMMA HashInitially ==
  Init => HashIInv
<1> SUFFICES ASSUME Init PROVE HashIInv
  OBVIOUS
<1>1. program.size \in {1, 2, 4, 8, 16, 32}
  BY QueueAssumption DEF Init, Program
<1>2. PICK n \in Nat \ {0} : n = program.size
  BY <1>1
<1>3. /\ tables = <<EmptyTable(n)>> /\ count = 0 /\ producers = <<>>
      /\ main = [t \in Threads |-> 0] /\ newCount = [t \in Threads |-> 0]
      /\ hpc = [t \in Threads |-> "out"] /\ loc = [t \in Threads |-> Idle]
  BY <1>2 DEF Init, HashInit
<1>4. EmptyTable(n) \in [0..(n - 1) -> Threads \cup {None}] /\ EmptyTable(n) \in TableSet
      /\ \A i \in 0..(n - 1) : EmptyTable(n)[i] = None
  BY DEF EmptyTable, TableSet
<1>5. tables \in Seq(TableSet) /\ Len(tables) = 1 /\ tables[1] = EmptyTable(n)
  BY <1>3, <1>4
<1>6. HashTypeOK
  BY <1>3, <1>5 DEF HashTypeOK, HashPoints
<1>7. OneProducerPerThread
  BY <1>3 DEF OneProducerPerThread
<1>8. \A k \in 1..Len(tables) : k = 1
  BY <1>5
<1>9. TablesGrow
  <2>1. Capacity(1) \in Nat
    BY <1>5, <1>6, TableFacts
  <2> QED
    BY <1>8, <2>1 DEF TablesGrow
<1>10. Registered = {} /\ Numbered = {}
  BY <1>3 DEF Registered, Numbered, JoinPoints
<1>11. CountsSeen
  BY <1>3, <1>10, FS_EmptySet DEF CountsSeen
<1>12. \A i \in DOMAIN tables[1] : tables[1][i] = None
  BY <1>4, <1>5
<1>13. \A k \in 1..Len(tables) : TableOK(k)
  <2>1. \A u \in Threads : ~InTable(1, u)
    BY <1>12, HashAssumption DEF InTable
  <2>2. TableOK(1)
    BY <1>12, <2>1 DEF TableOK
  <2> QED
    BY <1>8, <2>2
<1>14. \A t \in Threads : FinderOK(t)
  BY <1>3, <1>10 DEF FinderOK, JoinPoints
<1>15. Outside
  BY <1>3 DEF Outside
<1> QED
  BY <1>6, <1>7, <1>9, <1>11, <1>13, <1>14, <1>15 DEF HashIInv

LEMMA EnqueueKeeps ==
  ASSUME HashIInv, NEW t \in Threads, EnqueueStep(t)
  PROVE  HashIInv'
<1>1. HashTypeOK /\ Outside /\ DOMAIN loc = Threads /\ hpc \in [Threads -> HashPoints]
  BY DEF HashIInv, Outside, HashTypeOK
<1>2. CASE Enqueue(t)
  <2>1. hpc[t] = "out" /\ Lookup(t) /\ loc' = [loc EXCEPT ![t].pc = "e_find"]
    BY <1>1, <1>2 DEF Enqueue, At, Move, Outside
  <2>2. \A u \in Threads : u # t => hpc'[u] = hpc[u] /\ loc'[u] = loc[u]
    BY <1>1, <2>1 DEF Lookup, HMove
  <2>3. DOMAIN loc' = Threads /\ loc'[t].pc = "e_find"
    <3>1. loc[t].pc = "ready"
      BY <1>2 DEF Enqueue, At
    <3> QED
      BY <1>1, <2>1, <3>1
  <2>4. Outside'
    BY <1>1, <2>2, <2>3 DEF Outside
  <2> QED
    BY <2>1, <2>4, LookupStep
<1>3. CASE FindProducer(t)
  <2>1. HashStep(t) /\ loc[t].pc = "e_find" /\ loc' = loc
    BY <1>3 DEF FindProducer, At
  <2>2. Outside'
    BY <2>1, HashStepOutside
  <2> QED
    BY <2>1, <2>2, HashStepKeeps
<1>4. CASE UNCHANGED tableVars /\ (NoProducer(t) \/ Begin(t))
  <2>1. hpc[t] \in {"found", "failed"} /\ hpc' = [hpc EXCEPT ![t] = "out"]
    BY <1>4 DEF NoProducer, Begin
  <2>2. DOMAIN loc' = DOMAIN loc /\ \A u \in DOMAIN loc : u # t => loc'[u] = loc[u]
    BY <1>4 DEF NoProducer, Begin, Move
  <2>3. hpc'[t] = "out" /\ \A u \in Threads : u # t => hpc'[u] = hpc[u]
    BY <1>1, <2>1
  <2>4. Outside'
    BY <1>1, <2>2, <2>3 DEF Outside
  <2> QED
    BY <1>4, <2>1, <2>4, LeaveStep
<1>5. CASE /\ UNCHANGED <<tableVars, hpc>>
           /\ \/ InsertKey(t) \/ NoBlock(t) \/ InsertTail(t) \/ Undo(t) \/ GiveBack(t)
              \/ Requisition(t) \/ Write(t) \/ Publish(t) \/ Signal(t)
  BY <1>1, <1>5, EnqueueAside, AsideKeeps
<1> QED
  BY <1>2, <1>3, <1>4, <1>5 DEF EnqueueStep, hashVars

LEMMA HashNext ==
  ASSUME HashIInv, [Next]_vars
  PROVE  HashIInv'
<1>1. ASSUME NEW t \in Threads, ThreadStep(t) PROVE HashIInv'
  <2>1. CASE EnqueueStep(t)
    BY <2>1, EnqueueKeeps
  <2>2. CASE DequeueStep(t)
    <3>1. UNCHANGED <<tableVars, hpc>>
      BY <2>2 DEF DequeueStep, hashVars
    <3>2. DOMAIN loc = Threads
      BY DEF HashIInv, Outside
    <3> QED
      BY <2>2, <3>1, <3>2, DequeueAside, AsideKeeps
  <2> QED
    BY <1>1, <2>1, <2>2 DEF ThreadStep
<1>2. CASE Destroy
  <2>1. UNCHANGED <<tableVars, hpc>> /\ DOMAIN loc' = Threads
        /\ \A t \in Threads : hpc[t] = "out"
    BY <1>2 DEF Destroy, hashVars
  <2>2. Outside'
    BY <2>1 DEF Outside
  <2> QED
    BY <2>1, <2>2, SearchKept
<1>3. CASE UNCHANGED vars
  <2>1. UNCHANGED <<tableVars, hpc>> /\ loc' = loc
    BY <1>3 DEF vars, hashVars
  <2>2. Outside'
    BY <2>1 DEF HashIInv, Outside
  <2> QED
    BY <2>1, <2>2, SearchKept
<1> QED
  BY <1>1, <1>2, <1>3 DEF Next

\* In every behaviour of the queue, with any number of threads, programs and
\* failing allocations: the tables of get_or_add_implicit_producer and the
\* threads that search them keep the invariant above.
THEOREM TablesInductive == Spec => []HashIInv
<1>1. Init => HashIInv
  BY HashInitially
<1>2. HashIInv /\ [Next]_vars => HashIInv'
  BY HashNext
<1> QED
  BY <1>1, <1>2, PTL DEF Spec

\* So get_or_add_implicit_producer never gives a thread a second producer, and
\* no table is ever full, whatever the thread ids hash to: every search ends.
THEOREM TablesCorrect == Spec => []TablesInv
<1>1. HashIInv => TablesInv
  BY HashImplies
<1> QED
  BY <1>1, TablesInductive, PTL

=============================================================================
