------------------------------ MODULE FreeList ------------------------------
(***************************************************************************)
(* moodycamel's FreeList, from which the run queue takes its blocks and to *)
(* which it returns them: a linked stack without a lock.  What keeps a     *)
(* node from being taken, used and put back while another thread holds its *)
(* old successor is a count of references in each node: a node is put on   *)
(* the list only by the thread that takes its count to zero, and whoever   *)
(* may not do so leaves the flag SHOULD_BE_ON_FREELIST to the one who can. *)
(*                                                                         *)
(* One step is one access to freeListHead or to a field of a node.         *)
(***************************************************************************)
EXTENDS Naturals, FiniteSets, Sequences

CONSTANTS
  Nodes,       \* the blocks
  Users,       \* the kernel threads
  MaxTurns,    \* how many calls the threads make between them
  Starts,      \* what the list may be at the start, from the head on
  nullptr      \* the null pointer

ASSUME FreeListAssumption ==
  /\ IsFiniteSet(Nodes) /\ IsFiniteSet(Users)
  /\ nullptr \notin Nodes
  /\ MaxTurns \in Nat
  /\ Starts \subseteq Seq(Nodes)
  /\ \A s \in Starts : \A i, j \in DOMAIN s :
       s[i] = s[j] => i = j

VARIABLES
  freeListHead,
  freeListNext,  \* of each node
  refs,          \* freeListRefs & REFS_MASK of each node
  should,        \* whether its SHOULD_BE_ON_FREELIST is set
  used,          \* the nodes that are given out and not being given back
  at,            \* where each thread is
  mine,           \* the local variables of its call
  turns          \* how many more calls they may make

listVars == <<freeListHead, freeListNext, refs, should, used, at, mine, turns>>

list == <<freeListHead, freeListNext>>
counts == <<refs, should>>

Pointers == Nodes \cup {nullptr}

NoLocals == [op |-> "none", node |-> nullptr, head |-> nullptr,
            next |-> nullptr, refs |-> 0, should |-> FALSE]

ListTypeOK ==
  /\ freeListHead \in Pointers
  /\ freeListNext \in [Nodes -> Pointers]
  /\ refs \in [Nodes -> Nat]
  /\ should \in [Nodes -> BOOLEAN]
  /\ used \subseteq Nodes
  /\ at \in [Users -> {"ready", "get", "get_refs", "get_ref", "get_next",
                       "get_head", "got", "unref", "add", "put", "put_next",
                       "put_refs", "put_head", "put_undo"}]
  /\ mine \in [Users -> [op : {"none", "add", "get"}, node : Pointers,
                        head : Pointers, next : Pointers, refs : Nat,
                        should : BOOLEAN]]
  /\ turns \in 0..MaxTurns

\* Some blocks are on the list, each with the list's reference, and those of
\* the pool that are not have been given out.
ListInit ==
  /\ \E s \in Starts :
       /\ freeListHead = IF s = <<>> THEN nullptr ELSE s[1]
       /\ freeListNext =
            [n \in Nodes |->
               IF \E i \in 1..Len(s) - 1 : s[i] = n
               THEN s[1 + CHOOSE i \in 1..Len(s) - 1 : s[i] = n]
               ELSE nullptr]
       /\ used = {n \in Nodes : \A i \in DOMAIN s : s[i] # n}
  /\ refs = [n \in Nodes |-> IF n \in used THEN 0 ELSE 1]
  /\ should = [n \in Nodes |-> FALSE]
  /\ at = [t \in Users |-> "ready"]
  /\ mine = [t \in Users |-> NoLocals]
  /\ turns = MaxTurns

-----------------------------------------------------------------------------

Goto(t, l) == at' = [at EXCEPT ![t] = l]

FromTo(t, l, m) == at[t] = l /\ Goto(t, m)

\* The node thread t is busy with: prevHead of try_get, node of the others.
Node(t) == mine[t].node

ListCall(t, op, n) ==
  /\ FromTo(t, "ready", op)
  /\ turns > 0
  /\ turns' = turns - 1
  /\ mine' = [mine EXCEPT ![t].op = op, ![t].node = n]

ListReturn(t) == Goto(t, "ready") /\ mine' = [mine EXCEPT ![t] = NoLocals]

(***************************************************************************)
(* Faulty forms of steps below.                                            *)
(***************************************************************************)

\* The thread that drops the last reference does not look at the flag.
UnrefForgets(t) ==
  /\ FromTo(t, "unref", IF mine[t].head = nullptr THEN "ready" ELSE "get_refs")
  /\ refs' = [refs EXCEPT ![Node(t)] = @ - 1]
  /\ UNCHANGED <<list, should, used, mine, turns>>

\* The old successor is written again: head is not the value that was found.
PutHeadStale(t) ==
  /\ at[t] = "put_head"
  /\ IF freeListHead = mine[t].next
     THEN freeListHead' = Node(t) /\ ListReturn(t)
     ELSE Goto(t, "put_undo") /\ UNCHANGED <<freeListHead, mine>>
  /\ UNCHANGED <<freeListNext, counts, used, turns>>

-----------------------------------------------------------------------------
(***************************************************************************)
(* add(node)                                                               *)
(***************************************************************************)

\* The caller gives back a node that is out.
CallAdd(t, n) ==
  /\ n \in used
  /\ used' = used \ {n}
  /\ ListCall(t, "add", n)
  /\ UNCHANGED <<list, counts>>

\* freeListRefs.fetch_add(SHOULD_BE_ON_FREELIST) == 0
Add(t) ==
  /\ at[t] = "add"
  /\ should' = [should EXCEPT ![Node(t)] = TRUE]
  /\ IF refs[Node(t)] = 0 /\ ~should[Node(t)]
     THEN Goto(t, "put") /\ UNCHANGED mine
     ELSE ListReturn(t)
  /\ UNCHANGED <<list, refs, used, turns>>

(***************************************************************************)
(* add_knowing_refcount_is_zero(node), called by add and by try_get.  Its  *)
(* head is mine.next: what the node's successor is to be.                   *)
(***************************************************************************)

\* It returns: to the caller of add, or to the loop of try_get.
PutReturn(t) ==
  IF mine[t].op = "get" /\ mine[t].head # nullptr
  THEN Goto(t, "get_refs") /\ UNCHANGED mine
  ELSE ListReturn(t)

\* head = freeListHead.load()
Put(t) ==
  /\ FromTo(t, "put", "put_next")
  /\ mine' = [mine EXCEPT ![t].next = freeListHead]
  /\ UNCHANGED <<list, counts, used, turns>>

PutNext(t) ==
  /\ FromTo(t, "put_next", "put_refs")
  /\ freeListNext' = [freeListNext EXCEPT ![Node(t)] = mine[t].next]
  /\ UNCHANGED <<freeListHead, counts, used, mine, turns>>

\* freeListRefs.store(1) clears the flag as well.
PutRefs(t) ==
  /\ FromTo(t, "put_refs", "put_head")
  /\ refs' = [refs EXCEPT ![Node(t)] = 1]
  /\ should' = [should EXCEPT ![Node(t)] = FALSE]
  /\ UNCHANGED <<list, used, mine, turns>>

\* freeListHead.compare_exchange_strong(head, node): the node is on the list,
\* or head is the value that was found instead.
PutHead(t) ==
  /\ at[t] = "put_head"
  /\ IF freeListHead = mine[t].next
     THEN freeListHead' = Node(t) /\ PutReturn(t)
     ELSE /\ Goto(t, "put_undo")
          /\ mine' = [mine EXCEPT ![t].next = freeListHead]
          /\ UNCHANGED freeListHead
  /\ UNCHANGED <<freeListNext, counts, used, turns>>

\* freeListRefs.fetch_add(SHOULD_BE_ON_FREELIST - 1) == 1: once more, else the
\* node is left to whoever drops the last reference.
PutUndo(t) ==
  /\ at[t] = "put_undo"
  /\ refs' = [refs EXCEPT ![Node(t)] = @ - 1]
  /\ should' = [should EXCEPT ![Node(t)] = TRUE]
  /\ IF refs[Node(t)] = 1 THEN Goto(t, "put_next") /\ UNCHANGED mine
                          ELSE PutReturn(t)
  /\ UNCHANGED <<list, used, turns>>

-----------------------------------------------------------------------------
(***************************************************************************)
(* try_get()                                                               *)
(***************************************************************************)

CallGet(t) ==
  /\ ListCall(t, "get", nullptr)
  /\ UNCHANGED <<list, counts, used>>

\* head = freeListHead.load(): null when the list is empty.
Get(t) ==
  /\ at[t] = "get"
  /\ IF freeListHead = nullptr
     THEN ListReturn(t)
     ELSE Goto(t, "get_refs") /\ mine' = [mine EXCEPT ![t].head = freeListHead]
  /\ UNCHANGED <<list, counts, used, turns>>

\* refs = head->freeListRefs.load(): a node nobody refers to is not on the list.
GetRefs(t) ==
  /\ at[t] = "get_refs"
  /\ LET h == mine[t].head
     IN  IF refs[h] = 0
         THEN Goto(t, "get") /\ UNCHANGED mine
         ELSE /\ Goto(t, "get_ref")
              /\ mine' = [mine EXCEPT ![t].node = h, ![t].refs = refs[h],
                                    ![t].should = should[h]]
  /\ UNCHANGED <<list, counts, used, turns>>

\* head->freeListRefs.compare_exchange_strong(refs, refs + 1)
GetRef(t) ==
  /\ at[t] = "get_ref"
  /\ IF refs[Node(t)] = mine[t].refs /\ should[Node(t)] = mine[t].should
     THEN Goto(t, "get_next") /\ refs' = [refs EXCEPT ![Node(t)] = @ + 1]
     ELSE Goto(t, "get") /\ UNCHANGED refs
  /\ UNCHANGED <<list, should, used, mine, turns>>

GetNext(t) ==
  /\ FromTo(t, "get_next", "get_head")
  /\ mine' = [mine EXCEPT ![t].next = freeListNext[Node(t)]]
  /\ UNCHANGED <<list, counts, used, turns>>

\* freeListHead.compare_exchange_strong(head, next)
GetHead(t) ==
  /\ at[t] = "get_head"
  /\ IF freeListHead = Node(t)
     THEN Goto(t, "got") /\ freeListHead' = mine[t].next /\ UNCHANGED mine
     ELSE /\ Goto(t, "unref")
          /\ mine' = [mine EXCEPT ![t].head = freeListHead]
          /\ UNCHANGED freeListHead
  /\ UNCHANGED <<freeListNext, counts, used, turns>>

\* The list's reference and the thread's are dropped, and the node is given out.
Got(t) ==
  /\ at[t] = "got"
  /\ refs' = [refs EXCEPT ![Node(t)] = @ - 2]
  /\ used' = used \cup {Node(t)}
  /\ ListReturn(t)
  /\ UNCHANGED <<list, should, turns>>

\* The thread's reference is dropped; when it was the last and the flag is set,
\* the node is put on the list here.
Unref(t) ==
  /\ at[t] = "unref"
  /\ refs' = [refs EXCEPT ![Node(t)] = @ - 1]
  /\ IF refs[Node(t)] = 1 /\ should[Node(t)]
     THEN Goto(t, "put") /\ UNCHANGED mine
     ELSE PutReturn(t)
  /\ UNCHANGED <<list, should, used, turns>>

-----------------------------------------------------------------------------

ListStep(t) ==
  \/ \E n \in Nodes : CallAdd(t, n)
  \/ CallGet(t)
  \/ Add(t)
  \/ Put(t) \/ PutNext(t) \/ PutRefs(t) \/ PutHead(t) \/ PutUndo(t)
  \/ Get(t) \/ GetRefs(t) \/ GetRef(t) \/ GetNext(t) \/ GetHead(t) \/ Got(t)
  \/ Unref(t)

ListNext == \E t \in Users : ListStep(t)

\* The scheduler of the kernel is fair.
ListSpec ==
  /\ ListInit
  /\ [][ListNext]_listVars
  /\ \A t \in Users : WF_listVars(ListStep(t))

-----------------------------------------------------------------------------
(***************************************************************************)
(* Properties.                                                             *)
(***************************************************************************)

\* The node k steps down the list.
Nth[k \in Nat] ==
  IF k = 0 THEN freeListHead
  ELSE IF Nth[k - 1] = nullptr THEN nullptr ELSE freeListNext[Nth[k - 1]]

OnList == {Nth[k] : k \in 0..Cardinality(Nodes)} \ {nullptr}

\* The threads that are giving back or taking node n.
Holders(n) ==
  {t \in Users :
     /\ Node(t) = n
     /\ at[t] \in {"add", "put", "put_next", "put_refs", "put_head", "put_undo",
                   "got"}}

\* A block is in one place: in use, on the list, or in the hands of one thread
\* that gives it back or takes it.  No try_get hands out a block that somebody
\* uses, whatever was taken and put back between its load of freeListNext and
\* its compare_exchange; and the list is no cycle.
OnePlace ==
  /\ Nth[Cardinality(Nodes)] = nullptr
  /\ used \cap OnList = {}
  /\ \A n \in Nodes :
       /\ Holders(n) # {} => n \notin used \cup OnList
       /\ Cardinality(Holders(n)) <= 1

\* The assertion of try_get: the flag of a node that was taken from the list is
\* not set.
FlagClear == \A t \in Users : at[t] = "got" => ~should[Node(t)]

\* Once all calls have returned no block is missing: each is in use and nobody
\* refers to it, or on the list, which is its one reference.
NothingLost ==
  (\A t \in Users : at[t] = "ready") =>
    \A n \in Nodes :
      /\ ~should[n]
      /\ \/ n \in used /\ refs[n] = 0
         \/ n \in OnList /\ refs[n] = 1

\* Every add and every try_get returns, however often others change the head or
\* the count in between.
CallsReturn == <>[](\A t \in Users : at[t] = "ready")

\* The reference counts keep the blocks: none is handed out twice, and none is
\* lost.
ListInv ==
  /\ ListTypeOK
  /\ OnePlace
  /\ FlagClear
  /\ NothingLost

=============================================================================
