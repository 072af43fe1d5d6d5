----------------------------- MODULE MCVsQueue -----------------------------
(***************************************************************************)
(* The run queue for TLC: VsQueue, with the programs that reach its        *)
(* corners, or its free list, FreeList, in detail.  All thread ids collide *)
(* in the hash tables.                                                     *)
(***************************************************************************)
EXTENDS VsQueue, FreeList

CONSTANTS t1, t2, t3, n1, n2

MCHashOf == [t \in Threads |-> 0]

Of(a, b, c) == t1 :> a @@ t2 :> b @@ t3 :> c

Runs(b, n, e, d, f) ==
  [build |-> b, size |-> n, enq |-> e, deq |-> d, put |-> 1, take |-> 1, fails |-> f]

Bulk(n, m, g) == [g EXCEPT !.put = n, !.take = m]

MCPrograms ==
  { \* the block index of t1 grows while its blocks are emptied and come back
    Runs("BLOCKING_QUEUE", 32, Of(5, 0, 0), Of(0, 1, 2), 0),
    \* consumers poll a producer that is empty from time to time
    Runs("LOCKFREE_QUEUE", 32, Of(3, 0, 0), Of(0, 1, 2), 0),
    \* two consumers compete for the elements of two producers
    Runs("BLOCKING_QUEUE", 32, Of(2, 1, 0), Of(0, 1, 1), 0),
    \* the hash table is replaced while both register and come back
    Runs("BLOCKING_QUEUE", 2, Of(2, 2, 0), Of(0, 0, 0), 0),
    \* allocations fail
    Runs("BLOCKING_QUEUE", 1, Of(2, 1, 0), Of(0, 1, 0), 1),
    Runs("BLOCKING_QUEUE", 32, Of(5, 0, 0), Of(0, 0, 2), 2),
    \* ... while enqueue_bulk has some of its blocks
    Bulk(5, 3, Runs("BLOCKING_QUEUE", 32, Of(2, 0, 0), Of(0, 2, 0), 1)),
    \* two threads take several elements at once, more than there are
    Bulk(2, 2, Runs("BLOCKING_QUEUE", 32, Of(1, 1, 0), Of(0, 1, 1), 0)) }

MCNodes == {n1, n2}

\* The list with both blocks, and with none.  The calls in which a block is
\* taken, its successor is taken, and the first is put back, while another
\* thread has loaded the successor, fit in MaxTurns = 4.
MCStarts == {<<>>, <<n1, n2>>}

VARIABLE part  \* which of the two runs

\* The state of the other is left at one of its initial values.
MCInit ==
  /\ Init
  /\ ListInit
  /\ \/ part = "queue" /\ freeListHead = nullptr
     \/ part = "list" /\ program = CHOOSE g \in Programs : TRUE

MCNext ==
  /\ \/ part = "queue" /\ Next /\ UNCHANGED listVars
     \/ part = "list" /\ ListNext /\ UNCHANGED vars
  /\ UNCHANGED part

MCSpec ==
  /\ MCInit
  /\ [][MCNext]_<<vars, listVars, part>>
  /\ \A t \in Threads :
       WF_vars(part = "queue" /\ ThreadStep(t) /\ UNCHANGED <<listVars, part>>)
  /\ \A t \in Users :
       WF_listVars(part = "list" /\ ListStep(t) /\ UNCHANGED <<vars, part>>)

=============================================================================
