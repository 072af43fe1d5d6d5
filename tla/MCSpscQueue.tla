---------------------------- MODULE MCSpscQueue ----------------------------
(***************************************************************************)
(* The other containers for TLC: SpscQueue, with small blocks, so that     *)
(* they fill, are used again and grow within a few calls, or ConcurrentSet.*)
(***************************************************************************)
EXTENDS SpscQueue, ConcurrentSet

G(blocking, maxSize, maxBlock, n) ==
  [blocking |-> blocking, maxSize |-> maxSize, maxBlock |-> maxBlock, mallocs |-> n]

\* One block that doubles, one that does not, a ring of five blocks, and one
\* block of which malloc gives no other.
MCPrograms ==
  {G(FALSE, 1, 4, 2), G(FALSE, 1, 2, 2), G(FALSE, 4, 2, 1), G(TRUE, 1, 2, 1),
   G(TRUE, 3, 2, 0)}

\* Two values of bucket 1, the second through a negative char, and one of
\* bucket 0.
MCValues == {<<1, 0>>, <<9, 255>>, <<200, 7>>}

VARIABLE part  \* which of the two runs

\* The state of the other is left at one of its initial values.
MCInit ==
  /\ Init
  /\ SetInit
  /\ \/ part = "queue"
     \/ part = "set" /\ prog = CHOOSE g \in Programs : TRUE

MCNext ==
  /\ \/ part = "queue" /\ Next /\ UNCHANGED setVars
     \/ part = "set" /\ SetNext /\ UNCHANGED vars
  /\ UNCHANGED part

\* The fairness of SpscQueue.
MCSpec ==
  /\ MCInit
  /\ [][MCNext]_<<vars, setVars, part>>
  /\ WF_vars(part = "queue" /\ ProducerStep /\ UNCHANGED <<setVars, part>>)
  /\ WF_vars(part = "queue" /\ ConsumerStep /\ UNCHANGED <<setVars, part>>)

=============================================================================
