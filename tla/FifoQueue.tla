----------------------------- MODULE FifoQueue -----------------------------
(***************************************************************************)
(* What a queue between one producer and one consumer promises: elements   *)
(* come out once each, in the order they went in.  The n-th element that   *)
(* is put in is n.                                                         *)
(***************************************************************************)
EXTENDS Naturals, Sequences

VARIABLES
  contents,  \* the elements in the queue, the oldest first
  out,       \* the elements that were taken, the first one first
  alive      \* whether the queue still exists

Init == contents = <<>> /\ out = <<>> /\ alive = TRUE

Put ==
  /\ alive
  /\ contents' = Append(contents, Len(out) + Len(contents) + 1)
  /\ UNCHANGED <<out, alive>>

Take ==
  /\ alive
  /\ contents # <<>>
  /\ contents' = Tail(contents)
  /\ out' = Append(out, Head(contents))
  /\ UNCHANGED alive

\* The queue is destroyed with what is left in it.
Drop == alive /\ alive' = FALSE /\ contents' = <<>> /\ UNCHANGED out

Next == Put \/ Take \/ Drop

Spec == Init /\ [][Next]_<<contents, out, alive>>

=============================================================================
