------------------------------ MODULE RunQueue ------------------------------
(***************************************************************************)
(* What the run queue promises: a vthread that one thread has enqueued is  *)
(* handed to one thread, and the vthreads that one thread has enqueued are *)
(* handed out in its order.  Nothing is said of the order between those of *)
(* different threads.                                                      *)
(***************************************************************************)
EXTENDS Naturals, SequencesExt

CONSTANT Threads  \* who enqueues and dequeues

VARIABLES
  queue,    \* what each thread has enqueued and nobody has taken
  held,     \* what each thread has taken and not been given yet
  out       \* what each thread has been given, in order

Init ==
  /\ queue = [t \in Threads |-> <<>>]
  /\ held = [t \in Threads |-> <<>>]
  /\ out = [t \in Threads |-> <<>>]

\* One or more are put at the end.
Put(p) ==
  /\ queue' = [queue EXCEPT ![p] = queue'[p]]
  /\ IsStrictPrefix(queue[p], queue'[p])
  /\ UNCHANGED <<held, out>>

\* One or more are taken from the front.
Take(t, p) ==
  /\ held[t] = <<>>
  /\ \E n \in 1..Len(queue[p]) :
       /\ held' = [held EXCEPT ![t] = SubSeq(queue[p], 1, n)]
       /\ queue' = [queue EXCEPT ![p] = SubSeq(@, n + 1, Len(@))]
  /\ UNCHANGED out

Give(t) ==
  /\ \E n \in 1..Len(held[t]) :
       /\ out' = [out EXCEPT ![t] = @ \o SubSeq(held[t], 1, n)]
       /\ held' = [held EXCEPT ![t] = SubSeq(@, n + 1, Len(@))]
  /\ UNCHANGED queue

Next == \E t \in Threads : Put(t) \/ Give(t) \/ \E p \in Threads : Take(t, p)

Spec == Init /\ [][Next]_<<queue, held, out>>

=============================================================================
