------------------------- MODULE CountingSemaphore -------------------------
(***************************************************************************)
(* What a counting semaphore promises: a unit that somebody takes is one   *)
(* that is available, and every unit is taken at most once.                *)
(***************************************************************************)
EXTENDS Integers

CONSTANTS
  Callers,  \* who uses the semaphore
  Units     \* how many units it starts with

VARIABLES
  avail,    \* the units that are available
  taken     \* how many units each caller has taken

Init ==
  /\ avail = Units
  /\ taken = [a \in Callers |-> 0]

\* A caller takes units, as many as avail shrinks by.
Acquire(a) ==
  /\ avail' < avail
  /\ avail' >= 0
  /\ taken' = [taken EXCEPT ![a] = @ + (avail - avail')]

Release ==
  /\ avail' > avail
  /\ UNCHANGED taken

Next == Release \/ \E a \in Callers : Acquire(a)

Spec == Init /\ [][Next]_<<avail, taken>>

=============================================================================
