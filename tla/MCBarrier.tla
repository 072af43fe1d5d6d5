----------------------------- MODULE MCBarrier -----------------------------
(***************************************************************************)
(* Barrier for TLC, with the programs of its two runs.                     *)
(***************************************************************************)
EXTENDS Barrier, TLC

CONSTANTS v1, v2, v3, r1

\* The three vthreads pass a barrier for three as often as rounds says.
Uses(build, rounds) ==
  [build |-> build, waiters |-> 3,
   rounds |-> [a \in Actors |-> IF a \in VThreads THEN rounds ELSE 0]]

\* The actors in who, and they only, pass a blocked barrier for two once.
UsedOnce(who) ==
  [build |-> "BLOCKED_BARRIER", waiters |-> 2,
   rounds |-> [a \in Actors |-> IF a \in who THEN 1 ELSE 0]]

MCSetups ==
  { \* three vthreads, as many as the barrier counts, in either build
    Uses("BLOCKED_BARRIER", 3),
    Uses("LOCKFREE_BARRIER", 3),
    \* three vthreads share a barrier for two
    UsedOnce({v1, v2, v3}),
    \* a vthread and a raw thread
    UsedOnce({v1, r1}) }

\* Three vthreads and a barrier for two.
SharedSetups == {UsedOnce({v1, v2, v3})}

=============================================================================
