------------------------------- MODULE MCJoin -------------------------------
(***************************************************************************)
(* Join for TLC: who joins whom.                                           *)
(***************************************************************************)
EXTENDS Join, TLC

CONSTANTS v1, v2, v3, r1

\* A chain, v3 joining v2 and v2 joining v1; the main thread joins v2 as well,
\* and v3.
MCJoins == (v1 :> {}) @@ (v2 :> {v1}) @@ (v3 :> {v2}) @@ (r1 :> {v2, v3})

=============================================================================
