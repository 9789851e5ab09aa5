------------------------------ MODULE MCSwissMap ------------------------------
(***************************************************************************)
(* TLC instances of SwissMap: groups of two slots, tables of four at first,*)
(* and hashes that put most keys into the same group.                      *)
(***************************************************************************)
EXTENDS SwissMap

CONSTANTS k1, k2, k3, k4, v1, v2

\* Home groups 0, 0, 0, 1 of two, and k4 in group 3 of four.  k1 and k3 collide.
MCHash ==
  [k \in Keys |-> CASE k = k1 -> 0 [] k = k2 -> 1 [] k = k3 -> 0 [] k = k4 -> 384]

=============================================================================
