----------------------------- MODULE MCMapAliases -----------------------------
(***************************************************************************)
(* TLC instance of MapAliases: m and n, and five keys in two home groups.  *)
(***************************************************************************)
EXTENDS MapAliases, TLC

CONSTANTS k1, k2, k3, k4, k5, v1, m, n, b1, b2, b3

MCHash == [k \in Keys |-> IF k \in {k1, k2, k3} THEN 0 ELSE 128]

Symmetry == Permutations(Vars) \cup Permutations(Buffers)

=============================================================================
