----------------------------- MODULE KeyValueMap ------------------------------
(***************************************************************************)
(* What Gada.Core.Maps promises: a function from the keys that are present *)
(* to their values, and its length.                                        *)
(***************************************************************************)
EXTENDS Naturals

CONSTANTS Keys, Values

VARIABLES map, length

vars == <<map, length>>

Present == DOMAIN map

Init == map = <<>> /\ length = 0

Insert(k, v) ==
  /\ map' = [j \in Present \cup {k} |-> IF j = k THEN v ELSE map[j]]
  /\ length' = IF k \in Present THEN length ELSE length + 1

Delete(k) ==
  /\ k \in Present
  /\ map' = [j \in Present \ {k} |-> map[j]]
  /\ length' = length - 1

Clear == map' = <<>> /\ length' = 0

Next == Clear \/ \E k \in Keys : Delete(k) \/ \E v \in Values : Insert(k, v)

Spec == Init /\ [][Next]_vars

=============================================================================
