-------------------------- MODULE SwissMapInvariant ---------------------------
(***************************************************************************)
(* The inductive invariant of SwissMap: its table is sound, and the range  *)
(* loop has visited the entries up to the cursor.                          *)
(***************************************************************************)
EXTENDS SwissMap, SwissTableInvariant

\* Of the keys that counts counts, which are present, the loop has been at those
\* in the slots up to c, once.
CountsUpTo(t, counts, c) ==
  \A k \in DOMAIN counts :
    \E i \in LiveSlots(t) :
      t.slot[i].key = k /\ counts[k] = IF i <= c THEN 1 ELSE 0

LoopInv ==
  /\ cursor \in -1..(table.cap - 1) /\ DOMAIN visits \subseteq Keys
  /\ InLoop => CountsUpTo(table, visits, cursor)
  /\ ~InLoop => \A k \in DOMAIN visits : visits[k] = 1

IInv == Sound(table) /\ LoopInv

=============================================================================
