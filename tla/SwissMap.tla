------------------------------- MODULE SwissMap -------------------------------
(***************************************************************************)
(* One variable of type Map (runtime/src/gada-core-maps.adb) and a range   *)
(* loop over it, as generated code uses them: the loop holds a cursor and  *)
(* its body may insert into and delete from the map it walks.              *)
(***************************************************************************)
EXTENDS SwissTable, Functions

CONSTANT MaxHint  \* bound: Cap_Hint of Make_Map

ASSUME HintAssumption == MaxHint \in Nat

VARIABLES
  table,    \* the Map
  cursor,   \* the loop's cursor; -1 when it has ended
  visits    \* history: how often the loop has visited each of the keys present
            \* since it began, as long as the table is not rehashed

vars == <<table, cursor, visits>>

Init ==
  /\ \E hint \in 0..MaxHint : table = MakeMap(hint)
  /\ cursor = -1
  /\ visits = <<>>

InLoop == cursor >= 0

\* An operation that leaves the entries of kept where they are, if present.
Keeps(kept) ==
  /\ visits' = Restrict(visits, IF InLoop THEN kept \cap DOMAIN visits ELSE {})
  /\ UNCHANGED cursor

Insert(k, v) ==
  /\ table' = Put(Grown(table), k, v)
  /\ Keeps(IF MustGrow(table) THEN {} ELSE Keys)

Delete(k) ==
  /\ table' = Erase(table, k)
  /\ Keeps(Keys \ {k})

Clear ==
  /\ table' = Cleared(table)
  /\ Keeps({})

\* The cursor moves to c and the body's k and v are read there.
Visit(c, counts) ==
  /\ cursor' = c
  /\ visits' = [k \in DOMAIN counts |->
                  IF c >= 0 /\ Hit(table, k, c) THEN counts[k] + 1 ELSE counts[k]]
  /\ UNCHANGED table

\* First.
RangeBegin ==
  /\ ~InLoop
  /\ Visit(CursorFirst(table), [k \in DOMAIN Contents(table) |-> 0])

\* Next, after the body.
RangeNext ==
  /\ InLoop
  /\ Visit(CursorNext(table, cursor), visits)

Next ==
  \/ Clear \/ RangeBegin \/ RangeNext
  \/ \E k \in Keys : Delete(k) \/ \E v \in Values : Insert(k, v)

Spec == Init /\ [][Next]_vars

-----------------------------------------------------------------------------
(***************************************************************************)
(* Properties.                                                             *)
(***************************************************************************)

\* Types; Size and Tombstones are Natural, and no decrement goes below zero.
TypeOK ==
  /\ table.cap \in Nat /\ table.size \in Nat /\ table.tombs \in Nat
  /\ table.slot \in [0..(table.cap - 1) -> {Empty, Tomb} \cup Entry]
  /\ cursor \in -1..(table.cap - 1)
  /\ DOMAIN visits \subseteq Keys /\ \A k \in DOMAIN visits : visits[k] \in Nat

\* Size and Tombstones count the live slots and the tombstones, which the growth
\* rule and First's unbounded search rely on.
CountsExact ==
  /\ table.size = Cardinality({i \in DOMAIN table.slot : Live(table, i)})
  /\ table.tombs = Cardinality({i \in DOMAIN table.slot : table.slot[i] = Tomb})

\* No probe loop runs for ever, whatever key it looks for: insertions, deletions
\* and rehashes always leave an empty slot on every probe sequence.
ProbesEnd == \A k \in Keys : ProbeEnds(table, k)

\* A key is in at most one slot, and a lookup finds it there.
OneEntryPerKey ==
  \A i \in DOMAIN table.slot :
    Live(table, i) => Lookup(table, table.slot[i].key) = i

\* A range loop visits no entry twice, and when it ends it has visited all that
\* were present throughout, whatever else its body inserts and deletes, unless
\* the table is rehashed under it.
VisitsOnceUnlessRehashed ==
  \A k \in DOMAIN visits :
    /\ visits[k] <= 1
    /\ ~InLoop => visits[k] = 1

Map == INSTANCE KeyValueMap WITH
  map <- Contents(table), length <- table.size

\* Lookups and Length see a function from keys to values, through probing,
\* tombstones and growth.
ImplementsMap == Map!Spec

=============================================================================
