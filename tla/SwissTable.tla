------------------------------ MODULE SwissTable ------------------------------
(***************************************************************************)
(* The hash table of runtime/src/gada-core-maps.adb as functions of a      *)
(* record Map: what each operation of the package computes.                *)
(*                                                                         *)
(* A control byte and its slot are one value: Empty, Tomb, or the entry a  *)
(* live slot holds.  The byte repeats a part of the key's hash, and that   *)
(* and Full_Hash are compared before the keys: filters, as equal keys have *)
(* equal hashes.                                                           *)
(***************************************************************************)
EXTENDS Integers, FiniteSetsExt

CONSTANTS
  Keys, Values,
  Hash,        \* Hash[k], the generic's Hash; keys that "=" equates are one key
  GroupSize,   \* Group_Size
  InitialCap,  \* Initial_Cap and Min_Cap
  Empty, Tomb  \* Empty_Ctrl and Tomb_Ctrl

\* All its divisors but 1 are even.
PowerOfTwo(n) ==
  n \in Nat \ {0} /\ \A d, q \in 1..n : d * q = n /\ d # 1 => d % 2 = 0

ASSUME TableAssumption ==
  /\ Hash \in [Keys -> Nat]
  /\ PowerOfTwo(GroupSize) /\ PowerOfTwo(InitialCap)
  /\ InitialCap >= GroupSize /\ InitialCap >= 4
  /\ Empty # Tomb

Entry == [key : Keys, val : Values]

ASSUME ControlAssumption == Empty \notin Entry /\ Tomb \notin Entry

H1(h) == h \div 128

\* A table whose slots are all empty; cap 0 is the map before its first insert.
Fresh(cap) ==
  [slot |-> [i \in 0..(cap - 1) |-> Empty], cap |-> cap, size |-> 0, tombs |-> 0]

Live(t, i) == t.slot[i] \notin {Empty, Tomb}

\* Round_Up_Pow2: the least of InitialCap, its double and so on that is at least n.
RoundUpPow2(n) == Min({c \in InitialCap..(InitialCap + 2 * n) : PowerOfTwo(c) /\ c >= n})

MakeMap(hint) == Fresh(IF hint = 0 THEN 0 ELSE RoundUpPow2(hint))

-----------------------------------------------------------------------------
(***************************************************************************)
(* Probing.  Probe n visits group H1 + n (n + 1) / 2, modulo a power of    *)
(* two; the sequence repeats after twice as many probes as there are       *)
(* groups, so a probe that has not ended by then never ends.               *)
(***************************************************************************)

Groups(t) == t.cap \div GroupSize

Probe(t, k, n) == (H1(Hash[k]) + (n * (n + 1)) \div 2) % Groups(t)

GroupSlots(g) == (g * GroupSize)..(g * GroupSize + GroupSize - 1)

Hit(t, k, i) == Live(t, i) /\ t.slot[i].key = k

\* The probe of a group ends the search: the key is there, or an empty slot.
Decides(t, k, n) ==
  \E i \in GroupSlots(Probe(t, k, n)) : Hit(t, k, i) \/ t.slot[i] = Empty

\* Probe after which the sequence of groups starts over.
Period(t) == 2 * Groups(t)

\* The unconditional loops of Probe_For_Lookup and Probe_For_Insert return.
ProbeEnds(t, k) == t.cap > 0 => \E n \in 0..(Period(t) - 1) : Decides(t, k, n)

\* The number of the probe that decides.
LastProbe(t, k) == Min({n \in 0..(Period(t) - 1) : Decides(t, k, n)})

\* Probe_For_Lookup, and Contains and Get before the first allocation.
Lookup(t, k) ==
  IF t.cap = 0
  THEN -1
  ELSE LET hits == {i \in GroupSlots(Probe(t, k, LastProbe(t, k))) : Hit(t, k, i)}
       IN  IF hits = {} THEN -1 ELSE Min(hits)

\* First_Free of Probe_For_Insert: the first tombstone or empty slot on the way.
FirstFree(t, k) ==
  LET spare(n) == {i \in GroupSlots(Probe(t, k, n)) : ~Live(t, i)}
  IN  Min(spare(Min({n \in 0..(Period(t) - 1) : spare(n) # {}})))

-----------------------------------------------------------------------------
(***************************************************************************)
(* Insert, Maybe_Grow, Rehash_Into, Delete, Clear.                         *)
(***************************************************************************)

\* Mutant of Put: the tombstone that is reused is still counted.
PutKeepsTombCount(t, k, v) ==
  LET found == Lookup(t, k)
      i     == IF found >= 0 THEN found ELSE FirstFree(t, k)
  IN  [t EXCEPT !.slot[i] = [key |-> k, val |-> v],
                !.size    = IF found >= 0 THEN @ ELSE @ + 1]

\* Mutant of Put: the first free slot is claimed before the key is looked for.
PutAtFirstFree(t, k, v) ==
  LET i == FirstFree(t, k)
  IN  [t EXCEPT !.slot[i] = [key |-> k, val |-> v],
                !.size    = @ + 1,
                !.tombs   = IF t.slot[i] = Tomb THEN @ - 1 ELSE @]

\* Insert after Maybe_Grow.
Put(t, k, v) ==
  LET found == Lookup(t, k)
      i     == IF found >= 0 THEN found ELSE FirstFree(t, k)
  IN  [t EXCEPT !.slot[i] = [key |-> k, val |-> v],
                !.size    = IF found >= 0 THEN @ ELSE @ + 1,
                !.tombs   = IF found < 0 /\ t.slot[i] = Tomb THEN @ - 1 ELSE @]

Threshold(cap) == (cap * 7) \div 8

\* Mutant of MustGrow: tombstones are not counted.
MustGrowOnSize(t) == t.size + 1 > Threshold(t.cap)

\* The test of Maybe_Grow, with Wanted = Size + 1.
MustGrow(t) == t.size + t.tombs + 1 > Threshold(t.cap)

PickNewCap(t) == IF t.size <= t.cap \div 2 THEN t.cap ELSE t.cap * 2

\* What Rehash_Into does with slot i of t: into u, if it is live.
Reinsert(t, u, i) == IF Live(t, i) THEN Put(u, t.slot[i].key, t.slot[i].val) ELSE u

\* Rehash_Into: the live slots, lowest index first, into a fresh table, which
\* its inserts do not grow (RehashNeverGrows in SwissTableProofs).
Rehash(t) ==
  LET into[n \in 0..t.cap] == IF n = 0 THEN Fresh(PickNewCap(t))
                                       ELSE Reinsert(t, into[n - 1], n - 1)
  IN  into[t.cap]

\* Maybe_Grow.
Grown(t) ==
  CASE t.cap = 0 -> Fresh(InitialCap)
    [] t.cap > 0 /\ MustGrow(t) -> Rehash(t)
    [] OTHER -> t

\* Mutant of Erase: the slot becomes empty whatever its group looks like.
EraseToEmpty(t, k) ==
  LET i == Lookup(t, k)
  IN  IF i < 0 THEN t ELSE [t EXCEPT !.slot[i] = Empty, !.size = @ - 1]

\* Mutant of Erase: Size goes down whether or not the key was there.
EraseCountsAbsent(t, k) ==
  LET i == Lookup(t, k)
  IN  IF i < 0 THEN [t EXCEPT !.size = @ - 1]
      ELSE [t EXCEPT !.slot[i] = Tomb, !.tombs = @ + 1, !.size = @ - 1]

\* Delete: an empty slot if its group has one already, else a tombstone.
Erase(t, k) ==
  LET i      == Lookup(t, k)
      hollow == \E j \in GroupSlots(i \div GroupSize) : t.slot[j] = Empty
  IN  IF i < 0 THEN t
      ELSE [t EXCEPT !.slot[i] = IF hollow THEN Empty ELSE Tomb,
                     !.tombs   = IF hollow THEN @ ELSE @ + 1,
                     !.size    = @ - 1]

\* Clear keeps the capacity.
Cleared(t) == Fresh(t.cap)

-----------------------------------------------------------------------------
(***************************************************************************)
(* Cursors: an index, -1 for No_Element.                                   *)
(***************************************************************************)

LiveFrom(t, i) ==
  LET live == {j \in i..(t.cap - 1) : Live(t, j)}
  IN  IF live = {} THEN -1 ELSE Min(live)

CursorFirst(t)   == IF t.cap = 0 \/ t.size = 0 THEN -1 ELSE LiveFrom(t, 0)

\* Mutant of CursorNext: an off-by-one in the index the walk goes on from.
CursorNextSkips(t, c) == IF t.cap = 0 \/ c < 0 THEN -1 ELSE LiveFrom(t, c + 2)

CursorNext(t, c) == IF t.cap = 0 \/ c < 0 THEN -1 ELSE LiveFrom(t, c + 1)

\* The keys of the live slots and their values: what lookups find when there is
\* one slot per key and it is found (SwissMap's OneEntryPerKey).
Contents(t) ==
  [k \in {j \in Keys : \E i \in DOMAIN t.slot : Hit(t, j, i)} |->
     t.slot[CHOOSE i \in DOMAIN t.slot : Hit(t, k, i)].val]

=============================================================================
