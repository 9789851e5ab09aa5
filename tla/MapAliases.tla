------------------------------ MODULE MapAliases ------------------------------
(***************************************************************************)
(* Several variables of type Map.  A Map is a record that refers to its    *)
(* control bytes and slots but holds Cap, Size and Tombstones itself, and  *)
(* emit lowers the Go assignment n = m, after which both name one map, to  *)
(* the copy N := M of that record.                                         *)
(***************************************************************************)
EXTENDS SwissTable

CONSTANTS
  Vars,    \* the variables of type Map
  Buffers  \* addresses of backing storage, at least one more than Vars

VARIABLES
  header,  \* each variable's record
  heap     \* the slots at each address

vars == <<header, heap>>

\* What an operation on x works with, and the record that stays in x.
Table(x) ==
  [slot |-> heap[header[x].buf], cap |-> header[x].cap,
   size |-> header[x].size, tombs |-> header[x].tombs]

Header(b, t) == [buf |-> b, cap |-> t.cap, size |-> t.size, tombs |-> t.tombs]

Used == {header[x].buf : x \in Vars}

\* Make_Map without a hint: every variable has a map of its own.
Init ==
  /\ header \in [Vars -> {Header(b, Fresh(0)) : b \in Buffers}]
  /\ \A x, y \in Vars : header[x].buf = header[y].buf => x = y
  /\ heap = [b \in Buffers |-> Fresh(0).slot]

\* x becomes t, in place.
Update(x, t) ==
  /\ header' = [header EXCEPT ![x] = Header(header[x].buf, t)]
  /\ heap' = [heap EXCEPT ![header[x].buf] = t.slot]

\* x becomes t, in storage just allocated.
Move(x, t, b) ==
  /\ b \in Buffers \ Used
  /\ header' = [header EXCEPT ![x] = Header(b, t)]
  /\ heap' = [heap EXCEPT ![b] = t.slot]

\* Bound: the rehash of a table whose record is stale, which may have to grow its
\* target in turn, is not followed.
Followed(t) == MustGrow(t) => t.size = Cardinality({i \in DOMAIN t.slot : Live(t, i)})

\* Insert; it does not return when its probe does not end.
Insert(x, k, v) ==
  LET t == Table(x) IN
  /\ Followed(t)
  /\ ProbeEnds(Grown(t), k)
  /\ IF t.cap = 0 \/ MustGrow(t)
     THEN \E b \in Buffers : Move(x, Put(Grown(t), k, v), b)
     ELSE Update(x, Put(t, k, v))

\* Delete.  The slot is written first; Size := Size - 1 raises at 0 and leaves it.
Delete(x, k) ==
  LET t == Table(x) IN
  /\ ProbeEnds(t, k)
  /\ Lookup(t, k) >= 0
  /\ Update(x, [Erase(t, k) EXCEPT !.size = IF t.size > 0 THEN @ ELSE 0])

\* y = x in Go, Y := X in Ada.
Assign(x, y) ==
  /\ header' = [header EXCEPT ![y] = header[x]]
  /\ UNCHANGED heap

Next ==
  \E x \in Vars :
    \/ \E k \in Keys : Delete(x, k) \/ \E v \in Values : Insert(x, k, v)
    \/ \E y \in Vars : Assign(x, y)

Spec == Init /\ [][Next]_vars

\* "The 7/8 load-factor invariant guarantees an Empty in every probe chain", as
\* the comment in Probe_For_Lookup says of its unconditional loop.
ProbesEnd == \A x \in Vars, k \in Keys : ProbeEnds(Table(x), k)

=============================================================================
