--------------------------- MODULE IRSessionProofs ----------------------------
(***************************************************************************)
(* The IR codec loses nothing and accepts only well-formed trees: proved   *)
(* for trees and documents of any size and any damage done to them.  The   *)
(* ASSUMEs of IRCodec, which TLC evaluates on the whole tables, say that    *)
(* the readers agree with the Go types; from them one step of the encoder  *)
(* and of the decoder is shown right when the calls it makes are, and      *)
(* induction on a rank does the rest.                                      *)
(***************************************************************************)
EXTENDS IRSession, DataLemmas, TLAPS

\* The recursion: a call for a child does what the node's own method does, and
\* a tree is well formed when each of its nodes fits.  These are the
\* definitions that MCIRSession gives to the three parameters.
Tied ==
  /\ \A n : Encode(n) = EncodeNode(n)
  /\ \A k, d : Decode(k, d) = DecodeNode(k, d)
  /\ \A n : WellFormed(n) <=> WellFormedNode(n)

\* Neither nil nor an error is a record or a sequence.
NoFunctions ==
  /\ Nil # [x \in DOMAIN Nil |-> Nil[x]]
  /\ Failed # [x \in DOMAIN Failed |-> Failed[x]]

-----------------------------------------------------------------------------
(* What the tables say of one field, and a fitting node of its value. *)

\* A row of the table fits its field, whose key leads back to it.
LEMMA RowFacts ==
  ASSUME NEW k \in DOMAIN Wire, NEW f \in DOMAIN Wire[k]
  PROVE  /\ RowFits(k, f)
         /\ k \in DOMAIN Shape /\ f \in Fields(k)
         /\ f # "kind" /\ (f = "case" <=> k = "SelectCase" /\ KeyOf(f) = "kind")
         /\ FieldAt(Wire[k], KeyOf(f)) = f
BY WireAgrees DEF FieldAt, KeyOf

\* The value of a field that is read by r: nil, or of the Go type of r.
ValueOf(r, v, children) ==
  /\ v # Failed
  /\ r.how \in {"string", "nonempty", "casekind", "bool", "required"} => v # Nil
  /\ r.how = "nonempty" => v # ""
  /\ r.how = "casekind" => v \in CaseKinds
  /\ v # Nil /\ r.how \in ChildReaders => v \in children /\ v.kind \in KindsOf(r.cat)
  /\ v # Nil /\ r.how \in ListReaders =>
       /\ v = [i \in DOMAIN v |-> v[i]]
       /\ \A i \in DOMAIN v :
            IF v[i] = Nil THEN r.how = "pointers"
            ELSE v[i] \in children /\ v[i].kind \in KindsOf(r.cat)

\* The fields of a fitting node have values of their readers' types.
LEMMA NodeValues ==
  ASSUME NEW n, NodeFits(n), NEW f \in Fields(n.kind)
  PROVE  ValueOf(Wire[n.kind][f], n[f], Children(n))
<1> DEFINE k == n.kind
           r == Wire[k][f]
           c == Shape[k][f]
           v == n[f]
<1>1. k \in DOMAIN Wire /\ f \in DOMAIN Wire[k]
  BY WireAgrees DEF NodeFits
<1>2. RowFits(k, f) /\ Fits(c, v)
  BY <1>1, RowFacts DEF NodeFits
<1>3. c = ReaderType(r)
  BY <1>2 DEF RowFits
<1>4. ChildrenAt(c, v) \subseteq Children(n)
  BY DEF Children
<1>5. v # Failed /\ (r.how = "strings" => TRUE)
  BY <1>2 DEF Fits
<1>6. CASE r.how \in {"string", "nonempty", "casekind"}
  <2>1. c = "string"
    BY <1>3, <1>6 DEF ReaderType, ListReaders, ChildReaders
  <2>2. v # Nil
    BY <1>2, <2>1 DEF Fits
  <2>3. r.how = "nonempty" => v # ""
    BY <1>2 DEF RowFits, NodeFits
  <2>4. r.how = "casekind" => v \in CaseKinds
    BY <1>2 DEF RowFits, NodeFits
  <2> HIDE DEF r, v, c, k
  <2>5. QED
    BY <1>5, <1>6, <2>2, <2>3, <2>4 DEF ValueOf, ChildReaders, ListReaders, r, v, k
<1>7. CASE r.how = "bool"
  <2>1. c = "bool"
    BY <1>3, <1>7 DEF ReaderType, ListReaders, ChildReaders
  <2>2. v # Nil
    BY <1>2, <2>1 DEF Fits
  <2>3. QED
    BY <1>5, <1>7, <2>2 DEF ValueOf, ChildReaders, ListReaders
<1>8. CASE r.how = "strings"
  BY <1>5, <1>8 DEF ValueOf, ChildReaders, ListReaders
<1>9. CASE r.how \in ChildReaders
  <2>1. /\ c = r.cat
        /\ c \in DOMAIN Envelope \cup RecordKinds
    BY <1>2, <1>3, <1>9 DEF ReaderType, RowFits, ChildReaders, ListReaders
  <2>2. ~ IsList(c) /\ c \notin {"string", "bool", List("string")}
    BY <2>1, ListsApart, EnvelopesComplete DEF Elements, RecordKinds
  <2>3. v # Nil => v.kind \in KindsOf(c) /\ ChildrenAt(c, v) = {v}
    BY <1>2, <2>2 DEF Fits, ChildrenAt
  <2>4. r.how = "required" => v # Nil
    BY <1>2 DEF RowFits, NodeFits
  <2>5. QED
    BY <1>4, <1>5, <1>9, <2>1, <2>3, <2>4 DEF ValueOf, ChildReaders, ListReaders
<1>10. CASE r.how \in ListReaders
  <2>1. c = List(r.cat) /\ r.cat \in Elements /\ r.cat # "string"
    BY <1>2, <1>3, <1>10 DEF ReaderType, RowFits, ListReaders, ChildReaders
  <2>2. IsList(c) /\ ElemOf(c) = r.cat
    BY <2>1, ListsApart
  <2>3. c \notin {"string", "bool", List("string")}
    BY <2>1, <2>2, ListsApart DEF Elements
  <2>4. v # Nil =>
          /\ v = [i \in DOMAIN v |-> v[i]]
          /\ \A i \in DOMAIN v : ElementFits(r.cat, v[i])
          /\ ChildrenAt(c, v) = {v[i] : i \in {j \in DOMAIN v : v[j] # Nil}}
    BY <1>2, <2>2, <2>3 DEF Fits, ChildrenAt
  <2>5. \A e : ElementFits(r.cat, e) =>
               IF e = Nil THEN r.how = "pointers" ELSE e.kind \in KindsOf(r.cat)
    BY <1>2, <1>10, EnvelopesComplete DEF ElementFits, RowFits, ListReaders
  <2>6. v # Nil => \A i \in DOMAIN v : v[i] # Nil => v[i] \in Children(n)
    BY <1>4, <2>4
  <2>7. QED
    BY <1>5, <1>10, <2>4, <2>5, <2>6 DEF ValueOf, ChildReaders, ListReaders
<1>11. QED
  BY <1>2, <1>6, <1>7, <1>8, <1>9, <1>10 DEF RowFits

-----------------------------------------------------------------------------
(* Writing one node. *)

\* A node's form is an object, and says the node's kind.
LEMMA Written ==
  ASSUME NEW n, NodeFits(n), NoFunctions
  PROVE  /\ n # Nil /\ n # Failed
         /\ EncodeNode(n) # Nil
         /\ n.kind # "SelectCase" => /\ At(EncodeNode(n), "kind") = n.kind
                                     /\ EncodeNode(n)["kind"] = n.kind
<1> DEFINE w == Wire[n.kind]
           S == {f \in DOMAIN w : ~ (w[f].omit /\ Zero(n[f], w[f]))}
           D == {"kind"} \cup {KeyOf(f) : f \in S}
           e == [key \in D |->
                   LET f == FieldAt(w, key)
                   IN  IF f = "kind" THEN n.kind ELSE EncodeValue(n[f], w[f])]
<1>1. n = [f \in DOMAIN n |-> n[f]]
  BY DEF NodeFits
<1>2. n # Nil /\ n # Failed
  BY <1>1 DEF NoFunctions
<1>3. EncodeNode(n) = e
  BY <1>2 DEF EncodeNode
<1>4. e = [x \in DOMAIN e |-> e[x]] /\ DOMAIN e = D
  OBVIOUS
<1>5. e # Nil
  BY <1>4 DEF NoFunctions
<1>6. ASSUME n.kind # "SelectCase" PROVE FieldAt(w, "kind") = "kind"
  BY <1>6, WireAgrees DEF FieldAt, NodeFits
<1>7. ASSUME n.kind # "SelectCase" PROVE e["kind"] = n.kind
  BY <1>6, <1>7
<1>8. "kind" \in DOMAIN e
  BY <1>4
<1> HIDE DEF e
<1>9. QED
  BY <1>2, <1>3, <1>5, <1>7, <1>8 DEF At

\* What is found under a field's key is what was written from the field.
LEMMA WrittenField ==
  ASSUME NEW n, NodeFits(n), NoFunctions, NEW f \in Fields(n.kind)
  PROVE  At(EncodeNode(n), KeyOf(f)) =
           LET r == Wire[n.kind][f]
           IN  IF r.omit /\ Zero(n[f], r) THEN Nil ELSE EncodeValue(n[f], r)
<1> DEFINE w == Wire[n.kind]
           S == {g \in DOMAIN w : ~ (w[g].omit /\ Zero(n[g], w[g]))}
           D == {"kind"} \cup {KeyOf(g) : g \in S}
           val(g) == IF g = "kind" THEN n.kind ELSE EncodeValue(n[g], w[g])
           e == [key \in D |-> val(FieldAt(w, key))]
<1>1. EncodeNode(n) = e
  BY Written DEF EncodeNode
<1>2. \A g \in DOMAIN w : g # "kind" /\ FieldAt(w, KeyOf(g)) = g
  BY RowFacts, WireAgrees DEF NodeFits
<1>3. f \in DOMAIN w /\ DOMAIN e = D
  BY WireAgrees DEF NodeFits
<1>4. CASE f \in S
  <2>1. KeyOf(f) \in D
    BY <1>4
  <2>2. e[KeyOf(f)] = val(f)
    BY <2>1, <1>2, <1>3
  <2>3. val(f) = EncodeValue(n[f], w[f])
    BY <1>2, <1>3
  <2> HIDE DEF e, D
  <2>4. QED
    BY <1>1, <1>3, <1>4, <2>1, <2>2, <2>3 DEF At
<1>5. CASE f \notin S
  <2>1. w[f].omit /\ Zero(n[f], w[f])
    BY <1>3, <1>5
  <2>2. KeyOf(f) # "kind"
    <3>1. n.kind \in DOMAIN Wire
      BY WireAgrees DEF NodeFits
    <3>2. RowFits(n.kind, f) /\ f # "kind"
      BY <3>1, <1>3, RowFacts
    <3>3. f # "case"
      BY <2>1, <3>2 DEF RowFits
    <3>4. QED
      BY <3>2, <3>3 DEF KeyOf
  <2>3. KeyOf(f) \notin D
    <3>1. SUFFICES ASSUME NEW g \in S, KeyOf(g) = KeyOf(f) PROVE FALSE
      BY <2>2
    <3>2. g = f
      BY <1>2, <1>3, <3>1
    <3>3. QED
      BY <3>2, <1>5
  <2> HIDE DEF e, D
  <2>4. QED
    BY <1>1, <1>3, <2>1, <2>3 DEF At
<1>6. QED
  BY <1>4, <1>5

-----------------------------------------------------------------------------
(* Reading what was written. *)

\* A node that comes back from its own form.
Trips(n) == NodeFits(n) /\ Decode(n.kind, Encode(n)) = n

\* A child comes back through the envelope of its interface.
LEMMA ChildBack ==
  ASSUME NEW n, Trips(n), NEW c \in DOMAIN Envelope, n.kind \in KindsOf(c),
         Tied, NoFunctions
  PROVE  DecodeChild(c, Encode(n)) = n
<1>1. n.kind \in Envelope[c] /\ n.kind # "SelectCase"
  BY EnvelopesComplete DEF RecordKinds
<1>2. /\ Encode(n) # Nil
      /\ At(Encode(n), "kind") = n.kind
      /\ Encode(n)["kind"] = n.kind
  BY <1>1, Written DEF Trips, Tied
<1>3. QED
  BY <1>1, <1>2 DEF DecodeChild, Trips

\* A record comes back through its own decoder.
LEMMA RecordBack ==
  ASSUME NEW n, Trips(n), NEW k \in RecordKinds, n.kind \in KindsOf(k),
         Tied, NoFunctions
  PROVE  Encode(n) # Nil /\ Decode(k, Encode(n)) = n
<1>1. n.kind = k
  BY EnvelopesComplete
<1>2. QED
  BY <1>1, Written DEF Trips, Tied

\* An element of a slice comes back, null as a nil pointer.
LEMMA ElementBack ==
  ASSUME NEW k \in DOMAIN Wire, NEW f \in DOMAIN Wire[k], NEW e,
         Wire[k][f].how \in ListReaders,
         IF e = Nil THEN Wire[k][f].how = "pointers"
         ELSE Trips(e) /\ e.kind \in KindsOf(Wire[k][f].cat),
         Tied, NoFunctions
  PROVE  DecodeElement(Wire[k][f], Encode(e)) = e /\ e # Failed
<1> DEFINE r == Wire[k][f]
<1>1. RowFits(k, f)
  BY RowFacts
<1>2. CASE e = Nil
  <2>1. Encode(e) = Nil
    BY <1>2 DEF Tied, EncodeNode
  <2>2. QED
    BY <1>2, <2>1, ScalarsApart DEF DecodeElement
<1>3. CASE e # Nil
  <2>1. e # Failed
    BY <1>3, Written DEF Trips
  <2>2. CASE r.how = "raws"
    <3>1. r.cat \in DOMAIN Envelope
      BY <1>1, <2>2 DEF RowFits
    <3>2. DecodeChild(r.cat, Encode(e)) = e
      BY <1>3, <3>1, ChildBack
    <3>3. QED
      BY <2>1, <2>2, <3>2 DEF DecodeElement
  <2>3. CASE r.how \in {"pointers", "cases"}
    <3>1. r.cat \in RecordKinds
      BY <1>1, <2>3 DEF RowFits, RecordKinds
    <3>2. Encode(e) # Nil /\ Decode(r.cat, Encode(e)) = e
      BY <1>3, <3>1, RecordBack
    <3>3. QED
      BY <2>1, <2>3, <3>2 DEF DecodeElement
  <2>4. QED
    BY <2>2, <2>3 DEF ListReaders
<1>4. QED
  BY <1>2, <1>3

\* The value of a field comes back, from an absent key too if it was omitted.
LEMMA ValueBack ==
  ASSUME NEW k \in DOMAIN Wire, NEW f \in DOMAIN Wire[k], NEW v, NEW C,
         ValueOf(Wire[k][f], v, C), \A c \in C : Trips(c),
         Tied, NoFunctions
  PROVE  /\ DecodeValue(Wire[k][f], EncodeValue(v, Wire[k][f])) = v
         /\ Wire[k][f].omit /\ Zero(v, Wire[k][f]) => DecodeValue(Wire[k][f], Nil) = v
<1> DEFINE r == Wire[k][f]
           x == EncodeValue(v, r)
<1>1. RowFits(k, f)
  BY RowFacts
<1>2. CASE r.how \in {"string", "nonempty", "casekind", "bool", "strings"}
  <2>1. x = v
    BY <1>2 DEF EncodeValue, ListReaders, ChildReaders
  <2>2. QED
    BY <1>1, <1>2, <2>1 DEF DecodeValue, ValueOf, RowFits, Zero, ListReaders
<1>3. CASE r.how \in ChildReaders /\ v = Nil
  <2>1. x = v /\ r.how # "required"
    BY <1>3 DEF EncodeValue, ValueOf
  <2>2. QED
    BY <1>3, <2>1 DEF DecodeValue, DecodeOptional, ChildReaders, ListReaders
<1>4. CASE r.how \in ChildReaders /\ v # Nil
  <2>1. x = Encode(v) /\ Trips(v) /\ v.kind \in KindsOf(r.cat)
    BY <1>4 DEF EncodeValue, ValueOf, ChildReaders, ListReaders
  <2>2. x # Nil
    BY <2>1, Written DEF Trips, Tied
  <2>3. ~ (r.omit /\ Zero(v, r))
    BY <1>4 DEF Zero, ChildReaders
  <2>4. CASE r.how = "pointer"
    <3>1. r.cat \in RecordKinds
      BY <1>1, <2>4 DEF RowFits
    <3>2. Decode(r.cat, x) = v
      BY <2>1, <3>1, RecordBack
    <3>3. QED
      BY <2>2, <2>3, <2>4, <3>2 DEF DecodeValue, ListReaders
  <2>5. CASE r.how \in {"optional", "required"}
    <3>1. r.cat \in DOMAIN Envelope
      BY <1>1, <2>5 DEF RowFits
    <3>2. DecodeChild(r.cat, x) = v
      BY <2>1, <3>1, ChildBack
    <3>3. QED
      BY <2>2, <2>3, <2>5, <3>2 DEF DecodeValue, DecodeOptional, ListReaders
  <2>6. QED
    BY <1>4, <2>4, <2>5 DEF ChildReaders
<1>5. CASE r.how \in ListReaders
  <2>1. ~ r.omit
    BY <1>1, <1>5 DEF RowFits, ListReaders
  <2>2. DecodeValue(r, x) = DecodeList(r, x)
    BY <1>5 DEF DecodeValue, ListReaders
  <2>3. CASE v = Nil
    BY <2>1, <2>2, <2>3 DEF EncodeValue, DecodeList
  <2>4. CASE v # Nil
    <3>1. x = [i \in DOMAIN v |-> Encode(v[i])]
      BY <1>5, <2>4 DEF EncodeValue, ListReaders, ChildReaders
    <3>2. x # Nil /\ DOMAIN x = DOMAIN v
      BY <3>1 DEF NoFunctions
    <3>3. ASSUME NEW i \in DOMAIN v
          PROVE  DecodeElement(r, x[i]) = v[i] /\ v[i] # Failed
      <4>1. IF v[i] = Nil THEN r.how = "pointers"
            ELSE Trips(v[i]) /\ v[i].kind \in KindsOf(r.cat)
        BY <1>5, <2>4 DEF ValueOf
      <4>2. DecodeElement(r, Encode(v[i])) = v[i] /\ v[i] # Failed
        BY <4>1, <1>5, ElementBack
      <4>3. QED
        BY <3>1, <4>2
    <3>4. v = [i \in DOMAIN v |-> v[i]]
      BY <1>5, <2>4 DEF ValueOf
    <3> HIDE DEF x, r
    <3>5. DecodeList(r, x) = [i \in DOMAIN v |-> v[i]]
      BY <3>2, <3>3 DEF DecodeList
    <3>6. QED
      BY <2>1, <2>2, <3>4, <3>5 DEF x, r
  <2>5. QED
    BY <2>3, <2>4
<1>6. QED
  BY <1>1, <1>2, <1>3, <1>4, <1>5 DEF RowFits

\* A node comes back when its children do.
LEMMA RoundTripStep ==
  ASSUME NEW n, NodeFits(n), \A c \in Children(n) : Trips(c),
         Tied, NoFunctions
  PROVE  Trips(n)
<1> DEFINE k == n.kind
           w == Wire[k]
           d == Encode(n)
           read(f) == DecodeValue(w[f], At(d, KeyOf(f)))
           got == [f \in {"kind"} \cup DOMAIN w |-> IF f = "kind" THEN k ELSE read(f)]
<1>1. k \in DOMAIN Wire /\ DOMAIN w = Fields(k) /\ d = EncodeNode(n)
  BY WireAgrees DEF NodeFits, Tied
<1>2. ASSUME NEW f \in DOMAIN w
      PROVE  read(f) = n[f] /\ n[f] # Failed /\ f # "kind"
  <2> DEFINE r == w[f]
             v == n[f]
  <2>1. ValueOf(r, v, Children(n))
    BY <1>1, NodeValues
  <2>2. At(d, KeyOf(f)) = IF r.omit /\ Zero(v, r) THEN Nil ELSE EncodeValue(v, r)
    BY <1>1, WrittenField
  <2>3. /\ DecodeValue(r, EncodeValue(v, r)) = v
        /\ r.omit /\ Zero(v, r) => DecodeValue(r, Nil) = v
    BY <1>1, <2>1, ValueBack
  <2>4. f # "kind"
    BY <1>1, RowFacts
  <2> HIDE DEF r, v, d
  <2>5. read(f) = v
    BY <2>2, <2>3 DEF r
  <2>6. QED
    BY <2>1, <2>4, <2>5 DEF ValueOf, v
<1>3. n = [f \in {"kind"} \cup DOMAIN w |-> n[f]]
  BY <1>1 DEF NodeFits
<1>4. got = n
  <2>1. \A f \in {"kind"} \cup DOMAIN w : got[f] = n[f]
    BY <1>2
  <2>2. QED
    BY <2>1, <1>3
<1>5. DecodeNode(k, d) = IF \E f \in DOMAIN w : got[f] = Failed THEN Failed ELSE got
  BY DEF DecodeNode
<1>6. \A f \in DOMAIN w : got[f] # Failed
  BY <1>2
<1> HIDE DEF got, d, w
<1>7. DecodeNode(k, d) = n
  BY <1>4, <1>5, <1>6
<1>8. QED
  BY <1>7 DEF Trips, Tied, d, k

\* A finite tree of fitting nodes comes back.
LEMMA TreesComeBack ==
  ASSUME NEW T, NEW rank,
         \A n \in T : /\ rank[n] \in Nat
                      /\ \A c \in Children(n) : c \in T /\ rank[c] < rank[n],
         Tied, NoFunctions
  PROVE  \A n \in T : WellFormed(n) => Trips(n)
<1> DEFINE Good == {n \in T : WellFormed(n) => Trips(n)}
<1>1. ASSUME NEW n \in T, \A c \in T : rank[c] < rank[n] => c \in Good,
             WellFormed(n)
      PROVE  Trips(n)
  <2>1. NodeFits(n) /\ \A c \in Children(n) : WellFormed(c)
    BY <1>1 DEF Tied, WellFormedNode
  <2>2. \A c \in Children(n) : Trips(c)
    BY <1>1, <2>1
  <2>3. QED
    BY <2>1, <2>2, RoundTripStep
<1>2. \A n \in T : (\A c \in T : rank[c] < rank[n] => c \in Good) => n \in Good
  BY <1>1
<1> HIDE DEF Good
<1>3. T \subseteq Good
  BY <1>2, RankInduction
<1>4. QED
  BY <1>3 DEF Good

-----------------------------------------------------------------------------
(* What the decoder accepts, whatever the document is. *)

\* The decoder's calls for the value v of a key with the reader r.
CallsAt(r, v) ==
  CASE v # Nil /\ r.how \in {"optional", "required"} -> {<<At(v, "kind"), v>>}
    [] v # Nil /\ r.how = "pointer" -> {<<r.cat, v>>}
    [] v # Nil /\ r.how = "raws" ->
         {<<At(v[i], "kind"), v[i]>> : i \in {j \in DOMAIN v : v[j] # Nil}}
    [] v # Nil /\ r.how \in {"pointers", "cases"} ->
         {<<r.cat, v[i]>> : i \in {j \in DOMAIN v : v[j] # Nil}}
    [] OTHER -> {}

\* The calls that UnmarshalJSON of a kind makes on an object: kinds and objects.
Calls(k, d) ==
  {c \in UNION {CallsAt(Wire[k][f], At(d, KeyOf(f))) : f \in DOMAIN Wire[k]} :
     k \in DOMAIN Wire /\ c[1] \in DOMAIN Wire}

\* The nodes these calls return.
Results(k, d) == {Decode(c[1], c[2]) : c \in Calls(k, d)} \ {Failed}

\* The decoder of a kind returns a node of that kind.
LEMMA DecodedKind ==
  ASSUME NEW k, NEW d, Decode(k, d) # Failed, Tied, NoFunctions
  PROVE  Decode(k, d).kind = k /\ Decode(k, d) # Nil
<1> DEFINE w == Wire[k]
           got == [f \in {"kind"} \cup DOMAIN w |->
                     IF f = "kind" THEN k ELSE DecodeValue(w[f], At(d, KeyOf(f)))]
<1>1. Decode(k, d) = DecodeNode(k, d)
  BY DEF Tied
<1>2. DecodeNode(k, d) = IF \E f \in DOMAIN w : got[f] = Failed THEN Failed ELSE got
  BY DEF DecodeNode
<1>3. got["kind"] = k
  OBVIOUS
<1>4. got = [x \in DOMAIN got |-> got[x]]
  OBVIOUS
<1>5. got # Nil
  BY <1>4 DEF NoFunctions
<1> HIDE DEF got
<1>6. QED
  BY <1>1, <1>2, <1>3, <1>5

\* What an envelope returns is the result of a call, of a kind it knows.
LEMMA ChildResult ==
  ASSUME NEW k \in DOMAIN Wire, NEW d, Tied, NoFunctions,
         NEW f \in DOMAIN Wire[k], NEW c \in DOMAIN Envelope, NEW v,
         v # Nil => <<At(v, "kind"), v>> \in CallsAt(Wire[k][f], At(d, KeyOf(f))),
         DecodeChild(c, v) # Failed
  PROVE  /\ DecodeChild(c, v) # Nil /\ DecodeChild(c, v) \in Results(k, d)
         /\ DecodeChild(c, v).kind \in KindsOf(c)
<1> DEFINE b == DecodeChild(c, v)
           e == <<At(v, "kind"), v>>
<1>1. /\ v # Nil /\ At(v, "kind") \in Envelope[c]
      /\ b = Decode(At(v, "kind"), v)
  BY DEF DecodeChild
<1>2. e \in Calls(k, d)
  BY <1>1, EnvelopesComplete DEF Calls
<1>3. b = Decode(e[1], e[2])
  BY <1>1
<1>4. b.kind = At(v, "kind") /\ b # Nil
  BY <1>1, DecodedKind
<1>5. QED
  BY <1>1, <1>2, <1>3, <1>4, EnvelopesComplete DEF Results

\* What a record's decoder returns is the result of a call, of its kind.
LEMMA RecordResult ==
  ASSUME NEW k \in DOMAIN Wire, NEW d, Tied, NoFunctions,
         NEW f \in DOMAIN Wire[k], NEW c \in RecordKinds, NEW v,
         <<c, v>> \in CallsAt(Wire[k][f], At(d, KeyOf(f))),
         Decode(c, v) # Failed
  PROVE  /\ Decode(c, v) # Nil /\ Decode(c, v) \in Results(k, d)
         /\ Decode(c, v).kind \in KindsOf(c)
<1> DEFINE e == <<c, v>>
<1>1. e \in Calls(k, d)
  BY EnvelopesComplete DEF Calls
<1>2. Decode(c, v).kind = c /\ Decode(c, v) # Nil
  BY DecodedKind
<1>3. Decode(c, v) = Decode(e[1], e[2])
  OBVIOUS
<1>4. QED
  BY <1>1, <1>2, <1>3, EnvelopesComplete DEF Results

\* What is stored for an element of a slice is such a result, or nil.
LEMMA ElementResult ==
  ASSUME NEW k \in DOMAIN Wire, NEW d, Tied, NoFunctions,
         NEW f \in DOMAIN Wire[k], Wire[k][f].how \in ListReaders,
         At(d, KeyOf(f)) # Nil, NEW i \in DOMAIN At(d, KeyOf(f)),
         NEW b, b = DecodeElement(Wire[k][f], At(d, KeyOf(f))[i]), b # Failed
  PROVE  IF b = Nil THEN Wire[k][f].how = "pointers"
         ELSE b \in Results(k, d) /\ b.kind \in KindsOf(Wire[k][f].cat)
<1> DEFINE r == Wire[k][f]
           v == At(d, KeyOf(f))
<1>1. RowFits(k, f)
  BY RowFacts
<1>2. SUFFICES ASSUME b = Nil => r.how # "pointers"
               PROVE  b # Nil /\ b \in Results(k, d) /\ b.kind \in KindsOf(r.cat)
  OBVIOUS
<1>3. CASE r.how = "raws"
  <2>1. b = DecodeChild(r.cat, v[i]) /\ r.cat \in DOMAIN Envelope
    BY <1>1, <1>3 DEF DecodeElement, RowFits
  <2>2. v[i] # Nil => <<At(v[i], "kind"), v[i]>> \in CallsAt(r, v)
    BY <1>3 DEF CallsAt
  <2>3. b # Nil /\ b \in Results(k, d) /\ b.kind \in KindsOf(r.cat)
    <3> DEFINE x == v[i]
    <3>1. x # Nil => <<At(x, "kind"), x>> \in CallsAt(r, v)
      BY <2>2
    <3>2. b = DecodeChild(r.cat, x)
      BY <2>1
    <3> HIDE DEF x
    <3>3. QED
      BY <2>1, <3>1, <3>2, ChildResult
  <2>4. QED
    BY <2>3
<1>4. CASE r.how \in {"pointers", "cases"}
  <2>1. r.cat \in RecordKinds
    BY <1>1, <1>4 DEF RowFits, RecordKinds
  <2>2. v[i] # Nil /\ b = Decode(r.cat, v[i])
    BY <1>2, <1>4 DEF DecodeElement
  <2>3. <<r.cat, v[i]>> \in CallsAt(r, v)
    BY <1>4, <2>2 DEF CallsAt
  <2>4. b # Nil /\ b \in Results(k, d) /\ b.kind \in KindsOf(r.cat)
    <3> DEFINE x == v[i]
    <3>1. <<r.cat, x>> \in CallsAt(r, v) /\ b = Decode(r.cat, x)
      BY <2>2, <2>3
    <3> HIDE DEF x
    <3>2. QED
      BY <2>1, <3>1, RecordResult
  <2>5. QED
    BY <2>4
<1>5. QED
  BY <1>3, <1>4 DEF ListReaders

\* What the decoder stores in a field is of the field's Go type.
LEMMA ValueAccepted ==
  ASSUME NEW k \in DOMAIN Wire, NEW d, Tied, NoFunctions,
         NEW f \in DOMAIN Wire[k],
         NEW b, b = DecodeValue(Wire[k][f], At(d, KeyOf(f))), b # Failed
  PROVE  ValueOf(Wire[k][f], b, Results(k, d))
<1> DEFINE r == Wire[k][f]
           v == At(d, KeyOf(f))
<1>1. RowFits(k, f)
  BY RowFacts
<1>2. CASE r.how \in {"string", "nonempty", "casekind", "bool", "strings"}
  BY <1>2, ScalarsApart DEF ValueOf, DecodeValue, ListReaders, ChildReaders
<1>3. CASE r.how \in ChildReaders
  <2>1. CASE b = Nil
    <3>1. r.how # "required"
      <4>1. SUFFICES ASSUME r.how = "required" PROVE FALSE
        OBVIOUS
      <4>2. b = DecodeChild(r.cat, v) /\ r.cat \in DOMAIN Envelope
        BY <4>1, <1>1 DEF DecodeValue, ListReaders, RowFits
      <4>3. <<At(v, "kind"), v>> \in CallsAt(r, v) \/ v = Nil
        BY <4>1 DEF CallsAt
      <4> HIDE DEF v
      <4>4. b # Nil
        BY <4>2, <4>3, ChildResult DEF v
      <4>5. QED
        BY <4>4, <2>1
    <3>2. QED
      BY <1>3, <2>1, <3>1 DEF ValueOf, ChildReaders, ListReaders
  <2>2. CASE b # Nil /\ r.how = "pointer"
    <3>1. v # Nil /\ b = Decode(r.cat, v) /\ r.cat \in RecordKinds
      BY <1>1, <2>2 DEF DecodeValue, ListReaders, RowFits
    <3>2. <<r.cat, v>> \in CallsAt(r, v)
      BY <2>2, <3>1 DEF CallsAt
    <3> HIDE DEF v
    <3>3. b \in Results(k, d) /\ b.kind \in KindsOf(r.cat)
      BY <3>1, <3>2, RecordResult DEF v
    <3>4. QED
      BY <2>2, <3>3 DEF ValueOf, ChildReaders, ListReaders
  <2>3. CASE b # Nil /\ r.how \in {"optional", "required"}
    <3>1. b = DecodeChild(r.cat, v) /\ r.cat \in DOMAIN Envelope
      BY <1>1, <2>3 DEF DecodeValue, DecodeOptional, ListReaders, RowFits
    <3>2. <<At(v, "kind"), v>> \in CallsAt(r, v) \/ v = Nil
      BY <2>3 DEF CallsAt
    <3> HIDE DEF v
    <3>3. b \in Results(k, d) /\ b.kind \in KindsOf(r.cat)
      BY <3>1, <3>2, ChildResult DEF v
    <3>4. QED
      BY <2>3, <3>3 DEF ValueOf, ChildReaders, ListReaders
  <2>4. QED
    BY <1>3, <2>1, <2>2, <2>3 DEF ChildReaders
<1>4. CASE r.how \in ListReaders
  <2>1. b = DecodeList(r, v)
    BY <1>4 DEF DecodeValue, ListReaders
  <2>2. CASE b = Nil
    BY <1>4, <2>2 DEF ValueOf, ChildReaders, ListReaders
  <2>3. CASE b # Nil
    <3>1. /\ v # Nil
          /\ \A i \in DOMAIN v : DecodeElement(r, v[i]) # Failed
          /\ b = [i \in DOMAIN v |-> DecodeElement(r, v[i])]
      BY <2>1, <2>3 DEF DecodeList
    <3>2. DOMAIN b = DOMAIN v /\ b = [i \in DOMAIN b |-> b[i]]
      BY <3>1
    <3>3. ASSUME NEW i \in DOMAIN b
          PROVE  IF b[i] = Nil THEN r.how = "pointers"
                 ELSE b[i] \in Results(k, d) /\ b[i].kind \in KindsOf(r.cat)
      <4>1. i \in DOMAIN v /\ b[i] = DecodeElement(r, v[i]) /\ b[i] # Failed
        BY <3>1, <3>2
      <4>2. QED
        BY <1>4, <3>1, <4>1, ElementResult
    <3>4. QED
      BY <1>4, <2>3, <3>2, <3>3 DEF ValueOf, ChildReaders, ListReaders
  <2>4. QED
    BY <2>2, <2>3
<1>5. QED
  BY <1>1, <1>2, <1>3, <1>4 DEF RowFits

\* A record whose fields have values of their Go types is a node that fits.
LEMMA NodeFromValues ==
  ASSUME NEW n, n.kind \in DOMAIN Wire, NEW C,
         n = [f \in {"kind"} \cup Fields(n.kind) |-> n[f]],
         \A f \in Fields(n.kind) : ValueOf(Wire[n.kind][f], n[f], C)
  PROVE  NodeFits(n) /\ Children(n) \subseteq C
<1> DEFINE k == n.kind
<1>1. k \in DOMAIN Shape /\ DOMAIN Wire[k] = Fields(k)
  BY WireAgrees
<1>2. ASSUME NEW f \in Fields(k)
      PROVE  Fits(Shape[k][f], n[f]) /\ ChildrenAt(Shape[k][f], n[f]) \subseteq C
  <2> DEFINE r == Wire[k][f]
             c == Shape[k][f]
             v == n[f]
  <2>1. RowFits(k, f) /\ ValueOf(r, v, C)
    BY <1>1, RowFacts
  <2>2. c = ReaderType(r) /\ v # Failed
    BY <2>1 DEF RowFits, ValueOf
  <2>3. CASE r.how \in {"string", "nonempty", "casekind", "bool"}
    <3>1. c \in {"string", "bool"}
      BY <2>2, <2>3 DEF ReaderType, ListReaders, ChildReaders
    <3>2. v # Nil
      BY <2>1, <2>3 DEF ValueOf
    <3>3. QED
      BY <2>2, <3>1, <3>2 DEF Fits, ChildrenAt
  <2>4. CASE r.how = "strings"
    <3>1. c = List("string")
      BY <2>2, <2>4 DEF ReaderType, ListReaders, ChildReaders
    <3>2. c \notin {"string", "bool"}
      BY <3>1, ListsApart DEF Elements
    <3>3. QED
      BY <2>2, <3>1, <3>2 DEF Fits, ChildrenAt
  <2>5. CASE r.how \in ChildReaders
    <3>1. c = r.cat /\ c \in DOMAIN Envelope \cup RecordKinds
      BY <2>1, <2>2, <2>5 DEF ReaderType, RowFits, ChildReaders, ListReaders
    <3>2. ~ IsList(c) /\ c \notin {"string", "bool", List("string")}
      BY <3>1, ListsApart, EnvelopesComplete DEF Elements, RecordKinds
    <3>3. v # Nil => v \in C /\ v.kind \in KindsOf(c)
      BY <2>1, <2>5, <3>1 DEF ValueOf
    <3>4. QED
      BY <2>2, <3>2, <3>3 DEF Fits, ChildrenAt
  <2>6. CASE r.how \in ListReaders
    <3>1. c = List(r.cat) /\ r.cat \in Elements /\ r.cat # "string"
      BY <2>1, <2>2, <2>6 DEF ReaderType, RowFits, ListReaders, ChildReaders
    <3>2. IsList(c) /\ ElemOf(c) = r.cat
      BY <3>1, ListsApart
    <3>3. c \notin {"string", "bool", List("string")}
      BY <3>1, <3>2, ListsApart DEF Elements
    <3>4. v # Nil =>
            /\ v = [i \in DOMAIN v |-> v[i]]
            /\ \A i \in DOMAIN v :
                 IF v[i] = Nil THEN r.how = "pointers"
                 ELSE v[i] \in C /\ v[i].kind \in KindsOf(r.cat)
      BY <2>1, <2>6 DEF ValueOf
    <3>5. r.how = "pointers" => r.cat \in RecordKinds \ {"SelectCase"}
      BY <2>1 DEF RowFits
    <3>6. v # Nil => \A i \in DOMAIN v : ElementFits(r.cat, v[i])
      BY <3>4, <3>5 DEF ElementFits
    <3>7. Fits(c, v)
      BY <2>2, <3>2, <3>3, <3>4, <3>6 DEF Fits
    <3>8. ChildrenAt(c, v) \subseteq C
      BY <3>2, <3>3, <3>4 DEF ChildrenAt
    <3>9. QED
      BY <3>7, <3>8
  <2>7. QED
    BY <2>1, <2>3, <2>4, <2>5, <2>6 DEF RowFits
<1>3. k \in DOMAIN NeverNil => \A f \in NeverNil[k] : n[f] # Nil
  <2>1. SUFFICES ASSUME k \in DOMAIN NeverNil, NEW f \in NeverNil[k] PROVE n[f] # Nil
    OBVIOUS
  <2>2. f \in Fields(k) /\ Wire[k][f].how = "required"
    BY <1>1, <2>1, RowFacts, WireAgrees DEF RowFits
  <2>3. QED
    BY <2>2 DEF ValueOf
<1>4. k \in DOMAIN NeverEmpty => n[NeverEmpty[k]] # ""
  <2>1. SUFFICES ASSUME k \in DOMAIN NeverEmpty PROVE n[NeverEmpty[k]] # ""
    OBVIOUS
  <2>2. NeverEmpty[k] \in Fields(k) /\ Wire[k][NeverEmpty[k]].how = "nonempty"
    BY <1>1, <2>1, RowFacts, WireAgrees DEF RowFits
  <2>3. QED
    BY <2>2 DEF ValueOf
<1>5. k = "SelectCase" => n.case \in CaseKinds
  <2>1. SUFFICES ASSUME k = "SelectCase" PROVE n["case"] \in CaseKinds
    OBVIOUS
  <2>2. "case" \in Fields(k) /\ Wire[k]["case"].how = "casekind"
    BY <1>1, <2>1, RowFacts, WireAgrees DEF RowFits
  <2>3. QED
    BY <2>2 DEF ValueOf
<1>6. NodeFits(n)
  BY <1>1, <1>2, <1>3, <1>4, <1>5 DEF NodeFits
<1>7. Children(n) \subseteq C
  BY <1>2 DEF Children
<1>8. QED
  BY <1>6, <1>7

\* A tree that is all the decoder promises of kind k.
Good(k, n) == n.kind = k /\ WellFormed(n) /\ Trips(n)

\* UnmarshalJSON of a node keeps the promise when the calls it makes do.
LEMMA AcceptStep ==
  ASSUME NEW k \in DOMAIN Wire, NEW d, Tied, NoFunctions,
         Decode(k, d) # Failed,
         \A c \in Calls(k, d) : Decode(c[1], c[2]) # Failed => Good(c[1], Decode(c[1], c[2]))
  PROVE  Good(k, Decode(k, d))
<1> DEFINE w == Wire[k]
           read(f) == DecodeValue(w[f], At(d, KeyOf(f)))
           got == [f \in {"kind"} \cup DOMAIN w |-> IF f = "kind" THEN k ELSE read(f)]
           b == Decode(k, d)
<1>1. DecodeNode(k, d) = IF \E f \in DOMAIN w : got[f] = Failed THEN Failed ELSE got
  BY DEF DecodeNode
<1>2. b = DecodeNode(k, d)
  BY DEF Tied
<1>3. \A f \in DOMAIN w : f # "kind" /\ got[f] = read(f)
  BY RowFacts
<1>4. got = [f \in {"kind"} \cup DOMAIN w |-> got[f]] /\ got["kind"] = k
  OBVIOUS
<1>5. b = got /\ \A f \in DOMAIN w : got[f] # Failed
  <2> HIDE DEF got, b, w
  <2>1. QED
    BY <1>1, <1>2 DEF b
<1> HIDE DEF got
<1>6. b.kind = k /\ DOMAIN w = Fields(k) /\ b = [f \in {"kind"} \cup Fields(k) |-> b[f]]
  BY <1>4, <1>5, WireAgrees
<1>7. ASSUME NEW f \in Fields(k)
      PROVE  ValueOf(w[f], b[f], Results(k, d))
  <2>1. f \in DOMAIN w /\ b[f] = DecodeValue(w[f], At(d, KeyOf(f))) /\ b[f] # Failed
    BY <1>3, <1>5, <1>6
  <2> HIDE DEF b
  <2>2. QED
    BY <2>1, ValueAccepted
<1>8. NodeFits(b) /\ Children(b) \subseteq Results(k, d)
  <2> HIDE DEF b
  <2>1. QED
    BY <1>6, <1>7, NodeFromValues
<1>9. \A n \in Results(k, d) : WellFormed(n) /\ Trips(n)
  BY DEF Results, Good
<1>10. WellFormed(b)
  BY <1>8, <1>9 DEF Tied, WellFormedNode
<1>11. Trips(b)
  <2> HIDE DEF b
  <2>1. QED
    BY <1>8, <1>9, RoundTripStep
<1>12. QED
  BY <1>6, <1>10, <1>11 DEF Good

\* It keeps it on every finite document.
LEMMA DocumentsAccepted ==
  ASSUME NEW D, NEW rank,
         \A c \in D : /\ rank[c] \in Nat
                      /\ \A e \in Calls(c[1], c[2]) : e \in D /\ rank[e] < rank[c],
         Tied, NoFunctions
  PROVE  \A c \in D : c[1] \in DOMAIN Wire /\ Decode(c[1], c[2]) # Failed =>
                        Good(c[1], Decode(c[1], c[2]))
<1> DEFINE Kept == {c \in D : c[1] \in DOMAIN Wire /\ Decode(c[1], c[2]) # Failed =>
                                Good(c[1], Decode(c[1], c[2]))}
<1>1. ASSUME NEW c \in D, \A e \in D : rank[e] < rank[c] => e \in Kept,
             c[1] \in DOMAIN Wire, Decode(c[1], c[2]) # Failed
      PROVE  Good(c[1], Decode(c[1], c[2]))
  <2>1. ASSUME NEW e \in Calls(c[1], c[2]), Decode(e[1], e[2]) # Failed
        PROVE  Good(e[1], Decode(e[1], e[2]))
    <3>1. e \in Kept
      BY <1>1
    <3>2. e[1] \in DOMAIN Wire
      BY DEF Calls
    <3>3. QED
      BY <2>1, <3>1, <3>2
  <2>2. QED
    BY <1>1, <2>1, AcceptStep
<1>2. \A c \in D : (\A e \in D : rank[e] < rank[c] => e \in Kept) => c \in Kept
  BY <1>1
<1> HIDE DEF Kept
<1>3. D \subseteq Kept
  BY <1>2, RankInduction
<1>4. QED
  BY <1>3 DEF Kept

-----------------------------------------------------------------------------
(* The session. *)

\* Everything that may be in the file when n is read.
Files(n) == {Encode(n)} \cup Damages(n.kind, Encode(n))

\* The first call of the decoder when d is read as a k.
FirstCall(k, d) == <<IF k \in RecordKinds THEN k ELSE At(d, "kind"), d>>

\* The trees that are written are finite, and of the IR's kinds.
FiniteNodes ==
  /\ \A n \in Nodes : n.kind \in DOMAIN Shape
  /\ \E T, rank :
       /\ Nodes \subseteq T
       /\ \A n \in T : /\ rank[n] \in Nat
                       /\ \A c \in Children(n) : c \in T /\ rank[c] < rank[n]

\* The documents that are read are finite.
FiniteFiles ==
  \E D, rank :
    /\ \A n \in Nodes : \A d \in Files(n) : FirstCall(n.kind, d) \in D
    /\ \A c \in D : /\ rank[c] \in Nat
                    /\ \A e \in Calls(c[1], c[2]) : e \in D /\ rank[e] < rank[c]

\* A node that is no record is read through an interface that knows it.
LEMMA InterfaceKnown ==
  ASSUME NEW k \in DOMAIN Shape \ RecordKinds
  PROVE  InterfaceOf(k) \in DOMAIN Envelope /\ k \in KindsOf(InterfaceOf(k))
<1>1. \E c \in DOMAIN Envelope : k \in KindsOf(c)
  BY WireAgrees, EnvelopesComplete
<1>2. QED
  BY <1>1 DEF InterfaceOf

\* A good tree of a kind that reading as a k may yield comes back when it is
\* read as a k.
LEMMA ReadBack ==
  ASSUME NEW k \in DOMAIN Shape, NEW n, Trips(n), n.kind \in ReadableAs(k),
         Tied, NoFunctions
  PROVE  ReadAs(k, Encode(n)) = n
<1>1. CASE k \in RecordKinds
  BY <1>1 DEF ReadableAs, ReadAs, Trips
<1>2. CASE k \notin RecordKinds
  BY <1>2, InterfaceKnown, ChildBack DEF ReadableAs, ReadAs
<1>3. QED
  BY <1>1, <1>2

\* What is read from the file is an error or a good tree of a kind it may have.
LEMMA ReadSound ==
  ASSUME NEW n \in Nodes, NEW d \in Files(n), FiniteNodes, FiniteFiles,
         ReadAs(n.kind, d) # Failed, Tied, NoFunctions
  PROVE  /\ ReadAs(n.kind, d).kind \in ReadableAs(n.kind)
         /\ WellFormed(ReadAs(n.kind, d)) /\ Trips(ReadAs(n.kind, d))
<1> DEFINE k == n.kind
           c == FirstCall(k, d)
           b == ReadAs(k, d)
<1>1. k \in DOMAIN Shape
  BY DEF FiniteNodes
<1>2. c[1] \in DOMAIN Wire /\ c[1] \in ReadableAs(k) /\ b = Decode(c[1], c[2])
  <2>1. CASE k \in RecordKinds
    BY <2>1, EnvelopesComplete DEF FirstCall, ReadableAs, ReadAs
  <2>2. CASE k \notin RecordKinds
    <3>1. b = DecodeChild(InterfaceOf(k), d) /\ InterfaceOf(k) \in DOMAIN Envelope
      BY <1>1, <2>2, InterfaceKnown DEF ReadAs
    <3>2. /\ At(d, "kind") \in Envelope[InterfaceOf(k)]
          /\ b = Decode(At(d, "kind"), d)
      BY <3>1 DEF DecodeChild
    <3>3. c = <<At(d, "kind"), d>>
      BY <2>2 DEF FirstCall
    <3>4. QED
      BY <2>2, <3>1, <3>2, <3>3, EnvelopesComplete DEF ReadableAs
  <2>3. QED
    BY <2>1, <2>2
<1>3. PICK D, rank :
        /\ c \in D
        /\ \A e \in D : /\ rank[e] \in Nat
                        /\ \A x \in Calls(e[1], e[2]) : x \in D /\ rank[x] < rank[e]
  BY DEF FiniteFiles
<1> HIDE DEF c, b
<1>4. Good(c[1], Decode(c[1], c[2]))
  <2>1. \A e \in D : e[1] \in DOMAIN Wire /\ Decode(e[1], e[2]) # Failed =>
                       Good(e[1], Decode(e[1], e[2]))
    BY <1>3, DocumentsAccepted
  <2>2. QED
    BY <1>2, <1>3, <2>1 DEF b
<1>5. QED
  BY <1>2, <1>4 DEF Good, b

\* What is read was in the file, and the file is the node's own form or a
\* damaged one.
SInv ==
  /\ node \in Nodes
  /\ doc # Nil => doc \in Files(node)
  /\ doc # Nil /\ ~ damaged => doc = Encode(node)
  /\ back # Nil => doc # Nil /\ back = ReadAs(node.kind, doc)

\* The session's invariant is inductive.
LEMMA SessionInductive == Spec => []SInv
<1>1. Init => SInv
  BY DEF Init, SInv
<1>2. SInv /\ [Next]_vars => SInv'
  <2> SUFFICES ASSUME SInv, [Next]_vars PROVE SInv'
    OBVIOUS
  <2>1. CASE Marshal
    BY <2>1 DEF Marshal, SInv, Files
  <2>2. CASE Damage
    BY <2>2 DEF Damage, SInv, Files
  <2>3. CASE Unmarshal
    BY <2>3 DEF Unmarshal, SInv, Files
  <2>4. CASE UNCHANGED vars
    BY <2>4 DEF vars, SInv, Files
  <2>5. QED
    BY <2>1, <2>2, <2>3, <2>4 DEF Next
<1>3. QED
  BY <1>1, <1>2, PTL DEF Spec

\* Whatever was done to the file, what the decoder accepts is well formed.
THEOREM OnlyWellFormedIsAccepted ==
  ASSUME Tied, NoFunctions, FiniteNodes, FiniteFiles
  PROVE  Spec => []AcceptedIsWellFormed
<1>1. SInv => AcceptedIsWellFormed
  <2>1. SUFFICES ASSUME SInv, Accepted
                 PROVE  back.kind \in ReadableAs(node.kind) /\ WellFormed(back)
    BY DEF AcceptedIsWellFormed
  <2>2. node \in Nodes /\ doc \in Files(node) /\ back = ReadAs(node.kind, doc)
    BY <2>1 DEF SInv, Accepted, Done
  <2>3. QED
    BY <2>1, <2>2, ReadSound DEF Accepted
<1>2. QED
  BY <1>1, SessionInductive, PTL

\* A well-formed tree that is written comes back, and so does what was accepted.
THEOREM NothingIsLost ==
  ASSUME Tied, NoFunctions, FiniteNodes, FiniteFiles, \A n \in Nodes : WellFormed(n)
  PROVE  Spec => []RoundTrip
<1>1. \A n \in Nodes : Trips(n)
  <2>1. PICK T, rank :
          /\ Nodes \subseteq T
          /\ \A n \in T : /\ rank[n] \in Nat
                          /\ \A c \in Children(n) : c \in T /\ rank[c] < rank[n]
    BY DEF FiniteNodes
  <2>2. \A n \in T : WellFormed(n) => Trips(n)
    BY <2>1, TreesComeBack
  <2>3. QED
    BY <2>1, <2>2
<1>2. ASSUME NEW n \in Nodes PROVE n.kind \in DOMAIN Shape /\ n.kind \in ReadableAs(n.kind)
  BY InterfaceKnown DEF FiniteNodes, ReadableAs
<1>3. SInv => RoundTrip
  <2>1. SUFFICES ASSUME SInv PROVE RoundTrip
    OBVIOUS
  <2>2. ASSUME Done, ~ damaged PROVE back = node
    <3>1. node \in Nodes /\ back = ReadAs(node.kind, Encode(node))
      BY <2>1, <2>2 DEF SInv, Done
    <3>2. QED
      BY <3>1, <1>1, <1>2, ReadBack
  <2>3. ASSUME Accepted PROVE ReadAs(node.kind, Encode(back)) = back
    <3>1. node \in Nodes /\ doc \in Files(node) /\ back = ReadAs(node.kind, doc)
      BY <2>1, <2>3 DEF SInv, Accepted, Done
    <3>2. back.kind \in ReadableAs(node.kind) /\ Trips(back)
      BY <2>3, <3>1, ReadSound DEF Accepted
    <3>3. QED
      BY <3>1, <3>2, <1>2, ReadBack
  <2>4. QED
    BY <2>2, <2>3 DEF RoundTrip
<1>4. QED
  BY <1>3, SessionInductive, PTL
=============================================================================
