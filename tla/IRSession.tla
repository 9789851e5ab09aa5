------------------------------ MODULE IRSession -------------------------------
(***************************************************************************)
(* One trip of an IR node through its JSON form: written, perhaps damaged   *)
(* on the way (the form is kept in files, edited and regenerated), read     *)
(* back.  The damage is a parameter: the theorems hold for any.             *)
(***************************************************************************)
EXTENDS IRCodec

CONSTANTS
  Nodes,          \* the nodes that are written
  Damages(_, _),  \* what may become of the JSON form of a node of a kind
  WellFormed(_)   \* every node of a tree fits: WellFormedNode(n), all the way

VARIABLES node,      \* what is written
          doc,       \* its JSON form, Nil before Marshal
          damaged,   \* has the form been changed?
          back       \* what was read, Nil before Unmarshal

vars == <<node, doc, damaged, back>>

WellFormedNode(n) == NodeFits(n) /\ \A c \in Children(n) : WellFormed(c)

\* The interface through which a node is read that is no record.
InterfaceOf(k) == CHOOSE c \in DOMAIN Envelope : k \in KindsOf(c)

\* Records are read by their own decoder, the others through their interface.
ReadAs(k, d) ==
  IF k \in RecordKinds THEN Decode(k, d) ELSE DecodeChild(InterfaceOf(k), d)

\* The kinds that reading as a k may yield.
ReadableAs(k) == IF k \in RecordKinds THEN {k} ELSE KindsOf(InterfaceOf(k))

Init ==
  /\ node \in Nodes
  /\ doc = Nil
  /\ damaged = FALSE
  /\ back = Nil

Marshal ==
  /\ doc = Nil
  /\ doc' = Encode(node)
  /\ UNCHANGED <<node, damaged, back>>

Damage ==
  /\ doc # Nil /\ ~ damaged /\ back = Nil
  /\ doc' \in Damages(node.kind, doc)
  /\ damaged' = TRUE
  /\ UNCHANGED <<node, back>>

Unmarshal ==
  /\ doc # Nil /\ back = Nil
  /\ back' = ReadAs(node.kind, doc)
  /\ UNCHANGED <<node, doc, damaged>>

Next == Marshal \/ Damage \/ Unmarshal

Spec == Init /\ [][Next]_vars

-------------------------------------------------------------------------------

Done == back # Nil
Accepted == Done /\ back # Failed

\* The IR that is read is the IR that was written, nil and empty slices kept
\* apart, for every well-formed tree: those that are written and those that a
\* decoder returned (ir.go's design notes, TestRoundTrip of ir_test.go).
RoundTrip ==
  /\ Done /\ ~ damaged => back = node
  /\ Accepted => ReadAs(node.kind, Encode(back)) = back

\* Whatever was done to the file, the decoder returns an error or a tree whose
\* children are of the right interface and present where the code behind it
\* reads them without a look, and so is what the translator built: a guard
\* missing in one UnmarshalJSON, or in one trans function, breaks it.
AcceptedIsWellFormed ==
  Accepted => back.kind \in ReadableAs(node.kind) /\ WellFormed(back)
===============================================================================
