--------------------------- MODULE DocumentSlots ---------------------------
(***************************************************************************)
(* What the version store promises of the two slots of a document, however *)
(* its requests overlap: a version belongs to one document for good; the   *)
(* draft slot is only ever filled by a version created in that step; the   *)
(* published slot, once filled, is never empty again and only ever holds   *)
(* versions of its document; no step touches two documents.                *)
(***************************************************************************)
CONSTANTS Document, Version, None

VARIABLES
    owner,      \* the document of each version, None before it exists
    draft,      \* the draft slot of each document
    published   \* the published slot of each document

slots == <<owner, draft, published>>

Init ==
    /\ owner = [v \in Version |-> None]
    /\ draft = [d \in Document |-> None]
    /\ published = [d \in Document |-> None]

(* A version comes into being, beside the slots or in the draft slot.      *)
Create(d, v) ==
    /\ owner[v] = None
    /\ owner' = [owner EXCEPT ![v] = d]
    /\ draft' \in {draft, [draft EXCEPT ![d] = v]}
    /\ UNCHANGED published

(* The draft slot is emptied.                                              *)
Drop(d) ==
    /\ draft' = [draft EXCEPT ![d] = None]
    /\ UNCHANGED <<owner, published>>

(* A version of the document takes the published slot; the draft slot is   *)
(* emptied or left alone.                                                  *)
Publish(d, v) ==
    /\ owner[v] = d
    /\ published' = [published EXCEPT ![d] = v]
    /\ draft' \in {draft, [draft EXCEPT ![d] = None]}
    /\ UNCHANGED owner

Next == \E d \in Document : Drop(d) \/ \E v \in Version : Create(d, v) \/ Publish(d, v)

Spec == Init /\ [][Next]_slots
=============================================================================
