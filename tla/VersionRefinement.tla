------------------------- MODULE VersionRefinement -------------------------
(***************************************************************************)
(* VersionLifecycle implements DocumentSlots: the slots are the pointers   *)
(* of the documents row, the owner is versions.document_id.                *)
(***************************************************************************)
EXTENDS VersionLifecycle

Slots == INSTANCE DocumentSlots WITH
    owner     <- [v \in Version |-> versions[v].document_id],
    draft     <- [d \in Document |-> documents[d].current_draft_version_id],
    published <- [d \in Document |-> documents[d].current_published_version_id]

(* Every interleaving of the requests' transactions is a behaviour of the  *)
(* two slots: all steps but the writes of save, create, discard, publish   *)
(* and the workflow's publish stutter.                                     *)
ImplementsSlots == Slots!Spec
=============================================================================
