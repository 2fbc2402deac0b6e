-------------------------- MODULE VersionPromises --------------------------
(***************************************************************************)
(* What the repository promises of the content of a version.  Both hold    *)
(* while a document's requests are served one at a time, and fail as soon  *)
(* as two overlap.                                                         *)
(***************************************************************************)
EXTENDS VersionLifecycle

(* draft_service.py:155: "versions in IN_REVIEW / APPROVED / PUBLISHED     *)
(* must not be edited": the content of a version changes only while its    *)
(* workflow state is editable, so what was reviewed is what is published.  *)
ReviewedContentIsFrozen ==
    [][\A v \in Version :
          Exists(v) /\ versions'[v].content_snapshot # versions[v].content_snapshot
              => ResolvedStatus(v) \in EditableStatuses]_vars

(* The content of a published version never changes                        *)
(* (api/v1/workflow.py:254: "immutable" once published).                   *)
PublishedContentIsImmutable ==
    [][\A v \in Version :
          versions[v].status = "published"
              => versions'[v].content_snapshot = versions[v].content_snapshot]_vars
=============================================================================
