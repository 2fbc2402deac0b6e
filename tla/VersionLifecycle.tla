-------------------------- MODULE VersionLifecycle --------------------------
(***************************************************************************)
(* The life of the versions of a document: DraftService (save, discard,    *)
(* publish), VersionsService.create_version and WorkflowService            *)
(* .perform_action, over the tables documents, versions and nodes.         *)
(*                                                                         *)
(* Every HTTP request runs in one PostgreSQL transaction at READ           *)
(* COMMITTED, without row locks and without a compare-and-set in any       *)
(* UPDATE.  A request is therefore modelled by its reads, one step each    *)
(* where another transaction may commit in between and matter, followed by *)
(* one step that performs all its writes and commits.  tx[r] is what the   *)
(* handler of request r has read so far.                                   *)
(*                                                                         *)
(* Left out: documents.status (no handler here reads it and PATCH sets it  *)
(* freely), titles, labels, summaries, published_by/at, parent_version_id, *)
(* and the audit, history and log rows, which nothing reads back.          *)
(***************************************************************************)
EXTENDS Integers

CONSTANTS
    Document,           \* documents.id
    Version,            \* the pool of versions.id values
    NodeId,             \* node ids an editor puts into a snapshot
    Request,            \* requests being served at the same time
    MaxVersionNumber,   \* bound on versions.version_number
    None                \* SQL NULL

VARIABLES
    documents,  \* documents: the two version pointers
    versions,   \* versions, document_id = None for a row not yet inserted
    nodes,      \* nodes: the primary key is the node id, the value its version
    tx          \* what each request in flight has read

vars == <<documents, versions, nodes, tx>>

-----------------------------------------------------------------------------
(* The columns' values and the workflow policy tables.                     *)

VersionStatus == {"draft", "published", "superseded", "discarded"}

WorkflowStatus ==
    VersionStatus \cup {"in_review", "approved", "rejected", "archived",
                        "proposed", "withdrawn"}

AllowedTransitions ==
    { <<"draft", "in_review">>, <<"in_review", "approved">>,
      <<"in_review", "rejected">>, <<"rejected", "draft">>,
      <<"approved", "published">>, <<"published", "archived">> }

ActionTarget ==
    [ submit_review   |-> "in_review", approve |-> "approved",
      reject          |-> "rejected",  publish |-> "published",
      return_to_draft |-> "draft",     archive |-> "archived" ]

WorkflowAction == DOMAIN ActionTarget

EditableStatuses == {"draft", "rejected"}

Role == {"VIEWER", "AUTHOR", "REVIEWER", "APPROVER", "ORG_ADMIN", "SUPER_ADMIN"}
Admins == {"ORG_ADMIN", "SUPER_ADMIN"}

(* The roles the router lets through to each workflow endpoint.            *)
EndpointRoles ==
    [ submit_review   |-> {"AUTHOR"} \cup Admins,
      approve         |-> {"APPROVER"} \cup Admins,
      reject          |-> {"REVIEWER", "APPROVER"} \cup Admins,
      publish         |-> {"APPROVER"} \cup Admins,
      archive         |-> Admins,
      return_to_draft |-> {"AUTHOR", "REVIEWER", "APPROVER"} \cup Admins ]

(* _ROLE_MAP: the workflow role behind a stored role.                      *)
ResolveRole(role) ==
    CASE role \in Admins    -> "admin"
      [] role = "REVIEWER"  -> "reviewer"
      [] role = "APPROVER"  -> "approver"
      [] OTHER              -> "author"

WorkflowPermissions ==
    [ author   |-> { <<"draft", "in_review">>, <<"rejected", "draft">> },
      reviewer |-> { <<"in_review", "rejected">> },
      approver |-> { <<"in_review", "approved">>, <<"approved", "published">>,
                     <<"published", "archived">> },
      admin    |-> {} ]

IsRoleAllowed(role, from, to) ==
    ResolveRole(role) = "admin" \/ <<from, to>> \in WorkflowPermissions[ResolveRole(role)]

-----------------------------------------------------------------------------
(* The tables.                                                             *)

DocumentRow == [ current_draft_version_id     : Version \cup {None},
                 current_published_version_id : Version \cup {None} ]

VersionRow == [ document_id      : Document \cup {None},
                version_number   : 0..MaxVersionNumber,
                status           : VersionStatus,
                workflow_status  : WorkflowStatus \cup {None},
                content_snapshot : (SUBSET NodeId) \cup {None} ]

NoRow == [ document_id |-> None, version_number |-> 0, status |-> "draft",
           workflow_status |-> None, content_snapshot |-> None ]

Step == {"idle", "save_doc", "save_ready", "create_ready", "discard_ready",
         "publish_doc", "publish_ready", "workflow_ready"}

Transaction == [ step      : Step,
                 doc       : Document \cup {None},
                 draft     : Version \cup {None},
                 published : Version \cup {None},
                 version   : Version \cup {None},
                 number    : 0..MaxVersionNumber,
                 to        : WorkflowStatus \cup {None} ]

Idle == [ step |-> "idle", doc |-> None, draft |-> None, published |-> None,
          version |-> None, number |-> 0, to |-> None ]

Exists(v) == versions[v].document_id # None

VersionsOf(d) == { v \in Version : versions[v].document_id = d }

(* _resolve_current_workflow_status: workflow_status, or status when NULL. *)
ResolvedStatus(v) ==
    IF versions[v].workflow_status # None THEN versions[v].workflow_status
                                          ELSE versions[v].status

(* n is COALESCE(MAX(version_number), 0) + 1 over the versions of d.       *)
IsNextVersionNumber(d, n) ==
    /\ \A v \in VersionsOf(d) : versions[v].version_number < n
    /\ n = 1 \/ \E v \in VersionsOf(d) : versions[v].version_number = n - 1

(* UNIQUE (document_id, version_number).                                   *)
NumberIsFree(d, n) == \A v \in VersionsOf(d) : versions[v].version_number # n

(* nodes.id is the primary key of the whole table: replace_for_version     *)
(* deletes the rows of v only, so an id held by another version is taken.  *)
NodeIdsAreFree(v, snapshot) == \A n \in snapshot : nodes[n] \in {None, v}

(* Mutant: the rows of v are inserted over what is there, never deleted.   *)
RebuiltNodesWithoutDelete(v, snapshot) ==
    [ n \in NodeId |-> IF n \in snapshot THEN v ELSE nodes[n] ]

(* rebuild_nodes_from_snapshot: DELETE the rows of v, INSERT the snapshot. *)
RebuiltNodes(v, snapshot) ==
    [ n \in NodeId |-> IF n \in snapshot THEN v
                       ELSE IF nodes[n] = v THEN None ELSE nodes[n] ]

ASSUME NoneIsNoRow ==
    /\ None \notin Document \cup Version \cup WorkflowStatus
    /\ \A snapshot \in SUBSET NodeId : snapshot # None

ASSUME NumbersAreBounded == MaxVersionNumber \in Nat \ {0}

-----------------------------------------------------------------------------
(* Empty tables, no request.                                               *)

Init ==
    /\ documents = [d \in Document |-> [ current_draft_version_id     |-> None,
                                         current_published_version_id |-> None ]]
    /\ versions = [v \in Version |-> NoRow]
    /\ nodes = [n \in NodeId |-> None]
    /\ tx = [r \in Request |-> Idle]

(* The end of the transaction of r: commit, or rollback when nothing else  *)
(* changes.                                                                *)
End(r) == tx' = [tx EXCEPT ![r] = Idle]

Refuse(r) == End(r) /\ UNCHANGED <<documents, versions, nodes>>

(* The row INSERT INTO versions leaves behind: workflow_status has neither *)
(* a value nor a default.                                                  *)
NewRow(d, n, snapshot) ==
    [ document_id |-> d, version_number |-> n, status |-> "draft",
      workflow_status |-> None, content_snapshot |-> snapshot ]

(* SELECT the document, for the pointers the handler goes on to use.       *)
ReadDocument(r, d, step, published) ==
    /\ tx[r].step = "idle"
    /\ tx' = [tx EXCEPT ![r] =
                [ Idle EXCEPT !.step = step, !.doc = d,
                    !.draft     = documents[d].current_draft_version_id,
                    !.published = published ]]
    /\ UNCHANGED <<documents, versions, nodes>>

-----------------------------------------------------------------------------
(* PUT /draft, and the deprecated PATCH that delegates to it.              *)

SaveReadDocument(r, d) == ReadDocument(r, d, "save_doc", None)

(* Mutant: the workflow state is not looked at.                            *)
SaveCheckDraftSkipped(r) ==
    /\ tx[r].step = "save_doc"
    /\ tx[r].draft # None
    /\ tx' = [tx EXCEPT ![r].step = "save_ready"]
    /\ UNCHANGED <<documents, versions, nodes>>

(* An existing draft must be in an editable workflow state.                *)
SaveCheckDraft(r) ==
    /\ tx[r].step = "save_doc"
    /\ tx[r].draft # None
    /\ IF ResolvedStatus(tx[r].draft) \in EditableStatuses
       THEN /\ tx' = [tx EXCEPT ![r].step = "save_ready"]
            /\ UNCHANGED <<documents, versions, nodes>>
       ELSE Refuse(r)

(* No draft: get_next_version_number.                                      *)
SaveReadNumber(r) ==
    /\ tx[r].step = "save_doc"
    /\ tx[r].draft = None
    /\ \E n \in 1..MaxVersionNumber :
          /\ IsNextVersionNumber(tx[r].doc, n)
          /\ tx' = [tx EXCEPT ![r].step = "save_ready", ![r].number = n]
    /\ UNCHANGED <<documents, versions, nodes>>

(* UPDATE the content of the draft seen, and rebuild its nodes.            *)
SaveUpdate(r, snapshot) ==
    /\ tx[r].step = "save_ready"
    /\ tx[r].draft # None
    /\ NodeIdsAreFree(tx[r].draft, snapshot)
    /\ versions' = [versions EXCEPT ![tx[r].draft].content_snapshot = snapshot]
    /\ nodes' = RebuiltNodes(tx[r].draft, snapshot)
    /\ UNCHANGED documents
    /\ End(r)

(* INSERT a draft and point the document at it.                            *)
SaveInsert(r, v, snapshot) ==
    /\ tx[r].step = "save_ready"
    /\ tx[r].draft = None
    /\ ~Exists(v)
    /\ NumberIsFree(tx[r].doc, tx[r].number)
    /\ NodeIdsAreFree(v, snapshot)
    /\ versions' = [versions EXCEPT ![v] = NewRow(tx[r].doc, tx[r].number, snapshot)]
    /\ documents' = [documents EXCEPT ![tx[r].doc].current_draft_version_id = v]
    /\ nodes' = RebuiltNodes(v, snapshot)
    /\ End(r)

(* A unique violation of either table rolls the request back.              *)
SaveViolatesKey(r, snapshot) ==
    /\ tx[r].step = "save_ready"
    /\ \/ tx[r].draft = None /\ ~NumberIsFree(tx[r].doc, tx[r].number)
       \/ ~NodeIdsAreFree(tx[r].draft, snapshot)
    /\ Refuse(r)

-----------------------------------------------------------------------------
(* POST /versions: a version row no pointer refers to, and without a       *)
(* snapshot.  The nodes of the request are inserted under ids the database *)
(* makes up, which are nobody's.                                           *)

CreateReadNumber(r, d) ==
    /\ tx[r].step = "idle"
    /\ \E n \in 1..MaxVersionNumber :
          /\ IsNextVersionNumber(d, n)
          /\ tx' = [tx EXCEPT ![r] = [ Idle EXCEPT !.step = "create_ready",
                                                   !.doc = d, !.number = n ]]
    /\ UNCHANGED <<documents, versions, nodes>>

CreateInsert(r, v, ids) ==
    /\ tx[r].step = "create_ready"
    /\ ~Exists(v)
    /\ NumberIsFree(tx[r].doc, tx[r].number)
    /\ \A n \in ids : nodes[n] = None
    /\ versions' = [versions EXCEPT ![v] = NewRow(tx[r].doc, tx[r].number, None)]
    /\ nodes' = [n \in NodeId |-> IF n \in ids THEN v ELSE nodes[n]]
    /\ UNCHANGED documents
    /\ End(r)

CreateViolatesKey(r) ==
    /\ tx[r].step = "create_ready"
    /\ ~NumberIsFree(tx[r].doc, tx[r].number)
    /\ Refuse(r)

-----------------------------------------------------------------------------
(* DELETE /draft.                                                          *)

DiscardReadDocument(r, d) ==
    /\ documents[d].current_draft_version_id # None
    /\ ReadDocument(r, d, "discard_ready", None)

(* Mutant: the pointer is left in place.                                   *)
DiscardWriteKeepsPointer(r) ==
    /\ tx[r].step = "discard_ready"
    /\ versions' = [versions EXCEPT ![tx[r].draft].status = "discarded"]
    /\ UNCHANGED <<documents, nodes>>
    /\ End(r)

(* The pointer is cleared first, then the draft seen is marked.            *)
DiscardWrite(r) ==
    /\ tx[r].step = "discard_ready"
    /\ documents' = [documents EXCEPT ![tx[r].doc].current_draft_version_id = None]
    /\ versions' = [versions EXCEPT ![tx[r].draft].status = "discarded"]
    /\ UNCHANGED nodes
    /\ End(r)

-----------------------------------------------------------------------------
(* POST /publish of DraftService: looks at status, not workflow_status.    *)

PublishReadDocument(r, d) ==
    /\ documents[d].current_draft_version_id # None
    /\ ReadDocument(r, d, "publish_doc", documents[d].current_published_version_id)

PublishCheckDraft(r) ==
    /\ tx[r].step = "publish_doc"
    /\ IF versions[tx[r].draft].status = "draft"
       THEN /\ tx' = [tx EXCEPT ![r].step = "publish_ready"]
            /\ UNCHANGED <<documents, versions, nodes>>
       ELSE Refuse(r)

(* Mutant: the draft pointer is cleared, the published pointer stays.      *)
PublishWriteKeepsPointer(r) ==
    /\ tx[r].step = "publish_ready"
    /\ versions' =
          [ v \in Version |->
              IF v = tx[r].draft THEN [versions[v] EXCEPT !.status = "published"]
              ELSE IF v = tx[r].published
                   THEN [versions[v] EXCEPT !.status = "superseded"]
                   ELSE versions[v] ]
    /\ documents' = [documents EXCEPT ![tx[r].doc].current_draft_version_id = None]
    /\ UNCHANGED nodes
    /\ End(r)

(* The published version seen is superseded first, then the draft seen is  *)
(* published, then both pointers move.                                     *)
PublishWrite(r) ==
    /\ tx[r].step = "publish_ready"
    /\ versions' =
          [ v \in Version |->
              IF v = tx[r].draft THEN [versions[v] EXCEPT !.status = "published"]
              ELSE IF v = tx[r].published
                   THEN [versions[v] EXCEPT !.status = "superseded"]
                   ELSE versions[v] ]
    /\ documents' = [documents EXCEPT ![tx[r].doc] =
                        [ current_draft_version_id     |-> None,
                          current_published_version_id |-> tx[r].draft ]]
    /\ UNCHANGED nodes
    /\ End(r)

-----------------------------------------------------------------------------
(* POST /versions/{version_id}/workflow/{action}: WorkflowService          *)
(* .perform_action by an actor of some role.  expected_current_status is   *)
(* compared with the status read here, so a request that carries it and    *)
(* one that does not behave alike from here on.                            *)

(* Mutant: the version is found by its id alone.                           *)
WorkflowReadAnyDocument(r, d, v, action, role) ==
    /\ tx[r].step = "idle"
    /\ Exists(v)
    /\ role \in EndpointRoles[action]
    /\ <<ResolvedStatus(v), ActionTarget[action]>> \in AllowedTransitions
    /\ IsRoleAllowed(role, ResolvedStatus(v), ActionTarget[action])
    /\ tx' = [tx EXCEPT ![r] = [ Idle EXCEPT !.step = "workflow_ready", !.doc = d,
                                             !.version = v,
                                             !.to = ActionTarget[action] ]]
    /\ UNCHANGED <<documents, versions, nodes>>

(* Mutant: the role is checked, the transition is not.                     *)
WorkflowReadAnyTransition(r, d, v, action, role) ==
    /\ tx[r].step = "idle"
    /\ versions[v].document_id = d
    /\ role \in EndpointRoles[action]
    /\ IsRoleAllowed(role, ResolvedStatus(v), ActionTarget[action])
    /\ tx' = [tx EXCEPT ![r] = [ Idle EXCEPT !.step = "workflow_ready", !.doc = d,
                                             !.version = v,
                                             !.to = ActionTarget[action] ]]
    /\ UNCHANGED <<documents, versions, nodes>>

WorkflowRead(r, d, v, action, role) ==
    /\ tx[r].step = "idle"
    /\ versions[v].document_id = d
    /\ role \in EndpointRoles[action]
    /\ <<ResolvedStatus(v), ActionTarget[action]>> \in AllowedTransitions
    /\ IsRoleAllowed(role, ResolvedStatus(v), ActionTarget[action])
    /\ tx' = [tx EXCEPT ![r] = [ Idle EXCEPT !.step = "workflow_ready", !.doc = d,
                                             !.version = v,
                                             !.to = ActionTarget[action] ]]
    /\ UNCHANGED <<documents, versions, nodes>>

(* Mutant: publish does not bring the status column along.                 *)
WorkflowWriteKeepsStatus(r) ==
    /\ tx[r].step = "workflow_ready"
    /\ versions' = [versions EXCEPT ![tx[r].version].workflow_status = tx[r].to]
    /\ documents' = IF tx[r].to # "published" THEN documents ELSE
          [documents EXCEPT ![tx[r].doc].current_published_version_id = tx[r].version]
    /\ UNCHANGED nodes
    /\ End(r)

(* Mutant: return_to_draft makes its version the document's draft again.   *)
WorkflowWriteReopensDraft(r) ==
    /\ tx[r].step = "workflow_ready"
    /\ versions' = [versions EXCEPT ![tx[r].version].workflow_status = tx[r].to,
                                    ![tx[r].version].status =
                                        IF tx[r].to \in VersionStatus THEN tx[r].to ELSE @]
    /\ documents' = IF tx[r].to # "draft" THEN documents ELSE
          [documents EXCEPT ![tx[r].doc].current_draft_version_id = tx[r].version]
    /\ UNCHANGED nodes
    /\ End(r)

(* publish also sets status and the published pointer; it neither          *)
(* supersedes the version published before nor clears the draft pointer.   *)
WorkflowWrite(r) ==
    /\ tx[r].step = "workflow_ready"
    /\ IF tx[r].to = "published"
       THEN /\ versions' = [versions EXCEPT ![tx[r].version].workflow_status = "published",
                                            ![tx[r].version].status = "published"]
            /\ documents' = [documents EXCEPT
                               ![tx[r].doc].current_published_version_id = tx[r].version]
       ELSE /\ versions' = [versions EXCEPT ![tx[r].version].workflow_status = tx[r].to]
            /\ UNCHANGED documents
    /\ UNCHANGED nodes
    /\ End(r)

-----------------------------------------------------------------------------
(* PostgreSQL gives up on a transaction: a deadlock (discard writes        *)
(* documents before versions, publish the other way round), a lost         *)
(* connection, an exception in the handler, a worker that stops (Abort,    *)
(* for each of its requests).                                              *)
Abort(r) == tx[r].step # "idle" /\ Refuse(r)

(* A worker starts again, and init_db gives every version without a        *)
(* workflow_status its status of that moment, beside the requests that the *)
(* other workers serve.                                                    *)

Restart ==
    /\ versions' = [ v \in Version |->
                       IF Exists(v)
                       THEN [versions[v] EXCEPT !.workflow_status = ResolvedStatus(v)]
                       ELSE versions[v] ]
    /\ UNCHANGED <<documents, nodes, tx>>

(* One step of one request.                                                *)
Serve ==
    \/ \E r \in Request, d \in Document :
          \/ SaveReadDocument(r, d)    \/ CreateReadNumber(r, d)
          \/ DiscardReadDocument(r, d) \/ PublishReadDocument(r, d)
          \/ \E v \in Version, action \in WorkflowAction, role \in Role :
                WorkflowRead(r, d, v, action, role)
    \/ \E r \in Request :
          \/ SaveCheckDraft(r)    \/ SaveReadNumber(r) \/ CreateViolatesKey(r)
          \/ DiscardWrite(r)      \/ PublishCheckDraft(r)
          \/ PublishWrite(r)      \/ WorkflowWrite(r) \/ Abort(r)
          \/ \E snapshot \in SUBSET NodeId :
                \/ SaveUpdate(r, snapshot) \/ SaveViolatesKey(r, snapshot)
                \/ \E v \in Version :
                      SaveInsert(r, v, snapshot) \/ CreateInsert(r, v, snapshot)

Next == Serve \/ Restart

Spec == Init /\ [][Next]_vars

-----------------------------------------------------------------------------
(* Every variable keeps to the columns of its table.                       *)
TypeOK ==
    /\ documents \in [Document -> DocumentRow]
    /\ versions \in [Version -> VersionRow]
    /\ nodes \in [NodeId -> Version \cup {None}]
    /\ tx \in [Request -> Transaction]

(* Both pointers of a document refer to versions of that document: nothing *)
(* but the handlers' own checks keeps them there, the foreign keys accept  *)
(* any version.                                                            *)
PointersStayInDocument ==
    \A d \in Document :
        {documents[d].current_draft_version_id,
         documents[d].current_published_version_id} \subseteq VersionsOf(d) \cup {None}

(* The draft pointer never refers to a version that was discarded or       *)
(* superseded, however discards, publishes and saves overlap.  (It can     *)
(* refer to a published one: the workflow's publish leaves it in place.)   *)
DraftPointerIsLive ==
    \A d \in Document : LET v == documents[d].current_draft_version_id IN
        v # None => versions[v].status \in {"draft", "published"}

(* The published pointer never refers to a superseded version, nor to one  *)
(* that was never published, even when two publishes run from the same or  *)
(* from stale reads.  (Discard can turn its target into "discarded".)      *)
PublishedPointerWasPublished ==
    \A d \in Document : LET v == documents[d].current_published_version_id IN
        v # None => versions[v].status \in {"published", "discarded"}

(* Two versions of a document never share a number, although every insert  *)
(* takes its number from a read that may be stale.                         *)
VersionNumbersAreUnique ==
    \A v, w \in Version :
        /\ v # w
        /\ Exists(v)
        /\ versions[v].document_id = versions[w].document_id
        => versions[v].version_number # versions[w].version_number

(* nodes is derived from content_snapshot, "the single source of truth":   *)
(* the rows of a version with a snapshot are exactly the ids in it, though *)
(* every save deletes and inserts in a table all versions share.  A        *)
(* version of POST /versions has no snapshot, and nothing to agree with.   *)
NodesMirrorSnapshot ==
    \A v \in Version : versions[v].content_snapshot # None =>
        { n \in NodeId : nodes[n] = v } = versions[v].content_snapshot

(* A version the workflow has published or archived is not a draft in the  *)
(* status column: the two columns cannot disagree in that direction.       *)
WorkflowPublishedIsNotDraft ==
    \A v \in Version :
        versions[v].workflow_status \in {"published", "archived"}
            => versions[v].status # "draft"

(* The draft pointer only ever moves to NULL or to a version inserted in   *)
(* that very transaction: a version that stopped being the draft is never  *)
(* the draft again.                                                        *)
DraftPointerMovesToNewVersion ==
    [][\A d \in Document :
          LET v == documents'[d].current_draft_version_id IN
          v # documents[d].current_draft_version_id /\ v # None => ~Exists(v)]_vars

(* A version never becomes a draft again in the status column, and its row *)
(* keeps its document and number.                                          *)
VersionsNeverReopen ==
    [][\A v \in Version : Exists(v) =>
          /\ versions[v].status # "draft" => versions'[v].status # "draft"
          /\ versions'[v].document_id = versions[v].document_id
          /\ versions'[v].version_number = versions[v].version_number]_vars
=============================================================================
