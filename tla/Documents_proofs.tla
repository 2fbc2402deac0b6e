-------------------------- MODULE Documents_proofs --------------------------
(***************************************************************************)
(* The documents and their versions, for any number of documents,          *)
(* versions, nodes, agents and overlapping requests: the invariants of     *)
(* VersionLifecycle, its refinement of DocumentSlots, the review of the    *)
(* agents' proposals, and what holds while requests are served one at a    *)
(* time.                                                                   *)
(***************************************************************************)
EXTENDS ProposalPromises, VersionRefinement, TLAPS

(***************************************************************************)
(* The life of a version.                                                  *)
(***************************************************************************)

(* What a request has read stays true of the rows, whatever commits in the *)
(* meantime: rows are never deleted and never change their document, and a *)
(* version that left "draft" never returns to it.                          *)
ReadIsTrue(r) ==
    tx[r].step # "idle" =>
        /\ tx[r].doc # None
        /\ \A v \in {tx[r].draft, tx[r].published, tx[r].version} :
              v # None => versions[v].document_id = tx[r].doc
        /\ tx[r].step \in {"discard_ready", "publish_doc", "publish_ready"}
              => tx[r].draft # None
        /\ tx[r].step = "workflow_ready" =>
              /\ tx[r].version # None
              /\ tx[r].to # None
              /\ tx[r].to = "archived" => versions[tx[r].version].status # "draft"

ReadsStayTrue == \A r \in Request : ReadIsTrue(r)

(* An id without a row holds the columns of NoRow.                         *)
UnusedIdsAreBlank == \A v \in Version : ~Exists(v) => versions[v] = NoRow

(* What the invariant says of the tables alone.                            *)
TablesInv ==
    /\ UnusedIdsAreBlank
    /\ PointersStayInDocument
    /\ DraftPointerIsLive
    /\ PublishedPointerWasPublished
    /\ VersionNumbersAreUnique
    /\ NodesMirrorSnapshot
    /\ WorkflowPublishedIsNotDraft

IInv == TypeOK /\ ReadsStayTrue /\ TablesInv

-----------------------------------------------------------------------------
(* Type correctness.                                                       *)

(* The row an insert leaves is a row of the table.                         *)
LEMMA NewRowTyping ==
    ASSUME NEW d \in Document \cup {None}, NEW n \in 0..MaxVersionNumber,
           NEW s \in (SUBSET NodeId) \cup {None}
    PROVE  NewRow(d, n, s) \in VersionRow
BY DEF NewRow, VersionRow, VersionStatus

(* The state a version is taken to be in is a workflow state.              *)
LEMMA ResolvedTyping ==
    ASSUME TypeOK, NEW v \in Version
    PROVE  ResolvedStatus(v) \in WorkflowStatus
BY DEF TypeOK, ResolvedStatus, VersionRow, WorkflowStatus

(* Ending a transaction keeps tx in its type.                              *)
LEMMA EndTyping ==
    ASSUME TypeOK, NEW r \in Request, End(r)
    PROVE  tx' \in [Request -> Transaction]
<1>1. Idle \in Transaction
  BY NumbersAreBounded DEF Idle, Transaction, Step
<1> QED
  BY <1>1 DEF TypeOK, End

(* Reading a document puts its pointers, and nothing else, into tx.        *)
LEMMA ReadDocumentTyping ==
    ASSUME TypeOK, NEW r \in Request, NEW d \in Document, NEW step \in Step,
           NEW published \in Version \cup {None},
           ReadDocument(r, d, step, published)
    PROVE  TypeOK'
<1>1. documents[d] \in DocumentRow
  BY DEF TypeOK
<1>2. /\ documents[d].current_draft_version_id \in Version \cup {None}
      /\ documents[d].current_published_version_id \in Version \cup {None}
  BY <1>1 DEF DocumentRow
<1>3. 0 \in 0..MaxVersionNumber
  BY NumbersAreBounded
<1>4. [ step |-> step, doc |-> d,
        draft |-> documents[d].current_draft_version_id,
        published |-> published,
        version |-> None, number |-> 0, to |-> None ] \in Transaction
  BY <1>2, <1>3 DEF Transaction
<1> QED
  BY <1>4 DEF TypeOK, ReadDocument, Idle

(* A refused or aborted request changes nothing but its own tx.            *)
LEMMA RefuseTyping ==
    ASSUME TypeOK, NEW r \in Request, Refuse(r)
    PROVE  TypeOK'
BY EndTyping DEF TypeOK, Refuse

(* The row the pool of ids starts from is a row of the table.              *)
LEMMA NoRowTyping == NoRow \in VersionRow
BY NumbersAreBounded DEF NoRow, VersionRow, VersionStatus

LEMMA IdleTyping == Idle \in Transaction
BY NumbersAreBounded DEF Idle, Transaction, Step

(* The nodes left by a rebuild name versions.                              *)
LEMMA RebuiltNodesTyping ==
    ASSUME TypeOK, NEW v \in Version, NEW s \in SUBSET NodeId
    PROVE  RebuiltNodes(v, s) \in [NodeId -> Version \cup {None}]
BY DEF TypeOK, RebuiltNodes

(* Advancing a request to its next step keeps tx in its type.              *)
LEMMA AdvanceTyping ==
    ASSUME TypeOK, NEW r \in Request, NEW step \in Step,
           NEW n \in 0..MaxVersionNumber
    PROVE  /\ [tx EXCEPT ![r].step = step] \in [Request -> Transaction]
           /\ [tx EXCEPT ![r].step = step, ![r].number = n] \in [Request -> Transaction]
<1>1. tx[r] \in Transaction
  BY DEF TypeOK
<1>2. /\ [tx[r] EXCEPT !.step = step] \in Transaction
      /\ [tx[r] EXCEPT !.step = step, !.number = n] \in Transaction
  BY <1>1 DEF Transaction
<1>3. /\ [tx EXCEPT ![r].step = step] = [tx EXCEPT ![r] = [tx[r] EXCEPT !.step = step]]
      /\ [tx EXCEPT ![r].step = step, ![r].number = n]
            = [tx EXCEPT ![r] = [tx[r] EXCEPT !.step = step, !.number = n]]
  BY DEF TypeOK
<1> QED
  BY <1>2, <1>3 DEF TypeOK

(* The fields of a request's tx and of a row.                              *)
LEMMA FieldTyping ==
    ASSUME TypeOK, NEW r \in Request
    PROVE  /\ tx[r].step \in Step
           /\ tx[r].doc \in Document \cup {None}
           /\ tx[r].draft \in Version \cup {None}
           /\ tx[r].published \in Version \cup {None}
           /\ tx[r].version \in Version \cup {None}
           /\ tx[r].number \in 0..MaxVersionNumber
           /\ tx[r].to \in WorkflowStatus \cup {None}
BY DEF TypeOK, Transaction

LEMMA RowTyping ==
    ASSUME TypeOK, NEW v \in Version
    PROVE  /\ versions[v] \in VersionRow
           /\ versions[v].document_id \in Document \cup {None}
           /\ versions[v].version_number \in 0..MaxVersionNumber
           /\ versions[v].status \in VersionStatus
           /\ versions[v].workflow_status \in WorkflowStatus \cup {None}
           /\ versions[v].content_snapshot \in (SUBSET NodeId) \cup {None}
BY DEF TypeOK, VersionRow

LEMMA PointerTyping ==
    ASSUME TypeOK, NEW d \in Document
    PROVE  /\ documents[d].current_draft_version_id \in Version \cup {None}
           /\ documents[d].current_published_version_id \in Version \cup {None}
BY DEF TypeOK, DocumentRow

(* The target of a workflow action is a workflow state.                    *)
LEMMA TargetTyping ==
    ASSUME NEW action \in WorkflowAction
    PROVE  ActionTarget[action] \in WorkflowStatus
<1>1. action \in {"submit_review", "approve", "reject", "publish",
                   "return_to_draft", "archive"}
  BY DEF WorkflowAction, ActionTarget
<1>2. CASE action = "submit_review"
  BY <1>2 DEF ActionTarget, WorkflowStatus
<1>3. CASE action = "approve"
  BY <1>3 DEF ActionTarget, WorkflowStatus
<1>4. CASE action = "reject"
  BY <1>4 DEF ActionTarget, WorkflowStatus
<1>5. CASE action = "publish"
  BY <1>5 DEF ActionTarget, WorkflowStatus, VersionStatus
<1>6. CASE action = "return_to_draft"
  BY <1>6 DEF ActionTarget, WorkflowStatus, VersionStatus
<1>7. CASE action = "archive"
  BY <1>7 DEF ActionTarget, WorkflowStatus
<1> QED
  BY <1>1, <1>2, <1>3, <1>4, <1>5, <1>6, <1>7

(* Every step keeps every variable within the columns of its table.        *)
LEMMA TypingStep == TypeOK /\ [Next]_vars => TypeOK'
<1> SUFFICES ASSUME TypeOK, [Next]_vars PROVE TypeOK'
  OBVIOUS
<1>1. CASE UNCHANGED vars
  BY <1>1 DEF TypeOK, vars
<1>2. ASSUME NEW r \in Request, NEW d \in Document, SaveReadDocument(r, d)
      PROVE  TypeOK'
  BY <1>2, ReadDocumentTyping, PointerTyping DEF SaveReadDocument, Step
<1>3. ASSUME NEW r \in Request, NEW d \in Document, DiscardReadDocument(r, d)
      PROVE  TypeOK'
  BY <1>3, ReadDocumentTyping, PointerTyping DEF DiscardReadDocument, Step
<1>4. ASSUME NEW r \in Request, NEW d \in Document, PublishReadDocument(r, d)
      PROVE  TypeOK'
  BY <1>4, ReadDocumentTyping, PointerTyping DEF PublishReadDocument, Step
<1>5. ASSUME NEW r \in Request, NEW d \in Document, CreateReadNumber(r, d)
      PROVE  TypeOK'
  <2>1. PICK n \in 1..MaxVersionNumber :
           tx' = [tx EXCEPT ![r] = [ Idle EXCEPT !.step = "create_ready",
                                                 !.doc = d, !.number = n ]]
    BY <1>5 DEF CreateReadNumber
  <2>2. [ step |-> "create_ready", doc |-> d, draft |-> None, published |-> None,
          version |-> None, number |-> n, to |-> None ] \in Transaction
    BY NumbersAreBounded DEF Transaction, Step
  <2> QED
    BY <1>5, <2>1, <2>2 DEF CreateReadNumber, TypeOK, Idle
<1>6. ASSUME NEW r \in Request, NEW d \in Document, NEW v \in Version,
             NEW action \in WorkflowAction, NEW role \in Role,
             WorkflowRead(r, d, v, action, role)
      PROVE  TypeOK'
  <2>1. [ step |-> "workflow_ready", doc |-> d, draft |-> None, published |-> None,
          version |-> v, number |-> 0, to |-> ActionTarget[action] ] \in Transaction
    BY NumbersAreBounded, TargetTyping DEF Transaction, Step
  <2> QED
    BY <1>6, <2>1 DEF WorkflowRead, TypeOK, Idle
<1>7. ASSUME NEW r \in Request, SaveCheckDraft(r)
      PROVE  TypeOK'
  <2>1. CASE Refuse(r)
    BY <2>1, RefuseTyping
  <2>2. CASE tx' = [tx EXCEPT ![r].step = "save_ready"]
               /\ UNCHANGED <<documents, versions, nodes>>
    <3>1. "save_ready" \in Step /\ 0 \in 0..MaxVersionNumber
      BY NumbersAreBounded DEF Step
    <3>2. tx' \in [Request -> Transaction]
      BY <2>2, <3>1, AdvanceTyping
    <3> QED
      BY <2>2, <3>2 DEF TypeOK
  <2> QED
    BY <1>7, <2>1, <2>2 DEF SaveCheckDraft
<1>8. ASSUME NEW r \in Request, SaveReadNumber(r)
      PROVE  TypeOK'
  <2>1. PICK n \in 1..MaxVersionNumber :
           tx' = [tx EXCEPT ![r].step = "save_ready", ![r].number = n]
    BY <1>8 DEF SaveReadNumber
  <2>2. n \in 0..MaxVersionNumber /\ "save_ready" \in Step
    BY NumbersAreBounded DEF Step
  <2>3. tx' \in [Request -> Transaction]
    BY <2>1, <2>2, AdvanceTyping
  <2> QED
    BY <1>8, <2>3 DEF SaveReadNumber, TypeOK
<1>9. ASSUME NEW r \in Request, NEW s \in SUBSET NodeId, SaveUpdate(r, s)
      PROVE  TypeOK'
  <2>1. tx[r].draft \in Version
    BY <1>9, FieldTyping DEF SaveUpdate
  <2>2. nodes' \in [NodeId -> Version \cup {None}]
    BY <1>9, <2>1, RebuiltNodesTyping DEF SaveUpdate
  <2>3. versions' \in [Version -> VersionRow]
    BY <1>9, <2>1 DEF SaveUpdate, TypeOK, VersionRow
  <2> QED
    BY <1>9, <2>2, <2>3, EndTyping DEF SaveUpdate, TypeOK
<1>10. ASSUME NEW r \in Request, NEW v \in Version, NEW s \in SUBSET NodeId,
              SaveInsert(r, v, s)
       PROVE  TypeOK'
  <2>1. nodes' \in [NodeId -> Version \cup {None}]
    BY <1>10, RebuiltNodesTyping DEF SaveInsert
  <2>2. versions' \in [Version -> VersionRow]
    BY <1>10, NewRowTyping, FieldTyping DEF SaveInsert, TypeOK
  <2>3. documents' \in [Document -> DocumentRow]
    BY <1>10, ZenonT(40) DEF SaveInsert, TypeOK, DocumentRow
  <2> QED
    BY <1>10, <2>1, <2>2, <2>3, EndTyping DEF SaveInsert, TypeOK
<1>11. ASSUME NEW r \in Request, NEW s \in SUBSET NodeId, SaveViolatesKey(r, s)
       PROVE  TypeOK'
  BY <1>11, RefuseTyping DEF SaveViolatesKey
<1>12. ASSUME NEW r \in Request, NEW v \in Version, NEW s \in SUBSET NodeId,
              CreateInsert(r, v, s)
       PROVE  TypeOK'
  <2>1. versions' \in [Version -> VersionRow]
    BY <1>12, NewRowTyping, FieldTyping DEF CreateInsert, TypeOK
  <2>2. nodes' \in [NodeId -> Version \cup {None}]
    BY <1>12 DEF CreateInsert, TypeOK
  <2> QED
    BY <1>12, <2>1, <2>2, EndTyping DEF CreateInsert, TypeOK
<1>13. ASSUME NEW r \in Request, CreateViolatesKey(r)
       PROVE  TypeOK'
  BY <1>13, RefuseTyping DEF CreateViolatesKey
<1>14. ASSUME NEW r \in Request, DiscardWrite(r)
       PROVE  TypeOK'
  <2>1. versions' \in [Version -> VersionRow]
    BY <1>14, ZenonT(40) DEF DiscardWrite, TypeOK, VersionRow, VersionStatus
  <2>2. documents' \in [Document -> DocumentRow]
    BY <1>14 DEF DiscardWrite, TypeOK, DocumentRow
  <2> QED
    BY <1>14, <2>1, <2>2, EndTyping DEF DiscardWrite, TypeOK
<1>15. ASSUME NEW r \in Request, PublishCheckDraft(r)
       PROVE  TypeOK'
  <2>1. CASE Refuse(r)
    BY <2>1, RefuseTyping
  <2>2. CASE tx' = [tx EXCEPT ![r].step = "publish_ready"]
               /\ UNCHANGED <<documents, versions, nodes>>
    <3>1. "publish_ready" \in Step /\ 0 \in 0..MaxVersionNumber
      BY NumbersAreBounded DEF Step
    <3>2. tx' \in [Request -> Transaction]
      BY <2>2, <3>1, AdvanceTyping
    <3> QED
      BY <2>2, <3>2 DEF TypeOK
  <2> QED
    BY <1>15, <2>1, <2>2 DEF PublishCheckDraft
<1>16. ASSUME NEW r \in Request, PublishWrite(r)
       PROVE  TypeOK'
  <2>1. versions' \in [Version -> VersionRow]
    BY <1>16, SMTT(30) DEF PublishWrite, TypeOK, VersionRow, VersionStatus
  <2>2. documents' \in [Document -> DocumentRow]
    BY <1>16, FieldTyping DEF PublishWrite, TypeOK, DocumentRow
  <2> QED
    BY <1>16, <2>1, <2>2, EndTyping DEF PublishWrite, TypeOK
<1>17. ASSUME NEW r \in Request, WorkflowWrite(r)
       PROVE  TypeOK'
  <2>1. versions' \in [Version -> VersionRow]
    <3>1. tx[r].to \in WorkflowStatus \cup {None} /\ "published" \in VersionStatus
          /\ "published" \in WorkflowStatus
      BY FieldTyping DEF VersionStatus, WorkflowStatus
    <3>2. CASE tx[r].to = "published"
      BY <1>17, <3>1, <3>2 DEF WorkflowWrite, TypeOK, VersionRow
    <3>3. CASE tx[r].to # "published"
      BY <1>17, <3>1, <3>3 DEF WorkflowWrite, TypeOK, VersionRow
    <3> QED
      BY <3>2, <3>3
  <2>2. documents' \in [Document -> DocumentRow]
    BY <1>17, FieldTyping DEF WorkflowWrite, TypeOK, DocumentRow
  <2> QED
    BY <1>17, <2>1, <2>2, EndTyping DEF WorkflowWrite, TypeOK
<1>18. ASSUME NEW r \in Request, Abort(r)
       PROVE  TypeOK'
  BY <1>18, RefuseTyping DEF Abort
<1>19. CASE Restart
  <2>1. versions' \in [Version -> VersionRow]
    BY <1>19, ResolvedTyping, SMTT(30) DEF Restart, TypeOK, VersionRow
  <2> QED
    BY <1>19, <2>1, IdleTyping DEF Restart, TypeOK
<1> QED
  BY <1>1, <1>2, <1>3, <1>4, <1>5, <1>6, <1>7, <1>8, <1>9, <1>10, <1>11, <1>12,
     <1>13, <1>14, <1>15, <1>16, <1>17, <1>18, <1>19
  DEF Next, Serve

(* The tables start empty, and no step leaves their columns' types.        *)
THEOREM TypeCorrect == Spec => []TypeOK
<1>1. Init => TypeOK
  BY NoRowTyping, IdleTyping DEF Init, TypeOK, DocumentRow
<1> QED
  BY <1>1, TypingStep, PTL DEF Spec

-----------------------------------------------------------------------------
(* The inductive invariant.  Most steps leave the tables alone, so it is   *)
(* proved from three facts: which steps write (OnlyWritesTouchTables),     *)
(* what no write undoes (RowsPersist), and, per write, each conjunct.      *)

TablesUnchanged == UNCHANGED <<documents, versions, nodes>>

LEMMA TablesInvUnchanged ==
    ASSUME TablesInv, TablesUnchanged
    PROVE  TablesInv'
BY DEF TablesInv, TablesUnchanged, UnusedIdsAreBlank, PointersStayInDocument,
       DraftPointerIsLive, PublishedPointerWasPublished, VersionNumbersAreUnique,
       NodesMirrorSnapshot, WorkflowPublishedIsNotDraft, Exists, VersionsOf

(* The steps that write to the tables.                                     *)
LEMMA WritesOfServe ==
    ASSUME Serve
    PROVE  \/ TablesUnchanged
           \/ \E r \in Request :
                \/ DiscardWrite(r) \/ PublishWrite(r) \/ WorkflowWrite(r)
                \/ \E s \in SUBSET NodeId :
                     \/ SaveUpdate(r, s)
                     \/ \E v \in Version : SaveInsert(r, v, s) \/ CreateInsert(r, v, s)
<1>1. ASSUME NEW r \in Request, NEW d \in Document,
             \/ SaveReadDocument(r, d)    \/ CreateReadNumber(r, d)
             \/ DiscardReadDocument(r, d) \/ PublishReadDocument(r, d)
      PROVE  TablesUnchanged
  BY <1>1 DEF TablesUnchanged, SaveReadDocument, DiscardReadDocument,
              PublishReadDocument, ReadDocument, CreateReadNumber
<1>2. ASSUME NEW r \in Request, NEW d \in Document, NEW v \in Version,
             NEW action \in WorkflowAction, NEW role \in Role,
             WorkflowRead(r, d, v, action, role)
      PROVE  TablesUnchanged
  BY <1>2 DEF TablesUnchanged, WorkflowRead
<1>3. ASSUME NEW r \in Request,
             \/ SaveCheckDraft(r) \/ SaveReadNumber(r) \/ CreateViolatesKey(r)
             \/ PublishCheckDraft(r) \/ Abort(r)
      PROVE  TablesUnchanged
  BY <1>3 DEF TablesUnchanged, SaveCheckDraft, SaveReadNumber, CreateViolatesKey,
              PublishCheckDraft, Abort, Refuse
<1>4. ASSUME NEW r \in Request, NEW s \in SUBSET NodeId, SaveViolatesKey(r, s)
      PROVE  TablesUnchanged
  BY <1>4 DEF TablesUnchanged, SaveViolatesKey, Refuse
<1> QED
  BY <1>1, <1>2, <1>3, <1>4 DEF Serve

LEMMA OnlyWritesTouchTables ==
    ASSUME Next
    PROVE  \/ TablesUnchanged
           \/ Restart
           \/ \E r \in Request :
                \/ DiscardWrite(r) \/ PublishWrite(r) \/ WorkflowWrite(r)
                \/ \E s \in SUBSET NodeId :
                     \/ SaveUpdate(r, s)
                     \/ \E v \in Version : SaveInsert(r, v, s) \/ CreateInsert(r, v, s)
BY WritesOfServe DEF Next

(* What every write keeps of a row that exists.                            *)
RowPersists(v) ==
    /\ versions'[v].document_id = versions[v].document_id
    /\ versions'[v].version_number = versions[v].version_number
    /\ versions[v].status # "draft" => versions'[v].status # "draft"

LEMMA RowsPersist ==
    ASSUME TypeOK, Next, NEW v \in Version, Exists(v)
    PROVE  RowPersists(v)
<1> USE DEF RowPersists, TypeOK, VersionRow
<1>1. CASE TablesUnchanged
  BY <1>1 DEF TablesUnchanged
<1>2. CASE Restart
  BY <1>2 DEF Restart
<1>3. ASSUME NEW r \in Request, DiscardWrite(r) PROVE RowPersists(v)
  BY <1>3 DEF DiscardWrite
<1>4. ASSUME NEW r \in Request, PublishWrite(r) PROVE RowPersists(v)
  BY <1>4 DEF PublishWrite
<1>5. ASSUME NEW r \in Request, WorkflowWrite(r) PROVE RowPersists(v)
  BY <1>5 DEF WorkflowWrite
<1>6. ASSUME NEW r \in Request, NEW w \in Version, NEW s \in SUBSET NodeId,
             CreateInsert(r, w, s)
      PROVE  RowPersists(v)
  BY <1>6 DEF CreateInsert
<1>7. ASSUME NEW r \in Request, NEW s \in SUBSET NodeId, SaveUpdate(r, s)
      PROVE  RowPersists(v)
  BY <1>7 DEF SaveUpdate
<1>8. ASSUME NEW r \in Request, NEW w \in Version, NEW s \in SUBSET NodeId,
             SaveInsert(r, w, s)
      PROVE  RowPersists(v)
  BY <1>8 DEF SaveInsert
<1> QED
  BY OnlyWritesTouchTables, <1>1, <1>2, <1>3, <1>4, <1>5, <1>6, <1>7, <1>8

(* No row loses its document or number or becomes a draft again.           *)
THEOREM NeverReopened == Spec => VersionsNeverReopen
<1>1. TypeOK /\ [Next]_vars =>
        [\A v \in Version : Exists(v) =>
          /\ versions[v].status # "draft" => versions'[v].status # "draft"
          /\ versions'[v].document_id = versions[v].document_id
          /\ versions'[v].version_number = versions[v].version_number]_vars
  BY RowsPersist DEF RowPersists
<1> QED
  BY <1>1, TypeCorrect, PTL DEF Spec, VersionsNeverReopen

(* A request that does not move keeps a true reading.                      *)
LEMMA OthersKeepTheirReading ==
    ASSUME TypeOK, Next, NEW r \in Request, ReadIsTrue(r), tx'[r] = tx[r]
    PROVE  ReadIsTrue(r)'
<1>1. ASSUME NEW v \in Version, tx[r].doc # None, versions[v].document_id = tx[r].doc
      PROVE  RowPersists(v)
  BY <1>1, RowsPersist DEF Exists
<1> QED
  BY <1>1, FieldTyping DEF ReadIsTrue, RowPersists

(* A request that ends has read nothing.                                   *)
LEMMA EndedReadsAreTrue ==
    ASSUME TypeOK, NEW r \in Request, End(r)
    PROVE  ReadIsTrue(r)'
BY DEF TypeOK, End, Idle, ReadIsTrue

(* The pointers of a document are versions of that document.               *)
LEMMA DocumentReadsAreTrue ==
    ASSUME IInv, NEW r \in Request, NEW d \in Document, NEW step \in Step,
           NEW published \in {None, documents[d].current_published_version_id},
           step \in {"discard_ready", "publish_doc"}
              => documents[d].current_draft_version_id # None,
           step \notin {"publish_ready", "workflow_ready"},
           ReadDocument(r, d, step, published)
    PROVE  ReadIsTrue(r)'
<1>1. tx'[r] = [ step |-> step, doc |-> d,
                 draft |-> documents[d].current_draft_version_id,
                 published |-> published,
                 version |-> None, number |-> 0, to |-> None ]
  BY DEF ReadDocument, Idle, IInv, TypeOK
<1>2. \A v \in {documents[d].current_draft_version_id, published} :
          v # None => versions[v].document_id = d
  BY DEF IInv, TablesInv, PointersStayInDocument, VersionsOf
<1>3. /\ tx'[r].step = step /\ tx'[r].doc = d /\ tx'[r].version = None
      /\ tx'[r].draft = documents[d].current_draft_version_id
      /\ tx'[r].published = published
  BY <1>1
<1>4. versions' = versions /\ d # None
  BY NoneIsNoRow DEF ReadDocument
<1>5. \A v \in {tx'[r].draft, tx'[r].published, tx'[r].version} :
          v # None => versions'[v].document_id = tx'[r].doc
  BY <1>2, <1>3, <1>4
<1>6. tx'[r].step \in {"discard_ready", "publish_doc", "publish_ready"}
          => tx'[r].draft # None
  BY <1>3
<1> QED
  BY <1>3, <1>4, <1>5, <1>6 DEF ReadIsTrue

(* The transition to "archived" is only taken from "published".            *)
LEMMA ArchivedFromPublished ==
    ASSUME NEW from, <<from, "archived">> \in AllowedTransitions
    PROVE  from = "published"
BY DEF AllowedTransitions

LEMMA ReadsStep ==
    ASSUME IInv, Next
    PROVE  ReadsStayTrue'
<1> USE DEF ReadsStayTrue
<1> SUFFICES ASSUME NEW q \in Request PROVE ReadIsTrue(q)'
  OBVIOUS
<1>0. TypeOK /\ ReadIsTrue(q)
  BY DEF IInv
<1>1. ASSUME NEW r \in Request, tx' = [tx EXCEPT ![r] = tx'[r]], ReadIsTrue(r)'
      PROVE  ReadIsTrue(q)'
  BY <1>0, <1>1, OthersKeepTheirReading DEF TypeOK
<1>2. ASSUME NEW r \in Request, End(r) PROVE ReadIsTrue(q)'
  BY <1>0, <1>1, <1>2, EndedReadsAreTrue DEF End, TypeOK
<1>3. ASSUME NEW r \in Request, NEW d \in Document,
             \/ SaveReadDocument(r, d) \/ DiscardReadDocument(r, d)
             \/ PublishReadDocument(r, d)
      PROVE  ReadIsTrue(q)'
  <2>1. PICK step \in {"save_doc", "discard_ready", "publish_doc"},
             published \in {None, documents[d].current_published_version_id} :
          /\ ReadDocument(r, d, step, published)
          /\ step # "save_doc" => documents[d].current_draft_version_id # None
    BY <1>3 DEF SaveReadDocument, DiscardReadDocument, PublishReadDocument
  <2>2. step \in Step
    BY DEF Step
  <2> QED
    BY <1>0, <1>1, <2>1, <2>2, DocumentReadsAreTrue DEF ReadDocument, TypeOK
<1>4. ASSUME NEW r \in Request, NEW d \in Document, CreateReadNumber(r, d)
      PROVE  ReadIsTrue(q)'
  <2>1. PICK n \in 1..MaxVersionNumber :
           tx' = [tx EXCEPT ![r] = [ Idle EXCEPT !.step = "create_ready",
                                                 !.doc = d, !.number = n ]]
    BY <1>4 DEF CreateReadNumber
  <2>2. ReadIsTrue(r)'
    BY <1>0, <2>1, NoneIsNoRow DEF ReadIsTrue, Idle, TypeOK
  <2> QED
    BY <1>0, <1>1, <2>1, <2>2 DEF TypeOK
<1>5. ASSUME NEW r \in Request, NEW d \in Document, NEW v \in Version,
             NEW action \in WorkflowAction, NEW role \in Role,
             WorkflowRead(r, d, v, action, role)
      PROVE  ReadIsTrue(q)'
  <2>1. tx'[r] = [ step |-> "workflow_ready", doc |-> d, draft |-> None,
                   published |-> None, version |-> v, number |-> 0,
                   to |-> ActionTarget[action] ]
    BY <1>0, <1>5 DEF WorkflowRead, Idle, TypeOK
  <2>2. /\ v # None /\ d # None /\ ActionTarget[action] # None
        /\ versions'[v].document_id = d /\ versions' = versions
    BY <1>5, NoneIsNoRow, TargetTyping DEF WorkflowRead
  <2>3. ASSUME ActionTarget[action] = "archived" PROVE versions[v].status # "draft"
    <3>1. ResolvedStatus(v) = "published"
      BY <1>5, <2>3, ArchivedFromPublished DEF WorkflowRead
    <3> QED
      BY <3>1 DEF IInv, TablesInv, WorkflowPublishedIsNotDraft, ResolvedStatus
  <2>4. ReadIsTrue(r)'
    BY <2>1, <2>2, <2>3 DEF ReadIsTrue
  <2> QED
    BY <1>0, <1>1, <1>5, <2>4 DEF WorkflowRead, TypeOK
<1>6. \A r \in Request : ReadIsTrue(r)
  BY DEF IInv
<1>7. ASSUME NEW r \in Request, SaveCheckDraft(r) PROVE ReadIsTrue(q)'
  <2>1. CASE Refuse(r)
    BY <2>1, <1>2 DEF Refuse
  <2>2. CASE tx' = [tx EXCEPT ![r].step = "save_ready"] /\ versions' = versions
    <3>1. tx[r].step = "save_doc" /\ tx'[r] = [tx[r] EXCEPT !.step = "save_ready"]
      BY <1>0, <1>7, <2>2 DEF SaveCheckDraft, TypeOK
    <3>2. ReadIsTrue(r)'
      BY <1>0, <1>6, <2>2, <3>1 DEF ReadIsTrue, TypeOK, Transaction
    <3> QED
      BY <1>0, <1>1, <2>2, <3>2 DEF TypeOK
  <2> QED
    BY <1>7, <2>1, <2>2 DEF SaveCheckDraft
<1>8. ASSUME NEW r \in Request, PublishCheckDraft(r) PROVE ReadIsTrue(q)'
  <2>1. CASE Refuse(r)
    BY <2>1, <1>2 DEF Refuse
  <2>2. CASE tx' = [tx EXCEPT ![r].step = "publish_ready"] /\ versions' = versions
    <3>1. tx[r].step = "publish_doc" /\ tx'[r] = [tx[r] EXCEPT !.step = "publish_ready"]
      BY <1>0, <1>8, <2>2 DEF PublishCheckDraft, TypeOK
    <3>2. ReadIsTrue(r)'
      BY <1>0, <1>6, <2>2, <3>1 DEF ReadIsTrue, TypeOK, Transaction
    <3> QED
      BY <1>0, <1>1, <2>2, <3>2 DEF TypeOK
  <2> QED
    BY <1>8, <2>1, <2>2 DEF PublishCheckDraft
<1>9. ASSUME NEW r \in Request, SaveReadNumber(r) PROVE ReadIsTrue(q)'
  <2>1. PICK n \in 1..MaxVersionNumber :
           tx' = [tx EXCEPT ![r].step = "save_ready", ![r].number = n]
    BY <1>9 DEF SaveReadNumber
  <2>2. /\ tx[r].step = "save_doc" /\ versions' = versions
        /\ tx'[r] = [tx[r] EXCEPT !.step = "save_ready", !.number = n]
    BY <1>0, <1>9, <2>1 DEF SaveReadNumber, TypeOK
  <2>3. ReadIsTrue(r)'
    BY <1>0, <1>6, <2>2 DEF ReadIsTrue, TypeOK, Transaction
  <2> QED
    BY <1>0, <1>1, <2>1, <2>3 DEF TypeOK
<1>10. CASE Restart
  BY <1>0, <1>10, OthersKeepTheirReading DEF Restart
<1>11. ASSUME NEW r \in Request, ~End(r),
              \/ CreateViolatesKey(r) \/ DiscardWrite(r) \/ PublishWrite(r)
              \/ WorkflowWrite(r) \/ Abort(r)
              \/ \E s \in SUBSET NodeId :
                    \/ SaveUpdate(r, s) \/ SaveViolatesKey(r, s)
                    \/ \E v \in Version : SaveInsert(r, v, s) \/ CreateInsert(r, v, s)
       PROVE  FALSE
  BY <1>11 DEF CreateViolatesKey, DiscardWrite, PublishWrite, WorkflowWrite, Abort,
               SaveUpdate, SaveViolatesKey, SaveInsert, CreateInsert, Refuse
<1> QED
  BY <1>2, <1>3, <1>4, <1>5, <1>7, <1>8, <1>9, <1>10, <1>11 DEF Next, Serve

-----------------------------------------------------------------------------
(* Each write keeps TablesInv.                                             *)

(* The document and the draft of a request are a document and a version of *)
(* that document.                                                          *)
LEMMA ReadOwnership ==
    ASSUME IInv, NEW r \in Request, tx[r].step # "idle"
    PROVE  /\ tx[r].doc \in Document
           /\ tx[r].draft # None =>
                 tx[r].draft \in Version /\ versions[tx[r].draft].document_id = tx[r].doc
           /\ tx[r].published # None =>
                 tx[r].published \in Version
                 /\ versions[tx[r].published].document_id = tx[r].doc
           /\ tx[r].version # None =>
                 tx[r].version \in Version
                 /\ versions[tx[r].version].document_id = tx[r].doc
BY FieldTyping DEF IInv, ReadsStayTrue, ReadIsTrue

(* Columns that none of the writes below touches, beside the ones named.   *)
LEMMA KeysKept ==
    ASSUME TypeOK, TypeOK', UnusedIdsAreBlank, VersionNumbersAreUnique,
           \A v \in Version :
              /\ versions'[v].document_id = versions[v].document_id
              /\ versions'[v].version_number = versions[v].version_number,
           \A v \in Version : ~Exists(v) => versions'[v] = versions[v]
    PROVE  UnusedIdsAreBlank' /\ VersionNumbersAreUnique'
BY DEF UnusedIdsAreBlank, VersionNumbersAreUnique, Exists

LEMMA ContentKept ==
    ASSUME NodesMirrorSnapshot, nodes' = nodes, TypeOK,
           \A v \in Version :
              versions'[v].content_snapshot = versions[v].content_snapshot
    PROVE  NodesMirrorSnapshot'
BY DEF NodesMirrorSnapshot, TypeOK

(* Replacing the nodes of a version by its new snapshot keeps the mirror.  *)
LEMMA RebuildMirrors ==
    ASSUME TypeOK, NodesMirrorSnapshot, NEW w \in Version, NEW s \in SUBSET NodeId,
           NodeIdsAreFree(w, s), nodes' = RebuiltNodes(w, s),
           versions'[w].content_snapshot = s,
           \A v \in Version : v # w =>
              versions'[v].content_snapshot = versions[v].content_snapshot
    PROVE  NodesMirrorSnapshot'
<1>1. \A n \in NodeId :
        nodes'[n] = IF n \in s THEN w ELSE IF nodes[n] = w THEN None ELSE nodes[n]
  BY DEF RebuiltNodes
<1>2. w # None /\ s # None
  BY NoneIsNoRow
<1>3. { n \in NodeId : nodes'[n] = w } = s
  BY <1>1, <1>2
<1>4. ASSUME NEW v \in Version, v # w
      PROVE  { n \in NodeId : nodes'[n] = v } = { n \in NodeId : nodes[n] = v }
  <2>1. v # None
    BY NoneIsNoRow
  <2>2. \A n \in NodeId : nodes'[n] = v <=> nodes[n] = v
    BY <1>1, <1>4, <2>1 DEF NodeIdsAreFree
  <2> QED
    BY <2>2
<1> QED
  BY <1>3, <1>4 DEF NodesMirrorSnapshot

LEMMA DiscardWriteKeepsTables ==
    ASSUME IInv, TypeOK', NEW r \in Request, DiscardWrite(r)
    PROVE  TablesInv'
<1> DEFINE w == tx[r].draft
           d0 == tx[r].doc
<1>1. w \in Version /\ d0 \in Document /\ versions[w].document_id = d0 /\ d0 # None
  BY ReadOwnership, NoneIsNoRow DEF DiscardWrite, IInv, ReadsStayTrue, ReadIsTrue
<1>2. \A v \in Version :
        /\ v # w => versions'[v] = versions[v]
        /\ versions'[v].document_id = versions[v].document_id
        /\ versions'[v].version_number = versions[v].version_number
        /\ versions'[v].workflow_status = versions[v].workflow_status
        /\ versions'[v].content_snapshot = versions[v].content_snapshot
        /\ versions'[v].status = IF v = w THEN "discarded" ELSE versions[v].status
  BY <1>1 DEF DiscardWrite, IInv, TypeOK, VersionRow
<1>3. \A d \in Document :
        /\ documents'[d].current_published_version_id
              = documents[d].current_published_version_id
        /\ documents'[d].current_draft_version_id
              = IF d = d0 THEN None ELSE documents[d].current_draft_version_id
  BY <1>1 DEF DiscardWrite, IInv, TypeOK, DocumentRow
<1>4. UnusedIdsAreBlank' /\ VersionNumbersAreUnique'
  BY <1>1, <1>2, KeysKept DEF IInv, TablesInv, Exists
<1>5. NodesMirrorSnapshot'
  BY <1>2, ContentKept DEF DiscardWrite, IInv, TablesInv
<1>6. PointersStayInDocument'
  BY <1>2, <1>3 DEF IInv, TablesInv, PointersStayInDocument, VersionsOf
<1>7. DraftPointerIsLive'
  BY <1>1, <1>2, <1>3 DEF IInv, TablesInv, PointersStayInDocument, VersionsOf,
                          DraftPointerIsLive
<1>8. PublishedPointerWasPublished'
  BY <1>2, <1>3, PointerTyping DEF IInv, TablesInv, PublishedPointerWasPublished
<1>9. WorkflowPublishedIsNotDraft'
  BY <1>2 DEF IInv, TablesInv, WorkflowPublishedIsNotDraft
<1> QED
  BY <1>4, <1>5, <1>6, <1>7, <1>8, <1>9 DEF TablesInv

LEMMA PublishWriteKeepsTables ==
    ASSUME IInv, TypeOK', NEW r \in Request, PublishWrite(r)
    PROVE  TablesInv'
<1> DEFINE w == tx[r].draft
           d0 == tx[r].doc
           p == tx[r].published
<1>1. /\ w \in Version /\ d0 \in Document /\ versions[w].document_id = d0 /\ d0 # None
      /\ p # None => p \in Version /\ versions[p].document_id = d0
  BY ReadOwnership, NoneIsNoRow DEF PublishWrite, IInv, ReadsStayTrue, ReadIsTrue
<1>2. \A v \in Version :
        /\ v # w /\ v # p => versions'[v] = versions[v]
        /\ versions'[v].document_id = versions[v].document_id
        /\ versions'[v].version_number = versions[v].version_number
        /\ versions'[v].workflow_status = versions[v].workflow_status
        /\ versions'[v].content_snapshot = versions[v].content_snapshot
        /\ versions'[v].status = IF v = w THEN "published"
                                 ELSE IF v = p THEN "superseded" ELSE versions[v].status
  BY <1>1 DEF PublishWrite, IInv, TypeOK, VersionRow
<1>3. \A d \in Document :
        /\ documents'[d].current_published_version_id
              = IF d = d0 THEN w ELSE documents[d].current_published_version_id
        /\ documents'[d].current_draft_version_id
              = IF d = d0 THEN None ELSE documents[d].current_draft_version_id
  BY <1>1 DEF PublishWrite, IInv, TypeOK, DocumentRow
<1>4. UnusedIdsAreBlank' /\ VersionNumbersAreUnique'
  BY <1>1, <1>2, NoneIsNoRow, KeysKept DEF IInv, TablesInv, Exists
<1>5. NodesMirrorSnapshot'
  BY <1>2, ContentKept DEF PublishWrite, IInv, TablesInv
<1>6. PointersStayInDocument'
  BY <1>1, <1>2, <1>3 DEF IInv, TablesInv, PointersStayInDocument, VersionsOf
<1>7. DraftPointerIsLive'
  BY <1>1, <1>2, <1>3 DEF IInv, TablesInv, PointersStayInDocument, VersionsOf,
                          DraftPointerIsLive
<1>8. PublishedPointerWasPublished'
  BY <1>1, <1>2, <1>3 DEF IInv, TablesInv, PointersStayInDocument, VersionsOf,
                          PublishedPointerWasPublished
<1>9. WorkflowPublishedIsNotDraft'
  BY <1>2 DEF IInv, TablesInv, WorkflowPublishedIsNotDraft
<1> QED
  BY <1>4, <1>5, <1>6, <1>7, <1>8, <1>9 DEF TablesInv

LEMMA WorkflowWriteKeepsTables ==
    ASSUME IInv, TypeOK', NEW r \in Request, WorkflowWrite(r)
    PROVE  TablesInv'
<1> DEFINE w == tx[r].version
           d0 == tx[r].doc
<1>1. /\ w \in Version /\ d0 \in Document /\ versions[w].document_id = d0 /\ d0 # None
      /\ tx[r].to = "archived" => versions[w].status # "draft"
  BY ReadOwnership, NoneIsNoRow DEF WorkflowWrite, IInv, ReadsStayTrue, ReadIsTrue
<1>2. \A v \in Version :
        /\ v # w => versions'[v] = versions[v]
        /\ versions'[v].document_id = versions[v].document_id
        /\ versions'[v].version_number = versions[v].version_number
        /\ versions'[v].content_snapshot = versions[v].content_snapshot
        /\ versions'[v].workflow_status
              = IF v = w THEN tx[r].to ELSE versions[v].workflow_status
        /\ versions'[v].status = IF v = w /\ tx[r].to = "published"
                                 THEN "published" ELSE versions[v].status
  <2>1. CASE tx[r].to = "published"
    BY <1>1, <2>1 DEF WorkflowWrite, IInv, TypeOK, VersionRow
  <2>2. CASE tx[r].to # "published"
    BY <1>1, <2>2 DEF WorkflowWrite, IInv, TypeOK, VersionRow
  <2> QED
    BY <2>1, <2>2
<1>3. \A d \in Document :
        /\ documents'[d].current_published_version_id
              = IF d = d0 /\ tx[r].to = "published"
                THEN w ELSE documents[d].current_published_version_id
        /\ documents'[d].current_draft_version_id
              = documents[d].current_draft_version_id
  BY <1>1 DEF WorkflowWrite, IInv, TypeOK, DocumentRow
<1>4. UnusedIdsAreBlank' /\ VersionNumbersAreUnique'
  BY <1>1, <1>2, KeysKept DEF IInv, TablesInv, Exists
<1>5. NodesMirrorSnapshot'
  BY <1>2, ContentKept DEF WorkflowWrite, IInv, TablesInv
<1>6. PointersStayInDocument'
  BY <1>1, <1>2, <1>3 DEF IInv, TablesInv, PointersStayInDocument, VersionsOf
<1>7. DraftPointerIsLive'
  BY <1>2, <1>3, PointerTyping DEF IInv, TablesInv, DraftPointerIsLive
<1>8. PublishedPointerWasPublished'
  BY <1>1, <1>2, <1>3, PointerTyping DEF IInv, TablesInv, PublishedPointerWasPublished
<1>9. WorkflowPublishedIsNotDraft'
  BY <1>1, <1>2 DEF IInv, TablesInv, WorkflowPublishedIsNotDraft
<1> QED
  BY <1>4, <1>5, <1>6, <1>7, <1>8, <1>9 DEF TablesInv

LEMMA RestartKeepsTables ==
    ASSUME IInv, TypeOK', Restart
    PROVE  TablesInv'
<1>1. \A v \in Version :
        /\ ~Exists(v) => versions'[v] = versions[v]
        /\ versions'[v].document_id = versions[v].document_id
        /\ versions'[v].version_number = versions[v].version_number
        /\ versions'[v].content_snapshot = versions[v].content_snapshot
        /\ versions'[v].status = versions[v].status
        /\ versions'[v].workflow_status
              = IF Exists(v) THEN ResolvedStatus(v) ELSE versions[v].workflow_status
  BY DEF Restart, IInv, TypeOK, VersionRow
<1>2. UnusedIdsAreBlank' /\ VersionNumbersAreUnique'
  BY <1>1, KeysKept DEF IInv, TablesInv, Exists
<1>3. NodesMirrorSnapshot'
  BY <1>1, ContentKept DEF Restart, IInv, TablesInv
<1>4. PointersStayInDocument'
  BY <1>1 DEF Restart, IInv, TablesInv, PointersStayInDocument, VersionsOf
<1>5. DraftPointerIsLive' /\ PublishedPointerWasPublished'
  BY <1>1, PointerTyping DEF Restart, IInv, TablesInv, DraftPointerIsLive,
                             PublishedPointerWasPublished
<1>6. WorkflowPublishedIsNotDraft'
  BY <1>1 DEF IInv, TablesInv, WorkflowPublishedIsNotDraft, ResolvedStatus
<1> QED
  BY <1>2, <1>3, <1>4, <1>5, <1>6 DEF TablesInv

LEMMA SaveUpdateKeepsTables ==
    ASSUME IInv, TypeOK', NEW r \in Request, NEW s \in SUBSET NodeId, SaveUpdate(r, s)
    PROVE  TablesInv'
<1> DEFINE w == tx[r].draft
<1>1. w \in Version /\ versions[w].document_id # None
  BY ReadOwnership, NoneIsNoRow DEF SaveUpdate
<1>2. \A v \in Version :
        /\ v # w => versions'[v] = versions[v]
        /\ versions'[v].document_id = versions[v].document_id
        /\ versions'[v].version_number = versions[v].version_number
        /\ versions'[v].status = versions[v].status
        /\ versions'[v].workflow_status = versions[v].workflow_status
        /\ versions'[v].content_snapshot = IF v = w THEN s ELSE versions[v].content_snapshot
  BY <1>1 DEF SaveUpdate, IInv, TypeOK, VersionRow
<1>3. UnusedIdsAreBlank' /\ VersionNumbersAreUnique'
  BY <1>1, <1>2, KeysKept DEF IInv, TablesInv, Exists
<1>4. PointersStayInDocument'
  BY <1>2 DEF SaveUpdate, IInv, TablesInv, PointersStayInDocument, VersionsOf
<1>5. DraftPointerIsLive' /\ PublishedPointerWasPublished'
  BY <1>2, PointerTyping DEF SaveUpdate, IInv, TablesInv, DraftPointerIsLive,
                             PublishedPointerWasPublished
<1>6. WorkflowPublishedIsNotDraft'
  BY <1>2 DEF IInv, TablesInv, WorkflowPublishedIsNotDraft
<1>7. NodesMirrorSnapshot'
  BY <1>1, <1>2, RebuildMirrors DEF SaveUpdate, IInv, TablesInv
<1> QED
  BY <1>3, <1>4, <1>5, <1>6, <1>7 DEF TablesInv

(* What an insert of a row makes of the tables, whoever points at it.      *)
LEMMA InsertKeepsKeys ==
    ASSUME TypeOK, UnusedIdsAreBlank, VersionNumbersAreUnique,
           NEW d \in Document, NEW n \in 0..MaxVersionNumber, NEW w \in Version,
           NEW row, row.document_id = d, row.version_number = n,
           ~Exists(w), NumberIsFree(d, n),
           versions' = [versions EXCEPT ![w] = row]
    PROVE  /\ UnusedIdsAreBlank'
           /\ VersionNumbersAreUnique'
<1>1. \A v \in Version : v # w => versions'[v] = versions[v]
  BY DEF TypeOK
<1>2. /\ versions'[w].document_id = d
      /\ versions'[w].version_number = n
      /\ d # None
  BY NoneIsNoRow DEF TypeOK
<1>3. \A v \in Version : versions[v].document_id = d => versions[v].version_number # n
  BY DEF NumberIsFree, VersionsOf
<1>4. UnusedIdsAreBlank'
  BY <1>1, <1>2 DEF UnusedIdsAreBlank, Exists
<1>5. VersionNumbersAreUnique'
  BY <1>1, <1>2, <1>3 DEF VersionNumbersAreUnique, Exists
<1> QED
  BY <1>4, <1>5

LEMMA CreateInsertKeepsTables ==
    ASSUME IInv, TypeOK', NEW r \in Request, NEW w \in Version, NEW s \in SUBSET NodeId,
             CreateInsert(r, w, s)
    PROVE  TablesInv'
<1> DEFINE d0 == tx[r].doc
<1>1. d0 \in Document /\ tx[r].number \in 0..MaxVersionNumber
  BY ReadOwnership, FieldTyping DEF CreateInsert, IInv
<1>2. UnusedIdsAreBlank' /\ VersionNumbersAreUnique'
  BY <1>1, InsertKeepsKeys DEF CreateInsert, NewRow, IInv, TablesInv
<1>3. \A v \in Version : v # w => versions'[v] = versions[v]
  BY DEF CreateInsert, IInv, TypeOK
<1>4. versions[w] = NoRow
  BY DEF CreateInsert, IInv, TablesInv, UnusedIdsAreBlank
<1>5. /\ versions'[w].document_id = d0 /\ versions'[w].status = "draft"
      /\ versions'[w].workflow_status = None /\ versions'[w].content_snapshot = None
  BY DEF CreateInsert, IInv, TypeOK, NewRow
<1>6. \A d \in Document : /\ documents[d].current_draft_version_id # w
                          /\ documents[d].current_published_version_id # w
  BY <1>4, NoneIsNoRow DEF IInv, TablesInv, PointersStayInDocument, VersionsOf, NoRow
<1>7. PointersStayInDocument'
  BY <1>3, <1>6 DEF CreateInsert, IInv, TablesInv, PointersStayInDocument, VersionsOf
<1>8. DraftPointerIsLive' /\ PublishedPointerWasPublished'
  BY <1>3, <1>6, PointerTyping DEF CreateInsert, IInv, TablesInv, DraftPointerIsLive,
                                   PublishedPointerWasPublished
<1>9. WorkflowPublishedIsNotDraft'
  BY <1>3, <1>5, NoneIsNoRow DEF IInv, TablesInv, WorkflowPublishedIsNotDraft, WorkflowStatus,
                                 VersionStatus
<1>10. NodesMirrorSnapshot'
  <2>1. ASSUME NEW v \in Version, v # w
        PROVE  { n \in NodeId : nodes'[n] = v } = { n \in NodeId : nodes[n] = v }
    <3>1. \A n \in NodeId : nodes'[n] = IF n \in s THEN w ELSE nodes[n]
      BY DEF CreateInsert
    <3>2. \A n \in s : nodes[n] # v
      BY NoneIsNoRow DEF CreateInsert
    <3> QED
      BY <2>1, <3>1, <3>2
  <2> QED
    BY <1>3, <1>5, <2>1 DEF IInv, TablesInv, NodesMirrorSnapshot
<1> QED
  BY <1>2, <1>7, <1>8, <1>9, <1>10 DEF TablesInv

LEMMA SaveInsertKeepsTables ==
    ASSUME IInv, TypeOK', NEW r \in Request, NEW w \in Version, NEW s \in SUBSET NodeId,
           SaveInsert(r, w, s)
    PROVE  TablesInv'
<1> DEFINE d0 == tx[r].doc
<1>1. d0 \in Document /\ tx[r].number \in 0..MaxVersionNumber
  BY ReadOwnership, FieldTyping DEF SaveInsert, IInv
<1>2. UnusedIdsAreBlank' /\ VersionNumbersAreUnique'
  BY <1>1, InsertKeepsKeys DEF SaveInsert, NewRow, IInv, TablesInv
<1>3. \A v \in Version : v # w => versions'[v] = versions[v]
  BY DEF SaveInsert, IInv, TypeOK
<1>4. versions[w] = NoRow
  BY DEF SaveInsert, IInv, TablesInv, UnusedIdsAreBlank
<1>5. /\ versions'[w].document_id = d0 /\ versions'[w].status = "draft"
      /\ versions'[w].workflow_status = None /\ versions'[w].content_snapshot = s
  BY DEF SaveInsert, IInv, TypeOK, NewRow
<1>6. \A d \in Document : /\ documents[d].current_draft_version_id # w
                          /\ documents[d].current_published_version_id # w
  BY <1>4, NoneIsNoRow DEF IInv, TablesInv, PointersStayInDocument, VersionsOf, NoRow
<1>7. \A d \in Document :
        /\ documents'[d].current_published_version_id
              = documents[d].current_published_version_id
        /\ documents'[d].current_draft_version_id
              = IF d = d0 THEN w ELSE documents[d].current_draft_version_id
  BY <1>1 DEF SaveInsert, IInv, TypeOK, DocumentRow
<1>8. PointersStayInDocument'
  BY <1>3, <1>5, <1>6, <1>7 DEF IInv, TablesInv, PointersStayInDocument, VersionsOf
<1>9. DraftPointerIsLive' /\ PublishedPointerWasPublished'
  BY <1>3, <1>5, <1>6, <1>7, PointerTyping
  DEF IInv, TablesInv, DraftPointerIsLive, PublishedPointerWasPublished
<1>10. WorkflowPublishedIsNotDraft'
  BY <1>3, <1>5, NoneIsNoRow DEF IInv, TablesInv, WorkflowPublishedIsNotDraft, WorkflowStatus,
                                 VersionStatus
<1>11. NodesMirrorSnapshot'
  BY <1>3, <1>5, RebuildMirrors DEF SaveInsert, IInv, TablesInv
<1> QED
  BY <1>2, <1>8, <1>9, <1>10, <1>11 DEF TablesInv

LEMMA InvariantStep == IInv /\ [Next]_vars => IInv'
<1> SUFFICES ASSUME IInv, [Next]_vars PROVE IInv'
  OBVIOUS
<1>1. CASE UNCHANGED vars
  BY <1>1, TablesInvUnchanged
  DEF vars, TablesUnchanged, IInv, TypeOK, ReadsStayTrue, ReadIsTrue
<1>2. CASE Next
  <2>1. TypeOK' /\ ReadsStayTrue'
    BY <1>2, TypingStep, ReadsStep DEF IInv
  <2>2. TablesInv'
    BY <1>2, <2>1, OnlyWritesTouchTables, TablesInvUnchanged, RestartKeepsTables,
       DiscardWriteKeepsTables, PublishWriteKeepsTables, WorkflowWriteKeepsTables,
       CreateInsertKeepsTables, SaveUpdateKeepsTables, SaveInsertKeepsTables
    DEF IInv
  <2> QED
    BY <2>1, <2>2 DEF IInv
<1> QED
  BY <1>1, <1>2

LEMMA InvariantInit == Init => IInv
<1> SUFFICES ASSUME Init PROVE IInv
  OBVIOUS
<1>1. TypeOK
  BY NoRowTyping, IdleTyping DEF Init, TypeOK, DocumentRow
<1>2. ReadsStayTrue
  BY DEF Init, ReadsStayTrue, ReadIsTrue, Idle
<1>3. TablesInv
  BY NoneIsNoRow DEF Init, NoRow, Exists, VersionsOf, TablesInv, UnusedIdsAreBlank,
     PointersStayInDocument, DraftPointerIsLive, PublishedPointerWasPublished,
     VersionNumbersAreUnique, NodesMirrorSnapshot, WorkflowPublishedIsNotDraft,
     WorkflowStatus, VersionStatus
<1> QED
  BY <1>1, <1>2, <1>3 DEF IInv

LEMMA InvariantHolds == Spec => []IInv
BY InvariantInit, InvariantStep, PTL DEF Spec

-----------------------------------------------------------------------------
(* The properties.                                                         *)

(* Whatever overlaps, a document points to versions of its own, its draft  *)
(* pointer to a live one and its published pointer to a published one.     *)
THEOREM PointersCorrect ==
    Spec => []( /\ PointersStayInDocument
                /\ DraftPointerIsLive
                /\ PublishedPointerWasPublished )
<1>1. IInv => /\ PointersStayInDocument
              /\ DraftPointerIsLive
              /\ PublishedPointerWasPublished
  BY DEF IInv, TablesInv
<1> QED
  BY <1>1, InvariantHolds, PTL

(* No interleaving of discards, publishes and saves leaves the draft       *)
(* pointer on a discarded or superseded version.                           *)
THEOREM DraftPointerLives == Spec => []DraftPointerIsLive
BY PointersCorrect, PTL

(* However publishes overlap, the published pointer refers to no version   *)
(* that is superseded or was never published.                              *)
THEOREM PublishedPointerCorrect == Spec => []PublishedPointerWasPublished
BY PointersCorrect, PTL

(* Stale reads of the next number never give two versions the same one.    *)
THEOREM NumbersUnique == Spec => []VersionNumbersAreUnique
<1>1. IInv => VersionNumbersAreUnique
  BY DEF IInv, TablesInv
<1> QED
  BY <1>1, InvariantHolds, PTL

(* The node rows of a version with a snapshot stay those of the snapshot,  *)
(* whatever saves and creations of versions overlap.                       *)
THEOREM NodesMirror == Spec => []NodesMirrorSnapshot
<1>1. IInv => NodesMirrorSnapshot
  BY DEF IInv, TablesInv
<1> QED
  BY <1>1, InvariantHolds, PTL

(* What the workflow has published is not a draft in the status column.    *)
THEOREM ColumnsAgree == Spec => []WorkflowPublishedIsNotDraft
<1>1. IInv => WorkflowPublishedIsNotDraft
  BY DEF IInv, TablesInv
<1> QED
  BY <1>1, InvariantHolds, PTL

(* The draft pointer moves to NULL or to a version born in that step: the  *)
(* only write that sets it is the insert of save_draft.                    *)
THEOREM DraftMovesForward == Spec => DraftPointerMovesToNewVersion
<1> DEFINE Moves(d) ==
      LET v == documents'[d].current_draft_version_id IN
      v # documents[d].current_draft_version_id /\ v # None => ~Exists(v)
<1>1. TypeOK /\ [Next]_vars => [\A d \in Document : Moves(d)]_vars
  <2> SUFFICES ASSUME TypeOK, Next, NEW d \in Document PROVE Moves(d)
    OBVIOUS
  <2>1. CASE TablesUnchanged \/ Restart
    BY <2>1 DEF TablesUnchanged, Restart
  <2>2. ASSUME NEW r \in Request, DiscardWrite(r) \/ PublishWrite(r) PROVE Moves(d)
    BY <2>2 DEF DiscardWrite, PublishWrite, TypeOK, DocumentRow
  <2>3. ASSUME NEW r \in Request, WorkflowWrite(r) PROVE Moves(d)
    BY <2>3 DEF WorkflowWrite, TypeOK, DocumentRow
  <2>4. ASSUME NEW r \in Request, NEW w \in Version, NEW s \in SUBSET NodeId,
             CreateInsert(r, w, s) PROVE Moves(d)
    BY <2>4 DEF CreateInsert
  <2>5. ASSUME NEW r \in Request, NEW s \in SUBSET NodeId, SaveUpdate(r, s)
        PROVE  Moves(d)
    BY <2>5 DEF SaveUpdate
  <2>6. ASSUME NEW r \in Request, NEW s \in SUBSET NodeId, NEW w \in Version,
               SaveInsert(r, w, s)
        PROVE  Moves(d)
    BY <2>6 DEF SaveInsert, TypeOK, DocumentRow
  <2> QED
    BY OnlyWritesTouchTables, <2>1, <2>2, <2>3, <2>4, <2>5, <2>6
<1> QED
  BY <1>1, TypeCorrect, PTL DEF Spec, DraftPointerMovesToNewVersion

(***************************************************************************)
(* VersionLifecycle implements DocumentSlots.                              *)
(***************************************************************************)

slotOwner == [v \in Version |-> versions[v].document_id]
slotDraft == [d \in Document |-> documents[d].current_draft_version_id]
slotPublished == [d \in Document |-> documents[d].current_published_version_id]

(* Empty tables are empty slots.                                           *)
LEMMA InitMaps == Init => Slots!Init
BY DEF Init, Slots!Init, NoRow

(* A step that keeps every owner and pointer is a stutter.                 *)
LEMMA Stutters ==
    ASSUME slotOwner' = slotOwner, slotDraft' = slotDraft, slotPublished' = slotPublished
    PROVE  UNCHANGED Slots!slots
BY DEF Slots!slots, slotOwner, slotDraft, slotPublished

LEMMA StepMaps == IInv /\ [Next]_vars => [Slots!Next]_(Slots!slots)
<1> SUFFICES ASSUME IInv, [Next]_vars PROVE [Slots!Next]_(Slots!slots)
  OBVIOUS
<1> USE DEF slotOwner, slotDraft, slotPublished
<1>0. TypeOK
  BY DEF IInv
<1>1. CASE UNCHANGED vars \/ TablesUnchanged
  BY <1>1, Stutters DEF vars, TablesUnchanged
<1>2. CASE Restart
  BY <1>0, <1>2, Stutters DEF Restart, TypeOK, VersionRow
<1>3. ASSUME NEW r \in Request, NEW s \in SUBSET NodeId, SaveUpdate(r, s)
      PROVE  UNCHANGED Slots!slots
  BY <1>0, <1>3, Stutters DEF SaveUpdate, TypeOK, VersionRow
<1>4. ASSUME NEW r \in Request, NEW w \in Version, NEW s \in SUBSET NodeId,
             CreateInsert(r, w, s)
      PROVE  Slots!Next
  <2>1. tx[r].doc \in Document
    BY <1>4, ReadOwnership DEF CreateInsert
  <2>2. Slots!Create(tx[r].doc, w)
    BY <1>0, <1>4, <2>1 DEF CreateInsert, Exists, NewRow, TypeOK, Slots!Create
  <2> QED
    BY <2>1, <2>2 DEF Slots!Next
<1>5. ASSUME NEW r \in Request, NEW w \in Version, NEW s \in SUBSET NodeId,
             SaveInsert(r, w, s)
      PROVE  Slots!Next
  <2>1. tx[r].doc \in Document
    BY <1>5, ReadOwnership DEF SaveInsert
  <2>2. Slots!Create(tx[r].doc, w)
    BY <1>0, <1>5, <2>1 DEF SaveInsert, Exists, NewRow, TypeOK, DocumentRow, Slots!Create
  <2> QED
    BY <2>1, <2>2 DEF Slots!Next
<1>6. ASSUME NEW r \in Request, DiscardWrite(r)
      PROVE  Slots!Next
  <2>1. tx[r].doc \in Document
    BY <1>6, ReadOwnership DEF DiscardWrite
  <2>2. Slots!Drop(tx[r].doc)
    BY <1>0, <1>6, <2>1 DEF DiscardWrite, TypeOK, VersionRow, DocumentRow, Slots!Drop
  <2> QED
    BY <2>1, <2>2 DEF Slots!Next, Slots!Drop
<1>7. ASSUME NEW r \in Request, PublishWrite(r)
      PROVE  Slots!Next
  <2>1. /\ tx[r].doc \in Document /\ tx[r].draft \in Version
        /\ versions[tx[r].draft].document_id = tx[r].doc
    BY <1>7, ReadOwnership DEF PublishWrite, IInv, ReadsStayTrue, ReadIsTrue
  <2>2. slotOwner' = slotOwner
    BY <1>0, <1>7 DEF PublishWrite, TypeOK, VersionRow
  <2>3. /\ slotDraft' = [slotDraft EXCEPT ![tx[r].doc] = None]
        /\ slotPublished' = [slotPublished EXCEPT ![tx[r].doc] = tx[r].draft]
    BY <1>0, <1>7, <2>1 DEF PublishWrite, TypeOK, DocumentRow
  <2>4. Slots!Publish(tx[r].doc, tx[r].draft)
    BY <2>1, <2>2, <2>3 DEF Slots!Publish
  <2> QED
    BY <2>1, <2>4 DEF Slots!Next, Slots!Publish
<1>8. ASSUME NEW r \in Request, WorkflowWrite(r)
      PROVE  Slots!Next \/ UNCHANGED Slots!slots
  <2>1. /\ tx[r].doc \in Document /\ tx[r].version \in Version
        /\ versions[tx[r].version].document_id = tx[r].doc
    BY <1>8, ReadOwnership DEF WorkflowWrite, IInv, ReadsStayTrue, ReadIsTrue
  <2>2. CASE tx[r].to # "published"
    BY <1>0, <1>8, <2>2, Stutters DEF WorkflowWrite, TypeOK, VersionRow
  <2>3. CASE tx[r].to = "published"
    <3>1. slotOwner' = slotOwner
      BY <1>0, <1>8, <2>3 DEF WorkflowWrite, TypeOK, VersionRow
    <3>2. documents' = [documents EXCEPT
                          ![tx[r].doc].current_published_version_id = tx[r].version]
      BY <1>8, <2>3 DEF WorkflowWrite
    <3>3. slotDraft' = slotDraft
      BY <1>0, <3>2 DEF TypeOK, DocumentRow
    <3>4. slotPublished' = [slotPublished EXCEPT ![tx[r].doc] = tx[r].version]
      BY <1>0, <2>1, <3>2 DEF TypeOK, DocumentRow
    <3>5. Slots!Publish(tx[r].doc, tx[r].version)
      BY <2>1, <3>1, <3>3, <3>4 DEF Slots!Publish
    <3> QED
      BY <2>1, <3>5 DEF Slots!Next, Slots!Publish
  <2> QED
    BY <2>2, <2>3
<1> QED
  BY OnlyWritesTouchTables, <1>1, <1>2, <1>3, <1>4, <1>5, <1>6, <1>7, <1>8

(* Every behaviour of the overlapping requests is one of the two slots.    *)
THEOREM Refinement == Spec => ImplementsSlots
<1>1. Spec => []IInv
  BY InvariantHolds
<1> QED
  BY <1>1, InitMaps, StepMaps, PTL DEF Spec, ImplementsSlots, Slots!Spec

(***************************************************************************)
(* The review of an agent's proposal cannot be by-passed.                  *)
(***************************************************************************)

(* The version's proposal waits for its first decision.                    *)
Undecided(v) == tasks[v] = "input_required"

(* A version in a human's hands: it exists, and no agent inserted it.      *)
IsHumans(v) == Exists(v) /\ ~FromAgent(v)

(* A call in flight names what its step goes on to use.                    *)
CallIsComplete(r) ==
    /\ call[r].step \in {"propose_checked", "propose_ready"}
          => call[r].agent \in Agent /\ call[r].doc \in Document
    /\ call[r].step = "decide_ready"
          => call[r].version \in Version /\ call[r].decision \in Decision

(* What a request of the lifecycle in flight has read.                     *)
ReadsAreHumans(r) ==
    /\ tx[r].step # "idle" => tx[r].doc # None
    /\ tx[r].draft # None => IsHumans(tx[r].draft)
    /\ tx[r].step = "workflow_ready" =>
          /\ tx[r].version \in Version
          /\ Exists(tx[r].version)
          /\ ~Undecided(tx[r].version)

(* What keeps the two ways of publishing away from an undecided proposal:  *)
(* the draft pointer and the drafts in flight are humans', and the         *)
(* workflow has no transition out of "proposed".                           *)
ReviewInv ==
    /\ \A d \in Document : LET v == documents[d].current_draft_version_id IN
           v # None => IsHumans(v)
    /\ \A r \in Request : ReadsAreHumans(r)
    /\ \A v \in Version : FromAgent(v) => Exists(v)
    /\ \A v \in Version : Undecided(v) =>
           /\ versions[v].workflow_status = "proposed"
           /\ versions[v].status # "published"

CallsInv == \A r \in Request : CallIsComplete(r)


-----------------------------------------------------------------------------
(* Type correctness.                                                       *)

LEMMA NoCallTyping == NoCall \in Call
BY NumbersAreBounded DEF NoCall, Call

LEMMA CallFields ==
    ASSUME ProposalTypeOK, NEW r \in Request
    PROVE  /\ call[r] \in Call
           /\ call[r].agent \in Agent \cup {None}
           /\ call[r].key \in IdempotencyKey \cup {None}
           /\ call[r].doc \in Document \cup {None}
           /\ call[r].number \in 0..MaxVersionNumber
           /\ call[r].version \in Version \cup {None}
           /\ call[r].decision \in Decision \cup {None}
BY DEF ProposalTypeOK, Call

LEMMA ProposalFields ==
    ASSUME ProposalTypeOK, NEW v \in Version
    PROVE  /\ proposals[v] \in ProposalRow
           /\ proposals[v].agent \in Agent \cup {None}
           /\ proposals[v].key \in IdempotencyKey \cup {None}
           /\ proposals[v].status \in {"pending"} \cup Decision
BY DEF ProposalTypeOK, ProposalRow

(* A call that ends leaves nothing behind.                                 *)
LEMMA HangTyping ==
    ASSUME ProposalTypeOK, CallsInv, NEW r \in Request, Hang(r)
    PROVE  call' \in [Request -> Call] /\ CallsInv'
<1>1. call' \in [Request -> Call]
  BY NoCallTyping DEF ProposalTypeOK, Hang
<1>2. CallsInv'
  BY DEF ProposalTypeOK, Hang, NoCall, CallsInv, CallIsComplete
<1> QED
  BY <1>1, <1>2

(* A row of the queue with another status is a row of the queue.           *)
LEMMA StatusTyping ==
    ASSUME ProposalTypeOK, NEW v \in Version, NEW status \in {"pending"} \cup Decision
    PROVE  [proposals EXCEPT ![v].status = status] \in [Version -> ProposalRow]
<1>1. [proposals[v] EXCEPT !.status = status] \in ProposalRow
  BY ProposalFields DEF ProposalRow
<1>2. [proposals EXCEPT ![v].status = status]
          = [proposals EXCEPT ![v] = [proposals[v] EXCEPT !.status = status]]
  BY DEF ProposalTypeOK
<1> QED
  BY <1>1, <1>2 DEF ProposalTypeOK

(* So is a row of the versions with another workflow state.                *)
LEMMA WorkflowStatusTyping ==
    ASSUME TypeOK, NEW v \in Version, NEW state \in WorkflowStatus
    PROVE  [versions EXCEPT ![v].workflow_status = state] \in [Version -> VersionRow]
<1>1. [versions[v] EXCEPT !.workflow_status = state] \in VersionRow
  BY RowTyping DEF VersionRow
<1>2. [versions EXCEPT ![v].workflow_status = state]
          = [versions EXCEPT ![v] = [versions[v] EXCEPT !.workflow_status = state]]
  BY DEF TypeOK
<1> QED
  BY <1>1, <1>2 DEF TypeOK

CallTyping == ProposalTypeOK /\ CallsInv

LEMMA ProposalTypingInit == ProposalInit => CallTyping
<1> SUFFICES ASSUME ProposalInit PROVE CallTyping
  OBVIOUS
<1>1. TypeOK
  BY NoRowTyping, IdleTyping DEF ProposalInit, Init, TypeOK, DocumentRow
<1>2. ProposalTypeOK
  BY <1>1, NoCallTyping
     DEF ProposalInit, ProposalTypeOK, AgentState, NoProposal, ProposalRow
<1>3. CallsInv
  BY DEF ProposalInit, CallsInv, CallIsComplete, NoCall
<1> QED
  BY <1>2, <1>3 DEF CallTyping

LEMMA ProposeInsertTyping ==
    ASSUME CallTyping, NEW r \in Request, NEW v \in Version, NEW s \in SUBSET NodeId,
           ProposeInsert(r, v, s)
    PROVE  CallTyping'
<1> USE DEF CallTyping
<1>1. /\ call[r].agent \in Agent /\ call[r].doc \in Document
      /\ call[r].key \in IdempotencyKey \cup {None}
      /\ call[r].number \in 0..MaxVersionNumber
  BY CallFields DEF ProposeInsert, CallsInv, CallIsComplete
<1>2. ProposedRow(call[r].doc, call[r].number, s) \in VersionRow
  BY <1>1 DEF ProposedRow, NewRow, VersionRow, VersionStatus, WorkflowStatus
<1>3. [ agent |-> call[r].agent, key |-> call[r].key, status |-> "pending" ]
          \in ProposalRow
  BY <1>1 DEF ProposalRow
<1>4. TypeOK'
  BY <1>2, RebuiltNodesTyping DEF ProposalTypeOK, ProposeInsert, TypeOK
<1>5. /\ proposals' \in [Version -> ProposalRow]
      /\ tasks' \in [Version -> TaskState \cup {None}]
  BY <1>3 DEF ProposalTypeOK, ProposeInsert, TaskState
<1> QED
  BY <1>4, <1>5, HangTyping DEF ProposalTypeOK, ProposeInsert

LEMMA DecideWriteTyping ==
    ASSUME CallTyping, NEW r \in Request, DecideWrite(r)
    PROVE  CallTyping'
<1> USE DEF CallTyping
<1>1. call[r].version \in Version /\ call[r].decision \in Decision
  BY DEF DecideWrite, CallsInv, CallIsComplete
<1>2. call[r].decision \in WorkflowStatus \cap ({"pending"} \cup Decision)
  BY <1>1 DEF Decision, WorkflowStatus
<1>3. versions' \in [Version -> VersionRow]
  BY <1>1, <1>2, WorkflowStatusTyping DEF ProposalTypeOK, DecideWrite
<1>4. proposals' \in [Version -> ProposalRow]
  BY <1>1, <1>2, StatusTyping DEF ProposalTypeOK, DecideWrite
<1>5. TaskAfter[call[r].decision] \in TaskState
  BY <1>1 DEF Decision, TaskAfter, TaskState
<1>6. tasks' \in [Version -> TaskState \cup {None}]
  BY <1>5 DEF ProposalTypeOK, DecideWrite
<1> QED
  BY <1>3, <1>4, <1>6, HangTyping DEF ProposalTypeOK, TypeOK, DecideWrite

LEMMA ProposalTypingStep == CallTyping /\ [ProposalNext]_allVars => CallTyping'
<1> SUFFICES ASSUME CallTyping, [ProposalNext]_allVars PROVE CallTyping'
  OBVIOUS
<1> USE DEF CallTyping
<1>1. CASE UNCHANGED allVars
  BY <1>1 DEF allVars, ProposalTypeOK, TypeOK, CallsInv, CallIsComplete
<1>2. CASE ServeLifecycle
  <2>1. TypeOK'
    BY <1>2, TypingStep DEF ServeLifecycle, ProposalTypeOK, Next
  <2> QED
    BY <1>2, <2>1
       DEF ServeLifecycle, proposalVars, ProposalTypeOK, CallsInv, CallIsComplete
<1>3. CASE RestartAll
  <2>1. TypeOK'
    BY <1>3, TypingStep DEF RestartAll, ProposalTypeOK, Next
  <2> QED
    BY <1>3, <2>1
       DEF RestartAll, proposalVars, ProposalTypeOK, CallsInv, CallIsComplete
<1>4. ASSUME NEW r \in Request, NEW a \in Agent, NEW k \in IdempotencyKey \cup {None},
             NEW d \in Document, ProposeCheck(r, a, k, d)
      PROVE  CallTyping'
  <2>1. Proposing(a, k, d) \in Call
    BY NumbersAreBounded DEF Proposing, Call
  <2>2. call' \in [Request -> Call]
    BY <1>4, <2>1 DEF ProposeCheck, ProposalTypeOK
  <2>3. CallsInv'
    BY <1>4 DEF ProposeCheck, Proposing, ProposalTypeOK, CallsInv, CallIsComplete
  <2> QED
    BY <1>4, <2>2, <2>3 DEF ProposeCheck, TablesStay, ProposalTypeOK, TypeOK
<1>5. ASSUME NEW r \in Request, ProposeReadNumber(r) PROVE CallTyping'
  <2>1. PICK n \in 1..MaxVersionNumber :
            call' = [call EXCEPT ![r].step = "propose_ready", ![r].number = n]
    BY <1>5 DEF ProposeReadNumber
  <2> DEFINE ready == [call[r] EXCEPT !.step = "propose_ready", !.number = n]
  <2>2. call' = [call EXCEPT ![r] = ready]
    BY <2>1 DEF ProposalTypeOK
  <2>3. n \in 0..MaxVersionNumber
    BY NumbersAreBounded
  <2>4. ready \in Call
    BY <2>3, CallFields DEF Call
  <2>5. ready.agent = call[r].agent /\ ready.doc = call[r].doc
        /\ ready.step = "propose_ready"
    BY CallFields DEF Call
  <2> HIDE DEF ready
  <2>6. call' \in [Request -> Call] /\ CallsInv'
    BY <1>5, <2>2, <2>4, <2>5 DEF ProposeReadNumber, ProposalTypeOK, CallsInv, CallIsComplete
  <2> QED
    BY <1>5, <2>6 DEF ProposeReadNumber, TablesStay, ProposalTypeOK, TypeOK
<1>6. ASSUME NEW r \in Request, NEW v \in Version, NEW decision \in Decision,
             DecideRead(r, v, decision)
      PROVE  CallTyping'
  <2>1. Deciding(v, decision) \in Call
    BY NumbersAreBounded DEF Deciding, Call
  <2>2. call' \in [Request -> Call]
    BY <1>6, <2>1 DEF DecideRead, ProposalTypeOK
  <2>3. CallsInv'
    BY <1>6 DEF DecideRead, Deciding, ProposalTypeOK, CallsInv, CallIsComplete
  <2> QED
    BY <1>6, <2>2, <2>3 DEF DecideRead, TablesStay, ProposalTypeOK, TypeOK
<1>7. ASSUME NEW r \in Request, AbortCall(r) PROVE CallTyping'
  BY <1>7, HangTyping DEF AbortCall, TablesStay, ProposalTypeOK, TypeOK
<1>8. ASSUME NEW r \in Request, NEW v \in Version, Rollback(r, v) PROVE CallTyping'
  <2>1. versions' \in [Version -> VersionRow]
    BY <1>8, WorkflowStatusTyping DEF Rollback, ProposalTypeOK, WorkflowStatus
  <2>2. proposals' \in [Version -> ProposalRow]
    BY <1>8, StatusTyping DEF Rollback
  <2> QED
    BY <1>8, <2>1, <2>2 DEF Rollback, ProposalTypeOK, TypeOK, CallsInv, CallIsComplete
<1>9. ASSUME NEW r \in Request, NEW a \in Agent,
             \/ DeleteAgent(r, a)
             \/ \E state \in {"active", "disabled"} : SetKillSwitch(r, a, state)
      PROVE  CallTyping'
  <2>1. NoProposal \in ProposalRow
    BY DEF NoProposal, ProposalRow
  <2>2. proposals' \in [Version -> ProposalRow]
    BY <1>9, <2>1 DEF DeleteAgent, SetKillSwitch, ProposalTypeOK
  <2>3. agents' \in [Agent -> AgentState]
    BY <1>9 DEF DeleteAgent, SetKillSwitch, ProposalTypeOK, AgentState
  <2> QED
    BY <1>9, <2>2, <2>3
       DEF DeleteAgent, SetKillSwitch, ProposalTypeOK, TypeOK, CallsInv, CallIsComplete
<1> QED
  BY <1>1, <1>2, <1>3, <1>4, <1>5, <1>6, <1>7, <1>8, <1>9,
     ProposeInsertTyping, DecideWriteTyping DEF ProposalNext

-----------------------------------------------------------------------------
(* The review.                                                             *)

(* The row of an undecided proposal stays proposed and unpublished through *)
(* every step of the lifecycle, and a restart.                             *)
LEMMA LifecycleSparesUndecided ==
    ASSUME TypeOK, ReviewInv, Next, NEW v \in Version, Undecided(v)
    PROVE  versions'[v].workflow_status = "proposed" /\ versions'[v].status # "published"
<1> DEFINE Spared == versions'[v].workflow_status = "proposed"
                       /\ versions'[v].status # "published"
<1>1. /\ versions[v].workflow_status = "proposed" /\ versions[v].status # "published"
      /\ Exists(v) /\ ~IsHumans(v)
  BY NoneIsNoProposal DEF ReviewInv, Undecided, FromAgent, IsHumans, TaskState
<1>2. \A r \in Request : /\ tx[r].draft # v
                         /\ tx[r].step = "workflow_ready" => tx[r].version # v
  BY <1>1, NoneIsNoRow DEF ReviewInv, ReadsAreHumans
<1> USE DEF TypeOK, VersionRow
<1>3. CASE TablesUnchanged
  BY <1>1, <1>3 DEF TablesUnchanged
<1>4. CASE Restart
  BY <1>1, <1>4, NoneIsNoRow DEF Restart, ResolvedStatus, WorkflowStatus
<1>5. ASSUME NEW r \in Request, DiscardWrite(r) PROVE Spared
  BY <1>1, <1>2, <1>5 DEF DiscardWrite
<1>6. ASSUME NEW r \in Request, PublishWrite(r) PROVE Spared
  BY <1>1, <1>2, <1>6 DEF PublishWrite
<1>7. ASSUME NEW r \in Request, WorkflowWrite(r) PROVE Spared
  BY <1>1, <1>2, <1>7 DEF WorkflowWrite
<1>8. ASSUME NEW r \in Request, NEW w \in Version, NEW s \in SUBSET NodeId,
             CreateInsert(r, w, s)
      PROVE  Spared
  BY <1>1, <1>8 DEF CreateInsert
<1>9. ASSUME NEW r \in Request, NEW s \in SUBSET NodeId, SaveUpdate(r, s)
      PROVE  Spared
  BY <1>1, <1>9 DEF SaveUpdate
<1>10. ASSUME NEW r \in Request, NEW w \in Version, NEW s \in SUBSET NodeId,
              SaveInsert(r, w, s)
       PROVE  Spared
  BY <1>1, <1>10 DEF SaveInsert
<1> QED
  BY OnlyWritesTouchTables, <1>3, <1>4, <1>5, <1>6, <1>7, <1>8, <1>9, <1>10

(* IsHumans of the next state, for a version read in that state.           *)
WillBeHumans(v) == versions'[v].document_id # None /\ tasks'[v] = None

(* The lifecycle never takes a row away, nor a version out of a human's    *)
(* hands.                                                                  *)
LEMMA LifecycleKeepsOwners ==
    ASSUME TypeOK, Next, UNCHANGED tasks, NEW v \in Version
    PROVE  /\ Exists(v) => Exists(v)'
           /\ IsHumans(v) => WillBeHumans(v)
           /\ FromAgent(v)' <=> FromAgent(v)
           /\ Undecided(v)' <=> Undecided(v)
BY RowsPersist DEF RowPersists, Exists, IsHumans, WillBeHumans, FromAgent,
                   Undecided

(* A version inserted by the lifecycle is in a human's hands.              *)
LEMMA InsertedIsHumans ==
    ASSUME TypeOK, ReviewInv, UNCHANGED tasks, NEW r \in Request, NEW v \in Version,
           NEW s \in SUBSET NodeId, SaveInsert(r, v, s)
    PROVE  WillBeHumans(v)
<1>1. tx[r].doc # None /\ ~FromAgent(v)
  BY DEF SaveInsert, ReviewInv, ReadsAreHumans
<1>2. versions'[v] = NewRow(tx[r].doc, tx[r].number, s)
  BY DEF SaveInsert, TypeOK
<1> QED
  BY <1>1, <1>2 DEF NewRow, WillBeHumans, FromAgent

(* The draft pointers stay with humans.                                    *)
LEMMA LifecycleKeepsPointers ==
    ASSUME TypeOK, ReviewInv, Next, UNCHANGED tasks, NEW d \in Document,
           documents'[d].current_draft_version_id # None
    PROVE  WillBeHumans(documents'[d].current_draft_version_id)
<1> DEFINE old == documents[d].current_draft_version_id
           new == documents'[d].current_draft_version_id
<1>1. new = old => WillBeHumans(new)
  BY PointerTyping, LifecycleKeepsOwners DEF ReviewInv
<1>2. new = old \/ new = None
         \/ \E r \in Request, v \in Version, s \in SUBSET NodeId :
               SaveInsert(r, v, s) /\ new = v
  <2> USE DEF TypeOK, DocumentRow
  <2>1. CASE TablesUnchanged
    BY <2>1 DEF TablesUnchanged
  <2>2. CASE Restart
    BY <2>2 DEF Restart
  <2>3. ASSUME NEW r \in Request, DiscardWrite(r) PROVE new = old \/ new = None
    BY <2>3 DEF DiscardWrite
  <2>4. ASSUME NEW r \in Request, PublishWrite(r) PROVE new = old \/ new = None
    BY <2>4 DEF PublishWrite
  <2>5. ASSUME NEW r \in Request, WorkflowWrite(r) PROVE new = old
    BY <2>5 DEF WorkflowWrite
  <2>6. ASSUME NEW r \in Request, NEW w \in Version, NEW s \in SUBSET NodeId,
             CreateInsert(r, w, s)
        PROVE  new = old
    BY <2>6 DEF CreateInsert
  <2>7. ASSUME NEW r \in Request, NEW s \in SUBSET NodeId, SaveUpdate(r, s)
        PROVE  new = old
    BY <2>7 DEF SaveUpdate
  <2>8. ASSUME NEW r \in Request, NEW w \in Version, NEW s \in SUBSET NodeId,
               SaveInsert(r, w, s)
        PROVE  new = old \/ new = w
    BY <2>8 DEF SaveInsert
  <2> QED
    BY OnlyWritesTouchTables, <2>1, <2>2, <2>3, <2>4, <2>5, <2>6, <2>7, <2>8
<1>3. ASSUME NEW r \in Request, NEW v \in Version, NEW s \in SUBSET NodeId,
             SaveInsert(r, v, s), new = v
      PROVE  WillBeHumans(new)
  BY <1>3, InsertedIsHumans
<1> QED
  BY <1>1, <1>2, <1>3

(* A request that keeps what it has read, or has read nothing, still has   *)
(* only humans' versions in hand.                                          *)
LEMMA KeptReadsAreHumans ==
    ASSUME TypeOK, ReviewInv, Next, UNCHANGED tasks, NEW r \in Request,
           tx'[r].doc = tx[r].doc, tx'[r].draft = tx[r].draft,
           tx'[r].version = tx[r].version, tx[r].step # "idle" \/ tx'[r].step = "idle",
           tx'[r].step = "workflow_ready" => tx[r].step = "workflow_ready"
    PROVE  ReadsAreHumans(r)'
<1>1. ReadsAreHumans(r)
  BY DEF ReviewInv
<1>2. tx[r].draft # None => WillBeHumans(tx[r].draft)
  BY <1>1, FieldTyping, LifecycleKeepsOwners DEF ReadsAreHumans
<1>3. tx[r].step = "workflow_ready" =>
          /\ tx[r].version \in Version
          /\ versions'[tx[r].version].document_id # None
          /\ tasks'[tx[r].version] # "input_required"
  BY <1>1, LifecycleKeepsOwners DEF ReadsAreHumans, Exists, Undecided
<1> QED
  BY <1>1, <1>2, <1>3
     DEF ReadsAreHumans, WillBeHumans, IsHumans, Exists, FromAgent, Undecided

LEMMA LifecycleKeepsReads ==
    ASSUME TypeOK, ReviewInv, Next, UNCHANGED tasks, NEW q \in Request
    PROVE  ReadsAreHumans(q)'
<1>1. CASE tx'[q] = tx[q]
  BY <1>1, KeptReadsAreHumans
<1>2. CASE tx'[q] = Idle
  BY <1>2 DEF ReadsAreHumans, Idle
<1>3. ASSUME NEW r \in Request, r # q, tx' = [tx EXCEPT ![r] = tx'[r]]
      PROVE  tx'[q] = tx[q]
  BY <1>3 DEF TypeOK
<1>4. ASSUME NEW r \in Request, End(r) PROVE tx'[q] \in {tx[q], Idle}
  BY <1>4 DEF End, TypeOK
<1>5. ASSUME NEW d \in Document, NEW step \in {"save_doc", "discard_ready", "publish_doc"},
             NEW published, ReadDocument(q, d, step, published)
      PROVE  ReadsAreHumans(q)'
  <2>1. tx'[q] = [ step |-> step, doc |-> d,
                   draft |-> documents[d].current_draft_version_id,
                   published |-> published,
                   version |-> None, number |-> 0, to |-> None ]
    BY <1>5 DEF ReadDocument, Idle, TypeOK
  <2>2. /\ tx'[q].step = step /\ tx'[q].doc = d
        /\ tx'[q].draft = documents[d].current_draft_version_id
    BY <2>1
  <2>3. /\ versions' = versions /\ d # None
        /\ documents[d].current_draft_version_id # None
              => IsHumans(documents[d].current_draft_version_id)
    BY <1>5, NoneIsNoRow DEF ReadDocument, ReviewInv
  <2> QED
    BY <2>2, <2>3 DEF ReadsAreHumans, IsHumans, Exists, FromAgent
<1>6. ASSUME NEW r \in Request, NEW d \in Document,
             \/ SaveReadDocument(r, d) \/ DiscardReadDocument(r, d)
             \/ PublishReadDocument(r, d)
      PROVE  ReadsAreHumans(q)'
  BY <1>1, <1>5, <1>6
     DEF SaveReadDocument, DiscardReadDocument, PublishReadDocument, ReadDocument, TypeOK
<1>7. ASSUME NEW r \in Request, NEW d \in Document, CreateReadNumber(r, d)
      PROVE  ReadsAreHumans(q)'
  <2>1. CASE r = q
    <3>1. PICK n \in 1..MaxVersionNumber :
             tx' = [tx EXCEPT ![q] = [ Idle EXCEPT !.step = "create_ready",
                                                   !.doc = d, !.number = n ]]
      BY <1>7, <2>1 DEF CreateReadNumber
    <3> QED
      BY <3>1, NoneIsNoRow DEF ReadsAreHumans, Idle, TypeOK
  <2>2. CASE r # q
    BY <1>1, <1>7, <2>2 DEF CreateReadNumber, TypeOK
  <2> QED
    BY <2>1, <2>2
<1>8. ASSUME NEW r \in Request, NEW d \in Document, NEW v \in Version,
             NEW action \in WorkflowAction, NEW role \in Role,
             WorkflowRead(r, d, v, action, role)
      PROVE  ReadsAreHumans(q)'
  <2>1. CASE r = q
    <3>1. tx'[q] = [ step |-> "workflow_ready", doc |-> d, draft |-> None,
                     published |-> None, version |-> v, number |-> 0,
                     to |-> ActionTarget[action] ]
      BY <1>8, <2>1 DEF WorkflowRead, Idle, TypeOK
    <3>2. versions' = versions /\ versions[v].document_id = d /\ d # None
      BY <1>8, NoneIsNoRow DEF WorkflowRead
    <3>3. ~Undecided(v)
      <4>1. ResolvedStatus(v) # "proposed"
        BY <1>8 DEF WorkflowRead, AllowedTransitions
      <4> QED
        BY <4>1, NoneIsNoRow DEF ResolvedStatus, ReviewInv, WorkflowStatus
    <3> QED
      BY <3>1, <3>2, <3>3 DEF ReadsAreHumans, Exists, Undecided
  <2>2. CASE r # q
    BY <1>1, <1>8, <2>2 DEF WorkflowRead, TypeOK
  <2> QED
    BY <2>1, <2>2
<1>9. ASSUME NEW r \in Request, SaveCheckDraft(r) \/ PublishCheckDraft(r)
      PROVE  ReadsAreHumans(q)'
  <2>1. CASE Refuse(r)
    BY <1>1, <1>2, <1>4, <2>1 DEF Refuse
  <2>2. ASSUME NEW step \in {"save_ready", "publish_ready"},
               tx' = [tx EXCEPT ![r].step = step]
        PROVE  ReadsAreHumans(q)'
    <3>1. CASE r = q
      <4>1. tx[q].step # "idle" /\ tx'[q] = [tx[q] EXCEPT !.step = step]
        BY <1>9, <2>2, <3>1 DEF SaveCheckDraft, PublishCheckDraft, TypeOK
      <4>2. /\ tx'[q].step = step /\ tx'[q].doc = tx[q].doc
            /\ tx'[q].draft = tx[q].draft /\ tx'[q].version = tx[q].version
        BY <4>1 DEF TypeOK, Transaction
      <4> QED
        BY <4>1, <4>2, KeptReadsAreHumans
    <3>2. CASE r # q
      BY <1>1, <2>2, <3>2 DEF TypeOK
    <3> QED
      BY <3>1, <3>2
  <2> QED
    BY <1>9, <2>1, <2>2 DEF SaveCheckDraft, PublishCheckDraft
<1>10. ASSUME NEW r \in Request, SaveReadNumber(r) PROVE ReadsAreHumans(q)'
  <2>1. PICK n \in 1..MaxVersionNumber :
           tx' = [tx EXCEPT ![r].step = "save_ready", ![r].number = n]
    BY <1>10 DEF SaveReadNumber
  <2>2. CASE r = q
    <3>1. /\ tx[q].step # "idle"
          /\ tx'[q] = [tx[q] EXCEPT !.step = "save_ready", !.number = n]
      BY <1>10, <2>1, <2>2 DEF SaveReadNumber, TypeOK
    <3>2. /\ tx'[q].step = "save_ready" /\ tx'[q].doc = tx[q].doc
          /\ tx'[q].draft = tx[q].draft /\ tx'[q].version = tx[q].version
      BY <3>1 DEF TypeOK, Transaction
    <3> QED
      BY <3>1, <3>2, KeptReadsAreHumans
  <2>3. CASE r # q
    BY <1>1, <2>1, <2>3 DEF TypeOK
  <2> QED
    BY <2>2, <2>3
<1>11. CASE Restart
  BY <1>1, <1>11 DEF Restart
<1>12. ASSUME NEW r \in Request,
              \/ CreateViolatesKey(r) \/ DiscardWrite(r) \/ PublishWrite(r)
              \/ WorkflowWrite(r) \/ Abort(r)
              \/ \E s \in SUBSET NodeId :
                    \/ SaveUpdate(r, s) \/ SaveViolatesKey(r, s)
                    \/ \E v \in Version : SaveInsert(r, v, s) \/ CreateInsert(r, v, s)
       PROVE  End(r)
  BY <1>12 DEF CreateViolatesKey, DiscardWrite, PublishWrite, WorkflowWrite, Abort,
               SaveUpdate, SaveViolatesKey, SaveInsert, CreateInsert, Refuse
<1>13. ASSUME NEW r \in Request, End(r) PROVE ReadsAreHumans(q)'
  BY <1>1, <1>2, <1>4, <1>13
<1> QED
  BY <1>6, <1>7, <1>8, <1>9, <1>10, <1>11, <1>12, <1>13 DEF Next, Serve

LEMMA LifecycleKeepsReview ==
    ASSUME TypeOK, ReviewInv, Next, UNCHANGED tasks
    PROVE  ReviewInv'
<1>1. \A v \in Version : FromAgent(v)' => Exists(v)'
  BY LifecycleKeepsOwners DEF ReviewInv
<1>2. \A v \in Version : Undecided(v)' =>
          versions'[v].workflow_status = "proposed" /\ versions'[v].status # "published"
  BY LifecycleKeepsOwners, LifecycleSparesUndecided
<1>3. \A d \in Document : documents'[d].current_draft_version_id # None
          => WillBeHumans(documents'[d].current_draft_version_id)
  BY LifecycleKeepsPointers
<1> QED
  BY <1>1, <1>2, <1>3, LifecycleKeepsReads
     DEF ReviewInv, WillBeHumans, IsHumans, Exists, FromAgent

-----------------------------------------------------------------------------
(* The calls on proposals keep the review.                                 *)

(* A step that touches neither the lifecycle nor the tasks.                *)
LEMMA OtherStepsKeepReview ==
    ASSUME ReviewInv, UNCHANGED <<documents, versions, tx, tasks>>
    PROVE  ReviewInv'
BY DEF ReviewInv, ReadsAreHumans, IsHumans, Exists, FromAgent, Undecided

LEMMA ProposeInsertKeepsReview ==
    ASSUME CallTyping, ReviewInv, NEW r \in Request, NEW v \in Version,
           NEW s \in SUBSET NodeId, ProposeInsert(r, v, s)
    PROVE  ReviewInv'
<1>1. call[r].doc # None
  BY NoneIsNoRow DEF CallTyping, CallsInv, CallIsComplete, ProposeInsert
<1>2. versions'[v] = [ document_id |-> call[r].doc, version_number |-> call[r].number,
                       status |-> "draft", workflow_status |-> "proposed",
                       content_snapshot |-> s ]
  BY DEF ProposeInsert, ProposedRow, NewRow, CallTyping, ProposalTypeOK, TypeOK
<1>3. /\ versions'[v].document_id # None
      /\ versions'[v].workflow_status = "proposed" /\ versions'[v].status # "published"
  BY <1>1, <1>2
<1>4. tasks'[v] # None /\ ~Exists(v)
  BY NoneIsNoProposal DEF ProposeInsert, CallTyping, ProposalTypeOK, TaskState
<1>5. \A w \in Version : w # v => versions'[w] = versions[w] /\ tasks'[w] = tasks[w]
  BY DEF ProposeInsert, CallTyping, ProposalTypeOK, TypeOK
<1>6. /\ \A w \in Version : IsHumans(w) => IsHumans(w)'
      /\ \A w \in Version : Exists(w) => Exists(w)' /\ (Undecided(w)' <=> Undecided(w))
  BY <1>4, <1>5 DEF IsHumans, Exists, FromAgent, Undecided
<1>7. UNCHANGED <<documents, tx>>
  BY DEF ProposeInsert
<1>8. \A d \in Document : LET w == documents[d].current_draft_version_id IN
          w # None => w \in Version /\ IsHumans(w)
  BY PointerTyping DEF ReviewInv, CallTyping, ProposalTypeOK
<1>9. (\A d \in Document : LET w == documents[d].current_draft_version_id IN
          w # None => IsHumans(w))'
  BY <1>6, <1>7, <1>8 DEF IsHumans, Exists, FromAgent
<1>10. ASSUME NEW q \in Request PROVE ReadsAreHumans(q)'
  <2>1. ReadsAreHumans(q) /\ (tx[q].draft # None => tx[q].draft \in Version)
    BY FieldTyping DEF ReviewInv, CallTyping, ProposalTypeOK
  <2> QED
    BY <1>6, <1>7, <2>1 DEF ReadsAreHumans, IsHumans, Exists, FromAgent, Undecided
<1>11. ASSUME NEW w \in Version
       PROVE  /\ (FromAgent(w) => Exists(w))'
              /\ (Undecided(w) => /\ versions[w].workflow_status = "proposed"
                                  /\ versions[w].status # "published")'
  BY <1>3, <1>5 DEF ReviewInv, FromAgent, Exists, Undecided
<1> QED
  BY <1>9, <1>10, <1>11 DEF ReviewInv

(* A step that writes the workflow state of one version and leaves its     *)
(* task decided, or the version proposed.                                  *)
LEMMA WorkflowStateStep ==
    ASSUME CallTyping, ReviewInv, NEW v \in Version, NEW state,
           versions' = [versions EXCEPT ![v].workflow_status = state],
           UNCHANGED <<documents, tx>>,
           \A w \in Version : /\ tasks'[w] = None <=> tasks[w] = None
                              /\ Undecided(w)' => Undecided(w),
           Undecided(v)' => state = "proposed"
    PROVE  ReviewInv'
<1>1. \A w \in Version :
          /\ versions'[w].document_id = versions[w].document_id
          /\ versions'[w].status = versions[w].status
          /\ versions'[w].workflow_status =
                 IF w = v THEN state ELSE versions[w].workflow_status
  BY DEF CallTyping, ProposalTypeOK, TypeOK, VersionRow
<1>2. \A w \in Version : IsHumans(w) => IsHumans(w)'
  BY <1>1 DEF IsHumans, Exists, FromAgent
<1>3. (\A d \in Document : LET w == documents[d].current_draft_version_id IN
          w # None => IsHumans(w))'
  <2>1. \A d \in Document : LET w == documents[d].current_draft_version_id IN
            w # None => w \in Version /\ IsHumans(w)
    BY PointerTyping DEF ReviewInv, CallTyping, ProposalTypeOK
  <2> QED
    BY <1>2, <2>1 DEF IsHumans, Exists, FromAgent
<1>4. ASSUME NEW q \in Request PROVE ReadsAreHumans(q)'
  <2>1. ReadsAreHumans(q) /\ (tx[q].draft # None => tx[q].draft \in Version)
    BY FieldTyping DEF ReviewInv, CallTyping, ProposalTypeOK
  <2> QED
    BY <1>1, <1>2, <2>1 DEF ReadsAreHumans, IsHumans, Exists, FromAgent, Undecided
<1>5. ASSUME NEW w \in Version
      PROVE  /\ (FromAgent(w) => Exists(w))'
             /\ (Undecided(w) => /\ versions[w].workflow_status = "proposed"
                                 /\ versions[w].status # "published")'
  BY <1>1 DEF ReviewInv, FromAgent, Exists, Undecided
<1> QED
  BY <1>3, <1>4, <1>5 DEF ReviewInv

LEMMA ReviewStep == CallTyping /\ ReviewInv /\ [ProposalNext]_allVars => ReviewInv'
<1> SUFFICES ASSUME CallTyping, ReviewInv, [ProposalNext]_allVars PROVE ReviewInv'
  OBVIOUS
<1>1. CASE UNCHANGED allVars
  BY <1>1, OtherStepsKeepReview DEF allVars
<1>2. CASE ServeLifecycle \/ RestartAll
  BY <1>2, LifecycleKeepsReview
     DEF ServeLifecycle, RestartAll, proposalVars, Next, CallTyping, ProposalTypeOK
<1>3. ASSUME NEW r \in Request,
             \/ \E a \in Agent, k \in IdempotencyKey \cup {None}, d \in Document :
                   ProposeCheck(r, a, k, d)
             \/ ProposeReadNumber(r) \/ AbortCall(r)
             \/ \E v \in Version, decision \in Decision : DecideRead(r, v, decision)
             \/ \E a \in Agent : \/ DeleteAgent(r, a)
                               \/ \E state \in {"active", "disabled"} :
                                     SetKillSwitch(r, a, state)
      PROVE  ReviewInv'
  BY <1>3, OtherStepsKeepReview
     DEF ProposeCheck, ProposeReadNumber, AbortCall, DecideRead, DeleteAgent,
         SetKillSwitch, TablesStay
<1>4. ASSUME NEW r \in Request, DecideWrite(r) PROVE ReviewInv'
  <2> DEFINE v == call[r].version
  <2>1. v \in Version /\ call[r].decision \in Decision
    BY <1>4 DEF DecideWrite, CallTyping, CallsInv, CallIsComplete
  <2>2. TaskAfter[call[r].decision] \in {"completed", "failed"}
    BY <2>1 DEF Decision, TaskAfter
  <2>3. /\ \A w \in Version : /\ tasks'[w] = None <=> tasks[w] = None
                              /\ tasks'[w] = "input_required" => tasks[w] = "input_required"
        /\ tasks'[v] # "input_required"
    BY <1>4, <2>1, <2>2, NoneIsNoProposal
       DEF DecideWrite, CallTyping, ProposalTypeOK, TaskState
  <2> HIDE DEF v
  <2>4. /\ versions' = [versions EXCEPT ![v].workflow_status = call[r].decision]
        /\ UNCHANGED <<documents, tx>>
    BY <1>4 DEF DecideWrite, v
  <2> QED
    BY <2>1, <2>3, <2>4, WorkflowStateStep DEF Undecided
<1>5. ASSUME NEW r \in Request, NEW v \in Version, Rollback(r, v) PROVE ReviewInv'
  BY <1>5, WorkflowStateStep DEF Rollback, Undecided
<1> QED
  BY <1>1, <1>2, <1>3, <1>4, <1>5, ProposeInsertKeepsReview DEF ProposalNext

-----------------------------------------------------------------------------
(* Every variable of the tables the proposals and the lifecycle share      *)
(* keeps to its columns.                                                   *)
THEOREM ProposalTypeCorrect == ProposalSpec => []ProposalTypeOK
<1>1. CallTyping => ProposalTypeOK
  BY DEF CallTyping
<1> QED
  BY <1>1, ProposalTypingInit, ProposalTypingStep, PTL DEF ProposalSpec

LEMMA ReviewInit == ProposalInit => ReviewInv
<1> SUFFICES ASSUME ProposalInit PROVE ReviewInv
  OBVIOUS
<1>1. \A v \in Version : ~FromAgent(v) /\ ~Undecided(v)
  BY NoneIsNoProposal DEF ProposalInit, FromAgent, Undecided, TaskState
<1>2. \A r \in Request : ReadsAreHumans(r)
  BY DEF ProposalInit, Init, Idle, ReadsAreHumans
<1>3. \A d \in Document : documents[d].current_draft_version_id = None
  BY DEF ProposalInit, Init
<1> QED
  BY <1>1, <1>2, <1>3 DEF ReviewInv

LEMMA ReviewHolds == ProposalSpec => [](CallTyping /\ ReviewInv)
<1>1. ProposalInit => CallTyping /\ ReviewInv
  BY ProposalTypingInit, ReviewInit
<1>2. CallTyping /\ ReviewInv /\ [ProposalNext]_allVars => (CallTyping /\ ReviewInv)'
  BY ProposalTypingStep, ReviewStep
<1> QED
  BY <1>1, <1>2, PTL DEF ProposalSpec

(* No interleaving of saves, publishes, workflow actions, decisions,       *)
(* rollbacks and restarts publishes a version while its proposal waits for *)
(* its first decision.                                                     *)
THEOREM ReviewComesFirst == ProposalSpec => []NothingPublishedUndecided
<1>1. CallTyping /\ ReviewInv => NothingPublishedUndecided
  BY DEF ReviewInv, NothingPublishedUndecided, Undecided
<1> QED
  BY <1>1, ReviewHolds, PTL

(* The draft of a document is never a version an agent inserted.           *)
THEOREM DraftsAreHumans == ProposalSpec => []DraftIsNeverAProposal
<1>1. CallTyping /\ ReviewInv => DraftIsNeverAProposal
  BY DEF ReviewInv, DraftIsNeverAProposal, IsHumans
<1> QED
  BY <1>1, ReviewHolds, PTL

-----------------------------------------------------------------------------
(* The queue.                                                              *)

(* A row of the queue refers to a version an agent inserted.               *)
QueueInv == \A v \in Version : InQueue(v) => FromAgent(v)

(* What a step does to the queue: it inserts one row, under a free key for *)
(* a version that did not exist, removes an agent's rows, or changes only  *)
(* statuses.                                                               *)
KeepsRows == \A v \in Version : /\ proposals'[v].agent = proposals[v].agent
                                /\ proposals'[v].key = proposals[v].key

LEMMA DecideWriteKeepsRows ==
    ASSUME CallTyping, NEW r \in Request, DecideWrite(r)
    PROVE  /\ KeepsRows
           /\ \A v \in Version : proposals'[v].status # proposals[v].status
                                     => proposals[v].status = "pending"
           /\ \A v \in Version : FromAgent(v) => FromAgent(v)'
<1> DEFINE v == call[r].version
<1>1. v \in Version /\ call[r].decision \in Decision
  BY DEF DecideWrite, CallTyping, CallsInv, CallIsComplete
<1>2. TaskAfter[call[r].decision] # None
  BY <1>1, NoneIsNoProposal DEF Decision, TaskAfter, TaskState
<1>3. \A w \in Version : FromAgent(w) => FromAgent(w)'
  BY <1>1, <1>2 DEF DecideWrite, FromAgent, CallTyping, ProposalTypeOK
<1>4. /\ KeepsRows
      /\ \A w \in Version : proposals'[w].status # proposals[w].status
                                => proposals[w].status = "pending"
  BY <1>1 DEF DecideWrite, KeepsRows, CallTyping, ProposalTypeOK, ProposalRow
<1> QED
  BY <1>3, <1>4

LEMMA RollbackKeepsRows ==
    ASSUME CallTyping, NEW r \in Request, NEW v \in Version, Rollback(r, v)
    PROVE  /\ KeepsRows
           /\ \A w \in Version : proposals'[w].status # proposals[w].status =>
                 /\ proposals[w].status \in {"approved", "rejected"}
                 /\ proposals'[w].status = "pending"
           /\ UNCHANGED tasks
BY DEF Rollback, KeepsRows, CallTyping, ProposalTypeOK, ProposalRow

LEMMA ProposeInsertAddsRow ==
    ASSUME CallTyping, NEW r \in Request, NEW v \in Version, NEW s \in SUBSET NodeId,
           ProposeInsert(r, v, s)
    PROVE  /\ proposals'[v].agent = call[r].agent /\ proposals'[v].key = call[r].key
           /\ \A w \in Version : w # v => proposals'[w] = proposals[w]
           /\ KeyIsFree(call[r].agent, call[r].key)
           /\ FromAgent(v)'
           /\ \A w \in Version : FromAgent(w) => FromAgent(w)'
           /\ ~Exists(v)
<1>1. FromAgent(v)' /\ \A w \in Version : FromAgent(w) => FromAgent(w)'
  BY NoneIsNoProposal DEF ProposeInsert, CallTyping, ProposalTypeOK, FromAgent, TaskState
<1> QED
  BY <1>1 DEF ProposeInsert, CallTyping, ProposalTypeOK

LEMMA DeleteAgentDropsRows ==
    ASSUME NEW r \in Request, NEW a \in Agent, DeleteAgent(r, a)
    PROVE  /\ \A v \in Version : proposals'[v] \in {proposals[v], NoProposal}
           /\ NoProposal.agent = None
           /\ UNCHANGED tasks
BY DEF DeleteAgent, NoProposal

(* Every other step leaves the queue alone.                                *)
LEMMA QueueWriters ==
    ASSUME [ProposalNext]_allVars
    PROVE  \/ UNCHANGED <<proposals, tasks>>
           \/ \E r \in Request :
                 \/ DecideWrite(r)
                 \/ \E v \in Version : Rollback(r, v)
                 \/ \E v \in Version, s \in SUBSET NodeId : ProposeInsert(r, v, s)
                 \/ \E a \in Agent : DeleteAgent(r, a)
BY DEF ProposalNext, allVars, ServeLifecycle, RestartAll, proposalVars, ProposeCheck,
       ProposeReadNumber, AbortCall, DecideRead, SetKillSwitch, TablesStay

LEMMA QueueInvStep == CallTyping /\ QueueInv /\ [ProposalNext]_allVars => QueueInv'
<1> SUFFICES ASSUME CallTyping, QueueInv, [ProposalNext]_allVars PROVE QueueInv'
  OBVIOUS
<1>1. CASE UNCHANGED <<proposals, tasks>>
  BY <1>1 DEF QueueInv, InQueue, FromAgent
<1>2. ASSUME NEW r \in Request, DecideWrite(r) PROVE QueueInv'
  BY <1>2, DecideWriteKeepsRows DEF QueueInv, InQueue, KeepsRows
<1>3. ASSUME NEW r \in Request, NEW v \in Version, Rollback(r, v) PROVE QueueInv'
  BY <1>3, RollbackKeepsRows DEF QueueInv, InQueue, KeepsRows, FromAgent
<1>4. ASSUME NEW r \in Request, NEW v \in Version, NEW s \in SUBSET NodeId,
             ProposeInsert(r, v, s)
      PROVE  QueueInv'
  BY <1>4, ProposeInsertAddsRow DEF QueueInv, InQueue
<1>5. ASSUME NEW r \in Request, NEW a \in Agent, DeleteAgent(r, a) PROVE QueueInv'
  BY <1>5, DeleteAgentDropsRows DEF QueueInv, InQueue, FromAgent
<1> QED
  BY <1>1, <1>2, <1>3, <1>4, <1>5, QueueWriters

LEMMA KeysStep ==
    CallTyping /\ KeysNameOneProposal /\ [ProposalNext]_allVars => KeysNameOneProposal'
<1> SUFFICES ASSUME CallTyping, KeysNameOneProposal, [ProposalNext]_allVars
             PROVE  KeysNameOneProposal'
  OBVIOUS
<1>1. CASE UNCHANGED proposals
  BY <1>1 DEF KeysNameOneProposal, InQueue
<1>2. CASE KeepsRows
  BY <1>2 DEF KeysNameOneProposal, InQueue, KeepsRows
<1>3. ASSUME NEW r \in Request, NEW v \in Version, NEW s \in SUBSET NodeId,
             ProposeInsert(r, v, s)
      PROVE  KeysNameOneProposal'
  BY <1>3, ProposeInsertAddsRow DEF KeysNameOneProposal, InQueue, KeyIsFree
<1>4. ASSUME NEW r \in Request, NEW a \in Agent, DeleteAgent(r, a)
      PROVE  KeysNameOneProposal'
  BY <1>4, DeleteAgentDropsRows DEF KeysNameOneProposal, InQueue
<1> QED
  BY <1>1, <1>2, <1>3, <1>4, QueueWriters, DecideWriteKeepsRows, RollbackKeepsRows

LEMMA QueueHolds == ProposalSpec => [](CallTyping /\ ReviewInv /\ QueueInv)
<1>1. ProposalInit => QueueInv
  BY DEF ProposalInit, QueueInv, InQueue, NoProposal
<1> QED
  BY <1>1, QueueInvStep, ReviewHolds, PTL DEF ProposalSpec

(* However the retries of a key overlap, it names one proposal of its      *)
(* agent at most.                                                          *)
THEOREM KeysAreUnique == ProposalSpec => []KeysNameOneProposal
<1>1. ProposalInit => KeysNameOneProposal
  BY DEF ProposalInit, KeysNameOneProposal, InQueue, NoProposal
<1> QED
  BY <1>1, KeysStep, QueueHolds, PTL DEF ProposalSpec

(* No decision overwrites another one in the queue, and only approvals and *)
(* rejections are reopened.                                                *)
THEOREM DecidedOnce == ProposalSpec => QueueRowsAreDecidedOnce
<1> DEFINE Once ==
      \A v \in Version :
          InQueue(v) /\ proposals'[v].agent # None =>
              \/ proposals'[v].status = proposals[v].status
              \/ proposals[v].status = "pending"
              \/ /\ proposals[v].status \in {"approved", "rejected"}
                 /\ proposals'[v].status = "pending"
<1>1. CallTyping /\ ReviewInv /\ QueueInv /\ [ProposalNext]_allVars => [Once]_allVars
  <2> SUFFICES ASSUME CallTyping, ReviewInv, QueueInv, [ProposalNext]_allVars PROVE Once
    OBVIOUS
  <2>1. CASE UNCHANGED proposals
    BY <2>1
  <2>2. ASSUME NEW r \in Request, DecideWrite(r) PROVE Once
    BY <2>2, DecideWriteKeepsRows
  <2>3. ASSUME NEW r \in Request, NEW v \in Version, Rollback(r, v) PROVE Once
    BY <2>3, RollbackKeepsRows
  <2>4. ASSUME NEW r \in Request, NEW v \in Version, NEW s \in SUBSET NodeId,
               ProposeInsert(r, v, s)
        PROVE  Once
    <3>1. ~InQueue(v)
      BY <2>4, ProposeInsertAddsRow DEF QueueInv, ReviewInv
    <3> QED
      BY <2>4, <3>1, ProposeInsertAddsRow
  <2>5. ASSUME NEW r \in Request, NEW a \in Agent, DeleteAgent(r, a) PROVE Once
    BY <2>5, DeleteAgentDropsRows
  <2> QED
    BY <2>1, <2>2, <2>3, <2>4, <2>5, QueueWriters
<1> QED
  BY <1>1, QueueHolds, PTL DEF ProposalSpec, QueueRowsAreDecidedOnce

-----------------------------------------------------------------------------
(* The lifecycle beside the proposals: everything it keeps of the tables   *)
(* by itself, it keeps while agents propose and reviewers decide.          *)

(* No decision or rollback makes a version a draft again or moves it.      *)
LEMMA RowsPersistBesideProposals ==
    ASSUME CallTyping, ProposalNext, NEW v \in Version, Exists(v)
    PROVE  RowPersists(v)
<1>1. CASE UNCHANGED versions
  BY <1>1 DEF RowPersists
<1>2. CASE ServeLifecycle \/ RestartAll
  BY <1>2, RowsPersist DEF ServeLifecycle, RestartAll, Next, CallTyping, ProposalTypeOK
<1>3. ASSUME NEW r \in Request, NEW w \in Version, NEW s \in SUBSET NodeId,
             ProposeInsert(r, w, s)
      PROVE  RowPersists(v)
  BY <1>3 DEF ProposeInsert, CallTyping, ProposalTypeOK, TypeOK, RowPersists
<1>4. ASSUME NEW w, NEW state,
             versions' = [versions EXCEPT ![w].workflow_status = state]
      PROVE  RowPersists(v)
  BY <1>4 DEF CallTyping, ProposalTypeOK, TypeOK, VersionRow, RowPersists
<1>5. ASSUME NEW r \in Request,
             DecideWrite(r) \/ \E w \in Version : Rollback(r, w)
      PROVE  RowPersists(v)
  BY <1>4, <1>5 DEF DecideWrite, Rollback
<1> QED
  BY <1>1, <1>2, <1>3, <1>5
     DEF ProposalNext, ProposeCheck, ProposeReadNumber, DecideRead, AbortCall,
         SetKillSwitch, DeleteAgent, TablesStay

(* A decision in flight is about a version that exists.                    *)
DecidesExisting ==
    \A r \in Request : call[r].step = "decide_ready" => Exists(call[r].version)

(* A reading outlives the rows' changes by a step that keeps them.         *)
LEMMA ReadingsOutlive ==
    ASSUME TypeOK, ReadsStayTrue, UNCHANGED tx,
           \A v \in Version : Exists(v) => RowPersists(v)
    PROVE  ReadsStayTrue'
<1> SUFFICES ASSUME NEW r \in Request PROVE ReadIsTrue(r)'
  BY DEF ReadsStayTrue
<1>1. ReadIsTrue(r)
  BY DEF ReadsStayTrue
<1>2. ASSUME NEW v \in Version, tx[r].doc # None, versions[v].document_id = tx[r].doc
      PROVE  RowPersists(v)
  BY <1>2 DEF Exists
<1> QED
  BY <1>1, <1>2, FieldTyping DEF ReadIsTrue, RowPersists

(* A new workflow state of a version that exists, short of publication.    *)
LEMMA WorkflowStateKeepsTables ==
    ASSUME IInv, NEW w \in Version, Exists(w), NEW state,
           state \notin {"published", "archived"}, TypeOK',
           versions' = [versions EXCEPT ![w].workflow_status = state],
           UNCHANGED <<documents, nodes>>
    PROVE  TablesInv'
<1>1. \A v \in Version :
        /\ v # w => versions'[v] = versions[v]
        /\ versions'[v].document_id = versions[v].document_id
        /\ versions'[v].version_number = versions[v].version_number
        /\ versions'[v].content_snapshot = versions[v].content_snapshot
        /\ versions'[v].status = versions[v].status
        /\ versions'[v].workflow_status
              = IF v = w THEN state ELSE versions[v].workflow_status
  BY DEF IInv, TypeOK, VersionRow
<1>2. UnusedIdsAreBlank' /\ VersionNumbersAreUnique'
  BY <1>1, KeysKept DEF IInv, TablesInv, Exists
<1>3. NodesMirrorSnapshot'
  BY <1>1, ContentKept DEF IInv, TablesInv
<1>4. PointersStayInDocument'
  BY <1>1 DEF IInv, TablesInv, PointersStayInDocument, VersionsOf
<1>5. DraftPointerIsLive' /\ PublishedPointerWasPublished'
  BY <1>1, PointerTyping DEF IInv, TablesInv, DraftPointerIsLive,
                             PublishedPointerWasPublished
<1>6. WorkflowPublishedIsNotDraft'
  BY <1>1 DEF IInv, TablesInv, WorkflowPublishedIsNotDraft
<1> QED
  BY <1>2, <1>3, <1>4, <1>5, <1>6 DEF TablesInv

(* A proposal's row, which no pointer refers to.                           *)
LEMMA ProposeInsertKeepsTables ==
    ASSUME IInv, CallTyping, TypeOK', NEW r \in Request, NEW w \in Version,
           NEW s \in SUBSET NodeId, ProposeInsert(r, w, s)
    PROVE  TablesInv'
<1> DEFINE row == ProposedRow(call[r].doc, call[r].number, s)
<1>1. /\ call[r].doc \in Document /\ call[r].number \in 0..MaxVersionNumber
      /\ ~Exists(w) /\ NumberIsFree(call[r].doc, call[r].number)
      /\ versions' = [versions EXCEPT ![w] = row]
      /\ NodeIdsAreFree(w, s) /\ nodes' = RebuiltNodes(w, s) /\ UNCHANGED documents
  BY CallFields DEF ProposeInsert, CallTyping, CallsInv, CallIsComplete
<1>2. /\ row.document_id = call[r].doc /\ row.version_number = call[r].number
      /\ row.status = "draft" /\ row.workflow_status = "proposed"
      /\ row.content_snapshot = s
  BY DEF ProposedRow, NewRow
<1> HIDE DEF row
<1>3. UnusedIdsAreBlank' /\ VersionNumbersAreUnique'
  BY <1>1, <1>2, InsertKeepsKeys DEF IInv, TablesInv
<1>4. versions'[w] = row /\ \A v \in Version : v # w => versions'[v] = versions[v]
  BY <1>1 DEF IInv, TypeOK
<1>5. versions[w].document_id = None
  BY <1>1 DEF Exists
<1>6. \A d \in Document : /\ documents[d].current_draft_version_id # w
                          /\ documents[d].current_published_version_id # w
  BY <1>5, NoneIsNoRow DEF IInv, TablesInv, PointersStayInDocument, VersionsOf
<1>7. PointersStayInDocument'
  BY <1>1, <1>4, <1>6 DEF IInv, TablesInv, PointersStayInDocument, VersionsOf
<1>8. DraftPointerIsLive' /\ PublishedPointerWasPublished'
  BY <1>1, <1>4, <1>6, PointerTyping
     DEF IInv, TablesInv, DraftPointerIsLive, PublishedPointerWasPublished
<1>9. WorkflowPublishedIsNotDraft'
  BY <1>2, <1>4 DEF IInv, TablesInv, WorkflowPublishedIsNotDraft
<1>10. NodesMirrorSnapshot'
  BY <1>1, <1>2, <1>4, RebuildMirrors DEF IInv, TablesInv
<1> QED
  BY <1>3, <1>7, <1>8, <1>9, <1>10 DEF TablesInv

BesideInv == CallTyping /\ ReviewInv /\ QueueInv /\ IInv /\ DecidesExisting

(* A decision in flight was there before, or has just been read.           *)
LEMMA DecisionsAreRead ==
    ASSUME CallTyping, [ProposalNext]_allVars, NEW q \in Request,
           call'[q].step = "decide_ready"
    PROVE  \/ call'[q] = call[q]
           \/ \E v \in Version, decision \in Decision :
                 DecideRead(q, v, decision) /\ call'[q] = Deciding(v, decision)
<1> USE DEF CallTyping, ProposalTypeOK
<1>1. CASE UNCHANGED call
  BY <1>1
<1>2. CASE RestartAll
  BY <1>2 DEF RestartAll, proposalVars
<1>3. ASSUME NEW r \in Request, Hang(r) PROVE call'[q] = call[q]
  BY <1>3 DEF Hang, NoCall
<1>4. ASSUME NEW r \in Request, NEW a \in Agent, NEW k \in IdempotencyKey \cup {None},
             NEW d \in Document, ProposeCheck(r, a, k, d)
      PROVE  call'[q] = call[q]
  BY <1>4 DEF ProposeCheck, Proposing
<1>5. ASSUME NEW r \in Request, ProposeReadNumber(r) PROVE call'[q] = call[q]
  <2>1. PICK n \in 1..MaxVersionNumber :
            call' = [call EXCEPT ![r].step = "propose_ready", ![r].number = n]
    BY <1>5 DEF ProposeReadNumber
  <2>2. CASE q = r
    <3>1. call[r] \in Call
      OBVIOUS
    <3>2. call'[r].step = "propose_ready"
      BY <2>1, <3>1 DEF Call
    <3> QED
      BY <2>2, <3>2
  <2> QED
    BY <2>1, <2>2
<1>6. ASSUME NEW r \in Request, NEW v \in Version, NEW decision \in Decision,
             DecideRead(r, v, decision)
      PROVE  call'[q] = call[q] \/ (r = q /\ call'[q] = Deciding(v, decision))
  BY <1>6 DEF DecideRead
<1> QED
  BY <1>1, <1>2, <1>3, <1>4, <1>5, <1>6, ZenonT(40)
     DEF ProposalNext, allVars, ServeLifecycle, proposalVars, ProposeInsert, DecideWrite,
         AbortCall, Rollback, SetKillSwitch, DeleteAgent

LEMMA DecidesExistingStep == BesideInv /\ [ProposalNext]_allVars => DecidesExisting'
<1> SUFFICES ASSUME BesideInv, [ProposalNext]_allVars, NEW q \in Request,
                    call'[q].step = "decide_ready"
             PROVE  versions'[call'[q].version].document_id # None
  BY DEF DecidesExisting, Exists
<1> USE DEF BesideInv
<1>1. CASE UNCHANGED allVars
  BY <1>1 DEF allVars, DecidesExisting, Exists
<1>2. CASE ProposalNext /\ call'[q] = call[q]
  <2>1. call[q].version \in Version /\ Exists(call[q].version)
    BY <1>2 DEF DecidesExisting, CallTyping, CallsInv, CallIsComplete
  <2> QED
    BY <1>2, <2>1, RowsPersistBesideProposals DEF RowPersists, Exists
<1>3. ASSUME NEW v \in Version, NEW decision \in Decision,
             DecideRead(q, v, decision), call'[q] = Deciding(v, decision)
      PROVE  versions'[call'[q].version].document_id # None
  <2>1. call'[q].version = v
    BY <1>3 DEF Deciding
  <2>2. versions' = versions /\ versions[v].workflow_status = "proposed"
    BY <1>3 DEF DecideRead, TablesStay
  <2>3. "proposed" # None
    BY NoneIsNoRow DEF WorkflowStatus
  <2>4. Exists(v)
    BY <2>2, <2>3 DEF IInv, TablesInv, UnusedIdsAreBlank, NoRow
  <2> QED
    BY <2>1, <2>2, <2>4 DEF Exists
<1> QED
  BY <1>1, <1>2, <1>3, DecisionsAreRead

(* The proposals' own steps leave the lifecycle's requests alone.          *)
LEMMA OnlyLifecycleReads ==
    ASSUME ProposalNext
    PROVE  UNCHANGED tx \/ ServeLifecycle \/ RestartAll
BY ZenonT(40) DEF ProposalNext, ProposeCheck, ProposeReadNumber, ProposeInsert, DecideRead,
       DecideWrite, AbortCall, Rollback, SetKillSwitch, DeleteAgent, TablesStay

LEMMA BesideStep == BesideInv /\ [ProposalNext]_allVars => BesideInv'
<1> SUFFICES ASSUME BesideInv, [ProposalNext]_allVars PROVE BesideInv'
  OBVIOUS
<1> USE DEF BesideInv
<1>1. CallTyping' /\ ReviewInv' /\ QueueInv' /\ DecidesExisting'
  BY ProposalTypingStep, ReviewStep, QueueInvStep, DecidesExistingStep
<1>2. TypeOK'
  BY <1>1 DEF CallTyping, ProposalTypeOK
<1>3. CASE ServeLifecycle \/ RestartAll \/ UNCHANGED allVars
  <2>1. [Next]_vars
    BY <1>3 DEF ServeLifecycle, RestartAll, allVars, vars, Next
  <2> QED
    BY <1>1, <2>1, InvariantStep
<1>4. CASE ProposalNext /\ UNCHANGED tx /\ ~(ServeLifecycle \/ RestartAll)
  <2>1. ReadsStayTrue'
    BY <1>4, ReadingsOutlive, RowsPersistBesideProposals DEF IInv
  <2>2. CASE TablesUnchanged
    BY <1>1, <1>2, <2>1, <2>2, TablesInvUnchanged DEF IInv
  <2>3. ASSUME NEW r \in Request, NEW w \in Version, NEW s \in SUBSET NodeId,
               ProposeInsert(r, w, s)
        PROVE  TablesInv'
    BY <1>2, <2>3, ProposeInsertKeepsTables
  <2>4. ASSUME NEW r \in Request, DecideWrite(r) PROVE TablesInv'
    <3>1. /\ call[r].version \in Version /\ Exists(call[r].version)
          /\ call[r].decision \notin {"published", "archived"}
      BY <2>4 DEF DecideWrite, DecidesExisting, CallTyping, CallsInv, CallIsComplete, Decision
    <3> QED
      BY <1>2, <2>4, <3>1, WorkflowStateKeepsTables DEF DecideWrite
  <2>5. ASSUME NEW r \in Request, NEW v \in Version, Rollback(r, v) PROVE TablesInv'
    <3>1. Exists(v)
      BY <2>5 DEF Rollback, QueueInv, ReviewInv
    <3>2. PICK state : state = "proposed"
      OBVIOUS
    <3>3. /\ versions' = [versions EXCEPT ![v].workflow_status = state]
          /\ state \notin {"published", "archived"}
          /\ UNCHANGED <<documents, nodes>>
      BY <2>5, <3>2 DEF Rollback
    <3> QED
      BY <1>2, <3>1, <3>3, WorkflowStateKeepsTables
  <2> QED
    BY <1>1, <1>2, <1>4, <2>1, <2>2, <2>3, <2>4, <2>5
       DEF IInv, ProposalNext, ProposeCheck, ProposeReadNumber, DecideRead, AbortCall,
           SetKillSwitch, DeleteAgent, TablesStay, TablesUnchanged
<1> QED
  BY <1>3, <1>4, OnlyLifecycleReads

LEMMA BesideHolds == ProposalSpec => []BesideInv
<1>1. ProposalInit => BesideInv
  <2> SUFFICES ASSUME ProposalInit PROVE BesideInv
    OBVIOUS
  <2>1. IInv
    BY InvariantInit DEF ProposalInit
  <2>2. QueueInv /\ DecidesExisting
    BY DEF ProposalInit, QueueInv, InQueue, NoProposal, NoCall, DecidesExisting
  <2> QED
    BY <2>1, <2>2, ProposalTypingInit, ReviewInit DEF BesideInv
<1> QED
  BY <1>1, BesideStep, PTL DEF ProposalSpec

(* While agents propose and reviewers decide, the pointers of a document   *)
(* still refer to live, respectively published, versions of its own, the   *)
(* nodes of a version with a snapshot mirror it, the numbers are unique    *)
(* and the two status columns agree: what                                  *)
(* propose_draft and the decisions write beside the services of the        *)
(* lifecycle breaks nothing those rely on.                                 *)
THEOREM LifecycleHoldsBesideProposals == ProposalSpec => []TablesInv
<1>1. BesideInv => TablesInv
  BY DEF BesideInv, IInv
<1> QED
  BY <1>1, BesideHolds, PTL

(* The proposals keep what the lifecycle promises of the rows: no decision *)
(* or rollback makes a version a draft again or moves it elsewhere.        *)
THEOREM NeverReopenedByAgents == ProposalSpec => VersionsNeverReopen
<1>1. CallTyping /\ [ProposalNext]_allVars =>
        [\A v \in Version : Exists(v) =>
          /\ versions[v].status # "draft" => versions'[v].status # "draft"
          /\ versions'[v].document_id = versions[v].document_id
          /\ versions'[v].version_number = versions[v].version_number]_vars
  <2> SUFFICES ASSUME CallTyping, [ProposalNext]_allVars
               PROVE  (\A v \in Version : Exists(v) => RowPersists(v)) \/ UNCHANGED vars
    BY DEF RowPersists
  <2>1. CASE ProposalNext
    BY <2>1, RowsPersistBesideProposals
  <2> QED
    BY <2>1 DEF allVars, vars
<1> QED
  BY <1>1, QueueHolds, PTL DEF ProposalSpec, VersionsNeverReopen

(* The tables still implement the slots: a proposal takes a new version,   *)
(* a decision moves no pointer.                                            *)
THEOREM RefinementBesideProposals == ProposalSpec => ImplementsSlots
<1>1. ProposalInit => Slots!Init
  BY InitMaps DEF ProposalInit
<1>2. BesideInv /\ [ProposalNext]_allVars => [Slots!Next]_(Slots!slots)
  <2> SUFFICES ASSUME BesideInv, [ProposalNext]_allVars
               PROVE  [Slots!Next]_(Slots!slots)
    OBVIOUS
  <2> USE DEF BesideInv
  <2>1. CASE ServeLifecycle \/ RestartAll \/ UNCHANGED <<documents, versions, nodes, tx>>
    <3>1. [Next]_vars
      BY <2>1 DEF ServeLifecycle, RestartAll, vars, Next
    <3> QED
      BY <3>1, StepMaps
  <2>2. ASSUME NEW r \in Request, NEW w \in Version, NEW s \in SUBSET NodeId,
               ProposeInsert(r, w, s)
        PROVE  Slots!Next
    <3>1. /\ call[r].doc \in Document /\ ~Exists(w) /\ UNCHANGED documents
          /\ versions' = [versions EXCEPT
                             ![w] = ProposedRow(call[r].doc, call[r].number, s)]
      BY <2>2 DEF ProposeInsert, CallTyping, CallsInv, CallIsComplete
    <3>2. ProposedRow(call[r].doc, call[r].number, s).document_id = call[r].doc
      BY DEF ProposedRow, NewRow
    <3>3. /\ slotOwner' = [slotOwner EXCEPT ![w] = call[r].doc]
          /\ slotOwner[w] = None
          /\ slotDraft' = slotDraft /\ slotPublished' = slotPublished
      BY <3>1, <3>2 DEF IInv, TypeOK, Exists, slotOwner, slotDraft, slotPublished
    <3>4. Slots!Create(call[r].doc, w)
      BY <3>1, <3>3 DEF Slots!Create, slotOwner, slotDraft, slotPublished
    <3> QED
      BY <3>1, <3>4 DEF Slots!Next
  <2>3. ASSUME NEW w, NEW state, UNCHANGED documents,
               versions' = [versions EXCEPT ![w].workflow_status = state]
        PROVE  UNCHANGED Slots!slots
    <3>1. slotOwner' = slotOwner
      BY <2>3 DEF IInv, TypeOK, VersionRow, slotOwner
    <3>2. slotDraft' = slotDraft /\ slotPublished' = slotPublished
      BY <2>3 DEF slotDraft, slotPublished
    <3> QED
      BY <3>1, <3>2, Stutters
  <2>4. ASSUME NEW r \in Request,
               DecideWrite(r) \/ \E w \in Version : Rollback(r, w)
        PROVE  UNCHANGED Slots!slots
    BY <2>3, <2>4 DEF DecideWrite, Rollback
  <2> QED
    BY <2>1, <2>2, <2>4
       DEF ProposalNext, ProposeCheck, ProposeReadNumber, DecideRead, AbortCall,
           SetKillSwitch, DeleteAgent, TablesStay, allVars
<1> QED
  BY <1>1, <1>2, BesideHolds, PTL DEF ProposalSpec, ImplementsSlots, Slots!Spec

(***************************************************************************)
(* One request at a time.  What a request has checked is still so when it  *)
(* writes, because nobody else writes in between; the invariant says of    *)
(* each step what it relies on.                                            *)
(***************************************************************************)

(* What the checks of a request in flight have found still holds.          *)
ChecksHold(r) ==
    /\ tx[r].step = "idle" \/ call[r].step = "idle"
    /\ tx[r].step = "save_ready" /\ tx[r].draft # None
           => ResolvedStatus(tx[r].draft) \in EditableStatuses
    /\ tx[r].step = "workflow_ready"
           => <<ResolvedStatus(tx[r].version), tx[r].to>> \in AllowedTransitions
    /\ call[r].step = "decide_ready"
           => versions[call[r].version].workflow_status = "proposed"

(* Only what agents inserted is ever proposed.                             *)
ProposedByAgents ==
    \A v \in Version : versions[v].workflow_status = "proposed" => FromAgent(v)

SerialInv ==
    /\ BesideInv
    /\ \A r \in Request : ChecksHold(r)
    /\ QueueAgreesWithVersion
    /\ ProposedByAgents

(* Neither end of a transition is a state only proposals have.             *)
LEMMA TransitionsSpareProposals ==
    ASSUME NEW from, NEW to, <<from, to>> \in AllowedTransitions
    PROVE  /\ from \notin {"proposed", "withdrawn"}
           /\ to \notin {"proposed", "withdrawn", None}
           /\ from = "approved" => to = "published"
           /\ from = "published" => to = "archived"
           /\ from # "archived"
<1>1. to # None
  BY NoneIsNoRow DEF AllowedTransitions, WorkflowStatus, VersionStatus
<1> QED
  BY <1>1 DEF AllowedTransitions

(* A step that writes versions leaves its request with nothing in flight.  *)
LEMMA WritersEnd ==
    ASSUME CallTyping, ProposalNext, \A q \in Request : ChecksHold(q)
    PROVE  \/ UNCHANGED versions
           \/ RestartAll
           \/ \E r \in Request : tx'[r].step = "idle" /\ call'[r].step = "idle"
<1> USE DEF CallTyping, ProposalTypeOK, TypeOK
<1>1. ASSUME NEW r \in Request, End(r), tx[r].step # "idle", UNCHANGED call
      PROVE  tx'[r].step = "idle" /\ call'[r].step = "idle"
  BY <1>1 DEF End, Idle, ChecksHold
<1>2. ASSUME NEW r \in Request, Hang(r), UNCHANGED tx,
             call[r].step # "idle" \/ tx[r].step = "idle"
      PROVE  tx'[r].step = "idle" /\ call'[r].step = "idle"
  BY <1>2 DEF Hang, NoCall, ChecksHold
<1>3. CASE ServeLifecycle
  <2>1. Serve /\ UNCHANGED call
    BY <1>3 DEF ServeLifecycle, proposalVars
  <2> QED
    BY <1>1, <2>1, WritesOfServe, ZenonT(40)
       DEF TablesUnchanged, DiscardWrite, PublishWrite, WorkflowWrite, CreateInsert,
           SaveUpdate, SaveInsert
<1>4. ASSUME NEW r \in Request,
             \/ DecideWrite(r)
             \/ \E v \in Version, s \in SUBSET NodeId : ProposeInsert(r, v, s)
      PROVE  tx'[r].step = "idle" /\ call'[r].step = "idle"
  BY <1>2, <1>4 DEF DecideWrite, ProposeInsert
<1>5. ASSUME NEW r \in Request, NEW v \in Version, Rollback(r, v)
      PROVE  tx'[r].step = "idle" /\ call'[r].step = "idle"
  BY <1>5 DEF Rollback, Free
<1> QED
  BY <1>3, <1>4, <1>5
     DEF ProposalNext, ProposeCheck, ProposeReadNumber, DecideRead, AbortCall,
         SetKillSwitch, DeleteAgent, TablesStay

(* A request of the lifecycle that is about to write was so before, or has *)
(* just passed its check.                                                  *)
WriteIsChecked(q) ==
    \/ tx'[q] = tx[q]
    \/ tx'[q].step \notin {"save_ready", "workflow_ready"}
    \/ /\ tx'[q].step = "save_ready"
       /\ \/ tx'[q].draft = None
          \/ ResolvedStatus(tx'[q].draft) \in EditableStatuses
    \/ /\ tx'[q].step = "workflow_ready"
       /\ <<ResolvedStatus(tx'[q].version), tx'[q].to>> \in AllowedTransitions

LEMMA WritesAreChecked ==
    ASSUME TypeOK, Next, NEW q \in Request
    PROVE  WriteIsChecked(q)
<1>1. ASSUME NEW r \in Request, End(r) PROVE WriteIsChecked(q)
  BY <1>1 DEF End, Idle, TypeOK, WriteIsChecked
<1>2. ASSUME NEW r \in Request, NEW d \in Document,
             \/ SaveReadDocument(r, d) \/ DiscardReadDocument(r, d)
             \/ PublishReadDocument(r, d)
      PROVE  WriteIsChecked(q)
  <2>1. ASSUME NEW step \in {"save_doc", "discard_ready", "publish_doc"}, NEW published,
               ReadDocument(r, d, step, published)
        PROVE  WriteIsChecked(q)
    <3>1. CASE q = r
      <4>1. tx'[q] = [ step |-> step, doc |-> d,
                       draft |-> documents[d].current_draft_version_id,
                       published |-> published,
                       version |-> None, number |-> 0, to |-> None ]
        BY <2>1, <3>1 DEF ReadDocument, Idle, TypeOK
      <4>2. tx'[q].step = step
        BY <4>1
      <4> QED
        BY <4>2 DEF WriteIsChecked
    <3>2. CASE q # r
      BY <2>1, <3>2 DEF ReadDocument, TypeOK, WriteIsChecked
    <3> QED
      BY <3>1, <3>2
  <2> QED
    BY <1>2, <2>1 DEF SaveReadDocument, DiscardReadDocument, PublishReadDocument
<1>3. ASSUME NEW r \in Request, NEW d \in Document, CreateReadNumber(r, d)
      PROVE  WriteIsChecked(q)
  <2>1. PICK n \in 1..MaxVersionNumber :
           tx' = [tx EXCEPT ![r] = [ Idle EXCEPT !.step = "create_ready",
                                                 !.doc = d, !.number = n ]]
    BY <1>3 DEF CreateReadNumber
  <2> QED
    BY <2>1 DEF Idle, TypeOK, WriteIsChecked
<1>4. ASSUME NEW r \in Request, NEW d \in Document, NEW v \in Version,
             NEW action \in WorkflowAction, NEW role \in Role,
             WorkflowRead(r, d, v, action, role)
      PROVE  WriteIsChecked(q)
  <2>1. CASE q = r
    <3>1. tx'[q] = [ step |-> "workflow_ready", doc |-> d, draft |-> None,
                     published |-> None, version |-> v, number |-> 0,
                     to |-> ActionTarget[action] ]
      BY <1>4, <2>1 DEF WorkflowRead, Idle, TypeOK
    <3>2. <<ResolvedStatus(v), ActionTarget[action]>> \in AllowedTransitions
      BY <1>4 DEF WorkflowRead
    <3> QED
      BY <3>1, <3>2 DEF WriteIsChecked
  <2>2. CASE q # r
    BY <1>4, <2>2 DEF WorkflowRead, TypeOK, WriteIsChecked
  <2> QED
    BY <2>1, <2>2
<1>5. ASSUME NEW r \in Request, SaveCheckDraft(r) \/ PublishCheckDraft(r)
      PROVE  WriteIsChecked(q)
  <2>1. CASE Refuse(r)
    BY <1>1, <2>1 DEF Refuse
  <2>2. ASSUME NEW step \in {"save_ready", "publish_ready"},
               tx' = [tx EXCEPT ![r].step = step],
               step = "save_ready" => ResolvedStatus(tx[r].draft) \in EditableStatuses
        PROVE  WriteIsChecked(q)
    <3>1. CASE q = r
      <4>1. tx'[q].step = step /\ tx'[q].draft = tx[q].draft
        BY <2>2, <3>1 DEF TypeOK, Transaction
      <4> QED
        BY <2>2, <3>1, <4>1 DEF WriteIsChecked
    <3>2. CASE q # r
      BY <2>2, <3>2 DEF TypeOK, WriteIsChecked
    <3> QED
      BY <3>1, <3>2
  <2> QED
    BY <1>5, <2>1, <2>2 DEF SaveCheckDraft, PublishCheckDraft
<1>6. ASSUME NEW r \in Request, SaveReadNumber(r) PROVE WriteIsChecked(q)
  <2>1. PICK n \in 1..MaxVersionNumber :
           tx' = [tx EXCEPT ![r].step = "save_ready", ![r].number = n]
    BY <1>6 DEF SaveReadNumber
  <2>2. CASE q = r
    <3>1. tx'[q].step = "save_ready" /\ tx'[q].draft = tx[q].draft
      BY <2>1, <2>2 DEF TypeOK, Transaction
    <3> QED
      BY <1>6, <2>2, <3>1 DEF SaveReadNumber, WriteIsChecked
  <2>3. CASE q # r
    BY <2>1, <2>3 DEF TypeOK, WriteIsChecked
  <2> QED
    BY <2>2, <2>3
<1>7. CASE Restart
  BY <1>7 DEF Restart, Idle, WriteIsChecked
<1>8. ASSUME NEW r \in Request,
             \/ CreateViolatesKey(r) \/ DiscardWrite(r) \/ PublishWrite(r)
             \/ WorkflowWrite(r) \/ Abort(r)
             \/ \E s \in SUBSET NodeId :
                   \/ SaveUpdate(r, s) \/ SaveViolatesKey(r, s)
                   \/ \E v \in Version : SaveInsert(r, v, s) \/ CreateInsert(r, v, s)
      PROVE  End(r)
  BY <1>8 DEF CreateViolatesKey, DiscardWrite, PublishWrite, WorkflowWrite, Abort,
              SaveUpdate, SaveViolatesKey, SaveInsert, CreateInsert, Refuse
<1> QED
  BY <1>1, <1>2, <1>3, <1>4, <1>5, <1>6, <1>7, <1>8 DEF Next, Serve

(* A worker takes up a call only when it serves nothing.                   *)
LEMMA CallsStartFree ==
    ASSUME CallTyping, ProposalNext, NEW q \in Request, call'[q].step # "idle"
    PROVE  call[q].step # "idle" \/ tx[q].step = "idle"
<1> USE DEF CallTyping, ProposalTypeOK
<1>1. CASE UNCHANGED call
  BY <1>1
<1>2. CASE RestartAll
  BY <1>2 DEF RestartAll, proposalVars
<1>3. ASSUME NEW r \in Request, Hang(r) PROVE call'[q] = call[q]
  BY <1>3 DEF Hang, NoCall
<1>4. ASSUME NEW r \in Request, NEW new, call' = [call EXCEPT ![r] = new], Free(r)
      PROVE  call'[q] = call[q] \/ tx[q].step = "idle"
  BY <1>4 DEF Free
<1>5. ASSUME NEW r \in Request, ProposeReadNumber(r)
      PROVE  call'[q] = call[q] \/ call[q].step # "idle"
  BY <1>5 DEF ProposeReadNumber
<1> QED
  BY <1>1, <1>2, <1>3, <1>4, <1>5, ZenonT(40)
     DEF ProposalNext, ServeLifecycle, proposalVars, ProposeCheck, ProposeInsert,
         DecideRead, DecideWrite, AbortCall, Rollback, SetKillSwitch, DeleteAgent

(* With one request, every check still holds when its request goes on.     *)
LEMMA ChecksStep ==
    ASSUME \A q, r \in Request : q = r, SerialInv, ProposalNext
    PROVE  \A q \in Request : ChecksHold(q)'
<1> SUFFICES ASSUME NEW q \in Request PROVE ChecksHold(q)'
  OBVIOUS
<1> USE DEF SerialInv, BesideInv
<1>1. CASE tx'[q].step = "idle" /\ call'[q].step = "idle"
  BY <1>1 DEF ChecksHold
<1>2. CASE RestartAll
  <2>1. UNCHANGED <<tx, call>> /\ ChecksHold(q) /\ TypeOK
    BY <1>2 DEF RestartAll, Restart, proposalVars, IInv
  <2>2. ASSUME NEW v \in Version
        PROVE  /\ ResolvedStatus(v)' = ResolvedStatus(v)
               /\ versions[v].workflow_status = "proposed"
                     => versions'[v].workflow_status = "proposed"
    <3>1. versions[v] \in VersionRow /\ ResolvedStatus(v) # None
      BY <2>1, ResolvedTyping, NoneIsNoRow DEF TypeOK
    <3>2. \/ versions'[v] = versions[v]
          \/ versions'[v] = [versions[v] EXCEPT !.workflow_status = ResolvedStatus(v)]
      BY <1>2 DEF RestartAll, Restart
    <3>3. /\ versions'[v].status = versions[v].status
          /\ versions'[v].workflow_status \in {versions[v].workflow_status, ResolvedStatus(v)}
      BY <3>1, <3>2 DEF VersionRow
    <3> QED
      BY <3>1, <3>3, NoneIsNoRow DEF ResolvedStatus, WorkflowStatus
  <2>3. /\ tx[q].step = "workflow_ready" => tx[q].version \in Version
        /\ call[q].step = "decide_ready" => call[q].version \in Version
        /\ tx[q].draft # None => tx[q].draft \in Version
    BY <2>1, FieldTyping DEF IInv, ReadsStayTrue, ReadIsTrue, CallTyping, CallsInv,
                             CallIsComplete
  <2> QED
    BY <2>1, <2>2, <2>3 DEF ChecksHold
<1>3. CASE UNCHANGED versions /\ ServeLifecycle
  <2>1. call' = call /\ (call[q].step # "idle" => tx'[q] = tx[q]) /\ Next
    BY <1>3 DEF ServeLifecycle, proposalVars, Next
  <2>2. \A v : ResolvedStatus(v)' = ResolvedStatus(v)
    BY <1>3 DEF ResolvedStatus
  <2>3. TypeOK /\ ChecksHold(q)
    BY DEF IInv
  <2> QED
    BY <1>3, <2>1, <2>2, <2>3, WritesAreChecked
       DEF WriteIsChecked, ChecksHold, ResolvedStatus
<1>4. CASE UNCHANGED <<versions, tx>>
  <2>1. call'[q].step = "decide_ready" =>
            versions'[call'[q].version].workflow_status = "proposed"
    <3>1. ASSUME NEW v \in Version, NEW decision \in Decision,
                 DecideRead(q, v, decision), call'[q] = Deciding(v, decision)
          PROVE  versions'[call'[q].version].workflow_status = "proposed"
      BY <1>4, <3>1 DEF DecideRead, Deciding
    <3> QED
      BY <1>4, <3>1, DecisionsAreRead DEF ChecksHold
  <2>2. tx'[q].step = "idle" \/ call'[q].step = "idle"
    BY <1>4, CallsStartFree DEF ChecksHold
  <2> QED
    BY <1>4, <2>1, <2>2 DEF ChecksHold, ResolvedStatus
<1> QED
  BY <1>1, <1>2, <1>3, <1>4, WritersEnd, OnlyLifecycleReads
(* What a step of the lifecycle may do to the workflow state of a version: *)
(* nothing, make the state it is taken to be in explicit, or follow the    *)
(* policy.                                                                 *)
StateFollowsPolicy(v) ==
    \/ versions'[v].workflow_status \in {versions[v].workflow_status, ResolvedStatus(v)}
    \/ <<ResolvedStatus(v), versions'[v].workflow_status>> \in AllowedTransitions

LEMMA LifecycleFollowsPolicy ==
    ASSUME IInv, \A r \in Request : ChecksHold(r), Next, NEW v \in Version
    PROVE  StateFollowsPolicy(v)
<1> USE DEF IInv, TypeOK, VersionRow
<1>1. CASE TablesUnchanged
  BY <1>1 DEF TablesUnchanged, StateFollowsPolicy
<1>2. CASE Restart
  BY <1>2 DEF Restart, StateFollowsPolicy
<1>3. ASSUME NEW r \in Request, DiscardWrite(r) PROVE StateFollowsPolicy(v)
  BY <1>3 DEF DiscardWrite, StateFollowsPolicy
<1>4. ASSUME NEW r \in Request, PublishWrite(r) PROVE StateFollowsPolicy(v)
  BY <1>4 DEF PublishWrite, StateFollowsPolicy
<1>5. ASSUME NEW r \in Request, WorkflowWrite(r) PROVE StateFollowsPolicy(v)
  <2>1. <<ResolvedStatus(tx[r].version), tx[r].to>> \in AllowedTransitions
    BY <1>5 DEF WorkflowWrite, ChecksHold
  <2>2. versions'[v].workflow_status = IF v = tx[r].version THEN tx[r].to
                                       ELSE versions[v].workflow_status
    <3>1. CASE tx[r].to = "published"
      BY <1>5, <3>1 DEF WorkflowWrite
    <3>2. CASE tx[r].to # "published"
      BY <1>5, <3>2 DEF WorkflowWrite
    <3> QED
      BY <3>1, <3>2
  <2> QED
    BY <2>1, <2>2 DEF StateFollowsPolicy
<1>6. ASSUME NEW r \in Request, NEW w \in Version, NEW s \in SUBSET NodeId,
             CreateInsert(r, w, s)
      PROVE  StateFollowsPolicy(v)
  BY <1>6 DEF CreateInsert, TablesInv, UnusedIdsAreBlank, NoRow, NewRow, StateFollowsPolicy
<1>7. ASSUME NEW r \in Request, NEW s \in SUBSET NodeId, SaveUpdate(r, s)
      PROVE  StateFollowsPolicy(v)
  BY <1>7 DEF SaveUpdate, StateFollowsPolicy
<1>8. ASSUME NEW r \in Request, NEW w \in Version, NEW s \in SUBSET NodeId,
             SaveInsert(r, w, s)
      PROVE  StateFollowsPolicy(v)
  BY <1>8 DEF SaveInsert, TablesInv, UnusedIdsAreBlank, NoRow, NewRow, StateFollowsPolicy
<1> QED
  BY OnlyWritesTouchTables, <1>1, <1>2, <1>3, <1>4, <1>5, <1>6, <1>7, <1>8

(* The row of the queue and the version tell one story.                    *)
RowAgrees(v) ==
    InQueue(v) =>
        LET row == proposals[v].status  state == versions[v].workflow_status IN
        /\ row = "pending"   => state = "proposed"
        /\ row = "approved"  => state \in {"approved", "published", "archived"}
        /\ row = "withdrawn" => state = "withdrawn"
        /\ row = "rejected"  => state \notin {"proposed", "withdrawn"}

(* So they do after a step of the lifecycle: it has no transition out of a *)
(* state only proposals have, and from an approval only towards            *)
(* publication.                                                            *)
LEMMA LifecycleKeepsAgreement ==
    ASSUME IInv, NEW v \in Version, RowAgrees(v), StateFollowsPolicy(v),
           versions[v].workflow_status = "proposed" => FromAgent(v),
           UNCHANGED <<proposals, tasks>>
    PROVE  /\ RowAgrees(v)'
           /\ versions'[v].workflow_status = "proposed" => FromAgent(v)'
<1> DEFINE old == versions[v].workflow_status
           new == versions'[v].workflow_status
<1>1. versions[v].status \in VersionStatus /\ "proposed" # None
      /\ "approved" # None /\ "published" # None /\ "archived" # None
      /\ "withdrawn" # None
  BY RowTyping, NoneIsNoRow DEF IInv, WorkflowStatus, VersionStatus
<1>2. ResolvedStatus(v) = IF old # None THEN old ELSE versions[v].status
  BY DEF ResolvedStatus
<1>3. versions[v].status \notin {"proposed", "withdrawn"}
  BY <1>1 DEF VersionStatus
<1>4. CASE new = old
  BY <1>4 DEF RowAgrees, InQueue, FromAgent
<1>5. CASE new = ResolvedStatus(v)
  BY <1>1, <1>2, <1>3, <1>5 DEF RowAgrees, InQueue, FromAgent
<1>6. CASE <<ResolvedStatus(v), new>> \in AllowedTransitions
  <2>1. /\ ResolvedStatus(v) \notin {"proposed", "withdrawn"}
        /\ new \notin {"proposed", "withdrawn"}
        /\ ResolvedStatus(v) = "approved" => new = "published"
        /\ ResolvedStatus(v) = "published" => new = "archived"
        /\ ResolvedStatus(v) # "archived"
    BY <1>6, TransitionsSpareProposals
  <2> QED
    BY <1>1, <1>2, <2>1 DEF RowAgrees, InQueue
<1> QED
  BY <1>4, <1>5, <1>6 DEF StateFollowsPolicy

(* What a decision about to be written finds: a proposed version of an     *)
(* agent, whose row, if it is still there, is pending.                     *)
LEMMA DecisionsFindPending ==
    ASSUME SerialInv, NEW r \in Request, call[r].step = "decide_ready"
    PROVE  /\ call[r].version \in Version /\ call[r].decision \in Decision
           /\ versions[call[r].version].workflow_status = "proposed"
           /\ FromAgent(call[r].version)
           /\ InQueue(call[r].version) => proposals[call[r].version].status = "pending"
<1>1. call[r].version \in Version /\ call[r].decision \in Decision
  BY DEF SerialInv, BesideInv, CallTyping, CallsInv, CallIsComplete
<1>2. versions[call[r].version].workflow_status = "proposed"
  BY DEF SerialInv, ChecksHold
<1>3. FromAgent(call[r].version)
  BY <1>1, <1>2 DEF SerialInv, ProposedByAgents
<1>4. proposals[call[r].version].status \in {"pending"} \cup Decision
  BY <1>1, ProposalFields DEF SerialInv, BesideInv, CallTyping
<1>5. InQueue(call[r].version) => proposals[call[r].version].status = "pending"
  BY <1>1, <1>2, <1>4 DEF SerialInv, QueueAgreesWithVersion, Decision
<1> QED
  BY <1>1, <1>2, <1>3, <1>5

AgreementKept ==
    \A v \in Version : /\ RowAgrees(v)'
                       /\ versions'[v].workflow_status = "proposed" => FromAgent(v)'

LEMMA DecideKeepsAgreement ==
    ASSUME SerialInv, NEW r \in Request, DecideWrite(r)
    PROVE  AgreementKept
<1> SUFFICES ASSUME NEW w \in Version
             PROVE  /\ RowAgrees(w)'
                    /\ versions'[w].workflow_status = "proposed" => FromAgent(w)'
  BY DEF AgreementKept
<1> USE DEF SerialInv, BesideInv, CallTyping, ProposalTypeOK
<1>1. PICK v : v = call[r].version
  OBVIOUS
<1>2. PICK decision : decision = call[r].decision
  OBVIOUS
<1>3. /\ v \in Version /\ decision \in {"approved", "rejected", "withdrawn"}
      /\ FromAgent(v)
      /\ InQueue(v) => proposals[v].status = "pending"
  BY <1>1, <1>2, DecisionsFindPending DEF DecideWrite, Decision
<1>4. /\ versions' = [versions EXCEPT ![v].workflow_status = decision]
      /\ proposals' = IF InQueue(v) /\ proposals[v].status = "pending"
                      THEN [proposals EXCEPT ![v].status = decision] ELSE proposals
      /\ tasks' = IF tasks[v] = "input_required"
                  THEN [tasks EXCEPT ![v] = TaskAfter[decision]] ELSE tasks
  BY <1>1, <1>2 DEF DecideWrite
<1>5. RowAgrees(w) /\ (versions[w].workflow_status = "proposed" => FromAgent(w))
  BY DEF QueueAgreesWithVersion, RowAgrees, ProposedByAgents
<1>6. CASE w # v
  <2>1. versions'[w] = versions[w] /\ proposals'[w] = proposals[w] /\ tasks'[w] = tasks[w]
    BY <1>3, <1>4, <1>6 DEF TypeOK
  <2> QED
    BY <1>5, <2>1 DEF RowAgrees, InQueue, FromAgent
<1>7. CASE w = v
  <2>1. versions'[v].workflow_status = decision
    BY <1>3, <1>4 DEF TypeOK, VersionRow
  <2>2. InQueue(v) => proposals' = [proposals EXCEPT ![v].status = decision]
    BY <1>3, <1>4
  <2>3. ~InQueue(v) => proposals' = proposals
    BY <1>4
  <2>4. proposals[v] \in ProposalRow
    BY <1>3
  <2>5. /\ proposals'[v].agent = proposals[v].agent
        /\ InQueue(v) => proposals'[v].status = decision
    BY <1>3, <2>2, <2>3, <2>4 DEF ProposalRow
  <2> QED
    BY <1>3, <1>7, <2>1, <2>5 DEF RowAgrees, InQueue
<1> QED
  BY <1>6, <1>7

LEMMA RollbackKeepsAgreement ==
    ASSUME SerialInv, NEW r \in Request, NEW v \in Version, Rollback(r, v)
    PROVE  AgreementKept
<1> SUFFICES ASSUME NEW w \in Version
             PROVE  /\ RowAgrees(w)'
                    /\ versions'[w].workflow_status = "proposed" => FromAgent(w)'
  BY DEF AgreementKept
<1> USE DEF SerialInv, BesideInv, CallTyping, ProposalTypeOK
<1>1. FromAgent(v) /\ UNCHANGED tasks
  BY DEF Rollback, QueueInv
<1>2. RowAgrees(w) /\ (versions[w].workflow_status = "proposed" => FromAgent(w))
  BY DEF QueueAgreesWithVersion, RowAgrees, ProposedByAgents
<1>3. CASE w # v
  <2>1. versions'[w] = versions[w] /\ proposals'[w] = proposals[w]
    BY <1>3 DEF Rollback, TypeOK
  <2> QED
    BY <1>1, <1>2, <2>1 DEF RowAgrees, InQueue, FromAgent
<1>4. CASE w = v
  <2>1. versions'[v].workflow_status = "proposed" /\ proposals'[v].status = "pending"
    BY DEF Rollback, TypeOK, VersionRow, ProposalRow
  <2> QED
    BY <1>1, <1>4, <2>1 DEF RowAgrees, FromAgent
<1> QED
  BY <1>3, <1>4

LEMMA ProposeKeepsAgreement ==
    ASSUME SerialInv, NEW r \in Request, NEW v \in Version, NEW s \in SUBSET NodeId,
           ProposeInsert(r, v, s)
    PROVE  AgreementKept
<1> SUFFICES ASSUME NEW w \in Version
             PROVE  /\ RowAgrees(w)'
                    /\ versions'[w].workflow_status = "proposed" => FromAgent(w)'
  BY DEF AgreementKept
<1> USE DEF SerialInv, BesideInv, CallTyping, ProposalTypeOK
<1>1. RowAgrees(w) /\ (versions[w].workflow_status = "proposed" => FromAgent(w))
  BY DEF QueueAgreesWithVersion, RowAgrees, ProposedByAgents
<1>2. CASE w # v
  <2>1. versions'[w] = versions[w] /\ proposals'[w] = proposals[w] /\ tasks'[w] = tasks[w]
    BY <1>2 DEF ProposeInsert, TypeOK
  <2> QED
    BY <1>1, <2>1 DEF RowAgrees, InQueue, FromAgent
<1>3. CASE w = v
  <2>1. /\ versions'[v].workflow_status = "proposed" /\ proposals'[v].status = "pending"
        /\ tasks'[v] = "input_required"
    BY DEF ProposeInsert, ProposedRow, NewRow, TypeOK
  <2> QED
    BY <1>3, <2>1, NoneIsNoProposal DEF RowAgrees, FromAgent, TaskState
<1> QED
  BY <1>2, <1>3

(* A deleted agent's rows leave the queue; their versions stay as they are.*)
LEMMA DeleteKeepsAgreement ==
    ASSUME SerialInv, NEW r \in Request, NEW a \in Agent, DeleteAgent(r, a)
    PROVE  AgreementKept
<1> SUFFICES ASSUME NEW w \in Version
             PROVE  /\ RowAgrees(w)'
                    /\ versions'[w].workflow_status = "proposed" => FromAgent(w)'
  BY DEF AgreementKept
<1>1. RowAgrees(w) /\ (versions[w].workflow_status = "proposed" => FromAgent(w))
  BY DEF SerialInv, QueueAgreesWithVersion, RowAgrees, ProposedByAgents
<1>2. /\ proposals'[w] \in {proposals[w], NoProposal} /\ NoProposal.agent = None
      /\ UNCHANGED <<tasks, versions>>
  BY DeleteAgentDropsRows DEF DeleteAgent
<1> QED
  BY <1>1, <1>2 DEF RowAgrees, InQueue, FromAgent

LEMMA SerialStep ==
    ASSUME \A q, r \in Request : q = r
    PROVE  SerialInv /\ [ProposalNext]_allVars => SerialInv'
<1> SUFFICES ASSUME SerialInv, [ProposalNext]_allVars PROVE SerialInv'
  OBVIOUS
<1>1. BesideInv'
  BY BesideStep DEF SerialInv
<1>2. CASE UNCHANGED allVars
  BY <1>1, <1>2 DEF allVars, SerialInv, ChecksHold, ResolvedStatus, QueueAgreesWithVersion,
                    InQueue, ProposedByAgents, FromAgent
<1>3. CASE ProposalNext
  <2>1. \A q \in Request : ChecksHold(q)'
    BY <1>3, ChecksStep
  <2>2. \A v \in Version : RowAgrees(v)
                          /\ (versions[v].workflow_status = "proposed" => FromAgent(v))
    BY DEF SerialInv, QueueAgreesWithVersion, RowAgrees, ProposedByAgents
  <2>3. ASSUME ServeLifecycle \/ RestartAll PROVE AgreementKept
    <3>1. Next /\ UNCHANGED <<proposals, tasks>>
      BY <2>3 DEF ServeLifecycle, RestartAll, proposalVars, Next
    <3>2. \A v \in Version : StateFollowsPolicy(v)
      BY <3>1, LifecycleFollowsPolicy DEF SerialInv, BesideInv
    <3>3. IInv
      BY DEF SerialInv, BesideInv
    <3> QED
      BY <2>2, <3>1, <3>2, <3>3, LifecycleKeepsAgreement DEF AgreementKept
  <2>4. ASSUME UNCHANGED <<versions, proposals, tasks>> PROVE AgreementKept
    BY <2>2, <2>4 DEF AgreementKept, RowAgrees, InQueue, FromAgent
  <2>5. AgreementKept
    BY <1>3, <2>3, <2>4, DecideKeepsAgreement, RollbackKeepsAgreement,
       ProposeKeepsAgreement, DeleteKeepsAgreement
       DEF ProposalNext, ProposeCheck, ProposeReadNumber, DecideRead, AbortCall,
           SetKillSwitch, TablesStay
  <2>6. QueueAgreesWithVersion' /\ ProposedByAgents'
    BY <2>5 DEF AgreementKept, RowAgrees, QueueAgreesWithVersion, ProposedByAgents,
                InQueue, FromAgent
  <2> QED
    BY <1>1, <2>1, <2>6 DEF SerialInv
<1> QED
  BY <1>2, <1>3

LEMMA SerialHolds ==
    ASSUME \A q, r \in Request : q = r
    PROVE  ProposalSpec => []SerialInv
<1>1. ProposalInit => \A r \in Request : ChecksHold(r)
  BY DEF ProposalInit, Init, Idle, NoCall, ChecksHold
<1>2. ProposalInit => QueueAgreesWithVersion /\ ProposedByAgents
  <2>1. "proposed" # None
    BY NoneIsNoRow DEF WorkflowStatus
  <2> QED
    BY <2>1 DEF ProposalInit, Init, NoRow, NoProposal, InQueue, QueueAgreesWithVersion,
                ProposedByAgents
<1>3. SerialInv => BesideInv
  BY DEF SerialInv
<1>4. SerialInv /\ [ProposalNext]_allVars => SerialInv'
  BY SerialStep
<1>5. ProposalInit /\ BesideInv => SerialInv
  BY <1>1, <1>2 DEF SerialInv
<1> QED
  BY <1>4, <1>5, BesideHolds, PTL DEF ProposalSpec

(* While requests are served one at a time, the row of the admins' queue   *)
(* and the version tell one story: a pending row waits in "proposed", an   *)
(* approval leads only towards publication, a withdrawal nowhere.  Nothing *)
(* is said of the mcp task, which a rollback leaves behind.                *)
THEOREM QueueTellsTheTruth ==
    ASSUME \A q, r \in Request : q = r
    PROVE  ProposalSpec => []QueueAgreesWithVersion
<1>1. SerialInv => QueueAgreesWithVersion
  BY DEF SerialInv
<1> QED
  BY <1>1, SerialHolds, PTL

(* The content of a row that exists is written by a save of its draft.     *)
LEMMA OnlySavesRewrite ==
    ASSUME TypeOK, Next, NEW v \in Version, Exists(v),
           versions'[v].content_snapshot # versions[v].content_snapshot
    PROVE  \E r \in Request, s \in SUBSET NodeId : SaveUpdate(r, s)
<1> USE DEF TypeOK, VersionRow
<1>1. ~TablesUnchanged
  BY DEF TablesUnchanged
<1>2. ~Restart
  BY DEF Restart
<1>3. ASSUME NEW r \in Request, DiscardWrite(r) PROVE FALSE
  BY <1>3 DEF DiscardWrite
<1>4. ASSUME NEW r \in Request, PublishWrite(r) PROVE FALSE
  BY <1>4 DEF PublishWrite
<1>5. ASSUME NEW r \in Request, WorkflowWrite(r) PROVE FALSE
  BY <1>5 DEF WorkflowWrite
<1>6. ASSUME NEW r \in Request, NEW w \in Version, NEW s \in SUBSET NodeId,
             CreateInsert(r, w, s) PROVE FALSE
  BY <1>6 DEF CreateInsert
<1>7. ASSUME NEW r \in Request, NEW w \in Version, NEW s \in SUBSET NodeId,
             SaveInsert(r, w, s)
      PROVE  FALSE
  BY <1>7 DEF SaveInsert
<1> QED
  BY OnlyWritesTouchTables, <1>1, <1>2, <1>3, <1>4, <1>5, <1>6, <1>7

(* While requests are served one at a time, the content of a version       *)
(* changes only in an editable workflow state: what was reviewed is what   *)
(* gets published.                                                         *)
THEOREM ReviewFreezesContent ==
    ASSUME \A q, r \in Request : q = r
    PROVE  ProposalSpec => ReviewedContentIsFrozen
<1> DEFINE Frozen ==
      \A v \in Version :
          Exists(v) /\ versions'[v].content_snapshot # versions[v].content_snapshot
              => ResolvedStatus(v) \in EditableStatuses
<1>1. SerialInv /\ [ProposalNext]_allVars => [Frozen]_vars
  <2> SUFFICES ASSUME SerialInv, [ProposalNext]_allVars, NEW v \in Version, Exists(v),
                      versions'[v].content_snapshot # versions[v].content_snapshot
               PROVE  ResolvedStatus(v) \in EditableStatuses
    OBVIOUS
  <2> USE DEF SerialInv, BesideInv, IInv, TypeOK, VersionRow
  <2>1. CASE ServeLifecycle \/ RestartAll
    <3>1. Next
      BY <2>1 DEF ServeLifecycle, RestartAll, Next
    <3>2. PICK r \in Request, s \in SUBSET NodeId : SaveUpdate(r, s)
      BY <3>1, OnlySavesRewrite
    <3>3. v = tx[r].draft /\ tx[r].step = "save_ready" /\ tx[r].draft # None
      BY <3>2 DEF SaveUpdate
    <3> QED
      BY <3>3 DEF ChecksHold
  <2>2. CASE UNCHANGED versions
    BY <2>2
  <2>3. ASSUME NEW r \in Request, NEW w \in Version, NEW s \in SUBSET NodeId,
               ProposeInsert(r, w, s)
        PROVE  FALSE
    BY <2>3 DEF ProposeInsert
  <2>4. ASSUME NEW w, NEW state,
               versions' = [versions EXCEPT ![w].workflow_status = state]
        PROVE  FALSE
    BY <2>4
  <2>5. ASSUME NEW r \in Request,
               DecideWrite(r) \/ \E w \in Version : Rollback(r, w)
        PROVE  FALSE
    BY <2>4, <2>5 DEF DecideWrite, Rollback
  <2> QED
    BY <2>1, <2>2, <2>3, <2>5
       DEF ProposalNext, ProposeCheck, ProposeReadNumber, DecideRead, AbortCall,
           SetKillSwitch, DeleteAgent, TablesStay, allVars
<1> QED
  BY <1>1, SerialHolds, PTL DEF ProposalSpec, ReviewedContentIsFrozen

(* While requests are served one at a time, every change of the workflow   *)
(* state of a version is an edge of the policy from the state it was in,   *)
(* but for what an agent's version does in the queue.                      *)
THEOREM PolicyIsFollowed ==
    ASSUME \A q, r \in Request : q = r
    PROVE  ProposalSpec => WorkflowFollowsPolicy
<1> DEFINE Followed ==
      \A v \in Version :
          LET old == versions[v].workflow_status
              new == versions'[v].workflow_status IN
          new # old =>
              \/ new = ResolvedStatus(v)
              \/ <<ResolvedStatus(v), new>> \in AllowedTransitions
              \/ FromAgent(v) /\ "proposed" \in {old, new}
              \/ ~Exists(v) /\ new = "proposed"
<1>1. SerialInv /\ [ProposalNext]_allVars => [Followed]_allVars
  <2> SUFFICES ASSUME SerialInv, [ProposalNext]_allVars PROVE Followed
    OBVIOUS
  <2> USE DEF SerialInv, BesideInv
  <2>1. ASSUME ServeLifecycle \/ RestartAll PROVE Followed
    <3>1. Next
      BY <2>1 DEF ServeLifecycle, RestartAll, Next
    <3>2. \A v \in Version : StateFollowsPolicy(v)
      BY <3>1, LifecycleFollowsPolicy
    <3> QED
      BY <3>2 DEF StateFollowsPolicy
  <2>2. ASSUME UNCHANGED versions PROVE Followed
    BY <2>2
  <2> USE DEF IInv, TypeOK, VersionRow
  <2>3. ASSUME NEW r \in Request, NEW w \in Version, NEW s \in SUBSET NodeId,
               ProposeInsert(r, w, s)
        PROVE  Followed
    BY <2>3 DEF ProposeInsert, ProposedRow, NewRow
  <2>4. ASSUME NEW r \in Request, DecideWrite(r) PROVE Followed
    <3>1. /\ call[r].version \in Version /\ FromAgent(call[r].version)
          /\ versions[call[r].version].workflow_status = "proposed"
      BY <2>4, DecisionsFindPending DEF DecideWrite
    <3>2. versions' = [versions EXCEPT ![call[r].version].workflow_status = call[r].decision]
      BY <2>4 DEF DecideWrite
    <3> QED
      BY <3>1, <3>2
  <2>5. ASSUME NEW r \in Request, NEW w \in Version, Rollback(r, w) PROVE Followed
    <3>1. FromAgent(w)
      BY <2>5 DEF Rollback, QueueInv
    <3>2. versions' = [versions EXCEPT ![w].workflow_status = "proposed"]
      BY <2>5 DEF Rollback
    <3> QED
      BY <3>1, <3>2
  <2> HIDE DEF Followed
  <2> QED
    BY <2>1, <2>2, <2>3, <2>4, <2>5
       DEF ProposalNext, ProposeCheck, ProposeReadNumber, DecideRead, AbortCall,
           SetKillSwitch, DeleteAgent, TablesStay, allVars
<1> QED
  BY <1>1, SerialHolds, PTL DEF ProposalSpec, WorkflowFollowsPolicy
=============================================================================
