-------------------------- MODULE ProposalPromises --------------------------
(***************************************************************************)
(* What the repository promises of drafts, workflow and proposals served   *)
(* together.  All of it holds while requests are served one at a time and  *)
(* fails when two of them overlap.                                         *)
(***************************************************************************)
EXTENDS AgentProposals, VersionPromises

(* workflow_service.py:17, "conflicts are detected": every change of the   *)
(* workflow state of a version, seen from outside, is an edge of           *)
(* ALLOWED_TRANSITIONS from the state it was in, but for an agent's        *)
(* version that enters or leaves the queue.                                *)
WorkflowFollowsPolicy ==
    [][\A v \in Version :
          LET old == versions[v].workflow_status
              new == versions'[v].workflow_status IN
          new # old =>
              \/ new = ResolvedStatus(v)
              \/ <<ResolvedStatus(v), new>> \in AllowedTransitions
              \/ FromAgent(v) /\ "proposed" \in {old, new}
              \/ ~Exists(v) /\ new = "proposed"]_allVars

(* The queue and the version tell one story: while the row is pending the  *)
(* version waits in "proposed", where the workflow cannot move it; after   *)
(* an approval it can only have gone towards publication, after a          *)
(* withdrawal nowhere.  The task of the proposal is not part of it: a      *)
(* rollback leaves the task with the decision that was undone.             *)
QueueAgreesWithVersion ==
    \A v \in Version : InQueue(v) =>
        LET row == proposals[v].status  state == versions[v].workflow_status IN
        /\ row = "pending"   => state = "proposed"
        /\ row = "approved"  => state \in {"approved", "published", "archived"}
        /\ row = "withdrawn" => state = "withdrawn"
        /\ row = "rejected"  => state \notin {"proposed", "withdrawn"}
=============================================================================
