--------------------------- MODULE AgentProposals ---------------------------
(***************************************************************************)
(* AgentProposalService over the same tables as VersionLifecycle: agents   *)
(* propose drafts, humans approve or reject them, agents withdraw them,    *)
(* admins roll decisions back, and the kill switch stops an agent.         *)
(*                                                                         *)
(* A proposal lives in three tables that every decision updates together:  *)
(* its version's workflow_status, its row in the queue agent_proposals and *)
(* its row in mcp_tasks.  The version goes on through WorkflowService once *)
(* it is approved or returned to draft, so this module composes with       *)
(* VersionLifecycle: the workers of Request serve the calls of both.       *)
(*                                                                         *)
(* Left out: propose_transition, whose rows no code reads or updates once  *)
(* inserted, and the new document propose_draft may insert, which nobody   *)
(* else can see before the commit (it is a document without versions).     *)
(***************************************************************************)
EXTENDS VersionLifecycle

CONSTANTS
    Agent,          \* agents.id
    IdempotencyKey  \* the keys agents send with a proposal

VARIABLES
    agents,     \* agents: is_disabled, and whether the row still exists
    proposals,  \* agent_proposals of type draft, by the version they refer to
    tasks,      \* mcp_tasks, by the version they refer to
    call        \* what each proposal call in flight has read

proposalVars == <<agents, proposals, tasks, call>>

allVars == <<documents, versions, nodes, tx, agents, proposals, tasks, call>>

-----------------------------------------------------------------------------
AgentState == {"active", "disabled", "deleted"}

Decision == {"approved", "rejected", "withdrawn"}

(* The state _sync_mcp_task_state gives the task for each decision.        *)
TaskAfter == [ approved |-> "completed", rejected |-> "failed", withdrawn |-> "failed" ]

TaskState == {"input_required", "completed", "failed"}

ProposalRow == [ agent  : Agent \cup {None},
                 key    : IdempotencyKey \cup {None},
                 status : {"pending"} \cup Decision ]

NoProposal == [ agent |-> None, key |-> None, status |-> "pending" ]

Call == [ step    : {"idle", "propose_checked", "propose_ready", "decide_ready"},
          agent   : Agent \cup {None},
          key     : IdempotencyKey \cup {None},
          doc     : Document \cup {None},
          number  : 0..MaxVersionNumber,
          version : Version \cup {None},
          decision : Decision \cup {None} ]

NoCall == [ step |-> "idle", agent |-> None, key |-> None, doc |-> None,
            number |-> 0, version |-> None, decision |-> None ]

(* A proposal that has been checked, and a decision about to be written.   *)
Proposing(a, k, d) ==
    [ step |-> "propose_checked", agent |-> a, key |-> k, doc |-> d,
      number |-> 0, version |-> None, decision |-> None ]

Deciding(v, decision) ==
    [ step |-> "decide_ready", agent |-> None, key |-> None, doc |-> None,
      number |-> 0, version |-> v, decision |-> decision ]

InQueue(v) == proposals[v].agent # None

(* The version was inserted by propose_draft.                              *)
FromAgent(v) == tasks[v] # None

(* UNIQUE (agent_id, idempotency_key) WHERE idempotency_key IS NOT NULL.   *)
KeyIsFree(a, k) ==
    k # None => \A v \in Version : InQueue(v) /\ proposals[v].agent = a
                                       => proposals[v].key # k

(* Mutant: the row is left to the default, a draft like any other.         *)
ProposedRowWithoutStatus(d, n, snapshot) == NewRow(d, n, snapshot)

(* The row propose_draft inserts.                                          *)
ProposedRow(d, n, snapshot) ==
    [ NewRow(d, n, snapshot) EXCEPT !.workflow_status = "proposed" ]

ASSUME NoneIsNoProposal ==
    None \notin Agent \cup IdempotencyKey \cup Decision \cup TaskState

-----------------------------------------------------------------------------
ProposalInit ==
    /\ Init
    /\ agents = [a \in Agent |-> "active"]
    /\ proposals = [v \in Version |-> NoProposal]
    /\ tasks = [v \in Version |-> None]
    /\ call = [r \in Request |-> NoCall]

Hang(r) == call' = [call EXCEPT ![r] = NoCall]

Free(r) == tx[r].step = "idle" /\ call[r].step = "idle"

TablesStay == UNCHANGED <<documents, versions, nodes, tx, agents, proposals, tasks>>

-----------------------------------------------------------------------------
(* propose_draft, from POST /agents/{agent_id}/propose-draft (no key) and  *)
(* from the MCP tool save_draft.                                           *)

(* _assert_agent_active, then _lookup_idempotent_proposal: a key that is   *)
(* taken answers with the proposal it names and changes nothing.           *)
ProposeCheck(r, a, k, d) ==
    /\ Free(r)
    /\ agents[a] = "active"
    /\ KeyIsFree(a, k)
    /\ call' = [call EXCEPT ![r] = Proposing(a, k, d)]
    /\ TablesStay

ProposeReadNumber(r) ==
    /\ call[r].step = "propose_checked"
    /\ \E n \in 1..MaxVersionNumber :
          /\ IsNextVersionNumber(call[r].doc, n)
          /\ call' = [call EXCEPT ![r].step = "propose_ready", ![r].number = n]
    /\ TablesStay

(* Mutant: the proposal becomes the draft of its document, as a save does. *)
ProposeInsertAsDraft(r, v, snapshot) ==
    /\ call[r].step = "propose_ready"
    /\ ~Exists(v)
    /\ agents[call[r].agent] # "deleted"
    /\ NumberIsFree(call[r].doc, call[r].number)
    /\ versions' = [versions EXCEPT ![v] =
                       ProposedRow(call[r].doc, call[r].number, snapshot)]
    /\ documents' = [documents EXCEPT ![call[r].doc].current_draft_version_id = v]
    /\ nodes' = RebuiltNodes(v, snapshot)
    /\ tasks' = [tasks EXCEPT ![v] = "input_required"]
    /\ proposals' = [proposals EXCEPT ![v] =
                        [ agent |-> call[r].agent, key |-> call[r].key,
                          status |-> "pending" ]]
    /\ Hang(r)
    /\ UNCHANGED <<tx, agents>>

(* The version, its nodes, its task and its row in the queue.              *)
ProposeInsert(r, v, snapshot) ==
    /\ call[r].step = "propose_ready"
    /\ ~Exists(v)
    /\ agents[call[r].agent] # "deleted"
    /\ NumberIsFree(call[r].doc, call[r].number)
    /\ KeyIsFree(call[r].agent, call[r].key)
    /\ NodeIdsAreFree(v, snapshot)
    /\ versions' = [versions EXCEPT ![v] =
                       ProposedRow(call[r].doc, call[r].number, snapshot)]
    /\ nodes' = RebuiltNodes(v, snapshot)
    /\ tasks' = [tasks EXCEPT ![v] = "input_required"]
    /\ proposals' = [proposals EXCEPT ![v] =
                        [ agent |-> call[r].agent, key |-> call[r].key,
                          status |-> "pending" ]]
    /\ Hang(r)
    /\ UNCHANGED <<documents, tx, agents>>

-----------------------------------------------------------------------------
(* approve_draft, reject_draft and withdraw_proposal, one at a time or in  *)
(* the batches of the admin's queue.                                       *)

(* The version must be "proposed"; a withdrawal comes from an active agent,*)
(* not necessarily the one that made the proposal.                         *)
DecideRead(r, v, decision) ==
    /\ Free(r)
    /\ versions[v].workflow_status = "proposed"
    /\ decision = "withdrawn" => \E a \in Agent : agents[a] = "active"
    /\ call' = [call EXCEPT ![r] = Deciding(v, decision)]
    /\ TablesStay

(* The version is updated unconditionally, the queue only where it is      *)
(* still pending and the task only where it still waits for input.         *)
DecideWrite(r) ==
    LET v == call[r].version  decision == call[r].decision IN
    /\ call[r].step = "decide_ready"
    /\ versions' = [versions EXCEPT ![v].workflow_status = decision]
    /\ proposals' = IF InQueue(v) /\ proposals[v].status = "pending"
                    THEN [proposals EXCEPT ![v].status = decision] ELSE proposals
    /\ tasks' = IF tasks[v] = "input_required"
                THEN [tasks EXCEPT ![v] = TaskAfter[decision]] ELSE tasks
    /\ Hang(r)
    /\ UNCHANGED <<documents, nodes, tx, agents>>

-----------------------------------------------------------------------------
(* Mutant: the version is forgotten.                                       *)
RollbackQueueOnly(r, v) ==
    /\ Free(r)
    /\ InQueue(v)
    /\ proposals[v].status \in {"approved", "rejected"}
    /\ proposals' = [proposals EXCEPT ![v].status = "pending"]
    /\ UNCHANGED <<documents, versions, nodes, tx, agents, tasks, call>>

(* batch_rollback of one row, locked by SELECT ... FOR UPDATE from the     *)
(* reading of its status to the commit.  The state "committed" it spares   *)
(* is not a state of a version, and the task is not touched.               *)
Rollback(r, v) ==
    /\ Free(r)
    /\ InQueue(v)
    /\ proposals[v].status \in {"approved", "rejected"}
    /\ proposals' = [proposals EXCEPT ![v].status = "pending"]
    /\ versions' = [versions EXCEPT ![v].workflow_status = "proposed"]
    /\ UNCHANGED <<documents, nodes, tx, agents, tasks, call>>

(* The kill switch, on and off: one statement, one transaction.            *)
SetKillSwitch(r, a, state) ==
    /\ Free(r)
    /\ agents[a] # "deleted"
    /\ agents[a] # state
    /\ agents' = [agents EXCEPT ![a] = state]
    /\ UNCHANGED <<documents, versions, nodes, tx, proposals, tasks, call>>

(* DELETE FROM agents: the queue rows go with it (ON DELETE CASCADE), the  *)
(* tasks and the versions stay.                                            *)
DeleteAgent(r, a) ==
    /\ Free(r)
    /\ agents[a] # "deleted"
    /\ agents' = [agents EXCEPT ![a] = "deleted"]
    /\ proposals' = [ v \in Version |-> IF proposals[v].agent = a THEN NoProposal
                                                                 ELSE proposals[v] ]
    /\ UNCHANGED <<documents, versions, nodes, tx, tasks, call>>

(* A violated key, a foreign key to a deleted agent, a deadlock or a lost  *)
(* connection rolls the call back.                                         *)
AbortCall(r) == call[r].step # "idle" /\ Hang(r) /\ TablesStay

(* A worker that serves a proposal call serves nothing else.               *)
ServeLifecycle ==
    /\ Serve
    /\ \A r \in Request : call[r].step # "idle" => tx'[r] = tx[r]
    /\ UNCHANGED proposalVars

(* The calls of a worker that stops roll back (AbortCall), the others go   *)
(* on beside the migration.                                                *)
RestartAll == Restart /\ UNCHANGED proposalVars

ProposalNext ==
    \/ ServeLifecycle
    \/ RestartAll
    \/ \E r \in Request :
          \/ \E a \in Agent, k \in IdempotencyKey \cup {None}, d \in Document :
                ProposeCheck(r, a, k, d)
          \/ ProposeReadNumber(r)
          \/ \E v \in Version, snapshot \in SUBSET NodeId : ProposeInsert(r, v, snapshot)
          \/ \E v \in Version, decision \in Decision : DecideRead(r, v, decision)
          \/ DecideWrite(r)
          \/ AbortCall(r)
          \/ \E v \in Version : Rollback(r, v)
          \/ \E a \in Agent, state \in {"active", "disabled"} : SetKillSwitch(r, a, state)
          \/ \E a \in Agent : DeleteAgent(r, a)

ProposalSpec == ProposalInit /\ [][ProposalNext]_allVars

-----------------------------------------------------------------------------
(* Every variable keeps to the columns of its table, those of              *)
(* VersionLifecycle included.                                              *)
ProposalTypeOK ==
    /\ TypeOK
    /\ agents \in [Agent -> AgentState]
    /\ proposals \in [Version -> ProposalRow]
    /\ tasks \in [Version -> TaskState \cup {None}]
    /\ call \in [Request -> Call]

(* An agent's key names one proposal at most, however its retries overlap  *)
(* (idempotent save_draft).                                                *)
KeysNameOneProposal ==
    \A v, w \in Version :
        /\ v # w
        /\ InQueue(v) /\ InQueue(w)
        /\ proposals[v].agent = proposals[w].agent
        /\ proposals[v].key # None
        => proposals[v].key # proposals[w].key

(* What an agent wrote is never published, by either way of publishing,    *)
(* before its proposal has been decided: the review cannot be by-passed,   *)
(* whatever overlaps.                                                      *)
NothingPublishedUndecided ==
    \A v \in Version : FromAgent(v) /\ versions[v].status = "published"
                           => tasks[v] # "input_required"

(* A proposal never takes the place of a human's draft: the draft pointer  *)
(* of a document never refers to an agent's version.                       *)
DraftIsNeverAProposal ==
    \A d \in Document : LET v == documents[d].current_draft_version_id IN
        v # None => ~FromAgent(v)

(* A row of the queue is decided once, and reopened only from an approval  *)
(* or a rejection: reviewers who overlap never overwrite one another's     *)
(* decision there, and a withdrawal stays.                                 *)
QueueRowsAreDecidedOnce ==
    [][\A v \in Version :
          InQueue(v) /\ proposals'[v].agent # None =>
              \/ proposals'[v].status = proposals[v].status
              \/ proposals[v].status = "pending"
              \/ /\ proposals[v].status \in {"approved", "rejected"}
                 /\ proposals'[v].status = "pending"]_allVars
=============================================================================
