----------------------------- MODULE Extractions -----------------------------
(***************************************************************************)
(* The review of extracted fields: the candidates of extraction_candidates *)
(* and the rows of approved_extractions that their approval adds           *)
(* (app/api/v1/extractions.py, app/api/v1/admin_extraction_results.py).    *)
(*                                                                         *)
(* A request is one READ COMMITTED transaction over a list of candidates:  *)
(* it reads each, adds a row when it approves, and updates the status, for *)
(* which it waits while another request has the candidate.  A request for  *)
(* one candidate fails with the first error.  A batch counts the candidate *)
(* as failed and goes on, although an error of the database has aborted    *)
(* its transaction, and COMMIT of that is a rollback.                      *)
(***************************************************************************)
EXTENDS FiniteSets, Integers, Sequences, SequencesExt

CONSTANTS Candidate,
          Blank,     \* candidates without a field
          Edit,      \* corrections a reviewer can make
          List,      \* the lists a batch can be sent
          MaxCall,   \* bound on the requests
          MaxFault,  \* bound on the statements that fail
          None       \* no request yet, no correction

ASSUME InputsAreCandidates ==
  Blank \subseteq Candidate /\ List \subseteq Seq(Candidate) /\ None \notin Edit
ASSUME BoundsAreNumbers == MaxCall \in Nat /\ MaxFault \in Nat

\* The requests, numbered as they arrive.
Call == 1..MaxCall

VARIABLES status,    \* extraction_candidates.status
          edits,     \* extraction_candidates.human_edits
          approved,  \* approved_extractions
          call,      \* Call -> its progress, or None
          faults     \* failures so far

vars == <<status, edits, approved, call, faults>>
tables == <<status, edits, approved>>

Begun(k) == call[k] # None
At(k, step) == Begun(k) /\ call[k].step = step
Active(k) == At(k, "looking") \/ At(k, "updating")
Decision(k) == CASE call[k].kind = "approve" -> "approved"
                 [] call[k].kind = "modify"  -> "modified"
                 [] call[k].kind = "reject"  -> "rejected"
Fault == faults < MaxFault /\ faults' = faults + 1

\* What k reads of a candidate: its own update, or what is committed.
Seen(k, c) == IF c \in call[k].decided THEN Decision(k) ELSE status[c]

\* k waits for a candidate that j has updated and not committed.
Waits(k, j) == /\ k # j /\ Active(j) /\ At(k, "updating")
               /\ Head(call[k].list) \in call[j].decided

\* PostgreSQL finds the requests that wait for each other.
Deadlocked(k) ==
  \E S \in SUBSET Call :
    /\ k \in S
    /\ \A i \in S : /\ \E j \in S : Waits(i, j)
                    /\ \E j \in S : Waits(j, i)

Rows(k) == {[call |-> k, cand |-> c, edits |-> call[k].edit] : c \in call[k].added}

-----------------------------------------------------------------------------
\* One request: of a reviewer or an administrator for one candidate, or a batch.
Begin(k, kind, edit, batch, list) ==
  LET others == {j \in Call : Begun(j) /\ Active(j)}
  IN  /\ ~Begun(k) /\ \A j \in 1..k - 1 : Begun(j)
      /\ call' = [j \in Call |->
                    CASE j = k -> [step |-> "looking", kind |-> kind, edit |-> edit,
                                   batch |-> batch, list |-> list, added |-> {},
                                   decided |-> {}, failed |-> {}, dead |-> FALSE,
                                   meets |-> others]
                      [] j \in others -> [call[j] EXCEPT !.meets = @ \cup {k}]
                      [] OTHER -> call[j]]
      /\ UNCHANGED <<tables, faults>>

\* The exception of one candidate ends the request, and is a failed id of a batch.
Refuse(k, added) ==
  call' = [call EXCEPT ![k] =
             IF ~@.batch THEN [@ EXCEPT !.step = "error"]
             ELSE [@ EXCEPT !.list = Tail(call[k].list), !.added = added,
                            !.failed = call[k].failed \cup {Head(call[k].list)}]]

\* Mutant: the status is updated before the row is added.
LookDecidesFirst(k) ==
  LET c     == Head(call[k].list)
      added == IF call[k].kind = "reject" THEN {} ELSE {c}
  IN  /\ At(k, "looking") /\ call[k].list # <<>>
      /\ CASE Seen(k, c) # "pending" -> Refuse(k, call[k].added)
           [] Seen(k, c) = "pending" /\ c \in Blank /\ call[k].kind = "approve" ->
                call' = [call EXCEPT ![k] =
                  IF ~@.batch THEN [@ EXCEPT !.step = "error"]
                  ELSE [@ EXCEPT !.list = Tail(@), !.failed = @ \cup {c},
                                 !.decided = @ \cup {c}]]
           [] OTHER -> call' = [call EXCEPT ![k].step = "updating",
                                            ![k].added = @ \cup added]
      /\ UNCHANGED <<tables, faults>>

\* Mutant: the status of the candidate is not looked at.
LookUnchecked(k) ==
  LET added == IF call[k].kind = "reject" THEN {} ELSE {Head(call[k].list)}
  IN  /\ At(k, "looking") /\ call[k].list # <<>>
      /\ IF Head(call[k].list) \in Blank /\ call[k].kind = "approve"
         THEN Refuse(k, call[k].added \cup added)
         ELSE call' = [call EXCEPT ![k].step = "updating",
                                   ![k].added = @ \cup added]
      /\ UNCHANGED <<tables, faults>>

\* Mutant: a batch comes back to a candidate that was decided before.
LookAgain(k) ==
  LET c     == Head(call[k].list)
      added == IF call[k].kind = "reject" THEN {} ELSE {c}
  IN  /\ At(k, "looking") /\ call[k].list # <<>>
      /\ CASE Seen(k, c) # "pending" ->
                call' = [call EXCEPT ![k] = IF ~@.batch THEN [@ EXCEPT !.step = "error"]
                                            ELSE [@ EXCEPT !.list = Append(Tail(@), c)]]
           [] Seen(k, c) = "pending" /\ c \in Blank /\ call[k].kind = "approve" ->
                Refuse(k, call[k].added \cup {c})
           [] OTHER -> call' = [call EXCEPT ![k].step = "updating",
                                            ![k].added = @ \cup added]
      /\ UNCHANGED <<tables, faults>>

\* Mutant: the row is added before the candidate is found decided.
LookAddsFirst(k) ==
  LET c     == Head(call[k].list)
      added == call[k].added \cup (IF call[k].kind = "reject" THEN {} ELSE {c})
  IN  /\ At(k, "looking") /\ call[k].list # <<>>
      /\ IF Seen(k, c) # "pending" \/ (c \in Blank /\ call[k].kind = "approve")
         THEN Refuse(k, added)
         ELSE call' = [call EXCEPT ![k].step = "updating", ![k].added = added]
      /\ UNCHANGED <<tables, faults>>

\* get_by_id of the next candidate and create of the approved row.  The row of
\* a candidate without fields is inserted before its model refuses it.
Look(k) ==
  LET c     == Head(call[k].list)
      added == IF call[k].kind = "reject" THEN {} ELSE {c}
  IN  /\ At(k, "looking") /\ call[k].list # <<>>
      /\ CASE Seen(k, c) # "pending" -> Refuse(k, call[k].added)
           [] Seen(k, c) = "pending" /\ c \in Blank /\ call[k].kind = "approve" ->
                Refuse(k, call[k].added \cup {c})
           [] OTHER -> call' = [call EXCEPT ![k].step = "updating",
                                            ![k].added = @ \cup added]
      /\ UNCHANGED <<tables, faults>>

\* update_status, when no other request has the row.  It looks at the id only.
Decide(k) ==
  /\ At(k, "updating") /\ \A j \in Call : ~Waits(k, j)
  /\ call' = [call EXCEPT ![k].step = "looking", ![k].list = Tail(@),
                          ![k].decided = @ \cup {Head(call[k].list)}]
  /\ UNCHANGED <<tables, faults>>

\* A statement fails: of the requests that wait for each other one is chosen.
StatementFails(k) ==
  /\ Active(k) /\ call[k].list # <<>>
  /\ IF Deadlocked(k) THEN UNCHANGED faults ELSE Fault
  /\ call' = [call EXCEPT ![k] =
                IF ~@.batch THEN [@ EXCEPT !.step = "error"]
                ELSE [@ EXCEPT !.step = "looking", !.list = <<>>, !.dead = TRUE,
                               !.failed = call[k].failed \cup ToSet(call[k].list)]]
  /\ UNCHANGED tables

\* The commit and the answer.
Finish(k) ==
  /\ At(k, "looking") /\ call[k].list = <<>>
  /\ call' = [call EXCEPT ![k].step = "answered"]
  /\ IF call[k].dead THEN UNCHANGED tables
     ELSE /\ status' = [c \in Candidate |->
                          IF c \in call[k].decided THEN Decision(k) ELSE status[c]]
          /\ edits' = [c \in Candidate |->
                         IF c \in call[k].decided THEN call[k].edit ELSE edits[c]]
          /\ approved' = approved \cup Rows(k)
  /\ UNCHANGED faults

\* Mutant: the answer does not wait for the commit.
AbortAnswers(k) ==
  /\ Active(k) /\ Fault
  /\ call' = [call EXCEPT ![k].step = IF call[k].list = <<>> THEN "answered" ELSE "error"]
  /\ UNCHANGED tables

\* The connection is lost or the commit fails: everything is rolled back.
Abort(k) ==
  /\ Active(k) /\ Fault
  /\ call' = [call EXCEPT ![k].step = "error"]
  /\ UNCHANGED tables

-----------------------------------------------------------------------------
\* Candidates are pending as ExtractionCandidateRepository.create adds them.
Init ==
  /\ status = [c \in Candidate |-> "pending"]
  /\ edits = [c \in Candidate |-> None]
  /\ approved = {} /\ call = [k \in Call |-> None] /\ faults = 0

Serve(k) == Look(k) \/ Decide(k) \/ Finish(k) \/ (Deadlocked(k) /\ StatementFails(k))

Next ==
  \/ \E k \in Call, c \in Candidate :
       \/ \E kind \in {"approve", "reject"} : Begin(k, kind, None, FALSE, <<c>>)
       \/ \E edit \in Edit : Begin(k, "modify", edit, FALSE, <<c>>)
  \/ \E k \in Call, kind \in {"approve", "reject"}, list \in List :
       Begin(k, kind, None, TRUE, list)
  \/ \E k \in Call : Look(k) \/ Decide(k) \/ StatementFails(k) \/ Finish(k) \/ Abort(k)

Spec == Init /\ [][Next]_vars

\* Requests run in threads of their own, and the database chooses one of those
\* that wait for each other.
FairSpec == Spec /\ \A k \in Call : WF_vars(Serve(k))

-----------------------------------------------------------------------------
Requests ==
  [step : {"looking", "updating", "answered", "error"},
   kind : {"approve", "modify", "reject"}, edit : Edit \cup {None}, batch : BOOLEAN,
   list : Seq(Candidate), added : SUBSET Candidate, decided : SUBSET Candidate,
   failed : SUBSET Candidate, dead : BOOLEAN, meets : SUBSET Call]

ASSUME NoneIsNoRequest == None \notin Requests

\* Every variable has its type.
TypeOK ==
  /\ status \in [Candidate -> {"pending", "approved", "modified", "rejected"}]
  /\ edits \in [Candidate -> Edit \cup {None}]
  /\ approved \subseteq [call : Call, cand : Candidate, edits : Edit \cup {None}]
  /\ call \in [Call -> Requests \cup {None}]
  /\ faults \in 0..MaxFault

\* An approved candidate has the row its decision added, with the corrections
\* the candidate shows, whatever other requests or failures came between.
ApprovalHasItsRow ==
  \A c \in Candidate : status[c] \in {"approved", "modified"} =>
    \E r \in approved : r.cand = c /\ r.edits = edits[c]

\* A candidate is decided once, unless the requests that decide it overlap:
\* both have read it as pending, and update_status does not look again.
DecidedOnceUnlessTogether ==
  \A k, j \in Call :
    (k # j /\ At(k, "answered") /\ At(j, "answered") /\ ~call[k].dead /\ ~call[j].dead
       /\ call[k].decided \cap call[j].decided # {})
    => j \in call[k].meets

\* A batch may leave the row of a blank candidate that it calls failed; every
\* other row is of a decision that was counted.
RowsAreCounted ==
  \A r \in approved : r.cand \in call[r.call].decided \/ r.cand \in Blank

\* An answer that names no failed candidate is true: what it counts is stored.
FullAnswersAreTrue ==
  \A k \in Call :
    (At(k, "answered") /\ call[k].failed = {} /\ call[k].kind # "reject") =>
      \A c \in call[k].decided : \E r \in approved : r.call = k /\ r.cand = c

\* Every request ends, those that wait for each other too, and a batch for every
\* list it is sent.
RequestsEnd == \A k \in Call : Begun(k) ~> ~Active(k)
=============================================================================
