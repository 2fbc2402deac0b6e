--------------------------- MODULE Extractions_proofs ---------------------------
(***************************************************************************)
(* Proofs about the review of extracted fields, for any candidates, any    *)
(* lists a batch can be sent, and any number of requests and failures.     *)
(***************************************************************************)
EXTENDS Extractions, TLAPS

USE InputsAreCandidates, NoneIsNoRequest, BoundsAreNumbers

LEMMA ListTyped ==
  ASSUME NEW s \in Seq(Candidate)
  PROVE  /\ s # <<>> => Head(s) \in Candidate /\ Tail(s) \in Seq(Candidate)
         /\ ToSet(s) \subseteq Candidate /\ (s # <<>> => ToSet(s) # {})
BY DEF ToSet

-----------------------------------------------------------------------------
\* What one step of a request does to its progress, from r to q.
Erred(r, q) ==
  /\ r.step \in {"looking", "updating"} /\ q.step = "error"
  /\ q.list = r.list /\ q.decided = r.decided /\ q.added = r.added
  /\ q.dead = r.dead /\ q.failed = r.failed

Skipped(r, q) ==
  /\ r.step = "looking" /\ r.list # <<>> /\ q.step = "looking"
  /\ q.list = Tail(r.list) /\ q.decided = r.decided /\ q.dead = r.dead
  /\ \/ q.added = r.added
     \/ q.added = r.added \cup {Head(r.list)} /\ Head(r.list) \in Blank /\ r.kind = "approve"

Looked(r, q) ==
  /\ r.step = "looking" /\ r.list # <<>> /\ q.step = "updating"
  /\ q.list = r.list /\ q.decided = r.decided /\ q.dead = r.dead
  /\ q.added = r.added \cup (IF r.kind = "reject" THEN {} ELSE {Head(r.list)})
  /\ status[Head(r.list)] = "pending"

Chose(r, q) ==
  /\ r.step = "updating" /\ q.step = "looking"
  /\ q.list = Tail(r.list) /\ q.decided = r.decided \cup {Head(r.list)}
  /\ q.added = r.added /\ q.dead = r.dead

Broke(r, q) ==
  /\ r.step \in {"looking", "updating"} /\ q.step = "looking"
  /\ q.list = <<>> /\ q.dead = TRUE /\ q.failed # {}
  /\ q.added = r.added /\ q.decided = r.decided

Worked(r, q) == \/ Erred(r, q) \/ Skipped(r, q) \/ Looked(r, q)
                \/ Chose(r, q) \/ Broke(r, q)

Closed(r, q) ==
  /\ r.step = "looking" /\ r.list = <<>> /\ q.step = "answered"
  /\ q.list = r.list /\ q.decided = r.decided /\ q.added = r.added
  /\ q.dead = r.dead /\ q.failed = r.failed

\* The progress of k, and of k alone, becomes q.
Becomes(k, q) ==
  /\ q \in Requests /\ call[k] \in Requests /\ call' = [call EXCEPT ![k] = q]
  /\ q.kind = call[k].kind /\ q.edit = call[k].edit /\ q.meets = call[k].meets

LEMMA LookWorks ==
  ASSUME TypeOK, NEW k \in Call, Look(k)
  PROVE  UNCHANGED tables /\ \E q : Becomes(k, q) /\ Worked(call[k], q)
<1> DEFINE r == call[k]
           c == Head(r.list)
<1>1. r \in Requests /\ r.step = "looking" /\ r.list # <<>>
  BY DEF Look, At, Begun, TypeOK
<1>2. c \in Candidate /\ Tail(r.list) \in Seq(Candidate) /\ r.list \in Seq(Candidate)
  BY <1>1, ListTyped DEF Requests
<1>3. UNCHANGED tables
  BY DEF Look
<1>4. CASE ~(Seen(k, c) = "pending" /\ ~(c \in Blank /\ r.kind = "approve"))
  <2>0. PICK added : /\ \/ added = r.added
                        \/ added = r.added \cup {c} /\ c \in Blank /\ r.kind = "approve"
                     /\ Refuse(k, added)
    <3>1. CASE Seen(k, c) # "pending"
      <4>1. Refuse(k, r.added)
        BY <3>1 DEF Look
      <4> QED BY <4>1
    <3>2. CASE Seen(k, c) = "pending" /\ c \in Blank /\ r.kind = "approve"
      <4>1. Refuse(k, r.added \cup {c})
        BY <3>2 DEF Look
      <4> QED BY <3>2, <4>1
    <3> QED BY <1>4, <3>1, <3>2
  <2>1. CASE ~r.batch
    <3> DEFINE q == [r EXCEPT !.step = "error"]
    <3>1. call' = [call EXCEPT ![k] = q]
      BY <2>0, <2>1 DEF Refuse
    <3>2. /\ q \in Requests /\ q.step = "error"
          /\ q.kind = r.kind /\ q.edit = r.edit /\ q.meets = r.meets
          /\ q.list = r.list /\ q.decided = r.decided /\ q.added = r.added
          /\ q.dead = r.dead /\ q.failed = r.failed
      BY <1>1 DEF Requests
    <3> HIDE DEF q
    <3> QED BY <1>1, <1>3, <3>1, <3>2 DEF Becomes, Worked, Erred
  <2>2. CASE r.batch
    <3> DEFINE q == [r EXCEPT !.list = Tail(r.list), !.added = added,
                              !.failed = r.failed \cup {Head(r.list)}]
    <3>1. call' = [call EXCEPT ![k] = q]
      BY <2>0, <2>2 DEF Refuse
    <3>2. /\ q \in Requests
          /\ q.kind = r.kind /\ q.edit = r.edit /\ q.meets = r.meets
          /\ q.step = r.step /\ q.list = Tail(r.list) /\ q.decided = r.decided
          /\ q.dead = r.dead /\ q.added = added
      BY <1>1, <1>2, <2>0 DEF Requests
    <3> HIDE DEF q
    <3> QED BY <1>1, <1>3, <2>0, <3>1, <3>2 DEF Becomes, Worked, Skipped
  <2> QED BY <1>3, <2>1, <2>2
<1>5. CASE Seen(k, c) = "pending" /\ ~(c \in Blank /\ r.kind = "approve")
  <2> DEFINE new == IF r.kind = "reject" THEN {} ELSE {c}
             q == [r EXCEPT !.step = "updating", !.added = @ \cup new]
  <2>1. call' = [call EXCEPT ![k].step = "updating", ![k].added = @ \cup new]
    BY <1>5 DEF Look
  <2>2. call' = [call EXCEPT ![k] = q]
    BY <2>1 DEF TypeOK
  <2>3. /\ q \in Requests
        /\ q.kind = r.kind /\ q.edit = r.edit /\ q.meets = r.meets
        /\ q.step = "updating" /\ q.list = r.list /\ q.decided = r.decided
        /\ q.dead = r.dead /\ q.added = r.added \cup new
    BY <1>1, <1>2 DEF Requests
  <2>4. status[c] = "pending"
    BY <1>1, <1>5 DEF Seen, Decision, Requests
  <2> HIDE DEF q
  <2>5. Becomes(k, q)
    BY <1>1, <2>2, <2>3 DEF Becomes
  <2>6. Looked(r, q)
    BY <1>1, <2>3, <2>4 DEF Looked
  <2> QED BY <1>3, <2>5, <2>6 DEF Worked
<1> QED BY <1>3, <1>4, <1>5

LEMMA DecideWorks ==
  ASSUME TypeOK, NEW k \in Call, Decide(k), call[k].list # <<>>
  PROVE  UNCHANGED tables /\ \E q : Becomes(k, q) /\ Worked(call[k], q)
<1> DEFINE r == call[k]
           q == [r EXCEPT !.step = "looking", !.list = Tail(@),
                          !.decided = @ \cup {Head(r.list)}]
<1>1. r \in Requests /\ r.step = "updating"
  BY DEF Decide, At, Begun, TypeOK
<1>2. Head(r.list) \in Candidate /\ Tail(r.list) \in Seq(Candidate)
  BY <1>1, ListTyped DEF Requests
<1>3. call' = [call EXCEPT ![k].step = "looking", ![k].list = Tail(@),
                           ![k].decided = @ \cup {Head(call[k].list)}]
      /\ UNCHANGED tables
  BY DEF Decide
<1>4. call' = [call EXCEPT ![k] = q]
  BY <1>3 DEF TypeOK
<1>5. /\ q \in Requests
      /\ q.kind = r.kind /\ q.edit = r.edit /\ q.meets = r.meets
      /\ q.step = "looking" /\ q.list = Tail(r.list)
      /\ q.decided = r.decided \cup {Head(r.list)}
      /\ q.dead = r.dead /\ q.added = r.added
  BY <1>1, <1>2 DEF Requests
<1> HIDE DEF q
<1> QED BY <1>1, <1>3, <1>4, <1>5 DEF Becomes, Worked, Chose

LEMMA FailureWorks ==
  ASSUME TypeOK, NEW k \in Call, StatementFails(k) \/ Abort(k)
  PROVE  UNCHANGED tables /\ \E q : Becomes(k, q) /\ Worked(call[k], q)
<1> DEFINE r == call[k]
           e == [r EXCEPT !.step = "error"]
           q == [r EXCEPT !.step = "looking", !.list = <<>>, !.dead = TRUE,
                          !.failed = r.failed \cup ToSet(r.list)]
<1>1. r \in Requests /\ r.step \in {"looking", "updating"} /\ r.list \in Seq(Candidate)
  BY DEF StatementFails, Abort, Active, At, Begun, TypeOK, Requests
<1>2. UNCHANGED tables
  BY DEF StatementFails, Abort
<1>3. /\ e \in Requests /\ e.step = "error"
      /\ e.kind = r.kind /\ e.edit = r.edit /\ e.meets = r.meets
      /\ e.list = r.list /\ e.decided = r.decided /\ e.added = r.added
      /\ e.dead = r.dead /\ e.failed = r.failed
  BY <1>1 DEF Requests
<1>4. CASE Abort(k)
  <2>1. call' = [call EXCEPT ![k] = e]
    BY <1>4 DEF Abort, TypeOK
  <2> HIDE DEF e
  <2> QED BY <1>1, <1>2, <1>3, <2>1 DEF Becomes, Worked, Erred
<1>5. CASE StatementFails(k) /\ ~r.batch
  <2>1. call' = [call EXCEPT ![k] = e]
    BY <1>5 DEF StatementFails, TypeOK
  <2> HIDE DEF e
  <2> QED BY <1>1, <1>2, <1>3, <2>1 DEF Becomes, Worked, Erred
<1>6. CASE StatementFails(k) /\ r.batch
  <2>1. call' = [call EXCEPT ![k] = q] /\ r.list # <<>>
    BY <1>6 DEF StatementFails, TypeOK
  <2>2. ToSet(r.list) \subseteq Candidate /\ ToSet(r.list) # {}
    BY <1>1, <2>1, ListTyped
  <2>3. /\ q \in Requests
        /\ q.kind = r.kind /\ q.edit = r.edit /\ q.meets = r.meets
        /\ q.step = "looking" /\ q.list = <<>> /\ q.dead = TRUE
        /\ q.failed = r.failed \cup ToSet(r.list)
        /\ q.added = r.added /\ q.decided = r.decided
    <3>1. r.failed \cup ToSet(r.list) \subseteq Candidate /\ <<>> \in Seq(Candidate)
      BY <1>1, <2>2 DEF Requests
    <3> HIDE DEF r
    <3> QED BY <1>1, <3>1 DEF Requests
  <2>4. q.failed # {}
    BY <2>2, <2>3
  <2> HIDE DEF q
  <2> QED BY <1>1, <1>2, <2>1, <2>3, <2>4 DEF Becomes, Worked, Broke
<1> QED BY <1>4, <1>5, <1>6

LEMMA FinishCloses ==
  ASSUME TypeOK, NEW k \in Call, Finish(k)
  PROVE  \E q : Becomes(k, q) /\ Closed(call[k], q)
<1> DEFINE r == call[k]
           q == [r EXCEPT !.step = "answered"]
<1>1. r \in Requests /\ r.step = "looking" /\ r.list = <<>>
  BY DEF Finish, At, Begun, TypeOK
<1>2. call' = [call EXCEPT ![k] = q]
  BY DEF Finish, TypeOK
<1>3. /\ q \in Requests
      /\ q.kind = r.kind /\ q.edit = r.edit /\ q.meets = r.meets
      /\ q.step = "answered" /\ q.list = r.list /\ q.decided = r.decided
      /\ q.dead = r.dead /\ q.added = r.added /\ q.failed = r.failed
  BY <1>1 DEF Requests
<1> HIDE DEF q
<1> QED BY <1>1, <1>2, <1>3 DEF Becomes, Closed

-----------------------------------------------------------------------------
\* What a request has added and decided, while it may still commit.
Steady(r) ==
  /\ r.kind = "reject" => r.added = {}
  /\ r.kind # "reject" => r.decided \subseteq r.added
  /\ r.dead => r.failed # {} /\ r.list = <<>> /\ r.step # "updating"
  /\ r.step = "updating" => /\ r.list # <<>>
                            /\ r.kind # "reject" => Head(r.list) \in r.added
  /\ ~r.dead /\ r.step # "error" =>
       r.added \subseteq r.decided \cup Blank
                         \cup (IF r.step = "updating" THEN {Head(r.list)} ELSE {})

AllSteady == \A k \in Call : Begun(k) => Steady(call[k])

\* Committed requests and the tables.
Committed(k) == At(k, "answered") /\ ~call[k].dead

Stored == \A k \in Call : Committed(k) =>
            Rows(k) \subseteq approved /\ \A c \in call[k].decided : status[c] # "pending"

Sourced == \A r \in approved :
             Committed(r.call) /\ r.cand \in call[r.call].added

\* Two requests one of which had ended before the other began.
Apart(k, j) ==
  /\ k \notin call[j].meets
  /\ ~(Active(k) /\ Active(j))
  /\ ~call[k].dead /\ ~call[j].dead /\ ~At(k, "error") /\ ~At(j, "error") =>
       call[k].decided \cap call[j].decided = {}
  /\ At(j, "updating") /\ Committed(k) => Head(call[j].list) \notin call[k].decided

AllApart == \A k, j \in Call :
              k # j /\ Begun(k) /\ Begun(j) /\ j \notin call[k].meets => Apart(k, j)

Met == \A k \in Call : Begun(k) => \A j \in call[k].meets : Begun(j)

ReviewInv == /\ AllSteady /\ Met /\ Stored /\ Sourced /\ ApprovalHasItsRow /\ AllApart

LEMMA InitHolds == Init => TypeOK /\ ReviewInv
<1> SUFFICES ASSUME Init PROVE TypeOK /\ ReviewInv
  OBVIOUS
<1>1. TypeOK
  BY DEF Init, TypeOK
<1>2. \A k \in Call : ~Begun(k)
  BY DEF Init, Begun
<1>3. AllSteady /\ Met /\ Stored /\ AllApart
  BY <1>2 DEF AllSteady, Met, Stored, AllApart, Committed, At
<1>4. Sourced /\ ApprovalHasItsRow
  BY DEF Init, Sourced, ApprovalHasItsRow
<1> QED BY <1>1, <1>3, <1>4 DEF ReviewInv

LEMMA WorkIsSteady ==
  ASSUME NEW r \in Requests, NEW q \in Requests, q.kind = r.kind, Steady(r),
         Worked(r, q) \/ Closed(r, q)
  PROVE  Steady(q)
<1>1. CASE Erred(r, q)
  BY <1>1 DEF Erred, Steady
<1>2. CASE Skipped(r, q)
  BY <1>2 DEF Skipped, Steady
<1>3. CASE Looked(r, q)
  BY <1>3 DEF Looked, Steady
<1>4. CASE Chose(r, q)
  BY <1>4 DEF Chose, Steady
<1>5. CASE Broke(r, q)
  BY <1>5 DEF Broke, Steady
<1>6. CASE Closed(r, q)
  BY <1>6 DEF Closed, Steady
<1> QED BY <1>1, <1>2, <1>3, <1>4, <1>5, <1>6 DEF Worked

\* The other requests are as they were; k has become q.
LEMMA OthersStay ==
  ASSUME TypeOK, NEW k \in Call, NEW q, Becomes(k, q)
  PROVE  /\ call' \in [Call -> Requests \cup {None}] /\ call'[k] = q
         /\ \A j \in Call \ {k} : call'[j] = call[j]
         /\ \A j \in Call : Begun(j)' <=> Begun(j)
         /\ Begun(k) /\ call[k] \in Requests /\ q \in Requests
         /\ \A j \in Call : Begun(j) => call[j] \in Requests
BY DEF TypeOK, Becomes, Begun

LEMMA WorkDecides ==
  ASSUME NEW r \in Requests, NEW q \in Requests, Worked(r, q), ~q.dead, q.step # "error"
  PROVE  /\ ~r.dead
         /\ \/ q.decided = r.decided
            \/ r.step = "updating" /\ q.decided = r.decided \cup {Head(r.list)}
<1>1. ~Erred(r, q) /\ ~Broke(r, q)
  BY DEF Erred, Broke
<1>2. CASE Skipped(r, q) \/ Looked(r, q)
  <2>1. q.dead = r.dead /\ q.decided = r.decided
    BY <1>2 DEF Skipped, Looked
  <2> QED BY <2>1
<1>3. CASE Chose(r, q)
  <2>1. q.dead = r.dead /\ r.step = "updating" /\ q.decided = r.decided \cup {Head(r.list)}
    BY <1>3 DEF Chose
  <2> QED BY <2>1
<1> QED BY <1>1, <1>2, <1>3 DEF Worked

\* A request that is under way and does not commit.
LEMMA WorkHolds ==
  ASSUME TypeOK, ReviewInv, NEW k \in Call, NEW q, Becomes(k, q), Worked(call[k], q),
         UNCHANGED tables
  PROVE  ReviewInv'
<1> DEFINE r == call[k]
<1>1. /\ call' \in [Call -> Requests \cup {None}] /\ call'[k] = q
      /\ \A j \in Call \ {k} : call'[j] = call[j]
      /\ \A j \in Call : Begun(j)' <=> Begun(j)
      /\ Begun(k) /\ r \in Requests /\ q \in Requests
      /\ \A j \in Call : Begun(j) => call[j] \in Requests
  BY OthersStay
<1>2. q.kind = r.kind /\ q.edit = r.edit /\ q.meets = r.meets
  BY DEF Becomes
<1>3. status' = status /\ edits' = edits /\ approved' = approved
  BY DEF tables
<1>4. AllSteady'
  <2>1. Steady(q)
    BY <1>1, <1>2, WorkIsSteady DEF ReviewInv, AllSteady
  <2> QED BY <1>1, <2>1 DEF ReviewInv, AllSteady, Steady
<1>14. Met'
  <2>1. \A j \in Call : Begun(j) => call'[j].meets = call[j].meets
    BY <1>1, <1>2
  <2> QED BY <1>1, <2>1 DEF ReviewInv, Met, Requests
<1>5. r.step \in {"looking", "updating"} /\ q.step \in {"looking", "updating", "error"}
  BY DEF Worked, Erred, Skipped, Looked, Chose, Broke
<1>6. \A j \in Call : Committed(j)' <=> (Committed(j) /\ j # k)
  BY <1>1, <1>5 DEF Committed, At, Begun
<1>7. \A j \in Call : Committed(j) => j # k
  BY <1>5 DEF Committed, At
<1>8. Stored'
  BY <1>1, <1>3, <1>6 DEF ReviewInv, Stored, Rows
<1>9. Sourced'
  <2> SUFFICES ASSUME NEW a \in approved
               PROVE  Committed(a.call)' /\ a.cand \in call'[a.call].added
    BY <1>3 DEF Sourced
  <2>1. a.call \in Call
    BY DEF TypeOK
  <2> QED BY <1>1, <1>6, <1>7, <2>1 DEF ReviewInv, Sourced
<1>10. ApprovalHasItsRow'
  BY <1>3 DEF ReviewInv, ApprovalHasItsRow
<1>11. Active(k) /\ \A j \in Call : Active(j)' => Active(j)
  BY <1>1, <1>5 DEF Active, At, Begun
<1>12. ~q.dead /\ q.step # "error" =>
         /\ ~r.dead
         /\ \/ q.decided = r.decided
            \/ r.step = "updating" /\ q.decided = r.decided \cup {Head(r.list)}
  BY <1>1, WorkDecides
<1>13. AllApart'
  <2> SUFFICES ASSUME NEW i \in Call, NEW j \in Call, i # j, Begun(i), Begun(j),
                      j \notin call'[i].meets
               PROVE  Apart(i, j)'
    BY <1>1 DEF AllApart
  <2>1. j \notin call[i].meets
    BY <1>1, <1>2
  <2>2. Apart(i, j)
    BY <2>1 DEF ReviewInv, AllApart
  <2>3. Apart(j, i)
    BY <2>2 DEF ReviewInv, AllApart, Apart
  <2>4. CASE i # k /\ j # k
    BY <1>1, <2>2, <2>4 DEF Apart, Active, Committed, At, Begun
  <2>5. CASE i = k
    <3>1. ~Active(j)
      BY <1>11, <2>2, <2>5 DEF Apart
    <3>2. i \notin call'[j].meets /\ ~(Active(i)' /\ Active(j)')
      BY <1>1, <1>11, <2>2, <2>5, <3>1 DEF Apart
    <3>3. ~(At(j, "updating")' /\ Committed(i)')
      BY <1>6, <2>5
    <3>4. ASSUME ~q.dead, ~call[j].dead, q.step # "error", ~At(j, "error")
          PROVE  q.decided \cap call[j].decided = {}
      <4>1. Committed(j)
        <5>1. call[j].step = "answered"
          BY <1>1, <3>1, <3>4 DEF Active, At, Requests
        <5> QED BY <3>4, <5>1 DEF Committed, At
      <4>2. r.decided \cap call[j].decided = {} \/ r.dead
        BY <1>5, <2>2, <2>5, <3>4 DEF Apart, At
      <4>3. /\ ~r.dead
            /\ \/ q.decided = r.decided
               \/ r.step = "updating" /\ q.decided = r.decided \cup {Head(r.list)}
        BY <1>12, <3>4
      <4>4. r.step = "updating" => Head(r.list) \notin call[j].decided
        BY <1>1, <2>3, <2>5, <4>1 DEF Apart, At
      <4> QED BY <4>2, <4>3, <4>4
    <3> QED BY <1>1, <2>5, <3>2, <3>3, <3>4 DEF Apart, At, Begun
  <2>6. CASE j = k
    <3>1. ~Active(i)
      BY <1>11, <2>2, <2>6 DEF Apart
    <3>2. i \notin call'[j].meets /\ ~(Active(i)' /\ Active(j)')
      BY <1>1, <1>2, <1>11, <2>2, <2>6, <3>1 DEF Apart
    <3>3. ASSUME q.step = "updating", Committed(i)
          PROVE  Head(q.list) \notin call[i].decided
      <4>1. q.list = r.list /\ status[Head(r.list)] = "pending"
        BY <1>5, <3>3 DEF Worked, Erred, Skipped, Looked, Chose, Broke
      <4> QED BY <3>3, <4>1 DEF ReviewInv, Stored
    <3>4. ASSUME ~q.dead, ~call[i].dead, q.step # "error", ~At(i, "error")
          PROVE  call[i].decided \cap q.decided = {}
      <4>1. Committed(i)
        <5>1. call[i].step = "answered"
          BY <1>1, <3>1, <3>4 DEF Active, At, Requests
        <5> QED BY <3>4, <5>1 DEF Committed, At
      <4>2. r.decided \cap call[i].decided = {} \/ r.dead
        BY <1>5, <2>2, <2>6, <3>4 DEF Apart, At
      <4>3. /\ ~r.dead
            /\ \/ q.decided = r.decided
               \/ r.step = "updating" /\ q.decided = r.decided \cup {Head(r.list)}
        BY <1>12, <3>4
      <4>4. r.step = "updating" => Head(r.list) \notin call[i].decided
        BY <1>1, <2>2, <2>6, <4>1 DEF Apart, At
      <4> QED BY <4>2, <4>3, <4>4
    <3> QED BY <1>1, <1>6, <2>6, <3>2, <3>3, <3>4 DEF Apart, At, Begun
  <2> QED BY <2>4, <2>5, <2>6
<1> QED BY <1>4, <1>8, <1>9, <1>10, <1>13, <1>14 DEF ReviewInv

\* The commit, or the end of a batch whose transaction was aborted before.
LEMMA FinishHolds ==
  ASSUME TypeOK, ReviewInv, NEW k \in Call, Finish(k)
  PROVE  ReviewInv'
<1> DEFINE r == call[k]
<1>0. PICK q : Becomes(k, q) /\ Closed(r, q)
  BY FinishCloses
<1>1. /\ call' \in [Call -> Requests \cup {None}] /\ call'[k] = q
      /\ \A j \in Call \ {k} : call'[j] = call[j]
      /\ \A j \in Call : Begun(j)' <=> Begun(j)
      /\ Begun(k) /\ r \in Requests /\ q \in Requests
      /\ \A j \in Call : Begun(j) => call[j] \in Requests
  BY <1>0, OthersStay
<1>2. /\ q.kind = r.kind /\ q.edit = r.edit /\ q.meets = r.meets
      /\ r.step = "looking" /\ q.step = "answered"
      /\ q.decided = r.decided /\ q.added = r.added /\ q.dead = r.dead
  BY <1>0 DEF Becomes, Closed
<1>3. Steady(q) /\ Steady(r)
  BY <1>0, <1>1, <1>2, WorkIsSteady DEF ReviewInv, AllSteady
<1>4. AllSteady'
  BY <1>1, <1>3 DEF ReviewInv, AllSteady, Steady
<1>10. Met'
  <2>1. \A j \in Call : Begun(j) => call'[j].meets = call[j].meets
    BY <1>1, <1>2
  <2> QED BY <1>1, <2>1 DEF ReviewInv, Met, Requests
<1>5. Decision(k) \in {"approved", "modified", "rejected"}
      /\ (Decision(k) = "rejected" <=> r.kind = "reject")
  BY <1>1 DEF Decision, Requests
<1>6. ASSUME r.dead PROVE Stored' /\ Sourced' /\ ApprovalHasItsRow'
  <2>1. UNCHANGED tables
    BY <1>6 DEF Finish
  <2>2. status' = status /\ edits' = edits /\ approved' = approved
    BY <2>1 DEF tables
  <2>3. \A j \in Call : Committed(j)' <=> (Committed(j) /\ j # k)
    BY <1>1, <1>2, <1>6 DEF Committed, At, Begun
  <2>4. \A j \in Call : Committed(j) => j # k
    BY <1>2 DEF Committed, At
  <2>5. Stored'
    BY <1>1, <2>2, <2>3 DEF ReviewInv, Stored, Rows
  <2>6. Sourced'
    <3> SUFFICES ASSUME NEW a \in approved
                 PROVE  Committed(a.call)' /\ a.cand \in call'[a.call].added
      BY <2>2 DEF Sourced
    <3>1. a.call \in Call
      BY DEF TypeOK
    <3> QED BY <1>1, <2>3, <2>4, <3>1 DEF ReviewInv, Sourced
  <2>7. ApprovalHasItsRow'
    BY <2>2 DEF ReviewInv, ApprovalHasItsRow
  <2> QED BY <2>5, <2>6, <2>7
<1>7. ASSUME ~r.dead PROVE Stored' /\ Sourced' /\ ApprovalHasItsRow'
  <2>1. /\ status' = [c \in Candidate |-> IF c \in r.decided THEN Decision(k) ELSE status[c]]
        /\ edits' = [c \in Candidate |-> IF c \in r.decided THEN r.edit ELSE edits[c]]
        /\ approved' = approved \cup Rows(k)
    BY <1>7 DEF Finish
  <2>2. \A j \in Call : Committed(j)' <=> (Committed(j) \/ j = k)
    BY <1>1, <1>2, <1>7 DEF Committed, At, Begun
  <2>3. \A j \in Call : Rows(j)' = Rows(j)
    BY <1>1, <1>2 DEF Rows
  <2>4. \A c \in Candidate : status[c] # "pending" => status'[c] # "pending"
    BY <1>5, <2>1
  <2>5. Stored'
    <3> SUFFICES ASSUME NEW j \in Call, Committed(j)'
                 PROVE  Rows(j)' \subseteq approved'
                        /\ \A c \in call'[j].decided : status'[c] # "pending"
      BY DEF Stored
    <3>1. CASE j = k
      <4>1. Rows(j)' \subseteq approved'
        BY <2>1, <2>3, <3>1
      <4>2. r.decided \subseteq Candidate /\ call'[j].decided = r.decided
        BY <1>1, <1>2, <3>1 DEF Requests
      <4>3. \A c \in r.decided : status'[c] = Decision(k)
        BY <2>1, <4>2
      <4> QED BY <1>5, <4>1, <4>2, <4>3
    <3>2. CASE j # k
      <4>1. Committed(j) /\ call'[j] = call[j] /\ call[j] \in Requests
        BY <1>1, <2>2, <3>2 DEF Committed, At
      <4>2. Rows(j)' \subseteq approved'
        BY <2>1, <2>3, <4>1 DEF ReviewInv, Stored
      <4>3. call[j].decided \subseteq Candidate
        BY <4>1 DEF Requests
      <4> QED BY <2>4, <4>1, <4>2, <4>3 DEF ReviewInv, Stored
    <3> QED BY <3>1, <3>2
  <2>6. Sourced'
    <3> SUFFICES ASSUME NEW a \in approved'
                 PROVE  Committed(a.call)' /\ a.cand \in call'[a.call].added
      BY DEF Sourced
    <3>1. CASE a \in approved
      <4>1. a.call \in Call
        BY <3>1 DEF TypeOK
      <4> QED BY <1>1, <1>2, <2>2, <3>1, <4>1 DEF ReviewInv, Sourced
    <3>2. CASE a \in Rows(k)
      <4>1. a.call = k /\ a.cand \in r.added
        BY <3>2 DEF Rows
      <4> QED BY <1>1, <1>2, <2>2, <4>1
    <3> QED BY <2>1, <3>1, <3>2
  <2>7. ApprovalHasItsRow'
    <3> SUFFICES ASSUME NEW c \in Candidate, status'[c] \in {"approved", "modified"}
                 PROVE  \E a \in approved' : a.cand = c /\ a.edits = edits'[c]
      BY DEF ApprovalHasItsRow
    <3>1. CASE c \in r.decided
      <4>1. status'[c] = Decision(k) /\ edits'[c] = r.edit
        BY <2>1, <3>1
      <4>2. c \in r.added
        BY <1>3, <1>5, <3>1, <4>1 DEF Steady
      <4>3. [call |-> k, cand |-> c, edits |-> r.edit] \in Rows(k)
        BY <4>2 DEF Rows
      <4> QED BY <2>1, <4>1, <4>3
    <3>2. CASE c \notin r.decided
      <4>1. status'[c] = status[c] /\ edits'[c] = edits[c]
        BY <2>1, <3>2
      <4> QED BY <2>1, <4>1 DEF ReviewInv, ApprovalHasItsRow
    <3> QED BY <3>1, <3>2
  <2> QED BY <2>5, <2>6, <2>7
<1>8. Stored' /\ Sourced' /\ ApprovalHasItsRow'
  BY <1>6, <1>7
<1>9. AllApart'
  <2> SUFFICES ASSUME NEW i \in Call, NEW j \in Call, i # j, Begun(i), Begun(j),
                      j \notin call'[i].meets
               PROVE  Apart(i, j)'
    BY <1>1 DEF AllApart
  <2>1. j \notin call[i].meets
    BY <1>1, <1>2
  <2>2. Apart(i, j) /\ Active(k)
    BY <1>1, <1>2, <2>1 DEF ReviewInv, AllApart, Active, At
  <2>3. i \notin call'[j].meets
    BY <1>1, <1>2, <2>2 DEF Apart
  <2>4. ~(Active(i)' /\ Active(j)')
    BY <1>1, <1>2, <2>2 DEF Apart, Active, At, Begun
  <2>5. ~call'[i].dead /\ ~call'[j].dead /\ ~At(i, "error")' /\ ~At(j, "error")' =>
          call'[i].decided \cap call'[j].decided = {}
    BY <1>1, <1>2, <2>2 DEF Apart, At, Begun
  <2>6. At(j, "updating")' /\ Committed(i)' => Head(call'[j].list) \notin call'[i].decided
    <3>1. CASE i # k /\ j # k
      BY <1>1, <2>2, <3>1 DEF Apart, Committed, At, Begun
    <3>2. CASE j = k
      BY <1>1, <1>2, <3>2 DEF At
    <3>3. CASE i = k
      BY <1>1, <2>2, <3>3 DEF Apart, Active, At, Begun
    <3> QED BY <3>1, <3>2, <3>3
  <2> QED BY <2>3, <2>4, <2>5, <2>6 DEF Apart
<1> QED BY <1>4, <1>8, <1>9, <1>10 DEF ReviewInv

\* A new request meets those that are under way.
LEMMA BeginHolds ==
  ASSUME TypeOK, ReviewInv, NEW k \in Call, NEW kind \in {"approve", "modify", "reject"},
         NEW edit \in Edit \cup {None}, NEW batch \in BOOLEAN, NEW list \in Seq(Candidate),
         Begin(k, kind, edit, batch, list)
  PROVE  TypeOK' /\ ReviewInv'
<1> DEFINE others == {j \in Call : Begun(j) /\ Active(j)}
           new == [step |-> "looking", kind |-> kind, edit |-> edit,
                   batch |-> batch, list |-> list, added |-> {},
                   decided |-> {}, failed |-> {}, dead |-> FALSE, meets |-> others]
           grown(j) == [call[j] EXCEPT !.meets = @ \cup {k}]
<1>1. ~Begun(k) /\ k \notin others
      /\ call' = [j \in Call |-> CASE j = k -> new [] j \in others -> grown(j)
                                   [] OTHER -> call[j]]
  BY DEF Begin
<1>2. /\ new \in Requests /\ new.step = "looking" /\ new.added = {} /\ new.decided = {}
      /\ new.dead = FALSE /\ new.meets = others /\ new.kind = kind
  BY DEF Requests
<1>3. \A j \in Call : Begun(j) => call[j] \in Requests
  BY DEF TypeOK, Begun
<1>4. \A j \in others : LET g == grown(j)
        IN  /\ g \in Requests /\ g.meets = call[j].meets \cup {k}
            /\ g.step = call[j].step /\ g.kind = call[j].kind /\ g.list = call[j].list
            /\ g.added = call[j].added /\ g.decided = call[j].decided
            /\ g.failed = call[j].failed /\ g.dead = call[j].dead /\ g.edit = call[j].edit
  BY <1>3, SMTT(30) DEF Requests
<1> HIDE DEF new, grown
<1>5. /\ call'[k] = new
      /\ \A j \in others : call'[j] = grown(j)
      /\ \A j \in Call : j # k /\ j \notin others => call'[j] = call[j]
  BY <1>1
<1>6. status' = status /\ edits' = edits /\ approved' = approved
      /\ faults' = faults
  BY DEF Begin, tables
<1>7. TypeOK'
  <2>1. \A j \in Call : call'[j] \in Requests \cup {None}
    BY <1>2, <1>4, <1>5 DEF TypeOK
  <2> QED BY <1>1, <1>6, <2>1 DEF TypeOK
<1>8. \A j \in Call \ {k} :
        /\ Begun(j)' <=> Begun(j)
        /\ call'[j].step = call[j].step /\ call'[j].kind = call[j].kind
        /\ call'[j].list = call[j].list /\ call'[j].added = call[j].added
        /\ call'[j].decided = call[j].decided /\ call'[j].failed = call[j].failed
        /\ call'[j].dead = call[j].dead /\ call'[j].edit = call[j].edit
        /\ call'[j].meets = call[j].meets \cup (IF j \in others THEN {k} ELSE {})
  <2> SUFFICES ASSUME NEW j \in Call \ {k} PROVE
        /\ Begun(j)' <=> Begun(j)
        /\ call'[j].step = call[j].step /\ call'[j].kind = call[j].kind
        /\ call'[j].list = call[j].list /\ call'[j].added = call[j].added
        /\ call'[j].decided = call[j].decided /\ call'[j].failed = call[j].failed
        /\ call'[j].dead = call[j].dead /\ call'[j].edit = call[j].edit
        /\ call'[j].meets = call[j].meets \cup (IF j \in others THEN {k} ELSE {})
    OBVIOUS
  <2>1. CASE j \in others
    <3>1. Begun(j) /\ call'[j] = grown(j) /\ grown(j) \in Requests
      BY <1>4, <1>5, <2>1
    <3> QED BY <1>4, <2>1, <3>1 DEF Begun
  <2>2. CASE j \notin others
    <3>1. call'[j] = call[j]
      BY <1>5, <2>2
    <3>2. (IF j \in others THEN {k} ELSE {}) = {}
      BY <2>2
    <3>3. call[j].meets \cup (IF j \in others THEN {k} ELSE {}) = call[j].meets
      BY <3>2
    <3> QED BY <3>1, <3>3 DEF Begun
  <2> QED BY <2>1, <2>2
<1>9. /\ ~Committed(k)' /\ ~Committed(k) /\ Begun(k)' /\ ~At(k, "updating")'
      /\ Active(k)' /\ call'[k].decided = {} /\ call'[k].meets = others
  BY <1>1, <1>2, <1>5 DEF Committed, At, Begun, Active
<1>10. \A j \in Call \ {k} : \A s \in {"looking", "updating", "answered", "error"} :
         At(j, s)' <=> At(j, s)
  BY <1>8 DEF At
<1>11. \A j \in Call \ {k} : /\ Active(j)' <=> Active(j)
                             /\ Committed(j)' <=> Committed(j)
                             /\ Rows(j)' = Rows(j)
  <2>1. \A j \in Call \ {k} : Active(j)' <=> Active(j)
    BY <1>10 DEF Active
  <2>2. \A j \in Call \ {k} : Committed(j)' <=> Committed(j)
    BY <1>8, <1>10 DEF Committed
  <2>3. \A j \in Call \ {k} : Rows(j)' = Rows(j)
    BY <1>8 DEF Rows
  <2> QED BY <2>1, <2>2, <2>3
<1> HIDE DEF others
<1>12. AllSteady'
  <2>1. Steady(call'[k])
    BY <1>2, <1>5 DEF Steady
  <2>2. ASSUME NEW j \in Call \ {k}, Begun(j) PROVE Steady(call'[j])
    <3>1. Steady(call[j])
      BY <2>2 DEF ReviewInv, AllSteady
    <3> QED BY <1>8, <3>1 DEF Steady
  <2> QED BY <1>8, <2>1, <2>2 DEF AllSteady, Steady
<1>13. Met'
  <2>1. \A j \in others : Begun(j) /\ j \in Call \ {k}
    BY <1>1 DEF others
  <2>2. ASSUME NEW j \in Call \ {k}, Begun(j), NEW i \in call'[j].meets PROVE Begun(i)'
    <3>1. i \in Call
      BY <1>3, <1>8, <2>2 DEF Requests
    <3>2. i = k \/ Begun(i)
      BY <1>8, <2>2 DEF ReviewInv, Met
    <3> QED BY <1>8, <1>9, <3>1, <3>2
  <2> QED BY <1>8, <1>9, <2>1, <2>2 DEF Met
<1>14. Stored'
  BY <1>6, <1>8, <1>9, <1>11 DEF ReviewInv, Stored
<1>15. Sourced'
  <2> SUFFICES ASSUME NEW a \in approved
               PROVE  Committed(a.call)' /\ a.cand \in call'[a.call].added
    BY <1>6 DEF Sourced
  <2>1. a.call \in Call /\ Committed(a.call) /\ a.cand \in call[a.call].added
    BY DEF TypeOK, ReviewInv, Sourced
  <2> QED BY <1>8, <1>9, <1>11, <2>1
<1>16. ApprovalHasItsRow'
  BY <1>6 DEF ReviewInv, ApprovalHasItsRow
<1>17. AllApart'
  <2> SUFFICES ASSUME NEW i \in Call, NEW j \in Call, i # j, Begun(i)', Begun(j)',
                      j \notin call'[i].meets
               PROVE  Apart(i, j)'
    BY DEF AllApart
  <2>1. CASE i # k /\ j # k
    <3>1. Apart(i, j)
      BY <1>8, <2>1 DEF ReviewInv, AllApart
    <3>2. i \notin call'[j].meets
      BY <1>8, <2>1, <3>1 DEF Apart
    <3> QED BY <1>8, <1>10, <1>11, <2>1, <3>1, <3>2 DEF Apart
  <2>2. CASE i = k
    <3>1. j \in Call \ {k} /\ j \notin others /\ Begun(j)
      BY <1>8, <1>9, <2>2
    <3>2. ~Active(j)'
      BY <1>11, <3>1 DEF others
    <3>3. k \notin call'[j].meets
      BY <1>1, <1>8, <3>1 DEF ReviewInv, Met
    <3>4. ~At(j, "updating")'
      BY <3>2 DEF Active
    <3> QED BY <1>9, <2>2, <3>2, <3>3, <3>4 DEF Apart
  <2>3. CASE j = k
    <3>1. i \in Call \ {k} /\ i \notin others /\ Begun(i)
      BY <1>8, <2>3
    <3>2. ~Active(i)'
      BY <1>11, <3>1 DEF others
    <3> QED BY <1>9, <2>3, <3>1, <3>2 DEF Apart
  <2> QED BY <2>1, <2>2, <2>3
<1> QED BY <1>7, <1>12, <1>13, <1>14, <1>15, <1>16, <1>17 DEF ReviewInv

-----------------------------------------------------------------------------
LEMMA FaultTyped == TypeOK /\ (Fault \/ UNCHANGED faults) => faults' \in 0..MaxFault
BY DEF TypeOK, Fault

LEMMA FinishTyped == ASSUME TypeOK, NEW k \in Call, Finish(k) PROVE TypeOK'
<1>1. call' \in [Call -> Requests \cup {None}] /\ call[k] \in Requests
  BY FinishCloses, OthersStay
<1>2. faults' = faults
  BY DEF Finish
<1>3. /\ status' \in [Candidate -> {"pending", "approved", "modified", "rejected"}]
      /\ edits' \in [Candidate -> Edit \cup {None}]
      /\ approved' \subseteq [call : Call, cand : Candidate, edits : Edit \cup {None}]
  <2>1. CASE call[k].dead
    BY <2>1 DEF Finish, tables, TypeOK
  <2>2. CASE ~call[k].dead
    <3>1. /\ status' = [c \in Candidate |->
                          IF c \in call[k].decided THEN Decision(k) ELSE status[c]]
          /\ edits' = [c \in Candidate |->
                         IF c \in call[k].decided THEN call[k].edit ELSE edits[c]]
          /\ approved' = approved \cup Rows(k)
      BY <2>2 DEF Finish
    <3>2. Decision(k) \in {"approved", "modified", "rejected"}
      BY <1>1 DEF Decision, Requests
    <3>3. call[k].edit \in Edit \cup {None} /\ call[k].added \subseteq Candidate
      BY <1>1 DEF Requests
    <3>4. Rows(k) \subseteq [call : Call, cand : Candidate, edits : Edit \cup {None}]
      BY <3>3 DEF Rows
    <3> QED BY <3>1, <3>2, <3>3, <3>4 DEF TypeOK
  <2> QED BY <2>1, <2>2
<1> QED BY <1>1, <1>2, <1>3 DEF TypeOK

LEMMA NextByRequest ==
  ASSUME Next
  PROVE  \/ \E k \in Call, kind \in {"approve", "modify", "reject"}, edit \in Edit \cup {None},
              batch \in BOOLEAN, list \in Seq(Candidate) : Begin(k, kind, edit, batch, list)
         \/ \E k \in Call : Look(k) \/ Decide(k) \/ StatementFails(k) \/ Finish(k) \/ Abort(k)
<1>1. ASSUME NEW k \in Call, NEW c \in Candidate, NEW kind \in {"approve", "reject"},
             Begin(k, kind, None, FALSE, <<c>>)
      PROVE  \E edit \in Edit \cup {None}, batch \in BOOLEAN, list \in Seq(Candidate) :
               Begin(k, kind, edit, batch, list)
  <2>1. <<c>> \in Seq(Candidate)
    OBVIOUS
  <2> QED BY <1>1, <2>1
<1>2. ASSUME NEW k \in Call, NEW c \in Candidate, NEW edit \in Edit,
             Begin(k, "modify", edit, FALSE, <<c>>)
      PROVE  \E batch \in BOOLEAN, list \in Seq(Candidate) :
               Begin(k, "modify", edit, batch, list)
  <2>1. <<c>> \in Seq(Candidate)
    OBVIOUS
  <2> QED BY <1>2, <2>1
<1>3. ASSUME NEW k \in Call, NEW kind \in {"approve", "reject"}, NEW list \in List,
             Begin(k, kind, None, TRUE, list)
      PROVE  \E edit \in Edit \cup {None}, batch \in BOOLEAN, l \in Seq(Candidate) :
               Begin(k, kind, edit, batch, l)
  <2>1. list \in Seq(Candidate)
    OBVIOUS
  <2> QED BY <1>3, <2>1
<1> QED BY <1>1, <1>2, <1>3 DEF Next

LEMMA StutterHolds == ReviewInv /\ UNCHANGED <<tables, call>> => ReviewInv'
BY DEF ReviewInv, AllSteady, Met, Stored, Sourced, ApprovalHasItsRow, AllApart, Apart,
       Committed, At, Begun, Active, Rows, tables, Steady

LEMMA NextHolds == TypeOK /\ ReviewInv /\ [Next]_vars => (TypeOK /\ ReviewInv)'
<1> SUFFICES ASSUME TypeOK, ReviewInv, [Next]_vars PROVE TypeOK' /\ ReviewInv'
  OBVIOUS
<1>1. ASSUME NEW k \in Call, NEW kind \in {"approve", "modify", "reject"},
             NEW edit \in Edit \cup {None}, NEW batch \in BOOLEAN,
             NEW list \in Seq(Candidate), Begin(k, kind, edit, batch, list)
      PROVE  TypeOK' /\ ReviewInv'
  BY <1>1, BeginHolds
<1>2. ASSUME NEW k \in Call, Look(k) \/ Decide(k) \/ StatementFails(k) \/ Abort(k)
      PROVE  TypeOK' /\ ReviewInv'
  <2>1. UNCHANGED tables /\ \E q : Becomes(k, q) /\ Worked(call[k], q)
    <3>1. Decide(k) => call[k].list # <<>>
      BY DEF Decide, At, Begun, ReviewInv, AllSteady, Steady
    <3> QED BY <1>2, <3>1, LookWorks, DecideWorks, FailureWorks
  <2>2. PICK q : Becomes(k, q) /\ Worked(call[k], q)
    BY <2>1
  <2>3. ReviewInv'
    BY <2>1, <2>2, WorkHolds
  <2>4. faults' \in 0..MaxFault
    BY <1>2, FaultTyped DEF Look, Decide, StatementFails, Abort
  <2>5. call' \in [Call -> Requests \cup {None}]
    BY <2>2, OthersStay
  <2>6. TypeOK'
    BY <2>1, <2>4, <2>5 DEF TypeOK, tables
  <2> QED BY <2>3, <2>6
<1>3. ASSUME NEW k \in Call, Finish(k) PROVE TypeOK' /\ ReviewInv'
  BY <1>3, FinishHolds, FinishTyped
<1>4. CASE UNCHANGED vars
  <2>1. UNCHANGED <<tables, call>> /\ TypeOK'
    BY <1>4 DEF vars, tables, TypeOK
  <2> QED BY <2>1, StutterHolds
<1>5. CASE Next
  BY <1>1, <1>2, <1>3, <1>5, NextByRequest
<1> QED BY <1>4, <1>5

LEMMA ReviewHolds == Spec => [](TypeOK /\ ReviewInv)
<1> QED BY InitHolds, NextHolds, PTL DEF Spec

\* Every variable keeps its type.
THEOREM TypeCorrect == Spec => []TypeOK
BY ReviewHolds, PTL

\* An approved candidate has the row its decision added, with the corrections it
\* shows, for any overlap of reviews and any failure (extractions.py,
\* admin_extraction_results.py).
THEOREM ApprovalsAreBacked == Spec => []ApprovalHasItsRow
<1>1. ReviewInv => ApprovalHasItsRow
  BY DEF ReviewInv
<1> QED BY <1>1, ReviewHolds, PTL

\* Two committed requests decide one candidate only if they overlapped.
THEOREM DecidedOnce == Spec => []DecidedOnceUnlessTogether
<1>1. TypeOK /\ ReviewInv => DecidedOnceUnlessTogether
  <2> SUFFICES ASSUME TypeOK, ReviewInv, NEW k \in Call, NEW j \in Call, k # j,
                      At(k, "answered"), At(j, "answered"), ~call[k].dead, ~call[j].dead,
                      j \notin call[k].meets
               PROVE  call[k].decided \cap call[j].decided = {}
    BY DEF DecidedOnceUnlessTogether
  <2>1. Apart(k, j)
    BY DEF At, ReviewInv, AllApart
  <2> QED BY <2>1 DEF Apart, At
<1> QED BY <1>1, ReviewHolds, PTL

\* A stored row is of a decision that was counted, or of a blank candidate.
THEOREM RowsHaveTheirDecision == Spec => []RowsAreCounted
<1>1. TypeOK /\ ReviewInv => RowsAreCounted
  <2> SUFFICES ASSUME TypeOK, ReviewInv, NEW r \in approved
               PROVE  r.cand \in call[r.call].decided \/ r.cand \in Blank
    BY DEF RowsAreCounted
  <2>1. r.call \in Call /\ Committed(r.call) /\ r.cand \in call[r.call].added
    BY DEF TypeOK, ReviewInv, Sourced
  <2>2. Steady(call[r.call])
    BY <2>1 DEF ReviewInv, AllSteady, Committed, At
  <2> QED BY <2>1, <2>2 DEF Steady, Committed, At
<1> QED BY <1>1, ReviewHolds, PTL

\* An answer without a failed candidate is true of what is stored, whatever
\* aborted transaction a batch went on in.
THEOREM AnswersAreTrue == Spec => []FullAnswersAreTrue
<1>1. TypeOK /\ ReviewInv => FullAnswersAreTrue
  <2> SUFFICES ASSUME TypeOK, ReviewInv, NEW k \in Call, At(k, "answered"),
                      call[k].failed = {}, call[k].kind # "reject",
                      NEW c \in call[k].decided
               PROVE  \E r \in approved : r.call = k /\ r.cand = c
    BY DEF FullAnswersAreTrue
  <2>1. Steady(call[k])
    BY DEF ReviewInv, AllSteady, At
  <2>2. ~call[k].dead /\ c \in call[k].added
    BY <2>1 DEF Steady
  <2>3. Rows(k) \subseteq approved
    BY <2>2 DEF ReviewInv, Stored, Committed
  <2>4. [call |-> k, cand |-> c, edits |-> call[k].edit] \in Rows(k)
    BY <2>2 DEF Rows
  <2> QED BY <2>3, <2>4
<1> QED BY <1>1, ReviewHolds, PTL
=============================================================================
