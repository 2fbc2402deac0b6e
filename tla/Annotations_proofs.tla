-------------------------- MODULE Annotations_proofs --------------------------
(***************************************************************************)
(* Proofs about annotations and their retention, for any number of         *)
(* annotations, users, overlapping requests and overlapping batches.       *)
(***************************************************************************)
EXTENDS Annotations, TLAPS

\* What a user's request does, and what a batch does.
UserNext ==
  \/ \E a \in Ann :
       \/ \E t \in Texts : \E ps \in SUBSET (User \ t) : Create(a, t, ps)
       \/ \E s \in {"open", "resolved"} : SetStatus(a, s)
       \/ Delete(a)
       \/ Age(a)
  \/ \E c \in Client :
       \/ \E a \in Ann : ReplyRead(c, a) \/ EditRead(c, a)
       \/ \E a \in Ann, t \in Texts : \E ps \in SUBSET (User \ t) : ReplyWrite(c, a, t, ps)
       \/ \E t \in Texts : EditWrite(c, t)
       \/ Refused(c)
  \/ \E p \in Pairs : MinutePasses(p[1], p[2])

BatchNext(j) == JobStart(j) \/ JobFinish(j) \/ JobFails(j)

LEMMA NextByActor == Next => UserNext \/ \E j \in Job : BatchNext(j)
BY DEF Next, UserNext, BatchNext

USE NoneIsNoAnnotation, NoneIsNoRow

LEMMA LiveIsRow ==
  ASSUME TypeOK, NEW a \in Ann
  PROVE  a \in Live <=> row[a] \in Row
BY DEF TypeOK, Live, Used

\* What enqueue_mention does to each user of a text: told, or passed over.
LEMMA TellTyping ==
  ASSUME TypeOK, NEW a \in Ann, NEW t \in Texts, Tell(a, t)
  PROVE  /\ told' \subseteq Ann \X User /\ dropped' \subseteq Ann \X User
         /\ recent' \in [Pairs -> 0..Limit]
<1> DEFINE heard == {u \in t \ {Author[a]} : Limit = 0 \/ recent[<<Author[a], u>>] < Limit}
<1>1. heard \subseteq User /\ t \subseteq User
  BY DEF Texts
<1>2. \A p \in Pairs : recent[p] \in 0..Limit
  BY DEF TypeOK
<1>3. /\ told' = told \cup ({a} \X heard)
      /\ dropped' = dropped \cup ({a} \X (t \ (heard \cup {Author[a]})))
      /\ recent' = [p \in Pairs |-> IF Limit > 0 /\ p[1] = Author[a] /\ p[2] \in heard
                                   THEN recent[p] + 1 ELSE recent[p]]
  BY DEF Tell
<1>4. ASSUME NEW p \in Pairs, Limit > 0, p[1] = Author[a], p[2] \in heard
      PROVE  recent[p] + 1 \in 0..Limit
  <2>1. p = <<Author[a], p[2]>>
    BY <1>4 DEF Pairs
  <2>2. recent[p] < Limit
    BY <1>4, <2>1, LimitIsNatural
  <2> QED BY <1>2, <2>2, LimitIsNatural
<1> HIDE DEF heard
<1>5. recent' \in [Pairs -> 0..Limit]
  BY <1>2, <1>3, <1>4
<1> QED BY <1>1, <1>3, <1>5 DEF TypeOK

LEMMA TellTells ==
  ASSUME NEW a \in Ann, NEW t \in Texts, Tell(a, t)
  PROVE  /\ told \cup dropped \subseteq told' \cup dropped'
         /\ {a} \X (t \ {Author[a]}) \subseteq told' \cup dropped'
<1> DEFINE heard == {u \in t \ {Author[a]} : Limit = 0 \/ recent[<<Author[a], u>>] < Limit}
<1>1. /\ told' = told \cup ({a} \X heard)
      /\ dropped' = dropped \cup ({a} \X (t \ (heard \cup {Author[a]})))
  BY DEF Tell
<1> HIDE DEF heard
<1> QED BY <1>1

LEMMA TypeInit == Init => TypeOK
BY LimitIsNatural DEF Init, TypeOK, Texts

LEMMA TypeStep == TypeOK /\ [Next]_vars => TypeOK'
<1> SUFFICES ASSUME TypeOK, [Next]_vars PROVE TypeOK'
  OBVIOUS
<1> USE LiveIsRow
<1>1. ASSUME NEW a \in Ann, NEW t \in Texts, NEW ps \in SUBSET (User \ t), Create(a, t, ps)
      PROVE  TypeOK'
  <2>1. [parent |-> None, status |-> "open", text |-> t] \in Row
    BY DEF Row
  <2>2. ps \in Texts /\ t \cup ps \in Texts
    BY DEF Texts
  <2>3. /\ told' \subseteq Ann \X User /\ dropped' \subseteq Ann \X User
        /\ recent' \in [Pairs -> 0..Limit]
    BY <1>1, <2>2, TellTyping DEF Create
  <2> QED BY <1>1, <2>1, <2>2, <2>3 DEF Create, Mention, TypeOK
<1>2. ASSUME NEW a \in Ann, NEW s \in {"open", "resolved"}, SetStatus(a, s) PROVE TypeOK'
  <2>1. row[a] \in Row
    BY <1>2 DEF SetStatus
  <2>2. [row[a] EXCEPT !.status = s] \in Row
    BY <2>1 DEF Row
  <2> QED BY <1>2, <2>2 DEF SetStatus, TypeOK, Touch, news
<1>3. ASSUME NEW a \in Ann, Delete(a) PROVE TypeOK'
  BY <1>3 DEF Delete, Drop, TypeOK, Texts, news
<1>4. ASSUME NEW a \in Ann, Age(a) PROVE TypeOK'
  <2>1. row[a] \in Row
    BY <1>4 DEF Age, Roots
  <2>2. [row[a] EXCEPT !.status = "expired"] \in Row
    BY <2>1 DEF Row
  <2> QED BY <1>4, <2>2 DEF Age, TypeOK, news
<1>5. ASSUME NEW c \in Client, NEW a \in Ann, ReplyRead(c, a) PROVE TypeOK'
  <2>1. Thread(a) \in Ann
    BY <1>5 DEF ReplyRead, Thread, Row
  <2> QED BY <1>5, <2>1 DEF ReplyRead, TypeOK, Requests, news
<1>6. ASSUME NEW c \in Client, NEW a \in Ann, EditRead(c, a) PROVE TypeOK'
  BY <1>6 DEF EditRead, TypeOK, Requests, news
<1>7. ASSUME NEW c \in Client, NEW a \in Ann, NEW t \in Texts, NEW ps \in SUBSET (User \ t),
             ReplyWrite(c, a, t, ps)
      PROVE  TypeOK'
  <2>1. request[c].to \in Ann
    BY <1>7 DEF ReplyWrite, TypeOK, Live, Used
  <2>2. [parent |-> request[c].to, status |-> "open", text |-> t] \in Row
    BY <2>1 DEF Row
  <2>3. ps \in Texts /\ t \cup ps \in Texts
    BY DEF Texts
  <2>4. /\ told' \subseteq Ann \X User /\ dropped' \subseteq Ann \X User
        /\ recent' \in [Pairs -> 0..Limit]
    BY <1>7, <2>3, TellTyping DEF ReplyWrite
  <2> QED BY <1>7, <2>2, <2>3, <2>4 DEF ReplyWrite, Mention, TypeOK, Touch
<1>8. ASSUME NEW c \in Client, NEW t \in Texts, EditWrite(c, t) PROVE TypeOK'
  <2> DEFINE a == request[c].a
  <2>1. a \in Ann /\ row[a] \in Row
    BY <1>8 DEF EditWrite, Live, Used
  <2>2. [row[a] EXCEPT !.text = t] \in Row
    BY <2>1 DEF Row
  <2>3. row' = [row EXCEPT ![a] = [row[a] EXCEPT !.text = t]]
    BY <1>8 DEF EditWrite
  <2>4. row' \in [Ann -> Row \cup {None, Erased, Moved}]
    BY <2>2, <2>3 DEF TypeOK
  <2>5. t \cup {} \in Texts /\ {} \in Texts /\ t \ request[c].had \in Texts
    BY DEF Texts
  <2>6. /\ told' \subseteq Ann \X User /\ dropped' \subseteq Ann \X User
        /\ recent' \in [Pairs -> 0..Limit]
    BY <1>8, <2>1, <2>5, TellTyping DEF EditWrite
  <2> QED BY <1>8, <2>1, <2>4, <2>5, <2>6 DEF EditWrite, Mention, TypeOK, Touch
<1>9. ASSUME NEW c \in Client, Refused(c) PROVE TypeOK'
  BY <1>9 DEF Refused, TypeOK, news
<1>10. ASSUME NEW j \in Job, JobStart(j) PROVE TypeOK'
  <2>1. PICK S \in SUBSET Expired :
          job' = [job EXCEPT ![j] = [snap |-> [a \in WithReplies(S) |-> row[a]],
                                     arch |-> {a \in Ann : archive[a] # None}]]
    BY <1>10 DEF JobStart
  <2>2. WithReplies(S) \subseteq Live /\ Live \subseteq Ann
    BY DEF WithReplies, Expired, Roots, Live, Used
  <2>3. \A a \in WithReplies(S) : row[a] \in Row
    BY <2>2
  <2>4. ASSUME NEW i \in Job, job'[i] # None
        PROVE  /\ DOMAIN job'[i].snap \subseteq Ann
               /\ \A a \in DOMAIN job'[i].snap : job'[i].snap[a] \in Row
               /\ job'[i].arch \subseteq Ann
    <3>1. CASE i = j /\ job'[j] = [snap |-> [a \in WithReplies(S) |-> row[a]],
                                   arch |-> {a \in Ann : archive[a] # None}]
      BY <2>2, <2>3, <3>1
    <3>2. CASE job'[i] = job[i]
      BY <2>4, <3>2 DEF TypeOK
    <3> QED BY <2>1, <3>1, <3>2
  <2> QED BY <1>10, <2>4 DEF JobStart, TypeOK, news
<1>11. ASSUME NEW j \in Job, JobFinish(j) PROVE TypeOK'
  <2>1. archive' \in [Ann -> Row \cup {None}]
    BY <1>11 DEF JobFinish, TypeOK
  <2>2. row' \in [Ann -> Row \cup {None, Erased, Moved}] /\ mentions' \in [Ann -> Texts]
        /\ picked' \in [Ann -> Texts]
    BY <1>11 DEF JobFinish, Drop, TypeOK, Texts
  <2> QED BY <1>11, <2>1, <2>2 DEF JobFinish, TypeOK, news
<1>12. ASSUME NEW j \in Job, JobFails(j) PROVE TypeOK'
  BY <1>12 DEF JobFails, TypeOK, news
<1>13. CASE UNCHANGED vars
  BY <1>13 DEF vars, TypeOK, news
<1>14. ASSUME NEW p \in Pairs, MinutePasses(p[1], p[2]) PROVE TypeOK'
  <2>1. <<p[1], p[2]>> = p /\ recent[p] \in 0..Limit
    BY DEF Pairs, TypeOK
  <2>2. recent[p] - 1 \in 0..Limit
    BY <1>14, <2>1, LimitIsNatural DEF MinutePasses
  <2> QED BY <1>14, <2>1, <2>2 DEF MinutePasses, TypeOK
<1> QED BY <1>1, <1>2, <1>3, <1>4, <1>5, <1>6, <1>7, <1>8, <1>9, <1>10, <1>11, <1>12,
           <1>13, <1>14, NextByActor DEF UserNext, BatchNext

\* Rows, mentions, notifications, archive and snapshots keep to their types.
THEOREM TypeCorrect == Spec => []TypeOK
BY TypeInit, TypeStep, PTL DEF Spec

-----------------------------------------------------------------------------
(* A reply under way goes to a root, which may be gone by the insert but   *)
(* is never a reply; an edit under way has read mentions that were told,   *)
(* or passed over.                                                         *)
RepliesGoToRoots ==
  \A c \in Client : request[c] # None /\ request[c].op = "reply" =>
    request[c].to \in Ann /\ (request[c].to \in Live => request[c].to \in Roots)
      /\ request[c].to \in Used

EditsKnowWhoWasTold ==
  \A c \in Client : request[c] # None /\ request[c].op = "edit" =>
    {request[c].a} \X (request[c].had \ {Author[request[c].a]}) \subseteq told \cup dropped

ThreadInv == /\ RepliesHaveTheirRoot /\ RepliesGoToRoots
             /\ MentionsFollowText /\ EditsKnowWhoWasTold

LEMMA ThreadInit == Init => ThreadInv
BY DEF Init, ThreadInv, RepliesHaveTheirRoot, RepliesGoToRoots, MentionsFollowText,
       EditsKnowWhoWasTold, Live, Used

\* Rows that go with all their replies leave whole threads.
LEMMA DropKeepsThreads ==
  ASSUME TypeOK, ThreadInv, NEW S \in SUBSET Live, NEW how \in {Erased, Moved},
         Drop(WithReplies(S), how), UNCHANGED <<told, dropped, request>>
  PROVE  ThreadInv'
<1>1. ASSUME NEW a \in Ann
      PROVE  /\ a \in WithReplies(S) => row'[a] = how /\ mentions'[a] = {}
             /\ a \notin WithReplies(S) => /\ row'[a] = row[a] /\ mentions'[a] = mentions[a]
                                           /\ picked'[a] = picked[a]
  BY DEF Drop
<1>2. \A a \in Ann : a \in Live' <=> a \in Live /\ a \notin WithReplies(S)
  BY <1>1 DEF Live, Used
<1>3. \A a \in Ann : a \in Used => a \in Used'
  BY <1>1 DEF Used
<1>4. RepliesHaveTheirRoot'
  <2> SUFFICES ASSUME NEW a \in Ann, a \in Live', row'[a].parent # None
               PROVE  row'[a].parent \in Roots'
    BY DEF RepliesHaveTheirRoot, Live, Used
  <2>1. a \in Live /\ a \notin WithReplies(S) /\ row'[a] = row[a]
    BY <1>1, <1>2
  <2>2. row[a].parent \in Roots /\ row[a].parent \in Ann
    BY <2>1 DEF ThreadInv, RepliesHaveTheirRoot, Roots, Live, Used
  <2>3. row[a].parent \notin WithReplies(S)
    BY <2>1, <2>2 DEF WithReplies, Roots, Live, Used
  <2> QED BY <1>1, <1>2, <2>1, <2>2, <2>3 DEF Roots
<1>5. RepliesGoToRoots'
  <2> SUFFICES ASSUME NEW c \in Client, request[c] # None, request[c].op = "reply"
               PROVE  /\ request[c].to \in Ann /\ request[c].to \in Used'
                      /\ request[c].to \in Live' => request[c].to \in Roots'
    BY DEF RepliesGoToRoots
  <2>1. /\ request[c].to \in Ann /\ request[c].to \in Used
        /\ request[c].to \in Live => request[c].to \in Roots
    BY DEF ThreadInv, RepliesGoToRoots
  <2> QED BY <1>1, <1>2, <1>3, <2>1 DEF Roots
<1>6. MentionsFollowText'
  BY <1>1, <1>2 DEF ThreadInv, MentionsFollowText, Live, Used
<1>7. EditsKnowWhoWasTold'
  BY DEF ThreadInv, EditsKnowWhoWasTold
<1> QED BY <1>4, <1>5, <1>6, <1>7 DEF ThreadInv

\* One row gets another text or status and keeps its place.
LEMMA ThreadsStay ==
  ASSUME TypeOK, ThreadInv, NEW a \in Live, NEW r \in Row,
         r.parent = row[a].parent, row' = [row EXCEPT ![a] = r]
  PROVE  /\ Live' = Live /\ Used' = Used /\ Roots' = Roots
         /\ RepliesHaveTheirRoot'
<1>1. a \in Ann /\ row[a] \in Row
  BY LiveIsRow DEF Live, Used
<1>2. \A b \in Ann : row'[b] = (IF b = a THEN r ELSE row[b])
  BY <1>1 DEF TypeOK
<1>3. Live' = Live /\ Used' = Used
  BY <1>1, <1>2 DEF Live, Used
<1>4. Roots' = Roots
  BY <1>2, <1>3 DEF Roots, Live, Used
<1>5. RepliesHaveTheirRoot'
  BY <1>2, <1>3, <1>4 DEF RepliesHaveTheirRoot, Live, Used, ThreadInv
<1> QED BY <1>3, <1>4, <1>5

\* A new row below nothing or below a root.
LEMMA ThreadsGrow ==
  ASSUME TypeOK, ThreadInv, NEW a \in Ann \ Used, NEW r \in Row,
         r.parent = None \/ r.parent \in Roots, row' = [row EXCEPT ![a] = r]
  PROVE  /\ Live' = Live \cup {a} /\ Used' = Used \cup {a}
         /\ Roots' = IF r.parent = None THEN Roots \cup {a} ELSE Roots
         /\ RepliesHaveTheirRoot'
<1>1. row[a] = None
  BY DEF Used
<1>2. \A b \in Ann : row'[b] = (IF b = a THEN r ELSE row[b])
  BY DEF TypeOK
<1>3. Live' = Live \cup {a} /\ Used' = Used \cup {a}
  BY <1>1, <1>2 DEF Live, Used
<1>4. Roots' = IF r.parent = None THEN Roots \cup {a} ELSE Roots
  BY <1>1, <1>2, <1>3 DEF Roots, Live, Used
<1>5. RepliesHaveTheirRoot'
  BY <1>1, <1>2, <1>3, <1>4 DEF RepliesHaveTheirRoot, Roots, Live, Used, ThreadInv
<1> QED BY <1>3, <1>4, <1>5

LEMMA ThreadStep == TypeOK /\ ThreadInv /\ [Next]_vars => ThreadInv'
<1> SUFFICES ASSUME TypeOK, ThreadInv, [Next]_vars PROVE ThreadInv'
  OBVIOUS
<1>1. ASSUME NEW a \in Ann, NEW t \in Texts, NEW ps \in SUBSET (User \ t), Create(a, t, ps)
      PROVE  ThreadInv'
  <2> DEFINE r == [parent |-> None, status |-> "open", text |-> t]
  <2>1. r \in Row /\ a \in Ann \ Used /\ row' = [row EXCEPT ![a] = r]
    BY <1>1 DEF Row, Create, Used
  <2> HIDE DEF r
  <2>2. /\ Live' = Live \cup {a} /\ Used' = Used \cup {a} /\ Roots' = Roots \cup {a}
        /\ RepliesHaveTheirRoot'
    BY <2>1, ThreadsGrow, ZenonT(40) DEF r
  <2>3. RepliesGoToRoots'
    BY <1>1, <2>1, <2>2 DEF Create, ThreadInv, RepliesGoToRoots
  <2>6. /\ told \cup dropped \subseteq told' \cup dropped'
        /\ {a} \X ((t \cup ps) \ {Author[a]}) \subseteq told' \cup dropped'
    <3>1. t \cup ps \in Texts
      BY DEF Texts
    <3> QED BY <1>1, <3>1, TellTells DEF Create
  <2>4. MentionsFollowText'
    <3>1. \A b \in Live : /\ b # a /\ row'[b] = row[b] /\ mentions'[b] = mentions[b]
                          /\ picked'[b] = picked[b]
      BY <1>1, <2>1 DEF Create, Mention, TypeOK, Live
    <3>2. row'[a].text = t /\ mentions'[a] = t \cup ps /\ picked'[a] = ps
      BY <1>1, <2>1 DEF Create, Mention, TypeOK, r
    <3> QED BY <2>2, <2>6, <3>1, <3>2 DEF ThreadInv, MentionsFollowText
  <2>5. EditsKnowWhoWasTold'
    BY <1>1, <2>6 DEF Create, ThreadInv, EditsKnowWhoWasTold
  <2> QED BY <2>2, <2>3, <2>4, <2>5 DEF ThreadInv
<1>2. ASSUME NEW a \in Ann, NEW s \in {"open", "resolved", "expired"}, a \in Live,
             row' = [row EXCEPT ![a].status = s], UNCHANGED <<mentions, told, dropped, picked, request>>
      PROVE  ThreadInv'
  <2> DEFINE r == [row[a] EXCEPT !.status = s]
  <2>1. r \in Row /\ r.parent = row[a].parent /\ r.text = row[a].text
        /\ row' = [row EXCEPT ![a] = r]
    BY <1>2, LiveIsRow DEF Row
  <2> HIDE DEF r
  <2>2. Live' = Live /\ Used' = Used /\ Roots' = Roots /\ RepliesHaveTheirRoot'
    BY <1>2, <2>1, ThreadsStay
  <2>3. \A b \in Live : row'[b].text = row[b].text
    BY <1>2, <2>1 DEF TypeOK, Live, Used
  <2> QED BY <1>2, <2>2, <2>3
          DEF ThreadInv, RepliesGoToRoots, MentionsFollowText, EditsKnowWhoWasTold
<1>3. ASSUME NEW a \in Ann, Delete(a) PROVE ThreadInv'
  BY <1>3, DropKeepsThreads DEF Delete, news
<1>4. ASSUME NEW c \in Client, NEW a \in Ann, ReplyRead(c, a) PROVE ThreadInv'
  <2>1. Thread(a) \in Roots /\ Thread(a) \in Used /\ Thread(a) \in Ann
    BY <1>4, LiveIsRow DEF ReplyRead, Thread, ThreadInv, RepliesHaveTheirRoot, Roots, Live, Used
  <2>2. request' = [request EXCEPT ![c] = [op |-> "reply", to |-> Thread(a)]]
        /\ UNCHANGED <<row, mentions, told, dropped, picked>>
    BY <1>4 DEF ReplyRead, news
  <2>3. RepliesGoToRoots'
    BY <2>1, <2>2 DEF ThreadInv, RepliesGoToRoots, TypeOK, Roots, Live, Used
  <2>4. EditsKnowWhoWasTold'
    BY <2>2 DEF ThreadInv, EditsKnowWhoWasTold, TypeOK
  <2> QED BY <2>2, <2>3, <2>4
          DEF ThreadInv, RepliesHaveTheirRoot, MentionsFollowText, Roots, Live, Used
<1>5. ASSUME NEW c \in Client, NEW a \in Ann, EditRead(c, a) PROVE ThreadInv'
  <2>1. request' = [request EXCEPT ![c] = [op |-> "edit", a |-> a, had |-> mentions[a]]]
        /\ UNCHANGED <<row, mentions, told, dropped, picked>> /\ a \in Live
    BY <1>5 DEF EditRead, news
  <2>2. {a} \X (mentions[a] \ {Author[a]}) \subseteq told \cup dropped
    BY <2>1 DEF ThreadInv, MentionsFollowText
  <2>3. RepliesGoToRoots'
    BY <2>1 DEF ThreadInv, RepliesGoToRoots, TypeOK, Roots, Live, Used
  <2>4. EditsKnowWhoWasTold'
    BY <2>1, <2>2 DEF ThreadInv, EditsKnowWhoWasTold, TypeOK
  <2> QED BY <2>1, <2>3, <2>4
          DEF ThreadInv, RepliesHaveTheirRoot, MentionsFollowText, Roots, Live, Used
<1>6. ASSUME NEW c \in Client, NEW a \in Ann, NEW t \in Texts, NEW ps \in SUBSET (User \ t),
             ReplyWrite(c, a, t, ps)
      PROVE  ThreadInv'
  <2> DEFINE r == [parent |-> request[c].to, status |-> "open", text |-> t]
  <2>1. request[c].to \in Roots /\ request[c].to \in Ann
    BY <1>6 DEF ReplyWrite, ThreadInv, RepliesGoToRoots
  <2>2. r \in Row /\ r.parent \in Roots /\ r.parent # None /\ a \in Ann \ Used
        /\ row' = [row EXCEPT ![a] = r]
    BY <1>6, <2>1 DEF Row, ReplyWrite
  <2> HIDE DEF r
  <2>3. /\ Live' = Live \cup {a} /\ Used' = Used \cup {a} /\ Roots' = Roots
        /\ RepliesHaveTheirRoot'
    BY <2>2, ThreadsGrow
  <2>4. /\ request' = [request EXCEPT ![c] = None]
        /\ mentions' = [mentions EXCEPT ![a] = t \cup ps]
        /\ picked' = [picked EXCEPT ![a] = ps]
    BY <1>6 DEF ReplyWrite, Mention
  <2>8. /\ told \cup dropped \subseteq told' \cup dropped'
        /\ {a} \X ((t \cup ps) \ {Author[a]}) \subseteq told' \cup dropped'
    <3>1. t \cup ps \in Texts
      BY DEF Texts
    <3> QED BY <1>6, <3>1, TellTells DEF ReplyWrite
  <2>5. RepliesGoToRoots'
    BY <2>2, <2>3, <2>4 DEF ThreadInv, RepliesGoToRoots, TypeOK
  <2>6. MentionsFollowText'
    <3>1. \A b \in Live : /\ b # a /\ row'[b] = row[b] /\ mentions'[b] = mentions[b]
                          /\ picked'[b] = picked[b]
      BY <2>2, <2>4 DEF TypeOK, Live
    <3>2. row'[a].text = t /\ mentions'[a] = t \cup ps /\ picked'[a] = ps
      BY <2>2, <2>4 DEF TypeOK, r
    <3> QED BY <2>3, <2>8, <3>1, <3>2 DEF ThreadInv, MentionsFollowText
  <2>7. EditsKnowWhoWasTold'
    BY <2>4, <2>8 DEF ThreadInv, EditsKnowWhoWasTold, TypeOK
  <2> QED BY <2>3, <2>5, <2>6, <2>7 DEF ThreadInv
<1>7. ASSUME NEW c \in Client, NEW t \in Texts, EditWrite(c, t) PROVE ThreadInv'
  <2> DEFINE a == request[c].a
             r == [row[a] EXCEPT !.text = t]
  <2>1. a \in Live /\ a \in Ann /\ row[a] \in Row
    BY <1>7, LiveIsRow DEF EditWrite, Live, Used
  <2>2. r \in Row /\ r.parent = row[a].parent /\ r.text = t /\ row' = [row EXCEPT ![a] = r]
    BY <1>7, <2>1 DEF Row, EditWrite
  <2>3. /\ request' = [request EXCEPT ![c] = None]
        /\ mentions' = [mentions EXCEPT ![a] = t \cup {}]
        /\ picked' = [picked EXCEPT ![a] = {}]
        /\ {a} \X (request[c].had \ {Author[a]}) \subseteq told \cup dropped
    BY <1>7 DEF EditWrite, Mention, ThreadInv, EditsKnowWhoWasTold
  <2>8. /\ told \cup dropped \subseteq told' \cup dropped'
        /\ {a} \X ((t \ request[c].had) \ {Author[a]}) \subseteq told' \cup dropped'
    <3>1. t \ request[c].had \in Texts
      BY DEF Texts
    <3> QED BY <1>7, <2>1, <3>1, TellTells DEF EditWrite
  <2> HIDE DEF a, r
  <2>4. Live' = Live /\ Used' = Used /\ Roots' = Roots /\ RepliesHaveTheirRoot'
    BY <2>1, <2>2, ThreadsStay
  <2>5. RepliesGoToRoots'
    BY <2>3, <2>4 DEF ThreadInv, RepliesGoToRoots, TypeOK
  <2>6. MentionsFollowText'
    <3>1. \A b \in Live : b # a => /\ row'[b] = row[b] /\ mentions'[b] = mentions[b]
                                   /\ picked'[b] = picked[b]
      BY <2>1, <2>2, <2>3 DEF TypeOK, Live, Used
    <3>2. row'[a].text = t /\ mentions'[a] = t /\ picked'[a] = {}
      BY <2>1, <2>2, <2>3 DEF TypeOK
    <3>3. {a} \X (t \ {Author[a]}) \subseteq told' \cup dropped'
      BY <2>3, <2>8
    <3> QED BY <2>4, <2>8, <3>1, <3>2, <3>3 DEF ThreadInv, MentionsFollowText
  <2>7. EditsKnowWhoWasTold'
    BY <2>3, <2>8 DEF ThreadInv, EditsKnowWhoWasTold, TypeOK
  <2> QED BY <2>4, <2>5, <2>6, <2>7 DEF ThreadInv
<1>8. ASSUME NEW c \in Client, Refused(c) PROVE ThreadInv'
  <2>1. /\ request' = [request EXCEPT ![c] = None]
        /\ UNCHANGED <<row, mentions, told, dropped, picked>>
    BY <1>8 DEF Refused, news
  <2>2. RepliesGoToRoots' /\ EditsKnowWhoWasTold'
    BY <2>1 DEF ThreadInv, RepliesGoToRoots, EditsKnowWhoWasTold, TypeOK, Roots, Live, Used
  <2> QED BY <2>1, <2>2
          DEF ThreadInv, RepliesHaveTheirRoot, MentionsFollowText, Roots, Live, Used
<1>9. ASSUME NEW j \in Job, JobFinish(j) PROVE ThreadInv'
  BY <1>9, DropKeepsThreads DEF JobFinish, news
<1>10. ASSUME UNCHANGED <<row, mentions, told, dropped, picked, request>> PROVE ThreadInv'
  BY <1>10 DEF ThreadInv, RepliesHaveTheirRoot, RepliesGoToRoots, MentionsFollowText,
               EditsKnowWhoWasTold, Roots, Live, Used
<1>11. ASSUME NEW a \in Ann, NEW s \in {"open", "resolved"}, SetStatus(a, s)
       PROVE  ThreadInv'
  BY <1>2, <1>11 DEF SetStatus, news
<1>12. ASSUME NEW a \in Ann, Age(a) PROVE ThreadInv'
  BY <1>2, <1>12 DEF Age, Roots, news
<1>13. ASSUME NEW j \in Job, JobStart(j) \/ JobFails(j) PROVE ThreadInv'
  BY <1>10, <1>13 DEF JobStart, JobFails, news
<1>14. CASE UNCHANGED vars
  BY <1>10, <1>14 DEF vars, news
<1>15. ASSUME NEW p \in Pairs, MinutePasses(p[1], p[2]) PROVE ThreadInv'
  BY <1>10, <1>15 DEF MinutePasses
<1> QED BY <1>1, <1>3, <1>4, <1>5, <1>6, <1>7, <1>8, <1>9, <1>11, <1>12, <1>13, <1>14, <1>15,
           NextByActor DEF UserNext, BatchNext

LEMMA ThreadsCorrect == Spec => [](TypeOK /\ ThreadInv)
<1>1. Init => TypeOK /\ ThreadInv
  BY TypeInit, ThreadInit
<1>2. TypeOK /\ ThreadInv /\ [Next]_vars => (TypeOK /\ ThreadInv)'
  BY TypeStep, ThreadStep
<1> QED BY <1>1, <1>2, PTL DEF Spec

\* Threads have two levels and no reply outlives its root, however replies,
\* deletions and batches overlap.
THEOREM ThreadsAreWhole == Spec => []RepliesHaveTheirRoot
<1>1. ThreadInv => RepliesHaveTheirRoot
  BY DEF ThreadInv
<1> QED BY <1>1, ThreadsCorrect, PTL

\* The stored mentions are those of the text and, until it is edited, those picked
\* for it; all of them but the author have been told, or passed over at the limit,
\* however the edits of an annotation overlap and whatever the limit.
THEOREM MentionsAreTold == Spec => []MentionsFollowText
<1>1. ThreadInv => MentionsFollowText
  BY DEF ThreadInv
<1> QED BY <1>1, ThreadsCorrect, PTL

-----------------------------------------------------------------------------
(* The archive holds rows that are gone for good.  The snapshot of a batch *)
(* under way is what the threads it moves are, but for the rows written    *)
(* since.                                                                  *)
Archived == {a \in Ann : archive[a] # None}

ArchivedIsGone == \A a \in Archived : a \in Used /\ a \notin Live

SnapIsTrue(j) ==
  LET snap == job[j].snap
  IN  /\ \A a \in DOMAIN snap :
           /\ a \in Used
           /\ a \in Live \ meanwhile => row[a] = snap[a]
           /\ snap[a].parent = None => snap[a].status = "expired"
      /\ \A a \in Live \ meanwhile : row[a].parent \in DOMAIN snap => a \in DOMAIN snap
      /\ job[j].arch \subseteq Archived

ArchiveInv == /\ job = [j \in Job |-> job[j]]
              /\ ArchivedIsGone /\ ArchiveFirstUnlessWritten
              /\ \A j \in Job : job[j] # None => SnapIsTrue(j)

LEMMA ArchiveInit == Init => ArchiveInv
BY DEF Init, ArchiveInv, ArchivedIsGone, Archived, ArchiveFirstUnlessWritten, Used

\* No user's request moves a row or touches the archive.
UserKeeps == /\ ArchiveInv' /\ archive' = archive
             /\ \A a \in Ann : row'[a] = Moved => row[a] = Moved

\* A step that leaves the archive and the batches alone, moves nothing, and
\* writes to threads that are being moved only if it says so.
LEMMA ArchiveStays ==
  ASSUME TypeOK, ArchiveInv, UNCHANGED <<archive, job>>, meanwhile \subseteq meanwhile',
         Used \subseteq Used', (Live' \cap Used) \subseteq Live,
         \A a \in Ann : row'[a] = Moved => row[a] = Moved,
         \A a \in Live' \ meanwhile' :
           \/ row'[a] = row[a]
           \/ /\ ~Moving(a)
              /\ a \notin Used => ~Moving(row'[a].parent)
              /\ a \in Used => row'[a].parent = row[a].parent
  PROVE  UserKeeps
<1>1. Archived' = Archived
  BY DEF Archived
<1>2. ArchivedIsGone'
  BY <1>1 DEF ArchiveInv, ArchivedIsGone
<1>3. ArchiveFirstUnlessWritten'
  BY DEF ArchiveInv, ArchiveFirstUnlessWritten, Used
<1>4. ASSUME NEW j \in Job, job[j] # None PROVE SnapIsTrue(j)'
  <2> DEFINE snap == job[j].snap
  <2>1. /\ DOMAIN snap \subseteq Ann
        /\ \A a \in DOMAIN snap : a \in Used /\ snap[a] \in Row
        /\ \A a \in DOMAIN snap : a \in Live \ meanwhile => row[a] = snap[a]
        /\ \A a \in DOMAIN snap : snap[a].parent = None => snap[a].status = "expired"
        /\ \A a \in Live \ meanwhile : row[a].parent \in DOMAIN snap => a \in DOMAIN snap
        /\ job[j].arch \subseteq Archived
    BY <1>4 DEF ArchiveInv, SnapIsTrue, TypeOK
  <2>2. \A a \in DOMAIN snap : Moving(a)
    BY <1>4 DEF Moving
  <2>3. ASSUME NEW a \in Live' \ meanwhile', a \in DOMAIN snap PROVE row'[a] = snap[a]
    <3>1. a \in Live \ meanwhile /\ a \in Ann
      BY <2>1, <2>3
    <3> QED BY <2>1, <2>2, <2>3, <3>1
  <2>4. ASSUME NEW a \in Live' \ meanwhile', row'[a].parent \in DOMAIN snap
        PROVE  a \in DOMAIN snap
    <3>1. a \in Ann
      BY DEF Live, Used
    <3>2. Moving(row'[a].parent)
      BY <2>2, <2>4
    <3>3. CASE a \in Used
      <4>1. a \in Live \ meanwhile
        BY <3>3
      <4>2. row'[a].parent = row[a].parent
        BY <3>3
      <4> QED BY <2>1, <2>4, <4>1, <4>2
    <3>4. CASE a \notin Used
      <4>1. row'[a] # row[a]
        BY <3>1, <3>4 DEF Used, Live
      <4> QED BY <3>2, <3>4, <4>1
    <3> QED BY <3>3, <3>4
  <2> QED BY <1>1, <2>1, <2>3, <2>4 DEF SnapIsTrue
<1> QED BY <1>2, <1>3, <1>4 DEF ArchiveInv, UserKeeps

LEMMA ArchiveUser == TypeOK /\ ThreadInv /\ ArchiveInv /\ UserNext => UserKeeps
<1> SUFFICES ASSUME TypeOK, ThreadInv, ArchiveInv, UserNext PROVE UserKeeps
  OBVIOUS
<1>0. \A a \in Ann : \A j \in Job :
        job[j] # None /\ a \notin Used => a \notin DOMAIN job[j].snap
  BY DEF ArchiveInv, SnapIsTrue
<1>1. ASSUME NEW a \in Ann, NEW t \in Texts, NEW ps \in SUBSET (User \ t), Create(a, t, ps)
      PROVE  UserKeeps
  <2>1. /\ a \notin Used /\ UNCHANGED <<archive, job, meanwhile>>
        /\ row' = [row EXCEPT ![a] = [parent |-> None, status |-> "open", text |-> t]]
    BY <1>1 DEF Create
  <2>2. [parent |-> None, status |-> "open", text |-> t] \in Row
    BY DEF Row
  <2>3. /\ \A b \in Ann \ {a} : row'[b] = row[b]
        /\ row'[a] \in Row /\ row'[a].parent = None
    BY <2>1, <2>2 DEF TypeOK
  <2>4. /\ Used' = Used \cup {a} /\ Live' = Live \cup {a}
        /\ \A b \in Ann : row'[b] = Moved => row[b] = Moved
    BY <2>1, <2>3 DEF Used, Live
  <2>5. ~Moving(a) /\ ~Moving(None)
    BY <1>0, <2>1 DEF Moving, TypeOK
  <2> QED BY <2>1, <2>3, <2>4, <2>5, ArchiveStays DEF Live, Used
<1>2. ASSUME NEW a \in Ann, a \in Live, NEW r \in Row, r.parent = row[a].parent,
             row' = [row EXCEPT ![a] = r], UNCHANGED <<archive, job>>,
             meanwhile \subseteq meanwhile', Moving(a) => a \in meanwhile'
      PROVE  UserKeeps
  <2>1. /\ \A b \in Ann \ {a} : row'[b] = row[b]
        /\ row'[a] = r
    BY <1>2 DEF TypeOK
  <2>2. /\ Used' = Used /\ Live' = Live
        /\ \A b \in Ann : row'[b] = Moved => row[b] = Moved
    BY <1>2, <2>1 DEF Used, Live
  <2> QED BY <1>2, <2>1, <2>2, ArchiveStays DEF Live, Used
<1>3. ASSUME NEW a \in Ann, NEW s \in {"open", "resolved"}, SetStatus(a, s)
      PROVE  UserKeeps
  <2> DEFINE r == [row[a] EXCEPT !.status = s]
  <2>1. a \in Live /\ row[a] \in Row
    BY <1>3, LiveIsRow DEF SetStatus
  <2>2. r \in Row /\ r.parent = row[a].parent
    BY <2>1 DEF Row
  <2>3. /\ row' = [row EXCEPT ![a] = r] /\ UNCHANGED <<archive, job>>
        /\ meanwhile' = meanwhile \cup (IF Moving(a) THEN {a} ELSE {})
    BY <1>3 DEF SetStatus, Touch
  <2> HIDE DEF r
  <2> QED BY <1>2, <2>1, <2>2, <2>3
<1>4. ASSUME NEW a \in Ann, Delete(a) PROVE UserKeeps
  <2> DEFINE gone == WithReplies({a})
  <2>1. gone \subseteq Live
    BY <1>4 DEF Delete, WithReplies
  <2>2. /\ row' = [b \in Ann |-> IF b \in gone THEN Erased ELSE row[b]]
        /\ archive' = archive /\ job' = job /\ meanwhile' = meanwhile
    BY <1>4 DEF Delete, Drop
  <2> HIDE DEF gone
  <2>3. \A b \in Ann : row'[b] = IF b \in gone THEN Erased ELSE row[b]
    BY <2>2
  <2>4. Used' = Used
    BY <2>1, <2>3 DEF Used, Live
  <2>5. Live' \subseteq Live /\ \A b \in Live' : row'[b] = row[b]
    BY <2>3, <2>4 DEF Used, Live
  <2>6. \A b \in Ann : row'[b] = Moved => row[b] = Moved
    BY <2>3
  <2>7. UNCHANGED <<archive, job>> /\ meanwhile \subseteq meanwhile'
    BY <2>2
  <2>8. Used \subseteq Used' /\ (Live' \cap Used) \subseteq Live
    BY <2>4, <2>5
  <2>9. \A b \in Live' \ meanwhile' : row'[b] = row[b]
    BY <2>5
  <2> QED BY <2>6, <2>7, <2>8, <2>9, ArchiveStays DEF Live, Used
<1>5. ASSUME NEW a \in Ann, Age(a) PROVE UserKeeps
  <2> DEFINE r == [row[a] EXCEPT !.status = "expired"]
  <2>1. a \in Live /\ row[a] \in Row /\ row[a].parent = None /\ row[a].status = "resolved"
    BY <1>5, LiveIsRow DEF Age, Roots
  <2>2. r \in Row /\ r.parent = row[a].parent
    BY <2>1 DEF Row
  <2>3. row' = [row EXCEPT ![a] = r] /\ UNCHANGED <<archive, job, meanwhile>>
    BY <1>5 DEF Age
  <2> HIDE DEF r
  <2>4. Moving(a) => a \in meanwhile
    BY <2>1 DEF Moving, ArchiveInv, SnapIsTrue
  <2> QED BY <1>2, <2>1, <2>2, <2>3, <2>4
<1>6. ASSUME NEW c \in Client, NEW a \in Ann, NEW t \in Texts, NEW ps \in SUBSET (User \ t),
             ReplyWrite(c, a, t, ps)
      PROVE  UserKeeps
  <2> DEFINE to == request[c].to
             r  == [parent |-> to, status |-> "open", text |-> t]
  <2>1. /\ a \notin Used /\ to \in Ann
        /\ row' = [row EXCEPT ![a] = r] /\ UNCHANGED <<archive, job>>
        /\ meanwhile' = meanwhile \cup (IF Moving(to) THEN {a} ELSE {})
    BY <1>6 DEF ReplyWrite, Touch, Live, Used
  <2>2. r \in Row /\ r.parent = to
    BY <2>1 DEF Row
  <2> HIDE DEF r, to
  <2>3. /\ \A b \in Ann \ {a} : row'[b] = row[b]
        /\ row'[a] = r
    BY <2>1, <2>2 DEF TypeOK
  <2>4. /\ Used' = Used \cup {a} /\ Live' = Live \cup {a}
        /\ \A b \in Ann : row'[b] = Moved => row[b] = Moved
    BY <2>1, <2>2, <2>3 DEF Used, Live
  <2>5. ~Moving(a)
    BY <1>0, <2>1 DEF Moving
  <2>6. Moving(to) => a \in meanwhile'
    BY <2>1
  <2> QED BY <2>1, <2>2, <2>3, <2>4, <2>5, <2>6, ArchiveStays DEF Live, Used
<1>7. ASSUME NEW c \in Client, NEW t \in Texts, EditWrite(c, t) PROVE UserKeeps
  <2> DEFINE a == request[c].a
             r == [row[a] EXCEPT !.text = t]
  <2>1. a \in Live /\ a \in Ann /\ row[a] \in Row
    BY <1>7, LiveIsRow DEF EditWrite, Live, Used
  <2>2. r \in Row /\ r.parent = row[a].parent
    BY <2>1 DEF Row
  <2>3. /\ row' = [row EXCEPT ![a] = r] /\ UNCHANGED <<archive, job>>
        /\ meanwhile' = meanwhile \cup (IF Moving(a) THEN {a} ELSE {})
    BY <1>7 DEF EditWrite, Touch
  <2> HIDE DEF a, r
  <2> QED BY <1>2, <2>1, <2>2, <2>3
<1>8. ASSUME UNCHANGED <<row, archive, job, meanwhile>> PROVE UserKeeps
  BY <1>8, ArchiveStays DEF Live, Used
<1>9. ASSUME NEW c \in Client, \E a \in Ann : ReplyRead(c, a) \/ EditRead(c, a)
      PROVE  UserKeeps
  BY <1>8, <1>9 DEF ReplyRead, EditRead
<1>10. ASSUME NEW c \in Client, Refused(c) PROVE UserKeeps
  BY <1>8, <1>10 DEF Refused
<1>11. ASSUME NEW p \in Pairs, MinutePasses(p[1], p[2]) PROVE UserKeeps
  BY <1>8, <1>11 DEF MinutePasses
<1> QED BY <1>1, <1>3, <1>4, <1>5, <1>6, <1>7, <1>9, <1>10, <1>11 DEF UserNext

\* A snapshot stays true when rows only go and the archive only grows.
LEMMA SnapStays ==
  ASSUME NEW k \in Job, SnapIsTrue(k), job'[k] = job[k], meanwhile' = meanwhile,
         Used' = Used, Live' \subseteq Live, \A a \in Live' : row'[a] = row[a],
         Archived \subseteq Archived'
  PROVE  SnapIsTrue(k)'
BY DEF SnapIsTrue

LEMMA ArchiveStart ==
  ASSUME TypeOK, ThreadInv, ArchiveInv, NEW j \in Job, JobStart(j)
  PROVE  ArchiveInv'
<1>1. PICK S \in (SUBSET Expired) \ {{}} :
        job' = [job EXCEPT ![j] = [snap |-> [a \in WithReplies(S) |-> row[a]],
                                   arch |-> {a \in Ann : archive[a] # None}]]
  BY DEF JobStart
<1>2. UNCHANGED <<row, archive, meanwhile>> /\ job[j] = None
  BY DEF JobStart
<1>3. /\ Used' = Used /\ Live' = Live /\ Archived' = Archived
      /\ ArchivedIsGone' /\ ArchiveFirstUnlessWritten'
  BY <1>2 DEF Used, Live, Archived, ArchiveInv, ArchivedIsGone, ArchiveFirstUnlessWritten
<1>4. ASSUME NEW k \in Job, k # j, job'[k] # None PROVE SnapIsTrue(k)'
  <2>1. job'[k] = job[k]
    BY <1>1, <1>4 DEF ArchiveInv
  <2> QED BY <1>2, <1>3, <1>4, <2>1, SnapStays DEF ArchiveInv
<1>5. ASSUME job'[j] # None PROVE SnapIsTrue(j)'
  <2> DEFINE snap == [a \in WithReplies(S) |-> row[a]]
  <2>1. job'[j].snap = snap /\ job'[j].arch = Archived
    BY <1>1 DEF Archived, ArchiveInv
  <2>2. \A a \in S : a \in Live /\ row[a].parent = None /\ row[a].status = "expired"
    BY DEF Expired, Roots
  <2>3. \A a \in WithReplies(S) : a \in Live /\ (a \in S \/ row[a].parent \in S)
    BY <2>2 DEF WithReplies
  <2>4. \A a \in WithReplies(S) : row[a].parent = None => a \in S
    BY <2>2, <2>3 DEF Live, Used
  <2>5. ASSUME NEW a \in Live, row[a].parent \in WithReplies(S) PROVE a \in WithReplies(S)
    <3>1. row[a].parent # None
      BY <2>3, <2>5 DEF Live, Used
    <3>2. row[row[a].parent].parent = None
      BY <3>1 DEF ThreadInv, RepliesHaveTheirRoot, Roots
    <3>3. row[a].parent \in S
      BY <2>4, <2>5, <3>2
    <3> QED BY <3>3 DEF WithReplies
  <2>6. DOMAIN snap = WithReplies(S) /\ \A a \in WithReplies(S) : snap[a] = row[a]
    OBVIOUS
  <2> HIDE DEF snap
  <2> QED BY <1>2, <1>3, <2>1, <2>2, <2>3, <2>4, <2>5, <2>6 DEF SnapIsTrue, Live
<1>6. job' = [k \in Job |-> job'[k]]
  BY <1>1 DEF ArchiveInv
<1> QED BY <1>3, <1>4, <1>5, <1>6 DEF ArchiveInv

\* What a batch deletes was in its snapshot and in the archive by then, but for
\* replies that were written meanwhile.
LEMMA ArchiveFinish ==
  ASSUME TypeOK, ArchiveInv, NEW j \in Job, JobFinish(j)
  PROVE  /\ ArchiveInv'
         /\ \A a \in Live \ meanwhile : row'[a] = Moved =>
              archive'[a] = row[a] /\ (row[a].parent = None => row[a].status = "expired")
         /\ \A a \in Ann : archive[a] # None => archive'[a] = archive[a]
<1> DEFINE snap == job[j].snap
           inserted == {a \in DOMAIN snap : archive[a] = None}
           deletable == inserted \cup (job[j].arch \cap DOMAIN snap)
           moved == WithReplies(deletable \cap Live)
<1>1. /\ archive' = [a \in Ann |-> IF a \in inserted THEN snap[a] ELSE archive[a]]
      /\ row' = [a \in Ann |-> IF a \in moved THEN Moved ELSE row[a]]
      /\ job' = [job EXCEPT ![j] = None] /\ meanwhile' = meanwhile
      /\ job[j] # None
  BY DEF JobFinish, Drop
<1>2. /\ DOMAIN snap \subseteq Used
      /\ \A a \in DOMAIN snap : snap[a] \in Row
      /\ \A a \in DOMAIN snap : a \in Live \ meanwhile => row[a] = snap[a]
      /\ \A a \in DOMAIN snap : snap[a].parent = None => snap[a].status = "expired"
      /\ \A a \in Live \ meanwhile : row[a].parent \in DOMAIN snap => a \in DOMAIN snap
  BY <1>1 DEF ArchiveInv, SnapIsTrue, TypeOK
<1>3. moved \subseteq Live /\ \A a \in moved : a \in meanwhile \/ a \in DOMAIN snap
  BY <1>2 DEF WithReplies
<1>4. DOMAIN snap \cap Live \subseteq moved
  <2>1. \A a \in DOMAIN snap \cap Live : a \in inserted
    BY <1>2 DEF ArchiveInv, ArchivedIsGone, Archived, Live, Used
  <2> QED BY <2>1 DEF WithReplies
<1> HIDE DEF snap, deletable, moved
<1>5. /\ \A a \in Ann : row'[a] = IF a \in moved THEN Moved ELSE row[a]
      /\ \A a \in Ann : archive'[a] = IF a \in inserted THEN snap[a] ELSE archive[a]
      /\ inserted \subseteq DOMAIN snap /\ \A a \in inserted : archive[a] = None
  BY <1>1
<1>6. Used' = Used /\ Live' = Live \ moved /\ \A a \in Live' : row'[a] = row[a]
  BY <1>3, <1>5 DEF Used, Live
<1>7. Archived' = Archived \cup inserted
  BY <1>2, <1>5 DEF Archived, Used
<1>8. DOMAIN snap \subseteq Archived'
  BY <1>2, <1>5, <1>7 DEF Archived, Used
<1> HIDE DEF inserted
<1>9. ArchivedIsGone'
  BY <1>2, <1>4, <1>5, <1>6, <1>7 DEF ArchiveInv, ArchivedIsGone
<1>10. ArchiveFirstUnlessWritten'
  <2> SUFFICES ASSUME NEW a \in Used', row'[a] = Moved
               PROVE  a \in Archived' \/ a \in meanwhile
    BY <1>1 DEF ArchiveFirstUnlessWritten, Archived, Used
  <2>1. CASE a \in moved
    BY <1>3, <1>8, <2>1
  <2>2. CASE a \notin moved
    <3>1. a \in Used /\ row[a] = Moved
      BY <1>5, <1>6, <2>2 DEF Used
    <3>2. archive[a] # None \/ a \in meanwhile
      BY <3>1 DEF ArchiveInv, ArchiveFirstUnlessWritten
    <3> QED BY <1>7, <3>1, <3>2 DEF Archived, Used
  <2> QED BY <2>1, <2>2
<1>11. ASSUME NEW k \in Job, job'[k] # None PROVE SnapIsTrue(k)'
  <2>1. job'[k] = job[k] /\ job[k] # None
    BY <1>1, <1>11 DEF ArchiveInv
  <2>2. SnapIsTrue(k)
    BY <2>1 DEF ArchiveInv
  <2> QED BY <1>1, <1>6, <1>7, <2>1, <2>2, SnapStays
<1>12. job' = [k \in Job |-> job'[k]]
  BY <1>1 DEF ArchiveInv
<1>13. ArchiveInv'
  BY <1>9, <1>10, <1>11, <1>12 DEF ArchiveInv
<1>14. ASSUME NEW a \in Live \ meanwhile, row'[a] = Moved
       PROVE  archive'[a] = row[a] /\ (row[a].parent = None => row[a].status = "expired")
  <2>1. a \in Ann /\ a \in Live /\ row[a] # Moved
    BY DEF Live, Used
  <2>2. a \in DOMAIN snap
    BY <1>3, <1>5, <1>14, <2>1
  <2>3. row[a] = snap[a]
    BY <1>2, <2>1, <2>2
  <2>4. a \in inserted
    BY <2>1, <2>2 DEF inserted, ArchiveInv, ArchivedIsGone, Archived
  <2> QED BY <1>2, <1>5, <2>1, <2>2, <2>3, <2>4
<1>15. \A a \in Ann : archive[a] # None => archive'[a] = archive[a]
  BY <1>5
<1> QED BY <1>13, <1>14, <1>15

LEMMA ArchiveFails ==
  ASSUME TypeOK, ArchiveInv, NEW j \in Job, JobFails(j)
  PROVE  ArchiveInv'
<1>1. /\ UNCHANGED <<row, archive, meanwhile>>
      /\ job' = [job EXCEPT ![j] = None]
  BY DEF JobFails
<1>2. /\ Used' = Used /\ Live' = Live /\ Archived' = Archived
      /\ ArchivedIsGone' /\ ArchiveFirstUnlessWritten'
  BY <1>1 DEF Used, Live, Archived, ArchiveInv, ArchivedIsGone, ArchiveFirstUnlessWritten
<1>3. ASSUME NEW k \in Job, job'[k] # None PROVE SnapIsTrue(k)'
  <2>1. job'[k] = job[k] /\ job[k] # None
    BY <1>1, <1>3 DEF ArchiveInv
  <2> QED BY <1>1, <1>2, <2>1, SnapStays DEF ArchiveInv
<1>4. job' = [k \in Job |-> job'[k]]
  BY <1>1 DEF ArchiveInv
<1> QED BY <1>2, <1>3, <1>4 DEF ArchiveInv

-----------------------------------------------------------------------------
LEMMA ArchiveStep == TypeOK /\ ThreadInv /\ ArchiveInv /\ [Next]_vars => ArchiveInv'
<1> SUFFICES ASSUME TypeOK, ThreadInv, ArchiveInv, [Next]_vars PROVE ArchiveInv'
  OBVIOUS
<1>1. CASE UserNext
  BY <1>1, ArchiveUser DEF UserKeeps
<1>2. ASSUME NEW j \in Job, BatchNext(j) PROVE ArchiveInv'
  BY <1>2, ArchiveStart, ArchiveFinish, ArchiveFails DEF BatchNext
<1>3. CASE UNCHANGED vars
  BY <1>3, ArchiveStays DEF vars, Live, Used, UserKeeps
<1> QED BY <1>1, <1>2, <1>3, NextByActor

LEMMA AllOfIt == Spec => [](TypeOK /\ ThreadInv /\ ArchiveInv)
<1>1. Init => TypeOK /\ ThreadInv /\ ArchiveInv
  BY TypeInit, ThreadInit, ArchiveInit
<1>2. TypeOK /\ ThreadInv /\ ArchiveInv /\ [Next]_vars => (TypeOK /\ ThreadInv /\ ArchiveInv)'
  BY TypeStep, ThreadStep, ArchiveStep
<1> QED BY <1>1, <1>2, PTL DEF Spec

\* Archive-first: whatever batches, requests and cascades overlap, a row that a
\* batch deletes, or that goes with its thread, is in the archive, but for a row
\* that was written while its thread was being moved (retention_job.py).
THEOREM ArchiveFirst == Spec => []ArchiveFirstUnlessWritten
<1>1. ArchiveInv => ArchiveFirstUnlessWritten
  BY DEF ArchiveInv
<1> QED BY <1>1, AllOfIt, PTL

\* The archived row is the row as it last was, and the root of what a batch takes
\* is resolved and old enough at that time, but for rows written meanwhile.
THEOREM ArchiveIsLast == Spec => ArchiveIsTheLastState
<1>1. TypeOK /\ ThreadInv /\ ArchiveInv /\ [Next]_vars =>
        [\A a \in Live \ meanwhile : row'[a] = Moved =>
           /\ archive'[a] = row[a]
           /\ row[a].parent = None => row[a].status = "expired"]_vars
  <2> SUFFICES ASSUME TypeOK, ThreadInv, ArchiveInv, Next, NEW a \in Live \ meanwhile,
                      row'[a] = Moved
               PROVE  /\ archive'[a] = row[a]
                      /\ row[a].parent = None => row[a].status = "expired"
    OBVIOUS
  <2>1. a \in Ann /\ row[a] # Moved
    BY DEF Live, Used
  <2>2. ~UserNext
    BY <2>1, ArchiveUser DEF UserKeeps
  <2>3. PICK j \in Job : BatchNext(j)
    BY <2>2, NextByActor
  <2>4. JobFinish(j)
    BY <2>1, <2>3 DEF BatchNext, JobStart, JobFails
  <2> QED BY <2>4, ArchiveFinish
<1> QED BY <1>1, AllOfIt, PTL DEF Spec, ArchiveIsTheLastState

\* What is in the archive is never written again, by no batch.
THEOREM ArchiveIsKept == Spec => ArchiveIsFinal
<1>1. TypeOK /\ ThreadInv /\ ArchiveInv /\ [Next]_vars =>
        [\A a \in Ann : archive[a] # None => archive'[a] = archive[a]]_vars
  <2> SUFFICES ASSUME TypeOK, ThreadInv, ArchiveInv, Next, NEW a \in Ann, archive[a] # None
               PROVE  archive'[a] = archive[a]
    OBVIOUS
  <2>1. CASE UserNext
    BY <2>1, ArchiveUser DEF UserKeeps
  <2>2. ASSUME NEW j \in Job, BatchNext(j) PROVE archive'[a] = archive[a]
    BY <2>2, ArchiveFinish DEF BatchNext, JobStart, JobFails
  <2> QED BY <2>1, <2>2, NextByActor
<1> QED BY <1>1, AllOfIt, PTL DEF Spec, ArchiveIsFinal
=============================================================================
