----------------------------- MODULE Annotations -----------------------------
(***************************************************************************)
(* The annotations of one document: threads of a root and its replies      *)
(* (app/services/annotations_service.py), the users they mention and the   *)
(* notifications this sends (app/services/notifications_service.py), and   *)
(* the retention batch that moves old resolved threads to                  *)
(* annotations_archive (app/services/retention_job.py).                    *)
(*                                                                         *)
(* A request is its reads and, later, its write.  The batch is one SQL     *)
(* statement: the rows it selects and archives are those of its snapshot,  *)
(* what it deletes, and what the foreign keys delete with it, are the rows *)
(* there are when it comes to them.  Every worker process runs a batch.    *)
(* A text is the set of users it mentions; the editor hands over others    *)
(* that were picked from its list.  Of a user told Limit times by the same *)
(* author within a minute a notification is dropped, and not sent later.   *)
(* "expired" is a resolved root whose resolved_at is older than the        *)
(* retention period.                                                       *)
(***************************************************************************)
EXTENDS Naturals, FiniteSets

CONSTANTS Ann,      \* identifiers of annotations, each used once
          User,     \* users that can be mentioned
          Author,   \* [Ann -> who writes it]; only the author edits it
          Limit,    \* ANNOTATION_MENTION_RATE_LIMIT_PER_MIN (5), 0 for none
          Client,   \* requests that may be under way at one time
          Job,      \* retention batches that may be under way at one time
          None,     \* no row, no request, no parent
          Erased,   \* the row was deleted by a user
          Moved     \* the row was deleted by a batch, itself or by cascade

ASSUME NoneIsNoAnnotation ==
  /\ {None, Erased, Moved} \cap Ann = {}
  /\ None # Erased /\ None # Moved /\ Erased # Moved

ASSUME LimitIsNatural == Limit \in Nat

VARIABLES row,        \* annotations: the row, or what became of it
          mentions,   \* annotation_mentions
          told,       \* notifications: <<annotation, user>> told of a mention
          recent,     \* how often an author told a user in the last minute
          archive,    \* annotations_archive
          request,    \* Client -> what it has read, or None
          job,        \* Job -> the snapshot of its statement, or None
          meanwhile,  \* history: annotations written while a batch moved them
          picked,     \* history: users picked beside those of the present text
          dropped     \* history: <<annotation, user>> not told at the limit

news == <<told, recent, dropped>>
vars == <<row, mentions, news, archive, request, job, meanwhile, picked>>

Texts == SUBSET User
Pairs == {Author[a] : a \in Ann} \X User

Used == {a \in Ann : row[a] # None}
Live == {a \in Used : row[a] # Erased /\ row[a] # Moved}
Roots == {a \in Live : row[a].parent = None}

\* Rows that go when the rows of S go: ON DELETE CASCADE of parent_id.
WithReplies(S) == S \cup {a \in Live : row[a].parent \in S}

\* The rows S and their mentions are deleted.
Drop(S, how) ==
  /\ row' = [a \in Ann |-> IF a \in S THEN how ELSE row[a]]
  /\ mentions' = [a \in Ann |-> IF a \in S THEN {} ELSE mentions[a]]
  /\ picked' = [a \in Ann |-> IF a \in S THEN {} ELSE picked[a]]

\* The root of the thread of a.
Thread(a) == IF row[a].parent = None THEN a ELSE row[a].parent

\* A write of the rows S while a batch is moving their threads.
Moving(a) == \E j \in Job : job[j] # None /\ a \in DOMAIN job[j].snap
Touch(S) == meanwhile' = meanwhile \cup S

\* enqueue_mention for each user of t: the author and who was told often enough
\* in the last minute are passed over.
Tell(a, t) ==
  LET heard == {u \in t \ {Author[a]} : Limit = 0 \/ recent[<<Author[a], u>>] < Limit}
  IN  /\ told' = told \cup ({a} \X heard)
      /\ recent' = [p \in Pairs |-> IF Limit > 0 /\ p[1] = Author[a] /\ p[2] \in heard
                                    THEN recent[p] + 1 ELSE recent[p]]
      /\ dropped' = dropped \cup ({a} \X (t \ (heard \cup {Author[a]})))

\* The text t of a, with the users ps picked for it: replace_mentions.
Mention(a, t, ps) ==
  /\ mentions' = [mentions EXCEPT ![a] = t \cup ps]
  /\ picked' = [picked EXCEPT ![a] = ps]

-----------------------------------------------------------------------------
\* create_annotation without a parent, a new thread.
Create(a, t, ps) ==
  /\ a \notin Used
  /\ row' = [row EXCEPT ![a] = [parent |-> None, status |-> "open", text |-> t]]
  /\ Mention(a, t, ps)
  /\ Tell(a, t \cup ps)
  /\ UNCHANGED <<archive, request, job, meanwhile>>

\* A reply: the parent is read; a reply to a reply goes to the root.
ReplyRead(c, p) ==
  /\ request[c] = None
  /\ p \in Live
  /\ request' = [request EXCEPT ![c] = [op |-> "reply", to |-> Thread(p)]]
  /\ UNCHANGED <<row, mentions, news, archive, job, meanwhile, picked>>

\* Mutant: no foreign key on parent_id.
ReplyWriteUnchecked(c, a, t, ps) ==
  /\ request[c] # None /\ request[c].op = "reply" /\ a \notin Used
  /\ row' = [row EXCEPT ![a] = [parent |-> request[c].to, status |-> "open", text |-> t]]
  /\ Mention(a, t, ps)
  /\ Tell(a, t \cup ps)
  /\ Touch(IF Moving(request[c].to) THEN {a} ELSE {})
  /\ request' = [request EXCEPT ![c] = None]
  /\ UNCHANGED <<archive, job>>

\* The insert.  Its foreign key refuses a parent that is gone by now.
ReplyWrite(c, a, t, ps) ==
  /\ request[c] # None /\ request[c].op = "reply"
  /\ request[c].to \in Live /\ a \notin Used
  /\ row' = [row EXCEPT ![a] = [parent |-> request[c].to, status |-> "open", text |-> t]]
  /\ Mention(a, t, ps)
  /\ Tell(a, t \cup ps)
  /\ Touch(IF Moving(request[c].to) THEN {a} ELSE {})
  /\ request' = [request EXCEPT ![c] = None]
  /\ UNCHANGED <<archive, job>>

\* update_content: the mentions so far are read first ...
EditRead(c, a) ==
  /\ request[c] = None
  /\ a \in Live
  /\ request' = [request EXCEPT ![c] = [op |-> "edit", a |-> a, had |-> mentions[a]]]
  /\ UNCHANGED <<row, mentions, news, archive, job, meanwhile, picked>>

\* Mutant: mentions are added, never replaced.
EditWriteAddsMentions(c, t) ==
  LET a == request[c].a
  IN  /\ request[c] # None /\ request[c].op = "edit"
      /\ a \in Live
      /\ row' = [row EXCEPT ![a].text = t]
      /\ mentions' = [mentions EXCEPT ![a] = @ \cup t]
      /\ picked' = [picked EXCEPT ![a] = {}]
      /\ Tell(a, t \ request[c].had)
      /\ Touch(IF Moving(a) THEN {a} ELSE {})
      /\ request' = [request EXCEPT ![c] = None]
      /\ UNCHANGED <<archive, job>>

\* ... and those that were not among them are told.  Nobody is picked for an edit.
EditWrite(c, t) ==
  LET a == request[c].a
  IN  /\ request[c] # None /\ request[c].op = "edit"
      /\ a \in Live
      /\ row' = [row EXCEPT ![a].text = t]
      /\ Mention(a, t, {})
      /\ Tell(a, t \ request[c].had)
      /\ Touch(IF Moving(a) THEN {a} ELSE {})
      /\ request' = [request EXCEPT ![c] = None]
      /\ UNCHANGED <<archive, job>>

\* The row is gone: 404, or the foreign key refuses the reply.
Refused(c) ==
  /\ request[c] # None
  /\ IF request[c].op = "reply" THEN request[c].to \notin Live ELSE request[c].a \notin Live
  /\ request' = [request EXCEPT ![c] = None]
  /\ UNCHANGED <<row, mentions, news, archive, job, meanwhile, picked>>

\* resolve and reopen set the status whatever it is; resolving restarts the clock.
SetStatus(a, s) ==
  /\ a \in Live
  /\ row' = [row EXCEPT ![a].status = s]
  /\ Touch(IF Moving(a) THEN {a} ELSE {})
  /\ UNCHANGED <<mentions, news, archive, request, job, picked>>

\* delete: replies and mentions go with it.
Delete(a) ==
  /\ a \in Live
  /\ Drop(WithReplies({a}), Erased)
  /\ UNCHANGED <<news, archive, request, job, meanwhile>>

\* A notification of w to u is more than a minute old.
MinutePasses(w, u) ==
  /\ recent[<<w, u>>] > 0
  /\ recent' = [recent EXCEPT ![<<w, u>>] = @ - 1]
  /\ UNCHANGED <<row, mentions, told, dropped, archive, request, job, meanwhile, picked>>

-----------------------------------------------------------------------------
\* RETENTION_RESOLVED_ANNOTATION_DAYS pass over a resolved root.
Age(a) ==
  /\ a \in Roots /\ row[a].status = "resolved"
  /\ row' = [row EXCEPT ![a].status = "expired"]
  /\ UNCHANGED <<mentions, news, archive, request, job, meanwhile, picked>>

\* Mutant: the retention period is not looked at.
ExpiredWithoutCutoff ==
  {a \in Roots : row[a].status # "open"}

Expired == {a \in Roots : row[a].status = "expired"}

\* The statement takes its snapshot: at most RETENTION_BATCH_LIMIT expired roots
\* and everything below them.
JobStart(j) ==
  /\ job[j] = None
  /\ \E S \in (SUBSET Expired) \ {{}} :
       job' = [job EXCEPT ![j] = [snap |-> [a \in WithReplies(S) |-> row[a]],
                                  arch |-> {a \in Ann : archive[a] # None}]]
  /\ UNCHANGED <<row, mentions, news, archive, request, meanwhile, picked>>

\* It inserts what the archive has not (ON CONFLICT DO NOTHING), deletes what it
\* inserted or had archived before, with every reply there is by now, and commits.
JobFinish(j) ==
  /\ job[j] # None
  /\ LET inserted  == {a \in DOMAIN job[j].snap : archive[a] = None}
         deletable == inserted \cup (job[j].arch \cap DOMAIN job[j].snap)
     IN  /\ archive' = [a \in Ann |-> IF a \in inserted THEN job[j].snap[a] ELSE archive[a]]
         /\ Drop(WithReplies(deletable \cap Live), Moved)
  /\ job' = [job EXCEPT ![j] = None]
  /\ UNCHANGED <<news, request, meanwhile>>

\* The batch fails or its process stops: the transaction is rolled back.
JobFails(j) ==
  /\ job[j] # None
  /\ job' = [job EXCEPT ![j] = None]
  /\ UNCHANGED <<row, mentions, news, archive, request, meanwhile, picked>>

-----------------------------------------------------------------------------
Init ==
  /\ row = [a \in Ann |-> None]
  /\ mentions = [a \in Ann |-> {}]
  /\ told = {}
  /\ recent = [p \in Pairs |-> 0]
  /\ archive = [a \in Ann |-> None]
  /\ request = [c \in Client |-> None]
  /\ job = [j \in Job |-> None]
  /\ meanwhile = {}
  /\ picked = [a \in Ann |-> {}]
  /\ dropped = {}

Next ==
  \/ \E a \in Ann :
       \/ \E t \in Texts : \E ps \in SUBSET (User \ t) : Create(a, t, ps)
       \/ \E s \in {"open", "resolved"} : SetStatus(a, s)
       \/ Delete(a)
       \/ Age(a)
  \/ \E c \in Client :
       \/ \E a \in Ann : ReplyRead(c, a) \/ EditRead(c, a)
       \/ \E a \in Ann, t \in Texts : \E ps \in SUBSET (User \ t) : ReplyWrite(c, a, t, ps)
       \/ \E t \in Texts : EditWrite(c, t)
       \/ Refused(c)
  \/ \E p \in Pairs : MinutePasses(p[1], p[2])
  \/ \E j \in Job : JobStart(j) \/ JobFinish(j) \/ JobFails(j)

Spec == Init /\ [][Next]_vars

-----------------------------------------------------------------------------
Row == [parent : Ann \cup {None}, status : {"open", "resolved", "expired"},
        text : Texts]

ASSUME NoneIsNoRow == {None, Erased, Moved} \cap Row = {}

Requests == [op : {"reply"}, to : Ann] \cup [op : {"edit"}, a : Ann, had : Texts]

TypeOK ==
  /\ row \in [Ann -> Row \cup {None, Erased, Moved}]
  /\ mentions \in [Ann -> Texts]
  /\ told \subseteq Ann \X User /\ dropped \subseteq Ann \X User
  /\ recent \in [Pairs -> 0..Limit]
  /\ archive \in [Ann -> Row \cup {None}]
  /\ request \in [Client -> Requests \cup {None}]
  /\ \A j \in Job : job[j] # None => /\ DOMAIN job[j].snap \subseteq Ann
                                     /\ \A a \in DOMAIN job[j].snap : job[j].snap[a] \in Row
                                     /\ job[j].arch \subseteq Ann
  /\ meanwhile \subseteq Ann
  /\ picked \in [Ann -> Texts]

\* The table keeps threads of two levels whatever is replied to, and no reply
\* outlives its root, whoever deletes it and whatever reply was under way.
RepliesHaveTheirRoot ==
  \A a \in Live : row[a].parent # None => row[a].parent \in Roots

\* annotation_mentions are the users of the text, and until it is edited those
\* picked for it; each of them but the author has been told, or was passed over
\* because of the limit, however the edits of one annotation overlap.
MentionsFollowText ==
  \A a \in Live : /\ mentions[a] = row[a].text \cup picked[a]
                  /\ {a} \X (mentions[a] \ {Author[a]}) \subseteq told \cup dropped

\* Archive-first: what a batch deletes, itself or by cascade, is in the archive,
\* at least if nobody wrote to the thread while the batch was moving it.
ArchiveFirstUnlessWritten ==
  \A a \in Used : row[a] = Moved => archive[a] # None \/ a \in meanwhile

\* A batch takes closed threads as they last were: it deletes no root that is
\* open or resolved lately, and the archive then has the state every row it deletes
\* last had, unless the row was written while a batch was moving it.
ArchiveIsTheLastState ==
  [][\A a \in Live \ meanwhile : row'[a] = Moved =>
       /\ archive'[a] = row[a]
       /\ row[a].parent = None => row[a].status = "expired"]_vars

\* No later or overlapping batch changes what the archive has.
ArchiveIsFinal ==
  [][\A a \in Ann : archive[a] # None => archive'[a] = archive[a]]_vars
=============================================================================
