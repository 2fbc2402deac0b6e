---------------------------- MODULE Conversations ----------------------------
(***************************************************************************)
(* Conversations with the assistant: the rows of conversations and turns   *)
(* (app/repositories/conversation_repository.py), the answers that         *)
(* POST /rag/answer gives in them (app/services/multiturn_rag_service.py)  *)
(* from a window of recent turns that every worker process keeps in memory *)
(* (app/services/retrieval/citation_cache.py), and the batch that every    *)
(* worker runs once a day to expire them (app/services/                    *)
(* expiration_batch.py).                                                   *)
(*                                                                         *)
(* An answer takes its number and its history from the window of its       *)
(* worker, waits for the language model, and then, without giving way to   *)
(* another answer of the worker, joins the window and is stored as a turn. *)
(* Other workers, the handlers of threads and the batches run in between.  *)
(***************************************************************************)
EXTENDS FiniteSets, Integers, Sequences, SequencesExt

CONSTANTS Conversation,  \* rows of conversations
          Session,   \* ids a client made up: no row, only a window
          Worker,    \* processes
          Scheduled, \* those with AUTO_EXPIRATION_ENABLED
          MaxCall,   \* bound on the requests for an answer
          Window,    \* _MAX_TURNS of a worker's window
          Capacity,  \* _MAX_CONVERSATIONS of a worker
          Limit,     \* batch_limit of an expiration batch
          MaxFault,  \* bound on failed statements and stopped workers
          None       \* not called yet

Key == Conversation \cup Session

\* The requests, numbered as they arrive.
Call == 1..MaxCall

ASSUME SessionsHaveNoRow == Conversation \cap Session = {}
ASSUME SomeWorkerExpires == Scheduled \subseteq Worker /\ Scheduled # {}
ASSUME WindowHoldsTurns == Window \in Nat \ {0} /\ Capacity \in Nat \ {0}
ASSUME BatchTakesSome == Limit \in Nat \ {0}
ASSUME BoundsAreNumbers == MaxCall \in Nat /\ MaxFault \in Nat

\* A request for an answer, with the turns it was given as its history.
Answers == [pc : {"asking", "saving", "stored", "refused", "skipped", "failed",
                  "error", "gone"},
            worker : Worker, conv : Key, number : 1..Window + 1,
            history : Seq(Call), alone : BOOLEAN]

Batches == [step : {"idle", "marking"}, list : SUBSET Conversation,
            marked : SUBSET Conversation, dead : BOOLEAN]

ASSUME NoneIsNoAnswer == None \notin Answers

VARIABLES status,   \* conversations.status, "none" before the row is there
          deleted,  \* conversations.deleted_at is set
          due,      \* the conversations past expires_at, in that order
          turns,    \* turns: the calls whose answer is stored
          call,     \* Call -> its progress, or None
          window,   \* Worker -> Key -> the calls it remembers
          order,    \* Worker -> _insertion_order of its window
          batch,    \* Scheduled -> its expiration batch
          owed,     \* audited as expired, and not yet expired by a commit
          torn,     \* conversations whose turns no one window has held
          cut,      \* calls whose window was evicted before their answer came
          faults    \* failures so far

vars == <<status, deleted, due, turns, call, window, order, batch, owed, torn, cut,
          faults>>
talk == <<turns, call, window, order, torn, cut>>
rows == <<status, deleted, due>>

Asked(k) == call[k] # None
Fresh(k) == ~Asked(k) /\ \A j \in 1..k - 1 : Asked(j)
At(k, pc) == Asked(k) /\ call[k].pc = pc
Live(k) == At(k, "asking") \/ At(k, "saving")
Found(c) == c \in Conversation /\ status[c] # "none" /\ ~deleted[c]

\* A worker answers between two awaits without giving way to another answer.
Busy(w) == \E k \in Call : At(k, "saving") /\ call[k].worker = w

\* The number of a stored turn is unique in its conversation.
Taken(c, n) == \E k \in turns : call[k].conv = c /\ call[k].number = n

\* Mutant: the window keeps one turn less.
RecentShort(s) == IF Len(s) >= Window THEN Tail(s) ELSE s

\* Mutant: the window has no bound.
RecentUnbounded(s) == s

\* A deque with maxlen drops its oldest element.
Recent(s) == IF Len(s) > Window THEN Tail(s) ELSE s

Idle == [step |-> "idle", list |-> {}, marked |-> {}, dead |-> FALSE]

\* Rows an expiration batch has updated and not committed.
Locked == UNION {batch[w].marked : w \in Scheduled}

\* Mutant: only active conversations expire.
ListedWhenActive(c) == status[c] = "active" /\ ~deleted[c]

\* The WHERE of list_expired, but for the time.
Listed(c) == status[c] \notin {"none", "expired", "deleted"} /\ ~deleted[c]

\* expires_at of c is before that of d.
Sooner(c, d) == \E i, j \in 1..Len(due) : i < j /\ due[i] = c /\ due[j] = d

IsSoonest(c, S) == \A d \in S \ {c} : Sooner(c, d)

\* The WHERE of mark_expired.
Markable(c) == status[c] \notin {"expired", "deleted"}

Fault == faults < MaxFault /\ faults' = faults + 1

-----------------------------------------------------------------------------
\* POST /conversations.
Create(c) ==
  /\ status[c] = "none"
  /\ status' = [status EXCEPT ![c] = "active"]
  /\ UNCHANGED <<talk, deleted, due, batch, owed, faults>>

\* PUT /conversations/{id} with a status; it waits for a batch that has the row.
Update(c, s) ==
  /\ Found(c) /\ c \notin Locked
  /\ status' = [status EXCEPT ![c] = s]
  /\ UNCHANGED <<talk, deleted, due, batch, owed, faults>>

\* DELETE /conversations/{id}.
SoftDelete(c) ==
  /\ Found(c) /\ c \notin Locked
  /\ status' = [status EXCEPT ![c] = "deleted"]
  /\ deleted' = [deleted EXCEPT ![c] = TRUE]
  /\ UNCHANGED <<talk, due, batch, owed, faults>>

\* The time expires_at of a conversation passes.
FallDue(c) ==
  /\ Found(c) /\ c \notin ToSet(due)
  /\ due' = Append(due, c)
  /\ UNCHANGED <<talk, status, deleted, batch, owed, faults>>

-----------------------------------------------------------------------------
\* answer, up to the first await: the number and the history of the turn.
Ask(k, w, c) ==
  /\ Fresh(k) /\ ~Busy(w)
  /\ c \in Conversation => status[c] # "none"
  /\ LET others == {j \in Call : Live(j) /\ call[j].conv = c}
     IN  call' = [j \in Call |->
                    CASE j = k -> [pc |-> "asking", worker |-> w, conv |-> c,
                                   number |-> Len(window[w][c]) + 1,
                                   history |-> window[w][c], alone |-> others = {}]
                      [] j \in others -> [call[j] EXCEPT !.alone = FALSE]
                      [] OTHER -> call[j]]
  /\ UNCHANGED <<rows, turns, window, order, torn, cut, batch, owed, faults>>

\* The model or the search fails, and so does the request.
AnswerFails(k) ==
  /\ At(k, "asking") /\ ~Busy(call[k].worker)
  /\ call' = [call EXCEPT ![k].pc = "error"]
  /\ UNCHANGED <<rows, turns, window, order, torn, cut, batch, owed, faults>>

\* The answer is there: add_turn, which may evict the oldest conversation,
\* and get_by_id of _save_turn_to_domain.
Answer(k) ==
  LET w       == call[k].worker
      c       == call[k].conv
      fresh   == window[w][c] = <<>>
      evicted == IF fresh /\ Len(order[w]) >= Capacity THEN {Head(order[w])} ELSE {}
  IN  /\ At(k, "asking") /\ ~Busy(w)
      /\ window' = [window EXCEPT ![w] =
                      [d \in Key |->
                         IF d = c THEN Recent(Append(window[w][c], k))
                         ELSE IF d \in evicted THEN <<>> ELSE window[w][d]]]
      /\ order' = [order EXCEPT ![w] =
                     IF ~fresh THEN @
                     ELSE Append(IF evicted = {} THEN @ ELSE Tail(@), c)]
      /\ call' = [call EXCEPT ![k].pc = IF Found(c) THEN "saving" ELSE "skipped"]
      /\ torn' = torn \cup evicted
                      \cup {d \in {c} : \E v \in Worker \ {w} : window[v][d] # <<>>}
      /\ cut' = cut \cup {j \in Call : /\ At(j, "asking") /\ call[j].worker = w
                                      /\ call[j].conv \in evicted}
      /\ UNCHANGED <<rows, turns, batch, owed, faults>>

\* Mutant: the table has no unique constraint on the number.
SaveAnyNumber(k) ==
  /\ At(k, "saving")
  /\ call' = [call EXCEPT ![k].pc = "stored"] /\ turns' = turns \cup {k}
  /\ UNCHANGED <<rows, window, order, torn, cut, batch, owed, faults>>

\* The INSERT of the turn and the commit.  A violation of the constraint is
\* logged, and the request answers without a turn_id.
Save(k) ==
  /\ At(k, "saving")
  /\ LET refused == Taken(call[k].conv, call[k].number)
     IN  /\ call' = [call EXCEPT ![k].pc = IF refused THEN "refused" ELSE "stored"]
         /\ turns' = IF refused THEN turns ELSE turns \cup {k}
  /\ UNCHANGED <<rows, window, order, torn, cut, batch, owed, faults>>

SaveFails(k) ==
  /\ At(k, "saving") /\ Fault
  /\ call' = [call EXCEPT ![k].pc = "failed"]
  /\ UNCHANGED <<rows, turns, window, order, torn, cut, batch, owed>>

-----------------------------------------------------------------------------
\* list_expired of a batch.
List(w) ==
  /\ batch[w].step = "idle"
  /\ LET expired == {c \in ToSet(due) : Listed(c)}
         first   == {c \in expired : Cardinality({d \in expired : Sooner(d, c)}) < Limit}
     IN  /\ expired # {}
         /\ batch' = [batch EXCEPT ![w].step = "marking", ![w].list = first]
  /\ UNCHANGED <<talk, rows, owed, faults>>

\* Mutant: the audit event is written before mark_expired has answered.
MarkTellsAlways(w) ==
  \E c \in batch[w].list :
    /\ batch[w].step = "marking" /\ IsSoonest(c, batch[w].list) /\ c \notin Locked
    /\ batch' = [batch EXCEPT ![w].list = @ \ {c},
                   ![w].marked = IF Markable(c) THEN @ \cup {c} ELSE @]
    /\ owed' = owed \cup {c}
    /\ UNCHANGED <<talk, rows, faults>>

\* mark_expired of the next conversation, when no other batch has the row, and
\* the audit event, which is committed at once.
Mark(w) ==
  \E c \in batch[w].list :
    /\ batch[w].step = "marking" /\ IsSoonest(c, batch[w].list) /\ c \notin Locked
    /\ batch' = [batch EXCEPT ![w].list = @ \ {c},
                   ![w].marked = IF Markable(c) THEN @ \cup {c} ELSE @]
    /\ owed' = IF Markable(c) THEN owed \cup {c} ELSE owed
    /\ UNCHANGED <<talk, rows, faults>>

\* An error is counted for its conversation, and for all that follow, because
\* the transaction is aborted.
MarkFails(w) ==
  /\ batch[w].step = "marking" /\ batch[w].list # {} /\ Fault
  /\ batch' = [batch EXCEPT ![w].list = {}, ![w].dead = TRUE]
  /\ UNCHANGED <<talk, rows, owed>>

\* The commit; of an aborted transaction it is a rollback that raises nothing.
Commit(w) ==
  /\ batch[w].step = "marking" /\ batch[w].list = {}
  /\ batch' = [batch EXCEPT ![w] = Idle]
  /\ status' = [c \in Conversation |->
                  IF c \in batch[w].marked /\ ~batch[w].dead THEN "expired" ELSE status[c]]
  /\ owed' = IF batch[w].dead THEN owed ELSE owed \ batch[w].marked
  /\ UNCHANGED <<talk, deleted, due, faults>>

CommitFails(w) ==
  /\ batch[w].step = "marking" /\ batch[w].list = {} /\ Fault
  /\ batch' = [batch EXCEPT ![w] = Idle]
  /\ UNCHANGED <<talk, rows, owed>>

\* A process stops: its window, its requests and its batch are gone.
Stop(w) ==
  /\ Fault
  /\ window' = [window EXCEPT ![w] = [c \in Key |-> <<>>]]
  /\ order' = [order EXCEPT ![w] = <<>>]
  /\ torn' = torn \cup ToSet(order[w])
  /\ call' = [k \in Call |-> IF Live(k) /\ call[k].worker = w
                             THEN [call[k] EXCEPT !.pc = "gone"] ELSE call[k]]
  /\ batch' = [v \in Scheduled |-> IF v = w THEN Idle ELSE batch[v]]
  /\ UNCHANGED <<rows, turns, owed, cut>>

-----------------------------------------------------------------------------
Init ==
  /\ status = [c \in Conversation |-> "none"]
  /\ deleted = [c \in Conversation |-> FALSE]
  /\ due = <<>> /\ turns = {} /\ call = [k \in Call |-> None]
  /\ window = [w \in Worker |-> [c \in Key |-> <<>>]]
  /\ order = [w \in Worker |-> <<>>]
  /\ batch = [w \in Scheduled |-> Idle]
  /\ owed = {} /\ torn = {} /\ cut = {} /\ faults = 0

Batch(w) == List(w) \/ Mark(w) \/ Commit(w)

Next ==
  \/ \E c \in Conversation :
       \/ Create(c) \/ SoftDelete(c) \/ FallDue(c)
       \/ \E s \in {"active", "archived"} : Update(c, s)
  \/ \E k \in Call, w \in Worker, c \in Key : Ask(k, w, c)
  \/ \E k \in Call : AnswerFails(k) \/ Answer(k) \/ Save(k) \/ SaveFails(k)
  \/ \E w \in Worker : Stop(w)
  \/ \E w \in Scheduled : Batch(w) \/ MarkFails(w) \/ CommitFails(w)

Spec == Init /\ [][Next]_vars

\* The scheduler of a worker starts a batch again and again, and a batch goes
\* on as long as nothing fails.
FairSpec == Spec /\ \A w \in Scheduled : WF_vars(Batch(w))

-----------------------------------------------------------------------------
\* Every variable has its type, and no window is longer than its maxlen.
TypeOK ==
  /\ status \in [Conversation -> {"none", "active", "archived", "expired", "deleted"}]
  /\ deleted \in [Conversation -> BOOLEAN]
  /\ due \in Seq(Conversation) /\ turns \subseteq Call
  /\ call \in [Call -> Answers \cup {None}]
  /\ window \in [Worker -> [Key -> Seq(Call)]]
  /\ \A w \in Worker, c \in Key : Len(window[w][c]) <= Window
  /\ order \in [Worker -> Seq(Key)]
  /\ batch \in [Scheduled -> Batches]
  /\ owed \subseteq Conversation /\ torn \subseteq Key /\ cut \subseteq Call
  /\ faults \in 0..MaxFault

\* The turns of a conversation are listed by number (list_by_conversation), so
\* an answer that was given with another one in its history is listed after it,
\* unless the window the other took its number from was evicted while it waited.
AnswersFollowTheirHistory ==
  \A j, k \in turns :
    j \in ToSet(call[k].history) => call[j].number < call[k].number \/ j \in cut

\* While one worker answers, its window is not full, and the requests do not
\* overlap, no answer is refused its place in the table.
LoneAnswersAreStored ==
  \A k \in Call :
    At(k, "refused") =>
      \/ call[k].conv \in torn \/ ~call[k].alone \/ call[k].number > Window

\* get_turn_number is to give the number that is recorded next: an answer has a
\* number of its own among those in its history.
NumbersAdvance ==
  \A k \in Call : Asked(k) =>
    \A i \in 1..Len(call[k].history) : call[call[k].history[i]].number < call[k].number

\* Unless something failed, what the audit calls expired is expired, or is
\* about to be committed by a batch that has the row.
AuditedIsExpired == faults = 0 => owed \subseteq Locked

\* A conversation that falls due is expired or deleted at some time after,
\* however often its owner makes it active again before.
DueIsExpiredAtLast ==
  \A c \in Conversation : (c \in ToSet(due)) ~> (status[c] \in {"expired", "deleted"})
=============================================================================
