---------------------------- MODULE Idempotency ----------------------------
(***************************************************************************)
(* IdempotencyService as POST /documents and POST /documents/{id}/versions *)
(* use it: check_and_replay, the write, finalize, each a transaction of    *)
(* its own.  Between them the process may stop, the write may fail, and    *)
(* the store of the keys may fail, in which case the service lets the      *)
(* request through.                                                        *)
(*                                                                         *)
(* A key stands for (idempotency_key, actor_id, resource_action), a body   *)
(* for what the fingerprint hashes.  mark_failed is left out: no code      *)
(* calls it, so no record is ever "failed".                                *)
(***************************************************************************)
CONSTANTS
    Request,        \* requests being served at the same time
    Key,            \* idempotency keys
    Body,           \* request bodies
    Resource,       \* ids of the documents or versions created
    StoreMayFail,   \* whether statements on idempotency_records may fail
    None            \* no record, no response

VARIABLES
    records,    \* idempotency_records, by key
    created,    \* the rows the writes have committed, by their id
    request,    \* where each request in flight is
    answers     \* the successful answers given so far

vars == <<records, created, request, answers>>

-----------------------------------------------------------------------------
Record == [ status      : {"in_progress", "completed"},
            fingerprint : Body,
            response    : Resource \cup {None} ]

(* What the write commits, and whether its request held the key.           *)
Write == [ key : Key, body : Body, reserved : BOOLEAN ]

InFlight == [ step     : {"idle", "read", "write", "finalize"},
              key      : Key \cup {None},
              body     : Body \cup {None},
              reserved : BOOLEAN,
              response : Resource \cup {None} ]

Idle == [ step |-> "idle", key |-> None, body |-> None, reserved |-> FALSE,
          response |-> None ]

Answer == [ key : Key, body : Body, resource : Resource ]

ASSUME NoneIsNoValue ==
    /\ None \notin Key \cup Body \cup Resource
    /\ \A row \in Record \cup Write : row # None

ASSUME StoreMayFailIsFlag == StoreMayFail \in BOOLEAN

Init ==
    /\ records = [k \in Key |-> None]
    /\ created = [x \in Resource |-> None]
    /\ request = [r \in Request |-> Idle]
    /\ answers = {}

End(r) == request' = [request EXCEPT ![r] = Idle]

(* The router returns the response to the client.                          *)
Reply(k, b, x) == answers' = answers \cup {[ key |-> k, body |-> b, resource |-> x ]}

(* The request goes on to a step, with what it has learned of its key.     *)
GoTo(r, step, k, b, reserved) ==
    request' = [request EXCEPT ![r] = [ step |-> step, key |-> k, body |-> b,
                                        reserved |-> reserved, response |-> None ]]

Proceed(r, k, b, reserved) == GoTo(r, "write", k, b, reserved)

(* The record mark_completed leaves, over any record of the key.           *)
Completed(record, x) == [ status |-> "completed", fingerprint |-> record.fingerprint,
                          response |-> x ]

-----------------------------------------------------------------------------
(* check_and_replay: SELECT the record of the key.                         *)

(* No record: on to the reservation.                                       *)
FindNoRecord(r, k, b) ==
    /\ request[r].step = "idle"
    /\ records[k] = None
    /\ GoTo(r, "read", k, b, FALSE)
    /\ UNCHANGED <<records, created, answers>>

(* Mutant: the fingerprint is not compared.                                *)
ReplayAnyBody(r, k, b) ==
    /\ request[r].step = "idle"
    /\ records[k] # None
    /\ records[k].status = "completed"
    /\ Reply(k, b, records[k].response)
    /\ UNCHANGED <<records, created, request>>

(* A record in progress, or of a different request: 409.                   *)
Conflict(r, k, b) ==
    /\ request[r].step = "idle"
    /\ records[k] # None
    /\ records[k].status = "in_progress" \/ records[k].fingerprint # b
    /\ UNCHANGED vars

(* A completed record of the same request: its response again.             *)
Replay(r, k, b) ==
    /\ request[r].step = "idle"
    /\ records[k] # None
    /\ records[k].status = "completed"
    /\ records[k].fingerprint = b
    /\ Reply(k, b, records[k].response)
    /\ UNCHANGED <<records, created, request>>

(* Mutant: INSERT ... ON CONFLICT DO UPDATE.                               *)
ReserveOverwrites(r) ==
    LET k == request[r].key IN
    /\ request[r].step = "read"
    /\ records' = [records EXCEPT ![k] = [ status |-> "in_progress",
                                           fingerprint |-> request[r].body,
                                           response |-> None ]]
    /\ Proceed(r, k, request[r].body, TRUE)
    /\ UNCHANGED <<created, answers>>

(* create_in_progress and the commit.                                      *)
Reserve(r) ==
    LET k == request[r].key IN
    /\ request[r].step = "read"
    /\ records[k] = None
    /\ records' = [records EXCEPT ![k] = [ status |-> "in_progress",
                                           fingerprint |-> request[r].body,
                                           response |-> None ]]
    /\ Proceed(r, k, request[r].body, TRUE)
    /\ UNCHANGED <<created, answers>>

(* Another request reserved the key since, or the store fails: the unique  *)
(* violation is an exception like any other, and the service fails open.   *)
ReserveFails(r) ==
    /\ request[r].step = "read"
    /\ records[request[r].key] # None \/ StoreMayFail
    /\ Proceed(r, request[r].key, request[r].body, FALSE)
    /\ UNCHANGED <<records, created, answers>>

(* The store fails on the SELECT, whatever the record says.                *)
CheckFails(r, k, b) ==
    /\ StoreMayFail
    /\ request[r].step = "idle"
    /\ Proceed(r, k, b, FALSE)
    /\ UNCHANGED <<records, created, answers>>

-----------------------------------------------------------------------------
(* Mutant: the record is completed in a transaction before the write's,    *)
(* and the process may stop between the two.                               *)
CommitWriteAfterFinalize(r, x) ==
    LET k == request[r].key IN
    /\ request[r].step = "write"
    /\ created[x] = None
    /\ records' = IF records[k] = None THEN records
                  ELSE [records EXCEPT ![k] = Completed(records[k], x)]
    /\ \/ End(r) /\ UNCHANGED created
       \/ /\ created' = [created EXCEPT ![x] = [ key |-> k, body |-> request[r].body,
                                                reserved |-> request[r].reserved ]]
          /\ request' = [request EXCEPT ![r].step = "finalize", ![r].response = x]
    /\ UNCHANGED answers

(* The write of the service, committed.                                    *)
CommitWrite(r, x) ==
    /\ request[r].step = "write"
    /\ created[x] = None
    /\ created' = [created EXCEPT ![x] = [ key |-> request[r].key,
                                           body |-> request[r].body,
                                           reserved |-> request[r].reserved ]]
    /\ request' = [request EXCEPT ![r].step = "finalize", ![r].response = x]
    /\ UNCHANGED <<records, answers>>

(* The write is refused or fails: the router propagates the exception and  *)
(* leaves the record as it is.                                             *)
WriteFails(r) ==
    /\ request[r].step = "write"
    /\ End(r)
    /\ UNCHANGED <<records, created, answers>>

(* mark_completed over whatever record the key has, if it has one: the     *)
(* UPDATE carries no fingerprint.                                          *)
Finalize(r) ==
    LET k == request[r].key IN
    /\ request[r].step = "finalize"
    /\ records' = IF records[k] = None THEN records
                  ELSE [records EXCEPT ![k] = Completed(records[k], request[r].response)]
    /\ Reply(k, request[r].body, request[r].response)
    /\ End(r)
    /\ UNCHANGED created

(* The store fails: only logged.                                           *)
FinalizeFails(r) ==
    /\ StoreMayFail
    /\ request[r].step = "finalize"
    /\ Reply(request[r].key, request[r].body, request[r].response)
    /\ End(r)
    /\ UNCHANGED <<records, created>>

(* The worker stops between two transactions, and the client sees no       *)
(* answer.                                                                 *)
Crash(r) ==
    /\ request[r].step # "idle"
    /\ End(r)
    /\ UNCHANGED <<records, created, answers>>

Next ==
    \E r \in Request :
        \/ \E k \in Key, b \in Body : 
              \/ FindNoRecord(r, k, b) \/ Conflict(r, k, b)
              \/ Replay(r, k, b)       \/ CheckFails(r, k, b)
        \/ Reserve(r) \/ ReserveFails(r)
        \/ \E x \in Resource : CommitWrite(r, x)
        \/ WriteFails(r) \/ Finalize(r) \/ FinalizeFails(r) \/ Crash(r)

Spec == Init /\ [][Next]_vars

-----------------------------------------------------------------------------
(* Every variable keeps to its type.                                       *)
TypeOK ==
    /\ records \in [Key -> Record \cup {None}]
    /\ created \in [Resource -> Write \cup {None}]
    /\ request \in [Request -> InFlight]
    /\ answers \subseteq Answer

(* A key is reserved once: of all the writes made with it, at most one was *)
(* made by the request that holds it.  The others were let through because *)
(* the store failed or the reservation came too late.                      *)
OneReservedWritePerKey ==
    \A x, y \in Resource :
        /\ x # y
        /\ created[x] # None /\ created[y] # None
        /\ created[x].reserved /\ created[y].reserved
        => created[x].key # created[y].key

(* What a client is told exists does exist, and was created with its key:  *)
(* no crash, failure or overlap makes a record answer for a write that was *)
(* not committed.                                                          *)
AnswersNameWrites ==
    \A answer \in answers :
        /\ created[answer.resource] # None
        /\ created[answer.resource].key = answer.key

(* A record is completed for good, and keeps the request it was reserved   *)
(* for.                                                                    *)
RecordsStay ==
    [][\A k \in Key : records[k] # None =>
          /\ records'[k] # None
          /\ records'[k].fingerprint = records[k].fingerprint
          /\ records[k].status = "completed" => records'[k].status = "completed"]_vars

(* As long as no write was let through with a key, all its answers name    *)
(* one resource, created from the very body the client sent: through       *)
(* overlaps, crashes, failed writes and failing finalizations.             *)
AnswersAgree ==
    \A one, other \in answers :
        /\ one.key = other.key
        /\ \A x \in Resource : created[x] # None /\ created[x].key = one.key
                                  => created[x].reserved
        => /\ one.resource = other.resource
           /\ one.body = created[one.resource].body
=============================================================================
