------------------------- MODULE Idempotency_proofs -------------------------
(***************************************************************************)
(* A key is reserved once, and its answers are true and agree, for any     *)
(* number of requests, keys and resources.                                 *)
(***************************************************************************)
EXTENDS Idempotency, TLAPS

(* The request holds the reservation of key k and has not written yet.     *)
Holds(r, k) ==
    request[r].step = "write" /\ request[r].reserved /\ request[r].key = k

(* Resource x was created under the reservation of key k.                  *)
CreatedUnder(x, k) ==
    created[x] # None /\ created[x].reserved /\ created[x].key = k

(* The reservation of a key is in the table, in one hand, or spent.        *)
ReservationInv ==
    \A k \in Key :
        /\ \A r \in Request : Holds(r, k) => records[k] # None
        /\ \A x \in Resource : CreatedUnder(x, k) => records[k] # None
        /\ \A r, q \in Request : Holds(r, k) /\ Holds(q, k) => r = q
        /\ \A r \in Request, x \in Resource : ~(Holds(r, k) /\ CreatedUnder(x, k))
        /\ \A x, y \in Resource : CreatedUnder(x, k) /\ CreatedUnder(y, k) => x = y

(* A request in flight has its key and body, one that has written also has *)
(* a response, and so has a completed record.                              *)
CarriesItsRequest(r) ==
    request[r].step # "idle" =>
        /\ request[r].key \in Key
        /\ request[r].body \in Body
        /\ request[r].step = "finalize" => request[r].response \in Resource

ResponsesInv ==
    /\ \A r \in Request : CarriesItsRequest(r)
    /\ \A k \in Key : records[k] # None /\ records[k].status = "completed"
                          => records[k].response \in Resource

IInv == TypeOK /\ ResponsesInv /\ ReservationInv

-----------------------------------------------------------------------------
(* The fields of a request in flight.                                      *)
LEMMA RequestTyping ==
    ASSUME TypeOK, NEW r \in Request
    PROVE  /\ request[r] \in InFlight
           /\ request[r].key \in Key \cup {None}
           /\ request[r].body \in Body \cup {None}
           /\ request[r].reserved \in BOOLEAN
           /\ request[r].response \in Resource \cup {None}
BY DEF TypeOK, InFlight

LEMMA IdleTyping == Idle \in InFlight
BY DEF Idle, InFlight

LEMMA RecordTyping ==
    ASSUME TypeOK, NEW k \in Key, records[k] # None
    PROVE  /\ records[k] \in Record
           /\ records[k].fingerprint \in Body
           /\ records[k].response \in Resource \cup {None}
BY DEF TypeOK, Record

LEMMA Initially == Init => IInv
<1> SUFFICES ASSUME Init PROVE IInv
  OBVIOUS
<1>1. TypeOK
  BY IdleTyping DEF Init, TypeOK
<1>2. ReservationInv /\ ResponsesInv
  BY DEF Init, ReservationInv, ResponsesInv, CarriesItsRequest, Holds,
         CreatedUnder, Idle
<1> QED
  BY <1>1, <1>2 DEF IInv

-----------------------------------------------------------------------------
(* Type correctness.                                                       *)

(* Ending a request, and letting it go on to its write.                    *)
LEMMA EndTyping ==
    ASSUME TypeOK, ResponsesInv, NEW r \in Request, End(r)
    PROVE  /\ request' \in [Request -> InFlight]
           /\ \A q \in Request : CarriesItsRequest(q)'
<1>1. request' \in [Request -> InFlight]
  BY IdleTyping DEF TypeOK, End
<1>2. \A q \in Request : CarriesItsRequest(q)'
  BY DEF TypeOK, End, ResponsesInv, CarriesItsRequest, Idle
<1> QED
  BY <1>1, <1>2

LEMMA GoToTyping ==
    ASSUME TypeOK, ResponsesInv, NEW r \in Request, NEW k \in Key, NEW b \in Body,
           NEW step \in {"read", "write"}, NEW reserved \in BOOLEAN,
           GoTo(r, step, k, b, reserved)
    PROVE  /\ request' \in [Request -> InFlight]
           /\ \A q \in Request : CarriesItsRequest(q)'
<1>1. request' \in [Request -> InFlight]
  BY DEF TypeOK, GoTo, InFlight
<1>2. \A q \in Request : CarriesItsRequest(q)'
  BY DEF TypeOK, GoTo, ResponsesInv, CarriesItsRequest
<1> QED
  BY <1>1, <1>2

(* An answer that names a resource keeps answers in its type.              *)
LEMMA ReplyTyping ==
    ASSUME TypeOK, NEW k \in Key, NEW b \in Body, NEW x \in Resource, Reply(k, b, x)
    PROVE  answers' \subseteq Answer
BY DEF TypeOK, Reply, Answer

Typing == TypeOK /\ ResponsesInv

LEMMA TypingStep == Typing /\ [Next]_vars => Typing'
<1> SUFFICES ASSUME TypeOK, ResponsesInv, [Next]_vars PROVE TypeOK' /\ ResponsesInv'
  BY DEF Typing
<1>1. ASSUME UNCHANGED vars PROVE TypeOK' /\ ResponsesInv'
  BY <1>1 DEF TypeOK, ResponsesInv, CarriesItsRequest, vars
<1>2. ASSUME NEW r \in Request, NEW k \in Key, NEW b \in Body, FindNoRecord(r, k, b)
      PROVE  TypeOK' /\ ResponsesInv'
  BY <1>2, GoToTyping DEF FindNoRecord, TypeOK, ResponsesInv
<1>3. ASSUME NEW r \in Request, NEW k \in Key, NEW b \in Body, Replay(r, k, b)
      PROVE  TypeOK' /\ ResponsesInv'
  <2>1. records[k].response \in Resource
    BY <1>3 DEF Replay, ResponsesInv
  <2>2. answers' \subseteq Answer
    BY <1>3, <2>1, ReplyTyping DEF Replay
  <2> QED
    BY <1>3, <2>2 DEF Replay, TypeOK, ResponsesInv, CarriesItsRequest
<1>4. ASSUME NEW r \in Request, NEW k \in Key, NEW b \in Body, CheckFails(r, k, b)
      PROVE  TypeOK' /\ ResponsesInv'
  BY <1>4, GoToTyping DEF CheckFails, Proceed, TypeOK, ResponsesInv
<1>5. ASSUME NEW r \in Request, Reserve(r)
      PROVE  TypeOK' /\ ResponsesInv'
  <2>1. request[r].key \in Key /\ request[r].body \in Body
    BY <1>5 DEF Reserve, ResponsesInv, CarriesItsRequest
  <2>2. request' \in [Request -> InFlight] /\ \A q \in Request : CarriesItsRequest(q)'
    BY <1>5, <2>1, GoToTyping DEF Reserve, Proceed
  <2>3. [ status |-> "in_progress", fingerprint |-> request[r].body,
          response |-> None ] \in Record
    BY <2>1 DEF Record
  <2>4. records' \in [Key -> Record \cup {None}]
    BY <1>5, <2>1, <2>3 DEF Reserve, TypeOK
  <2>5. \A k \in Key : records'[k] # None /\ records'[k].status = "completed"
                           => records'[k].response \in Resource
    BY <1>5, <2>1 DEF Reserve, TypeOK, ResponsesInv
  <2> QED
    BY <1>5, <2>2, <2>4, <2>5 DEF Reserve, TypeOK, ResponsesInv
<1>6. ASSUME NEW r \in Request, ReserveFails(r)
      PROVE  TypeOK' /\ ResponsesInv'
  <2>1. request[r].key \in Key /\ request[r].body \in Body
    BY <1>6 DEF ReserveFails, ResponsesInv, CarriesItsRequest
  <2> QED
    BY <1>6, <2>1, GoToTyping DEF ReserveFails, Proceed, TypeOK, ResponsesInv
<1>7. ASSUME NEW r \in Request, NEW x \in Resource, CommitWrite(r, x)
      PROVE  TypeOK' /\ ResponsesInv'
  <2>1. /\ request[r].key \in Key /\ request[r].body \in Body
        /\ request[r].reserved \in BOOLEAN
    BY <1>7, RequestTyping DEF CommitWrite, ResponsesInv, CarriesItsRequest
  <2>2. created' \in [Resource -> Write \cup {None}]
    BY <1>7, <2>1 DEF CommitWrite, TypeOK, Write
  <2>3. [request[r] EXCEPT !.step = "finalize", !.response = x] \in InFlight
    BY RequestTyping DEF InFlight
  <2>4. request' = [request EXCEPT ![r] =
                       [request[r] EXCEPT !.step = "finalize", !.response = x]]
    BY <1>7 DEF CommitWrite, TypeOK
  <2>5. request' \in [Request -> InFlight]
    BY <2>3, <2>4 DEF TypeOK
  <2>6. \A q \in Request : CarriesItsRequest(q)'
    <3> SUFFICES ASSUME NEW q \in Request PROVE CarriesItsRequest(q)'
      OBVIOUS
    <3>1. CASE q = r
      <4>1. request'[r] = [request[r] EXCEPT !.step = "finalize", !.response = x]
        BY <2>4 DEF TypeOK
      <4>2. /\ request'[r].key = request[r].key /\ request'[r].body = request[r].body
            /\ request'[r].response = x
        BY <4>1, RequestTyping DEF InFlight
      <4> QED
        BY <2>1, <3>1, <4>2 DEF CarriesItsRequest
    <3>2. CASE q # r
      BY <2>4, <3>2 DEF TypeOK, ResponsesInv, CarriesItsRequest
    <3> QED
      BY <3>1, <3>2
  <2> QED
    BY <1>7, <2>2, <2>5, <2>6 DEF CommitWrite, TypeOK, ResponsesInv
<1>8. ASSUME NEW r \in Request, WriteFails(r) \/ Crash(r)
      PROVE  TypeOK' /\ ResponsesInv'
  BY <1>8, EndTyping DEF WriteFails, Crash, TypeOK, ResponsesInv
<1>9. ASSUME NEW r \in Request, Finalize(r)
      PROVE  TypeOK' /\ ResponsesInv'
  <2> DEFINE k == request[r].key
  <2>1. /\ k \in Key /\ request[r].body \in Body /\ request[r].response \in Resource
    BY <1>9 DEF Finalize, ResponsesInv, CarriesItsRequest
  <2>2. answers' \subseteq Answer
    BY <1>9, <2>1, ReplyTyping DEF Finalize
  <2>3. CASE records[k] = None
    BY <1>9, <2>1, <2>2, <2>3, EndTyping DEF Finalize, TypeOK, ResponsesInv
  <2>4. CASE records[k] # None
    <3> DEFINE done == Completed(records[k], request[r].response)
    <3>1. records' = [records EXCEPT ![k] = done]
      BY <1>9, <2>1, <2>4 DEF Finalize, TypeOK
    <3>2. done \in Record /\ done.response \in Resource
      BY <2>1, <2>4, RecordTyping DEF Record, Completed
    <3> HIDE DEF done
    <3>3. records' \in [Key -> Record \cup {None}]
      BY <2>1, <3>1, <3>2 DEF TypeOK
    <3>4. \A l \in Key : records'[l] # None /\ records'[l].status = "completed"
                             => records'[l].response \in Resource
      BY <2>1, <3>1, <3>2 DEF TypeOK, ResponsesInv
    <3> QED
      BY <1>9, <2>2, <3>3, <3>4, EndTyping DEF Finalize, TypeOK, ResponsesInv
  <2> QED
    BY <2>3, <2>4
<1>10. ASSUME NEW r \in Request, FinalizeFails(r)
       PROVE  TypeOK' /\ ResponsesInv'
  <2>1. /\ request[r].key \in Key /\ request[r].body \in Body
        /\ request[r].response \in Resource
    BY <1>10 DEF FinalizeFails, ResponsesInv, CarriesItsRequest
  <2> QED
    BY <1>10, <2>1, EndTyping, ReplyTyping DEF FinalizeFails, TypeOK, ResponsesInv
<1>11. ASSUME NEW r \in Request, NEW k \in Key, NEW b \in Body, Conflict(r, k, b)
       PROVE  TypeOK' /\ ResponsesInv'
  BY <1>1, <1>11 DEF Conflict
<1> QED
  BY <1>1, <1>2, <1>3, <1>4, <1>5, <1>6, <1>7, <1>8, <1>9, <1>10, <1>11 DEF Next

-----------------------------------------------------------------------------
(* The reservation.                                                        *)

(* It is disturbed by no step that keeps the records and the resources     *)
(* where they are and gives no request a reservation.                      *)
LEMMA ReservationKept ==
    ASSUME ReservationInv, UNCHANGED created,
           \A k \in Key : records[k] # None => records'[k] # None,
           \A r \in Request, k \in Key : Holds(r, k)' => Holds(r, k)
    PROVE  ReservationInv'
<1>1. \A x \in Resource, k \in Key : CreatedUnder(x, k)' <=> CreatedUnder(x, k)
  BY DEF CreatedUnder
<1> QED
  BY <1>1 DEF ReservationInv

(* Going back to idle, on to a read, or on without the key reserves none.  *)
LEMMA EndReservesNothing ==
    ASSUME TypeOK, NEW r \in Request, End(r)
    PROVE  \A q \in Request, k \in Key : Holds(q, k)' => Holds(q, k)
BY DEF TypeOK, End, Idle, Holds

LEMMA GoToReservesNothing ==
    ASSUME TypeOK, NEW r \in Request, NEW step, NEW l, NEW b,
           GoTo(r, step, l, b, FALSE)
    PROVE  \A q \in Request, k \in Key : Holds(q, k)' => Holds(q, k)
BY DEF TypeOK, GoTo, Holds

LEMMA ReserveStep ==
    ASSUME Typing, ReservationInv, NEW r \in Request, Reserve(r)
    PROVE  ReservationInv'
<1> DEFINE l == request[r].key
<1>1. l \in Key /\ records[l] = None
  BY DEF Typing, Reserve, ResponsesInv, CarriesItsRequest
<1>2. \A k \in Key : /\ records[k] # None => records'[k] # None
                     /\ records'[l] # None
  <2>1. [ status |-> "in_progress", fingerprint |-> request[r].body,
          response |-> None ] \in Record
    BY DEF Typing, Reserve, ResponsesInv, CarriesItsRequest, Record
  <2> QED
    BY <1>1, <2>1, NoneIsNoValue DEF Reserve, Typing, TypeOK
<1>3. \A q \in Request, k \in Key :
          Holds(q, k)' <=> IF q = r THEN k = l ELSE Holds(q, k)
  BY DEF Reserve, Proceed, GoTo, Typing, TypeOK, Holds
<1>4. \A x \in Resource, k \in Key : CreatedUnder(x, k)' <=> CreatedUnder(x, k)
  BY DEF Reserve, CreatedUnder
<1>5. /\ \A q \in Request : ~Holds(q, l)
      /\ \A x \in Resource : ~CreatedUnder(x, l)
  BY <1>1 DEF ReservationInv
<1> HIDE DEF l
<1> QED
  BY <1>1, <1>2, <1>3, <1>4, <1>5 DEF ReservationInv

LEMMA CommitWriteStep ==
    ASSUME Typing, ReservationInv, NEW r \in Request, NEW x \in Resource,
           CommitWrite(r, x)
    PROVE  ReservationInv'
<1>1. request'[r] = [request[r] EXCEPT !.step = "finalize", !.response = x]
  BY DEF CommitWrite, Typing, TypeOK
<1>2. request'[r].step = "finalize"
  BY <1>1, RequestTyping DEF Typing, InFlight
<1>3. \A q \in Request, k \in Key : Holds(q, k)' <=> q # r /\ Holds(q, k)
  BY <1>2 DEF CommitWrite, Typing, TypeOK, Holds
<1>4. created'[x] = [ key |-> request[r].key, body |-> request[r].body,
                      reserved |-> request[r].reserved ]
  BY DEF CommitWrite, Typing, TypeOK
<1>5. \A y \in Resource, k \in Key :
          CreatedUnder(y, k)' => CreatedUnder(y, k) \/ (y = x /\ Holds(r, k))
  <2> SUFFICES ASSUME NEW y \in Resource, NEW k \in Key, CreatedUnder(y, k)'
               PROVE  CreatedUnder(y, k) \/ (y = x /\ Holds(r, k))
    OBVIOUS
  <2>1. CASE y = x
    BY <1>4, <2>1 DEF CommitWrite, CreatedUnder, Holds
  <2>2. CASE y # x
    BY <2>2 DEF CommitWrite, Typing, TypeOK, CreatedUnder
  <2> QED
    BY <2>1, <2>2
<1>6. UNCHANGED records /\ \A k \in Key : ~CreatedUnder(x, k)
  BY DEF CommitWrite, CreatedUnder
<1> QED
  BY <1>3, <1>5, <1>6 DEF ReservationInv

LEMMA FinalizeKeepsRecords ==
    ASSUME Typing, NEW r \in Request, Finalize(r)
    PROVE  \A k \in Key : records[k] # None =>
              /\ records'[k] # None
              /\ records'[k].fingerprint = records[k].fingerprint
              /\ records[k].status = "completed" => records'[k].status = "completed"
<1> SUFFICES ASSUME NEW k \in Key, records[k] # None
             PROVE  /\ records'[k] # None
                    /\ records'[k].fingerprint = records[k].fingerprint
                    /\ records[k].status = "completed"
                           => records'[k].status = "completed"
  OBVIOUS
<1>1. CASE k = request[r].key
  <2> DEFINE done == Completed(records[k], request[r].response)
  <2>1. records'[k] = done
    BY <1>1 DEF Finalize, Typing, TypeOK
  <2>2. /\ done \in Record
        /\ done.fingerprint = records[k].fingerprint
        /\ done.status = "completed"
    BY RecordTyping, RequestTyping DEF Typing, Completed, Record
  <2> HIDE DEF done
  <2> QED
    BY <2>1, <2>2, NoneIsNoValue
<1>2. CASE k # request[r].key
  BY <1>2 DEF Finalize, Typing, TypeOK
<1> QED
  BY <1>1, <1>2

LEMMA ReservationStep == Typing /\ ReservationInv /\ [Next]_vars => ReservationInv'
<1> SUFFICES ASSUME Typing, ReservationInv, [Next]_vars PROVE ReservationInv'
  OBVIOUS
<1>1. ASSUME UNCHANGED vars PROVE ReservationInv'
  BY <1>1, ReservationKept DEF vars, Holds
<1>2. ASSUME NEW r \in Request, NEW k \in Key, NEW b \in Body,
             \/ FindNoRecord(r, k, b) \/ Conflict(r, k, b)
             \/ Replay(r, k, b)       \/ CheckFails(r, k, b)
      PROVE  ReservationInv'
  <2>1. CASE FindNoRecord(r, k, b)
    BY <2>1, ReservationKept, GoToReservesNothing DEF Typing, FindNoRecord
  <2>2. CASE Conflict(r, k, b)
    BY <1>1, <2>2 DEF Conflict
  <2>3. CASE Replay(r, k, b)
    BY <2>3, ReservationKept DEF Replay, Holds
  <2>4. CASE CheckFails(r, k, b)
    BY <2>4, ReservationKept, GoToReservesNothing DEF Typing, CheckFails, Proceed
  <2> QED
    BY <1>2, <2>1, <2>2, <2>3, <2>4
<1>3. ASSUME NEW r \in Request, ReserveFails(r) PROVE ReservationInv'
  BY <1>3, ReservationKept, GoToReservesNothing DEF Typing, ReserveFails, Proceed
<1>4. ASSUME NEW r \in Request, WriteFails(r) \/ Crash(r) \/ FinalizeFails(r)
      PROVE  ReservationInv'
  BY <1>4, ReservationKept, EndReservesNothing
     DEF Typing, WriteFails, Crash, FinalizeFails
<1>5. ASSUME NEW r \in Request, Finalize(r) PROVE ReservationInv'
  BY <1>5, ReservationKept, EndReservesNothing, FinalizeKeepsRecords
     DEF Typing, Finalize
<1> QED
  BY <1>1, <1>2, <1>3, <1>4, <1>5, ReserveStep, CommitWriteStep DEF Next

-----------------------------------------------------------------------------
(* Every reachable state keeps the records, the resources, the requests    *)
(* and the answers within their types, whatever fails or overlaps.         *)
THEOREM TypeCorrect == Spec => []TypeOK
<1>1. Init => Typing
  BY Initially DEF IInv, Typing
<1>2. Typing /\ [Next]_vars => Typing'
  BY TypingStep
<1>3. Typing => TypeOK
  BY DEF Typing
<1> QED
  BY <1>1, <1>2, <1>3, PTL DEF Spec

LEMMA Inductive == Spec => []IInv
<1>1. Init => IInv
  BY Initially
<1>2. IInv /\ [Next]_vars => IInv'
  BY TypingStep, ReservationStep DEF IInv, Typing
<1> QED
  BY <1>1, <1>2, PTL DEF Spec

(* However the requests of a key overlap, and whatever fails, at most one  *)
(* of the writes made with it was made by a request that had reserved it.  *)
THEOREM OneReservation == Spec => []OneReservedWritePerKey
<1>1. IInv => OneReservedWritePerKey
  <2> SUFFICES ASSUME IInv, NEW x \in Resource, NEW y \in Resource,
                      created[x] # None, created[y] # None,
                      created[x].reserved, created[y].reserved,
                      created[x].key = created[y].key
               PROVE  x = y
    BY DEF OneReservedWritePerKey
  <2>1. created[x].key \in Key
    BY DEF IInv, TypeOK, Write
  <2> QED
    BY <2>1 DEF IInv, ReservationInv, CreatedUnder
<1> QED
  BY <1>1, Inductive, PTL

(* No step drops a record, changes the request it was reserved for or      *)
(* takes back that it is completed.                                        *)
THEOREM RecordsAreKept == Spec => RecordsStay
<1> DEFINE Kept == \A k \in Key : records[k] # None =>
                      /\ records'[k] # None
                      /\ records'[k].fingerprint = records[k].fingerprint
                      /\ records[k].status = "completed"
                             => records'[k].status = "completed"
<1>1. ASSUME Typing, [Next]_vars PROVE [Kept]_vars
  <2>1. ASSUME NEW r \in Request, Finalize(r) PROVE Kept
    BY <1>1, <2>1, FinalizeKeepsRecords
  <2>2. ASSUME NEW r \in Request, Reserve(r) PROVE Kept
    <3>1. request[r].key \in Key /\ records[request[r].key] = None
      BY <1>1, <2>2 DEF Typing, Reserve, ResponsesInv, CarriesItsRequest
    <3>2. \A k \in Key : records[k] # None => records'[k] = records[k]
      BY <1>1, <2>2, <3>1 DEF Typing, Reserve, TypeOK
    <3> QED
      BY <3>2
  <2>3. CASE UNCHANGED records
    BY <2>3
  <2> HIDE DEF Kept
  <2>4. CASE Next
    BY <2>1, <2>2, <2>3, <2>4, ZenonT(40)
       DEF Next, FindNoRecord, Conflict, Replay, CheckFails, ReserveFails,
           CommitWrite, WriteFails, FinalizeFails, Crash, vars
  <2> QED
    BY <1>1, <2>4
<1>2. Spec => []Typing
  <2>1. Init => Typing
    BY Initially DEF IInv, Typing
  <2> QED
    BY <2>1, TypingStep, PTL DEF Spec
<1> QED
  BY <1>1, <1>2, PTL DEF Spec, RecordsStay

-----------------------------------------------------------------------------
(* The answers.                                                            *)

(* The reservation is for the body its holder sends, before and after the  *)
(* write: mark_completed leaves the fingerprint as it was reserved.        *)
BodiesInv ==
    \A k \in Key :
        /\ \A r \in Request : Holds(r, k) => records[k].fingerprint = request[r].body
        /\ \A x \in Resource : CreatedUnder(x, k)
                                   => records[k].fingerprint = created[x].body

(* Resource x is committed, with key k, and with body b if under the       *)
(* reservation.                                                            *)
Names(k, b, x) ==
    /\ created[x] # None
    /\ created[x].key = k
    /\ created[x].reserved => created[x].body = b

(* What may become an answer names a write already: the answers given, the *)
(* responses of completed records, and those still to be finalized.        *)
AnswersInv ==
    /\ \A answer \in answers : Names(answer.key, answer.body, answer.resource)
    /\ \A k \in Key : records[k] # None /\ records[k].status = "completed"
                          => Names(k, records[k].fingerprint, records[k].response)
    /\ \A r \in Request : request[r].step = "finalize"
          => Names(request[r].key, request[r].body, request[r].response)

LEMMA AnswersInit == Init => BodiesInv /\ AnswersInv
BY DEF Init, BodiesInv, AnswersInv, Holds, CreatedUnder, Idle

(* The bodies are disturbed by no step that keeps the resources and the    *)
(* fingerprints, and gives no request a reservation.                       *)
LEMMA BodiesKept ==
    ASSUME IInv, BodiesInv, UNCHANGED created,
           \A k \in Key : records[k] # None
               => records'[k].fingerprint = records[k].fingerprint,
           \A r \in Request, k \in Key : Holds(r, k)'
               => Holds(r, k) /\ request'[r].body = request[r].body
    PROVE  BodiesInv'
<1>1. \A x \in Resource, k \in Key : CreatedUnder(x, k)' <=> CreatedUnder(x, k)
  BY DEF CreatedUnder
<1>2. \A k \in Key : /\ \A r \in Request : Holds(r, k) => records[k] # None
                     /\ \A x \in Resource : CreatedUnder(x, k) => records[k] # None
  BY DEF IInv, ReservationInv
<1> QED
  BY <1>1, <1>2 DEF BodiesInv

LEMMA EndHoldsLess ==
    ASSUME TypeOK, NEW r \in Request, End(r)
    PROVE  \A q \in Request :
              /\ \A k \in Key : Holds(q, k)'
                     => Holds(q, k) /\ request'[q].body = request[q].body
              /\ request'[q].step = "finalize" => request'[q] = request[q]
BY DEF TypeOK, End, Idle, Holds

LEMMA GoToHoldsLess ==
    ASSUME TypeOK, NEW r \in Request, NEW step \in {"read", "write"}, NEW l, NEW b,
           GoTo(r, step, l, b, FALSE)
    PROVE  \A q \in Request :
              /\ \A k \in Key : Holds(q, k)'
                     => Holds(q, k) /\ request'[q].body = request[q].body
              /\ request'[q].step = "finalize" => request'[q] = request[q]
BY DEF TypeOK, GoTo, Holds

(* The answers are disturbed by no step that keeps the resources, the      *)
(* records and the requests still to be finalized.                         *)
LEMMA AnswersKept ==
    ASSUME AnswersInv, UNCHANGED <<created, records, answers>>,
           \A q \in Request : request'[q].step = "finalize" => request'[q] = request[q]
    PROVE  AnswersInv'
BY DEF AnswersInv, Names

LEMMA ReserveAnswers ==
    ASSUME IInv, BodiesInv, AnswersInv, NEW r \in Request, Reserve(r)
    PROVE  BodiesInv' /\ AnswersInv'
<1> DEFINE l == request[r].key
           row == [ status |-> "in_progress", fingerprint |-> request[r].body,
                    response |-> None ]
<1>1. l \in Key /\ records[l] = None
  BY DEF IInv, Reserve, ResponsesInv, CarriesItsRequest
<1>2. records' = [records EXCEPT ![l] = row]
  BY DEF Reserve
<1>3. request' = [request EXCEPT ![r] =
                     [ step |-> "write", key |-> l, body |-> request[r].body,
                       reserved |-> TRUE, response |-> None ]]
  BY DEF Reserve, Proceed, GoTo
<1>4. UNCHANGED <<created, answers>>
  BY DEF Reserve
<1>5. /\ records \in [Key -> Record \cup {None}]
      /\ request \in [Request -> InFlight]
  BY DEF IInv, TypeOK
<1>6. /\ \A q \in Request : ~Holds(q, l)
      /\ \A x \in Resource : ~CreatedUnder(x, l)
  BY <1>1 DEF IInv, ReservationInv
<1>7. /\ records'[l].fingerprint = request'[r].body
      /\ records'[l].status = "in_progress"
      /\ \A k \in Key \ {l} : records'[k] = records[k]
      /\ \A q \in Request \ {r} : request'[q] = request[q]
      /\ request'[r].step = "write" /\ request'[r].key = l
  BY <1>1, <1>2, <1>3, <1>5
<1> HIDE DEF l, row
<1>8. BodiesInv'
  BY <1>4, <1>6, <1>7 DEF BodiesInv, Holds, CreatedUnder
<1>9. AnswersInv'
  BY <1>4, <1>7 DEF AnswersInv, Names
<1> QED
  BY <1>8, <1>9

LEMMA CommitWriteAnswers ==
    ASSUME IInv, BodiesInv, AnswersInv, NEW r \in Request, NEW x \in Resource,
           CommitWrite(r, x)
    PROVE  BodiesInv' /\ AnswersInv'
<1> DEFINE write == [ key |-> request[r].key, body |-> request[r].body,
                      reserved |-> request[r].reserved ]
<1>1. /\ created[x] = None /\ request[r].step = "write"
      /\ created' = [created EXCEPT ![x] = write]
      /\ UNCHANGED <<records, answers>>
  BY DEF CommitWrite
<1>2. request' = [request EXCEPT ![r] =
                     [request[r] EXCEPT !.step = "finalize", !.response = x]]
  BY DEF CommitWrite, IInv, TypeOK
<1>3. /\ created \in [Resource -> Write \cup {None}]
      /\ request \in [Request -> InFlight]
  BY DEF IInv, TypeOK
<1>4. request[r].key \in Key /\ request[r].body \in Body /\ request[r].reserved \in BOOLEAN
  BY <1>1, RequestTyping DEF IInv, ResponsesInv, CarriesItsRequest
<1>5. write \in Write /\ write # None
  <2>1. write \in Write
    BY <1>4 DEF Write
  <2> QED
    BY <2>1, NoneIsNoValue
<1>6. /\ created'[x] = write
      /\ \A y \in Resource \ {x} : created'[y] = created[y]
  BY <1>1, <1>3
<1>7. /\ request'[r].step = "finalize" /\ request'[r].response = x
      /\ request'[r].key = request[r].key /\ request'[r].body = request[r].body
      /\ \A q \in Request \ {r} : request'[q] = request[q]
  BY <1>2, <1>3, RequestTyping DEF InFlight, IInv
<1>8. /\ write.key = request[r].key /\ write.body = request[r].body
      /\ write.reserved = request[r].reserved
  OBVIOUS
<1> HIDE DEF write
<1>9. BodiesInv'
  BY <1>1, <1>6, <1>7, <1>8 DEF BodiesInv, Holds, CreatedUnder
<1>10. ASSUME NEW k, NEW b, NEW y \in Resource, Names(k, b, y)
       PROVE  Names(k, b, y)'
  BY <1>1, <1>6, <1>10 DEF Names
<1>11. Names(request[r].key, request[r].body, x)'
  BY <1>5, <1>6, <1>7, <1>8 DEF Names
<1>12. AnswersInv'
  <2>1. \A answer \in answers' : Names(answer.key, answer.body, answer.resource)'
    BY <1>1, <1>10 DEF AnswersInv, IInv, TypeOK, Answer
  <2>2. \A k \in Key : records'[k] # None /\ records'[k].status = "completed"
            => Names(k, records[k].fingerprint, records[k].response)'
    BY <1>1, <1>10 DEF AnswersInv, IInv, ResponsesInv
  <2>3. ASSUME NEW q \in Request, request'[q].step = "finalize"
        PROVE  Names(request[q].key, request[q].body, request[q].response)'
    <3>1. CASE q = r
      BY <1>7, <1>11, <3>1 DEF Names
    <3>2. CASE q # r
      <4>1. request'[q] = request[q]
        BY <1>7, <3>2
      <4>2. request[q].response \in Resource
        BY <2>3, <4>1 DEF IInv, ResponsesInv, CarriesItsRequest
      <4>3. Names(request[q].key, request[q].body, request[q].response)
        BY <2>3, <4>1 DEF AnswersInv
      <4> QED
        BY <4>1, <4>2, <4>3, <1>10 DEF Names
    <3> QED
      BY <3>1, <3>2
  <2> QED
    BY <2>1, <2>2, <2>3 DEF AnswersInv, Names
<1> QED
  BY <1>9, <1>12

LEMMA FinalizeAnswers ==
    ASSUME IInv, BodiesInv, AnswersInv, NEW r \in Request, Finalize(r)
    PROVE  BodiesInv' /\ AnswersInv'
<1> DEFINE l == request[r].key
           x == request[r].response
<1>1. l \in Key /\ x \in Resource /\ Names(l, request[r].body, x)
  BY DEF Finalize, IInv, ResponsesInv, CarriesItsRequest, AnswersInv
<1>2. /\ End(r) /\ UNCHANGED created
      /\ answers' = answers \cup {[ key |-> l, body |-> request[r].body, resource |-> x ]}
  BY DEF Finalize, Reply
<1>3. BodiesInv'
  BY <1>2, BodiesKept, EndHoldsLess, FinalizeKeepsRecords DEF IInv, Typing
<1>4. \A k, b, y : Names(k, b, y)' <=> Names(k, b, y)
  BY <1>2 DEF Names
<1>5. \A k \in Key \ {l} : records'[k] = records[k]
  BY <1>1 DEF Finalize, IInv, TypeOK
<1>6. records[l] = None => records'[l] = None
  BY <1>1 DEF Finalize, IInv, TypeOK
<1>7. records[l] # None => /\ records'[l].response = x
                           /\ records'[l].fingerprint = records[l].fingerprint
  BY <1>1 DEF Finalize, Completed, IInv, TypeOK
<1>8. records[l] # None => Names(l, records[l].fingerprint, x)
  BY <1>1 DEF Names, BodiesInv, CreatedUnder
<1>9. \A q \in Request : request'[q].step = "finalize" => request'[q] = request[q]
  BY <1>2, EndHoldsLess DEF IInv
<1> HIDE DEF l, x
<1>10. \A answer \in answers' : Names(answer.key, answer.body, answer.resource)
  BY <1>1, <1>2 DEF AnswersInv
<1>11. \A k \in Key : records'[k] # None /\ records'[k].status = "completed"
           => Names(k, records'[k].fingerprint, records'[k].response)
  BY <1>5, <1>6, <1>7, <1>8 DEF AnswersInv
<1>12. \A q \in Request : request'[q].step = "finalize"
           => Names(request'[q].key, request'[q].body, request'[q].response)
  BY <1>9 DEF AnswersInv
<1>13. AnswersInv'
  BY <1>4, <1>10, <1>11, <1>12 DEF AnswersInv
<1> QED
  BY <1>3, <1>13

LEMMA AnswersStep ==
    IInv /\ BodiesInv /\ AnswersInv /\ [Next]_vars => BodiesInv' /\ AnswersInv'
<1> SUFFICES ASSUME IInv, BodiesInv, AnswersInv, [Next]_vars
             PROVE  BodiesInv' /\ AnswersInv'
  OBVIOUS
<1> USE DEF IInv
<1>1. ASSUME UNCHANGED vars PROVE BodiesInv' /\ AnswersInv'
  BY <1>1 DEF vars, BodiesInv, AnswersInv, Holds, CreatedUnder, Names
<1>2. ASSUME NEW r \in Request, NEW k \in Key, NEW b \in Body, FindNoRecord(r, k, b)
      PROVE  BodiesInv' /\ AnswersInv'
  BY <1>2, GoToHoldsLess, BodiesKept, AnswersKept DEF FindNoRecord
<1>3. ASSUME NEW r \in Request, NEW k \in Key, NEW b \in Body, Conflict(r, k, b)
      PROVE  BodiesInv' /\ AnswersInv'
  BY <1>1, <1>3 DEF Conflict
<1>4. ASSUME NEW r \in Request, NEW k \in Key, NEW b \in Body, Replay(r, k, b)
      PROVE  BodiesInv' /\ AnswersInv'
  <2>1. Names(k, b, records[k].response)
    BY <1>4 DEF Replay, AnswersInv
  <2>2. /\ answers' = answers \cup {[ key |-> k, body |-> b,
                                      resource |-> records[k].response ]}
        /\ UNCHANGED <<records, created, request>>
    BY <1>4 DEF Replay, Reply
  <2>3. BodiesInv'
    BY <2>2 DEF BodiesInv, Holds, CreatedUnder
  <2>4. AnswersInv'
    BY <2>1, <2>2 DEF AnswersInv, Names
  <2> QED
    BY <2>3, <2>4
<1>5. ASSUME NEW r \in Request, NEW k \in Key, NEW b \in Body, CheckFails(r, k, b)
      PROVE  BodiesInv' /\ AnswersInv'
  BY <1>5, GoToHoldsLess, BodiesKept, AnswersKept DEF CheckFails, Proceed
<1>6. ASSUME NEW r \in Request, ReserveFails(r)
      PROVE  BodiesInv' /\ AnswersInv'
  BY <1>6, GoToHoldsLess, BodiesKept, AnswersKept DEF ReserveFails, Proceed
<1>7. ASSUME NEW r \in Request, WriteFails(r) \/ Crash(r)
      PROVE  BodiesInv' /\ AnswersInv'
  BY <1>7, EndHoldsLess, BodiesKept, AnswersKept DEF WriteFails, Crash
<1>8. ASSUME NEW r \in Request, FinalizeFails(r)
      PROVE  BodiesInv' /\ AnswersInv'
  <2>1. Names(request[r].key, request[r].body, request[r].response)
    BY <1>8 DEF FinalizeFails, AnswersInv
  <2>2. /\ End(r) /\ UNCHANGED <<records, created>>
        /\ answers' = answers \cup {[ key |-> request[r].key, body |-> request[r].body,
                                      resource |-> request[r].response ]}
    BY <1>8 DEF FinalizeFails, Reply
  <2>3. BodiesInv'
    BY <2>2, EndHoldsLess, BodiesKept
  <2>4. \A q \in Request : request'[q].step = "finalize" => request'[q] = request[q]
    BY <2>2, EndHoldsLess
  <2>5. AnswersInv'
    BY <2>1, <2>2, <2>4 DEF AnswersInv, Names
  <2> QED
    BY <2>3, <2>5
<1> QED
  BY <1>1, <1>2, <1>3, <1>4, <1>5, <1>6, <1>7, <1>8,
     ReserveAnswers, CommitWriteAnswers, FinalizeAnswers DEF Next

LEMMA AnswersHold == Spec => [](IInv /\ BodiesInv /\ AnswersInv)
BY AnswersInit, AnswersStep, Inductive, PTL DEF Spec

(* What a client is told was written is committed, with the client's key,  *)
(* for any number of requests, whatever overlaps, fails or stops.          *)
THEOREM AnswersAreTrue == Spec => []AnswersNameWrites
<1>1. AnswersInv => AnswersNameWrites
  BY DEF AnswersInv, Names, AnswersNameWrites
<1> QED
  BY <1>1, AnswersHold, PTL

(* As long as no write was let through with a key, all its answers name    *)
(* one resource, made from the body each of the clients sent.              *)
THEOREM AnswersDoAgree == Spec => []AnswersAgree
<1>1. IInv /\ AnswersInv => AnswersAgree
  <2> SUFFICES ASSUME IInv, AnswersInv, NEW one \in answers, NEW other \in answers,
                      one.key = other.key,
                      \A x \in Resource : created[x] # None /\ created[x].key = one.key
                                              => created[x].reserved
               PROVE  /\ one.resource = other.resource
                      /\ one.body = created[one.resource].body
    BY DEF AnswersAgree
  <2>1. /\ one.key \in Key /\ one.resource \in Resource
        /\ other.resource \in Resource
    BY DEF IInv, TypeOK, Answer
  <2>2. /\ Names(one.key, one.body, one.resource)
        /\ Names(one.key, other.body, other.resource)
    BY DEF AnswersInv
  <2>3. CreatedUnder(one.resource, one.key) /\ CreatedUnder(other.resource, one.key)
    BY <2>1, <2>2 DEF Names, CreatedUnder
  <2> QED
    BY <2>1, <2>2, <2>3 DEF IInv, ReservationInv, Names, CreatedUnder
<1> QED
  BY <1>1, AnswersHold, PTL
=============================================================================
