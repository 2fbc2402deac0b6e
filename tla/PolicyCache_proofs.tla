-------------------------- MODULE PolicyCache_proofs --------------------------
(***************************************************************************)
(* Proofs about the policy cache, for any number of workers and calls and  *)
(* any time to live: the types, and the two promises of its freshness.     *)
(***************************************************************************)
EXTENDS PolicyCache, TLAPS

\* A step of a call.
CallNext == \E c \in Call : \/ Begin(c) \/ AnswerCached(c)
                            \/ ReadProfile(c) \/ AnswerRead(c)

\* An action about one worker.
WorkerNext(w) == \/ \E v \in BOOLEAN : PatchCommit(w, v)
                 \/ PatchClear(w) \/ PatchPublish(w)
                 \/ Dispatch(w) \/ Subscribe(w) \/ Break(w)
                 \/ NoticeBreak(w) \/ Restart(w)

LEMMA NextByActor ==
  Next => CallNext \/ (\E w \in Worker : WorkerNext(w)) \/ DeleteProfile \/ Tick
BY DEF Next, CallNext, WorkerNext

USE TimesAreNatural, HomesAreWorkers, NoneIsNoSetting

LEMMA HorizonIsNatural == Horizon \in Nat /\ Slow <= Horizon
BY DEF Horizon

LEMMA OlderIsAnAge == ASSUME NEW n \in 0..Horizon PROVE Older(n) \in 0..Horizon
BY HorizonIsNatural DEF Older

\* The initial state has its types.
LEMMA TypeInit == Init => TypeOK
BY HorizonIsNatural DEF Init, TypeOK

\* Every step keeps the types.
LEMMA TypeStep == TypeOK /\ [Next]_vars => TypeOK'
<1> SUFFICES ASSUME TypeOK, [Next]_vars PROVE TypeOK'
  OBVIOUS
<1>1. CASE CallNext
  <2>1. ASSUME NEW c \in Call, Begin(c) PROVE TypeOK'
    BY <2>1 DEF Begin, TypeOK, ShouldBypass
  <2>2. ASSUME NEW c \in Call, AnswerCached(c) PROVE TypeOK'
    BY <2>2 DEF AnswerCached, TypeOK
  <2>3. ASSUME NEW c \in Call, ReadProfile(c) PROVE TypeOK'
    <3> DEFINE Record == [stage : {"lookup", "store"}, age : 0..Slow,
                          bypass : BOOLEAN, value : BOOLEAN]
    <3>1. call[c] \in Record
      BY <2>3 DEF ReadProfile, TypeOK
    <3>2. PICK v \in BOOLEAN :
            call' = [call EXCEPT ![c].stage = "store", ![c].value = v]
      BY <2>3 DEF ReadProfile
    <3>3. [call[c] EXCEPT !.stage = "store", !.value = v] \in Record
      BY <3>1
    <3>4. call' = [call EXCEPT ![c] = [call[c] EXCEPT !.stage = "store", !.value = v]]
      BY <3>2, <3>1 DEF TypeOK
    <3>5. call' \in [Call -> Record \cup {None}]
      BY <3>3, <3>4 DEF TypeOK
    <3> QED BY <2>3, <3>5 DEF ReadProfile, TypeOK
  <2>4. ASSUME NEW c \in Call, AnswerRead(c) PROVE TypeOK'
    <3>1. [value |-> call[c].value, age |-> call[c].age]
            \in [value : BOOLEAN, age : 0..Horizon]
      BY <2>4, HorizonIsNatural DEF AnswerRead, TypeOK
    <3> QED BY <2>4, <3>1 DEF AnswerRead, TypeOK
  <2> QED BY <1>1, <2>1, <2>2, <2>3, <2>4 DEF CallNext
<1>2. ASSUME NEW w \in Worker, WorkerNext(w) PROVE TypeOK'
  <2>1. ASSUME NEW v \in BOOLEAN, PatchCommit(w, v) PROVE TypeOK'
    BY <2>1, HorizonIsNatural DEF PatchCommit, TypeOK
  <2>2. CASE PatchClear(w)
    BY <2>2 DEF PatchClear, InvalidateCache, TypeOK
  <2>3. CASE PatchPublish(w)
    BY <2>3 DEF PatchPublish, Holding, TypeOK
  <2>4. CASE Dispatch(w)
    BY <2>4 DEF Dispatch, InvalidateCache, TypeOK
  <2>5. CASE Subscribe(w)
    BY <2>5 DEF Subscribe, TypeOK
  <2>6. CASE Break(w)
    BY <2>6 DEF Break, Holding, TypeOK
  <2>7. CASE NoticeBreak(w)
    BY <2>7 DEF NoticeBreak, TypeOK
  <2>8. CASE Restart(w)
    BY <2>8 DEF Restart, Holding, TypeOK
  <2> QED BY <1>2, <2>1, <2>2, <2>3, <2>4, <2>5, <2>6, <2>7, <2>8 DEF WorkerNext
<1>3. CASE DeleteProfile
  BY <1>3, HorizonIsNatural DEF DeleteProfile, TypeOK
<1>4. CASE Tick
  <2>1. ago' \in 0..Horizon
    BY <1>4, OlderIsAnAge, HorizonIsNatural DEF Tick, TypeOK
  <2>2. ASSUME NEW w \in Worker
        PROVE  cache'[w] \in [value : BOOLEAN, age : 0..Horizon] \cup {None}
    BY <1>4, OlderIsAnAge DEF Tick, TypeOK
  <2>3. ASSUME NEW c \in Call
        PROVE  call'[c] \in [stage : {"lookup", "store"}, age : 0..Slow,
                             bypass : BOOLEAN, value : BOOLEAN] \cup {None}
    BY <1>4 DEF Tick, TypeOK
  <2> QED BY <1>4, <2>1, <2>2, <2>3 DEF Tick, TypeOK
<1>5. CASE UNCHANGED vars
  BY <1>5 DEF vars, TypeOK
<1> QED BY <1>1, <1>2, <1>3, <1>4, <1>5, NextByActor

\* Settings, entries, subscriptions, messages, calls and PATCHes keep to their
\* types in every worker, whatever is lost, raced or restarted.
THEOREM TypeCorrect == Spec => []TypeOK
BY TypeInit, TypeStep, PTL DEF Spec

-----------------------------------------------------------------------------
(* What makes an entry trustworthy: whatever says TRUE is as old, at       *)
(* least, as the last time the profile exposed its viewers.  An age that   *)
(* has saturated says nothing, and no call can take such an entry.         *)
Exposing == profile = TRUE => ago = 0

EntriesKnowTheirAge ==
  \A w \in Worker :
    (cache[w] # None /\ cache[w].value = TRUE /\ cache[w].age < Horizon)
      => ago <= cache[w].age

ReadsKnowTheirAge ==
  \A c \in Call :
    (call[c] # None /\ call[c].stage = "store" /\ call[c].value = TRUE)
      => ago <= call[c].age

AgesAreTrue == Exposing /\ EntriesKnowTheirAge /\ ReadsKnowTheirAge

LEMMA AgesInit == Init => AgesAreTrue
BY DEF Init, AgesAreTrue, Exposing, EntriesKnowTheirAge, ReadsKnowTheirAge

\* A step that leaves the setting and its age alone, adds no entry and reads
\* nothing keeps the ages true.
LEMMA AgesStay ==
  ASSUME TypeOK, AgesAreTrue, UNCHANGED <<profile, ago>>,
         \A w \in Worker : cache'[w] = cache[w] \/ cache'[w] = None,
         \A c \in Call : call'[c] = call[c] \/ call'[c] = None
  PROVE  AgesAreTrue'
BY DEF AgesAreTrue, Exposing, EntriesKnowTheirAge, ReadsKnowTheirAge

LEMMA AgesStep == TypeOK /\ AgesAreTrue /\ [Next]_vars => AgesAreTrue'
<1> SUFFICES ASSUME TypeOK, AgesAreTrue, [Next]_vars PROVE AgesAreTrue'
  OBVIOUS
<1> USE DEF AgesAreTrue, Exposing, EntriesKnowTheirAge, ReadsKnowTheirAge
<1>1. CASE CallNext
  <2>1. ASSUME NEW c \in Call, Begin(c) PROVE AgesAreTrue'
    BY <2>1 DEF Begin, TypeOK
  <2>2. ASSUME NEW c \in Call, AnswerCached(c) PROVE AgesAreTrue'
    BY <2>2 DEF AnswerCached, TypeOK
  <2>3. ASSUME NEW c \in Call, ReadProfile(c) PROVE AgesAreTrue'
    BY <2>3, HorizonIsNatural DEF ReadProfile, TypeOK
  <2>4. ASSUME NEW c \in Call, AnswerRead(c) PROVE AgesAreTrue'
    <3>1. call[c].value = TRUE => ago <= call[c].age
      BY <2>4 DEF AnswerRead
    <3> QED BY <2>4, <3>1 DEF AnswerRead, TypeOK
  <2> QED BY <1>1, <2>1, <2>2, <2>3, <2>4 DEF CallNext
<1>2. ASSUME NEW w \in Worker, WorkerNext(w) PROVE AgesAreTrue'
  <2>1. ASSUME NEW v \in BOOLEAN, PatchCommit(w, v) PROVE AgesAreTrue'
    BY <2>1, HorizonIsNatural DEF PatchCommit, TypeOK
  <2>2. CASE PatchClear(w)
    BY <2>2, AgesStay DEF PatchClear, InvalidateCache, TypeOK
  <2>3. CASE PatchPublish(w)
    BY <2>3 DEF PatchPublish
  <2>4. CASE Dispatch(w)
    BY <2>4, AgesStay DEF Dispatch, InvalidateCache, TypeOK
  <2>5. CASE Subscribe(w)
    BY <2>5 DEF Subscribe
  <2>6. CASE Break(w)
    BY <2>6 DEF Break
  <2>7. CASE NoticeBreak(w)
    BY <2>7 DEF NoticeBreak
  <2>8. CASE Restart(w)
    BY <2>8, AgesStay DEF Restart, TypeOK
  <2> QED BY <1>2, <2>1, <2>2, <2>3, <2>4, <2>5, <2>6, <2>7, <2>8 DEF WorkerNext
<1>3. CASE DeleteProfile
  BY <1>3, HorizonIsNatural DEF DeleteProfile, TypeOK
<1>4. CASE Tick
  <2>1. Exposing'
    BY <1>4 DEF Tick
  <2>2. ASSUME NEW w \in Worker, cache'[w] # None, cache'[w].value = TRUE,
               cache'[w].age < Horizon
        PROVE  ago' <= cache'[w].age
    <3>1. /\ cache[w] # None /\ cache[w] \in [value : BOOLEAN, age : 0..Horizon]
          /\ cache'[w] = [cache[w] EXCEPT !.age = Older(@)]
      BY <1>4, <2>2 DEF Tick, TypeOK
    <3>2. cache[w].value = TRUE /\ cache[w].age < Horizon
          /\ cache'[w].age = cache[w].age + 1
      BY <3>1, <2>2, HorizonIsNatural DEF Older
    <3>3. ago <= cache[w].age
      BY <3>1, <3>2
    <3> QED BY <1>4, <3>1, <3>2, <3>3, HorizonIsNatural DEF Tick, Older, TypeOK
  <2>3. ASSUME NEW c \in Call, call'[c] # None, call'[c].stage = "store",
               call'[c].value = TRUE
        PROVE  ago' <= call'[c].age
    <3>1. /\ call[c] # None /\ call[c].stage = "store" /\ call[c].value = TRUE
          /\ call[c].age \in Nat /\ call'[c].age = call[c].age + 1
      BY <1>4, <2>3 DEF Tick, TypeOK
    <3>2. ago <= call[c].age
      BY <3>1
    <3> QED BY <1>4, <3>1, <3>2, HorizonIsNatural DEF Tick, Older, TypeOK
  <2> QED BY <2>1, <2>2, <2>3
<1>5. CASE UNCHANGED vars
  BY <1>5 DEF vars
<1> QED BY <1>1, <1>2, <1>3, <1>4, <1>5, NextByActor

\* The ages are true in every reachable state.
LEMMA AgesCorrect == Spec => [](TypeOK /\ AgesAreTrue)
<1>1. Init => TypeOK /\ AgesAreTrue
  BY TypeInit, AgesInit
<1>2. TypeOK /\ AgesAreTrue /\ [Next]_vars => (TypeOK /\ AgesAreTrue)'
  BY TypeStep, AgesStep
<1> QED BY <1>1, <1>2, PTL DEF Spec

\* Under any lost, late or raced invalidation, no call exposes viewers that
\* the profile has hidden for the time to live before the call began.
THEOREM ExposureIsBounded == Spec => ExposedWithinTTL
<1>1. TypeOK /\ AgesAreTrue =>
        \A c \in Call : Answers(c, TRUE) =>
          ago < TTL + call[c].age \/ ago <= call[c].age
  <2> SUFFICES ASSUME TypeOK, AgesAreTrue, NEW c \in Call, Answers(c, TRUE)
               PROVE  ago < TTL + call[c].age \/ ago <= call[c].age
    OBVIOUS
  <2>1. CASE AnswerCached(c) /\ cache[Home[c]].value = TRUE
    <3>1. /\ Home[c] \in Worker /\ cache[Home[c]] # None
          /\ cache[Home[c]].age < TTL + call[c].age
          /\ call[c].age \in 0..Slow
          /\ cache[Home[c]].age \in Nat
      BY <2>1 DEF AnswerCached, Hit, TypeOK
    <3>2. cache[Home[c]].age < Horizon
      BY <3>1 DEF Horizon
    <3> QED BY <2>1, <3>1, <3>2, HorizonIsNatural
            DEF AgesAreTrue, EntriesKnowTheirAge, TypeOK
  <2>2. CASE AnswerRead(c) /\ call[c].value = TRUE
    BY <2>2 DEF AnswerRead, AgesAreTrue, ReadsKnowTheirAge
  <2> QED BY <2>1, <2>2 DEF Answers
<1> QED BY <1>1, AgesCorrect, PTL DEF ExposedWithinTTL

\* A call that began while its worker knew itself cut off answers with what was
\* the setting during the call, never with an older entry.
THEOREM CutOffReadsThrough == Spec => DisconnectedReadsThrough
<1>1. TypeOK /\ AgesAreTrue =>
        \A c \in Call : Answers(c, TRUE) /\ call[c].bypass => ago <= call[c].age
  BY DEF Answers, AnswerCached, AnswerRead, Hit, AgesAreTrue, ReadsKnowTheirAge
<1> QED BY <1>1, AgesCorrect, PTL DEF DisconnectedReadsThrough

-----------------------------------------------------------------------------
(* ClearedOnceTold speaks of entries.  A value that was read and is not    *)
(* stored yet becomes an entry later, so it has to be told as well.        *)
StaleRead(w) ==
  profile = FALSE /\ \E c \in Filling(w) : call[c].value = TRUE

StaleIsTold ==
  \A w \in Worker : (Stale(w) \/ StaleRead(w)) /\ w \notin missed \cup raced
                      => OnItsWay(w)

LEMMA ToldInit == Init => StaleIsTold
BY DEF Init, StaleIsTold, Stale, StaleRead, Filling

\* A step that tells and forgets nothing may not make an entry or a read stale.
LEMMA ToldStays ==
  ASSUME StaleIsTold, UNCHANGED <<inbox, patch, missed, raced>>,
         \A w \in Worker : (Stale(w) \/ StaleRead(w))' => Stale(w) \/ StaleRead(w)
  PROVE  StaleIsTold'
BY DEF StaleIsTold, OnItsWay

LEMMA ToldStep == TypeOK /\ StaleIsTold /\ [Next]_vars => StaleIsTold'
<1> SUFFICES ASSUME TypeOK, StaleIsTold, [Next]_vars PROVE StaleIsTold'
  OBVIOUS
<1> USE DEF StaleIsTold, Stale, StaleRead, Filling, OnItsWay
<1>1. CASE CallNext
  <2>1. ASSUME NEW c \in Call, Begin(c) PROVE StaleIsTold'
    BY <2>1 DEF Begin, TypeOK
  <2>2. ASSUME NEW c \in Call, AnswerCached(c) PROVE StaleIsTold'
    BY <2>2 DEF AnswerCached, TypeOK
  <2>3. ASSUME NEW c \in Call, ReadProfile(c) PROVE StaleIsTold'
    <3>1. UNCHANGED <<profile, cache, inbox, patch, missed, raced>>
      BY <2>3 DEF ReadProfile
    <3>2. /\ call[c] # None
          /\ \A d \in Call : d # c => call'[d] = call[d]
          /\ call'[c].value = TRUE => profile = TRUE
      BY <2>3 DEF ReadProfile, TypeOK
    <3>3. ASSUME NEW w \in Worker, StaleRead(w)' PROVE StaleRead(w)
      <4>1. PICK d \in Call : /\ Home[d] = w /\ call'[d] # None
                              /\ call'[d].stage = "store" /\ call'[d].value = TRUE
        BY <3>3
      <4>2. d # c
        BY <3>1, <3>2, <3>3, <4>1
      <4> QED BY <3>1, <3>2, <3>3, <4>1, <4>2
    <3> QED BY <3>1, <3>3, ZenonT(40)
  <2>4. ASSUME NEW c \in Call, AnswerRead(c) PROVE StaleIsTold'
    <3>1. /\ UNCHANGED <<profile, inbox, patch, missed, raced>>
          /\ call[c] # None /\ call[c].stage = "store" /\ Home[c] \in Worker
      BY <2>4 DEF AnswerRead
    <3>2. ASSUME NEW w \in Worker, StaleRead(w)' PROVE StaleRead(w)
      BY <2>4, <3>2 DEF AnswerRead, TypeOK
    <3>3. ASSUME NEW w \in Worker, Stale(w)' PROVE Stale(w) \/ StaleRead(w)
      <4>1. CASE cache'[w] = cache[w]
        BY <3>1, <3>3, <4>1
      <4>2. CASE w = Home[c] /\ cache'[w] = [value |-> call[c].value, age |-> call[c].age]
        BY <3>1, <3>3, <4>2
      <4>3. \/ cache' = cache
            \/ cache' = [cache EXCEPT ![Home[c]] =
                            [value |-> call[c].value, age |-> call[c].age]]
        BY <2>4 DEF AnswerRead
      <4>4. CASE w = Home[c] /\ cache' # cache
        <5>1. cache' = [cache EXCEPT ![w] =
                          [value |-> call[c].value, age |-> call[c].age]]
          BY <4>3, <4>4
        <5>2. DOMAIN cache = Worker
          BY DEF TypeOK
        <5> QED BY <4>2, <4>4, <5>1, <5>2
      <4>5. CASE w # Home[c] \/ cache' = cache
        BY <4>1, <4>3, <4>5 DEF TypeOK
      <4> QED BY <4>4, <4>5
    <3>4. \A w \in Worker : (Stale(w) \/ StaleRead(w))' => Stale(w) \/ StaleRead(w)
      BY <3>2, <3>3
    <3> HIDE DEF StaleIsTold, Stale, StaleRead
    <3> QED BY <3>1, <3>4, ToldStays
  <2> QED BY <1>1, <2>1, <2>2, <2>3, <2>4 DEF CallNext
<1>2. ASSUME NEW w \in Worker, WorkerNext(w) PROVE StaleIsTold'
  <2>1. ASSUME NEW v \in BOOLEAN, PatchCommit(w, v) PROVE StaleIsTold'
    BY <2>1 DEF PatchCommit, TypeOK
  <2>2. CASE PatchClear(w)
    BY <2>2 DEF PatchClear, InvalidateCache, TypeOK
  <2>3. CASE PatchPublish(w)
    <3> SUFFICES ASSUME NEW u \in Worker, (Stale(u) \/ StaleRead(u))',
                        (u \notin missed \cup raced)'
                 PROVE  OnItsWay(u)'
      OBVIOUS
    <3>1. /\ patch[w] = "cleared" /\ patch' = [patch EXCEPT ![w] = None]
          /\ UNCHANGED <<profile, cache, call, raced>>
      BY <2>3 DEF PatchPublish
    <3>2. u \in Holding
      BY <3>1 DEF Holding
    <3>3. PICK reached \in SUBSET (Worker \ {w}) :
            /\ inbox' = [x \in Worker |-> IF x \in reached THEN inbox[x] + 1 ELSE inbox[x]]
            /\ missed' = missed \cup (Holding \ (reached \cup {w}))
      BY <2>3, ZenonT(40) DEF PatchPublish
    <3>4. CASE u = w
      BY <3>1, <3>3, <3>4 DEF TypeOK
    <3>5. CASE u # w
      <4>1. u \in reached
        BY <3>2, <3>3, <3>5
      <4>2. inbox[u] \in Nat /\ inbox'[u] = inbox[u] + 1
        BY <3>3, <4>1 DEF TypeOK
      <4> QED BY <4>2
    <3> QED BY <3>4, <3>5
  <2>4. CASE Dispatch(w)
    BY <2>4 DEF Dispatch, InvalidateCache, TypeOK
  <2>5. CASE Subscribe(w)
    BY <2>5 DEF Subscribe
  <2>6. CASE Break(w)
    <3> SUFFICES ASSUME NEW u \in Worker, (Stale(u) \/ StaleRead(u))',
                        (u \notin missed \cup raced)'
                 PROVE  OnItsWay(u)'
      OBVIOUS
    <3>1. /\ UNCHANGED <<profile, cache, call, patch, raced>>
          /\ inbox' = [inbox EXCEPT ![w] = 0]
          /\ missed' = IF inbox[w] > 0 THEN missed \cup (Holding \cap {w}) ELSE missed
      BY <2>6 DEF Break
    <3>2. OnItsWay(u) /\ u \in Holding
      BY <3>1 DEF Holding
    <3> QED BY <3>1, <3>2 DEF TypeOK
  <2>7. CASE NoticeBreak(w)
    BY <2>7 DEF NoticeBreak
  <2>8. CASE Restart(w)
    <3> SUFFICES ASSUME NEW u \in Worker, (Stale(u) \/ StaleRead(u))',
                        (u \notin missed \cup raced)'
                 PROVE  OnItsWay(u)'
      OBVIOUS
    <3>1. u # w
      BY <2>8 DEF Restart, TypeOK
    <3>2. Stale(u) \/ StaleRead(u)
      BY <2>8, <3>1 DEF Restart, TypeOK
    <3>3. u \in Holding
      BY <3>2 DEF Holding
    <3>4. patch[w] = None /\ u \notin missed \cup raced
      BY <2>8, <3>1, <3>3 DEF Restart
    <3> QED BY <2>8, <3>1, <3>2, <3>4 DEF Restart, TypeOK
  <2> QED BY <1>2, <2>1, <2>2, <2>3, <2>4, <2>5, <2>6, <2>7, <2>8 DEF WorkerNext
<1>3. CASE DeleteProfile
  BY <1>3 DEF DeleteProfile
<1>4. CASE Tick
  <2>1. ASSUME NEW w \in Worker, Stale(w)' PROVE Stale(w)
    BY <1>4, <2>1 DEF Tick, TypeOK
  <2>2. ASSUME NEW w \in Worker, StaleRead(w)' PROVE StaleRead(w)
    BY <1>4, <2>2 DEF Tick, TypeOK
  <2> QED BY <1>4, <2>1, <2>2 DEF Tick
<1>5. CASE UNCHANGED vars
  BY <1>5 DEF vars
<1> QED BY <1>1, <1>2, <1>3, <1>4, <1>5, NextByActor

\* A worker that missed no invalidation, and was not cleared between a read and
\* its store, has no stale entry once the invalidations are through: for any
\* number of workers, overlapping PATCHes, lost messages and restarts.
THEOREM ToldIsCleared == Spec => []ClearedOnceTold
<1>1. Init => TypeOK /\ StaleIsTold
  BY TypeInit, ToldInit
<1>2. TypeOK /\ StaleIsTold /\ [Next]_vars => (TypeOK /\ StaleIsTold)'
  BY TypeStep, ToldStep
<1>3. StaleIsTold => ClearedOnceTold
  BY DEF StaleIsTold, ClearedOnceTold
<1> QED BY <1>1, <1>2, <1>3, PTL DEF Spec
=============================================================================
