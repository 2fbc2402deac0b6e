------------------------------ MODULE PolicyCache ------------------------------
(***************************************************************************)
(* The per-worker cache of one scope profile's expose_viewers setting      *)
(* (app/services/scope_profile_policy.py), the settings PATCH that makes   *)
(* it old (app/api/v1/scope_profiles.py) and the Valkey broadcast that     *)
(* tells the other workers (app/cache/pubsub.py).                          *)
(*                                                                         *)
(* Time is relative: every cached entry and every call carries its age in  *)
(* ticks, and one tick ages them all.  Ages saturate at Horizon, from      *)
(* where on nothing can tell them apart.                                   *)
(***************************************************************************)
EXTENDS Naturals

CONSTANTS Worker,    \* worker processes
          Call,      \* threads answering should_expose_viewers
          Home,      \* Call -> the worker the thread belongs to
          TTL,       \* SCOPE_PROFILE_POLICY_CACHE_TTL_SEC, in ticks
          Slow,      \* bound: a call ends within this many ticks
          MaxInbox,  \* bound: messages under way to one worker
          FailOpen,  \* VALKEY_FAIL_OPEN_FEATURES names scope_policy
          Gone,      \* the profile's row is deleted
          None       \* no entry, no request

ASSUME TimesAreNatural == TTL \in Nat /\ Slow \in Nat /\ MaxInbox \in Nat
ASSUME HomesAreWorkers == Home \in [Call -> Worker]
ASSUME NoneIsNoSetting ==
  {Gone, None} \cap BOOLEAN = {} /\ None \notin {"committed", "cleared"}

VARIABLES profile,   \* the committed setting, or Gone
          ago,       \* history: ticks since the setting was last TRUE
          cache,     \* _cache: Worker -> [value, age] or None
          link,      \* subscription: "up", "broken" (not noticed yet), "down"
          inbox,     \* invalidations under way to a worker
          call,      \* Call -> the call it is making, or None
          patch,     \* Worker -> where its settings PATCH stands, or None
          missed,    \* history: workers an invalidation due to them never reached
          raced      \* history: workers cleared while a call had read

vars == <<profile, ago, cache, link, inbox, call, patch, missed, raced>>

Horizon == TTL + Slow

Older(n) == IF n < Horizon THEN n + 1 ELSE n

\* should_bypass_cache
ShouldBypass(w) == ~FailOpen /\ link[w] = "down"

\* Calls of w that have read the profile and not stored it yet.
Filling(w) == {c \in Call : Home[c] = w /\ call[c] # None /\ call[c].stage = "store"}

\* Workers that hold a value of the profile, or are about to.
Holding == {w \in Worker : cache[w] # None \/ Filling(w) # {}}

\* What a cached entry that is young enough for call c answers.
Hit(c) ==
  LET w == Home[c]
  IN  /\ TTL > 0 /\ ~call[c].bypass
      /\ cache[w] # None
      /\ cache[w].age < TTL + call[c].age

-----------------------------------------------------------------------------
\* _get_expose_viewers_for_profile: now_ts and bypass come first.
Begin(c) ==
  /\ call[c] = None
  /\ call' = [call EXCEPT ![c] = [stage |-> "lookup", age |-> 0,
                                  bypass |-> ShouldBypass(Home[c]), value |-> FALSE]]
  /\ UNCHANGED <<profile, ago, cache, link, inbox, patch, missed, raced>>

\* Mutant: a hit makes the entry young again.
AnswerCachedAndRenew(c) ==
  /\ call[c] # None /\ call[c].stage = "lookup"
  /\ Hit(c)
  /\ cache' = [cache EXCEPT ![Home[c]].age = call[c].age]
  /\ call' = [call EXCEPT ![c] = None]
  /\ UNCHANGED <<profile, ago, link, inbox, patch, missed, raced>>

\* A fresh entry answers the call.
AnswerCached(c) ==
  /\ call[c] # None /\ call[c].stage = "lookup"
  /\ Hit(c)
  /\ call' = [call EXCEPT ![c] = None]
  /\ UNCHANGED <<profile, ago, cache, link, inbox, patch, missed, raced>>

\* Otherwise the row is read.  No row, or a failing database: FALSE.
ReadProfile(c) ==
  /\ call[c] # None /\ call[c].stage = "lookup"
  /\ ~Hit(c)
  /\ \E v \in BOOLEAN :
       /\ v = TRUE => profile = TRUE
       /\ call' = [call EXCEPT ![c].stage = "store", ![c].value = v]
  /\ UNCHANGED <<profile, ago, cache, link, inbox, patch, missed, raced>>

\* Mutant: the time of the store is taken, not the time of the call.
AnswerReadStampedLate(c) ==
  /\ call[c] # None /\ call[c].stage = "store"
  /\ cache' = IF TTL > 0 /\ ~call[c].bypass
              THEN [cache EXCEPT ![Home[c]] = [value |-> call[c].value, age |-> 0]]
              ELSE cache
  /\ call' = [call EXCEPT ![c] = None]
  /\ UNCHANGED <<profile, ago, link, inbox, patch, missed, raced>>

\* The value read is cached under the time the call began, and answered.
AnswerRead(c) ==
  /\ call[c] # None /\ call[c].stage = "store"
  /\ cache' = IF TTL > 0 /\ ~call[c].bypass
              THEN [cache EXCEPT ![Home[c]] =
                      [value |-> call[c].value, age |-> call[c].age]]
              ELSE cache
  /\ call' = [call EXCEPT ![c] = None]
  /\ UNCHANGED <<profile, ago, link, inbox, patch, missed, raced>>

-----------------------------------------------------------------------------
\* PATCH settings, first its transaction.
PatchCommit(w, v) ==
  /\ patch[w] = None /\ profile # Gone
  /\ profile' = v
  /\ ago' = IF profile = TRUE \/ v = TRUE THEN 0 ELSE ago
  /\ patch' = [patch EXCEPT ![w] = "committed"]
  /\ UNCHANGED <<cache, link, inbox, call, missed, raced>>

\* The entry of w is dropped, by its own PATCH or by a message.
InvalidateCache(w) ==
  /\ cache' = [cache EXCEPT ![w] = None]
  /\ raced' = IF Filling(w) = {} THEN raced \ {w} ELSE raced \cup {w}
  /\ missed' = missed \ {w}

\* Mutant: the entry is left to the broadcast, which skips its sender.
PatchClearLeftToBroadcast(w) ==
  /\ patch[w] = "committed"
  /\ patch' = [patch EXCEPT ![w] = "cleared"]
  /\ UNCHANGED <<profile, ago, cache, link, inbox, call, missed, raced>>

\* invalidate_cache(profile_id, broadcast=True): the worker's own entry ...
PatchClear(w) ==
  /\ patch[w] = "committed"
  /\ InvalidateCache(w)
  /\ patch' = [patch EXCEPT ![w] = "cleared"]
  /\ UNCHANGED <<profile, ago, link, inbox, call>>

\* ... then publish_invalidate, which reaches the live subscriptions or, when
\* Valkey fails, none.
PatchPublish(w) ==
  /\ patch[w] = "cleared"
  /\ \E sent \in BOOLEAN :
       LET reached == IF sent THEN {u \in Worker \ {w} : link[u] = "up"} ELSE {}
       IN  /\ \A u \in reached : inbox[u] < MaxInbox
           /\ inbox' = [u \in Worker |-> IF u \in reached THEN inbox[u] + 1 ELSE inbox[u]]
           /\ missed' = missed \cup (Holding \ (reached \cup {w}))
  /\ patch' = [patch EXCEPT ![w] = None]
  /\ UNCHANGED <<profile, ago, cache, link, call, raced>>

\* DELETE /scope-profiles/{id} commits and tells nobody.
DeleteProfile ==
  /\ profile # Gone
  /\ profile' = Gone
  /\ ago' = IF profile = TRUE THEN 0 ELSE ago
  /\ UNCHANGED <<cache, link, inbox, call, patch, missed, raced>>

-----------------------------------------------------------------------------
\* Subscriber.dispatch -> _handle_remote_invalidate
Dispatch(w) ==
  /\ link[w] = "up" /\ inbox[w] > 0
  /\ inbox' = [inbox EXCEPT ![w] = @ - 1]
  /\ InvalidateCache(w)
  /\ UNCHANGED <<profile, ago, link, call, patch>>

\* _try_subscribe
Subscribe(w) ==
  /\ link[w] = "down"
  /\ link' = [link EXCEPT ![w] = "up"]
  /\ UNCHANGED <<profile, ago, cache, inbox, call, patch, missed, raced>>

\* The connection dies; what was under way is lost.
Break(w) ==
  /\ link[w] = "up"
  /\ link' = [link EXCEPT ![w] = "broken"]
  /\ inbox' = [inbox EXCEPT ![w] = 0]
  /\ missed' = IF inbox[w] > 0 THEN missed \cup (Holding \cap {w}) ELSE missed
  /\ UNCHANGED <<profile, ago, cache, call, patch, raced>>

\* get_message raises, the message loop ends, _connected becomes False.
NoticeBreak(w) ==
  /\ link[w] = "broken"
  /\ link' = [link EXCEPT ![w] = "down"]
  /\ UNCHANGED <<profile, ago, cache, inbox, call, patch, missed, raced>>

\* A worker process dies and starts again, empty and not yet subscribed.
Restart(w) ==
  /\ cache' = [cache EXCEPT ![w] = None]
  /\ link' = [link EXCEPT ![w] = "down"]
  /\ inbox' = [inbox EXCEPT ![w] = 0]
  /\ call' = [c \in Call |-> IF Home[c] = w THEN None ELSE call[c]]
  /\ patch' = [patch EXCEPT ![w] = None]
  /\ missed' = (IF patch[w] = None THEN missed ELSE missed \cup Holding) \ {w}
  /\ raced' = raced \ {w}
  /\ UNCHANGED <<profile, ago>>

Tick ==
  /\ \A c \in Call : call[c] # None => call[c].age < Slow
  /\ ago' = IF profile = TRUE THEN 0 ELSE Older(ago)
  /\ cache' = [w \in Worker |-> IF cache[w] = None THEN None
                                ELSE [cache[w] EXCEPT !.age = Older(@)]]
  /\ call' = [c \in Call |-> IF call[c] = None THEN None
                             ELSE [call[c] EXCEPT !.age = @ + 1]]
  /\ UNCHANGED <<profile, link, inbox, patch, missed, raced>>

-----------------------------------------------------------------------------
Init ==
  /\ profile \in BOOLEAN
  /\ ago = IF profile = TRUE THEN 0 ELSE Horizon
  /\ cache = [w \in Worker |-> None]
  /\ link = [w \in Worker |-> "down"]
  /\ inbox = [w \in Worker |-> 0]
  /\ call = [c \in Call |-> None]
  /\ patch = [w \in Worker |-> None]
  /\ missed = {} /\ raced = {}

Next ==
  \/ \E c \in Call : \/ Begin(c)
                     \/ AnswerCached(c)
                     \/ ReadProfile(c)
                     \/ AnswerRead(c)
  \/ \E w \in Worker : \/ \E v \in BOOLEAN : PatchCommit(w, v)
                       \/ PatchClear(w) \/ PatchPublish(w)
                       \/ Dispatch(w) \/ Subscribe(w)
                       \/ Break(w) \/ NoticeBreak(w) \/ Restart(w)
  \/ DeleteProfile
  \/ Tick

Spec == Init /\ [][Next]_vars

\* Time passes, and a call that was begun is carried through.
FairSpec ==
  /\ Spec
  /\ WF_vars(Tick)
  /\ \A c \in Call : WF_vars(AnswerCached(c) \/ ReadProfile(c) \/ AnswerRead(c))

-----------------------------------------------------------------------------
TypeOK ==
  /\ profile \in BOOLEAN \cup {Gone}
  /\ ago \in 0..Horizon
  /\ cache \in [Worker -> [value : BOOLEAN, age : 0..Horizon] \cup {None}]
  /\ link \in [Worker -> {"up", "broken", "down"}]
  /\ inbox \in [Worker -> 0..MaxInbox]
  /\ call \in [Call -> [stage : {"lookup", "store"}, age : 0..Slow,
                        bypass : BOOLEAN, value : BOOLEAN] \cup {None}]
  /\ patch \in [Worker -> {"committed", "cleared", None}]
  /\ missed \subseteq Worker /\ raced \subseteq Worker

\* The answer a step gives: call c ends with the value v.
Answers(c, v) ==
  \/ AnswerCached(c) /\ v = cache[Home[c]].value
  \/ AnswerRead(c) /\ v = call[c].value

\* Viewers are exposed only if the profile exposed them at some time less than
\* the TTL before the call began, or during the call: whatever invalidations
\* are lost, late or raced, and in any order of the calls' stores.
ExposedWithinTTL ==
  [][\A c \in Call : Answers(c, TRUE) =>
       ago < TTL + call[c].age \/ ago <= call[c].age]_vars

\* Strict fail-closed: a call that begins on a worker that knows it hears no
\* invalidations exposes only what was the setting during the call itself.
DisconnectedReadsThrough ==
  [][\A c \in Call : Answers(c, TRUE) /\ call[c].bypass => ago <= call[c].age]_vars

\* The entry would expose viewers a PATCH has stopped the profile from exposing.
Stale(w) == cache[w] # None /\ cache[w].value = TRUE /\ profile = FALSE

\* An invalidation of w's entry is still to come.
OnItsWay(w) ==
  \/ inbox[w] > 0
  \/ patch[w] = "committed"
  \/ \E u \in Worker \ {w} : patch[u] # None

\* After a PATCH no entry is stale once the invalidations are through, on every
\* worker that missed none and was not cleared between a read and its store.
ClearedOnceTold ==
  \A w \in Worker : Stale(w) /\ w \notin missed \cup raced => OnItsWay(w)

\* Once the profile has stopped exposing for good, every worker stops answering
\* from a stale entry for good, even when every invalidation is lost: entries
\* age out, and no call stores an older value under a younger age for ever.
HiddenAtLast ==
  <>[](profile # TRUE)
    => <>[](\A w \in Worker : cache[w] # None /\ cache[w].value = TRUE
                               => cache[w].age >= TTL)
=============================================================================
