---------------------------- MODULE PluggyClient ----------------------------
(***************************************************************************)
(* Token resolution of PluggyClient                                        *)
(* (apps/server/src/features/finance/pluggy/client.ts) and the entry the   *)
(* clients of one connection share in Cloudflare KV (tokenCache.ts).       *)
(*                                                                         *)
(* A client lives for one HTTP request.  Its methods issue provider calls  *)
(* in parallel (Promise.all over items and pages); every call is one       *)
(* `get(path)`, which asks `key()` for an API key, presents it, renews it  *)
(* once after a 401 and waits out at most MaxThrottle 429 answers.  A      *)
(* step is what runs between two awaits, so every interleaving of calls,   *)
(* of isolates, of KV round trips and of provider answers is a behaviour.  *)
(*                                                                         *)
(* Tokens are numbered in the order the provider mints them: 1 is the      *)
(* token an earlier request may have left in the cache, 0 is `null`.       *)
(***************************************************************************)
EXTENDS Naturals

CONSTANTS
  Client,        \* PluggyClient objects, each in the isolate of one request
  Call,          \* invocations of `get`, each issued once
  ClientOf,      \* the client a call is issued on
  CachedClient,  \* clients built with a cache and a cache scope
  NoCall,        \* `refreshing === null`
  Answers,       \* what the provider may answer to a token it accepts
  Mortal,        \* tokens that may die while these requests run
  CacheMayFail,  \* a KV operation may throw
  AuthMayFail,   \* POST /auth may answer an error
  MaxThrottle    \* 429 answers one call waits out (2 in the code)

NoToken == 0
SeedToken == 1
Token == Nat \ {NoToken}

Status == {"ok", "unauthorized", "throttled", "consent", "notFound",
           "serverError", "unreachable"}

ASSUME CallAssumption ==
  /\ ClientOf \in [Call -> Client]
  /\ CachedClient \subseteq Client
  /\ NoCall \notin Call

ASSUME ProviderAssumption ==
  /\ Answers \subseteq Status \ {"unauthorized"}
  /\ CacheMayFail \in BOOLEAN
  /\ AuthMayFail \in BOOLEAN
  /\ MaxThrottle \in Nat

(***************************************************************************)
(* "Renew before the provider actually expires the token so in-flight      *)
(* requests never race it" (tokenCache.ts:18): a token minted while these  *)
(* calls run outlives them, only the one left in the cache may be dead.    *)
(***************************************************************************)
ASSUME FreshTokensOutliveRequests == Mortal \subseteq {SeedToken}

VARIABLES
  apiKey,            \* PluggyClient.apiKey, NoToken for null
  refreshing,        \* PluggyClient.refreshing, named by the call that started it
  refreshingForced,  \* PluggyClient.refreshingForced
  resolution,        \* the running resolveKey(force) started by each call
  call,              \* the local state of each get(path)
  cacheEntry,        \* the KV entry of the connection's scope
  minted,            \* the last token the provider minted
  dead               \* the tokens the provider no longer accepts

clientVars == <<apiKey, refreshing, refreshingForced>>
vars == <<apiKey, refreshing, refreshingForced, resolution, call,
          cacheEntry, minted, dead>>

Phase == {"idle", "lookup", "found", "evict", "auth", "store", "settling", "failing"}
Stage == {"idle", "await", "fetch", "answered", "delay", "done"}
Outcome == {"none", "ok", "PLUGGY_AUTH_FAILED", "PLUGGY_CONSENT_REVOKED",
            "FINANCE_RESOURCE_NOT_FOUND", "TOO_MANY_REQUESTS",
            "PLUGGY_UNAVAILABLE", "FETCH_FAILED"}

Resolution == [phase : Phase, forced : BOOLEAN, token : Nat]
CallState == [stage : Stage, renewed : BOOLEAN, retry : Nat, token : Nat,
              on : Call \cup {NoCall}, rejected : Nat, status : Status,
              outcome : Outcome]

NoResolution == [phase |-> "idle", forced |-> FALSE, token |-> NoToken]
FreshCall == [stage |-> "idle", renewed |-> FALSE, retry |-> 0, token |-> NoToken,
              on |-> NoCall, rejected |-> NoToken, status |-> "ok", outcome |-> "none"]

TypeOK ==
  /\ apiKey \in [Client -> Nat]
  /\ refreshing \in [Client -> Call \cup {NoCall}]
  /\ refreshingForced \in [Client -> BOOLEAN]
  /\ resolution \in [Call -> Resolution]
  /\ call \in [Call -> CallState]
  /\ cacheEntry \in Nat
  /\ minted \in Nat
  /\ dead \in SUBSET Nat

(* A request starts with an empty client; the cache may hold the token an  *)
(* earlier request minted, and that token may already be dead.             *)
Init ==
  /\ apiKey = [k \in Client |-> NoToken]
  /\ refreshing = [k \in Client |-> NoCall]
  /\ refreshingForced = [k \in Client |-> FALSE]
  /\ resolution = [c \in Call |-> NoResolution]
  /\ call = [c \in Call |-> FreshCall]
  /\ cacheEntry \in {NoToken, SeedToken}
  /\ minted = SeedToken
  /\ dead \in SUBSET Mortal

-----------------------------------------------------------------------------
(* key(force) and startResolve(force)                                      *)

Present(st, t) == [st EXCEPT !.stage = "fetch", !.token = t, !.on = NoCall]
AwaitOn(st, r) == [st EXCEPT !.stage = "await", !.on = r]

(* resolveKey(force): with no cache it authenticates at once. *)
FirstPhase(k, force) ==
  IF k \notin CachedClient THEN "auth" ELSE IF force THEN "evict" ELSE "lookup"

(* startResolve(force), called by c, which then awaits the promise: the    *)
(* promise is named c, since c can start no other until this one settles.  *)
StartResolve(c, st, force) ==
  /\ refreshing' = [refreshing EXCEPT ![ClientOf[c]] = c]
  /\ refreshingForced' = [refreshingForced EXCEPT ![ClientOf[c]] = force]
  /\ resolution' = [resolution EXCEPT ![c] =
       [phase |-> FirstPhase(ClientOf[c], force), forced |-> force, token |-> NoToken]]
  /\ call' = [call EXCEPT ![c] = AwaitOn(st, c)]

JoinRefresh(c, st) ==
  /\ call' = [call EXCEPT ![c] = AwaitOn(st, refreshing[ClientOf[c]])]
  /\ UNCHANGED <<refreshing, refreshingForced, resolution>>

(* key(false): memory, else the running resolution, else a new one. *)
PlainKey(c, st) ==
  LET k == ClientOf[c] IN
  /\ \/ /\ apiKey[k] # NoToken
        /\ call' = [call EXCEPT ![c] = Present(st, apiKey[k])]
        /\ UNCHANGED <<refreshing, refreshingForced, resolution>>
     \/ /\ apiKey[k] = NoToken
        /\ refreshing[k] # NoCall
        /\ JoinRefresh(c, st)
     \/ /\ apiKey[k] = NoToken
        /\ refreshing[k] = NoCall
        /\ StartResolve(c, st, FALSE)
  /\ UNCHANGED apiKey

(* Variations of key(true), each with a mistake: it forgets that it was    *)
(* forced; it joins whatever resolution runs.                              *)
ForcedKeyIgnored(c, st) == PlainKey(c, st)

ForcedKeyJoinsAny(c, st) ==
  LET k == ClientOf[c] IN
  /\ apiKey' = [apiKey EXCEPT ![k] = NoToken]
  /\ \/ /\ refreshing[k] # NoCall
        /\ JoinRefresh(c, st)
     \/ /\ refreshing[k] = NoCall
        /\ StartResolve(c, st, TRUE)

(* key(true): forgets the key, joins a forced resolution, replaces a plain *)
(* one.                                                                    *)
ForcedKey(c, st) ==
  LET k == ClientOf[c] IN
  /\ apiKey' = [apiKey EXCEPT ![k] = NoToken]
  /\ \/ /\ refreshingForced[k]
        /\ JoinRefresh(c, st)
     \/ /\ ~refreshingForced[k]
        /\ StartResolve(c, st, TRUE)

-----------------------------------------------------------------------------
(* resolveKey(force), one action per await                                 *)

(* cache.get: a miss and an error both lead to POST /auth. *)
Lookup(r) ==
  /\ resolution[r].phase = "lookup"
  /\ \/ /\ cacheEntry # NoToken
        /\ resolution' = [resolution EXCEPT ![r].phase = "found", ![r].token = cacheEntry]
     \/ /\ cacheEntry = NoToken \/ CacheMayFail
        /\ resolution' = [resolution EXCEPT ![r].phase = "auth"]
  /\ UNCHANGED <<clientVars, call, cacheEntry, minted, dead>>

(* The cached token arrives and becomes the client's key. *)
UseCached(r) ==
  /\ resolution[r].phase = "found"
  /\ apiKey' = [apiKey EXCEPT ![ClientOf[r]] = resolution[r].token]
  /\ resolution' = [resolution EXCEPT ![r].phase = "settling"]
  /\ UNCHANGED <<refreshing, refreshingForced, call, cacheEntry, minted, dead>>

(* cache.delete of a forced resolution, whose failure is swallowed. *)
Evict(r) ==
  /\ resolution[r].phase = "evict"
  /\ \/ cacheEntry' = NoToken
     \/ CacheMayFail /\ UNCHANGED cacheEntry
  /\ resolution' = [resolution EXCEPT ![r].phase = "auth"]
  /\ UNCHANGED <<clientVars, call, minted, dead>>

(* authenticate(): the provider mints a token, which becomes the key. *)
Authenticate(r) ==
  /\ resolution[r].phase = "auth"
  /\ minted' = minted + 1
  /\ apiKey' = [apiKey EXCEPT ![ClientOf[r]] = minted + 1]
  /\ resolution' = [resolution EXCEPT
       ![r].phase = IF ClientOf[r] \in CachedClient THEN "store" ELSE "settling",
       ![r].token = minted + 1]
  /\ UNCHANGED <<refreshing, refreshingForced, call, cacheEntry, dead>>

AuthenticateFails(r) ==
  /\ AuthMayFail
  /\ resolution[r].phase = "auth"
  /\ resolution' = [resolution EXCEPT ![r].phase = "failing"]
  /\ UNCHANGED <<clientVars, call, cacheEntry, minted, dead>>

(* A variation that caches the client's key instead of its own token. *)
StoreApiKey(r) ==
  /\ resolution[r].phase = "store"
  /\ cacheEntry' = apiKey[ClientOf[r]]
  /\ resolution' = [resolution EXCEPT ![r].phase = "settling"]
  /\ UNCHANGED <<clientVars, call, minted, dead>>

(* cache.set of the token just minted, whose failure is swallowed. *)
Store(r) ==
  /\ resolution[r].phase = "store"
  /\ \/ cacheEntry' = resolution[r].token
     \/ CacheMayFail /\ UNCHANGED cacheEntry
  /\ resolution' = [resolution EXCEPT ![r].phase = "settling"]
  /\ UNCHANGED <<clientVars, call, minted, dead>>

(* A variation with .then for .finally: a failure leaves the slot taken. *)
SettleOnSuccess(r) ==
  LET k == ClientOf[r]
      Resume(st) == IF resolution[r].phase = "settling"
                    THEN Present(st, resolution[r].token)
                    ELSE [st EXCEPT !.stage = "done", !.on = NoCall,
                                    !.outcome = "PLUGGY_AUTH_FAILED"]
  IN
  /\ resolution[r].phase \in {"settling", "failing"}
  /\ IF resolution[r].phase = "settling"
     THEN /\ refreshing' = [refreshing EXCEPT ![k] = NoCall]
          /\ refreshingForced' = [refreshingForced EXCEPT ![k] = FALSE]
     ELSE UNCHANGED <<refreshing, refreshingForced>>
  /\ resolution' = [resolution EXCEPT ![r] = NoResolution]
  /\ call' = [c \in Call |-> IF call[c].on = r THEN Resume(call[c]) ELSE call[c]]
  /\ UNCHANGED <<apiKey, cacheEntry, minted, dead>>

(* .finally: clears the client's slot whoever occupies it by now, then     *)
(* every call that awaits this promise resumes with its token or error.    *)
Settle(r) ==
  LET k == ClientOf[r]
      Resume(st) == IF resolution[r].phase = "settling"
                    THEN Present(st, resolution[r].token)
                    ELSE [st EXCEPT !.stage = "done", !.on = NoCall,
                                    !.outcome = "PLUGGY_AUTH_FAILED"]
  IN
  /\ resolution[r].phase \in {"settling", "failing"}
  /\ refreshing' = [refreshing EXCEPT ![k] = NoCall]
  /\ refreshingForced' = [refreshingForced EXCEPT ![k] = FALSE]
  /\ resolution' = [resolution EXCEPT ![r] = NoResolution]
  /\ call' = [c \in Call |-> IF call[c].on = r THEN Resume(call[c]) ELSE call[c]]
  /\ UNCHANGED <<apiKey, cacheEntry, minted, dead>>

-----------------------------------------------------------------------------
(* get(path)                                                               *)

Start(c) ==
  /\ call[c].stage = "idle"
  /\ PlainKey(c, call[c])
  /\ UNCHANGED <<cacheEntry, minted, dead>>

(* The provider answers; the answer reaches the client in a later step. *)
Answer(c) ==
  /\ call[c].stage = "fetch"
  /\ \E s \in IF call[c].token \in dead THEN {"unauthorized"} ELSE Answers :
       call' = [call EXCEPT ![c].stage = "answered", ![c].status = s]
  /\ UNCHANGED <<clientVars, resolution, cacheEntry, minted, dead>>

(* A 401 to the first fetch: key(true), then one more fetch. *)
Renew(c) ==
  /\ call[c].stage = "answered"
  /\ call[c].status = "unauthorized"
  /\ ~call[c].renewed /\ call[c].retry = 0
  /\ ForcedKey(c, [call[c] EXCEPT !.renewed = TRUE, !.rejected = call[c].token])
  /\ UNCHANGED <<cacheEntry, minted, dead>>

(* A variation of the 429 loop with one retry too many. *)
ThrottleOnceMore(c) ==
  /\ call[c].stage = "answered"
  /\ call[c].status = "throttled"
  /\ call[c].retry <= MaxThrottle
  /\ call' = [call EXCEPT ![c].stage = "delay", ![c].retry = @ + 1]
  /\ UNCHANGED <<clientVars, resolution, cacheEntry, minted, dead>>

(* A 429 with retries left: wait Retry-After ... *)
Throttle(c) ==
  /\ call[c].stage = "answered"
  /\ call[c].status = "throttled"
  /\ call[c].retry < MaxThrottle
  /\ call' = [call EXCEPT ![c].stage = "delay", ![c].retry = @ + 1]
  /\ UNCHANGED <<clientVars, resolution, cacheEntry, minted, dead>>

(* ... and fetch again with whatever key the client then has. *)
Retry(c) ==
  /\ call[c].stage = "delay"
  /\ PlainKey(c, call[c])
  /\ UNCHANGED <<cacheEntry, minted, dead>>

(* A variation that lets the provider's answer through untranslated. *)
OutcomeUntranslated(s) == s

OutcomeOf(s) ==
  CASE s = "ok" -> "ok"
    [] s = "consent" -> "PLUGGY_CONSENT_REVOKED"
    [] s = "notFound" -> "FINANCE_RESOURCE_NOT_FOUND"
    [] s = "throttled" -> "TOO_MANY_REQUESTS"
    [] s = "unreachable" -> "FETCH_FAILED"
    [] OTHER -> "PLUGGY_UNAVAILABLE"

(* Any other answer ends the call. *)
Finish(c) ==
  /\ call[c].stage = "answered"
  /\ ~(call[c].status = "unauthorized" /\ ~call[c].renewed /\ call[c].retry = 0)
  /\ ~(call[c].status = "throttled" /\ call[c].retry < MaxThrottle)
  /\ call' = [call EXCEPT ![c].stage = "done", ![c].outcome = OutcomeOf(call[c].status)]
  /\ UNCHANGED <<clientVars, resolution, cacheEntry, minted, dead>>

-----------------------------------------------------------------------------
(* The environment                                                         *)

(* The provider stops accepting a token. *)
Revoke(t) ==
  /\ t \in Mortal \ dead
  /\ dead' = dead \cup {t}
  /\ UNCHANGED <<clientVars, resolution, call, cacheEntry, minted>>

(* The TTL of the KV entry runs out. *)
ExpireEntry ==
  /\ cacheEntry # NoToken
  /\ cacheEntry' = NoToken
  /\ UNCHANGED <<clientVars, resolution, call, minted, dead>>

(* Every call has answered: the requests are over. *)
Finished ==
  /\ \A c \in Call : call[c].stage = "done"
  /\ UNCHANGED vars

ResolutionStep(r) ==
  \/ Lookup(r) \/ UseCached(r) \/ Evict(r) \/ Authenticate(r)
  \/ AuthenticateFails(r) \/ Store(r) \/ Settle(r)

CallStep(c) == Answer(c) \/ Renew(c) \/ Throttle(c) \/ Retry(c) \/ Finish(c)

Next ==
  \/ \E c \in Call : Start(c)
  \/ \E c \in Call : CallStep(c)
  \/ \E r \in Call : ResolutionStep(r)
  \/ \E t \in Mortal : Revoke(t)
  \/ ExpireEntry
  \/ Finished

(* KV, the provider and the timer answer every request (or fail it), and   *)
(* the event loop runs what they wake; nothing obliges a call to be made,  *)
(* a token to die or an entry to expire.                                   *)
Fairness ==
  \A c \in Call : WF_vars(CallStep(c)) /\ WF_vars(ResolutionStep(c))

Spec == Init /\ [][Next]_vars /\ Fairness

-----------------------------------------------------------------------------
(* Properties                                                              *)

Running(r) == resolution[r].phase # "idle"

(* The slot never outlives its promise: `refreshing` names a resolution    *)
(* that still runs, of this client, and `refreshingForced` is its kind.  A *)
(* settled promise left behind would poison the client: every later call   *)
(* would get its old token or its old PLUGGY_AUTH_FAILED.                  *)
SlotIsLive ==
  \A k \in Client :
    /\ refreshing[k] # NoCall =>
         Running(refreshing[k]) /\ ClientOf[refreshing[k]] = k
    /\ refreshingForced[k] <=>
         (refreshing[k] # NoCall /\ resolution[refreshing[k]].forced)

(* No call awaits a promise that has settled (client.ts:313-331), and one  *)
(* that was answered 401 awaits only a forced resolution: "Join another    *)
(* refresh, but never a plain resolution: it settles to the dead token"    *)
(* (client.ts:317), also when older resolutions are still finishing.       *)
AwaitedIsLive ==
  \A c \in Call : call[c].stage = "await" =>
    /\ call[c].on # NoCall
    /\ Running(call[c].on)
    /\ ClientOf[call[c].on] = ClientOf[c]
    /\ call[c].renewed /\ call[c].retry = 0 => resolution[call[c].on].forced

(* The fetch that follows a 401 never presents the rejected token again,   *)
(* nor any dead one (client.ts:369-374).                                   *)
RenewedTokenIsFresh ==
  \A c \in Call :
    call[c].renewed /\ call[c].retry = 0 /\ call[c].stage \in {"fetch", "answered"} =>
      /\ call[c].token # call[c].rejected
      /\ call[c].token \notin dead

(* So a call gives up on a 401 only if a 429 sent it back for a key: the   *)
(* 429 loop (client.ts:375-382) never renews.                              *)
GivesUpUnauthorizedOnlyWhenThrottled ==
  \A c \in Call :
    call[c].outcome = "PLUGGY_UNAVAILABLE" /\ call[c].status = "unauthorized" =>
      call[c].retry > 0

(* No dead token enters the shared entry: whatever the order in which the  *)
(* resolutions of all isolates finish, what cache.set writes is accepted   *)
(* by the provider (client.ts:349-350).                                    *)
CacheNeverRegresses ==
  [][cacheEntry' \notin {cacheEntry, NoToken} => cacheEntry' \notin dead]_vars

(* A call as PluggyRequest sees it. *)
RequestState(st) ==
  CASE st.stage = "idle" -> "idle"
    [] st.stage \in {"await", "delay"} -> "waiting"
    [] st.stage \in {"fetch", "answered"} -> "sent"
    [] st.stage = "done" -> "ended"

request == [c \in Call |->
  [state |-> RequestState(call[c]), key |-> call[c].token,
   refused |-> call[c].rejected, backoffs |-> call[c].retry]]

Contract == INSTANCE PluggyRequest
  WITH Call <- Call, MaxThrottle <- MaxThrottle, request <- request

(* The client implements the contract of PluggyRequest (client.ts 365-392):*)
(* every call behaves as if it were alone, whatever the parallel calls and *)
(* isolates do, and ends: no promise is lost, and retries are bounded even *)
(* when the provider answers nothing but 429.                              *)
ImplementsContract == Contract!Spec

=============================================================================
