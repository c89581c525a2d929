------------------------- MODULE PluggyClient_Proofs -------------------------
(***************************************************************************)
(* Proofs about PluggyClient, for every set of clients and calls, every    *)
(* provider and every bound on retries.                                    *)
(***************************************************************************)
EXTENDS PluggyClient, TLAPS

(* A local state stays one when it is sent to await a promise. *)
LEMMA KeyTypes ==
  ASSUME TypeOK, NEW c \in Call, NEW st \in CallState
  PROVE  /\ PlainKey(c, st) =>
              /\ apiKey' = apiKey
              /\ refreshing' \in [Client -> Call \cup {NoCall}]
              /\ refreshingForced' \in [Client -> BOOLEAN]
              /\ resolution' \in [Call -> Resolution]
              /\ call' \in [Call -> CallState]
         /\ ForcedKey(c, st) =>
              /\ apiKey' \in [Client -> Nat]
              /\ refreshing' \in [Client -> Call \cup {NoCall}]
              /\ refreshingForced' \in [Client -> BOOLEAN]
              /\ resolution' \in [Call -> Resolution]
              /\ call' \in [Call -> CallState]
<1> USE CallAssumption DEF TypeOK
<1> DEFINE k == ClientOf[c]
<1>1. k \in Client
  OBVIOUS
<1>2. \A t \in Nat : Present(st, t) \in CallState
  BY DEF Present, CallState, Stage
<1>3. \A r \in Call \cup {NoCall} : AwaitOn(st, r) \in CallState
  BY DEF AwaitOn, CallState, Stage
<1>4. \A force \in BOOLEAN : [phase |-> FirstPhase(k, force), forced |-> force,
                              token |-> NoToken] \in Resolution
  BY DEF FirstPhase, Resolution, Phase, NoToken
<1>5. ASSUME NEW force \in BOOLEAN, StartResolve(c, st, force)
      PROVE  /\ refreshing' \in [Client -> Call \cup {NoCall}]
             /\ refreshingForced' \in [Client -> BOOLEAN]
             /\ resolution' \in [Call -> Resolution]
             /\ call' \in [Call -> CallState]
  BY <1>1, <1>3, <1>4, <1>5 DEF StartResolve
<1>6. ASSUME JoinRefresh(c, st)
      PROVE  /\ refreshing' \in [Client -> Call \cup {NoCall}]
             /\ refreshingForced' \in [Client -> BOOLEAN]
             /\ resolution' \in [Call -> Resolution]
             /\ call' \in [Call -> CallState]
  BY <1>1, <1>3, <1>6 DEF JoinRefresh
<1>7. PlainKey(c, st) => /\ apiKey' = apiKey
                         /\ refreshing' \in [Client -> Call \cup {NoCall}]
                         /\ refreshingForced' \in [Client -> BOOLEAN]
                         /\ resolution' \in [Call -> Resolution]
                         /\ call' \in [Call -> CallState]
  <2>1. CASE apiKey[k] # NoToken /\ call' = [call EXCEPT ![c] = Present(st, apiKey[k])]
             /\ UNCHANGED <<refreshing, refreshingForced, resolution, apiKey>>
    BY <1>1, <1>2, <2>1
  <2>2. CASE JoinRefresh(c, st) /\ UNCHANGED apiKey
    BY <1>6, <2>2
  <2>3. CASE StartResolve(c, st, FALSE) /\ UNCHANGED apiKey
    BY <1>5, <2>3
  <2> QED
    BY <2>1, <2>2, <2>3 DEF PlainKey
<1>8. ForcedKey(c, st) => /\ apiKey' \in [Client -> Nat]
                          /\ refreshing' \in [Client -> Call \cup {NoCall}]
                          /\ refreshingForced' \in [Client -> BOOLEAN]
                          /\ resolution' \in [Call -> Resolution]
                          /\ call' \in [Call -> CallState]
  <2>1. ASSUME ForcedKey(c, st) PROVE apiKey' \in [Client -> Nat]
    BY <1>1, <2>1 DEF ForcedKey, NoToken
  <2>2. ASSUME ForcedKey(c, st) PROVE JoinRefresh(c, st) \/ StartResolve(c, st, TRUE)
    BY <2>2 DEF ForcedKey
  <2> QED
    BY <1>5, <1>6, <2>1, <2>2
<1> QED
  BY <1>7, <1>8

LEMMA TypeInit == Init => TypeOK
<1>1. NoResolution \in Resolution
  BY DEF NoResolution, Resolution, Phase, NoToken
<1>2. FreshCall \in CallState
  BY DEF FreshCall, CallState, Stage, Status, Outcome, NoToken
<1> QED
  BY <1>1, <1>2, FreshTokensOutliveRequests DEF Init, TypeOK, NoToken, SeedToken

LEMMA TypeStep == TypeOK /\ [Next]_vars => TypeOK'
<1> SUFFICES ASSUME TypeOK, [Next]_vars PROVE TypeOK'
  OBVIOUS
<1> USE CallAssumption, ProviderAssumption, FreshTokensOutliveRequests DEF TypeOK
<1>1. ASSUME NEW c \in Call, Start(c) PROVE TypeOK'
  BY <1>1, KeyTypes DEF Start
<1>2. ASSUME NEW c \in Call, CallStep(c) PROVE TypeOK'
  <2>1. CASE Answer(c)
    <3>1. \A s \in Status : [call[c] EXCEPT !.stage = "answered", !.status = s] \in CallState
      BY DEF CallState, Stage
    <3>2. PICK s \in Status : call' = [call EXCEPT ![c].stage = "answered", ![c].status = s]
      BY <2>1 DEF Answer, Status
    <3> QED
      BY <2>1, <3>1, <3>2 DEF Answer, clientVars
  <2>2. CASE Renew(c)
    <3>1. [call[c] EXCEPT !.renewed = TRUE, !.rejected = call[c].token] \in CallState
      BY DEF CallState
    <3> QED
      BY <2>2, <3>1, KeyTypes DEF Renew
  <2>3. CASE Throttle(c)
    BY <2>3 DEF Throttle, clientVars, CallState, Stage
  <2>4. CASE Retry(c)
    BY <2>4, KeyTypes DEF Retry
  <2>5. CASE Finish(c)
    <3>1. OutcomeOf(call[c].status) \in Outcome
      BY DEF OutcomeOf, Outcome
    <3>2. [call[c] EXCEPT !.stage = "done", !.outcome = OutcomeOf(call[c].status)] \in CallState
      BY <3>1 DEF CallState, Stage
    <3> QED
      BY <2>5, <3>2 DEF Finish, clientVars
  <2> QED
    BY <1>2, <2>1, <2>2, <2>3, <2>4, <2>5 DEF CallStep
<1>3. ASSUME NEW r \in Call, ResolutionStep(r) PROVE TypeOK'
  <2> USE DEF Resolution, Phase
  <2>1. CASE Lookup(r)
    <3>1. /\ [resolution[r] EXCEPT !.phase = "found", !.token = cacheEntry] \in Resolution
          /\ [resolution[r] EXCEPT !.phase = "auth"] \in Resolution
      OBVIOUS
    <3>2. resolution' \in [Call -> Resolution]
      BY <2>1, <3>1 DEF Lookup
    <3> QED
      BY <2>1, <3>2 DEF Lookup, clientVars
  <2>2. CASE UseCached(r)
    BY <2>2 DEF UseCached
  <2>3. CASE Evict(r)
    BY <2>3 DEF Evict, clientVars, NoToken
  <2>4. CASE Authenticate(r)
    <3> DEFINE p == IF ClientOf[r] \in CachedClient THEN "store" ELSE "settling"
    <3>1. p \in Phase /\ minted + 1 \in Nat
      OBVIOUS
    <3> HIDE DEF p, Phase
    <3>2. [resolution[r] EXCEPT !.phase = p, !.token = minted + 1] \in Resolution
      BY <3>1
    <3>3. resolution' = [resolution EXCEPT ![r].phase = p, ![r].token = minted + 1]
      BY <2>4 DEF Authenticate, p
    <3>4. resolution' \in [Call -> Resolution]
      BY <3>2, <3>3
    <3> QED
      BY <2>4, <3>4 DEF Authenticate
  <2>5. CASE AuthenticateFails(r)
    BY <2>5 DEF AuthenticateFails, clientVars
  <2>6. CASE Store(r)
    BY <2>6 DEF Store, clientVars
  <2>7. CASE Settle(r)
    <3>1. \A st \in CallState : Present(st, resolution[r].token) \in CallState
      BY DEF Present, CallState, Stage
    <3>2. \A st \in CallState : [st EXCEPT !.stage = "done", !.on = NoCall,
                                   !.outcome = "PLUGGY_AUTH_FAILED"] \in CallState
      BY DEF CallState, Stage, Outcome
    <3>3. call' \in [Call -> CallState]
      BY <2>7, <3>1, <3>2 DEF Settle
    <3> QED
      BY <2>7, <3>3 DEF Settle, NoResolution, NoToken
  <2> QED
    BY <1>3, <2>1, <2>2, <2>3, <2>4, <2>5, <2>6, <2>7 DEF ResolutionStep
<1>4. ASSUME NEW t \in Mortal, Revoke(t) PROVE TypeOK'
  BY <1>4 DEF Revoke, clientVars, SeedToken
<1>5. CASE ExpireEntry
  BY <1>5 DEF ExpireEntry, clientVars, NoToken
<1>6. CASE Finished \/ UNCHANGED vars
  BY <1>6 DEF Finished, vars
<1> QED
  BY <1>1, <1>2, <1>3, <1>4, <1>5, <1>6 DEF Next

(***************************************************************************)
(* Every variable keeps its type.                                          *)
(***************************************************************************)
THEOREM TypeCorrect == Spec => []TypeOK
BY TypeInit, TypeStep, PTL DEF Spec

-----------------------------------------------------------------------------
(***************************************************************************)
(* The promises of a client, whichever calls and resolutions interleave.   *)
(* SlotIsLive and AwaitedIsLive are not inductive by themselves: that a    *)
(* call never starts a second resolution under the name of one that still  *)
(* runs takes OwnerAwaits, and that only a renewal asks for a forced one   *)
(* takes RenewalComesFromAnAnswer.                                         *)
(***************************************************************************)
OwnerAwaits == \A r \in Call : Running(r) => call[r].on = r
OnlyAwaitingWaits == \A c \in Call : call[c].on # NoCall => call[c].stage = "await"
RenewalComesFromAnAnswer ==
  \A c \in Call : /\ call[c].stage = "idle" => ~call[c].renewed
                  /\ call[c].stage = "delay" => call[c].retry # 0

Promises ==
  /\ SlotIsLive
  /\ AwaitedIsLive
  /\ OwnerAwaits
  /\ OnlyAwaitingWaits
  /\ RenewalComesFromAnAnswer

(* A call that is not awaiting anything owns no running resolution, and    *)
(* nothing awaits its name.                                                *)
LEMMA FreeName ==
  ASSUME TypeOK, Promises, NEW c \in Call, call[c].stage # "await"
  PROVE  /\ ~Running(c)
         /\ \A d \in Call : call[d].on # c
         /\ \A k \in Client : refreshing[k] # c
<1> USE CallAssumption
<1>1. call[c].on = NoCall
  BY DEF Promises, OnlyAwaitingWaits
<1>2. ~Running(c)
  BY <1>1 DEF Promises, OwnerAwaits
<1>3. \A d \in Call : call[d].on # c
  BY <1>2 DEF Promises, OnlyAwaitingWaits, AwaitedIsLive
<1>4. \A k \in Client : refreshing[k] # c
  BY <1>2 DEF Promises, SlotIsLive
<1> QED
  BY <1>2, <1>3, <1>4

(* A new resolution under a free name, awaited by the call that starts it. *)
LEMMA StartKeepsPromises ==
  ASSUME TypeOK, Promises, NEW c \in Call, NEW st \in CallState, NEW force \in BOOLEAN,
         call[c].stage # "await",
         st.renewed /\ st.retry = 0 => force,
         StartResolve(c, st, force)
  PROVE  Promises'
<1> USE CallAssumption DEF TypeOK
<1> DEFINE k == ClientOf[c]
<1>1. k \in Client
  OBVIOUS
<1>2. /\ refreshing' = [refreshing EXCEPT ![k] = c]
      /\ refreshingForced' = [refreshingForced EXCEPT ![k] = force]
  BY DEF StartResolve
<1>3. /\ \A r \in Call : r # c => resolution'[r] = resolution[r]
      /\ resolution'[c].phase \in {"auth", "evict", "lookup"}
      /\ resolution'[c].forced = force
  BY DEF StartResolve, FirstPhase
<1>4. /\ \A d \in Call : d # c => call'[d] = call[d]
      /\ call'[c].stage = "await" /\ call'[c].on = c
      /\ call'[c].renewed = st.renewed /\ call'[c].retry = st.retry
  BY DEF StartResolve, AwaitOn, CallState
<1>5. /\ ~Running(c)
      /\ \A d \in Call : call[d].on # c
      /\ \A l \in Client : refreshing[l] # c
  BY FreeName
<1> HIDE DEF TypeOK
<1>6. Running(c)' /\ \A r \in Call : r # c => (Running(r)' <=> Running(r))
  BY <1>3 DEF Running
<1>7. SlotIsLive'
  <2> SUFFICES ASSUME NEW l \in Client
               PROVE  /\ refreshing'[l] # NoCall =>
                            Running(refreshing[l])' /\ ClientOf[refreshing'[l]] = l
                      /\ refreshingForced'[l] <=>
                           (refreshing'[l] # NoCall /\ resolution'[refreshing'[l]].forced)
    BY DEF SlotIsLive
  <2>1. CASE l = k
    <3>1. refreshing'[l] = c /\ refreshingForced'[l] = force
      BY <1>1, <1>2, <2>1 DEF TypeOK
    <3> QED
      BY <1>3, <1>6, <2>1, <3>1 DEF Running
  <2>2. CASE l # k
    <3>1. /\ refreshing'[l] = refreshing[l] /\ refreshingForced'[l] = refreshingForced[l]
          /\ refreshing[l] \in Call \cup {NoCall}
      BY <1>1, <1>2, <2>2 DEF TypeOK
    <3>2. refreshing[l] # c
      BY <1>5
    <3> QED
      BY <1>3, <1>6, <3>1, <3>2 DEF Promises, SlotIsLive, Running
  <2> QED
    BY <2>1, <2>2
<1>8. AwaitedIsLive'
  <2> SUFFICES ASSUME NEW d \in Call, call'[d].stage = "await"
               PROVE  /\ call'[d].on # NoCall
                      /\ Running(call[d].on)'
                      /\ ClientOf[call'[d].on] = ClientOf[d]
                      /\ call'[d].renewed /\ call'[d].retry = 0 =>
                           resolution'[call'[d].on].forced
    BY DEF AwaitedIsLive
  <2>1. CASE d = c
    BY <1>3, <1>4, <1>6, <2>1 DEF Running
  <2>2. CASE d # c
    <3>1. call'[d] = call[d] /\ call[d].on \in Call \cup {NoCall} /\ call[d].on # c
      BY <1>4, <1>5, <2>2 DEF TypeOK, CallState
    <3> QED
      BY <1>3, <1>6, <3>1 DEF Promises, AwaitedIsLive, Running
  <2> QED
    BY <2>1, <2>2
<1>9. OwnerAwaits'
  BY <1>4, <1>6 DEF Promises, OwnerAwaits
<1>10. OnlyAwaitingWaits' /\ RenewalComesFromAnAnswer'
  BY <1>4 DEF Promises, OnlyAwaitingWaits, RenewalComesFromAnAnswer
<1> QED
  BY <1>7, <1>8, <1>9, <1>10 DEF Promises

(* A call that joins the resolution in the slot, or that goes to fetch, or *)
(* to any stage but "await", leaves the promises as they are.              *)
LEMMA CallMoveKeepsPromises ==
  ASSUME TypeOK, Promises, NEW c \in Call, NEW st \in CallState,
         call' = [call EXCEPT ![c] = st],
         UNCHANGED <<refreshing, refreshingForced, resolution>>,
         call[c].stage # "await",
         st.stage = "idle" => ~st.renewed,
         st.stage = "delay" => st.retry # 0,
         \/ st.stage # "await" /\ st.on = NoCall
         \/ /\ st.stage = "await"
            /\ st.on = refreshing[ClientOf[c]] /\ st.on # NoCall
            /\ st.renewed /\ st.retry = 0 => refreshingForced[ClientOf[c]]
  PROVE  Promises'
<1> USE CallAssumption
<1>1. ClientOf[c] \in Client
  OBVIOUS
<1>2. /\ \A d \in Call : d # c => call'[d] = call[d]
      /\ call'[c] = st
  BY DEF TypeOK
<1>3. ~Running(c)
  BY FreeName
<1>4. /\ refreshing' = refreshing /\ refreshingForced' = refreshingForced
      /\ resolution' = resolution
  OBVIOUS
<1>5. SlotIsLive'
  BY <1>4 DEF Promises, SlotIsLive, Running
<1>6. AwaitedIsLive'
  BY <1>1, <1>2, <1>4 DEF Promises, AwaitedIsLive, SlotIsLive, Running
<1>7. OwnerAwaits'
  BY <1>2, <1>3, <1>4 DEF Promises, OwnerAwaits, Running
<1>8. OnlyAwaitingWaits' /\ RenewalComesFromAnAnswer'
  BY <1>2 DEF Promises, OnlyAwaitingWaits, RenewalComesFromAnAnswer
<1> QED
  BY <1>5, <1>6, <1>7, <1>8 DEF Promises

(* A resolution that goes on without settling leaves the promises alone.   *)
LEMMA ResolutionMoveKeepsPromises ==
  ASSUME TypeOK, Promises, NEW r \in Call,
         Running(r), Running(r)', resolution'[r].forced = resolution[r].forced,
         \A s \in Call : s # r => resolution'[s] = resolution[s],
         UNCHANGED <<refreshing, refreshingForced, call>>
  PROVE  Promises'
<1>1. \A s \in Call : /\ Running(s)' <=> Running(s)
                      /\ resolution'[s].forced = resolution[s].forced
  BY DEF Running
<1>2. SlotIsLive'
  BY <1>1 DEF Promises, SlotIsLive, TypeOK, Running
<1>3. AwaitedIsLive'
  BY <1>1 DEF Promises, AwaitedIsLive, TypeOK, CallState, Running
<1>4. OwnerAwaits' /\ OnlyAwaitingWaits' /\ RenewalComesFromAnAnswer'
  BY <1>1 DEF Promises, OwnerAwaits, OnlyAwaitingWaits, RenewalComesFromAnAnswer
<1> QED
  BY <1>2, <1>3, <1>4 DEF Promises

(* Everyone who awaits a promise resumes when it settles; nobody is left   *)
(* with a slot or a wait on it.                                            *)
LEMMA SettleKeepsPromises ==
  ASSUME TypeOK, Promises, NEW r \in Call, Settle(r)
  PROVE  Promises'
<1> USE CallAssumption
<1> DEFINE k == ClientOf[r]
<1>1. k \in Client
  OBVIOUS
<1>2. /\ refreshing' = [refreshing EXCEPT ![k] = NoCall]
      /\ refreshingForced' = [refreshingForced EXCEPT ![k] = FALSE]
      /\ resolution' = [resolution EXCEPT ![r] = NoResolution]
  BY DEF Settle
<1>3. \A d \in Call : call[d].on # r => call'[d] = call[d]
  BY DEF Settle
<1>4. \A d \in Call : call[d].on = r =>
        /\ call'[d].on = NoCall
        /\ call'[d].stage \in {"fetch", "done"}
  BY DEF Settle, Present, TypeOK, CallState
<1>5. /\ ~Running(r)'
      /\ \A s \in Call : s # r => resolution'[s] = resolution[s]
  BY <1>2 DEF TypeOK, Running, NoResolution
<1>6. SlotIsLive'
  <2> SUFFICES ASSUME NEW l \in Client
               PROVE  /\ refreshing'[l] # NoCall =>
                            Running(refreshing[l])' /\ ClientOf[refreshing'[l]] = l
                      /\ refreshingForced'[l] <=>
                           (refreshing'[l] # NoCall /\ resolution'[refreshing'[l]].forced)
    BY DEF SlotIsLive
  <2>1. CASE l = k
    BY <1>1, <1>2, <2>1 DEF TypeOK
  <2>2. CASE l # k
    <3>1. refreshing'[l] = refreshing[l] /\ refreshingForced'[l] = refreshingForced[l]
      BY <1>1, <1>2, <2>2 DEF TypeOK
    <3>2. refreshing[l] # NoCall => refreshing[l] \in Call /\ refreshing[l] # r
      BY <2>2 DEF TypeOK, Promises, SlotIsLive
    <3> QED
      BY <1>5, <3>1, <3>2 DEF Promises, SlotIsLive, Running
  <2> QED
    BY <2>1, <2>2
<1>7. AwaitedIsLive'
  BY <1>3, <1>4, <1>5 DEF Promises, AwaitedIsLive, TypeOK, CallState, Running
<1>8. OwnerAwaits'
  BY <1>3, <1>5 DEF Promises, OwnerAwaits, Running
<1>9. OnlyAwaitingWaits' /\ RenewalComesFromAnAnswer'
  BY <1>3, <1>4 DEF Promises, OnlyAwaitingWaits, RenewalComesFromAnAnswer
<1> QED
  BY <1>6, <1>7, <1>8, <1>9 DEF Promises

LEMMA PlainKeyKeepsPromises ==
  ASSUME TypeOK, Promises, NEW c \in Call,
         call[c].stage # "await",
         call[c].renewed => call[c].retry # 0,
         PlainKey(c, call[c])
  PROVE  Promises'
<1> USE CallAssumption
<1> DEFINE k == ClientOf[c]
<1>0. call[c] \in CallState /\ k \in Client /\ refreshing[k] \in Call \cup {NoCall}
  BY DEF TypeOK
<1>1. CASE /\ apiKey[k] # NoToken
           /\ call' = [call EXCEPT ![c] = Present(call[c], apiKey[k])]
           /\ UNCHANGED <<refreshing, refreshingForced, resolution>>
  <2>1. Present(call[c], apiKey[k]) \in CallState
    BY <1>0 DEF Present, TypeOK, CallState, Stage
  <2>2. /\ Present(call[c], apiKey[k]).stage = "fetch"
        /\ Present(call[c], apiKey[k]).on = NoCall
    BY <1>0 DEF Present, CallState
  <2> QED
    BY <1>1, <2>1, <2>2, CallMoveKeepsPromises
<1>2. CASE refreshing[k] # NoCall /\ JoinRefresh(c, call[c])
  <2> DEFINE st == AwaitOn(call[c], refreshing[k])
  <2>1. /\ st \in CallState /\ st.stage = "await" /\ st.on = refreshing[k]
        /\ st.renewed = call[c].renewed /\ st.retry = call[c].retry
    BY <1>0 DEF AwaitOn, CallState, Stage
  <2>2. /\ call' = [call EXCEPT ![c] = st]
        /\ UNCHANGED <<refreshing, refreshingForced, resolution>>
    BY <1>2 DEF JoinRefresh
  <2> HIDE DEF st
  <2> QED
    BY <1>2, <2>1, <2>2, CallMoveKeepsPromises
<1>3. CASE StartResolve(c, call[c], FALSE)
  BY <1>0, <1>3, StartKeepsPromises
<1> QED
  BY <1>1, <1>2, <1>3 DEF PlainKey

LEMMA ForcedKeyKeepsPromises ==
  ASSUME TypeOK, Promises, NEW c \in Call, NEW st \in CallState,
         call[c].stage # "await",
         ForcedKey(c, st)
  PROVE  Promises'
<1> USE CallAssumption
<1> DEFINE k == ClientOf[c]
<1>0. k \in Client /\ refreshing[k] \in Call \cup {NoCall}
  BY DEF TypeOK
<1>1. CASE refreshingForced[k] /\ JoinRefresh(c, st)
  <2> DEFINE waiting == AwaitOn(st, refreshing[k])
  <2>1. /\ waiting \in CallState /\ waiting.stage = "await" /\ waiting.on = refreshing[k]
    BY <1>0 DEF AwaitOn, CallState, Stage
  <2>2. /\ call' = [call EXCEPT ![c] = waiting]
        /\ UNCHANGED <<refreshing, refreshingForced, resolution>>
    BY <1>1 DEF JoinRefresh
  <2>3. refreshing[k] # NoCall
    BY <1>0, <1>1 DEF Promises, SlotIsLive
  <2> HIDE DEF waiting
  <2> QED
    BY <1>1, <2>1, <2>2, <2>3, CallMoveKeepsPromises
<1>2. CASE StartResolve(c, st, TRUE)
  BY <1>2, StartKeepsPromises
<1> QED
  BY <1>1, <1>2 DEF ForcedKey

LEMMA PromisesInit == Init => Promises
BY CallAssumption DEF Init, Promises, SlotIsLive, AwaitedIsLive, OwnerAwaits, OnlyAwaitingWaits,
   RenewalComesFromAnAnswer, Running, NoResolution, FreshCall

LEMMA PromisesStep == TypeOK /\ Promises /\ [Next]_vars => Promises'
<1> SUFFICES ASSUME TypeOK, Promises, [Next]_vars PROVE Promises'
  OBVIOUS
<1>0. \A c \in Call : call[c] \in CallState /\ resolution[c] \in Resolution
  BY DEF TypeOK
<1>1. ASSUME NEW c \in Call, Start(c) PROVE Promises'
  BY <1>1, PlainKeyKeepsPromises DEF Start, Promises, RenewalComesFromAnAnswer
<1>2. ASSUME NEW c \in Call, CallStep(c) PROVE Promises'
  <2>0. call[c].stage # "await" => call[c].on = NoCall
    BY DEF Promises, OnlyAwaitingWaits
  <2>1. CASE Answer(c)
    <3>1. PICK s \in Status : call' = [call EXCEPT ![c].stage = "answered", ![c].status = s]
      BY <2>1, ProviderAssumption DEF Answer, Status
    <3> DEFINE st == [call[c] EXCEPT !.stage = "answered", !.status = s]
    <3>2. call' = [call EXCEPT ![c] = st] /\ st \in CallState
          /\ st.stage = "answered" /\ st.on = call[c].on
      BY <1>0, <3>1 DEF CallState, Stage, TypeOK
    <3> HIDE DEF st
    <3> QED
      BY <2>0, <2>1, <3>2, CallMoveKeepsPromises DEF Answer, clientVars
  <2>2. CASE Renew(c)
    <3>1. [call[c] EXCEPT !.renewed = TRUE, !.rejected = call[c].token] \in CallState
      BY <1>0 DEF CallState
    <3> QED
      BY <2>2, <3>1, ForcedKeyKeepsPromises DEF Renew
  <2>3. CASE Throttle(c)
    <3> DEFINE st == [call[c] EXCEPT !.stage = "delay", !.retry = @ + 1]
    <3>1. call' = [call EXCEPT ![c] = st] /\ st \in CallState
          /\ st.stage = "delay" /\ st.on = call[c].on /\ st.retry # 0
      BY <1>0, <2>3 DEF Throttle, CallState, Stage, TypeOK
    <3> HIDE DEF st
    <3> QED
      BY <2>0, <2>3, <3>1, CallMoveKeepsPromises DEF Throttle, clientVars
  <2>4. CASE Retry(c)
    BY <2>4, PlainKeyKeepsPromises DEF Retry, Promises, RenewalComesFromAnAnswer
  <2>5. CASE Finish(c)
    <3> DEFINE st == [call[c] EXCEPT !.stage = "done", !.outcome = OutcomeOf(call[c].status)]
    <3>1. OutcomeOf(call[c].status) \in Outcome
      BY DEF OutcomeOf, Outcome
    <3>2. call' = [call EXCEPT ![c] = st] /\ st \in CallState
          /\ st.stage = "done" /\ st.on = call[c].on
      BY <1>0, <2>5, <3>1 DEF Finish, CallState, Stage, TypeOK
    <3> HIDE DEF st
    <3> QED
      BY <2>0, <2>5, <3>2, CallMoveKeepsPromises DEF Finish, clientVars
  <2> QED
    BY <1>2, <2>1, <2>2, <2>3, <2>4, <2>5 DEF CallStep
<1>3. ASSUME NEW r \in Call, ResolutionStep(r) PROVE Promises'
  <2>1. CASE Settle(r)
    BY <2>1, SettleKeepsPromises
  <2>2. CASE Lookup(r) \/ UseCached(r) \/ Evict(r) \/ Authenticate(r)
             \/ AuthenticateFails(r) \/ Store(r)
    <3>1. /\ Running(r) /\ Running(r)'
          /\ resolution'[r].forced = resolution[r].forced
          /\ \A s \in Call : s # r => resolution'[s] = resolution[s]
      BY <1>0, <2>2 DEF Lookup, UseCached, Evict, Authenticate, AuthenticateFails, Store,
                        Running, TypeOK, Resolution
    <3>2. UNCHANGED <<refreshing, refreshingForced, call>>
      BY <2>2 DEF Lookup, UseCached, Evict, Authenticate, AuthenticateFails, Store, clientVars
    <3> QED
      BY <3>1, <3>2, ResolutionMoveKeepsPromises
  <2> QED
    BY <1>3, <2>1, <2>2 DEF ResolutionStep
<1>4. ASSUME UNCHANGED <<clientVars, resolution, call>> PROVE Promises'
  BY <1>4 DEF clientVars, Promises, SlotIsLive, AwaitedIsLive, OwnerAwaits, OnlyAwaitingWaits,
              RenewalComesFromAnAnswer, Running
<1>5. ASSUME NEW t \in Mortal, Revoke(t) PROVE Promises'
  BY <1>4, <1>5 DEF Revoke
<1>6. CASE ExpireEntry \/ Finished \/ UNCHANGED vars
  BY <1>4, <1>6 DEF ExpireEntry, Finished, vars, clientVars
<1> QED
  BY <1>1, <1>2, <1>3, <1>5, <1>6 DEF Next

LEMMA PromisesAlways == Spec => [](TypeOK /\ Promises)
BY TypeInit, TypeStep, PromisesInit, PromisesStep, PTL DEF Spec

(***************************************************************************)
(* `refreshing` and `refreshingForced` never outlive the resolution they   *)
(* are about (client.ts:324-331).                                          *)
(***************************************************************************)
THEOREM SlotLive == Spec => []SlotIsLive
<1>1. Promises => SlotIsLive
  BY DEF Promises
<1> QED
  BY <1>1, PromisesAlways, PTL

(***************************************************************************)
(* No call awaits a settled promise, and a call that was answered 401      *)
(* awaits a forced resolution only (client.ts:313-322).                    *)
(***************************************************************************)
THEOREM AwaitedLive == Spec => []AwaitedIsLive
<1>1. Promises => AwaitedIsLive
  BY DEF Promises
<1> QED
  BY <1>1, PromisesAlways, PTL

-----------------------------------------------------------------------------
(***************************************************************************)
(* Which tokens a resolution hands out.  A dead token is the one that an   *)
(* earlier request left behind; a forced resolution never takes a token    *)
(* from the cache, so what it settles to was minted after that one.        *)
(***************************************************************************)
OnlySeedDies == dead \subseteq {SeedToken} /\ minted >= SeedToken

Fresh(t) == t > SeedToken

MintedIsFresh ==
  \A r \in Call :
    /\ resolution[r].phase = "store" => Fresh(resolution[r].token)
    /\ resolution[r].forced /\ resolution[r].phase = "settling" => Fresh(resolution[r].token)
    /\ resolution[r].forced => resolution[r].phase \notin {"lookup", "found"}

RejectedIsDead ==
  \A c \in Call :
    /\ call[c].renewed => call[c].rejected \in dead
    /\ call[c].stage = "answered" /\ call[c].status = "unauthorized" => call[c].token \in dead

RenewedIsFresh ==
  \A c \in Call :
    call[c].renewed /\ call[c].retry = 0 /\ call[c].stage \in {"fetch", "answered"} =>
      Fresh(call[c].token)

UnavailableEnds ==
  \A c \in Call :
    call[c].outcome = "PLUGGY_UNAVAILABLE" =>
      /\ call[c].stage = "done"
      /\ call[c].status = "unauthorized" => call[c].retry > 0

Tokens ==
  /\ OnlySeedDies
  /\ MintedIsFresh
  /\ RejectedIsDead
  /\ RenewedIsFresh
  /\ UnavailableEnds

(* A call that asks for a key: it fetches with one, or awaits one. *)
LEMMA AskingKeepsTokens ==
  ASSUME TypeOK, Tokens, NEW c \in Call, NEW st \in CallState,
         st.renewed => st.rejected \in dead,
         st.outcome # "PLUGGY_UNAVAILABLE",
         \/ PlainKey(c, st) /\ (st.renewed => st.retry # 0)
         \/ ForcedKey(c, st),
         UNCHANGED <<minted, dead>>
  PROVE  Tokens'
<1> USE CallAssumption
<1> DEFINE k == ClientOf[c]
<1>1. /\ \A d \in Call : d # c => call'[d] = call[d]
      /\ call'[c].stage \in {"fetch", "await"}
      /\ call'[c].stage = "fetch" => (st.renewed => st.retry # 0)
      /\ call'[c].renewed = st.renewed /\ call'[c].retry = st.retry
      /\ call'[c].rejected = st.rejected /\ call'[c].outcome = st.outcome
  <2>1. ASSUME NEW t, call' = [call EXCEPT ![c] = Present(st, t)], st.renewed => st.retry # 0
        PROVE  <1>1
    BY <2>1 DEF TypeOK, Present, CallState
  <2>2. ASSUME NEW r, call' = [call EXCEPT ![c] = AwaitOn(st, r)]
        PROVE  <1>1
    BY <2>2 DEF TypeOK, AwaitOn, CallState
  <2> QED
    BY <2>1, <2>2 DEF PlainKey, ForcedKey, StartResolve, JoinRefresh
<1>2. /\ \A r \in Call : r # c => resolution'[r] = resolution[r]
      /\ \/ resolution'[c] = resolution[c]
         \/ /\ resolution'[c].phase \in {"auth", "evict", "lookup"}
            /\ resolution'[c].forced => resolution'[c].phase # "lookup"
  BY DEF TypeOK, PlainKey, ForcedKey, StartResolve, JoinRefresh, FirstPhase
<1>3. OnlySeedDies'
  BY DEF Tokens, OnlySeedDies
<1>4. MintedIsFresh'
  BY <1>2 DEF Tokens, MintedIsFresh
<1>5. RejectedIsDead' /\ RenewedIsFresh' /\ UnavailableEnds'
  BY <1>1 DEF Tokens, RejectedIsDead, RenewedIsFresh, UnavailableEnds
<1> QED
  BY <1>3, <1>4, <1>5 DEF Tokens

(* What a resolution hands to the calls that await it: to one that was     *)
(* answered 401, a fresh token.                                            *)
LEMMA SettleKeepsTokens ==
  ASSUME TypeOK, Promises, Tokens, NEW r \in Call, Settle(r)
  PROVE  Tokens'
<1>1. \A d \in Call : call[d].on # r => call'[d] = call[d]
  BY DEF Settle
<1>2. \A d \in Call : call[d].on = r =>
        /\ call'[d].stage \in {"fetch", "done"}
        /\ call'[d].stage = "fetch" => resolution[r].phase = "settling"
                                       /\ call'[d].token = resolution[r].token
        /\ call'[d].renewed = call[d].renewed /\ call'[d].retry = call[d].retry
        /\ call'[d].rejected = call[d].rejected
        /\ call'[d].outcome \in {call[d].outcome, "PLUGGY_AUTH_FAILED"}
  BY DEF Settle, Present, TypeOK, CallState
<1>3. \A d \in Call : call[d].on = r /\ call[d].renewed /\ call[d].retry = 0 =>
        resolution[r].forced
  BY CallAssumption DEF Promises, OnlyAwaitingWaits, AwaitedIsLive, TypeOK
<1>4. \A d \in Call : call[d].on = r => call[d].outcome # "PLUGGY_UNAVAILABLE"
  BY CallAssumption DEF Promises, OnlyAwaitingWaits, Tokens, UnavailableEnds
<1>5. resolution' = [resolution EXCEPT ![r] = NoResolution]
  BY DEF Settle
<1>6. OnlySeedDies' /\ dead' = dead
  BY DEF Tokens, OnlySeedDies, Settle
<1>7. MintedIsFresh'
  BY <1>5 DEF Tokens, MintedIsFresh, NoResolution, TypeOK
<1>8. RejectedIsDead'
  BY <1>1, <1>2, <1>6 DEF Tokens, RejectedIsDead
<1>9. RenewedIsFresh'
  BY <1>1, <1>2, <1>3 DEF Tokens, RenewedIsFresh, MintedIsFresh
<1>10. UnavailableEnds'
  BY <1>1, <1>2, <1>4 DEF Tokens, UnavailableEnds
<1> QED
  BY <1>6, <1>7, <1>8, <1>9, <1>10 DEF Tokens

LEMMA TokensInit == Init => Tokens
BY FreshTokensOutliveRequests
   DEF Init, Tokens, OnlySeedDies, MintedIsFresh, RejectedIsDead, RenewedIsFresh,
       UnavailableEnds, NoResolution, FreshCall, SeedToken

LEMMA TokensStep == TypeOK /\ Promises /\ Tokens /\ [Next]_vars => Tokens'
<1> SUFFICES ASSUME TypeOK, Promises, Tokens, [Next]_vars PROVE Tokens'
  OBVIOUS
<1>0. \A c \in Call : call[c] \in CallState /\ resolution[c] \in Resolution
  BY DEF TypeOK
<1>1. ASSUME NEW c \in Call, Start(c) PROVE Tokens'
  <2>1. call[c].outcome # "PLUGGY_UNAVAILABLE" /\ ~call[c].renewed
    BY <1>1 DEF Start, Tokens, UnavailableEnds, Promises, RenewalComesFromAnAnswer
  <2> QED
    BY <1>0, <1>1, <2>1, AskingKeepsTokens DEF Start
<1>2. ASSUME NEW c \in Call, CallStep(c) PROVE Tokens'
  <2>0. call[c].stage # "done" => call[c].outcome # "PLUGGY_UNAVAILABLE"
    BY DEF Tokens, UnavailableEnds
  <2>1. CASE Answer(c)
    <3>1. PICK s \in Status :
            /\ call' = [call EXCEPT ![c].stage = "answered", ![c].status = s]
            /\ s = "unauthorized" => call[c].token \in dead
      BY <2>1, ProviderAssumption DEF Answer, Status
    <3>2. \A d \in Call : d # c => call'[d] = call[d]
      BY <3>1 DEF TypeOK
    <3>3. /\ call'[c].stage = "answered" /\ call'[c].status = s
          /\ call'[c].token = call[c].token /\ call'[c].outcome = call[c].outcome
          /\ call'[c].renewed = call[c].renewed /\ call'[c].retry = call[c].retry
          /\ call'[c].rejected = call[c].rejected
      BY <1>0, <3>1 DEF TypeOK, CallState
    <3>4. /\ call[c].stage = "fetch"
          /\ s = "unauthorized" => call[c].token \in dead
          /\ UNCHANGED <<resolution, minted, dead>>
      BY <2>1, <3>1 DEF Answer
    <3>5. OnlySeedDies' /\ MintedIsFresh'
      BY <3>4 DEF Tokens, OnlySeedDies, MintedIsFresh
    <3>6. RejectedIsDead'
      BY <3>2, <3>3, <3>4 DEF Tokens, RejectedIsDead
    <3>7. RenewedIsFresh' /\ UnavailableEnds'
      BY <2>0, <3>2, <3>3, <3>4 DEF Tokens, RenewedIsFresh, UnavailableEnds
    <3> QED
      BY <3>5, <3>6, <3>7 DEF Tokens
  <2>2. CASE Renew(c)
    <3> DEFINE st == [call[c] EXCEPT !.renewed = TRUE, !.rejected = call[c].token]
    <3>1. st \in CallState /\ st.rejected = call[c].token /\ st.outcome = call[c].outcome
      BY <1>0 DEF CallState
    <3>2. call[c].token \in dead
      BY <2>2 DEF Renew, Tokens, RejectedIsDead
    <3>3. ForcedKey(c, st) /\ UNCHANGED <<minted, dead>> /\ call[c].stage # "done"
      BY <2>2 DEF Renew
    <3> HIDE DEF st
    <3> QED
      BY <2>0, <3>1, <3>2, <3>3, AskingKeepsTokens
  <2>3. CASE Throttle(c)
    <3>1. /\ \A d \in Call : d # c => call'[d] = call[d]
          /\ call'[c].stage = "delay" /\ call'[c].outcome = call[c].outcome
          /\ call'[c].renewed = call[c].renewed /\ call'[c].rejected = call[c].rejected
          /\ call[c].stage # "done"
      BY <1>0, <2>3 DEF Throttle, TypeOK, CallState
    <3>2. UNCHANGED <<resolution, minted, dead>>
      BY <2>3 DEF Throttle
    <3>3. OnlySeedDies' /\ MintedIsFresh'
      BY <3>2 DEF Tokens, OnlySeedDies, MintedIsFresh
    <3>4. RejectedIsDead' /\ RenewedIsFresh' /\ UnavailableEnds'
      BY <2>0, <3>1, <3>2 DEF Tokens, RejectedIsDead, RenewedIsFresh, UnavailableEnds
    <3> QED
      BY <3>3, <3>4 DEF Tokens
  <2>4. CASE Retry(c)
    <3>1. /\ call[c].stage = "delay" /\ call[c].retry # 0
          /\ call[c].renewed => call[c].rejected \in dead
      BY <2>4 DEF Retry, Promises, RenewalComesFromAnAnswer, Tokens, RejectedIsDead
    <3>2. PlainKey(c, call[c]) /\ UNCHANGED <<minted, dead>>
      BY <2>4 DEF Retry
    <3> QED
      BY <1>0, <2>0, <3>1, <3>2, AskingKeepsTokens
  <2>5. CASE Finish(c)
    <3>1. /\ \A d \in Call : d # c => call'[d] = call[d]
          /\ call'[c].stage = "done" /\ call'[c].outcome = OutcomeOf(call[c].status)
          /\ call'[c].status = call[c].status /\ call'[c].retry = call[c].retry
          /\ call'[c].renewed = call[c].renewed /\ call'[c].rejected = call[c].rejected
      BY <1>0, <2>5 DEF Finish, TypeOK, CallState
    <3>2. UNCHANGED <<resolution, minted, dead>>
      BY <2>5 DEF Finish
    <3>3. OnlySeedDies' /\ MintedIsFresh'
      BY <3>2 DEF Tokens, OnlySeedDies, MintedIsFresh
    <3>4. RejectedIsDead' /\ RenewedIsFresh'
      BY <3>1, <3>2 DEF Tokens, RejectedIsDead, RenewedIsFresh
    <3>5. call[c].status = "unauthorized" => call[c].retry > 0
      <4> SUFFICES ASSUME call[c].status = "unauthorized", call[c].retry = 0 PROVE FALSE
        BY <1>0 DEF CallState
      <4>1. call[c].renewed /\ call[c].stage = "answered"
        BY <2>5 DEF Finish
      <4>2. call[c].token \in dead /\ Fresh(call[c].token)
        BY <4>1 DEF Tokens, RejectedIsDead, RenewedIsFresh
      <4> QED
        BY <1>0, <4>2 DEF Tokens, OnlySeedDies, Fresh, SeedToken, CallState
    <3>6. UnavailableEnds'
      BY <3>1, <3>5 DEF Tokens, UnavailableEnds
    <3> QED
      BY <3>3, <3>4, <3>6 DEF Tokens
  <2> QED
    BY <1>2, <2>1, <2>2, <2>3, <2>4, <2>5 DEF CallStep
<1>3. ASSUME NEW r \in Call, ResolutionStep(r) PROVE Tokens'
  <2>1. CASE Settle(r)
    BY <2>1, SettleKeepsTokens
  <2>2. CASE Authenticate(r)
    <3>1. /\ \A s \in Call : s # r => resolution'[s] = resolution[s]
          /\ resolution'[r].token = minted + 1
          /\ resolution'[r].phase \in {"store", "settling"}
      BY <1>0, <2>2 DEF Authenticate, TypeOK, Resolution
    <3>2. Fresh(minted + 1)
      BY DEF TypeOK, Tokens, OnlySeedDies, SeedToken, Fresh
    <3>3. MintedIsFresh'
      BY <3>1, <3>2 DEF Tokens, MintedIsFresh
    <3>4. OnlySeedDies'
      BY <2>2 DEF Authenticate, TypeOK, Tokens, OnlySeedDies, SeedToken
    <3>5. RejectedIsDead' /\ RenewedIsFresh' /\ UnavailableEnds'
      BY <2>2 DEF Authenticate, Tokens, RejectedIsDead, RenewedIsFresh, UnavailableEnds
    <3> QED
      BY <3>3, <3>4, <3>5 DEF Tokens
  <2>3. CASE Lookup(r) \/ UseCached(r) \/ Evict(r) \/ AuthenticateFails(r) \/ Store(r)
    <3>1. UNCHANGED <<call, minted, dead>>
      BY <2>3 DEF Lookup, UseCached, Evict, AuthenticateFails, Store
    <3>2. OnlySeedDies' /\ RejectedIsDead' /\ RenewedIsFresh' /\ UnavailableEnds'
      BY <3>1 DEF Tokens, OnlySeedDies, RejectedIsDead, RenewedIsFresh, UnavailableEnds
    <3>3. MintedIsFresh'
      <4>1. \A s \in Call : s # r => resolution'[s] = resolution[s]
        BY <2>3 DEF Lookup, UseCached, Evict, AuthenticateFails, Store, TypeOK
      <4>2. /\ resolution'[r].forced = resolution[r].forced
            /\ \/ resolution[r].phase = "lookup" /\ resolution'[r].phase \in {"found", "auth"}
               \/ resolution[r].phase = "found" /\ resolution'[r].phase = "settling"
               \/ resolution[r].phase \in {"evict", "auth"}
                  /\ resolution'[r].phase \in {"auth", "failing"}
               \/ /\ resolution[r].phase = "store" /\ resolution'[r].phase = "settling"
                  /\ resolution'[r].token = resolution[r].token
        BY <1>0, <2>3 DEF Lookup, UseCached, Evict, AuthenticateFails, Store, TypeOK, Resolution
      <4> QED
        BY <4>1, <4>2 DEF Tokens, MintedIsFresh
    <3> QED
      BY <3>2, <3>3 DEF Tokens
  <2> QED
    BY <1>3, <2>1, <2>2, <2>3 DEF ResolutionStep
<1>4. ASSUME NEW t \in Mortal, Revoke(t) PROVE Tokens'
  <2>1. dead' = dead \cup {t} /\ t = SeedToken
    BY <1>4, FreshTokensOutliveRequests DEF Revoke
  <2> QED
    BY <1>4, <2>1 DEF Revoke, Tokens, OnlySeedDies, MintedIsFresh, RejectedIsDead,
                      RenewedIsFresh, UnavailableEnds
<1>5. CASE ExpireEntry \/ Finished \/ UNCHANGED vars
  BY <1>5 DEF ExpireEntry, Finished, vars, Tokens, OnlySeedDies, MintedIsFresh, RejectedIsDead,
              RenewedIsFresh, UnavailableEnds
<1> QED
  BY <1>1, <1>2, <1>3, <1>4, <1>5 DEF Next

LEMMA TokensAlways == Spec => [](TypeOK /\ Promises /\ Tokens)
BY TypeInit, TypeStep, PromisesInit, PromisesStep, TokensInit, TokensStep, PTL DEF Spec

(***************************************************************************)
(* The fetch after a 401 presents neither the rejected token nor a dead    *)
(* one, whatever plain resolution was still running (client.ts:313-322).   *)
(***************************************************************************)
THEOREM RenewalIsFresh == Spec => []RenewedTokenIsFresh
<1>1. TypeOK /\ Tokens => RenewedTokenIsFresh
  BY DEF TypeOK, CallState, Tokens, RenewedIsFresh, RejectedIsDead, OnlySeedDies, Fresh,
         SeedToken, RenewedTokenIsFresh
<1> QED
  BY <1>1, TokensAlways, PTL

(***************************************************************************)
(* A 401 is final only for a call that a 429 sent back for a key.          *)
(***************************************************************************)
THEOREM GivesUpOnlyWhenThrottled == Spec => []GivesUpUnauthorizedOnlyWhenThrottled
<1>1. Tokens => GivesUpUnauthorizedOnlyWhenThrottled
  BY DEF Tokens, UnavailableEnds, GivesUpUnauthorizedOnlyWhenThrottled
<1> QED
  BY <1>1, TokensAlways, PTL

(***************************************************************************)
(* No step writes a token the provider refuses into the shared entry.      *)
(***************************************************************************)
THEOREM CacheStaysGood == Spec => CacheNeverRegresses
<1>1. TypeOK /\ Promises /\ Tokens /\ [Next]_vars =>
        [cacheEntry' \notin {cacheEntry, NoToken} => cacheEntry' \notin dead]_vars
  <2> SUFFICES ASSUME TypeOK, Tokens, [Next]_vars, cacheEntry' \notin {cacheEntry, NoToken}
               PROVE  cacheEntry' \notin dead
    OBVIOUS
  <2>1. PICK r \in Call : Store(r)
    BY DEF Next, Start, CallStep, Answer, Renew, Throttle, Retry, Finish, ResolutionStep,
           Lookup, UseCached, Evict, Authenticate, AuthenticateFails, Settle, Revoke,
           ExpireEntry, Finished, vars
  <2>2. /\ cacheEntry' = resolution[r].token /\ Fresh(resolution[r].token)
        /\ resolution[r].token \in Nat
    BY <2>1 DEF Store, Tokens, MintedIsFresh, TypeOK, Resolution
  <2> QED
    BY <2>2 DEF Tokens, OnlySeedDies, Fresh, SeedToken
<1> QED
  BY <1>1, TokensAlways, PTL DEF Spec, CacheNeverRegresses

-----------------------------------------------------------------------------
(***************************************************************************)
(* The safety half of the refinement: every step of the client is, for     *)
(* each call, a step of PluggyRequest or none.                             *)
(***************************************************************************)
Keys ==
  /\ \A c \in Call : ~call[c].renewed => call[c].rejected = NoToken
  /\ \A r \in Call : resolution[r].phase \in {"found", "settling"} =>
                       resolution[r].token # NoToken

LEMMA KeysInit == Init => Keys
BY DEF Init, Keys, FreshCall, NoResolution

LEMMA KeysStep == TypeOK /\ Tokens /\ Keys /\ [Next]_vars => Keys'
<1> SUFFICES ASSUME TypeOK, Tokens, Keys, [Next]_vars PROVE Keys'
  OBVIOUS
<1> USE DEF TypeOK
<1>1. ASSUME NEW c \in Call, NEW st \in CallState, ~st.renewed => st.rejected = NoToken,
             PlainKey(c, st) \/ ForcedKey(c, st)
      PROVE  Keys'
  <2>1. /\ \A d \in Call : d # c => call'[d] = call[d]
        /\ call'[c].renewed = st.renewed /\ call'[c].rejected = st.rejected
    <3>1. ASSUME NEW t, call' = [call EXCEPT ![c] = Present(st, t)] PROVE <2>1
      BY <3>1 DEF Present, CallState
    <3>2. ASSUME NEW r, call' = [call EXCEPT ![c] = AwaitOn(st, r)] PROVE <2>1
      BY <3>2 DEF AwaitOn, CallState
    <3> QED
      BY <1>1, <3>1, <3>2 DEF PlainKey, ForcedKey, StartResolve, JoinRefresh
  <2>2. /\ \A r \in Call : r # c => resolution'[r] = resolution[r]
        /\ resolution'[c] = resolution[c] \/ resolution'[c].phase \in {"auth", "evict", "lookup"}
    BY <1>1 DEF PlainKey, ForcedKey, StartResolve, JoinRefresh, FirstPhase
  <2> QED
    BY <1>1, <2>1, <2>2 DEF Keys
<1>2. ASSUME NEW c \in Call, Start(c) \/ Retry(c) PROVE Keys'
  BY <1>1, <1>2 DEF Start, Retry, Keys
<1>3. ASSUME NEW c \in Call, Renew(c) PROVE Keys'
  <2> DEFINE st == [call[c] EXCEPT !.renewed = TRUE, !.rejected = call[c].token]
  <2>1. st \in CallState /\ st.renewed
    BY DEF CallState
  <2>2. ForcedKey(c, st)
    BY <1>3 DEF Renew
  <2> HIDE DEF st
  <2> QED
    BY <1>1, <2>1, <2>2
<1>4. ASSUME NEW c \in Call, Answer(c) \/ Throttle(c) \/ Finish(c) PROVE Keys'
  <2>1. resolution' = resolution
    BY <1>4 DEF Answer, Throttle, Finish
  <2>2. \A d \in Call : call'[d].renewed = call[d].renewed /\ call'[d].rejected = call[d].rejected
    BY <1>4 DEF Answer, Throttle, Finish, CallState
  <2> QED
    BY <2>1, <2>2 DEF Keys
<1>5. ASSUME NEW r \in Call, Settle(r) PROVE Keys'
  <2>1. \A d \in Call : call'[d].renewed = call[d].renewed /\ call'[d].rejected = call[d].rejected
    BY <1>5 DEF Settle, Present, CallState
  <2>2. resolution' = [resolution EXCEPT ![r] = NoResolution]
    BY <1>5 DEF Settle
  <2> QED
    BY <2>1, <2>2 DEF Keys, NoResolution
<1>6. ASSUME NEW r \in Call,
             Lookup(r) \/ UseCached(r) \/ Evict(r) \/ Authenticate(r)
             \/ AuthenticateFails(r) \/ Store(r)
      PROVE  Keys'
  <2>1. /\ call' = call
        /\ \A s \in Call : s # r => resolution'[s] = resolution[s]
    BY <1>6 DEF Lookup, UseCached, Evict, Authenticate, AuthenticateFails, Store
  <2>2. resolution'[r].phase \in {"found", "settling"} => resolution'[r].token # NoToken
    <3>1. resolution[r] \in Resolution
      OBVIOUS
    <3>2. CASE Lookup(r) \/ Evict(r) \/ AuthenticateFails(r)
      BY <3>1, <3>2 DEF Lookup, Evict, AuthenticateFails, Resolution
    <3>3. CASE UseCached(r)
      BY <3>1, <3>3 DEF UseCached, Keys, Resolution
    <3>4. CASE Authenticate(r)
      BY <3>1, <3>4 DEF Authenticate, Resolution, NoToken
    <3>5. CASE Store(r)
      BY <3>1, <3>5 DEF Store, Tokens, MintedIsFresh, Fresh, SeedToken, NoToken, Resolution
    <3> QED
      BY <1>6, <3>2, <3>3, <3>4, <3>5
  <2> QED
    BY <2>1, <2>2 DEF Keys
<1>7. ASSUME UNCHANGED <<call, resolution>> PROVE Keys'
  BY <1>7 DEF Keys
<1> QED
  BY <1>2, <1>3, <1>4, <1>5, <1>6, <1>7
     DEF Next, CallStep, ResolutionStep, Revoke, ExpireEntry, Finished, vars

LEMMA ContractInit == Init => Contract!Init
BY DEF Init, Contract!Init, Contract!NoKey, FreshCall, NoToken, request, RequestState

(* What one call may do, in terms of its own local state. *)
ContractMove(c) ==
  LET st == call[c]
      sent == call'[c].stage \in {"fetch", "answered"}
      waiting == call'[c].stage \in {"await", "delay"}
      same == /\ call'[c].rejected = st.rejected /\ call'[c].retry = st.retry
  IN
  \/ /\ st.stage \in {"idle", "await", "delay"} /\ sent /\ same
     /\ call'[c].token # NoToken
     /\ st.retry = 0 => call'[c].token # st.rejected
  \/ /\ st.stage \in {"idle", "delay"} /\ waiting /\ same /\ call'[c].token = st.token
  \/ /\ st.stage = "fetch" /\ sent /\ same /\ call'[c].token = st.token
  \/ /\ st.stage = "answered" /\ waiting /\ st.rejected = NoToken /\ st.retry = 0
     /\ call'[c].rejected = st.token /\ call'[c].retry = 0 /\ call'[c].token = st.token
  \/ /\ st.stage = "answered" /\ waiting /\ st.retry < MaxThrottle
     /\ call'[c].rejected = st.rejected /\ call'[c].retry = st.retry + 1
     /\ call'[c].token = st.token
  \/ /\ st.stage \in {"await", "answered"} /\ call'[c].stage = "done"
     /\ same /\ call'[c].token = st.token

LEMMA MoveRefines ==
  ASSUME TypeOK, TypeOK', NEW c \in Call, ContractMove(c)
  PROVE  [Contract!Step(c)]_(request[c])
<1> DEFINE st == call[c]
           next == call'[c]
           req == request[c]
<1>1. st \in CallState /\ next \in CallState
  BY DEF TypeOK
<1>2. /\ req = [state |-> RequestState(st), key |-> st.token,
                refused |-> st.rejected, backoffs |-> st.retry]
      /\ request'[c] = [state |-> RequestState(next), key |-> next.token,
                        refused |-> next.rejected, backoffs |-> next.retry]
  BY DEF request
<1>3. \A s \in CallState :
        /\ s.stage = "idle" => RequestState(s) = "idle"
        /\ s.stage \in {"await", "delay"} => RequestState(s) = "waiting"
        /\ s.stage \in {"fetch", "answered"} => RequestState(s) = "sent"
        /\ s.stage = "done" => RequestState(s) = "ended"
  BY DEF RequestState
<1>4. st.token \in Nat /\ next.token \in Nat /\ st.retry \in Nat
  BY <1>1 DEF CallState
<1> HIDE DEF st, next, request
<1>5. CASE /\ st.stage \in {"idle", "await", "delay"} /\ next.stage \in {"fetch", "answered"}
           /\ next.rejected = st.rejected /\ next.retry = st.retry
           /\ next.token # NoToken
           /\ st.retry = 0 => next.token # st.rejected
  <2>1. RequestState(st) \in {"idle", "waiting"} /\ RequestState(next) = "sent"
    BY <1>1, <1>3, <1>5
  <2> QED
    BY <1>2, <1>4, <1>5, <2>1
       DEF Contract!Step, Contract!Present, Contract!Becomes, Contract!NoKey, NoToken
<1>6. CASE /\ st.stage = "idle" /\ next.stage \in {"await", "delay"}
           /\ next.rejected = st.rejected /\ next.retry = st.retry /\ next.token = st.token
  <2>1. RequestState(st) = "idle" /\ RequestState(next) = "waiting"
    BY <1>1, <1>3, <1>6
  <2> QED
    BY <1>2, <1>6, <2>1 DEF Contract!Step, Contract!Ask, Contract!Becomes
<1>7. CASE /\ \/ st.stage = "delay" /\ next.stage \in {"await", "delay"}
              \/ st.stage = "fetch" /\ next.stage \in {"fetch", "answered"}
           /\ next.rejected = st.rejected /\ next.retry = st.retry /\ next.token = st.token
  <2>1. RequestState(st) = RequestState(next)
    BY <1>1, <1>3, <1>7
  <2> QED
    BY <1>2, <1>7, <2>1
<1>8. CASE /\ st.stage = "answered" /\ next.stage \in {"await", "delay"}
           /\ st.rejected = NoToken /\ st.retry = 0
           /\ next.rejected = st.token /\ next.retry = 0 /\ next.token = st.token
  <2>1. RequestState(st) = "sent" /\ RequestState(next) = "waiting"
    BY <1>1, <1>3, <1>8
  <2> QED
    BY <1>2, <1>8, <2>1
       DEF Contract!Step, Contract!Refuse, Contract!Becomes, Contract!NoKey, NoToken
<1>9. CASE /\ st.stage = "answered" /\ next.stage \in {"await", "delay"}
           /\ st.retry < MaxThrottle /\ next.rejected = st.rejected
           /\ next.retry = st.retry + 1 /\ next.token = st.token
  <2>1. RequestState(st) = "sent" /\ RequestState(next) = "waiting"
    BY <1>1, <1>3, <1>9
  <2> QED
    BY <1>2, <1>9, <2>1 DEF Contract!Step, Contract!Backoff, Contract!Becomes
<1>10. CASE /\ st.stage \in {"await", "answered"} /\ next.stage = "done"
            /\ next.rejected = st.rejected /\ next.retry = st.retry /\ next.token = st.token
  <2>1. RequestState(st) \in {"waiting", "sent"} /\ RequestState(next) = "ended"
    BY <1>1, <1>3, <1>10
  <2> QED
    BY <1>2, <1>10, <2>1 DEF Contract!Step, Contract!End, Contract!Becomes
<1> QED
  BY <1>5, <1>6, <1>7, <1>8, <1>9, <1>10 DEF ContractMove, st, next

LEMMA PlainKeyMoves ==
  ASSUME TypeOK, NEW c \in Call, call[c].stage \in {"idle", "delay"},
         call[c].retry = 0 => call[c].rejected = NoToken,
         PlainKey(c, call[c])
  PROVE  \A d \in Call : ContractMove(d) \/ call'[d] = call[d]
<1>0. call[c] \in CallState /\ call \in [Call -> CallState]
  BY DEF TypeOK
<1>1. ASSUME NEW t, t # NoToken, call' = [call EXCEPT ![c] = Present(call[c], t)]
      PROVE  ContractMove(c)
  <2>1. /\ call'[c].stage = "fetch" /\ call'[c].token = t
        /\ call'[c].rejected = call[c].rejected /\ call'[c].retry = call[c].retry
    BY <1>0, <1>1 DEF Present, CallState
  <2> QED
    BY <1>1, <2>1 DEF ContractMove
<1>2. ASSUME NEW r, call' = [call EXCEPT ![c] = AwaitOn(call[c], r)]
      PROVE  ContractMove(c)
  <2>1. /\ call'[c].stage = "await" /\ call'[c].token = call[c].token
        /\ call'[c].rejected = call[c].rejected /\ call'[c].retry = call[c].retry
    BY <1>0, <1>2 DEF AwaitOn, CallState
  <2> QED
    BY <2>1 DEF ContractMove
<1>3. \A d \in Call : d # c => call'[d] = call[d]
  BY <1>0 DEF PlainKey, StartResolve, JoinRefresh
<1>4. ContractMove(c)
  BY <1>1, <1>2 DEF PlainKey, StartResolve, JoinRefresh
<1> QED
  BY <1>3, <1>4

LEMMA RenewMoves ==
  ASSUME TypeOK, Keys, NEW c \in Call, Renew(c)
  PROVE  \A d \in Call : ContractMove(d) \/ call'[d] = call[d]
<1> DEFINE st == [call[c] EXCEPT !.renewed = TRUE, !.rejected = call[c].token]
<1>0. call[c] \in CallState /\ call \in [Call -> CallState]
  BY DEF TypeOK
<1>1. /\ st.token = call[c].token /\ st.rejected = call[c].token
      /\ st.retry = call[c].retry /\ st \in CallState
  BY <1>0 DEF CallState
<1>2. /\ call[c].stage = "answered" /\ call[c].retry = 0 /\ call[c].rejected = NoToken
      /\ ForcedKey(c, st)
  BY DEF Renew, Keys
<1> HIDE DEF st
<1>3. PICK r : call' = [call EXCEPT ![c] = AwaitOn(st, r)]
  BY <1>2 DEF ForcedKey, StartResolve, JoinRefresh
<1>4. /\ call'[c].stage = "await" /\ call'[c].token = st.token
      /\ call'[c].rejected = st.rejected /\ call'[c].retry = st.retry
  BY <1>0, <1>1, <1>3 DEF AwaitOn, CallState
<1>5. ContractMove(c)
  BY <1>1, <1>2, <1>4 DEF ContractMove
<1> QED
  BY <1>0, <1>3, <1>5

LEMMA SettleMoves ==
  ASSUME TypeOK, Promises, Tokens, Keys, NEW r \in Call, Settle(r), NEW d \in Call
  PROVE  ContractMove(d) \/ call'[d] = call[d]
<1>0. call[d] \in CallState
  BY DEF TypeOK
<1>1. CASE call[d].on # r
  BY <1>1 DEF Settle
<1>2. CASE call[d].on = r
  <2>1. call[d].stage = "await"
    BY <1>2, CallAssumption DEF Promises, OnlyAwaitingWaits
  <2>2. /\ call'[d].rejected = call[d].rejected /\ call'[d].retry = call[d].retry
        /\ \/ call'[d].stage = "done" /\ call'[d].token = call[d].token
           \/ /\ call'[d].stage = "fetch" /\ call'[d].token = resolution[r].token
              /\ resolution[r].phase = "settling"
    BY <1>0, <1>2 DEF Settle, Present, CallState
  <2>3. ASSUME resolution[r].phase = "settling"
        PROVE  /\ resolution[r].token # NoToken
               /\ call[d].retry = 0 => resolution[r].token # call[d].rejected
    <3>1. resolution[r].token # NoToken
      BY <2>3 DEF Keys
    <3>2. CASE ~call[d].renewed
      BY <3>1, <3>2 DEF Keys
    <3>3. CASE call[d].renewed /\ call[d].retry = 0
      <4>1. resolution[r].forced
        BY <1>2, <2>1, <3>3 DEF Promises, AwaitedIsLive
      <4>2. Fresh(resolution[r].token) /\ call[d].rejected \in dead
        BY <2>3, <3>3, <4>1 DEF Tokens, MintedIsFresh, RejectedIsDead
      <4>3. resolution[r].token \in Nat
        BY DEF TypeOK, Resolution
      <4> QED
        BY <3>1, <4>2, <4>3 DEF Tokens, OnlySeedDies, Fresh, SeedToken
    <3> QED
      BY <1>0, <3>1, <3>2, <3>3 DEF CallState
  <2> QED
    BY <2>1, <2>2, <2>3 DEF ContractMove
<1> QED
  BY <1>1, <1>2

LEMMA StepMoves ==
  ASSUME TypeOK, Promises, Tokens, Keys, [Next]_vars
  PROVE  \A d \in Call : ContractMove(d) \/ call'[d] = call[d]
<1>0. call \in [Call -> CallState]
  BY DEF TypeOK
<1>1. ASSUME NEW c \in Call, Start(c)
      PROVE  \A d \in Call : ContractMove(d) \/ call'[d] = call[d]
  BY <1>1, PlainKeyMoves DEF Start, Promises, RenewalComesFromAnAnswer, Keys
<1>2. ASSUME NEW c \in Call, CallStep(c)
      PROVE  \A d \in Call : ContractMove(d) \/ call'[d] = call[d]
  <2>1. CASE Answer(c)
    <3>1. PICK s : call' = [call EXCEPT ![c].stage = "answered", ![c].status = s]
      BY <2>1 DEF Answer
    <3>2. /\ \A d \in Call : d # c => call'[d] = call[d]
          /\ call'[c].stage = "answered" /\ call'[c].token = call[c].token
          /\ call'[c].rejected = call[c].rejected /\ call'[c].retry = call[c].retry
      BY <1>0, <3>1 DEF CallState
    <3> QED
      BY <2>1, <3>2 DEF Answer, ContractMove
  <2>2. CASE Renew(c)
    BY <2>2, RenewMoves
  <2>3. CASE Throttle(c)
    <3>1. /\ \A d \in Call : d # c => call'[d] = call[d]
          /\ call'[c].stage = "delay" /\ call'[c].token = call[c].token
          /\ call'[c].rejected = call[c].rejected /\ call'[c].retry = call[c].retry + 1
      BY <1>0, <2>3 DEF Throttle, CallState
    <3> QED
      BY <2>3, <3>1 DEF Throttle, ContractMove
  <2>4. CASE Retry(c)
    BY <2>4, PlainKeyMoves DEF Retry, Promises, RenewalComesFromAnAnswer
  <2>5. CASE Finish(c)
    <3>1. /\ \A d \in Call : d # c => call'[d] = call[d]
          /\ call'[c].stage = "done" /\ call'[c].token = call[c].token
          /\ call'[c].rejected = call[c].rejected /\ call'[c].retry = call[c].retry
      BY <1>0, <2>5 DEF Finish, CallState
    <3> QED
      BY <2>5, <3>1 DEF Finish, ContractMove
  <2> QED
    BY <1>2, <2>1, <2>2, <2>3, <2>4, <2>5 DEF CallStep
<1>3. ASSUME NEW r \in Call, ResolutionStep(r)
      PROVE  \A d \in Call : ContractMove(d) \/ call'[d] = call[d]
  BY <1>3, SettleMoves
     DEF ResolutionStep, Lookup, UseCached, Evict, Authenticate, AuthenticateFails, Store
<1>4. CASE (\E t \in Mortal : Revoke(t)) \/ ExpireEntry \/ Finished \/ UNCHANGED vars
  BY <1>4 DEF Revoke, ExpireEntry, Finished, vars
<1> QED
  BY <1>1, <1>2, <1>3, <1>4 DEF Next

LEMMA StepRefines ==
  ASSUME TypeOK, TypeOK', Promises, Tokens, Keys, [Next]_vars
  PROVE  [\A c \in Call : [Contract!Step(c)]_(request[c])]_request
<1>1. ASSUME NEW c \in Call PROVE [Contract!Step(c)]_(request[c])
  <2>1. CASE ContractMove(c)
    BY <2>1, MoveRefines
  <2>2. CASE call'[c] = call[c]
    BY <2>2 DEF request, RequestState
  <2> QED
    BY <2>1, <2>2, StepMoves
<1> QED
  BY <1>1

(***************************************************************************)
(* Every call keeps the contract of PluggyRequest, whatever other calls    *)
(* and isolates do: at most one renewal, another key after a refusal,      *)
(* bounded backoff, one end (client.ts:365-392).  That it does end is      *)
(* left to TLC (ImplementsContract).                                       *)
(***************************************************************************)
THEOREM KeepsContract == Spec => Contract!Safety
<1>1. Spec => [](TypeOK /\ Promises /\ Tokens /\ Keys)
  BY TypeInit, TypeStep, PromisesInit, PromisesStep, TokensInit, TokensStep,
     KeysInit, KeysStep, PTL DEF Spec
<1>2. TypeOK /\ TypeOK' /\ Promises /\ Tokens /\ Keys /\ [Next]_vars =>
        [\A c \in Call : [Contract!Step(c)]_(request[c])]_request
  BY StepRefines
<1> QED
  BY <1>1, <1>2, ContractInit, PTL DEF Spec, Contract!Safety

=============================================================================
