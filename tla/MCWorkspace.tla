---------------------------- MODULE MCWorkspace -----------------------------
(* Reading financial data in the web client and by an agent, the provider's *)
(* tokens in the cache behind it, and the deploys of it all.  `part` says   *)
(* which of the five models moves: they share no state, so their states add *)
(* up instead of multiplying.  A unit of time is a minute: the skew and the *)
(* least TTL are those of the code, the others are shortened so that every  *)
(* clamp is met within the horizon.                                         *)
EXTENDS ConnectionScope, FinanceReads, TransactionsScreen, TokenTtl, Deployment, TLC

CONSTANTS a, b, x, t1, t2, p1, p2, i1, i2, bank, card, r1, r2, h1, h2, h3

VARIABLE part

MCTabOf == (p1 :> t1) @@ (p2 :> t2)
MCItemOf == (bank :> i1) @@ (card :> i2)
MCAccountOf == (r1 :> bank) @@ (r2 :> card)
(* The items take turns in the order of the investments. *)
MCHeldAt == (h1 :> i1) @@ (h2 :> i2) @@ (h3 :> i1)
MCRank == (h1 :> 1) @@ (h2 :> 2) @@ (h3 :> 3)
(* A month that is over, this one and one to come. *)
MCFirstDay == <<1, 3, 5, 6>>

(* One binding of each kind the API has. *)
Binding(name, kind) == [name |-> name, kind |-> kind]
MCApiBindings ==
  <<Binding("AGENT_SERVICE", "worker"), Binding("DATABASE", "d1"), Binding("EMAIL", "email"),
    Binding("R2", "r2"), Binding("CACHE", "kv"), Binding("RATE_LIMIT", "rateLimit"),
    Binding("VERSION_METADATA", "version"), Binding("USER_IDENTITY", "foreignObject"),
    Binding("CORS_ORIGIN", "var"), Binding("AUTH_SECRET", "secret")>>
MCClientId == [p \in Provider |-> "GITHUB_CLIENT_ID"]
MCClientSecret == [p \in Provider |-> "GITHUB_CLIENT_SECRET"]

ThisMonth ==
  Validated([period |-> "month", month |-> MonthOf(FirstToday), from |-> 0, to |-> 0,
             accounts |-> {}, direction |-> "all", query |-> ""])

MCInit ==
  /\ part \in {"scope", "reads", "screen", "token", "deploy"}
  /\ ScopeInit /\ ReadsInit /\ ScreenInit /\ TtlInit /\ DeployInit
  /\ part # "scope" => setting = None
  /\ part # "reads" => connected
  /\ part # "screen" => search = ThisMonth
  /\ part # "deploy" => settings = Required

(* The clock stops at the horizon. *)
Stopped == now = Horizon /\ UNCHANGED ttlVars

MCNext ==
  /\ UNCHANGED part
  /\ \/ /\ part = "scope" /\ ScopeNext
        /\ UNCHANGED <<readVars, screenVars, ttlVars, deployVars>>
     \/ /\ part = "reads" /\ ReadsNext
        /\ UNCHANGED <<scopeVars, screenVars, ttlVars, deployVars>>
     \/ /\ part = "screen" /\ ScreenNext
        /\ UNCHANGED <<scopeVars, readVars, ttlVars, deployVars>>
     \/ /\ part = "token" /\ (TtlNext \/ Stopped)
        /\ UNCHANGED <<scopeVars, readVars, screenVars, deployVars>>
     \/ /\ part = "deploy" /\ DeployNext
        /\ UNCHANGED <<scopeVars, readVars, screenVars, ttlVars>>

MCSpec == MCInit /\ [][MCNext]_<<part, scopeVars, readVars, screenVars, ttlVars, deployVars>>

(* The agent's reads and those of the tabs meet only in the connections:   *)
(* one of the two sides is followed in each state, and one tab at a time   *)
(* selects where it is the agent's.                                        *)
OneSide ==
  talk.stage = "none" \/
    /\ loading = {} /\ \A t \in Tab, k \in Mine : cached[t][k] = None
    /\ pick[p2].stage = "idle"

(* A range is drafted in the calendar when no navigation is under way.     *)
OneDraft ==
  calendar.open /\ arriving # Here => calendar.from = search.from /\ calendar.to = search.to

ConnectionSymmetry == Permutations({a, b})

=============================================================================
