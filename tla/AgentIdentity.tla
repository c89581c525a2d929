---------------------------- MODULE AgentIdentity ----------------------------
(***************************************************************************)
(* How one user's host and agents get their identities: the e-mail         *)
(* verification hook (apps/server/src/lib/auth.ts), the UserIdentityDO     *)
(* (apps/agent/src/durable-objects/identityDO.ts), the bootstrap of a      *)
(* conversation's agent (apps/agent/src/agents/finance.ts), the creation   *)
(* of conversations (apps/server/src/features/conversations) and the Agent *)
(* Auth registry they register with.                                       *)
(*                                                                         *)
(* A Durable Object handles other calls while one of them awaits a key     *)
(* pair or a fetch, never while it awaits its SQLite storage: a step is    *)
(* what runs between two such awaits.  The registry is external.  It is    *)
(* keyed by public key, the idempotency the plan relies on                 *)
(* (docs/agent-auth-identity-implementation-plan.md:151), so the id it     *)
(* gives out is represented by that key.                                   *)
(***************************************************************************)
EXTENDS Naturals

CONSTANTS
  Hook,          \* runs of afterEmailVerification for this user
  Conversation,  \* conversations the user creates
  Boot,          \* runs of getAgentState
  BootOf,        \* the conversation each of them serves
  StartBoot,     \* those of useAgentStart; the others are for an MCP connection
  None           \* no row, no id, no promise

ASSUME IdentityAssumption ==
  /\ BootOf \in [Boot -> Conversation]
  /\ StartBoot \subseteq Boot
  /\ None \notin Nat /\ None \notin Boot

VARIABLES
  host,           \* the row of host_identity
  agents,         \* the rows of agent_identity
  agentPromises,  \* UserIdentityDO.agentPromises: the boot whose call is in flight
  keys,           \* key pairs generated so far; each pair is its number
  registeredHosts,  \* public keys the registry knows as hosts
  registeredAgents, \* agents the registry knows: public key, conversation, host
  conversations,  \* rows of `conversations` in D1
  sharedKv,       \* conversations whose owner is in SHARED_KV
  authState,      \* the "agent-auth" state each conversation's agent persisted
  sessions,       \* hooks whose provisioning session exists
  hook,           \* local state of the hook runs
  boot            \* local state of the boots

registryVars == <<registeredHosts, registeredAgents>>
doVars == <<host, agents, agentPromises, keys>>
serverVars == <<conversations, sharedKv>>
vars == <<host, agents, agentPromises, keys, registeredHosts, registeredAgents,
          conversations, sharedKv, authState, sessions, hook, boot>>

Id == Nat \cup {None}

HostRow == [key : Nat, hostId : Id, status : {"pending", "active"}]
AgentRow == [key : Nat, agentId : Id, hostId : Id, status : {"pending", "active"}]
RegisteredHost == Nat
RegisteredAgent == [key : Nat, conversation : Conversation, host : Id]
AuthState == [agentId : Id, hostId : Id]

(* No row is a row that is not there.                                      *)
ASSUME RowAssumption == None \notin HostRow /\ None \notin AgentRow /\ None \notin AuthState

HookStep == {"idle", "keygen", "session", "register", "bind", "cleanup", "done"}
HookState == [step : HookStep, key : Id, failed : BOOLEAN,
              outcome : {"none", "ok", "conflict", "failed", "crashed"}]
InDO == {"load", "keygen", "register", "activate"}
BootStep == InDO \cup {"idle", "ensure", "join", "answered", "done"}
BootState == [step : BootStep, key : Id, hostId : Id, on : Boot \cup {None}, agentId : Id,
              outcome : {"none", "ok", "noIdentity", "failed", "notSigned"}]

TypeOK ==
  /\ host \in HostRow \cup {None}
  /\ agents \in [Conversation -> AgentRow \cup {None}]
  /\ agentPromises \in [Conversation -> Boot \cup {None}]
  /\ keys \in Nat
  /\ registeredHosts \in SUBSET RegisteredHost
  /\ registeredAgents \in SUBSET RegisteredAgent
  /\ conversations \in SUBSET Conversation
  /\ sharedKv \in SUBSET Conversation
  /\ authState \in [Conversation -> AuthState \cup {None}]
  /\ sessions \in SUBSET Hook
  /\ hook \in [Hook -> HookState]
  /\ boot \in [Boot -> BootState]

Init ==
  /\ host = None
  /\ agents = [c \in Conversation |-> None]
  /\ agentPromises = [c \in Conversation |-> None]
  /\ keys = 0
  /\ registeredHosts = {}
  /\ registeredAgents = {}
  /\ conversations = {}
  /\ sharedKv = {}
  /\ authState = [c \in Conversation |-> None]
  /\ sessions = {}
  /\ hook = [h \in Hook |-> [step |-> "idle", key |-> None, failed |-> FALSE, outcome |-> "none"]]
  /\ boot = [b \in Boot |-> [step |-> "idle", key |-> None, hostId |-> None, on |-> None,
                             agentId |-> None, outcome |-> "none"]]

-----------------------------------------------------------------------------
(* afterEmailVerification                                                  *)

HookDone(h, outcome) ==
  hook' = [hook EXCEPT ![h].step = "done", ![h].outcome = outcome]

(* ensureHost: an existing row is answered as it is, and a bound one ends  *)
(* the hook; otherwise a key pair is generated.                            *)
EnsureHost(h) ==
  /\ hook[h].step = "idle"
  /\ \/ /\ host = None
        /\ hook' = [hook EXCEPT ![h].step = "keygen"]
     \/ /\ host # None /\ host.hostId # None
        /\ HookDone(h, "ok")
     \/ /\ host # None /\ host.hostId = None
        /\ hook' = [hook EXCEPT ![h].step = "session", ![h].key = host.key]
  /\ UNCHANGED <<doVars, registryVars, serverVars, authState, sessions, boot>>

(* A variation that replaces the row of another call. *)
UpsertHost(h) ==
  /\ hook[h].step = "keygen"
  /\ keys' = keys + 1
  /\ host' = [key |-> keys + 1, hostId |-> None, status |-> "pending"]
  /\ hook' = [hook EXCEPT ![h].step = "session", ![h].key = keys + 1]
  /\ UNCHANGED <<agents, agentPromises, registryVars, serverVars, authState, sessions, boot>>

(* ensureHost, once the key pair is there: the insert meets the row of     *)
(* another call that was generating its key pair at the same time.         *)
InsertHost(h) ==
  /\ hook[h].step = "keygen"
  /\ keys' = keys + 1
  /\ \/ /\ host = None
        /\ host' = [key |-> keys + 1, hostId |-> None, status |-> "pending"]
        /\ hook' = [hook EXCEPT ![h].step = "session", ![h].key = keys + 1]
     \/ /\ host # None
        /\ HookDone(h, "conflict")
        /\ UNCHANGED host
  /\ UNCHANGED <<agents, agentPromises, registryVars, serverVars, authState, sessions, boot>>

CreateSession(h) ==
  /\ hook[h].step = "session"
  /\ sessions' = sessions \cup {h}
  /\ hook' = [hook EXCEPT ![h].step = "register"]
  /\ UNCHANGED <<doVars, registryVars, serverVars, authState, boot>>

(* A variation that binds whatever the registry answers. *)
RegisterHostUnchecked(h) ==
  /\ hook[h].step = "register"
  /\ registeredHosts' \in {registeredHosts, registeredHosts \cup {hook[h].key}}
  /\ hook' = [hook EXCEPT ![h].step = "bind"]
  /\ UNCHANGED <<doVars, registeredAgents, serverVars, authState, sessions, boot>>

(* api.createHost: the registry takes the key, answers or fails, and may   *)
(* fail after taking it.                                                   *)
RegisterHost(h) ==
  /\ hook[h].step = "register"
  /\ \/ /\ registeredHosts' = registeredHosts \cup {hook[h].key}
        /\ hook' = [hook EXCEPT ![h].step = "bind"]
     \/ /\ registeredHosts' \in {registeredHosts, registeredHosts \cup {hook[h].key}}
        /\ hook' = [hook EXCEPT ![h].step = "cleanup", ![h].failed = TRUE]
  /\ UNCHANGED <<doVars, registeredAgents, serverVars, authState, sessions, boot>>

(* bindHost(hostId): whatever row is there becomes active under that id,   *)
(* or the call fails and nothing is bound.                                 *)
BindHost(h) ==
  /\ hook[h].step = "bind"
  /\ host # None
  /\ \/ /\ host' = [host EXCEPT !.hostId = hook[h].key, !.status = "active"]
        /\ hook' = [hook EXCEPT ![h].step = "cleanup"]
     \/ /\ UNCHANGED host
        /\ hook' = [hook EXCEPT ![h].step = "cleanup", ![h].failed = TRUE]
  /\ UNCHANGED <<agents, agentPromises, keys, registryVars, serverVars, authState, sessions, boot>>

(* A variation without finally. *)
DeleteSessionOnSuccess(h) ==
  /\ hook[h].step = "cleanup"
  /\ sessions' = IF hook[h].failed THEN sessions ELSE sessions \ {h}
  /\ HookDone(h, IF hook[h].failed THEN "failed" ELSE "ok")
  /\ UNCHANGED <<doVars, registryVars, serverVars, authState, boot>>

(* finally: the provisioning session goes, however the registration went.  *)
DeleteSession(h) ==
  /\ hook[h].step = "cleanup"
  /\ sessions' = sessions \ {h}
  /\ HookDone(h, IF hook[h].failed THEN "failed" ELSE "ok")
  /\ UNCHANGED <<doVars, registryVars, serverVars, authState, boot>>

(* The request is cut off: its isolate dies, or a call to the DO fails.    *)
CrashHook(h) ==
  /\ hook[h].step \notin {"idle", "done"}
  /\ HookDone(h, "crashed")
  /\ UNCHANGED <<doVars, registryVars, serverVars, authState, sessions, boot>>

-----------------------------------------------------------------------------
(* POST /v1/conversations                                                  *)

InsertConversation(c) ==
  /\ c \notin conversations
  /\ conversations' = conversations \cup {c}
  /\ UNCHANGED <<doVars, registryVars, sharedKv, authState, sessions, hook, boot>>

(* The second half of the handler, which may fail or never run.            *)
PutSharedKv(c) ==
  /\ c \in conversations \ sharedKv
  /\ sharedKv' = sharedKv \cup {c}
  /\ UNCHANGED <<doVars, registryVars, conversations, authState, sessions, hook, boot>>

-----------------------------------------------------------------------------
(* loadAgentState and UserIdentityDO.ensureAgent                           *)

(* A variation that goes on without an owner in SHARED_KV. *)
GetAgentStateUnowned(b) ==
  /\ boot[b].step = "idle"
  /\ BootOf[b] \in conversations
  /\ authState[BootOf[b]] = None
  /\ boot' = [boot EXCEPT ![b].step = "ensure"]
  /\ UNCHANGED <<doVars, registryVars, serverVars, authState, sessions, hook>>

(* A request reaches the agent only for a conversation of the user.  A     *)
(* state persisted as ready is used as it is; otherwise, or if this render *)
(* began before it was persisted, the owner is looked up in SHARED_KV,     *)
(* which may not have it, or not yet here.                                 *)
GetAgentState(b) ==
  LET c == BootOf[b] IN
  /\ boot[b].step = "idle"
  /\ c \in conversations
  /\ \/ /\ authState[c] # None
        /\ boot' = [boot EXCEPT ![b].step = "answered", ![b].agentId = authState[c].agentId,
                                ![b].hostId = authState[c].hostId]
     \/ /\ c \in sharedKv
        /\ boot' = [boot EXCEPT ![b].step = "ensure"]
     \/ boot' = [boot EXCEPT ![b].step = "done", ![b].outcome = "noIdentity"]
  /\ UNCHANGED <<doVars, registryVars, serverVars, authState, sessions, hook>>

(* A variation that starts a call of its own for everyone. *)
EnsureAgentEach(b) ==
  /\ boot[b].step = "ensure"
  /\ agentPromises' = [agentPromises EXCEPT ![BootOf[b]] = b]
  /\ boot' = [boot EXCEPT ![b].step = "load"]
  /\ UNCHANGED <<host, agents, keys, registryVars, serverVars, authState, sessions, hook>>

(* ensureAgent: one call per conversation runs, the others await it. *)
EnsureAgent(b) ==
  LET c == BootOf[b] IN
  /\ boot[b].step = "ensure"
  /\ \/ /\ agentPromises[c] # None
        /\ boot' = [boot EXCEPT ![b].step = "join", ![b].on = agentPromises[c]]
        /\ UNCHANGED agentPromises
     \/ /\ agentPromises[c] = None
        /\ agentPromises' = [agentPromises EXCEPT ![c] = b]
        /\ boot' = [boot EXCEPT ![b].step = "load"]
  /\ UNCHANGED <<host, agents, keys, registryVars, serverVars, authState, sessions, hook>>

(* A variation that forgets the calls that joined. *)
SettleAlone(b, outcome) ==
  LET c == BootOf[b] IN
  /\ agentPromises' = [agentPromises EXCEPT ![c] = None]
  /\ boot' = [boot EXCEPT ![b] =
       IF outcome = "ok"
       THEN [@ EXCEPT !.step = "answered", !.agentId = agents'[c].agentId,
                      !.hostId = agents'[c].hostId]
       ELSE [@ EXCEPT !.step = "done", !.outcome = outcome]]

(* The call of b settles: the in-flight entry goes, and b and every call   *)
(* that joined it get the row or the error.                                *)
SettleBoot(b, outcome) ==
  LET c == BootOf[b]
      Answered(st) ==
        IF outcome = "ok"
        THEN [st EXCEPT !.step = "answered", !.on = None,
                        !.agentId = agents'[c].agentId, !.hostId = agents'[c].hostId]
        ELSE [st EXCEPT !.step = "done", !.on = None, !.outcome = outcome]
  IN
  /\ agentPromises' = [agentPromises EXCEPT ![c] = None]
  /\ boot' = [d \in Boot |->
       IF d = b \/ boot[d].on = b THEN Answered(boot[d]) ELSE boot[d]]

HostActive == host # None /\ host.status = "active"
AgentActive(c) == agents[c] # None /\ agents[c].status = "active"
AgentPending(c) == agents[c] # None /\ agents[c].status = "pending"

(* A variation that makes a new key pair for a pending row. *)
LoadAgentAnew(b) ==
  LET c == BootOf[b] IN
  /\ boot[b].step = "load"
  /\ UNCHANGED agents
  /\ \/ /\ AgentActive(c)
        /\ SettleBoot(b, "ok")
     \/ /\ ~AgentActive(c) /\ ~HostActive
        /\ SettleBoot(b, "failed")
     \/ /\ ~AgentActive(c) /\ HostActive
        /\ boot' = [boot EXCEPT ![b].step = "keygen", ![b].hostId = host.hostId]
        /\ UNCHANGED agentPromises
  /\ UNCHANGED <<host, keys, registryVars, serverVars, authState, sessions, hook>>

(* ensureAgentInternal up to its first slow await: an active row is the    *)
(* answer, a pending one keeps its key pair, a missing one needs a pair;   *)
(* the last two need an active host.                                       *)
LoadAgent(b) ==
  LET c == BootOf[b] IN
  /\ boot[b].step = "load"
  /\ \/ /\ AgentActive(c)
        /\ UNCHANGED agents
        /\ SettleBoot(b, "ok")
     \/ /\ ~AgentActive(c) /\ ~HostActive
        /\ UNCHANGED agents
        /\ SettleBoot(b, "failed")
     \/ /\ AgentPending(c) /\ HostActive
        /\ boot' = [boot EXCEPT ![b].step = "register", ![b].key = agents[c].key]
        /\ UNCHANGED <<agents, agentPromises>>
     \/ /\ agents[c] = None /\ HostActive
        /\ boot' = [boot EXCEPT ![b].step = "keygen", ![b].hostId = host.hostId]
        /\ UNCHANGED <<agents, agentPromises>>
  /\ UNCHANGED <<host, keys, registryVars, serverVars, authState, sessions, hook>>

(* createAgent, once the key pair is there: the pending row is inserted    *)
(* before anything is registered.  OneCallInFlight says that there is none *)
(* yet, so the insert never meets a row.                                   *)
InsertAgent(b) ==
  LET c == BootOf[b] IN
  /\ boot[b].step = "keygen"
  /\ keys' = keys + 1
  /\ agents' = [agents EXCEPT ![c] =
       [key |-> keys + 1, agentId |-> None, hostId |-> boot[b].hostId, status |-> "pending"]]
  /\ boot' = [boot EXCEPT ![b].step = "register", ![b].key = keys + 1]
  /\ UNCHANGED <<host, agentPromises, registryVars, serverVars, authState, sessions, hook>>

(* The host JWT is signed under the host's current id, then POST           *)
(* /agent/register: the registry knows the host or refuses, and may fail   *)
(* after it took the agent's key.                                          *)
Registering(b) ==
  /\ HostActive /\ host.hostId \in registeredHosts
  /\ registeredAgents' =
       IF \E a \in registeredAgents : a.key = boot[b].key THEN registeredAgents
       ELSE registeredAgents \cup
         {[key |-> boot[b].key, conversation |-> BootOf[b], host |-> host.hostId]}

RegisterAgent(b) ==
  /\ boot[b].step = "register"
  /\ \/ /\ Registering(b)
        /\ boot' = [boot EXCEPT ![b].step = "activate"]
        /\ UNCHANGED agentPromises
     \/ /\ UNCHANGED registeredAgents \/ Registering(b)
        /\ SettleBoot(b, "failed")
  /\ UNCHANGED <<host, agents, keys, registeredHosts, serverVars, authState, sessions, hook>>

(* A variation that stores the id and leaves the row pending. *)
ActivateIdOnly(b) ==
  LET c == BootOf[b] IN
  /\ boot[b].step = "activate"
  /\ agents[c] # None
  /\ agents' = [agents EXCEPT ![c].agentId = boot[b].key]
  /\ SettleBoot(b, "ok")
  /\ UNCHANGED <<host, keys, registryVars, serverVars, authState, sessions, hook>>

(* The registered id is stored and the call answers with the row. *)
ActivateAgent(b) ==
  LET c == BootOf[b] IN
  /\ boot[b].step = "activate"
  /\ agents[c] # None
  /\ agents' = [agents EXCEPT ![c].agentId = boot[b].key, ![c].status = "active"]
  /\ SettleBoot(b, "ok")
  /\ UNCHANGED <<host, keys, registryVars, serverVars, authState, sessions, hook>>

(* useAgentStart persists the state. *)
PersistState(b) ==
  /\ boot[b].step = "answered" /\ b \in StartBoot
  /\ authState' = [authState EXCEPT ![BootOf[b]] =
       [agentId |-> boot[b].agentId, hostId |-> boot[b].hostId]]
  /\ boot' = [boot EXCEPT ![b].step = "done", ![b].outcome = "ok"]
  /\ UNCHANGED <<doVars, registryVars, serverVars, sessions, hook>>

(* The MCP connection has a token signed for the agent it was told.        *)
SignAgentJwt(b) ==
  LET signed == \E c \in Conversation : AgentActive(c) /\ agents[c].agentId = boot[b].agentId IN
  /\ boot[b].step = "answered" /\ b \notin StartBoot
  /\ boot' = [boot EXCEPT ![b].step = "done", ![b].outcome = IF signed THEN "ok" ELSE "notSigned"]
  /\ UNCHANGED <<doVars, registryVars, serverVars, authState, sessions, hook>>

(* The Durable Object restarts: rows survive, agentPromises and the calls  *)
(* in progress do not.                                                     *)
RestartDO ==
  /\ \E b \in Boot : boot[b].step \in InDO
  /\ agentPromises' = [c \in Conversation |-> None]
  /\ boot' = [b \in Boot |->
       IF boot[b].step \in InDO \cup {"join"}
       THEN [boot[b] EXCEPT !.step = "done", !.on = None, !.outcome = "failed"]
       ELSE boot[b]]
  /\ hook' = [h \in Hook |-> IF hook[h].step = "keygen"
       THEN [hook[h] EXCEPT !.step = "done", !.outcome = "crashed"] ELSE hook[h]]
  /\ UNCHANGED <<host, agents, keys, registryVars, serverVars, authState, sessions>>

HookStepOf(h) ==
  \/ EnsureHost(h) \/ InsertHost(h) \/ CreateSession(h)
  \/ RegisterHost(h) \/ BindHost(h) \/ DeleteSession(h)

BootStepOf(b) ==
  \/ EnsureAgent(b) \/ LoadAgent(b) \/ InsertAgent(b)
  \/ RegisterAgent(b) \/ ActivateAgent(b) \/ PersistState(b) \/ SignAgentJwt(b)

Next ==
  \/ \E h \in Hook : HookStepOf(h) \/ CrashHook(h)
  \/ \E c \in Conversation : InsertConversation(c) \/ PutSharedKv(c)
  \/ \E b \in Boot : GetAgentState(b) \/ BootStepOf(b)
  \/ RestartDO

(* Calls in progress go on: the DO, the registry and D1 answer or fail.    *)
Fairness ==
  /\ \A h \in Hook : WF_vars(hook[h].step # "idle" /\ HookStepOf(h))
  /\ \A b \in Boot : WF_vars(BootStepOf(b))

Spec == Init /\ [][Next]_vars /\ Fairness

-----------------------------------------------------------------------------
(* Properties                                                              *)

(* "repeated e-mail verification not creating a second Host" (plan, phase  *)
(* 8): whatever hooks overlap, crash or lose an answer, the registry gets  *)
(* one host for the user, the one whose key pair the DO keeps.             *)
OneHost == \A k \in registeredHosts : host # None /\ host.key = k

(* "one Agent per conversation": restarts, lost answers and retries never  *)
(* register a second agent for a conversation, and none whose key pair the *)
(* DO has not kept.                                                        *)
OneAgentPerConversation ==
  \A a \in registeredAgents :
    /\ agents[a.conversation] # None
    /\ agents[a.conversation].key = a.key

(* What the DO calls active, the registry knows under the same key, and    *)
(* agents belong to the user's own host (identityDO.ts:104-114, 262-265).  *)
ActiveIsRegistered ==
  /\ HostActive =>
       host.hostId = host.key /\ host.key \in registeredHosts
  /\ \A c \in Conversation : AgentActive(c) =>
       \E a \in registeredAgents :
         /\ a.key = agents[c].agentId /\ a.conversation = c
         /\ host # None /\ a.host = host.hostId /\ agents[c].hostId = host.hostId

(* The state an agent was told or persisted keeps signing, over restarts:  *)
(* the DO row it names stays there, active, under the same ids             *)
(* (finance.ts:108-148, identityDO.ts:165-172).                            *)
ReadyStateSigns ==
  /\ \A c \in Conversation : authState[c] # None =>
       /\ AgentActive(c)
       /\ authState[c] = [agentId |-> agents[c].agentId, hostId |-> agents[c].hostId]
  /\ \A b \in Boot : boot[b].outcome # "notSigned"

(* Calls of one conversation are coalesced: while one of them runs, it is  *)
(* the one agentPromises names, so no insert meets another's row           *)
(* (identityDO.ts:116-129).                                                *)
OneCallInFlight ==
  \A b \in Boot :
    /\ boot[b].step \in InDO =>
         agentPromises[BootOf[b]] = b
    /\ boot[b].step = "join" =>
         boot[boot[b].on].step \in InDO
    /\ boot[b].step = "keygen" => agents[BootOf[b]] = None

(* Missing identities fail closed: an agent is registered only for a       *)
(* conversation whose owner was written to SHARED_KV (plan, phase 4).      *)
FailsClosed == \A a \in registeredAgents : a.conversation \in sharedKv

(* The session the hook opens never outlives a hook that was not cut off.  *)
SessionsDeleted ==
  \A h \in sessions : hook[h].step \notin {"idle", "done"} \/ hook[h].outcome = "crashed"

(* Every call ends, also the calls that joined another one, and so does    *)
(* the session a hook opened, unless the hook was cut off                  *)
(* (identityDO.ts:116-129, auth.ts:155-183).                               *)
CallsEnd ==
  /\ \A b \in Boot : boot[b].step = "ensure" ~> boot[b].step = "done"
  /\ \A h \in Hook : h \in sessions ~> h \notin sessions \/ hook[h].outcome = "crashed"

(* "`ensureHost` and `ensureAgent` must be idempotent" (plan:151), and the *)
(* hook must "remain safe when invoked more than once" (plan:183): a hook  *)
(* does not fail because another one is at work.                           *)
EnsureHostIdempotent == \A h \in Hook : hook[h].outcome # "conflict"

=============================================================================
