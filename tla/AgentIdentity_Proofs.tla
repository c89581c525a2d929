------------------------ MODULE AgentIdentity_Proofs ------------------------
(***************************************************************************)
(* AgentIdentity for any number of verification hooks, conversations and   *)
(* boots: one host, one agent per conversation, and nothing that is told   *)
(* or persisted stops signing, whatever overlaps, crashes or restarts.     *)
(***************************************************************************)
EXTENDS AgentIdentity, TLAPS

(* What a hook carries is the key of the row, which is there to stay.      *)
HostKept ==
  /\ host # None => host.key <= keys
  /\ host # None /\ host.status = "active" =>
       host.hostId = host.key /\ host.key \in registeredHosts
  /\ host # None /\ host.status = "pending" => host.hostId = None
  /\ \A h \in Hook :
       hook[h].step \in {"session", "register", "bind"} => host # None /\ hook[h].key = host.key
  /\ \A h \in Hook : hook[h].step = "bind" => hook[h].key \in registeredHosts
  /\ OneHost

(* A session is there from its creation to the end of its hook.            *)
SessionsInUse ==
  \A h \in sessions :
    \/ hook[h].step \in {"register", "bind", "cleanup"}
    \/ hook[h].step = "done" /\ hook[h].outcome = "crashed"

(* The call in flight for a conversation, and who waits for it.            *)
Coalesced ==
  /\ \A b \in Boot : boot[b].step \in InDO => agentPromises[BootOf[b]] = b
  /\ \A c \in Conversation : agentPromises[c] # None =>
       /\ BootOf[agentPromises[c]] = c
       /\ boot[agentPromises[c]].step \in InDO
  /\ \A b \in Boot :
       /\ boot[b].step = "join" <=> boot[b].on # None
       /\ boot[b].step = "join" => agentPromises[BootOf[b]] = boot[b].on

(* Rows of agents have key pairs of their own and the user's host.         *)
AgentsKept ==
  /\ \A c \in Conversation : agents[c] # None =>
       /\ agents[c].key <= keys
       /\ HostActive /\ agents[c].hostId = host.hostId
  /\ \A c, d \in Conversation :
       agents[c] # None /\ agents[d] # None /\ agents[c].key = agents[d].key => c = d
  /\ \A c \in Conversation : AgentActive(c) => agents[c].agentId = agents[c].key

(* What the registry knows of a row.                                       *)
Known(c) == \E a \in registeredAgents :
  a.key = agents[c].key /\ a.conversation = c /\ a.host = host.hostId

RegistryKept ==
  /\ OneAgentPerConversation
  /\ \A a \in registeredAgents : a.host = host.hostId
  /\ \A c \in Conversation : AgentActive(c) => Known(c)
  /\ FailsClosed

(* Where a boot is in its call.                                            *)
BootKept(b) ==
  /\ boot[b].step \in InDO \cup {"ensure", "join"} => BootOf[b] \in sharedKv
  /\ boot[b].step = "keygen" =>
       agents[BootOf[b]] = None /\ HostActive /\ boot[b].hostId = host.hostId
  /\ boot[b].step \in {"register", "activate"} =>
       AgentPending(BootOf[b]) /\ agents[BootOf[b]].key = boot[b].key
  /\ boot[b].step = "activate" => Known(BootOf[b])
  /\ boot[b].step = "answered" =>
       /\ AgentActive(BootOf[b])
       /\ boot[b].agentId = agents[BootOf[b]].agentId
       /\ boot[b].hostId = agents[BootOf[b]].hostId

BootsKept == \A b \in Boot : BootKept(b)

IInv ==
  /\ TypeOK /\ HostKept /\ SessionsInUse /\ Coalesced /\ AgentsKept /\ RegistryKept
  /\ BootsKept /\ ReadyStateSigns

-----------------------------------------------------------------------------
LEMMA InitInv == Init => IInv
BY IdentityAssumption, RowAssumption DEF Init, IInv, TypeOK, HostRow, AgentRow, RegisteredHost,
   RegisteredAgent, AuthState, Id, HookState, HookStep, BootState, BootStep, InDO, HostKept, OneHost,
   SessionsInUse, Coalesced, AgentsKept, AgentActive, AgentPending, RegistryKept,
   OneAgentPerConversation, FailsClosed, BootsKept, BootKept, ReadyStateSigns

(* A step of a hook leaves alone what the boots rely on: the agents, the   *)
(* calls in flight, and an active host.                                    *)
HookOnly ==
  /\ UNCHANGED <<agents, agentPromises, registeredAgents, serverVars, authState, boot>>
  /\ keys' \in Nat /\ keys <= keys'
  /\ HostActive => host' = host

LEMMA HookKeepsBoots ==
  ASSUME IInv, HookOnly
  PROVE  Coalesced' /\ AgentsKept' /\ RegistryKept' /\ BootsKept' /\ ReadyStateSigns'
<1> USE DEF HookOnly, serverVars, IInv
<1>1. Coalesced'
  BY DEF Coalesced
<1>2. AgentsKept'
  BY DEF AgentsKept, TypeOK, AgentRow, HostActive, AgentActive
<1>3. \A c \in Conversation : agents[c] # None => host' = host
  BY DEF AgentsKept
<1>4. RegistryKept'
  <2>1. \A a \in registeredAgents : host' = host
    BY <1>3 DEF RegistryKept, OneAgentPerConversation, TypeOK, RegisteredAgent
  <2> QED BY <1>3, <2>1 DEF RegistryKept, OneAgentPerConversation, FailsClosed, Known, AgentActive
<1>5. BootsKept'
  BY <1>3, IdentityAssumption DEF BootsKept, BootKept, HostActive, AgentActive, AgentPending, Known
<1>6. ReadyStateSigns'
  BY DEF ReadyStateSigns, AgentActive
<1> QED BY <1>1, <1>2, <1>4, <1>5, <1>6

LEMMA EnsureHostStep == ASSUME IInv, NEW h \in Hook, EnsureHost(h) PROVE IInv'
<1> USE DEF EnsureHost, HookDone, doVars, registryVars, serverVars, IInv
<1>1. TypeOK'
  BY DEF TypeOK, HostRow, RegisteredHost, Id, HookState, HookStep
<1>2. HostKept'
  BY RowAssumption DEF TypeOK, HostRow, HookState, Id, HostKept, OneHost
<1>3. SessionsInUse'
  BY DEF TypeOK, HookState, SessionsInUse
<1>4. HookOnly
  BY DEF HookOnly, TypeOK
<1> QED BY <1>1, <1>2, <1>3, <1>4, HookKeepsBoots

LEMMA CreateSessionStep == ASSUME IInv, NEW h \in Hook, CreateSession(h) PROVE IInv'
<1> USE DEF CreateSession, HookDone, doVars, registryVars, serverVars, IInv
<1>1. TypeOK'
  BY DEF TypeOK, HostRow, RegisteredHost, Id, HookState, HookStep
<1>2. HostKept'
  BY RowAssumption DEF TypeOK, HostRow, HookState, Id, HostKept, OneHost
<1>3. SessionsInUse'
  BY DEF TypeOK, HookState, SessionsInUse
<1>4. HookOnly
  BY DEF HookOnly, TypeOK
<1> QED BY <1>1, <1>2, <1>3, <1>4, HookKeepsBoots

LEMMA CrashHookStep == ASSUME IInv, NEW h \in Hook, CrashHook(h) PROVE IInv'
<1> USE DEF CrashHook, HookDone, doVars, registryVars, serverVars, IInv
<1>1. TypeOK'
  BY DEF TypeOK, HostRow, RegisteredHost, Id, HookState, HookStep
<1>2. HostKept'
  BY RowAssumption DEF TypeOK, HostRow, HookState, Id, HostKept, OneHost
<1>3. SessionsInUse'
  BY DEF TypeOK, HookState, SessionsInUse
<1>4. HookOnly
  BY DEF HookOnly, TypeOK
<1> QED BY <1>1, <1>2, <1>3, <1>4, HookKeepsBoots

LEMMA RegisterHostStep == ASSUME IInv, NEW h \in Hook, RegisterHost(h) PROVE IInv'
<1> USE DEF RegisterHost, doVars, serverVars, IInv
<1>1. host # None /\ hook[h].key = host.key /\ hook[h].key \in Nat
  BY DEF HostKept, TypeOK, HostRow
<1>2. TypeOK'
  BY <1>1 DEF TypeOK, RegisteredHost, HookState, HookStep
<1>3. HostKept'
  BY <1>1 DEF TypeOK, HookState, HostKept, OneHost
<1>4. SessionsInUse'
  BY DEF TypeOK, HookState, SessionsInUse
<1>5. HookOnly
  BY DEF HookOnly, TypeOK
<1> QED BY <1>2, <1>3, <1>4, <1>5, HookKeepsBoots

LEMMA DeleteSessionStep == ASSUME IInv, NEW h \in Hook, DeleteSession(h) PROVE IInv'
<1> USE DEF DeleteSession, doVars, registryVars, serverVars, IInv
<1>1. PICK outcome \in {"failed", "ok"} :
        hook' = [hook EXCEPT ![h].step = "done", ![h].outcome = outcome]
  BY Zenon DEF HookDone
<1>2. TypeOK'
  BY <1>1 DEF TypeOK, HookState, HookStep
<1>3. HostKept'
  BY <1>1 DEF TypeOK, HookState, HostKept, OneHost
<1>4. SessionsInUse'
  BY <1>1 DEF TypeOK, HookState, SessionsInUse
<1>5. HookOnly
  BY DEF HookOnly, TypeOK
<1> QED BY <1>2, <1>3, <1>4, <1>5, HookKeepsBoots

LEMMA InsertHostStep == ASSUME IInv, NEW h \in Hook, InsertHost(h) PROVE IInv'
<1> USE DEF InsertHost, HookDone, doVars, registryVars, serverVars, IInv
<1>1. TypeOK'
  BY DEF TypeOK, HostRow, RegisteredHost, Id, HookState, HookStep
<1>2. HostKept'
  <2>1. CASE host = None
    <3>1. /\ host' = [key |-> keys + 1, hostId |-> None, status |-> "pending"]
          /\ hook' = [hook EXCEPT ![h].step = "session", ![h].key = keys + 1]
          /\ registeredHosts = {} /\ registeredHosts' = {} /\ host' # None
      BY <1>1, <2>1, RowAssumption DEF HostKept, OneHost, TypeOK, HostRow, Id
    <3>2. \A g \in Hook \ {h} : hook'[g] = hook[g] /\ hook[g].step \notin {"session", "register", "bind"}
      BY <2>1, <3>1 DEF HostKept, TypeOK
    <3>3. hook'[h].step = "session" /\ hook'[h].key = host'.key
      BY <3>1 DEF TypeOK, HookState
    <3> QED BY <3>1, <3>2, <3>3 DEF HostKept, OneHost, TypeOK
  <2>2. CASE host # None
    BY <2>2 DEF HostKept, OneHost, TypeOK, HostRow, HookState
  <2> QED BY <2>1, <2>2
<1>3. SessionsInUse'
  BY DEF TypeOK, HookState, SessionsInUse
<1>4. HookOnly
  BY DEF HookOnly, TypeOK, HostActive
<1> QED BY <1>1, <1>2, <1>3, <1>4, HookKeepsBoots

(* The row that is bound is the one whose key was registered.              *)
LEMMA BindHostStep == ASSUME IInv, NEW h \in Hook, BindHost(h) PROVE IInv'
<1> USE DEF BindHost, registryVars, serverVars, IInv
<1>1. hook[h].key = host.key /\ host.key \in Nat /\ host.key \in registeredHosts
  BY DEF HostKept, TypeOK, HostRow
<1>2. PICK failed \in BOOLEAN : hook' = [hook EXCEPT ![h].step = "cleanup", ![h].failed = failed]
  BY DEF TypeOK, HookState
<1>3. \/ host' = host
      \/ host' = [host EXCEPT !.hostId = hook[h].key, !.status = "active"]
  OBVIOUS
<1>4. TypeOK' /\ host' # None
  <2>1. host \in HostRow
    BY DEF TypeOK
  <2>2. host' \in HostRow
    BY <1>1, <1>3, <2>1 DEF HostRow, Id
  <2>3. hook' \in [Hook -> HookState]
    BY <1>2 DEF TypeOK, HookState, HookStep
  <2> QED BY <2>2, <2>3, RowAssumption DEF TypeOK
<1>5. /\ host'.key = host.key
      /\ host' = host \/ (host'.status = "active" /\ host'.hostId = host.key)
  BY <1>1, <1>3 DEF TypeOK, HostRow
<1>6. HostKept'
  BY <1>4, <1>1, <1>2, <1>5 DEF HostKept, OneHost, TypeOK, HostRow, HookState
<1>7. SessionsInUse'
  BY <1>2 DEF TypeOK, HookState, SessionsInUse
<1>8. HostActive => host' = host
  BY <1>1, <1>3 DEF HostActive, HostKept, TypeOK, HostRow
<1>9. HookOnly
  BY <1>8 DEF HookOnly, TypeOK
<1> QED BY <1>4, <1>6, <1>7, <1>9, HookKeepsBoots

-----------------------------------------------------------------------------
(* A step of a boot or of the server leaves alone what the hooks rely on.  *)
LEMMA BootKeepsHost ==
  ASSUME IInv, UNCHANGED <<host, registeredHosts, sessions, hook>>, keys' \in Nat, keys <= keys'
  PROVE  HostKept' /\ SessionsInUse'
<1>1. HostKept'
  BY DEF IInv, HostKept, OneHost, TypeOK, HostRow
<1>2. SessionsInUse'
  BY DEF IInv, SessionsInUse
<1> QED BY <1>1, <1>2

LEMMA ServerStep ==
  ASSUME IInv, NEW c \in Conversation, InsertConversation(c) \/ PutSharedKv(c) PROVE IInv'
<1> USE DEF InsertConversation, PutSharedKv, doVars, registryVars
<1>1. TypeOK' /\ sharedKv \subseteq sharedKv'
  BY DEF IInv, TypeOK
<1>2. HostKept' /\ SessionsInUse'
  BY BootKeepsHost DEF IInv, TypeOK
<1>3. Coalesced' /\ AgentsKept' /\ ReadyStateSigns'
  BY DEF IInv, Coalesced, AgentsKept, ReadyStateSigns, AgentActive, HostActive
<1>4. RegistryKept'
  BY <1>1 DEF IInv, RegistryKept, OneAgentPerConversation, FailsClosed, Known, AgentActive
<1>5. BootsKept'
  BY <1>1 DEF IInv, BootsKept, BootKept, Known, AgentActive, AgentPending, HostActive
<1> QED BY <1>1, <1>2, <1>3, <1>4, <1>5 DEF IInv

(* The calls of one conversation: at most one of them runs.                *)
LEMMA OneRuns ==
  ASSUME IInv, NEW b \in Boot, boot[b].step \in InDO
  PROVE  /\ agentPromises[BootOf[b]] = b
         /\ \A d \in Boot : boot[d].step \in InDO /\ BootOf[d] = BootOf[b] => d = b
         /\ \A d \in Boot : boot[d].on = b => boot[d].step = "join" /\ BootOf[d] = BootOf[b]
BY IdentityAssumption DEF IInv, Coalesced, TypeOK, BootState, InDO

(* What a boot is told that settles, and nobody else.                      *)
Told(d, c, outcome) ==
  /\ boot'[d] \in BootState /\ boot'[d].on = None
  /\ outcome = "ok" =>
       /\ boot'[d].step = "answered" /\ boot'[d].outcome = boot[d].outcome
       /\ boot'[d].agentId = agents'[c].agentId /\ boot'[d].hostId = agents'[c].hostId
  /\ outcome = "failed" => boot'[d].step = "done" /\ boot'[d].outcome = "failed"

LEMMA SettleTells ==
  ASSUME IInv, NEW b \in Boot, boot[b].step \in InDO, NEW outcome \in {"ok", "failed"},
         outcome = "ok" => agents'[BootOf[b]] \in AgentRow,
         SettleBoot(b, outcome)
  PROVE  /\ \A d \in Boot : \/ boot'[d] = boot[d] /\ d # b /\ boot[d].on # b
                            \/ BootOf[d] = BootOf[b] /\ Told(d, BootOf[b], outcome)
         /\ boot' \in [Boot -> BootState]
         /\ agentPromises' \in [Conversation -> Boot \cup {None}]
         /\ agentPromises' = [agentPromises EXCEPT ![BootOf[b]] = None]
         /\ Coalesced'
<1>1. agentPromises' = [agentPromises EXCEPT ![BootOf[b]] = None]
  BY DEF SettleBoot
<1>2. ASSUME NEW d \in Boot, d = b \/ boot[d].on = b
      PROVE  BootOf[d] = BootOf[b] /\ Told(d, BootOf[b], outcome)
  <2>1. BootOf[d] = BootOf[b]
    BY <1>2, OneRuns
  <2>2. boot[d] \in BootState
    BY DEF IInv, TypeOK
  <2>3. CASE outcome = "ok"
    <3>1. boot'[d] = [boot[d] EXCEPT !.step = "answered", !.on = None,
                        !.agentId = agents'[BootOf[b]].agentId,
                        !.hostId = agents'[BootOf[b]].hostId]
      BY <1>2, <2>3 DEF SettleBoot
    <3> QED BY <2>1, <2>2, <2>3, <3>1 DEF Told, BootState, BootStep, AgentRow, Id
  <2>4. CASE outcome = "failed"
    <3>1. boot'[d] = [boot[d] EXCEPT !.step = "done", !.on = None, !.outcome = "failed"]
      BY <1>2, <2>4 DEF SettleBoot
    <3> QED BY <2>1, <2>2, <2>4, <3>1 DEF Told, BootState, BootStep
  <2> QED BY <2>3, <2>4
<1>3. ASSUME NEW d \in Boot, ~(d = b \/ boot[d].on = b) PROVE boot'[d] = boot[d]
  BY <1>3 DEF SettleBoot
<1>4. boot' \in [Boot -> BootState]
  <2>1. \A d \in Boot : boot'[d] \in BootState
    BY <1>2, <1>3 DEF Told, IInv, TypeOK
  <2> QED BY <2>1 DEF SettleBoot
<1>5. agentPromises' \in [Conversation -> Boot \cup {None}]
  BY <1>1 DEF IInv, TypeOK
<1>6. Coalesced'
  <2>1. ASSUME NEW d \in Boot, boot'[d].step \in InDO PROVE agentPromises'[BootOf[d]] = d
    <3>1. boot'[d] = boot[d] /\ d # b
      BY <1>2, <1>3, <2>1 DEF Told, InDO
    <3> QED BY <1>1, <2>1, <3>1, OneRuns, IdentityAssumption DEF IInv, Coalesced, TypeOK
  <2>2. ASSUME NEW c \in Conversation, agentPromises'[c] # None
        PROVE  BootOf[agentPromises'[c]] = c /\ boot'[agentPromises'[c]].step \in InDO
    <3>1. /\ c # BootOf[b] /\ agentPromises'[c] = agentPromises[c] /\ agentPromises[c] \in Boot
          /\ BootOf[agentPromises[c]] = c /\ boot[agentPromises[c]].step \in InDO
      BY <1>1, <2>2, IdentityAssumption DEF IInv, Coalesced, TypeOK
    <3>2. boot'[agentPromises[c]] = boot[agentPromises[c]]
      BY <1>2, <1>3, <3>1
    <3> QED BY <3>1, <3>2
  <2>3. ASSUME NEW d \in Boot
        PROVE  /\ boot'[d].step = "join" <=> boot'[d].on # None
               /\ boot'[d].step = "join" => agentPromises'[BootOf[d]] = boot'[d].on
    <3>1. CASE d = b \/ boot[d].on = b
      BY <1>2, <3>1 DEF Told
    <3>2. CASE ~(d = b \/ boot[d].on = b)
      <4>1. boot'[d] = boot[d]
        BY <1>3, <3>2
      <4>2. boot[d].step = "join" => BootOf[d] # BootOf[b]
        BY <3>2, OneRuns DEF IInv, Coalesced
      <4> QED BY <1>1, <4>1, <4>2, IdentityAssumption DEF IInv, Coalesced, TypeOK
    <3> QED BY <3>1, <3>2
  <2> QED BY <2>1, <2>2, <2>3 DEF Coalesced
<1> QED BY <1>1, <1>2, <1>3, <1>4, <1>5, <1>6

LEMMA GetAgentStateStep == ASSUME IInv, NEW b \in Boot, GetAgentState(b) PROVE IInv'
<1> USE DEF doVars, registryVars, serverVars
<1>1. /\ UNCHANGED <<host, agents, agentPromises, keys, registeredHosts, registeredAgents,
                     conversations, sharedKv, authState, sessions, hook>>
      /\ boot[b].step = "idle" /\ BootOf[b] \in Conversation
  BY IdentityAssumption DEF GetAgentState
<1>2. /\ boot' \in [Boot -> BootState]
      /\ \A d \in Boot \ {b} : boot'[d] = boot[d]
      /\ boot'[b].step \in {"answered", "ensure", "done"} /\ boot'[b].on = boot[b].on
      /\ boot'[b].step = "ensure" => BootOf[b] \in sharedKv
      /\ boot'[b].step = "answered" =>
           /\ authState[BootOf[b]] # None
           /\ boot'[b].agentId = authState[BootOf[b]].agentId
           /\ boot'[b].hostId = authState[BootOf[b]].hostId
      /\ boot'[b].outcome # "notSigned"
  BY <1>1 DEF GetAgentState, IInv, TypeOK, BootState, BootStep, AuthState, ReadyStateSigns
<1>3. TypeOK'
  BY <1>1, <1>2 DEF IInv, TypeOK
<1>4. HostKept' /\ SessionsInUse'
  BY <1>1, BootKeepsHost DEF IInv, TypeOK
<1>5. Coalesced'
  BY <1>1, <1>2, IdentityAssumption DEF IInv, Coalesced, InDO, TypeOK
<1>6. AgentsKept' /\ RegistryKept'
  BY <1>1 DEF IInv, AgentsKept, RegistryKept, OneAgentPerConversation, FailsClosed, Known,
     AgentActive, HostActive
<1>7. boot'[b].step = "answered" =>
        /\ AgentActive(BootOf[b])
        /\ boot'[b].agentId = agents[BootOf[b]].agentId
        /\ boot'[b].hostId = agents[BootOf[b]].hostId
  <2>1. authState[BootOf[b]] # None =>
          /\ AgentActive(BootOf[b])
          /\ authState[BootOf[b]] =
               [agentId |-> agents[BootOf[b]].agentId, hostId |-> agents[BootOf[b]].hostId]
    BY <1>1 DEF IInv, ReadyStateSigns
  <2> QED BY <1>2, <2>1
<1>8. BootsKept'
  BY <1>1, <1>2, <1>7, IdentityAssumption
     DEF IInv, BootsKept, BootKept, InDO, Known, AgentActive, AgentPending, HostActive
<1>9. ReadyStateSigns'
  BY <1>1, <1>2 DEF IInv, ReadyStateSigns, AgentActive
<1> QED BY <1>3, <1>4, <1>5, <1>6, <1>8, <1>9 DEF IInv

LEMMA EnsureAgentStep == ASSUME IInv, NEW b \in Boot, EnsureAgent(b) PROVE IInv'
<1> USE DEF registryVars, serverVars
<1>1. /\ UNCHANGED <<host, agents, keys, registeredHosts, registeredAgents,
                     conversations, sharedKv, authState, sessions, hook>>
      /\ boot[b].step = "ensure" /\ BootOf[b] \in Conversation /\ BootOf[b] \in sharedKv
  BY IdentityAssumption DEF EnsureAgent, IInv, BootsKept, BootKept
<1>2. /\ boot' \in [Boot -> BootState]
      /\ \A d \in Boot \ {b} : boot'[d] = boot[d]
      /\ boot'[b].outcome = boot[b].outcome /\ boot[b].on = None
      /\ \/ /\ agentPromises[BootOf[b]] # None /\ agentPromises' = agentPromises
            /\ boot'[b].step = "join" /\ boot'[b].on = agentPromises[BootOf[b]]
         \/ /\ agentPromises[BootOf[b]] = None
            /\ agentPromises' = [agentPromises EXCEPT ![BootOf[b]] = b]
            /\ boot'[b].step = "load" /\ boot'[b].on = None
  BY <1>1 DEF EnsureAgent, IInv, TypeOK, BootState, BootStep, InDO, Coalesced
<1>3. TypeOK'
  BY <1>1, <1>2 DEF IInv, TypeOK
<1>4. HostKept' /\ SessionsInUse'
  BY <1>1, BootKeepsHost DEF IInv, TypeOK
<1>5. Coalesced'
  BY <1>1, <1>2, IdentityAssumption DEF IInv, Coalesced, InDO, TypeOK
<1>6. AgentsKept' /\ RegistryKept'
  BY <1>1 DEF IInv, AgentsKept, RegistryKept, OneAgentPerConversation, FailsClosed, Known,
     AgentActive, HostActive
<1>7. BootsKept'
  BY <1>1, <1>2, IdentityAssumption
     DEF IInv, BootsKept, BootKept, InDO, Known, AgentActive, AgentPending, HostActive
<1>8. ReadyStateSigns'
  BY <1>1, <1>2 DEF IInv, ReadyStateSigns, AgentActive
<1> QED BY <1>3, <1>4, <1>5, <1>6, <1>7, <1>8 DEF IInv

(* A call that settles on what is there already, or fails.                 *)
LEMMA SettleStep ==
  ASSUME IInv, NEW b \in Boot, boot[b].step \in InDO, NEW outcome \in {"ok", "failed"},
         SettleBoot(b, outcome), outcome = "ok" => AgentActive(BootOf[b]),
         UNCHANGED <<host, agents, keys, registeredHosts, conversations, sharedKv, authState,
                     sessions, hook>>,
         registeredAgents' \in SUBSET RegisteredAgent, registeredAgents \subseteq registeredAgents',
         RegistryKept'
  PROVE  IInv'
<1>0. BootOf[b] \in Conversation
  BY IdentityAssumption
<1>1. outcome = "ok" => agents'[BootOf[b]] \in AgentRow
  BY <1>0 DEF IInv, TypeOK, AgentActive
<1>2. /\ \A d \in Boot : \/ boot'[d] = boot[d] /\ d # b /\ boot[d].on # b
                         \/ BootOf[d] = BootOf[b] /\ Told(d, BootOf[b], outcome)
      /\ boot' \in [Boot -> BootState]
      /\ agentPromises' \in [Conversation -> Boot \cup {None}]
      /\ Coalesced'
  BY <1>1, SettleTells
<1>3. TypeOK'
  BY <1>2 DEF IInv, TypeOK
<1>4. HostKept' /\ SessionsInUse'
  BY BootKeepsHost DEF IInv, TypeOK
<1>5. AgentsKept'
  BY DEF IInv, AgentsKept, AgentActive, HostActive
<1>6. BootsKept'
  <2> SUFFICES ASSUME NEW d \in Boot PROVE BootKept(d)'
    BY DEF BootsKept
  <2>1. CASE boot'[d] = boot[d] /\ d # b
    BY <2>1, IdentityAssumption
       DEF IInv, BootsKept, BootKept, Known, AgentActive, AgentPending, HostActive
  <2>2. CASE BootOf[d] = BootOf[b] /\ Told(d, BootOf[b], outcome)
    BY <2>2 DEF BootKept, Told, AgentActive, InDO
  <2> QED BY <1>2, <2>1, <2>2
<1>7. ReadyStateSigns'
  BY <1>2 DEF IInv, ReadyStateSigns, AgentActive, Told
<1> QED BY <1>2, <1>3, <1>4, <1>5, <1>6, <1>7 DEF IInv

LEMMA LoadAgentStep == ASSUME IInv, NEW b \in Boot, LoadAgent(b) PROVE IInv'
<1> USE DEF registryVars, serverVars
<1>0. /\ boot[b].step = "load" /\ boot[b].step \in InDO /\ BootOf[b] \in Conversation
      /\ UNCHANGED <<host, keys, agents, registeredHosts, registeredAgents, conversations, sharedKv,
                     authState, sessions, hook>>
  BY IdentityAssumption DEF LoadAgent, InDO
<1>1. RegistryKept'
  BY <1>0 DEF IInv, RegistryKept, OneAgentPerConversation, FailsClosed, Known, AgentActive
<1>2. CASE AgentActive(BootOf[b]) /\ SettleBoot(b, "ok")
  BY <1>0, <1>1, <1>2, SettleStep DEF IInv, TypeOK
<1>3. CASE SettleBoot(b, "failed")
  BY <1>0, <1>1, <1>3, SettleStep DEF IInv, TypeOK
<1>4. CASE /\ UNCHANGED agentPromises
           /\ \/ /\ AgentPending(BootOf[b]) /\ HostActive
                 /\ boot' = [boot EXCEPT ![b].step = "register", ![b].key = agents[BootOf[b]].key]
              \/ /\ agents[BootOf[b]] = None /\ HostActive
                 /\ boot' = [boot EXCEPT ![b].step = "keygen", ![b].hostId = host.hostId]
  <2>1. /\ boot' \in [Boot -> BootState]
        /\ \A d \in Boot \ {b} : boot'[d] = boot[d]
        /\ boot'[b].outcome = boot[b].outcome /\ boot'[b].on = boot[b].on
        /\ \/ /\ AgentPending(BootOf[b])
              /\ boot'[b].step = "register" /\ boot'[b].key = agents[BootOf[b]].key
           \/ /\ agents[BootOf[b]] = None /\ HostActive
              /\ boot'[b].step = "keygen" /\ boot'[b].hostId = host.hostId
    BY <1>0, <1>4 DEF IInv, TypeOK, BootState, BootStep, InDO, AgentPending, HostActive,
       AgentRow, HostRow, Id
  <2>2. TypeOK'
    BY <1>0, <1>4, <2>1 DEF IInv, TypeOK
  <2>3. HostKept' /\ SessionsInUse'
    BY <1>0, BootKeepsHost DEF IInv, TypeOK
  <2>4. Coalesced'
    BY <1>0, <1>4, <2>1, IdentityAssumption DEF IInv, Coalesced, InDO, TypeOK
  <2>5. AgentsKept'
    BY <1>0 DEF IInv, AgentsKept, AgentActive, HostActive
  <2>6. BootsKept'
    <3>1. ASSUME NEW d \in Boot \ {b} PROVE BootKept(d)'
      BY <1>0, <2>1 DEF IInv, BootsKept, BootKept, Known, AgentActive, AgentPending, HostActive
    <3>2. BootKept(b)'
      BY <1>0, <2>1 DEF IInv, BootsKept, BootKept, AgentPending, HostActive
    <3> QED BY <3>1, <3>2 DEF BootsKept
  <2>7. ReadyStateSigns'
    BY <1>0, <2>1 DEF IInv, ReadyStateSigns, AgentActive
  <2> QED BY <1>1, <2>2, <2>3, <2>4, <2>5, <2>6, <2>7 DEF IInv
<1> QED BY <1>2, <1>3, <1>4 DEF LoadAgent

(* The key pair is new and the row is the first of its conversation.       *)
LEMMA InsertAgentStep == ASSUME IInv, NEW b \in Boot, InsertAgent(b) PROVE IInv'
<1> DEFINE c == BootOf[b]
           fresh == [key |-> keys + 1, agentId |-> None, hostId |-> boot[b].hostId,
                     status |-> "pending"]
<1> USE DEF registryVars, serverVars
<1>0. /\ boot[b].step = "keygen" /\ boot[b].step \in InDO /\ c \in Conversation
      /\ agents[c] = None /\ HostActive /\ boot[b].hostId = host.hostId /\ c \in sharedKv
      /\ UNCHANGED <<host, agentPromises, registeredHosts, registeredAgents, conversations,
                     sharedKv, authState, sessions, hook>>
  BY IdentityAssumption DEF InsertAgent, InDO, IInv, BootsKept, BootKept
<1>1. /\ keys' = keys + 1 /\ keys \in Nat
      /\ agents' = [agents EXCEPT ![c] = fresh]
      /\ boot' = [boot EXCEPT ![b].step = "register", ![b].key = keys + 1]
  BY DEF InsertAgent, IInv, TypeOK
<1>2. fresh \in AgentRow /\ fresh # None
  BY <1>1, RowAssumption DEF AgentRow, Id, IInv, TypeOK, BootState
<1>3. /\ agents'[c] = fresh /\ \A d \in Conversation \ {c} : agents'[d] = agents[d]
      /\ boot' \in [Boot -> BootState]
      /\ \A d \in Boot \ {b} : boot'[d] = boot[d]
      /\ boot'[b].step = "register" /\ boot'[b].key = keys + 1
      /\ boot'[b].outcome = boot[b].outcome /\ boot'[b].on = boot[b].on
  <2>1. agents'[c] = fresh /\ \A d \in Conversation \ {c} : agents'[d] = agents[d]
    BY <1>0, <1>1 DEF IInv, TypeOK
  <2>2. keys + 1 \in Id /\ boot \in [Boot -> BootState]
    BY <1>1 DEF Id, IInv, TypeOK
  <2>3. boot' \in [Boot -> BootState]
    BY <1>1, <2>2 DEF BootState, BootStep, InDO
  <2>4. /\ \A d \in Boot \ {b} : boot'[d] = boot[d]
        /\ boot'[b].step = "register" /\ boot'[b].key = keys + 1
        /\ boot'[b].outcome = boot[b].outcome /\ boot'[b].on = boot[b].on
    BY <1>1, <2>2 DEF BootState
  <2> QED BY <2>1, <2>3, <2>4
<1>4. TypeOK'
  BY <1>0, <1>1, <1>2, <1>3 DEF IInv, TypeOK
<1>5. HostKept' /\ SessionsInUse'
  BY <1>0, <1>1, BootKeepsHost
<1>6. Coalesced'
  BY <1>0, <1>3, IdentityAssumption DEF IInv, Coalesced, InDO, TypeOK
<1>7. AgentsKept'
  <2>1. HostActive' /\ agents'[c].hostId = host'.hostId /\ agents'[c].key = keys + 1
    BY <1>0, <1>3 DEF HostActive
  <2>2. \A d \in Conversation \ {c} : agents'[d] # None => agents'[d].key < keys + 1
    BY <1>1, <1>3 DEF IInv, AgentsKept, TypeOK, AgentRow
  <2>3. ~AgentActive(c)'
    BY <1>3 DEF AgentActive
  <2>4. ASSUME NEW d \in Conversation, agents'[d] # None
        PROVE  agents'[d].key <= keys' /\ HostActive' /\ agents'[d].hostId = host'.hostId
    BY <1>0, <1>1, <1>3, <2>1, <2>2, <2>4 DEF IInv, AgentsKept, TypeOK, AgentRow
  <2>5. ASSUME NEW d \in Conversation, NEW e \in Conversation, agents'[d] # None,
               agents'[e] # None, agents'[d].key = agents'[e].key
        PROVE  d = e
    <3>1. \A x \in Conversation \ {c} : agents'[x] # None => agents'[x].key # keys + 1
      BY <1>1, <1>3, <2>2 DEF IInv, TypeOK, AgentRow
    <3>2. CASE d # c /\ e # c
      BY <1>3, <2>5, <3>2 DEF IInv, AgentsKept
    <3> QED BY <2>1, <2>5, <3>1, <3>2
  <2>6. \A d \in Conversation : AgentActive(d)' => agents'[d].agentId = agents'[d].key
    BY <1>3, <2>3 DEF IInv, AgentsKept, AgentActive
  <2> QED BY <2>4, <2>5, <2>6 DEF AgentsKept
<1>8. RegistryKept'
  <2>1. \A a \in registeredAgents : a.conversation # c /\ a.conversation \in Conversation
    BY <1>0 DEF IInv, RegistryKept, OneAgentPerConversation, TypeOK, RegisteredAgent
  <2>2. ~AgentActive(c)'
    BY <1>3 DEF AgentActive
  <2> QED BY <1>0, <1>3, <2>1, <2>2
          DEF IInv, RegistryKept, OneAgentPerConversation, FailsClosed, Known, AgentActive
<1>9. BootsKept'
  <2>1. BootKept(b)'
    BY <1>0, <1>2, <1>3 DEF BootKept, AgentPending
  <2>2. ASSUME NEW d \in Boot \ {b} PROVE BootKept(d)'
    <3>1. CASE BootOf[d] = c
      <4>1. boot[d].step \notin InDO
        BY <1>0, <3>1, OneRuns
      <4>2. boot[d].step # "answered"
        BY <1>0, <3>1 DEF IInv, BootsKept, BootKept, AgentActive
      <4> QED BY <1>0, <1>3, <3>1, <4>1, <4>2 DEF BootKept, InDO
    <3>2. CASE BootOf[d] # c
      <4>1. agents'[BootOf[d]] = agents[BootOf[d]]
        BY <1>3, <3>2, IdentityAssumption
      <4> QED BY <1>0, <1>3, <4>1
              DEF IInv, BootsKept, BootKept, Known, AgentActive, AgentPending, HostActive
    <3> QED BY <3>1, <3>2
  <2> QED BY <2>1, <2>2 DEF BootsKept
<1>10. ReadyStateSigns'
  <2>1. \A d \in Conversation : authState[d] # None => d # c /\ agents'[d] = agents[d]
    BY <1>0, <1>3 DEF IInv, ReadyStateSigns, AgentActive
  <2> QED BY <1>0, <1>3, <2>1 DEF IInv, ReadyStateSigns, AgentActive
<1> QED BY <1>4, <1>5, <1>6, <1>7, <1>8, <1>9, <1>10 DEF IInv

(* Whoever registers, the registry knows the key for this conversation     *)
(* alone.                                                                  *)
LEMMA RegisteringKnows ==
  ASSUME IInv, NEW b \in Boot, boot[b].step = "register", Registering(b), UNCHANGED host,
         UNCHANGED <<agents, sharedKv>>
  PROVE  /\ registeredAgents' \in SUBSET RegisteredAgent
         /\ registeredAgents \subseteq registeredAgents'
         /\ Known(BootOf[b])' /\ RegistryKept'
<1> DEFINE c == BootOf[b]
           new == [key |-> boot[b].key, conversation |-> c, host |-> host.hostId]
<1>0. /\ c \in Conversation /\ c \in sharedKv /\ agents[c] # None /\ agents[c].key = boot[b].key
      /\ boot[b].key \in Nat /\ host.hostId \in Id
  BY IdentityAssumption DEF IInv, BootsKept, BootKept, InDO, AgentPending, TypeOK, AgentRow,
     Registering, HostActive, HostRow
<1>1. new \in RegisteredAgent
  BY <1>0 DEF RegisteredAgent
<1>2. CASE \E a \in registeredAgents : a.key = boot[b].key
  <2>1. registeredAgents' = registeredAgents
    BY <1>2 DEF Registering
  <2>2. PICK a \in registeredAgents : a.key = boot[b].key
    BY <1>2
  <2>3. a.conversation = c /\ a.host = host.hostId
    BY <1>0, <2>2 DEF IInv, RegistryKept, OneAgentPerConversation, AgentsKept, TypeOK,
       RegisteredAgent
  <2>4. Known(c)'
    BY <1>0, <2>1, <2>2, <2>3 DEF Known
  <2>5. RegistryKept'
    BY <2>1 DEF IInv, RegistryKept, OneAgentPerConversation, FailsClosed, Known, AgentActive
  <2> QED BY <2>1, <2>4, <2>5 DEF IInv, TypeOK
<1>3. CASE ~\E a \in registeredAgents : a.key = boot[b].key
  <2>1. registeredAgents' = registeredAgents \cup {new}
    BY <1>3 DEF Registering
  <2>2. Known(c)'
    <3>1. /\ new \in registeredAgents' /\ new.key = agents'[c].key /\ new.conversation = c
          /\ new.host = host'.hostId
      BY <1>0, <2>1
    <3> QED BY <3>1 DEF Known
  <2>3. RegistryKept'
    BY <1>0, <2>1 DEF IInv, RegistryKept, OneAgentPerConversation, FailsClosed, Known, AgentActive
  <2> QED BY <1>1, <2>1, <2>2, <2>3 DEF IInv, TypeOK
<1> QED BY <1>2, <1>3

LEMMA RegisterAgentStep == ASSUME IInv, NEW b \in Boot, RegisterAgent(b) PROVE IInv'
<1> USE DEF registryVars, serverVars
<1>0. /\ boot[b].step = "register" /\ boot[b].step \in InDO /\ BootOf[b] \in Conversation
      /\ UNCHANGED <<host, agents, keys, registeredHosts, conversations, sharedKv, authState,
                     sessions, hook>>
  BY IdentityAssumption DEF RegisterAgent, InDO
<1>1. ASSUME UNCHANGED registeredAgents \/ Registering(b)
      PROVE  /\ registeredAgents' \in SUBSET RegisteredAgent
             /\ registeredAgents \subseteq registeredAgents' /\ RegistryKept'
  <2>1. CASE UNCHANGED registeredAgents
    BY <1>0, <2>1 DEF IInv, TypeOK, RegistryKept, OneAgentPerConversation, FailsClosed, Known,
       AgentActive
  <2>2. CASE Registering(b)
    BY <1>0, <2>2, RegisteringKnows
  <2> QED BY <1>1, <2>1, <2>2
<1>2. CASE (UNCHANGED registeredAgents \/ Registering(b)) /\ SettleBoot(b, "failed")
  BY <1>0, <1>1, <1>2, SettleStep
<1>3. CASE /\ Registering(b) /\ UNCHANGED agentPromises
           /\ boot' = [boot EXCEPT ![b].step = "activate"]
  <2>1. /\ boot' \in [Boot -> BootState]
        /\ \A d \in Boot \ {b} : boot'[d] = boot[d]
        /\ boot'[b].outcome = boot[b].outcome /\ boot'[b].on = boot[b].on
        /\ boot'[b].step = "activate" /\ boot'[b].key = boot[b].key
    BY <1>0, <1>3 DEF IInv, TypeOK, BootState, BootStep, InDO
  <2>2. TypeOK'
    BY <1>0, <1>1, <1>3, <2>1 DEF IInv, TypeOK
  <2>3. HostKept' /\ SessionsInUse'
    BY <1>0, BootKeepsHost DEF IInv, TypeOK
  <2>4. Coalesced'
    BY <1>0, <1>3, <2>1, IdentityAssumption DEF IInv, Coalesced, InDO, TypeOK
  <2>5. AgentsKept'
    BY <1>0 DEF IInv, AgentsKept, AgentActive, HostActive
  <2>6. BootsKept'
    <3>1. ASSUME NEW d \in Boot \ {b} PROVE BootKept(d)'
      BY <1>0, <1>1, <1>3, <2>1
         DEF IInv, BootsKept, BootKept, Known, AgentActive, AgentPending, HostActive
    <3>2. Known(BootOf[b])'
      BY <1>0, <1>3, RegisteringKnows
    <3>3. BootKept(b)'
      BY <1>0, <2>1, <3>2 DEF IInv, BootsKept, BootKept, AgentPending, InDO
    <3> QED BY <3>1, <3>3 DEF BootsKept
  <2>7. ReadyStateSigns'
    BY <1>0, <2>1 DEF IInv, ReadyStateSigns, AgentActive
  <2> QED BY <1>1, <1>3, <2>2, <2>3, <2>4, <2>5, <2>6, <2>7 DEF IInv
<1> QED BY <1>2, <1>3 DEF RegisterAgent

(* A row becomes active under the key it was registered with, which is the *)
(* answer of its boot and of those that joined it.                         *)
LEMMA ActivateAgentStep == ASSUME IInv, NEW b \in Boot, ActivateAgent(b) PROVE IInv'
<1> DEFINE c == BootOf[b]
           active == [agents[c] EXCEPT !.agentId = boot[b].key, !.status = "active"]
<1> USE DEF registryVars, serverVars
<1>0. /\ boot[b].step = "activate" /\ boot[b].step \in InDO /\ c \in Conversation
      /\ AgentPending(c) /\ agents[c].key = boot[b].key /\ Known(c) /\ c \in sharedKv
      /\ UNCHANGED <<host, keys, registeredHosts, registeredAgents, conversations, sharedKv,
                     authState, sessions, hook>>
      /\ SettleBoot(b, "ok")
  BY IdentityAssumption DEF ActivateAgent, InDO, IInv, BootsKept, BootKept
<1>1. agents' = [agents EXCEPT ![c] = active]
  BY <1>0 DEF ActivateAgent, IInv, TypeOK, AgentPending, AgentRow
<1>2. /\ active \in AgentRow /\ active # None /\ active.key = agents[c].key
      /\ active.agentId = agents[c].key /\ active.hostId = agents[c].hostId
      /\ active.status = "active"
  <2>1. agents[c] \in AgentRow
    BY <1>0 DEF IInv, TypeOK, AgentPending
  <2> QED BY <1>0, <2>1, RowAssumption DEF AgentRow, Id
<1>3. agents'[c] = active /\ \A d \in Conversation \ {c} : agents'[d] = agents[d]
  BY <1>0, <1>1 DEF IInv, TypeOK
<1>4. /\ \A d \in Boot : \/ boot'[d] = boot[d] /\ d # b /\ boot[d].on # b
                         \/ BootOf[d] = c /\ Told(d, c, "ok")
      /\ boot' \in [Boot -> BootState]
      /\ agentPromises' \in [Conversation -> Boot \cup {None}]
      /\ Coalesced'
  BY <1>0, <1>2, <1>3, SettleTells
<1>5. TypeOK'
  BY <1>0, <1>1, <1>2, <1>4 DEF IInv, TypeOK
<1>6. HostKept' /\ SessionsInUse'
  BY <1>0, BootKeepsHost DEF IInv, TypeOK
<1>7. AgentsKept'
  <2>1. \A d \in Conversation : agents'[d] # None =>
          /\ agents[d] # None /\ agents'[d].key = agents[d].key
          /\ agents'[d].hostId = agents[d].hostId
    BY <1>0, <1>2, <1>3 DEF AgentPending
  <2>2. \A d \in Conversation : AgentActive(d)' => agents'[d].agentId = agents'[d].key
    BY <1>2, <1>3 DEF IInv, AgentsKept, AgentActive
  <2>3. HostActive' <=> HostActive
    BY <1>0 DEF HostActive
  <2>4. \A d, e \in Conversation :
          agents'[d] # None /\ agents'[e] # None /\ agents'[d].key = agents'[e].key => d = e
    BY <2>1 DEF IInv, AgentsKept
  <2>5. \A d \in Conversation : agents'[d] # None =>
          agents'[d].key <= keys' /\ HostActive' /\ agents'[d].hostId = host'.hostId
    BY <1>0, <2>1, <2>3 DEF IInv, AgentsKept
  <2> QED BY <2>2, <2>4, <2>5 DEF AgentsKept
<1>8. RegistryKept'
  <2>1. OneAgentPerConversation' /\ FailsClosed'
    BY <1>0, <1>2, <1>3
       DEF IInv, RegistryKept, OneAgentPerConversation, FailsClosed, TypeOK, RegisteredAgent
  <2>2. \A d \in Conversation : AgentActive(d)' => Known(d)'
    <3>1. Known(c)'
      BY <1>0, <1>2, <1>3 DEF Known
    <3>2. ASSUME NEW d \in Conversation \ {c}, AgentActive(d)' PROVE Known(d)'
      BY <1>0, <1>3, <3>2 DEF IInv, RegistryKept, AgentActive, Known
    <3> QED BY <3>1, <3>2
  <2> QED BY <1>0, <2>1, <2>2 DEF IInv, RegistryKept
<1>9. BootsKept'
  <2> SUFFICES ASSUME NEW d \in Boot PROVE BootKept(d)'
    BY DEF BootsKept
  <2>1. CASE BootOf[d] = c /\ Told(d, c, "ok")
    BY <1>2, <1>3, <2>1 DEF Told, BootKept, AgentActive, InDO
  <2>2. CASE boot'[d] = boot[d] /\ d # b /\ BootOf[d] = c
    <3>1. boot[d].step \notin InDO /\ boot[d].step # "answered"
      BY <1>0, <2>2, OneRuns DEF IInv, BootsKept, BootKept, AgentActive, AgentPending
    <3> QED BY <1>0, <2>2, <3>1 DEF BootKept, InDO
  <2>3. CASE boot'[d] = boot[d] /\ BootOf[d] # c
    <3>1. agents'[BootOf[d]] = agents[BootOf[d]]
      BY <1>3, <2>3, IdentityAssumption
    <3> QED BY <1>0, <2>3, <3>1
            DEF IInv, BootsKept, BootKept, Known, AgentActive, AgentPending, HostActive
  <2> QED BY <1>4, <2>1, <2>2, <2>3
<1>10. ReadyStateSigns'
  <2>1. \A d \in Conversation : authState[d] # None => d # c /\ agents'[d] = agents[d]
    BY <1>0, <1>3 DEF IInv, ReadyStateSigns, AgentActive, AgentPending
  <2> QED BY <1>0, <1>4, <2>1 DEF IInv, ReadyStateSigns, AgentActive, Told
<1> QED BY <1>4, <1>5, <1>6, <1>7, <1>8, <1>9, <1>10 DEF IInv

(* The end of a boot: what it was told is persisted, or signs.             *)
LEMMA EndBootStep ==
  ASSUME IInv, NEW b \in Boot, PersistState(b) \/ SignAgentJwt(b) PROVE IInv'
<1> DEFINE c == BootOf[b]
<1> USE DEF doVars, registryVars, serverVars
<1>0. /\ boot[b].step = "answered" /\ c \in Conversation
      /\ AgentActive(c) /\ boot[b].agentId = agents[c].agentId /\ boot[b].hostId = agents[c].hostId
      /\ UNCHANGED <<host, agents, agentPromises, keys, registeredHosts, registeredAgents,
                     conversations, sharedKv, sessions, hook>>
  BY IdentityAssumption DEF PersistState, SignAgentJwt, IInv, BootsKept, BootKept
<1>1. boot' = [boot EXCEPT ![b].step = "done", ![b].outcome = "ok"]
  <2>1. CASE PersistState(b)
    BY <2>1 DEF PersistState
  <2>2. CASE SignAgentJwt(b)
    BY <1>0, <2>2 DEF SignAgentJwt
  <2> QED BY <2>1, <2>2
<1>2. /\ boot' \in [Boot -> BootState]
      /\ \A d \in Boot \ {b} : boot'[d] = boot[d]
      /\ boot'[b].step = "done" /\ boot'[b].outcome = "ok" /\ boot'[b].on = boot[b].on
  BY <1>1 DEF IInv, TypeOK, BootState, BootStep
<1>3. authState' = authState \/
        authState' = [authState EXCEPT ![c] = [agentId |-> agents[c].agentId, hostId |-> agents[c].hostId]]
  BY <1>0 DEF PersistState, SignAgentJwt
<1>4. TypeOK'
  <2>1. [agentId |-> agents[c].agentId, hostId |-> agents[c].hostId] \in AuthState
    BY <1>0 DEF IInv, TypeOK, AgentActive, AgentRow, AuthState, Id
  <2> QED BY <1>0, <1>2, <1>3, <2>1 DEF IInv, TypeOK
<1>5. HostKept' /\ SessionsInUse'
  BY <1>0, BootKeepsHost DEF IInv, TypeOK
<1>6. Coalesced'
  BY <1>0, <1>2, IdentityAssumption DEF IInv, Coalesced, InDO, TypeOK
<1>7. AgentsKept' /\ RegistryKept'
  BY <1>0 DEF IInv, AgentsKept, RegistryKept, OneAgentPerConversation, FailsClosed, Known,
     AgentActive, HostActive
<1>8. BootsKept'
  BY <1>0, <1>2 DEF IInv, BootsKept, BootKept, InDO, Known, AgentActive, AgentPending, HostActive
<1>9. ReadyStateSigns'
  BY <1>0, <1>2, <1>3 DEF IInv, ReadyStateSigns, AgentActive, TypeOK
<1> QED BY <1>4, <1>5, <1>6, <1>7, <1>8, <1>9 DEF IInv

LEMMA RestartDOStep == ASSUME IInv, RestartDO PROVE IInv'
<1>0. UNCHANGED <<host, agents, keys, registeredHosts, registeredAgents, conversations, sharedKv,
                  authState, sessions>>
  BY DEF RestartDO, registryVars, serverVars
<1>1. ASSUME NEW d \in Boot
      PROVE  /\ boot'[d] \in BootState
             /\ \/ boot'[d] = boot[d] /\ boot[d].step \notin InDO \cup {"join"}
                \/ boot'[d].step = "done" /\ boot'[d].on = None /\ boot'[d].outcome = "failed"
  <2>1. boot[d] \in BootState
    BY DEF IInv, TypeOK
  <2>2. CASE boot[d].step \in InDO \cup {"join"}
    <3>1. boot'[d] = [boot[d] EXCEPT !.step = "done", !.on = None, !.outcome = "failed"]
      BY <2>2 DEF RestartDO
    <3> QED BY <2>1, <3>1 DEF BootState, BootStep
  <2>3. CASE boot[d].step \notin InDO \cup {"join"}
    <3>1. boot'[d] = boot[d]
      BY <2>3 DEF RestartDO
    <3> QED BY <2>1, <2>3, <3>1
  <2> QED BY <2>2, <2>3
<1>2. ASSUME NEW h \in Hook
      PROVE  /\ hook'[h] \in HookState
             /\ \/ hook'[h] = hook[h]
                \/ hook[h].step = "keygen" /\ hook'[h].step = "done"
  <2>1. hook[h] \in HookState
    BY DEF IInv, TypeOK
  <2>2. CASE hook[h].step = "keygen"
    <3>1. hook'[h] = [hook[h] EXCEPT !.step = "done", !.outcome = "crashed"]
      BY <2>2 DEF RestartDO
    <3> QED BY <2>1, <2>2, <3>1 DEF HookState, HookStep
  <2>3. CASE hook[h].step # "keygen"
    <3>1. hook'[h] = hook[h]
      BY <2>3 DEF RestartDO
    <3> QED BY <2>1, <3>1
  <2> QED BY <2>2, <2>3
<1>3. agentPromises' = [c \in Conversation |-> None]
  BY DEF RestartDO
<1>4. TypeOK'
  <2>1. boot' \in [Boot -> BootState]
    BY <1>1 DEF RestartDO
  <2>2. hook' \in [Hook -> HookState]
    BY <1>2 DEF RestartDO
  <2> QED BY <1>0, <1>3, <2>1, <2>2 DEF IInv, TypeOK
<1>5. HostKept' /\ SessionsInUse'
  BY <1>0, <1>2 DEF IInv, HostKept, OneHost, SessionsInUse, TypeOK
<1>6. Coalesced'
  BY <1>1, <1>3 DEF IInv, Coalesced, InDO
<1>7. AgentsKept' /\ RegistryKept'
  BY <1>0 DEF IInv, AgentsKept, RegistryKept, OneAgentPerConversation, FailsClosed, Known,
     AgentActive, HostActive
<1>8. BootsKept'
  BY <1>0, <1>1 DEF IInv, BootsKept, BootKept, InDO, Known, AgentActive, AgentPending, HostActive
<1>9. ReadyStateSigns'
  BY <1>0, <1>1 DEF IInv, ReadyStateSigns, AgentActive
<1> QED BY <1>4, <1>5, <1>6, <1>7, <1>8, <1>9 DEF IInv

-----------------------------------------------------------------------------
LEMMA NextInv == IInv /\ [Next]_vars => IInv'
<1> SUFFICES ASSUME IInv, [Next]_vars PROVE IInv' OBVIOUS
<1>1. ASSUME NEW h \in Hook, HookStepOf(h) \/ CrashHook(h) PROVE IInv'
  BY <1>1, EnsureHostStep, InsertHostStep, CreateSessionStep, RegisterHostStep, BindHostStep,
     DeleteSessionStep, CrashHookStep DEF HookStepOf
<1>2. ASSUME NEW c \in Conversation, InsertConversation(c) \/ PutSharedKv(c) PROVE IInv'
  BY <1>2, ServerStep
<1>3. ASSUME NEW b \in Boot, GetAgentState(b) \/ BootStepOf(b) PROVE IInv'
  BY <1>3, GetAgentStateStep, EnsureAgentStep, LoadAgentStep, InsertAgentStep, RegisterAgentStep,
     ActivateAgentStep, EndBootStep DEF BootStepOf
<1>4. CASE RestartDO
  BY <1>4, RestartDOStep
<1>5. CASE UNCHANGED vars
  BY <1>5 DEF vars, IInv, TypeOK, HostKept, OneHost, SessionsInUse, Coalesced, AgentsKept,
     RegistryKept, OneAgentPerConversation, FailsClosed, BootsKept, BootKept, Known, AgentActive,
     AgentPending, HostActive, ReadyStateSigns
<1> QED BY <1>1, <1>2, <1>3, <1>4, <1>5 DEF Next

LEMMA Invariant == Spec => []IInv
BY InitInv, NextInv, PTL DEF Spec

(* The state is always of its type.                                        *)
THEOREM IdentityTypeCorrect == Spec => []TypeOK
<1>1. IInv => TypeOK BY DEF IInv
<1> QED BY <1>1, Invariant, PTL

(* Whatever hooks overlap, crash or lose an answer, the registry gets one  *)
(* host for the user, the one whose key pair the Durable Object keeps.     *)
THEOREM HostIsOne == Spec => []OneHost
<1>1. IInv => OneHost BY DEF IInv, HostKept
<1> QED BY <1>1, Invariant, PTL

(* Restarts, lost answers and retries never register a second agent for a  *)
(* conversation.                                                           *)
THEOREM AgentIsOne == Spec => []OneAgentPerConversation
<1>1. IInv => OneAgentPerConversation BY DEF IInv, RegistryKept
<1> QED BY <1>1, Invariant, PTL

(* What the Durable Object calls active, the registry knows.               *)
THEOREM ActiveIsKnown == Spec => []ActiveIsRegistered
<1>1. ASSUME IInv PROVE ActiveIsRegistered
  <2>1. HostActive => host.hostId = host.key /\ host.key \in registeredHosts
    BY <1>1 DEF IInv, HostKept, HostActive
  <2>2. ASSUME NEW c \in Conversation, AgentActive(c)
        PROVE  \E a \in registeredAgents :
                 /\ a.key = agents[c].agentId /\ a.conversation = c
                 /\ host # None /\ a.host = host.hostId /\ agents[c].hostId = host.hostId
    BY <1>1, <2>2 DEF IInv, AgentsKept, RegistryKept, Known, AgentActive, HostActive
  <2> QED BY <2>1, <2>2 DEF ActiveIsRegistered
<1> QED BY <1>1, Invariant, PTL

(* What an agent was told or persisted keeps signing, over restarts.       *)
THEOREM ReadyStateKeepsSigning == Spec => []ReadyStateSigns
<1>1. IInv => ReadyStateSigns BY DEF IInv
<1> QED BY <1>1, Invariant, PTL

(* One call runs for a conversation, and no insert meets another's row.    *)
THEOREM CallsAreCoalesced == Spec => []OneCallInFlight
<1>1. ASSUME IInv PROVE OneCallInFlight
  <2> SUFFICES ASSUME NEW b \in Boot
               PROVE  /\ boot[b].step \in InDO => agentPromises[BootOf[b]] = b
                      /\ boot[b].step = "join" => boot[boot[b].on].step \in InDO
                      /\ boot[b].step = "keygen" => agents[BootOf[b]] = None
    BY DEF OneCallInFlight
  <2> QED BY <1>1, IdentityAssumption DEF IInv, Coalesced, BootsKept, BootKept, TypeOK
<1> QED BY <1>1, Invariant, PTL

(* No agent is registered without an owner in SHARED_KV.                   *)
THEOREM IdentityFailsClosed == Spec => []FailsClosed
<1>1. IInv => FailsClosed BY DEF IInv, RegistryKept
<1> QED BY <1>1, Invariant, PTL

(* A provisioning session does not outlive a hook that was not cut off.    *)
THEOREM SessionsEnd == Spec => []SessionsDeleted
<1>1. IInv => SessionsDeleted BY DEF IInv, SessionsInUse, SessionsDeleted
<1> QED BY <1>1, Invariant, PTL

=============================================================================
