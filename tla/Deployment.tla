----------------------------- MODULE Deployment -----------------------------
(***************************************************************************)
(* Deploys of the stack by one developer: the agent is built and published *)
(* first, the API is bound to it, and a Wrangler configuration that        *)
(* mirrors the API's bindings is generated last.  A deploy may stop after  *)
(* any step; what it did stays.  Between deploys the sources change and so *)
(* does the environment they run in.                                       *)
(***************************************************************************)
EXTENDS Naturals, Sequences, SequencesExt

CONSTANTS
  Provider, ClientId, ClientSecret,  \* SOCIAL_PROVIDERS and the names of their halves
  ApiBindings,  \* the entries of API.env, without those of the providers
  MaxEdits,     \* bound: edits of each tree of sources
  Nowhere       \* not built, not deployed, not written

VARIABLES
  source,       \* how often each tree of sources was edited
  settings,     \* the names set in the environment
  deploy,       \* the deploy that runs, or the last one
  memo, bundle, \* the inputs of the agent's last build, and what it built
  live,         \* what Cloudflare runs
  file          \* apps/server/wrangler.jsonc

deployVars == <<source, settings, deploy, memo, bundle, live, file>>

Tree == {"agent", "files"}

Secret(name) == [name |-> name, kind |-> "secret"]
Halves(p) == {Secret(ClientId[p]), Secret(ClientSecret[p])}
NamesOf(bindings) == {b.name : b \in bindings}
Required == NamesOf({b \in ToSet(ApiBindings) : b.kind = "secret"})

(* socialSecrets: a provider without both halves has no binding at all.    *)
SocialSecrets(env) == UNION {Halves(p) : p \in {q \in Provider : NamesOf(Halves(q)) \subseteq env}}

(* OPTIONAL_SECRETS, whatever the environment holds.                       *)
OptionalSecrets == UNION {Halves(p) : p \in Provider}

ApiEnv(env) == ApiBindings \o SetToSeq(SocialSecrets(env))

(* The entries of an object have names of their own, none of which is that *)
(* of a provider's secret.                                                 *)
DeployAssumption ==
  /\ ApiBindings \in Seq(ToSet(ApiBindings)) /\ IsFiniteSet(Provider)
  /\ \A i, j \in DOMAIN ApiBindings : ApiBindings[i].name = ApiBindings[j].name => i = j
  /\ NamesOf(ToSet(ApiBindings)) \cap NamesOf(OptionalSecrets) = {}

ASSUME DeployAssumption

DeployInit ==
  /\ source = [t \in Tree |-> 0]
  /\ settings \in {Required, Required \cup NamesOf(OptionalSecrets)}
  /\ deploy = [stage |-> "idle", env |-> settings, source |-> source]
  /\ memo = Nowhere /\ bundle = Nowhere
  /\ live = [agent |-> Nowhere, api |-> Nowhere]
  /\ file = Nowhere

-----------------------------------------------------------------------------
(* writeWranglerJsoncFromWorker: every binding goes to the section of its  *)
(* kind; the deploy dies of one that has none.                             *)
Section == {"vars", "secrets", "kv_namespaces", "r2_buckets", "d1_databases", "send_email",
            "ratelimits", "services", "durable_objects", "migrations", "version_metadata"}

SectionOf == [var |-> "vars", secret |-> "secrets", kv |-> "kv_namespaces", r2 |-> "r2_buckets",
              d1 |-> "d1_databases", email |-> "send_email", rateLimit |-> "ratelimits",
              worker |-> "services", foreignObject |-> "durable_objects",
              ownObject |-> "durable_objects", version |-> "version_metadata"]

EmptySpec == [s \in Section |-> <<>>]

(* A variation that declares a secret whether or not it is there. *)
PushSecretBlindly(spec, name) == [spec EXCEPT !["secrets"] = Append(@, name)]

(* pushSecret: a bound secret may also be declared as optional. *)
PushSecret(spec, name) ==
  IF name \in ToSet(spec["secrets"]) THEN spec
  ELSE [spec EXCEPT !["secrets"] = Append(@, name)]

Supported(spec, b) ==
  /\ b.kind \in DOMAIN SectionOf
  /\ b.kind = "version" => spec["version_metadata"] = <<>>

(* A Durable Object of this very script also brings its migration. *)
Classify(spec, b) ==
  IF spec = Nowhere \/ ~Supported(spec, b) THEN Nowhere
  ELSE CASE b.kind = "secret" -> PushSecret(spec, b.name)
         [] b.kind = "ownObject" ->
              [spec EXCEPT !["durable_objects"] = Append(@, b.name),
                           !["migrations"] = Append(@, <<"v1", b.name>>)]
         [] OTHER -> [spec EXCEPT ![SectionOf[b.kind]] = Append(@, b.name)]

OmitEmptyCollections(spec) == [s \in {t \in Section : spec[t] # <<>>} |-> spec[s]]

(* The entries of API.env in some order, then the optional secrets, each   *)
(* of which is pushed as one that is bound.                                *)
WranglerEntries(env) == ApiEnv(env) \o SetToSeq(OptionalSecrets)

WranglerSpec(env) ==
  LET spec == FoldLeft(Classify, EmptySpec, WranglerEntries(env)) IN
  IF spec = Nowhere THEN Nowhere ELSE OmitEmptyCollections(spec)

-----------------------------------------------------------------------------
Resting == deploy.stage \in {"idle", "done", "failed"}

Edit(t) ==
  /\ Resting /\ source[t] < MaxEdits
  /\ source' = [source EXCEPT ![t] = @ + 1]
  /\ UNCHANGED <<settings, deploy, memo, bundle, live, file>>

(* The .env changes, or another machine deploys. *)
Configure(name) ==
  /\ Resting
  /\ settings' = IF name \in settings THEN settings \ {name} ELSE settings \cup {name}
  /\ UNCHANGED <<source, deploy, memo, bundle, live, file>>

StartDeploy ==
  /\ Resting
  /\ deploy' = [stage |-> "build", env |-> settings, source |-> source]
  /\ UNCHANGED <<source, settings, memo, bundle, live, file>>

Proceed(stage) == deploy' = [deploy EXCEPT !.stage = stage]

(* memo.include: what the build of the agent is said to depend on. *)
BuildInputs == source["agent"]

(* AGENT_BUILD: `vite build` bundles what the agent imports, the files     *)
(* package among it, unless the inputs are those of the last build.        *)
BuildAgent ==
  /\ deploy.stage = "build" /\ Proceed("agent")
  /\ IF memo = BuildInputs THEN UNCHANGED <<memo, bundle>>
     ELSE /\ memo' = BuildInputs
          /\ bundle' = [agent |-> source["agent"], files |-> source["files"]]
  /\ UNCHANGED <<source, settings, live, file>>

(* AGENT, its sandbox and the link between them. *)
DeployAgent ==
  /\ deploy.stage = "agent" /\ Proceed("api")
  /\ live' = [live EXCEPT !.agent = bundle]
  /\ UNCHANGED <<source, settings, memo, bundle, file>>

(* API: Config.redacted aborts the deploy when a variable is missing. *)
DeployApi ==
  /\ deploy.stage = "api" /\ Required \subseteq deploy.env
  /\ Proceed("file")
  /\ live' = [live EXCEPT !.api = NamesOf(ToSet(ApiEnv(deploy.env)))]
  /\ UNCHANGED <<source, settings, memo, bundle, file>>

(* Reconciling Local.WranglerJsoncFile, which never finds it up to date. *)
WriteWranglerJsonc ==
  /\ deploy.stage = "file" /\ WranglerSpec(deploy.env) # Nowhere
  /\ Proceed("done")
  /\ file' = WranglerSpec(deploy.env)
  /\ UNCHANGED <<source, settings, memo, bundle, live>>

(* A step fails: the build, Cloudflare, a missing variable, the file. *)
Abort ==
  /\ ~Resting /\ Proceed("failed")
  /\ UNCHANGED <<source, settings, memo, bundle, live, file>>

(* `alchemy destroy` deletes the generated file with the resources. *)
Destroy ==
  /\ deploy.stage \in {"done", "failed"} /\ Proceed("idle")
  /\ live' = [agent |-> Nowhere, api |-> Nowhere]
  /\ file' = Nowhere /\ memo' = Nowhere
  /\ UNCHANGED <<source, settings, bundle>>

DeployNext ==
  \/ \E t \in Tree : Edit(t)
  \/ \E name \in Required \cup NamesOf(OptionalSecrets) : Configure(name)
  \/ StartDeploy \/ BuildAgent \/ DeployAgent \/ DeployApi \/ WriteWranglerJsonc
  \/ Abort \/ Destroy

DeploySpec == DeployInit /\ [][DeployNext]_deployVars

-----------------------------------------------------------------------------
Declared(f) == DOMAIN f \ {"migrations"}
SecretsIn(f) == IF "secrets" \in DOMAIN f THEN ToSet(f["secrets"]) ELSE {}

(* The generated configuration names every binding the API may have, once, *)
(* whatever the environments of the deploys were and wherever they stopped *)
(* (wrangler.ts 290-291: "Wrangler rejects a duplicated name"; api.ts      *)
(* 35-38: "listing them keeps `Env` stable across machines"), and it names *)
(* as secrets exactly what is one.                                         *)
FileMirrorsApi ==
  file # Nowhere =>
    /\ \A s, t \in Declared(file) : \A i \in DOMAIN file[s], j \in DOMAIN file[t] :
         file[s][i] = file[t][j] => s = t /\ i = j
    /\ UNION {ToSet(file[s]) : s \in Declared(file)}
         = NamesOf(ToSet(ApiBindings)) \cup NamesOf(OptionalSecrets)
    /\ live.api # Nowhere =>
         live.api \subseteq UNION {ToSet(file[s]) : s \in Declared(file)}
    /\ SecretsIn(file) = Required \cup NamesOf(OptionalSecrets)

(* "Only these inputs change the bundle" (infra/workers/agent.ts 30-31):   *)
(* what a finished deploy published was built from the sources it started  *)
(* from.                                                                   *)
BundleIsCurrent ==
  deploy.stage = "done" =>
    live.agent = [agent |-> deploy.source["agent"], files |-> deploy.source["files"]]

=============================================================================
