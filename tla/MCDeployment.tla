---------------------------- MODULE MCDeployment ----------------------------
(* Deploys of an API with one secret and one social provider. *)
EXTENDS Deployment

MCApiBindings == <<[name |-> "AUTH_SECRET", kind |-> "secret"]>>
MCClientId == [p \in Provider |-> "GITHUB_CLIENT_ID"]
MCClientSecret == [p \in Provider |-> "GITHUB_CLIENT_SECRET"]

=============================================================================
