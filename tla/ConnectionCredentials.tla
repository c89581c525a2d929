------------------------ MODULE ConnectionCredentials ------------------------
(***************************************************************************)
(* The life of one provider connection: ConnectionsService                 *)
(* (apps/server/src/features/connections/service.ts) verifies credentials  *)
(* against Pluggy and stores them in a D1 row; FinanceService reads the    *)
(* row and calls Pluggy with it; both go through the API key that all      *)
(* requests of the connection share in KV (pluggy/tokenCache.ts).          *)
(*                                                                         *)
(* A request runs on its own isolate.  One step is one statement on D1,    *)
(* one KV operation or one round trip to Pluggy, so requests interleave    *)
(* between them and a KV operation may fail.  The provider's view (which   *)
(* credentials exist and which items each may read) does not change while  *)
(* the requests run.  PluggyClient.tla refines the token handling of one   *)
(* client; here a client is the token its request ended up with.           *)
(***************************************************************************)
EXTENDS Naturals

CONSTANTS
  Creators, Updaters, Readers, Deleters,  \* requests, by what they ask for
  ClientId, Secret, Item,
  Valid,          \* the <<clientId, clientSecret>> pairs Pluggy accepts
  Access,         \* the items each clientId may read
  CreateInput,    \* the bodies of a create request
  UpdateInput,    \* the bodies of an update request
  Absent,         \* an optional field left out of a body; no token
  Regimes         \* what may go wrong: a KV operation may throw; a provider
                  \* request or a write may fail for reasons of its own;
                  \* requests may overlap

Request == Creators \cup Updaters \cup Readers \cup Deleters
Credentials == ClientId \X Secret

ASSUME ProviderAssumption ==
  /\ Valid \subseteq Credentials
  /\ Access \in [ClientId -> SUBSET Item]

ASSUME InputAssumption ==
  /\ Absent \notin ClientId /\ Absent \notin Secret
  /\ \A items \in SUBSET Item : items # Absent
  /\ \A pair \in Credentials : pair # Absent
  /\ CreateInput \subseteq [clientId : ClientId, clientSecret : Secret, itemIds : SUBSET Item]
  /\ UpdateInput \subseteq [clientId : ClientId \cup {Absent},
                            clientSecret : Secret \cup {Absent},
                            itemIds : (SUBSET Item) \cup {Absent}]

ASSUME KindAssumption ==
  /\ Creators \cap (Updaters \cup Readers \cup Deleters) = {}
  /\ Updaters \cap (Readers \cup Deleters) = {}
  /\ Readers \cap Deleters = {}
  /\ \A a, b \in Creators : a = b  \* a second create makes another connection

ASSUME RegimeAssumption ==
  Regimes \subseteq [cacheMayFail : BOOLEAN, outageMayHappen : BOOLEAN, overlap : BOOLEAN]

VARIABLES
  row,         \* the row of `connections`, Absent before the insert
  cacheEntry,  \* the KV entry of [userId, connectionId]: whose token it holds
  request,     \* the local state of each request
  regime       \* which of the Regimes this behaviour is in, for good

vars == <<row, cacheEntry, request, regime>>

Step == {"idle", "evict", "lookup", "auth", "store", "check", "write", "done"}
Outcome == {"none", "ok", "notFound", "authFailed", "refused", "notWritten"}

Row == [state : {"stored", "deleted"}, credentials : Credentials,
        itemIds : SUBSET Item]
Local == [step : Step,
          input : UpdateInput \cup CreateInput \cup {Absent},
          credentials : Credentials \cup {Absent},
          itemIds : (SUBSET Item) \cup {Absent},
          token : Credentials \cup {Absent},
          outcome : Outcome]

(* No row is a row that is not there.                                      *)
ASSUME RowAssumption == Absent \notin Row

TypeOK ==
  /\ row \in Row \cup {Absent}
  /\ cacheEntry \in Credentials \cup {Absent}
  /\ request \in [Request -> Local]
  /\ regime \in Regimes

NewRequest == [step |-> "idle", input |-> Absent, credentials |-> Absent,
               itemIds |-> Absent, token |-> Absent, outcome |-> "none"]

Init ==
  /\ row = Absent
  /\ cacheEntry = Absent
  /\ request = [r \in Request |-> NewRequest]
  /\ regime \in Regimes

-----------------------------------------------------------------------------
Stored == row # Absent /\ row.state = "stored"
Deleted == row # Absent /\ row.state = "deleted"
Active(r) == request[r].step \notin {"idle", "done"}
Quiet == \A r \in Request : ~Active(r)

(* A variation with a mistake: a change of items alone is not verified.    *)
TouchesCredentials(input) == input.clientId # Absent \/ input.clientSecret # Absent

Provided(field, otherwise) == IF field = Absent THEN otherwise ELSE field

TouchesProvider(input) ==
  input.clientId # Absent \/ input.clientSecret # Absent \/ input.itemIds # Absent

Finish(r, outcome) ==
  request' = [request EXCEPT ![r].step = "done", ![r].outcome = outcome]

Goto(r, step) == request' = [request EXCEPT ![r].step = step]

MayBegin(r) ==
  /\ request[r].step = "idle"
  /\ regime.overlap \/ Quiet

(* createConnection: verify with no cache scope, so straight to POST /auth. *)
BeginCreate(r) ==
  /\ MayBegin(r)
  /\ row = Absent
  /\ \E input \in CreateInput :
       request' = [request EXCEPT ![r] =
         [@ EXCEPT !.step = "auth", !.input = input,
                   !.credentials = <<input.clientId, input.clientSecret>>,
                   !.itemIds = input.itemIds]]
  /\ UNCHANGED <<row, cacheEntry, regime>>

(* updateConnection: requiredConnection, then what the body leaves out is  *)
(* taken from the row just read.  A rename skips the provider.             *)
BeginUpdate(r) ==
  /\ MayBegin(r)
  /\ \/ /\ ~Stored
        /\ Finish(r, "notFound")
     \/ /\ Stored
        /\ \E input \in UpdateInput :
             request' = [request EXCEPT ![r] =
               [@ EXCEPT
                 !.step = IF TouchesProvider(input) THEN "evict" ELSE "write",
                 !.input = input,
                 !.credentials = <<Provided(input.clientId, row.credentials[1]),
                                   Provided(input.clientSecret, row.credentials[2])>>,
                 !.itemIds = Provided(input.itemIds, row.itemIds)]]
  /\ UNCHANGED <<row, cacheEntry, regime>>

(* A finance read: the rows of the scope, then a client for each of them.  *)
(* Readers ask again and again, each time from a new request.              *)
BeginRead(r) ==
  /\ ~Active(r)
  /\ regime.overlap \/ Quiet
  /\ \/ /\ ~Stored
        /\ request' = [request EXCEPT ![r] =
             [NewRequest EXCEPT !.step = "done", !.outcome = "notFound"]]
     \/ /\ Stored
        /\ request' = [request EXCEPT ![r] =
             [NewRequest EXCEPT !.step = "lookup", !.credentials = row.credentials,
                                !.itemIds = row.itemIds]]
  /\ UNCHANGED <<row, cacheEntry, regime>>

(* deleteConnection: the row first, the token afterwards. *)
BeginDelete(r) ==
  /\ MayBegin(r)
  /\ \/ /\ ~Stored
        /\ Finish(r, "notFound")
        /\ UNCHANGED row
     \/ /\ Stored
        /\ row' = [row EXCEPT !.state = "deleted"]
        /\ Goto(r, "evict")
  /\ UNCHANGED <<cacheEntry, regime>>

(* A variation that leaves the entry alone. *)
EvictNothing(r) ==
  /\ request[r].step = "evict"
  /\ IF r \in Deleters THEN Finish(r, "ok") ELSE Goto(r, "lookup")
  /\ UNCHANGED <<row, cacheEntry, regime>>

(* evictToken: a cache failure is swallowed. *)
EvictToken(r) ==
  /\ request[r].step = "evict"
  /\ \/ cacheEntry' = Absent
     \/ regime.cacheMayFail /\ UNCHANGED cacheEntry
  /\ IF r \in Deleters THEN Finish(r, "ok") ELSE Goto(r, "lookup")
  /\ UNCHANGED <<row, regime>>

(* A variation that renews the entry each time it serves. *)
RenewingLookup(r) ==
  /\ request[r].step = "lookup"
  /\ \/ /\ cacheEntry # Absent
        /\ request' = [request EXCEPT ![r].step = "store", ![r].token = cacheEntry]
     \/ /\ cacheEntry = Absent \/ regime.cacheMayFail
        /\ Goto(r, "auth")
  /\ UNCHANGED <<row, cacheEntry, regime>>

(* PluggyClient.resolveKey(false): the shared entry first ... *)
Lookup(r) ==
  /\ request[r].step = "lookup"
  /\ \/ /\ cacheEntry # Absent
        /\ request' = [request EXCEPT ![r].step = "check", ![r].token = cacheEntry]
     \/ /\ cacheEntry = Absent \/ regime.cacheMayFail
        /\ Goto(r, "auth")
  /\ UNCHANGED <<row, cacheEntry, regime>>

(* ... then POST /auth with the credentials of the request. *)
Authenticate(r) ==
  /\ request[r].step = "auth"
  /\ \/ /\ request[r].credentials \in Valid
        /\ request' = [request EXCEPT
             ![r].step = IF r \in Creators THEN "check" ELSE "store",
             ![r].token = request[r].credentials]
     \/ /\ request[r].credentials \notin Valid \/ regime.outageMayHappen
        /\ Finish(r, "authFailed")
  /\ UNCHANGED <<row, cacheEntry, regime>>

StoreToken(r) ==
  /\ request[r].step = "store"
  /\ \/ cacheEntry' = request[r].token
     \/ regime.cacheMayFail /\ UNCHANGED cacheEntry
  /\ Goto(r, "check")
  /\ UNCHANGED <<row, regime>>

(* verify(itemIds), or the reads of a finance request: every item is asked *)
(* of Pluggy with the token at hand, and one refusal fails the whole.      *)
CheckItems(r) ==
  /\ request[r].step = "check"
  /\ \/ /\ request[r].itemIds \subseteq Access[request[r].token[1]]
        /\ IF r \in Readers THEN Finish(r, "ok") ELSE Goto(r, "write")
     \/ /\ ~(request[r].itemIds \subseteq Access[request[r].token[1]]) \/ regime.outageMayHappen
        /\ Finish(r, "refused")
  /\ UNCHANGED <<row, cacheEntry, regime>>

InsertRow(r) ==
  /\ r \in Creators
  /\ request[r].step = "write"
  /\ row' = [state |-> "stored", credentials |-> request[r].credentials,
             itemIds |-> request[r].itemIds]
  /\ Finish(r, "ok")
  /\ UNCHANGED <<cacheEntry, regime>>

(* A variation that inserts the row when it is not there any more. *)
UpsertRow(r) ==
  /\ r \in Updaters
  /\ request[r].step = "write"
  /\ row' = [state |-> "stored", credentials |-> request[r].credentials,
             itemIds |-> request[r].itemIds]
  /\ Finish(r, "ok")
  /\ UNCHANGED <<cacheEntry, regime>>

(* UPDATE ... WHERE id AND userId: the fields of the body, and always the  *)
(* itemIds, which a body without them took from the row read at the start. *)
UpdateRow(r) ==
  /\ r \in Updaters
  /\ request[r].step = "write"
  /\ \/ /\ Stored
        /\ row' = [row EXCEPT
             !.credentials = <<Provided(request[r].input.clientId, @[1]),
                               Provided(request[r].input.clientSecret, @[2])>>,
             !.itemIds = request[r].itemIds]
        /\ Finish(r, "ok")
     \/ /\ ~Stored
        /\ Finish(r, "notFound")
        /\ UNCHANGED row
  /\ UNCHANGED <<cacheEntry, regime>>

(* The statement fails: another connection of the user has the new name    *)
(* (unique index connections_user_name_uidx), or D1 does not answer.       *)
WriteFails(r) ==
  /\ regime.outageMayHappen
  /\ request[r].step = "write"
  /\ Finish(r, "notWritten")
  /\ UNCHANGED <<row, cacheEntry, regime>>

(* expirationTtl of the KV entry. *)
ExpireEntry ==
  /\ cacheEntry # Absent
  /\ cacheEntry' = Absent
  /\ UNCHANGED <<row, request, regime>>

RequestStep(r) ==
  \/ EvictToken(r) \/ Lookup(r) \/ Authenticate(r) \/ StoreToken(r)
  \/ CheckItems(r) \/ InsertRow(r) \/ UpdateRow(r) \/ WriteFails(r)

Next ==
  \/ \E r \in Creators : BeginCreate(r)
  \/ \E r \in Updaters : BeginUpdate(r)
  \/ \E r \in Readers : BeginRead(r)
  \/ \E r \in Deleters : BeginDelete(r)
  \/ \E r \in Request : RequestStep(r)
  \/ ExpireEntry

Fairness == WF_vars(ExpireEntry) /\ \A r \in Request : WF_vars(RequestStep(r))

Spec == Init /\ [][Next]_vars /\ Fairness

-----------------------------------------------------------------------------
(* Properties                                                              *)

Works(credentials, itemIds) ==
  credentials \in Valid /\ itemIds \subseteq Access[credentials[1]]

(* "Credentials are verified against Pluggy before they are stored, so a   *)
(* connection that exists is a connection that works" (service.ts:34-35):  *)
(* the claim as it stands.                                                 *)
StoredConnectionWorks == Stored => Works(row.credentials, row.itemIds)

(* It is true while requests do not overlap and KV does not fail.          *)
Calm == ~regime.overlap /\ ~regime.cacheMayFail

StoredWorksWhenCalm == Calm => StoredConnectionWorks

(* An update that failed after it got a token leaves that token behind.    *)
LeftToken(r) == request[r].outcome \in {"refused", "notWritten"}

TokenMatches == cacheEntry = Absent \/ (Stored /\ cacheEntry = row.credentials)

(* Otherwise the shared entry holds, between requests, a token of the      *)
(* stored credentials or nothing, and nothing once the connection is       *)
(* deleted (service.ts:93-104, 121-126).                                   *)
QuietCacheServesRow ==
  Calm /\ Quiet /\ row # Absent /\ ~(\E r \in Updaters : LeftToken(r)) =>
    TokenMatches

(* An update still in flight when its connection is deleted does not bring *)
(* it back (service.ts:105-117, a row-less UPDATE answers not found).      *)
DeletedStaysDeleted == [][Deleted => row' = row]_vars

(* A reader is misled while it is at work with a token of other            *)
(* credentials than the ones it read from the row.                         *)
Misled(r) == Active(r) /\ request[r].token \notin {Absent, request[r].credentials}

(* Whichever races and failures left a foreign token in the entry, reads   *)
(* that go on for ever are not misled for ever: once the last change is    *)
(* over the TTL takes it out (tokenCache.ts:61-89), and no read that was   *)
(* served it, or that read the row before the change, keeps it alive       *)
(* (client.ts:334-356).                                                    *)
MisledReadsCease == <>[](\A r \in Readers : ~Misled(r))

(* "a connection that exists is a connection that works" (service.ts:35),  *)
(* seen by a reader: a read fails only if what its row says does not work. *)
WorkingConnectionReads ==
  \A r \in Readers : request[r].outcome = "refused" =>
    ~Works(request[r].credentials, request[r].itemIds)

=============================================================================
