------------------------------- MODULE TokenTtl -------------------------------
(***************************************************************************)
(* How long a Pluggy API key stays in the shared cache                     *)
(* (apps/server/src/features/finance/pluggy/tokenCache.ts) against how     *)
(* long the provider accepts it: one connection's entry, the token that is *)
(* on its way into it and a request that took a token out of it.           *)
(*                                                                         *)
(* PluggyClient assumes of this module that a token does not die while the *)
(* requests that use it are in flight (FreshTokensOutliveRequests).        *)
(***************************************************************************)
EXTENDS Integers

CONSTANTS
  ExpirySkew,      \* EXPIRY_SKEW_SECONDS, 300
  MinTtl,          \* MIN_TTL_SECONDS, 60, the least that KV accepts
  MaxTtl,          \* MAX_TTL_SECONDS, 7200
  FallbackTtl,     \* FALLBACK_TTL_SECONDS, 5400
  Lifetime,        \* how long the provider accepts tokens whose `exp` is readable
  OpaqueLifetime,  \* how long it accepts tokens without a readable `exp`
  StoreDelay,      \* the most that passes between minting a token and caching it
  Horizon,         \* bound: the clock stops there
  Nil             \* no token

ASSUME TtlAssumption ==
  /\ {ExpirySkew, MinTtl, MaxTtl, FallbackTtl, StoreDelay, Horizon} \subseteq Nat
  /\ 0 < MinTtl /\ MinTtl <= MaxTtl

(* What the constants of the code take for granted of the provider: tokens *)
(* of less than six minutes would be cached past their skew (MIN_TTL), and *)
(* opaque ones of less than 95 minutes as well (FALLBACK_TTL).             *)
ASSUME LifetimeAssumption ==
  /\ Lifetime \subseteq Nat /\ OpaqueLifetime \subseteq Nat
  /\ \A l \in Lifetime : l >= StoreDelay + ExpirySkew + MinTtl
  /\ \A l \in OpaqueLifetime : l >= StoreDelay + ExpirySkew + FallbackTtl

ASSUME NilAssumption == Nil \notin [exp : Nat, since : Nat]
                      /\ Nil \notin [exp : Nat, until : Nat]
                      /\ Nil \notin [exp : Nat, opaque : BOOLEAN, since : Nat]

VARIABLES
  now,      \* the clock, in the unit of the constants
  pending,  \* the token POST /auth answered, before cache.set
  entry,    \* the KV entry: the token's expiry and the entry's own
  inFlight  \* a request that took its token from the entry

ttlVars == <<now, pending, entry, inFlight>>

Minted == [exp : Nat, opaque : BOOLEAN, since : Nat]
StoredToken == [exp : Nat, until : Nat]
TakenToken == [exp : Nat, since : Nat]

TtlTypeOK ==
  /\ now \in Nat
  /\ pending \in Minted \cup {Nil}
  /\ entry \in StoredToken \cup {Nil}
  /\ inFlight \in TakenToken \cup {Nil}

TtlInit ==
  /\ now = 0
  /\ pending = Nil
  /\ entry = Nil
  /\ inFlight = Nil

Clamp(lo, x, hi) == IF x < lo THEN (IF hi < lo THEN hi ELSE lo) ELSE IF x > hi THEN hi ELSE x

(* A variation that forgets the skew. *)
TtlWithoutSkew(exp, opaque, at) ==
  IF opaque THEN FallbackTtl ELSE Clamp(MinTtl, exp - at, MaxTtl)

(* tokenTtlSeconds *)
TokenTtlSeconds(exp, opaque, at) ==
  IF opaque THEN FallbackTtl ELSE Clamp(MinTtl, exp - at - ExpirySkew, MaxTtl)

(* POST /auth *)
Mint ==
  /\ pending = Nil
  /\ \E opaque \in BOOLEAN : \E l \in IF opaque THEN OpaqueLifetime ELSE Lifetime :
       pending' = [exp |-> now + l, opaque |-> opaque, since |-> now]
  /\ UNCHANGED <<now, entry, inFlight>>

(* cache.set(key, token, tokenTtlSeconds(token)) *)
Store ==
  /\ pending # Nil
  /\ entry' = [exp |-> pending.exp,
               until |-> now + TokenTtlSeconds(pending.exp, pending.opaque, now)]
  /\ pending' = Nil
  /\ UNCHANGED <<now, inFlight>>

(* cache.set fails. *)
StoreFails ==
  /\ pending # Nil
  /\ pending' = Nil
  /\ UNCHANGED <<now, entry, inFlight>>

(* cache.delete *)
Evict ==
  /\ entry # Nil
  /\ entry' = Nil
  /\ UNCHANGED <<now, pending, inFlight>>

(* cache.get by a request that has none in flight *)
Take ==
  /\ entry # Nil
  /\ inFlight = Nil
  /\ inFlight' = [exp |-> entry.exp, since |-> now]
  /\ UNCHANGED <<now, pending, entry>>

Answer ==
  /\ inFlight # Nil
  /\ inFlight' = Nil
  /\ UNCHANGED <<now, pending, entry>>

(* Time passes; KV drops an entry when its expirationTtl has passed. *)
Tick ==
  /\ now < Horizon
  /\ pending # Nil => now < pending.since + StoreDelay
  /\ now' = now + 1
  /\ entry' = IF entry # Nil /\ entry.until <= now + 1 THEN Nil ELSE entry
  /\ UNCHANGED <<pending, inFlight>>

TtlNext == Mint \/ Store \/ StoreFails \/ Evict \/ Take \/ Answer \/ Tick

TtlSpec == TtlInit /\ [][TtlNext]_ttlVars

-----------------------------------------------------------------------------

(* A request that takes its token from the cache, at the last moment the   *)
(* entry is there, has EXPIRY_SKEW_SECONDS before the provider stops       *)
(* accepting it: "Renew before the provider actually expires the token so  *)
(* in-flight requests never race it" (tokenCache.ts:18).                   *)
InFlightNeverRaces ==
  inFlight # Nil /\ now <= inFlight.since + ExpirySkew => now <= inFlight.exp

=============================================================================
