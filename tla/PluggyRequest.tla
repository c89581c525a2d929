---------------------------- MODULE PluggyRequest ----------------------------
(***************************************************************************)
(* What PluggyClient promises the features above it about each provider    *)
(* call, with no word of caches, isolates or shared promises: a call       *)
(* presents a key, is refused at most once before it presents another one, *)
(* is throttled a bounded number of times, and ends once.  Several calls   *)
(* may move in one step, each of them by an action of its own.             *)
(***************************************************************************)
EXTENDS Naturals

CONSTANTS Call, MaxThrottle

VARIABLE request

NoKey == 0

Init == request = [c \in Call |->
          [state |-> "idle", key |-> NoKey, refused |-> NoKey, backoffs |-> 0]]

Becomes(c, state, key, refused, backoffs) ==
  request'[c] = [state |-> state, key |-> key, refused |-> refused, backoffs |-> backoffs]

Ask(c) ==
  LET r == request[c] IN
  /\ r.state = "idle"
  /\ Becomes(c, "waiting", r.key, r.refused, r.backoffs)

(* The key after a refusal is another one, unless a 429 came in between. *)
Present(c) ==
  LET r == request[c]
      key == request'[c].key
  IN
  /\ r.state \in {"idle", "waiting"}
  /\ key \in Nat \ {NoKey}
  /\ r.backoffs = 0 => key # r.refused
  /\ Becomes(c, "sent", key, r.refused, r.backoffs)

Refuse(c) ==
  LET r == request[c] IN
  /\ r.state = "sent"
  /\ r.refused = NoKey
  /\ r.backoffs = 0
  /\ Becomes(c, "waiting", r.key, r.key, r.backoffs)

Backoff(c) ==
  LET r == request[c] IN
  /\ r.state = "sent"
  /\ r.backoffs < MaxThrottle
  /\ Becomes(c, "waiting", r.key, r.refused, r.backoffs + 1)

End(c) ==
  LET r == request[c] IN
  /\ r.state \in {"waiting", "sent"}
  /\ Becomes(c, "ended", r.key, r.refused, r.backoffs)

Step(c) == Ask(c) \/ Present(c) \/ Refuse(c) \/ Backoff(c) \/ End(c)

Safety == Init /\ [][\A c \in Call : [Step(c)]_(request[c])]_request

(* Every call that was issued ends. *)
Spec ==
  /\ Safety
  /\ \A c \in Call : request[c].state # "idle" ~> request[c].state = "ended"

=============================================================================
