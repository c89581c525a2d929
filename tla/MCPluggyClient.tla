--------------------------- MODULE MCPluggyClient ---------------------------
(* One client with three calls on one cache entry: two that meet every     *)
(* answer, and a third that joins them while the provider is less varied.  *)
(* The calls are alike, so only one order of their starts is explored.     *)
EXTENDS PluggyClient, FiniteSets, TLC

CONSTANTS k1, c1, c2, c3

MCOneClient == [c \in Call |-> k1]

(* The 429 answers received so far. *)
MCThrottled ==
  {<<c, n>> \in Call \X (1 .. MaxThrottle + 1) :
     \/ n <= call[c].retry
     \/ n = call[c].retry + 1 /\ call[c].stage = "answered" /\ call[c].status = "throttled"}

MCCrowd ==
  /\ Cardinality(MCThrottled) <= 1
  /\ \A c \in Call : call[c].status \in {"ok", "throttled", "unauthorized"}

MCInOrder ==
  /\ call[c2].stage # "idle" => call[c1].stage # "idle"
  /\ call[c3].stage # "idle" => call[c2].stage # "idle" /\ MCCrowd

(* The third call need not be made. *)
MCTwoFinished ==
  /\ \A c \in {c1, c2} : call[c].stage = "done"
  /\ call[c3].stage = "idle"
  /\ UNCHANGED vars

MCNext == (Next /\ MCInOrder') \/ MCTwoFinished

MCSpec == Init /\ [][MCNext]_vars /\ Fairness

=============================================================================
