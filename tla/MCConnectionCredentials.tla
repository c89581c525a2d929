----------------------- MODULE MCConnectionCredentials -----------------------
(* Two provider clients: `a` reads both items, `b` only the first.  Each has *)
(* one secret Pluggy accepts, and `a` a second one, as during a rotation.    *)
EXTENDS ConnectionCredentials, TLC

CONSTANTS a, b, s, t, i, j, create, update1, update2, read, delete

MCValid == {<<a, s>>, <<a, t>>, <<b, t>>}
MCAccess == (a :> {i, j}) @@ (b :> {i})

Body(id, secret, items) == [clientId |-> id, clientSecret |-> secret, itemIds |-> items]

MCCreateInput == {Body(a, s, {i}), Body(b, s, {i}), Body(b, t, {j})}

Rename == Body(Absent, Absent, Absent)
MCUpdateInput ==
  {Rename,
   Body(b, t, Absent),        \* rotate to another provider client
   Body(b, Absent, Absent),   \* half a rotation
   Body(Absent, t, Absent),   \* the other half: a new secret
   Body(Absent, Absent, {j})} \* other items

Regime(cacheFails, outages, overlap) ==
  [cacheMayFail |-> cacheFails, outageMayHappen |-> outages, overlap |-> overlap]

MCRegimes == {Regime(FALSE, TRUE, FALSE), Regime(TRUE, TRUE, TRUE)}
MCOverlapOnly == {Regime(FALSE, FALSE, TRUE)}
MCNothingFails == {Regime(FALSE, FALSE, FALSE)}

MCCreateWorking == {Body(a, s, {j})}

=============================================================================
