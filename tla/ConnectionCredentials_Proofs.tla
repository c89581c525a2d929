--------------------- MODULE ConnectionCredentials_Proofs ---------------------
(***************************************************************************)
(* ConnectionCredentials for any requests, bodies, credentials and items.  *)
(* A deleted connection stays deleted whatever overlaps and fails; while   *)
(* requests do not overlap and KV does not fail, a stored connection works *)
(* and its cached token is its own.                                        *)
(***************************************************************************)
EXTENDS ConnectionCredentials, TLAPS

(* Which steps a request takes, and what it carries on its way.            *)
StepsOf(r) ==
  /\ r \in Creators => request[r].step \notin {"evict", "lookup", "store"}
  /\ r \in Readers => request[r].step \notin {"evict", "write"}
  /\ r \in Deleters => request[r].step \in {"idle", "evict", "done"}

Carried(r) ==
  /\ r \notin Deleters /\ Active(r) =>
       request[r].credentials \in Credentials /\ request[r].itemIds \in SUBSET Item
  /\ r \in Updaters /\ Active(r) => request[r].input \in UpdateInput
  /\ request[r].step \in {"store", "check"} => request[r].token \in Credentials
  /\ request[r].step # "done" => request[r].outcome = "none"

(* The one creator is at work before there is a row.                       *)
NoRowYet == \A r \in Creators : Active(r) => row = Absent

GeneralInv == TypeOK /\ (\A r \in Request : StepsOf(r) /\ Carried(r)) /\ NoRowYet

(* While nothing overlaps, what a request read is what there is ...        *)
OneAtATime == \A r, s \in Request : Active(r) /\ Active(s) => r = s

(* ... so what an update will write is what it verified.                   *)
Verified(r) == request[r].credentials \in Valid /\ request[r].token = request[r].credentials

UpdateKept(r) ==
  /\ Stored
  /\ request[r].credentials = <<Provided(request[r].input.clientId, row.credentials[1]),
                                Provided(request[r].input.clientSecret, row.credentials[2])>>
  /\ request[r].step \in {"lookup", "auth", "store"} => cacheEntry = Absent
  /\ request[r].step \in {"store", "check"} => Verified(r)
  /\ request[r].step = "check" => cacheEntry \in {Absent, request[r].credentials}
  /\ request[r].step = "write" => Works(request[r].credentials, request[r].itemIds)

CreateKept(r) ==
  /\ request[r].step = "check" => Verified(r)
  /\ request[r].step = "write" => Works(request[r].credentials, request[r].itemIds)

ReadKept(r) == Stored /\ request[r].credentials = row.credentials

CalmInv ==
  Calm =>
    /\ OneAtATime
    /\ \A r \in Updaters : Active(r) => UpdateKept(r)
    /\ \A r \in Creators : Active(r) => CreateKept(r)
    /\ \A r \in Readers : Active(r) => ReadKept(r)
    /\ \A r \in Deleters : Active(r) => Deleted
    /\ StoredConnectionWorks

(* The entry is the row's, but for an update that is about to write.       *)
Ahead(r) == request[r].step \in {"check", "write"}

CacheInv ==
  Calm /\ ~(\E r \in Updaters : LeftToken(r)) =>
    /\ \A r \in Updaters : Ahead(r) => cacheEntry \in {Absent, request[r].credentials}
    /\ \A r \in Readers :
         request[r].step \in {"store", "check"} => request[r].token = request[r].credentials
    /\ (\A r \in Updaters : ~Ahead(r)) /\ (\A r \in Deleters : ~Active(r)) => TokenMatches

IInv == GeneralInv /\ CalmInv /\ CacheInv

-----------------------------------------------------------------------------
LEMMA InitInv == Init => IInv
BY DEF Init, Request, IInv, GeneralInv, TypeOK, StepsOf, Carried, NoRowYet, CalmInv, CacheInv,
   OneAtATime, StoredConnectionWorks, Active, Stored, TokenMatches, NewRequest, Local, Step,
   Outcome

(* What a stored row holds, and what a body makes of it.                   *)
LEMMA StoredRow ==
  ASSUME TypeOK, Stored
  PROVE  /\ row \in Row /\ row.credentials \in Credentials /\ row.itemIds \in SUBSET Item
         /\ row.credentials[1] \in ClientId /\ row.credentials[2] \in Secret
         /\ row.credentials = <<row.credentials[1], row.credentials[2]>>
<1>1. row \in Row
  BY DEF TypeOK, Stored
<1>2. row.credentials \in ClientId \X Secret /\ row.itemIds \in SUBSET Item
  BY <1>1 DEF Row, Credentials
<1> QED BY <1>1, <1>2 DEF Credentials

LEMMA MergedBody ==
  ASSUME TypeOK, Stored, NEW input \in UpdateInput
  PROVE  /\ <<Provided(input.clientId, row.credentials[1]),
              Provided(input.clientSecret, row.credentials[2])>> \in Credentials
         /\ Provided(input.itemIds, row.itemIds) \in SUBSET Item
         /\ ~TouchesProvider(input) =>
              /\ <<Provided(input.clientId, row.credentials[1]),
                   Provided(input.clientSecret, row.credentials[2])>> = row.credentials
              /\ Provided(input.itemIds, row.itemIds) = row.itemIds
BY StoredRow, InputAssumption DEF Provided, Credentials, TouchesProvider

LEMMA BeginCreateStep == ASSUME IInv, NEW r \in Creators, BeginCreate(r) PROVE IInv'
<1> USE DEF BeginCreate, MayBegin, Finish, Goto, IInv, GeneralInv, Request
<1>1. TypeOK'
  <2>1. PICK input \in CreateInput :
          request' = [request EXCEPT ![r] =
            [@ EXCEPT !.step = "auth", !.input = input,
                      !.credentials = <<input.clientId, input.clientSecret>>,
                      !.itemIds = input.itemIds]]
    OBVIOUS
  <2>2. <<input.clientId, input.clientSecret>> \in Credentials /\ input.itemIds \in SUBSET Item
    BY InputAssumption DEF Credentials
  <2>3. request'[r] \in Local
    BY <2>1, <2>2 DEF TypeOK, Local, Step
  <2> QED BY <2>3 DEF TypeOK
<1>2. \A q \in Request : StepsOf(q)'
  BY KindAssumption DEF StepsOf
<1>3. \A q \in Request : Carried(q)'
  BY InputAssumption, KindAssumption DEF Carried, Active, Credentials
<1>4. NoRowYet'
  BY DEF NoRowYet
<1>5. CalmInv'
  <2> SUFFICES ASSUME Calm' PROVE CalmInv'
    BY DEF CalmInv
  <2>1. Calm
    BY DEF Calm
  <2>2. OneAtATime'
    BY DEF OneAtATime, Calm, Active, Quiet
  <2>3. \A q \in Updaters : Active(q)' => UpdateKept(q)'
    BY KindAssumption DEF Calm, Active, Quiet
  <2>4. \A q \in Creators : Active(q)' => CreateKept(q)'
    BY KindAssumption DEF CreateKept
  <2>5. \A q \in Readers : Active(q)' => ReadKept(q)'
    BY KindAssumption DEF Calm, Active, Quiet
  <2>6. \A q \in Deleters : Active(q)' => Deleted'
    BY KindAssumption DEF Calm, Active, Quiet
  <2>7. StoredConnectionWorks'
    BY DEF StoredConnectionWorks, Stored
  <2> QED BY <2>2, <2>3, <2>4, <2>5, <2>6, <2>7 DEF CalmInv
<1>6. CacheInv'
  <2> SUFFICES ASSUME Calm', ~(\E q \in Updaters : LeftToken(q))' PROVE CacheInv'
    BY DEF CacheInv
  <2>1. Calm /\ ~(\E q \in Updaters : LeftToken(q))
    BY DEF Calm, LeftToken
  <2>2. \A q \in Updaters : Ahead(q)' => cacheEntry' \in {Absent, request'[q].credentials}
    BY DEF Calm, Active, Quiet, Ahead
  <2>3. \A q \in Readers :
         request'[q].step \in {"store", "check"} => request'[q].token = request'[q].credentials
    BY DEF Calm, Active, Quiet
  <2>4. (\A q \in Updaters : ~Ahead(q)') /\ (\A q \in Deleters : ~Active(q)') => TokenMatches'
    BY <2>1 DEF CacheInv, Active, Ahead, TokenMatches, Stored
  <2> QED BY <2>2, <2>3, <2>4 DEF CacheInv
<1> QED BY <1>1, <1>2, <1>3, <1>4, <1>5, <1>6

(* A request that finds its connection, or does not, and keeps what it     *)
(* read of the row.                                                        *)
Found(r, l) ==
  /\ Stored /\ l.outcome = "none"
  /\ l.credentials \in Credentials /\ l.itemIds \in SUBSET Item
  /\ \/ /\ r \in Readers
        /\ l.step = "lookup"
        /\ l.credentials = row.credentials
     \/ /\ r \in Updaters
        /\ l.input \in UpdateInput
        /\ l.credentials = <<Provided(l.input.clientId, row.credentials[1]),
                             Provided(l.input.clientSecret, row.credentials[2])>>
        /\ \/ l.step = "evict"
           \/ l.step = "write" /\ l.credentials = row.credentials /\ l.itemIds = row.itemIds

LEMMA Began ==
  ASSUME IInv, NEW r \in Request, ~Active(r), request[r].step = "idle" \/ r \in Readers,
         regime.overlap \/ Quiet,
         UNCHANGED <<row, cacheEntry, regime>>,
         NEW l \in Local, request' = [request EXCEPT ![r] = l],
         Found(r, l) \/ (l.step = "done" /\ l.outcome = "notFound")
  PROVE  IInv'
<1> USE DEF IInv, GeneralInv, Found
<1>0. /\ \A q \in Request : q # r => request'[q] = request[q]
      /\ request'[r] = l
      /\ TypeOK'
  BY DEF TypeOK
<1>2. \A q \in Request : StepsOf(q)'
  BY KindAssumption DEF StepsOf
<1>3. \A q \in Request : Carried(q)'
  BY KindAssumption DEF Carried, Active
<1>4. NoRowYet'
  BY KindAssumption DEF NoRowYet, Active
<1>5. CalmInv'
  <2> SUFFICES ASSUME Calm' PROVE CalmInv'
    BY DEF CalmInv
  <2>1. Calm
    BY DEF Calm
  <2>2. OneAtATime'
    BY DEF OneAtATime, Calm, Active, Quiet
  <2>3. \A q \in Updaters : Active(q)' => UpdateKept(q)'
    <3> SUFFICES ASSUME NEW q \in Updaters, Active(q)' PROVE UpdateKept(q)'
      OBVIOUS
    <3>1. q = r /\ request'[r] = l /\ l.step # "done"
      BY DEF Calm, Quiet, Active, Request
    <3>2. l.step \in {"evict", "write"} /\ Found(r, l)
      BY <3>1, KindAssumption
    <3>3. Works(row.credentials, row.itemIds)
      BY <2>1, <3>2 DEF CalmInv, StoredConnectionWorks
    <3> QED BY <3>1, <3>3, KindAssumption DEF UpdateKept, Stored
  <2>4. \A q \in Creators : Active(q)' => CreateKept(q)'
    BY <2>1, KindAssumption DEF CalmInv, Active, CreateKept, Verified
  <2>5. \A q \in Readers : Active(q)' => ReadKept(q)'
    BY <2>1, KindAssumption DEF CalmInv, Active, ReadKept, Stored
  <2>6. \A q \in Deleters : Active(q)' => Deleted'
    BY <2>1, KindAssumption DEF CalmInv, Active, Deleted
  <2>7. StoredConnectionWorks'
    BY <2>1 DEF CalmInv, StoredConnectionWorks, Stored
  <2> QED BY <2>2, <2>3, <2>4, <2>5, <2>6, <2>7 DEF CalmInv
<1>6. CacheInv'
  <2> SUFFICES ASSUME Calm', ~(\E q \in Updaters : LeftToken(q))' PROVE CacheInv'
    BY DEF CacheInv
  <2>1. Calm /\ ~(\E q \in Updaters : LeftToken(q))
    BY KindAssumption DEF Calm, LeftToken, Carried
  <2>2. \A q \in Updaters : Ahead(q)' => cacheEntry' \in {Absent, request'[q].credentials}
    <3> SUFFICES ASSUME NEW q \in Updaters, Ahead(q)'
                 PROVE  cacheEntry' \in {Absent, request'[q].credentials}
      OBVIOUS
    <3>1. q = r /\ request'[r] = l /\ l.step \in {"check", "write"} /\ Quiet
      BY DEF Calm, Quiet, Active, Ahead, Request
    <3>2. l.credentials = row.credentials /\ Stored
      BY <3>1
    <3>3. TokenMatches
      BY <2>1, <3>1 DEF CacheInv, Quiet, Active, Ahead, Request
    <3> QED BY <3>1, <3>3 DEF TokenMatches
  <2>3. \A q \in Readers :
         request'[q].step \in {"store", "check"} => request'[q].token = request'[q].credentials
    BY <2>1 DEF CacheInv
  <2>4. (\A q \in Updaters : ~Ahead(q)') /\ (\A q \in Deleters : ~Active(q)') => TokenMatches'
    BY <2>1 DEF CacheInv, Active, Ahead, TokenMatches, Stored
  <2> QED BY <2>2, <2>3, <2>4 DEF CacheInv
<1> QED BY <1>0, <1>2, <1>3, <1>4, <1>5, <1>6

LEMMA BeginReadStep == ASSUME IInv, NEW r \in Readers, BeginRead(r) PROVE IInv'
<1> USE DEF IInv, GeneralInv, Request
<1>1. /\ ~Active(r) /\ (regime.overlap \/ Quiet)
      /\ UNCHANGED <<row, cacheEntry, regime>>
  BY DEF BeginRead
<1> DEFINE new == NewRequest
<1>0. new \in Local /\ new.outcome = "none"
  BY DEF NewRequest, Local, Step, Outcome
<1>2. CASE ~Stored
  <2> DEFINE l == [new EXCEPT !.step = "done", !.outcome = "notFound"]
  <2>1. request' = [request EXCEPT ![r] = l]
    BY <1>2 DEF BeginRead
  <2>2. l \in Local /\ l.step = "done" /\ l.outcome = "notFound"
    BY <1>0 DEF Local, Step, Outcome
  <2> HIDE DEF l, new
  <2> QED BY <1>1, <2>1, <2>2, Began
<1>3. CASE Stored
  <2> DEFINE l == [new EXCEPT !.step = "lookup", !.credentials = row.credentials,
                               !.itemIds = row.itemIds]
  <2>1. request' = [request EXCEPT ![r] = l]
    BY <1>3 DEF BeginRead
  <2>2. l \in Local /\ l.step = "lookup" /\ l.credentials = row.credentials
        /\ l.itemIds = row.itemIds /\ l.outcome = "none"
    BY <1>0, <1>3, StoredRow DEF Local, Step
  <2>3. Found(r, l)
    BY <1>3, <2>2, StoredRow DEF Found
  <2> HIDE DEF l, new
  <2> QED BY <1>1, <2>1, <2>2, <2>3, Began
<1> QED BY <1>2, <1>3

LEMMA BeginUpdateStep == ASSUME IInv, NEW r \in Updaters, BeginUpdate(r) PROVE IInv'
<1> USE DEF IInv, GeneralInv, Request
<1>1. /\ request[r].step = "idle" /\ ~Active(r) /\ (regime.overlap \/ Quiet) /\ request[r] \in Local
      /\ UNCHANGED <<row, cacheEntry, regime>>
  BY DEF BeginUpdate, MayBegin, Active, TypeOK
<1>2. CASE ~Stored
  <2> DEFINE l == [request[r] EXCEPT !.step = "done", !.outcome = "notFound"]
  <2>1. request' = [request EXCEPT ![r] = l]
    BY <1>2 DEF BeginUpdate, Finish, TypeOK
  <2>2. l \in Local /\ l.step = "done" /\ l.outcome = "notFound"
    BY <1>1 DEF Local, Step, Outcome
  <2> HIDE DEF l
  <2> QED BY <1>1, <2>1, <2>2, Began
<1>3. CASE Stored
  <2>1. PICK input \in UpdateInput : request' = [request EXCEPT ![r] =
               [@ EXCEPT
                 !.step = IF TouchesProvider(input) THEN "evict" ELSE "write",
                 !.input = input,
                 !.credentials = <<Provided(input.clientId, row.credentials[1]),
                                   Provided(input.clientSecret, row.credentials[2])>>,
                 !.itemIds = Provided(input.itemIds, row.itemIds)]]
    BY <1>3 DEF BeginUpdate
  <2> DEFINE pair == <<Provided(input.clientId, row.credentials[1]),
                       Provided(input.clientSecret, row.credentials[2])>>
             items == Provided(input.itemIds, row.itemIds)
             step == IF TouchesProvider(input) THEN "evict" ELSE "write"
             l == [request[r] EXCEPT !.step = step, !.input = input, !.credentials = pair,
                                     !.itemIds = items]
  <2>2. request' = [request EXCEPT ![r] = l]
    BY <2>1
  <2>3. /\ pair \in Credentials /\ items \in SUBSET Item /\ step \in {"evict", "write"}
        /\ step = "write" => pair = row.credentials /\ items = row.itemIds
    BY <1>3, MergedBody
  <2> HIDE DEF pair, items, step
  <2>4. l \in Local /\ l.step = step /\ l.input = input /\ l.credentials = pair
        /\ l.itemIds = items /\ l.outcome = "none"
    BY <1>1, <2>3 DEF Local, Step, Carried
  <2>5. Found(r, l)
    BY <1>3, <2>3, <2>4 DEF Found, pair
  <2> HIDE DEF l
  <2> QED BY <1>1, <2>2, <2>4, <2>5, Began
<1> QED BY <1>2, <1>3

LEMMA BeginDeleteStep == ASSUME IInv, NEW r \in Deleters, BeginDelete(r) PROVE IInv'
<1> USE DEF BeginDelete, MayBegin, Finish, Goto, IInv, GeneralInv, Request
<1>1. TypeOK'
  BY DEF TypeOK, Local, Step, Row, Stored
<1>2. \A q \in Request : StepsOf(q)'
  BY KindAssumption DEF TypeOK, Local, StepsOf
<1>3. \A q \in Request : Carried(q)'
  BY KindAssumption DEF TypeOK, Local, Carried, Active
<1>4. NoRowYet'
  BY KindAssumption DEF TypeOK, NoRowYet, Active, Stored
<1>5. CalmInv'
  <2> SUFFICES ASSUME Calm' PROVE CalmInv'
    BY DEF CalmInv
  <2>1. Calm
    BY DEF Calm
  <2>2. OneAtATime'
    BY DEF TypeOK, OneAtATime, Calm, Active, Quiet
  <2>3. \A q \in Updaters : Active(q)' => UpdateKept(q)'
    BY KindAssumption DEF TypeOK, Calm, Active, Quiet
  <2>4. \A q \in Creators : Active(q)' => CreateKept(q)'
    BY KindAssumption DEF TypeOK, Calm, Active, Quiet
  <2>5. \A q \in Readers : Active(q)' => ReadKept(q)'
    BY KindAssumption DEF TypeOK, Calm, Active, Quiet
  <2>6. \A q \in Deleters : Active(q)' => Deleted'
    BY RowAssumption DEF TypeOK, Local, Row, Calm, Active, Quiet, Deleted, Stored
  <2>7. StoredConnectionWorks'
    BY DEF TypeOK, Row, StoredConnectionWorks, Stored
  <2> QED BY <2>2, <2>3, <2>4, <2>5, <2>6, <2>7 DEF CalmInv
<1>6. CacheInv'
  <2> SUFFICES ASSUME Calm', ~(\E q \in Updaters : LeftToken(q))' PROVE CacheInv'
    BY DEF CacheInv
  <2>1. Calm /\ ~(\E q \in Updaters : LeftToken(q))
    BY KindAssumption DEF Calm, LeftToken, TypeOK
  <2>2. \A q \in Updaters : Ahead(q)' => cacheEntry' \in {Absent, request'[q].credentials}
    BY KindAssumption DEF TypeOK, Calm, Active, Quiet, Ahead
  <2>3. \A q \in Readers :
         request'[q].step \in {"store", "check"} => request'[q].token = request'[q].credentials
    BY KindAssumption DEF TypeOK, Calm, Active, Quiet
  <2>4. (\A q \in Updaters : ~Ahead(q)') /\ (\A q \in Deleters : ~Active(q)') => TokenMatches'
    BY <2>1 DEF TypeOK, Local, CacheInv, Active, Ahead, TokenMatches
  <2> QED BY <2>2, <2>3, <2>4 DEF CacheInv
<1> QED BY <1>1, <1>2, <1>3, <1>4, <1>5, <1>6

LEMMA EvictTokenStep == ASSUME IInv, NEW r \in Request, EvictToken(r) PROVE IInv'
<1> USE DEF EvictToken, MayBegin, Finish, Goto, IInv, GeneralInv, Request
<1>1. TypeOK'
  BY DEF TypeOK, Local, Step
<1>2. \A q \in Request : StepsOf(q)'
  BY DEF TypeOK, Local, StepsOf
<1>3. \A q \in Request : Carried(q)'
  BY DEF TypeOK, Local, Carried, Active
<1>4. NoRowYet'
  BY DEF TypeOK, NoRowYet, Active
<1>5. CalmInv'
  <2> SUFFICES ASSUME Calm' PROVE CalmInv'
    BY DEF CalmInv
  <2>1. Calm
    BY DEF Calm
  <2>2. OneAtATime'
    BY <2>1 DEF TypeOK, CalmInv, OneAtATime, Active
  <2>3. \A q \in Updaters : Active(q)' => UpdateKept(q)'
    BY DEF TypeOK, Local, CalmInv, Calm, Active, UpdateKept, Verified, Stored
  <2>4. \A q \in Creators : Active(q)' => CreateKept(q)'
    BY <2>1 DEF TypeOK, CalmInv, Active, CreateKept, Verified, StepsOf
  <2>5. \A q \in Readers : Active(q)' => ReadKept(q)'
    BY <2>1 DEF TypeOK, CalmInv, Active, ReadKept, Stored, StepsOf
  <2>6. \A q \in Deleters : Active(q)' => Deleted'
    BY <2>1 DEF TypeOK, CalmInv, Active, Deleted
  <2>7. StoredConnectionWorks'
    BY <2>1 DEF CalmInv, StoredConnectionWorks, Stored
  <2> QED BY <2>2, <2>3, <2>4, <2>5, <2>6, <2>7 DEF CalmInv
<1>6. CacheInv'
  <2> SUFFICES ASSUME Calm', ~(\E q \in Updaters : LeftToken(q))' PROVE CacheInv'
    BY DEF CacheInv
  <2>1. Calm /\ ~(\E q \in Updaters : LeftToken(q))
    BY DEF Calm, LeftToken, TypeOK, Carried
  <2>2. \A q \in Updaters : Ahead(q)' => cacheEntry' \in {Absent, request'[q].credentials}
    BY DEF Calm
  <2>3. \A q \in Readers :
         request'[q].step \in {"store", "check"} => request'[q].token = request'[q].credentials
    BY <2>1 DEF TypeOK, Local, CalmInv, OneAtATime, Active
  <2>4. (\A q \in Updaters : ~Ahead(q)') /\ (\A q \in Deleters : ~Active(q)') => TokenMatches'
    BY DEF Calm, TokenMatches
  <2> QED BY <2>2, <2>3, <2>4 DEF CacheInv
<1> QED BY <1>1, <1>2, <1>3, <1>4, <1>5, <1>6

LEMMA LookupStep == ASSUME IInv, NEW r \in Request, Lookup(r) PROVE IInv'
<1> USE DEF Lookup, MayBegin, Finish, Goto, IInv, GeneralInv, Request
<1>1. TypeOK'
  BY DEF TypeOK, Local, Step
<1>2. \A q \in Request : StepsOf(q)'
  BY DEF TypeOK, Local, StepsOf
<1>3. \A q \in Request : Carried(q)'
  BY DEF TypeOK, Local, Carried, Active
<1>4. NoRowYet'
  BY DEF TypeOK, NoRowYet, Active
<1>5. CalmInv'
  <2> SUFFICES ASSUME Calm' PROVE CalmInv'
    BY DEF CalmInv
  <2>1. Calm
    BY DEF Calm
  <2>2. OneAtATime'
    BY <2>1 DEF TypeOK, CalmInv, OneAtATime, Active
  <2>3. \A q \in Updaters : Active(q)' => UpdateKept(q)'
    BY <2>1 DEF TypeOK, Local, CalmInv, Active, UpdateKept, Verified, Stored
  <2>4. \A q \in Creators : Active(q)' => CreateKept(q)'
    BY <2>1 DEF TypeOK, CalmInv, Active, CreateKept, Verified, StepsOf
  <2>5. \A q \in Readers : Active(q)' => ReadKept(q)'
    BY <2>1 DEF TypeOK, Local, CalmInv, Active, ReadKept, Stored
  <2>6. \A q \in Deleters : Active(q)' => Deleted'
    BY <2>1 DEF TypeOK, CalmInv, Active, Deleted
  <2>7. StoredConnectionWorks'
    BY <2>1 DEF CalmInv, StoredConnectionWorks, Stored
  <2> QED BY <2>2, <2>3, <2>4, <2>5, <2>6, <2>7 DEF CalmInv
<1>6. CacheInv'
  <2> SUFFICES ASSUME Calm', ~(\E q \in Updaters : LeftToken(q))' PROVE CacheInv'
    BY DEF CacheInv
  <2>1. Calm /\ ~(\E q \in Updaters : LeftToken(q))
    BY DEF Calm, LeftToken, TypeOK, Carried
  <2>2. \A q \in Updaters : Ahead(q)' => cacheEntry' \in {Absent, request'[q].credentials}
    BY <2>1 DEF TypeOK, CalmInv, OneAtATime, Active, Ahead, UpdateKept
  <2>3. \A q \in Readers :
         request'[q].step \in {"store", "check"} => request'[q].token = request'[q].credentials
    BY <2>1, KindAssumption DEF TypeOK, Local, CacheInv, CalmInv, OneAtATime, Active, Ahead,
       ReadKept, TokenMatches
  <2>4. (\A q \in Updaters : ~Ahead(q)') /\ (\A q \in Deleters : ~Active(q)') => TokenMatches'
    BY <2>1 DEF CacheInv, CalmInv, OneAtATime, Active, Ahead, TokenMatches, Stored, StepsOf
  <2> QED BY <2>2, <2>3, <2>4 DEF CacheInv
<1> QED BY <1>1, <1>2, <1>3, <1>4, <1>5, <1>6

LEMMA AuthenticateStep == ASSUME IInv, NEW r \in Request, Authenticate(r) PROVE IInv'
<1> USE DEF Authenticate, MayBegin, Finish, Goto, IInv, GeneralInv, Request
<1>1. TypeOK'
  BY DEF TypeOK, Local, Step
<1>2. \A q \in Request : StepsOf(q)'
  BY DEF TypeOK, Local, StepsOf
<1>3. \A q \in Request : Carried(q)'
  BY DEF TypeOK, Local, Carried, StepsOf, Active
<1>4. NoRowYet'
  BY DEF TypeOK, NoRowYet, Active
<1>5. CalmInv'
  <2> SUFFICES ASSUME Calm' PROVE CalmInv'
    BY DEF CalmInv
  <2>1. Calm
    BY DEF Calm
  <2>2. OneAtATime'
    BY <2>1 DEF TypeOK, CalmInv, OneAtATime, Active
  <2>3. \A q \in Updaters : Active(q)' => UpdateKept(q)'
    BY <2>1 DEF TypeOK, Local, CalmInv, Active, UpdateKept, Verified, Stored
  <2>4. \A q \in Creators : Active(q)' => CreateKept(q)'
    BY <2>1 DEF TypeOK, Local, CalmInv, Active, CreateKept, Verified
  <2>5. \A q \in Readers : Active(q)' => ReadKept(q)'
    BY <2>1 DEF TypeOK, Local, CalmInv, Active, ReadKept, Stored
  <2>6. \A q \in Deleters : Active(q)' => Deleted'
    BY <2>1 DEF TypeOK, CalmInv, Active, Deleted
  <2>7. StoredConnectionWorks'
    BY <2>1 DEF CalmInv, StoredConnectionWorks, Stored
  <2> QED BY <2>2, <2>3, <2>4, <2>5, <2>6, <2>7 DEF CalmInv
<1>6. CacheInv'
  <2> SUFFICES ASSUME Calm', ~(\E q \in Updaters : LeftToken(q))' PROVE CacheInv'
    BY DEF CacheInv
  <2>1. Calm /\ ~(\E q \in Updaters : LeftToken(q))
    BY DEF Calm, LeftToken, TypeOK, Carried
  <2>2. \A q \in Updaters : Ahead(q)' => cacheEntry' \in {Absent, request'[q].credentials}
    BY <2>1 DEF TypeOK, CalmInv, OneAtATime, Active, Ahead, UpdateKept
  <2>3. \A q \in Readers :
         request'[q].step \in {"store", "check"} => request'[q].token = request'[q].credentials
    BY <2>1 DEF TypeOK, Local, CalmInv, OneAtATime, Active
  <2>4. (\A q \in Updaters : ~Ahead(q)') /\ (\A q \in Deleters : ~Active(q)') => TokenMatches'
    BY <2>1 DEF CacheInv, CalmInv, OneAtATime, Active, Ahead, TokenMatches, Stored, StepsOf
  <2> QED BY <2>2, <2>3, <2>4 DEF CacheInv
<1> QED BY <1>1, <1>2, <1>3, <1>4, <1>5, <1>6

LEMMA StoreTokenStep == ASSUME IInv, NEW r \in Request, StoreToken(r) PROVE IInv'
<1> USE DEF StoreToken, MayBegin, Finish, Goto, IInv, GeneralInv, Request
<1>1. TypeOK'
  BY DEF TypeOK, Local, Step
<1>2. \A q \in Request : StepsOf(q)'
  BY DEF StepsOf
<1>3. \A q \in Request : Carried(q)'
  BY DEF Carried, Active
<1>4. NoRowYet'
  BY DEF NoRowYet, Active
<1>5. CalmInv'
  <2> SUFFICES ASSUME Calm' PROVE CalmInv'
    BY DEF CalmInv
  <2>1. Calm
    BY DEF Calm
  <2>2. OneAtATime'
    BY <2>1 DEF CalmInv, OneAtATime, Active
  <2>3. \A q \in Updaters : Active(q)' => UpdateKept(q)'
    BY <2>1 DEF TypeOK, CalmInv, OneAtATime, Active, UpdateKept, Verified, Stored
  <2>4. \A q \in Creators : Active(q)' => CreateKept(q)'
    BY <2>2 DEF OneAtATime, Active, StepsOf
  <2>5. \A q \in Readers : Active(q)' => ReadKept(q)'
    BY <2>1 DEF CalmInv, Active, ReadKept, Stored
  <2>6. \A q \in Deleters : Active(q)' => Deleted'
    BY <2>2 DEF OneAtATime, Active, StepsOf
  <2>7. StoredConnectionWorks'
    BY <2>1 DEF CalmInv, StoredConnectionWorks, Stored
  <2> QED BY <2>2, <2>3, <2>4, <2>5, <2>6, <2>7 DEF CalmInv
<1>6. CacheInv'
  <2> SUFFICES ASSUME Calm', ~(\E q \in Updaters : LeftToken(q))' PROVE CacheInv'
    BY DEF CacheInv
  <2>1. Calm /\ ~(\E q \in Updaters : LeftToken(q))
    BY DEF Calm, LeftToken
  <2>2. \A q \in Updaters : Ahead(q)' => cacheEntry' \in {Absent, request'[q].credentials}
    BY <2>1 DEF CalmInv, OneAtATime, Active, Ahead, UpdateKept, Verified
  <2>3. \A q \in Readers :
         request'[q].step \in {"store", "check"} => request'[q].token = request'[q].credentials
    BY <2>1 DEF CacheInv
  <2>4. (\A q \in Updaters : ~Ahead(q)') /\ (\A q \in Deleters : ~Active(q)') => TokenMatches'
    BY <2>1 DEF TypeOK, CacheInv, CalmInv, Active, Ahead, TokenMatches, Stored, ReadKept,
       StepsOf
  <2> QED BY <2>2, <2>3, <2>4 DEF CacheInv
<1> QED BY <1>1, <1>2, <1>3, <1>4, <1>5, <1>6

LEMMA CheckItemsStep == ASSUME IInv, NEW r \in Request, CheckItems(r) PROVE IInv'
<1> USE DEF CheckItems, MayBegin, Finish, Goto, IInv, GeneralInv, Request
<1>1. TypeOK'
  BY DEF TypeOK, Local, Step
<1>2. \A q \in Request : StepsOf(q)'
  BY DEF TypeOK, Local, StepsOf
<1>3. \A q \in Request : Carried(q)'
  BY DEF TypeOK, Local, Carried, Active
<1>4. NoRowYet'
  BY DEF TypeOK, NoRowYet, Active
<1>5. CalmInv'
  <2> SUFFICES ASSUME Calm' PROVE CalmInv'
    BY DEF CalmInv
  <2>1. Calm
    BY DEF Calm
  <2>2. OneAtATime'
    BY <2>1 DEF TypeOK, CalmInv, OneAtATime, Active
  <2>3. \A q \in Updaters : Active(q)' => UpdateKept(q)'
    BY <2>1 DEF TypeOK, Local, CalmInv, Active, UpdateKept, Verified, Works, Stored
  <2>4. \A q \in Creators : Active(q)' => CreateKept(q)'
    BY <2>1 DEF TypeOK, Local, CalmInv, Active, CreateKept, Verified, Works
  <2>5. \A q \in Readers : Active(q)' => ReadKept(q)'
    BY <2>1 DEF TypeOK, Local, CalmInv, Active, ReadKept, Stored
  <2>6. \A q \in Deleters : Active(q)' => Deleted'
    BY <2>1 DEF TypeOK, CalmInv, Active, Deleted
  <2>7. StoredConnectionWorks'
    BY <2>1 DEF CalmInv, StoredConnectionWorks, Stored
  <2> QED BY <2>2, <2>3, <2>4, <2>5, <2>6, <2>7 DEF CalmInv
<1>6. CacheInv'
  <2> SUFFICES ASSUME Calm', ~(\E q \in Updaters : LeftToken(q))' PROVE CacheInv'
    BY DEF CacheInv
  <2>1. Calm /\ ~(\E q \in Updaters : LeftToken(q))
    BY DEF Calm, LeftToken, TypeOK, Carried
  <2>2. \A q \in Updaters : Ahead(q)' => cacheEntry' \in {Absent, request'[q].credentials}
    BY <2>1 DEF TypeOK, Local, CalmInv, OneAtATime, Active, Ahead, UpdateKept
  <2>3. \A q \in Readers :
         request'[q].step \in {"store", "check"} => request'[q].token = request'[q].credentials
    BY <2>1 DEF TypeOK, Local, CalmInv, OneAtATime, Active
  <2>4. (\A q \in Updaters : ~Ahead(q)') /\ (\A q \in Deleters : ~Active(q)') => TokenMatches'
    BY <2>1, KindAssumption DEF TypeOK, Local, CacheInv, Active, Ahead, LeftToken, TokenMatches,
       Stored, StepsOf
  <2> QED BY <2>2, <2>3, <2>4 DEF CacheInv
<1> QED BY <1>1, <1>2, <1>3, <1>4, <1>5, <1>6

LEMMA InsertRowStep == ASSUME IInv, NEW r \in Request, InsertRow(r) PROVE IInv'
<1> USE DEF InsertRow, MayBegin, Finish, Goto, IInv, GeneralInv, Request
<1>1. TypeOK'
  BY DEF TypeOK, Local, Carried
<1>2. \A q \in Request : StepsOf(q)'
  BY DEF TypeOK, StepsOf
<1>3. \A q \in Request : Carried(q)'
  BY DEF TypeOK, Carried, Active
<1>4. NoRowYet'
  BY KindAssumption DEF TypeOK, NoRowYet, Active
<1>5. CalmInv'
  <2> SUFFICES ASSUME Calm' PROVE CalmInv'
    BY DEF CalmInv
  <2>1. Calm
    BY DEF Calm
  <2>2. OneAtATime'
    BY <2>1 DEF TypeOK, CalmInv, OneAtATime, Active
  <2>3. \A q \in Updaters : Active(q)' => UpdateKept(q)'
    BY <2>1 DEF TypeOK, CalmInv, OneAtATime, Active
  <2>4. \A q \in Creators : Active(q)' => CreateKept(q)'
    BY KindAssumption DEF TypeOK, CreateKept
  <2>5. \A q \in Readers : Active(q)' => ReadKept(q)'
    BY <2>1 DEF TypeOK, CalmInv, OneAtATime, Active
  <2>6. \A q \in Deleters : Active(q)' => Deleted'
    BY <2>1 DEF TypeOK, CalmInv, OneAtATime, Active
  <2>7. StoredConnectionWorks'
    BY <2>1 DEF CalmInv, StoredConnectionWorks, CreateKept, Active
  <2> QED BY <2>2, <2>3, <2>4, <2>5, <2>6, <2>7 DEF CalmInv
<1>6. CacheInv'
  <2> SUFFICES ASSUME Calm', ~(\E q \in Updaters : LeftToken(q))' PROVE CacheInv'
    BY DEF CacheInv
  <2>1. Calm /\ ~(\E q \in Updaters : LeftToken(q))
    BY DEF TypeOK, Local, Carried
  <2>2. \A q \in Updaters : Ahead(q)' => cacheEntry' \in {Absent, request'[q].credentials}
    BY <2>1 DEF TypeOK, CalmInv, OneAtATime, Active, Ahead
  <2>3. \A q \in Readers :
         request'[q].step \in {"store", "check"} => request'[q].token = request'[q].credentials
    BY <2>1 DEF TypeOK, CalmInv, OneAtATime, Active
  <2>4. (\A q \in Updaters : ~Ahead(q)') /\ (\A q \in Deleters : ~Active(q)') => TokenMatches'
    <3>1. row = Absent /\ (\A q \in Updaters : ~Ahead(q)) /\ (\A q \in Deleters : ~Active(q))
      BY <2>1, KindAssumption DEF CalmInv, OneAtATime, NoRowYet, Active, Ahead
    <3>2. cacheEntry = Absent
      BY <2>1, <3>1 DEF CacheInv, TokenMatches, Stored
    <3> QED BY <3>2 DEF TokenMatches
  <2> QED BY <2>2, <2>3, <2>4 DEF CacheInv
<1> QED BY <1>1, <1>2, <1>3, <1>4, <1>5, <1>6

LEMMA UpdateRowStep == ASSUME IInv, NEW r \in Request, UpdateRow(r) PROVE IInv'
<1> USE DEF UpdateRow, MayBegin, Finish, Goto, IInv, GeneralInv, Request
<1>1. TypeOK'
  BY DEF TypeOK, Local, Carried
<1>2. \A q \in Request : StepsOf(q)'
  BY KindAssumption DEF TypeOK, StepsOf
<1>3. \A q \in Request : Carried(q)'
  BY DEF TypeOK, Local, Carried
<1>4. NoRowYet'
  BY DEF TypeOK, NoRowYet, Active, Stored
<1>5. CalmInv'
  <2> SUFFICES ASSUME Calm' PROVE CalmInv'
    BY DEF CalmInv
  <2>1. Calm
    BY DEF Calm
  <2>2. OneAtATime'
    BY <2>1 DEF TypeOK, CalmInv, OneAtATime, Active
  <2>3. \A q \in Updaters : Active(q)' => UpdateKept(q)'
    BY DEF TypeOK, Local, Carried
  <2>4. \A q \in Creators : Active(q)' => CreateKept(q)'
    BY <2>1, KindAssumption DEF TypeOK, CalmInv, Active, CreateKept, Verified
  <2>5. \A q \in Readers : Active(q)' => ReadKept(q)'
    BY <2>1, KindAssumption DEF TypeOK, CalmInv, OneAtATime, Active
  <2>6. \A q \in Deleters : Active(q)' => Deleted'
    BY <2>1 DEF TypeOK, CalmInv, Active, Deleted, Stored
  <2>7. StoredConnectionWorks'
    BY <2>1, KindAssumption, RowAssumption DEF TypeOK, Local, Row, CalmInv,
       StoredConnectionWorks, Stored, UpdateKept, CreateKept, Active, Works
  <2> QED BY <2>2, <2>3, <2>4, <2>5, <2>6, <2>7 DEF CalmInv
<1>6. CacheInv'
  <2> SUFFICES ASSUME Calm', ~(\E q \in Updaters : LeftToken(q))' PROVE CacheInv'
    BY DEF CacheInv
  <2>1. Calm /\ ~(\E q \in Updaters : LeftToken(q))
    BY DEF TypeOK, Local, Carried
  <2>2. \A q \in Updaters : Ahead(q)' => cacheEntry' \in {Absent, request'[q].credentials}
    BY <2>1 DEF TypeOK, Local, CalmInv, OneAtATime, Active, Ahead
  <2>3. \A q \in Readers :
         request'[q].step \in {"store", "check"} => request'[q].token = request'[q].credentials
    BY <2>1, KindAssumption DEF TypeOK, CalmInv, OneAtATime, Active
  <2>4. (\A q \in Updaters : ~Ahead(q)') /\ (\A q \in Deleters : ~Active(q)') => TokenMatches'
    <3>1. /\ cacheEntry \in {Absent, request[r].credentials}
          /\ Stored /\ row.state = "stored"
          /\ request[r].credentials = <<Provided(request[r].input.clientId, row.credentials[1]),
                                        Provided(request[r].input.clientSecret, row.credentials[2])>>
      BY <2>1 DEF CacheInv, CalmInv, UpdateKept, Ahead, Active, Stored
    <3>2. row \in Row
      BY <3>1, StoredRow
    <3>3. row' = [row EXCEPT !.credentials = request[r].credentials,
                             !.itemIds = request[r].itemIds]
      BY <3>1
    <3>4. request[r].credentials \in Credentials /\ request[r].itemIds \in SUBSET Item
      BY KindAssumption DEF Carried, Active
    <3>5. row'.credentials = request[r].credentials /\ row'.state = "stored" /\ row' \in Row
      BY <3>1, <3>2, <3>3, <3>4 DEF Row
    <3> QED BY <3>1, <3>5, RowAssumption DEF TokenMatches, Stored
  <2> QED BY <2>2, <2>3, <2>4 DEF CacheInv
<1> QED BY <1>1, <1>2, <1>3, <1>4, <1>5, <1>6

LEMMA WriteFailsStep == ASSUME IInv, NEW r \in Request, WriteFails(r) PROVE IInv'
<1> USE DEF WriteFails, MayBegin, Finish, Goto, IInv, GeneralInv, Request
<1>1. TypeOK'
  BY DEF TypeOK, Local, Carried
<1>2. \A q \in Request : StepsOf(q)'
  BY DEF TypeOK, StepsOf
<1>3. \A q \in Request : Carried(q)'
  BY DEF TypeOK, Carried, Active
<1>4. NoRowYet'
  BY DEF TypeOK, NoRowYet, Active
<1>5. CalmInv'
  <2> SUFFICES ASSUME Calm' PROVE CalmInv'
    BY DEF CalmInv
  <2>1. Calm
    BY DEF Calm
  <2>2. OneAtATime'
    BY <2>1 DEF TypeOK, CalmInv, OneAtATime, Active
  <2>3. \A q \in Updaters : Active(q)' => UpdateKept(q)'
    BY <2>1 DEF TypeOK, CalmInv, Active, UpdateKept, Verified, Stored
  <2>4. \A q \in Creators : Active(q)' => CreateKept(q)'
    BY <2>1 DEF TypeOK, CalmInv, Active, CreateKept, Verified
  <2>5. \A q \in Readers : Active(q)' => ReadKept(q)'
    BY <2>1 DEF TypeOK, CalmInv, Active, ReadKept, Stored
  <2>6. \A q \in Deleters : Active(q)' => Deleted'
    BY <2>1 DEF TypeOK, CalmInv, Active, Deleted
  <2>7. StoredConnectionWorks'
    BY <2>1 DEF CalmInv, StoredConnectionWorks, Stored
  <2> QED BY <2>2, <2>3, <2>4, <2>5, <2>6, <2>7 DEF CalmInv
<1>6. CacheInv'
  <2> SUFFICES ASSUME Calm', ~(\E q \in Updaters : LeftToken(q))' PROVE CacheInv'
    BY DEF CacheInv
  <2>1. Calm /\ ~(\E q \in Updaters : LeftToken(q))
    BY DEF TypeOK, Local, Carried
  <2>2. \A q \in Updaters : Ahead(q)' => cacheEntry' \in {Absent, request'[q].credentials}
    BY <2>1 DEF TypeOK, CalmInv, OneAtATime, Active, Ahead
  <2>3. \A q \in Readers :
         request'[q].step \in {"store", "check"} => request'[q].token = request'[q].credentials
    BY <2>1 DEF TypeOK, CalmInv, OneAtATime, Active
  <2>4. (\A q \in Updaters : ~Ahead(q)') /\ (\A q \in Deleters : ~Active(q)') => TokenMatches'
    BY <2>1 DEF TypeOK, CacheInv, Active, Ahead, LeftToken, TokenMatches, Stored, StepsOf
  <2> QED BY <2>2, <2>3, <2>4 DEF CacheInv
<1> QED BY <1>1, <1>2, <1>3, <1>4, <1>5, <1>6

LEMMA ExpireEntryStep == ASSUME IInv, ExpireEntry PROVE IInv'
<1> USE DEF IInv, GeneralInv, ExpireEntry
<1>1. GeneralInv'
  BY DEF TypeOK, StepsOf, Carried, NoRowYet, Active
<1>2. CalmInv'
  BY DEF CalmInv, Calm, OneAtATime, Active, UpdateKept, Verified, CreateKept, ReadKept, Deleted,
     Stored, StoredConnectionWorks
<1>3. CacheInv'
  BY DEF CacheInv, Calm, LeftToken, TokenMatches
<1> QED BY <1>1, <1>2, <1>3

LEMMA StutterStep == ASSUME IInv, UNCHANGED vars PROVE IInv'
<1> USE DEF IInv, GeneralInv, vars
<1>1. GeneralInv'
  BY DEF TypeOK, StepsOf, Carried, NoRowYet, Active
<1>2. CalmInv'
  BY DEF CalmInv, Calm, OneAtATime, Active, UpdateKept, Verified, CreateKept, ReadKept, Deleted,
     Stored, StoredConnectionWorks
<1>3. CacheInv'
  BY DEF CacheInv, Calm, LeftToken, Ahead, Active, TokenMatches, Stored
<1> QED BY <1>1, <1>2, <1>3

LEMMA NextInv == IInv /\ [Next]_vars => IInv'
<1> SUFFICES ASSUME IInv, [Next]_vars PROVE IInv'
  OBVIOUS
<1>1. CASE \E r \in Creators : BeginCreate(r)
  BY <1>1, BeginCreateStep
<1>2. CASE \E r \in Updaters : BeginUpdate(r)
  BY <1>2, BeginUpdateStep
<1>3. CASE \E r \in Readers : BeginRead(r)
  BY <1>3, BeginReadStep
<1>4. CASE \E r \in Deleters : BeginDelete(r)
  BY <1>4, BeginDeleteStep
<1>5. CASE \E r \in Request : RequestStep(r)
  BY <1>5, EvictTokenStep, LookupStep, AuthenticateStep, StoreTokenStep, CheckItemsStep,
     InsertRowStep, UpdateRowStep, WriteFailsStep DEF RequestStep
<1>6. CASE ExpireEntry
  BY <1>6, ExpireEntryStep
<1>7. CASE UNCHANGED vars
  BY <1>7, StutterStep
<1> QED BY <1>1, <1>2, <1>3, <1>4, <1>5, <1>6, <1>7 DEF Next

LEMMA Inductive == Spec => []IInv
BY InitInv, NextInv, PTL DEF Spec

-----------------------------------------------------------------------------
(* Rows, cached tokens and the local state of every request keep their     *)
(* types (connections/service.ts:29-153, pluggy/client.ts:168-210).        *)
THEOREM CredentialsTypeCorrect == Spec => []TypeOK
<1>1. IInv => TypeOK
  BY DEF IInv, GeneralInv
<1> QED BY <1>1, Inductive, PTL

(* A stored connection works, for any number of requests and bodies, while *)
(* they do not overlap and KV does not fail, whatever the provider refuses *)
(* and whichever writes fail (connections/service.ts:34-126).              *)
THEOREM StoredConnectionsWork == Spec => []StoredWorksWhenCalm
<1>1. IInv => StoredWorksWhenCalm
  BY DEF IInv, CalmInv, StoredWorksWhenCalm
<1> QED BY <1>1, Inductive, PTL

(* Between such requests the cached token is of the credentials the row    *)
(* stores, and there is none for a deleted connection, unless an update    *)
(* failed after it had its token (connections/service.ts:93-126).          *)
THEOREM CacheServesItsRow == Spec => []QuietCacheServesRow
<1>1. IInv => QuietCacheServesRow
  <2> SUFFICES ASSUME IInv, Calm, Quiet, row # Absent, ~(\E r \in Updaters : LeftToken(r))
               PROVE  TokenMatches
    BY DEF QuietCacheServesRow
  <2> QED BY DEF IInv, CacheInv, Quiet, Active, Ahead, Request
<1> QED BY <1>1, Inductive, PTL

(* Nothing brings a deleted connection back or changes its row, with any   *)
(* requests overlapping its deletion and any operation failing             *)
(* (connections/service.ts:105-126, repository.ts).                        *)
THEOREM DeletedStays == Spec => DeletedStaysDeleted
<1>1. IInv /\ [Next]_vars => [Deleted => row' = row]_vars
  <2> SUFFICES ASSUME IInv, Next, Deleted PROVE row' = row
    BY DEF vars
  <2>1. ASSUME NEW r \in Creators, BeginCreate(r) PROVE row' = row
    BY <2>1 DEF BeginCreate
  <2>2. ASSUME NEW r \in Updaters, BeginUpdate(r) PROVE row' = row
    BY <2>2 DEF BeginUpdate
  <2>3. ASSUME NEW r \in Readers, BeginRead(r) PROVE row' = row
    BY <2>3 DEF BeginRead
  <2>4. ASSUME NEW r \in Deleters, BeginDelete(r) PROVE row' = row
    BY <2>4 DEF BeginDelete, Stored, Deleted
  <2>5. ASSUME NEW r \in Request, RequestStep(r) PROVE row' = row
    <3>1. ~InsertRow(r)
      BY DEF InsertRow, Deleted, IInv, GeneralInv, NoRowYet, Active
    <3>2. UpdateRow(r) => row' = row
      BY DEF UpdateRow, Stored, Deleted
    <3> QED BY <2>5, <3>1, <3>2 DEF RequestStep, EvictToken, Lookup, Authenticate, StoreToken,
               CheckItems, WriteFails
  <2> QED BY <2>1, <2>2, <2>3, <2>4, <2>5 DEF Next, ExpireEntry, vars
<1> QED BY <1>1, Inductive, PTL DEF Spec, DeletedStaysDeleted

=============================================================================
