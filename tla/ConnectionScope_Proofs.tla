----------------------- MODULE ConnectionScope_Proofs -----------------------
(***************************************************************************)
(* ConnectionScope for any connections, users' rows, tabs and selections   *)
(* in flight: what is selected or pinned is owned, answers are cached      *)
(* under their own connection, an agent reads the one it was started with. *)
(***************************************************************************)
EXTENDS ConnectionScope, TLAPS

Own == Mine \cup {None}

PickState ==
  [stage : {"idle", "check", "write", "read", "answered"}, next : Selection, answer : Selection]

(* Past the ownership check a selection is the user's; what the UPDATE's   *)
(* reader or a reload takes from the settings is owned because they are.   *)
Checked ==
  /\ \A p \in Pick : /\ pick[p].answer \in Own
                     /\ pick[p].stage = "write" => pick[p].next \in Own
  /\ removal.answer \in Own

(* A request is resolved to the connection of its key or to nothing yet.   *)
ResolvedToKey == \A f \in loading : f.scope \in {None, f.key}

(* The column of a conversation, and what a tool call took from it, are    *)
(* the connection chosen at its creation until a removal empties them.     *)
PinnedToChosen == {talk.pinned, talk.scope} \subseteq {None, talk.chosen}

ScopeInv ==
  /\ ScopeTypeOK
  /\ ScopeIsOwned
  /\ CachedUnderItsConnection
  /\ AgentStaysPinned
  /\ Checked
  /\ ResolvedToKey
  /\ PinnedToChosen

-----------------------------------------------------------------------------
(* Null selects no rows, a connection at most its own.                     *)
LEMMA ListedOfScope ==
  ASSUME ScopeTypeOK, NEW scope \in Selection
  PROVE  ListScoped(scope) \subseteq Mine /\ ListScoped(scope) \subseteq {scope} \ {None}
BY ScopeAssumption DEF ListScoped, ScopeTypeOK

(* What a tab remembers has the type of what it caches.                    *)
LEMMA RememberType ==
  ASSUME ScopeTypeOK, Remember,
         shown' \in [Tab -> Own], cached' \in [Tab -> [Mine -> (SUBSET Mine) \cup {None}]]
  PROVE  last' \in [Tab -> (SUBSET Mine) \cup {None}]
BY ScopeAssumption DEF ScopeTypeOK, Remember, Own

(* Dropping the queries of a tab leaves nothing under a wrong key.         *)
LEMMA DropKeeps ==
  ASSUME ScopeTypeOK, CachedUnderItsConnection, NEW t \in Tab, DropQueries(t)
  PROVE  /\ cached' \in [Tab -> [Mine -> (SUBSET Mine) \cup {None}]]
         /\ CachedUnderItsConnection'
<1>1. cached' \in [Tab -> [Mine -> (SUBSET Mine) \cup {None}]]
  BY DEF ScopeTypeOK, DropQueries
<1>2. ASSUME NEW u \in Tab, NEW k \in Mine, cached'[u][k] # None
      PROVE  cached'[u][k] \subseteq {k}
  <2>1. u # t
    BY <1>2 DEF ScopeTypeOK, DropQueries
  <2>2. cached'[u] = cached[u]
    BY <2>1 DEF ScopeTypeOK, DropQueries
  <2> QED BY <1>2, <2>2 DEF CachedUnderItsConnection
<1> QED BY <1>1, <1>2 DEF CachedUnderItsConnection

-----------------------------------------------------------------------------
LEMMA ScopeInitInv == ScopeInit => ScopeInv
<1> SUFFICES ASSUME ScopeInit PROVE ScopeInv OBVIOUS
<1> USE ScopeAssumption DEF ScopeInit
<1>1. ScopeTypeOK
  BY DEF ScopeTypeOK, Selection, NoPick, NoRemoval, NoTalk
<1>2. ScopeIsOwned /\ CachedUnderItsConnection /\ AgentStaysPinned
  BY DEF ScopeIsOwned, CachedUnderItsConnection, AgentStaysPinned, NoTalk
<1>3. Checked /\ ResolvedToKey /\ PinnedToChosen
  BY DEF Checked, ResolvedToKey, PinnedToChosen, NoPick, NoRemoval, NoTalk, Own
<1> QED BY <1>1, <1>2, <1>3 DEF ScopeInv

(* The stages of a selection.  Only the ownership check lets one through   *)
(* to the write, and only an owned row is written or read back.            *)
LEMMA PickStep ==
  ASSUME ScopeInv, NEW p \in Pick,
         \/ \E c \in Selection : SelectConnection(p, c)
         \/ CheckSelection(p) \/ WriteSelection(p) \/ ReadSelection(p)
  PROVE  ScopeInv'
<1> USE ScopeAssumption DEF ScopeInv
<1>0. pick \in [Pick -> PickState]
  BY DEF ScopeTypeOK, PickState
<1>1. CASE \E c \in Selection : SelectConnection(p, c)
  <2> PICK c \in Selection : SelectConnection(p, c) BY <1>1
  <2> DEFINE sent == [stage |-> "check", next |-> c, answer |-> None]
  <2>1. sent \in PickState /\ pick' = [pick EXCEPT ![p] = sent]
    BY DEF PickState, SelectConnection, Selection
  <2>2. pick' \in [Pick -> PickState]
    BY <1>0, <2>1
  <2>3. Checked'
    BY <1>0, <2>1 DEF Checked, SelectConnection, Own
  <2>4. ScopeTypeOK'
    BY <2>2 DEF ScopeTypeOK, PickState, SelectConnection, CancelQueries
  <2> QED BY <2>3, <2>4 DEF SelectConnection, CancelQueries, ScopeIsOwned,
        CachedUnderItsConnection, AgentStaysPinned, ResolvedToKey, PinnedToChosen
<1>2. CASE CheckSelection(p)
  <2> DEFINE checked == pick'[p]
  <2>1. /\ checked \in PickState /\ checked.answer \in Own /\ checked.next \in Own
        /\ pick' = [pick EXCEPT ![p] = checked]
    <3>1. CASE pick[p].next = None \/ IsOwnedConnection(pick[p].next)
      <4>1. pick' = [pick EXCEPT ![p] = [pick[p] EXCEPT !.stage = "write"]]
        BY <1>2, <3>1 DEF CheckSelection
      <4>2. pick[p].next \in Own
        BY <3>1 DEF IsOwnedConnection, Own
      <4> QED BY <1>0, <4>1, <4>2 DEF PickState, Checked
    <3>2. CASE ~(pick[p].next = None \/ IsOwnedConnection(pick[p].next))
      <4>1. pick' = [pick EXCEPT ![p] = NoPick]
        BY <1>2, <3>2 DEF CheckSelection
      <4> QED BY <1>0, <4>1 DEF PickState, NoPick, Own, Selection
    <3> QED BY <3>1, <3>2
  <2>2. pick' \in [Pick -> PickState]
    BY <1>0, <2>1
  <2>3. Checked'
    BY <1>0, <1>2, <2>1 DEF Checked, CheckSelection
  <2>4. ScopeTypeOK'
    BY <1>2, <2>2 DEF ScopeTypeOK, PickState, CheckSelection
  <2> QED BY <1>2, <2>3, <2>4 DEF CheckSelection, ScopeIsOwned,
        CachedUnderItsConnection, AgentStaysPinned, ResolvedToKey, PinnedToChosen
<1>3. CASE WriteSelection(p)
  <2>1. /\ pick'[p] \in PickState /\ pick'[p].answer \in Own /\ pick'[p].stage # "write"
        /\ pick' = [pick EXCEPT ![p] = pick'[p]]
    <3>1. CASE pick[p].next \in rows \cup {None}
      BY <1>0, <1>3, <3>1 DEF WriteSelection, PickState, Checked
    <3>2. CASE pick[p].next \notin rows \cup {None}
      BY <1>0, <1>3, <3>2 DEF WriteSelection, PickState, NoPick, Own, Selection
    <3> QED BY <3>1, <3>2
  <2>2. setting' \in (rows \cap Mine) \cup {None}
    BY <1>0, <1>3 DEF WriteSelection, PickState, Checked, ScopeIsOwned, Own
  <2>3. pick' \in [Pick -> PickState]
    BY <1>0, <2>1
  <2>4. Checked'
    BY <1>0, <1>3, <2>1 DEF Checked, WriteSelection
  <2>5. ScopeTypeOK'
    BY <1>3, <2>2, <2>3 DEF ScopeTypeOK, PickState, WriteSelection, Selection
  <2> QED BY <1>3, <2>2, <2>4, <2>5 DEF WriteSelection, ScopeIsOwned,
        CachedUnderItsConnection, AgentStaysPinned, ResolvedToKey, PinnedToChosen
<1>4. CASE ReadSelection(p)
  <2> DEFINE read == [pick[p] EXCEPT !.stage = "answered", !.answer = setting]
  <2>1. pick' = [pick EXCEPT ![p] = read]
    BY <1>0, <1>4 DEF ReadSelection
  <2>2. read \in PickState /\ read.answer \in Own /\ read.stage # "write"
    <3>1. pick[p] \in PickState
      BY <1>0
    <3>2. setting \in Own /\ setting \in Selection
      BY DEF ScopeTypeOK, ScopeIsOwned, Own
    <3> QED BY <3>1, <3>2 DEF PickState
  <2>3. pick' \in [Pick -> PickState]
    BY <1>0, <2>1, <2>2
  <2>4. Checked'
    BY <1>0, <1>4, <2>1, <2>2 DEF Checked, ReadSelection
  <2>5. ScopeTypeOK'
    BY <1>4, <2>3 DEF ScopeTypeOK, PickState, ReadSelection
  <2> QED BY <1>4, <2>4, <2>5 DEF ReadSelection, ScopeIsOwned,
        CachedUnderItsConnection, AgentStaysPinned, ResolvedToKey, PinnedToChosen
<1> QED BY <1>1, <1>2, <1>3, <1>4

(* An answer of the settings becomes what a tab renders.                   *)
LEMMA ShownStep ==
  ASSUME ScopeInv,
         \/ \E p \in Pick : ApplySelection(p)
         \/ \E t \in Tab : RefreshSettings(t)
  PROVE  ScopeInv'
<1> USE ScopeAssumption DEF ScopeInv
<1>1. CASE \E p \in Pick : ApplySelection(p)
  <2> PICK p \in Pick : ApplySelection(p) BY <1>1
  <2> TabOf[p] \in Tab OBVIOUS
  <2>1. shown' \in [Tab -> Own]
    BY DEF ScopeTypeOK, Checked, ApplySelection, Own
  <2>2. /\ cached' \in [Tab -> [Mine -> (SUBSET Mine) \cup {None}]]
        /\ CachedUnderItsConnection'
    BY DropKeeps DEF ApplySelection
  <2>3. last' \in [Tab -> (SUBSET Mine) \cup {None}]
    BY <2>1, <2>2, RememberType DEF ApplySelection
  <2>4. /\ pick' \in [Pick -> [stage : {"idle", "check", "write", "read", "answered"},
                               next : Selection, answer : Selection]]
        /\ Checked'
    BY DEF ScopeTypeOK, Checked, ApplySelection, NoPick, Selection, Own
  <2>5. loading' \subseteq loading
    BY DEF ApplySelection, CancelQueries
  <2>6. ScopeTypeOK'
    BY <2>1, <2>2, <2>3, <2>4, <2>5 DEF ScopeTypeOK, ApplySelection, Own
  <2> QED BY <2>2, <2>4, <2>5, <2>6 DEF ApplySelection, ScopeIsOwned,
        AgentStaysPinned, ResolvedToKey, PinnedToChosen
<1>2. CASE \E t \in Tab : RefreshSettings(t)
  <2> PICK t \in Tab : RefreshSettings(t) BY <1>2
  <2>1. shown' \in [Tab -> Own]
    BY DEF ScopeTypeOK, ScopeIsOwned, RefreshSettings, Own
  <2>2. last' \in [Tab -> (SUBSET Mine) \cup {None}]
    BY <2>1, RememberType DEF RefreshSettings, ScopeTypeOK
  <2>3. ScopeTypeOK'
    BY <2>1, <2>2 DEF ScopeTypeOK, RefreshSettings, Own
  <2> QED BY <2>3 DEF RefreshSettings, ScopeIsOwned, CachedUnderItsConnection,
        AgentStaysPinned, Checked, ResolvedToKey, PinnedToChosen
<1> QED BY <1>1, <1>2

(* A removal.  ON DELETE SET NULL empties both columns with the row.       *)
LEMMA RemovalStep ==
  ASSUME ScopeInv,
         \/ \E t \in Tab, c \in Mine : RemoveConnection(t, c)
         \/ DeleteRow \/ ReloadSettings \/ SettleRemoval
  PROVE  ScopeInv'
<1> USE ScopeAssumption DEF ScopeInv
<1>1. CASE \E t \in Tab, c \in Mine : RemoveConnection(t, c)
  <2> PICK t \in Tab, c \in Mine : RemoveConnection(t, c) BY <1>1
  <2>1. ScopeTypeOK'
    BY DEF ScopeTypeOK, RemoveConnection, Selection
  <2>2. Checked'
    BY DEF Checked, RemoveConnection, Own
  <2> QED BY <2>1, <2>2 DEF RemoveConnection, ScopeIsOwned, CachedUnderItsConnection,
        AgentStaysPinned, ResolvedToKey, PinnedToChosen
<1>2. CASE DeleteRow
  <2>1. talk' = [talk EXCEPT !.pinned = talk'.pinned] /\ talk'.pinned \in {talk.pinned, None}
    BY <1>2 DEF DeleteRow, ScopeTypeOK
  <2>2. ScopeTypeOK'
    BY <1>2 DEF ScopeTypeOK, DeleteRow, Selection
  <2>3. ScopeIsOwned'
    BY <1>2 DEF ScopeTypeOK, ScopeIsOwned, DeleteRow
  <2>4. Checked'
    BY <1>2 DEF ScopeTypeOK, Checked, DeleteRow
  <2>5. AgentStaysPinned' /\ PinnedToChosen'
    BY <2>1 DEF ScopeTypeOK, AgentStaysPinned, PinnedToChosen
  <2> QED BY <1>2, <2>2, <2>3, <2>4, <2>5 DEF DeleteRow, CachedUnderItsConnection, ResolvedToKey
<1>3. CASE ReloadSettings
  <2>1. ScopeTypeOK'
    BY <1>3 DEF ScopeTypeOK, ReloadSettings
  <2>2. Checked'
    BY <1>3 DEF ScopeTypeOK, Checked, ReloadSettings, ScopeIsOwned, Own
  <2> QED BY <1>3, <2>1, <2>2 DEF ReloadSettings, ScopeIsOwned, CachedUnderItsConnection,
        AgentStaysPinned, ResolvedToKey, PinnedToChosen
<1>4. CASE SettleRemoval
  <2>1. removal.stage = "arrive" => removal.tab \in Tab \cup {None}
    BY DEF ScopeTypeOK
  <2>2. /\ shown' \in [Tab -> Own]
        /\ cached' \in [Tab -> [Mine -> (SUBSET Mine) \cup {None}]]
        /\ CachedUnderItsConnection'
        /\ loading' \subseteq loading
    <3>1. CASE removal.stage = "arrive" /\ removal.tab \in Tab
      <4>1. DropQueries(removal.tab) /\ CancelQueries(removal.tab)
        BY <1>4, <3>1 DEF SettleRemoval
      <4>2. shown' \in [Tab -> Own]
        BY <1>4, <3>1 DEF SettleRemoval, ScopeTypeOK, Checked, Own
      <4> QED BY <3>1, <4>1, <4>2, DropKeeps DEF CancelQueries
    <3>2. CASE removal.stage = "arrive" /\ removal.tab \notin Tab
      <4>1. shown' = shown /\ cached' = cached
        <5>1. shown' = [shown EXCEPT ![removal.tab] = removal.answer]
          BY <1>4, <3>2 DEF SettleRemoval
        <5>2. cached' = [cached EXCEPT ![removal.tab] = [k \in Mine |-> None]]
          BY <1>4, <3>2 DEF SettleRemoval, DropQueries
        <5> QED BY <3>2, <5>1, <5>2 DEF ScopeTypeOK
      <4>2. loading' \subseteq loading
        BY <1>4, <3>2 DEF SettleRemoval, CancelQueries
      <4> QED BY <4>1, <4>2 DEF ScopeTypeOK, CachedUnderItsConnection, Own
    <3>3. CASE removal.stage # "arrive"
      BY <1>4, <3>3 DEF SettleRemoval, ScopeTypeOK, CachedUnderItsConnection, Own
    <3> QED BY <3>1, <3>2, <3>3
  <2>3. last' \in [Tab -> (SUBSET Mine) \cup {None}]
    BY <1>4, <2>2, RememberType DEF SettleRemoval
  <2>4. removal' = NoRemoval
    BY <1>4 DEF SettleRemoval
  <2>5. ScopeTypeOK'
    BY <1>4, <2>2, <2>3, <2>4 DEF ScopeTypeOK, SettleRemoval, NoRemoval, Selection, Own
  <2>6. Checked'
    BY <1>4, <2>4 DEF Checked, SettleRemoval, NoRemoval, Own
  <2> QED BY <1>4, <2>2, <2>5, <2>6 DEF SettleRemoval, ScopeIsOwned,
        AgentStaysPinned, ResolvedToKey, PinnedToChosen
<1> QED BY <1>1, <1>2, <1>3, <1>4

(* A query: the header is compared when it is resolved, so its answer is   *)
(* about its key whatever was selected before and since.                   *)
LEMMA QueryStep ==
  ASSUME ScopeInv,
         \/ \E t \in Tab : RunQuery(t)
         \/ \E f \in loading : ResolveScope(f) \/ AnswerQuery(f)
  PROVE  ScopeInv'
<1> USE ScopeAssumption DEF ScopeInv
<1>1. CASE \E t \in Tab : RunQuery(t)
  <2> PICK t \in Tab : RunQuery(t) BY <1>1
  <2>1. ScopeTypeOK'
    BY DEF ScopeTypeOK, RunQuery
  <2>2. ResolvedToKey'
    BY DEF ResolvedToKey, RunQuery
  <2> QED BY <2>1, <2>2 DEF RunQuery, ScopeIsOwned, CachedUnderItsConnection,
        AgentStaysPinned, Checked, PinnedToChosen
<1>2. CASE \E f \in loading : ResolveScope(f)
  <2> PICK f \in loading : ResolveScope(f) BY <1>2
  <2>1. f \in [tab : Tab, key : Mine, scope : Own]
    BY DEF ScopeTypeOK, Own
  <2>2. ASSUME NEW g \in loading'
        PROVE  g \in [tab : Tab, key : Mine, scope : Own] /\ g.scope \in {None, g.key}
    <3>1. CASE g \in loading
      BY <3>1 DEF ScopeTypeOK, ResolvedToKey, Own
    <3>2. CASE g \notin loading
      <4>1. g = [f EXCEPT !.scope = setting] /\ f.key = setting /\ setting # None
        BY <3>2, <2>2 DEF ResolveScope, HeaderAgrees
      <4> QED BY <2>1, <4>1 DEF Own
    <3> QED BY <3>1, <3>2
  <2>3. ScopeTypeOK' /\ ResolvedToKey'
    BY <2>2 DEF ScopeTypeOK, ResolvedToKey, ResolveScope, Own
  <2> QED BY <2>3 DEF ResolveScope, ScopeIsOwned, CachedUnderItsConnection,
        AgentStaysPinned, Checked, PinnedToChosen
<1>3. CASE \E f \in loading : AnswerQuery(f)
  <2> PICK f \in loading : AnswerQuery(f) BY <1>3
  <2>1. f.tab \in Tab /\ f.key \in Mine /\ f.scope = f.key
    BY DEF ScopeTypeOK, ResolvedToKey, AnswerQuery
  <2>2. ListScoped(f.scope) \subseteq Mine /\ ListScoped(f.scope) \subseteq {f.key}
    BY <2>1, ListedOfScope DEF Selection
  <2>3. cached' = [cached EXCEPT ![f.tab][f.key] = ListScoped(f.scope)]
    BY DEF AnswerQuery
  <2>4. cached' \in [Tab -> [Mine -> (SUBSET Mine) \cup {None}]]
    BY <2>1, <2>2, <2>3 DEF ScopeTypeOK
  <2>5. CachedUnderItsConnection'
    BY <2>1, <2>2, <2>3 DEF ScopeTypeOK, CachedUnderItsConnection
  <2>6. last' \in [Tab -> (SUBSET Mine) \cup {None}]
    BY <2>4, RememberType DEF AnswerQuery, ScopeTypeOK, Own
  <2>7. ScopeTypeOK' /\ ResolvedToKey'
    BY <2>4, <2>6 DEF ScopeTypeOK, ResolvedToKey, AnswerQuery
  <2> QED BY <2>5, <2>7 DEF AnswerQuery, ScopeIsOwned, AgentStaysPinned, Checked, PinnedToChosen
<1> QED BY <1>1, <1>2, <1>3

(* A conversation and the reads of its agent.                              *)
LEMMA TalkStep ==
  ASSUME ScopeInv,
         \/ \E c \in Connection : StartTalk(c)
         \/ InsertTalk \/ AgentCall \/ AgentAnswer
  PROVE  ScopeInv'
<1> USE ScopeAssumption DEF ScopeInv
<1>1. CASE \E c \in Connection : StartTalk(c)
  <2>1. ScopeTypeOK'
    BY <1>1 DEF ScopeTypeOK, StartTalk, NoTalk, IsOwnedConnection, Selection
  <2>2. ScopeIsOwned' /\ AgentStaysPinned' /\ PinnedToChosen'
    <3>1. PICK c \in Connection : talk' = [NoTalk EXCEPT !.stage = "insert", !.chosen = c]
      BY <1>1 DEF StartTalk
    <3>2. talk'.pinned = None /\ talk'.scope = None /\ talk'.read = {}
      BY <3>1 DEF NoTalk
    <3>3. setting' = setting /\ rows' = rows
      BY <1>1 DEF StartTalk
    <3> QED BY <3>2, <3>3 DEF ScopeIsOwned, AgentStaysPinned, PinnedToChosen
  <2> QED BY <1>1, <2>1, <2>2 DEF StartTalk, CachedUnderItsConnection, Checked, ResolvedToKey
<1>2. CASE InsertTalk
  <2>1. ScopeTypeOK'
    BY <1>2 DEF ScopeTypeOK, InsertTalk, NoTalk, Selection
  <2>2. ScopeIsOwned' /\ AgentStaysPinned' /\ PinnedToChosen'
    BY <1>2 DEF ScopeTypeOK, InsertTalk, NoTalk, ScopeIsOwned, AgentStaysPinned, PinnedToChosen
  <2> QED BY <1>2, <2>1, <2>2 DEF InsertTalk, CachedUnderItsConnection, Checked, ResolvedToKey
<1>3. CASE AgentCall
  <2>1. ScopeTypeOK'
    BY <1>3 DEF ScopeTypeOK, AgentCall, AgentScope
  <2>2. ScopeIsOwned' /\ AgentStaysPinned' /\ PinnedToChosen'
    BY <1>3 DEF ScopeTypeOK, AgentCall, AgentScope, ScopeIsOwned, AgentStaysPinned,
       PinnedToChosen
  <2> QED BY <1>3, <2>1, <2>2 DEF AgentCall, CachedUnderItsConnection, Checked, ResolvedToKey
<1>4. CASE AgentAnswer
  <2>1. /\ ListScoped(talk.scope) \subseteq Mine
        /\ ListScoped(talk.scope) \subseteq {talk.scope} \ {None}
    BY ListedOfScope DEF ScopeTypeOK
  <2>2. talk' = [talk EXCEPT !.stage = "open", !.scope = None, !.read = ListScoped(talk.scope)]
    BY <1>4 DEF AgentAnswer
  <2>3. ScopeTypeOK'
    BY <1>4, <2>1, <2>2 DEF ScopeTypeOK, AgentAnswer, Selection
  <2>4. ScopeIsOwned' /\ AgentStaysPinned' /\ PinnedToChosen'
    BY <1>4, <2>1, <2>2 DEF AgentAnswer, ScopeTypeOK, ScopeIsOwned, AgentStaysPinned,
       PinnedToChosen
  <2> QED BY <1>4, <2>3, <2>4 DEF AgentAnswer, CachedUnderItsConnection, Checked, ResolvedToKey
<1> QED BY <1>1, <1>2, <1>3, <1>4

LEMMA ScopeStep == ScopeInv /\ [ScopeNext]_scopeVars => ScopeInv'
<1> SUFFICES ASSUME ScopeInv, [ScopeNext]_scopeVars PROVE ScopeInv' OBVIOUS
<1>1. CASE UNCHANGED scopeVars
  BY <1>1 DEF ScopeInv, scopeVars, ScopeTypeOK, ScopeIsOwned, CachedUnderItsConnection,
     AgentStaysPinned, Checked, ResolvedToKey, PinnedToChosen
<1>2. CASE ScopeNext
  BY <1>2, PickStep, ShownStep, RemovalStep, QueryStep, TalkStep DEF ScopeNext
<1> QED BY <1>1, <1>2

LEMMA ScopeInvariant == ScopeSpec => []ScopeInv
BY ScopeInitInv, ScopeStep, PTL DEF ScopeSpec

-----------------------------------------------------------------------------
(* Every reachable state is well typed; a tab renders and caches only      *)
(* connections of the user.                                                *)
THEOREM ScopeTypeCorrect == ScopeSpec => []ScopeTypeOK
<1>1. ScopeInv => ScopeTypeOK BY DEF ScopeInv
<1> QED BY <1>1, ScopeInvariant, PTL

(* What is selected or pinned exists and is the user's, however removals   *)
(* fall between the check and the write of either path.                    *)
THEOREM SelectionIsOwned == ScopeSpec => []ScopeIsOwned
<1>1. ScopeInv => ScopeIsOwned BY DEF ScopeInv
<1> QED BY <1>1, ScopeInvariant, PTL

(* An answer is cached under no other connection than its own, for any     *)
(* number of tabs that select, remove and read.                            *)
THEOREM CacheIsOfItsKey == ScopeSpec => []CachedUnderItsConnection
<1>1. ScopeInv => CachedUnderItsConnection BY DEF ScopeInv
<1> QED BY <1>1, ScopeInvariant, PTL

(* An agent never reads another connection than the one its conversation   *)
(* was started with.                                                       *)
THEOREM AgentReadsItsConnection == ScopeSpec => []AgentStaysPinned
<1>1. ScopeInv => AgentStaysPinned BY DEF ScopeInv
<1> QED BY <1>1, ScopeInvariant, PTL

=============================================================================
