--------------------------- MODULE ConnectionScope ---------------------------
(***************************************************************************)
(* Which connection a read of financial data is about.  The selection is   *)
(* one column of user_settings; browser tabs hold copies of it and caches  *)
(* of answers keyed by it; a conversation holds a connection of its own,   *)
(* pinned when it is created.  Selections, removals and reads of several   *)
(* tabs interleave with each other between any two awaits.                 *)
(***************************************************************************)
EXTENDS FiniteSets

CONSTANTS
  Connection, Mine,   \* all connections, those of the user
  Tab, Viewing,       \* the user's tabs, those on a screen that reads finance data
  Pick, TabOf,        \* selections in flight and the tab of each
  KeepsPrevious,      \* the query shows the data of its previous key meanwhile
                      \* (useFinanceTransactions.ts), or nothing (useFinance.ts)
  None

Selection == Connection \cup {None}

ASSUME ScopeAssumption ==
  /\ Mine \subseteq Connection
  /\ Viewing \subseteq Tab
  /\ TabOf \in [Pick -> Tab]
  /\ KeepsPrevious \in BOOLEAN
  /\ None \notin Connection
  /\ \A C \in SUBSET Connection : C # None

VARIABLES
  rows,      \* the connections that exist
  setting,   \* user_settings.connectionId; a missing row reads as None
  pick,      \* selectConnection of each Pick
  removal,   \* the one removal of a connection in progress
  shown,     \* the settings query of each tab: the connection it renders
  cached,    \* per tab and key: whose rows were answered, None before
  loading,   \* the requests of finance queries in flight
  last,      \* what each tab rendered last from data of its own key
  talk       \* a conversation: its pinned connection and the agent's reads

scopeVars == <<rows, setting, pick, removal, shown, cached, loading, last, talk>>

NoPick == [stage |-> "idle", next |-> None, answer |-> None]
NoRemoval == [stage |-> "idle", tab |-> None, target |-> None, active |-> FALSE, answer |-> None]
NoTalk == [stage |-> "none", chosen |-> None, pinned |-> None, scope |-> None, read |-> {}]

ScopeInit ==
  /\ rows = Connection
  /\ setting \in Mine \cup {None}
  /\ pick = [p \in Pick |-> NoPick]
  /\ removal = NoRemoval
  /\ shown = [t \in Tab |-> setting]
  /\ cached = [t \in Tab |-> [k \in Mine |-> None]]
  /\ loading = {}
  /\ last = [t \in Tab |-> None]
  /\ talk = NoTalk

-----------------------------------------------------------------------------
(* A variation: the foreign key alone, which other users' rows satisfy.    *)
ExistsConnection(c) == c \in rows

IsOwnedConnection(c) == c \in rows \cap Mine

(* What listScopedConnections answers under a scope: no rows under null.   *)
ListScoped(scope) == {scope} \cap rows \cap Mine

(* A variation without the header, *)
AnyScope(key, scope) == TRUE

(* which financeContext compares with the selection it resolves.           *)
HeaderAgrees(key, scope) == key = scope

(* A variation that reads the selection when nothing is pinned any more.   *)
PinnedOrSelected == IF talk.pinned = None THEN setting ELSE talk.pinned

(* handleFinanceMcp: the column of the conversation, null or not.          *)
AgentScope == talk.pinned

(* After a change of `shown` or `cached`, a tab remembers its data.        *)
Remember ==
  last' = [t \in Tab |->
    IF KeepsPrevious /\ shown'[t] \in Mine /\ cached'[t][shown'[t]] # None
      THEN cached'[t][shown'[t]] ELSE last[t]]

(* cancelQueries and removeQueries of the scoped finance queries.          *)
CancelQueries(t) == loading' = {f \in loading : f.tab # t}

DropQueries(t) == cached' = [cached EXCEPT ![t] = [k \in Mine |-> None]]

-----------------------------------------------------------------------------
(* The menu of a tab: connections it knows of, which may have gone, and to *)
(* clear the one that is shown.                                            *)
Offered(t) == Connection \cup (IF shown[t] = None THEN {} ELSE {None})

(* selectConnection: provider reads of the previous selection are aborted, *)
(* then the PATCH is sent.                                                 *)
SelectConnection(p, next) ==
  /\ pick[p].stage = "idle" /\ next \in Offered(TabOf[p])
  /\ pick' = [pick EXCEPT ![p] = [stage |-> "check", next |-> next, answer |-> None]]
  /\ CancelQueries(TabOf[p])
  /\ UNCHANGED <<rows, setting, removal, shown, cached, last, talk>>

(* updateUserSettings, one D1 statement after the other: the ownership,    *)
CheckSelection(p) ==
  /\ pick[p].stage = "check"
  /\ pick' = [pick EXCEPT ![p] =
       IF pick[p].next = None \/ IsOwnedConnection(pick[p].next)
         THEN [@ EXCEPT !.stage = "write"] ELSE NoPick]
  /\ UNCHANGED <<rows, setting, removal, shown, cached, loading, last, talk>>

(* the UPDATE, which fails on the foreign key if the row has gone,         *)
WriteSelection(p) ==
  /\ pick[p].stage = "write"
  /\ IF pick[p].next \in rows \cup {None}
       THEN /\ setting' = pick[p].next
            /\ pick' = [pick EXCEPT ![p].stage = "read"]
       ELSE /\ pick' = [pick EXCEPT ![p] = NoPick]
            /\ UNCHANGED setting
  /\ UNCHANGED <<rows, removal, shown, cached, loading, last, talk>>

(* and the row read back, which another tab may have changed meanwhile.    *)
ReadSelection(p) ==
  /\ pick[p].stage = "read"
  /\ pick' = [pick EXCEPT ![p].stage = "answered", ![p].answer = setting]
  /\ UNCHANGED <<rows, setting, removal, shown, cached, loading, last, talk>>

(* The answer becomes the settings of the tab; removeQueries.              *)
ApplySelection(p) ==
  /\ pick[p].stage = "answered"
  /\ shown' = [shown EXCEPT ![TabOf[p]] = pick[p].answer]
  /\ DropQueries(TabOf[p])
  /\ CancelQueries(TabOf[p])
  /\ pick' = [pick EXCEPT ![p] = NoPick]
  /\ UNCHANGED <<rows, setting, removal, talk>>
  /\ Remember

(* The settings query goes stale and is read again (window focus).         *)
RefreshSettings(t) ==
  /\ shown' = [shown EXCEPT ![t] = setting]
  /\ UNCHANGED <<rows, setting, pick, removal, cached, loading, talk>>
  /\ Remember

-----------------------------------------------------------------------------
(* remove in connectionSettings.tsx; `active` is the selection this render *)
(* of the tab knew.                                                        *)
RemoveConnection(t, c) ==
  /\ removal.stage = "idle"
  /\ c \in rows \cap Mine
  /\ removal' = [stage |-> "sent", tab |-> t, target |-> c,
                 active |-> shown[t] = c, answer |-> None]
  /\ UNCHANGED <<rows, setting, pick, shown, cached, loading, last, talk>>

(* DELETE, with ON DELETE SET NULL on both columns that name connections.  *)
DeleteRow ==
  /\ removal.stage = "sent"
  /\ rows' = rows \ {removal.target}
  /\ setting' = IF setting = removal.target THEN None ELSE setting
  /\ talk' = IF talk.pinned = removal.target THEN [talk EXCEPT !.pinned = None] ELSE talk
  /\ removal' = [removal EXCEPT !.stage = IF removal.active THEN "reload" ELSE "answered"]
  /\ UNCHANGED <<pick, shown, cached, loading, last>>

(* reloadConnection when the removed one was selected here: the settings   *)
(* are read again, then the scoped queries dropped.                        *)
ReloadSettings ==
  /\ removal.stage = "reload"
  /\ removal' = [removal EXCEPT !.stage = "arrive", !.answer = setting]
  /\ UNCHANGED <<rows, setting, pick, shown, cached, loading, last, talk>>

SettleRemoval ==
  /\ removal.stage \in {"arrive", "answered"}
  /\ removal' = NoRemoval
  /\ IF removal.stage = "arrive"
       THEN /\ shown' = [shown EXCEPT ![removal.tab] = removal.answer]
            /\ DropQueries(removal.tab)
            /\ CancelQueries(removal.tab)
       ELSE UNCHANGED <<shown, cached, loading>>
  /\ UNCHANGED <<rows, setting, pick, talk>>
  /\ Remember

-----------------------------------------------------------------------------
(* A query of a tab runs, for the first time or again: its key and its     *)
(* header both name the connection rendered.  Without one it is disabled.  *)
RunQuery(t) ==
  /\ t \in Viewing
  /\ shown[t] # None
  /\ ~\E f \in loading : f.tab = t /\ f.key = shown[t]
  /\ loading' = loading \cup {[tab |-> t, key |-> shown[t], scope |-> None]}
  /\ UNCHANGED <<rows, setting, pick, removal, shown, cached, last, talk>>

(* financeContext: the selection of now is the scope, or the request fails. *)
ResolveScope(f) ==
  /\ f.scope = None
  /\ loading' = (loading \ {f}) \cup
       (IF setting # None /\ HeaderAgrees(f.key, setting) THEN {[f EXCEPT !.scope = setting]} ELSE {})
  /\ UNCHANGED <<rows, setting, pick, removal, shown, cached, last, talk>>

(* The rows of that scope, in the cache of the tab under the query's key.  *)
AnswerQuery(f) ==
  /\ f.scope # None
  /\ loading' = loading \ {f}
  /\ cached' = [cached EXCEPT ![f.tab][f.key] = ListScoped(f.scope)]
  /\ UNCHANGED <<rows, setting, pick, removal, shown, talk>>
  /\ Remember

-----------------------------------------------------------------------------
(* POST /v1/conversations with the connection a tab renders: the ownership *)
(* check, then the insert, which the foreign key may refuse.               *)
StartTalk(c) ==
  /\ talk.stage = "none"
  /\ IsOwnedConnection(c)
  /\ talk' = [NoTalk EXCEPT !.stage = "insert", !.chosen = c]
  /\ UNCHANGED <<rows, setting, pick, removal, shown, cached, loading, last>>

InsertTalk ==
  /\ talk.stage = "insert"
  /\ talk' = IF talk.chosen \in rows
               THEN [talk EXCEPT !.stage = "open", !.pinned = talk.chosen] ELSE NoTalk
  /\ UNCHANGED <<rows, setting, pick, removal, shown, cached, loading, last>>

(* A tool call of the agent: /mcp reads the conversation row, *)
AgentCall ==
  /\ talk.stage = "open"
  /\ talk' = [talk EXCEPT !.stage = "call", !.scope = AgentScope]
  /\ UNCHANGED <<rows, setting, pick, removal, shown, cached, loading, last>>

(* and FinanceRepository the rows of the scope.                            *)
AgentAnswer ==
  /\ talk.stage = "call"
  /\ talk' = [talk EXCEPT !.stage = "open", !.scope = None, !.read = ListScoped(talk.scope)]
  /\ UNCHANGED <<rows, setting, pick, removal, shown, cached, loading, last>>

-----------------------------------------------------------------------------
ScopeNext ==
  \/ \E p \in Pick :
       \/ \E c \in Selection : SelectConnection(p, c)
       \/ CheckSelection(p) \/ WriteSelection(p) \/ ReadSelection(p) \/ ApplySelection(p)
  \/ \E t \in Tab : RefreshSettings(t) \/ RunQuery(t) \/ \E c \in Mine : RemoveConnection(t, c)
  \/ DeleteRow \/ ReloadSettings \/ SettleRemoval
  \/ \E f \in loading : ResolveScope(f) \/ AnswerQuery(f)
  \/ \E c \in Connection : StartTalk(c)
  \/ InsertTalk \/ AgentCall \/ AgentAnswer

ScopeSpec == ScopeInit /\ [][ScopeNext]_scopeVars

(***************************************************************************)
(* Properties.                                                             *)
(***************************************************************************)
ScopeTypeOK ==
  /\ rows \subseteq Connection
  /\ setting \in Selection
  /\ pick \in [Pick -> [stage : {"idle", "check", "write", "read", "answered"},
                        next : Selection, answer : Selection]]
  /\ removal \in [stage : {"idle", "sent", "answered", "reload", "arrive"},
                  tab : Tab \cup {None}, target : Mine \cup {None}, active : BOOLEAN,
                  answer : Selection]
  /\ shown \in [Tab -> Mine \cup {None}]
  /\ cached \in [Tab -> [Mine -> (SUBSET Mine) \cup {None}]]
  /\ loading \subseteq [tab : Tab, key : Mine, scope : Mine \cup {None}]
  /\ last \in [Tab -> (SUBSET Mine) \cup {None}]
  /\ talk \in [stage : {"none", "insert", "open", "call"}, chosen : Mine \cup {None},
               pinned : Selection, scope : Selection, read : SUBSET Mine]

(* What is selected or pinned exists and belongs to the user, though       *)
(* neither path checks and writes in one statement and connections are     *)
(* removed in between (settings/queries.ts:48-73, conversations/           *)
(* service.ts:31-39): the check holds off foreign rows, the key lost ones. *)
ScopeIsOwned == {setting, talk.pinned} \subseteq (rows \cap Mine) \cup {None}

(* An answer is cached only under the connection it is about, whatever     *)
(* other tabs select between rendering, request and answer                 *)
(* (finance/routes.ts:52-57).                                              *)
CachedUnderItsConnection ==
  \A t \in Tab, k \in Mine : cached[t][k] # None => cached[t][k] \subseteq {k}

(* An agent reads the connection its conversation was started with or, once *)
(* that is removed, nothing: never the one selected by then                *)
(* (db/models/conversations.ts:15-19, finance/mcp.ts:221-232).             *)
AgentStaysPinned == talk.read \subseteq {talk.chosen}

(* What a tab renders: data of its key or, where the query keeps it, of    *)
(* the key before.                                                         *)
Screen(t) ==
  IF shown[t] # None /\ cached[t][shown[t]] # None THEN cached[t][shown[t]]
  ELSE IF last[t] # None THEN last[t] ELSE {}

(* "Null means nothing is selected: screens zero out and alert instead of  *)
(* querying" (connectionProvider.tsx:9).                                   *)
ScreensZeroOut == \A t \in Tab : shown[t] = None => Screen(t) = {}

=============================================================================
