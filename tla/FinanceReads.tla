---------------------------- MODULE FinanceReads ----------------------------
(***************************************************************************)
(* One request to FinanceService, from a route or an MCP tool: it loads    *)
(* the connection of its scope, asks Pluggy for the accounts of its items  *)
(* and for what belongs to the accounts, any of which may fail, and        *)
(* answers with what it got.  The connection may be removed meanwhile.     *)
(* Investments are listed in pages, each of them a request of its own.     *)
(* Balances, by which investments are sorted, stay as they are.            *)
(***************************************************************************)
EXTENDS FiniteSets, Integers

CONSTANTS
  Item, Account, ItemOf,
  Cards,        \* the accounts of type CREDIT
  Row, AccountOf, \* transactions
  Holding, HeldAt,  \* investments and their items
  Rank,         \* their order: currency, balance, institution, name, id
  Limits,       \* what a caller asks for on one page
  NoCursor,
  Foreign,      \* a cursor minted under another connection
  FirstItem,    \* itemIds[0]
  Stranger      \* an account of no connection in scope

ASSUME ReadsAssumption ==
  /\ ItemOf \in [Account -> Item] /\ Cards \subseteq Account
  /\ AccountOf \in [Row -> Account]
  /\ HeldAt \in [Holding -> Item]
  /\ Rank \in [Holding -> Int] /\ \A h, k \in Holding : Rank[h] = Rank[k] => h = k
  /\ Limits \subseteq Nat \ {0}
  /\ NoCursor \notin Holding /\ Foreign \notin Holding
  /\ FirstItem \in Item
  /\ Stranger \notin Account

(* The operations, as routes.ts and mcp.ts expose them; plans with and     *)
(* without an account are told apart.                                      *)
OfAccount == {"balanceByAccount", "bills", "billSummary", "plansOf"}
Whole == {"accounts", "balance", "transactions", "details", "instalments",
          "investments", "sources"}
Operation == OfAccount \cup Whole
ReadsRows == {"transactions", "details", "instalments", "plansOf"}
MayName == {"instalments", "plansOf", "investments"}  \* a connectionId of their own

VARIABLES
  connected,   \* the row of the connection in scope exists
  read,        \* the request
  walk         \* the caller's walk over the investments: the cursor of its last
               \* page, what its pages listed, twice or at all, and declared

readVars == <<connected, read, walk>>

NoRead == [stage |-> "idle", op |-> "none", of |-> {}, named |-> "none", cursor |-> NoCursor,
           limit |-> 0, found |-> FALSE, failing |-> {}, accounts |-> {}, rows |-> {},
           totals |-> {}, unavailable |-> {}, answer |-> "none"]

NoWalk == [next |-> NoCursor, found |-> FALSE, listed |-> {}, repeated |-> FALSE,
           declared |-> FALSE]

ReadsInit == connected \in BOOLEAN /\ read = NoRead /\ walk = NoWalk

End(answer) == read' = [read EXCEPT !.stage = "done", !.answer = answer]

(* `of` names one account or the transactions asked for, `named` a         *)
(* connection, that of the scope or another; `failing` is what the         *)
(* provider will not answer during the request.                            *)
Request(op, of, named, failing) ==
  /\ read.stage = "idle"
  /\ read' = [NoRead EXCEPT !.stage = "connection", !.op = op, !.of = of, !.named = named,
                            !.failing = failing]
  /\ UNCHANGED <<connected, walk>>

(* A page of investments: the first, or the one after the last, of a size  *)
(* of its own.                                                             *)
RequestPage(named, cursor, limit, failing) ==
  /\ read.stage = "idle"
  /\ cursor \in {NoCursor, walk.next, Foreign}
  /\ read' = [NoRead EXCEPT !.stage = "connection", !.op = "investments", !.named = named,
                            !.cursor = cursor, !.limit = limit, !.failing = failing]
  /\ UNCHANGED <<connected, walk>>

(* assertInScope, then requiredConnection.                                 *)
NamesMissing == read.named = "other" \/ (read.named = "scope" /\ ~connected)

(* listScopedConnections: the one row of the scope, or none; getInvestments *)
(* looks for the one that is named.                                        *)
LoadConnection ==
  /\ read.stage = "connection"
  /\ \/ read.op = "investments" /\ NamesMissing /\ End("connectionNotFound")
     \/ /\ ~(read.op = "investments" /\ NamesMissing)
        /\ read' = [read EXCEPT !.found = connected,
             !.stage = CASE read.op = "investments" -> "investments"
                         [] read.op = "sources" -> "sources"
                         [] OTHER -> "accounts"]
  /\ UNCHANGED <<connected, walk>>

(* loadAccounts: the items in parallel, one failure fails the connection.  *)
LoadAccounts ==
  /\ read.stage = "accounts"
  /\ LET answered == read.found /\ read.failing \cap Item = {} IN
     read' = [read EXCEPT
       !.accounts = IF answered THEN Account ELSE {},
       !.unavailable = IF read.found /\ ~answered THEN Item ELSE {},
       !.stage = IF read.op \in ReadsRows THEN "rows" ELSE "answer"]
  /\ UNCHANGED <<connected, walk>>

(* loadFinanceData: account after account, a failure leaves the others.    *)
LoadRows ==
  /\ read.stage = "rows"
  /\ read' = [read EXCEPT
       !.rows = {r \in Row : AccountOf[r] \in read.accounts \ read.failing},
       !.unavailable = @ \cup (read.accounts \cap read.failing),
       !.stage = "answer"]
  /\ UNCHANGED <<connected, walk>>

(* A variation without assertAvailable. *)
NeverRefused(op) == FALSE

(* getBalance, filteredTransactions and getTransactionDetails answer in    *)
(* full or not at all; the others say what is missing.                     *)
RefusesParts(op) == op \in {"balance", "transactions", "details"}

AnswerWhole ==
  /\ read.stage = "answer"
  /\ read.op \in Whole
  /\ \/ RefusesParts(read.op) /\ read.unavailable # {} /\ End("unavailable")
     \/ NamesMissing /\ End("connectionNotFound")
     \/ /\ ~(RefusesParts(read.op) /\ read.unavailable # {}) /\ ~NamesMissing
        /\ IF read.op = "details" /\ ~(read.of \subseteq read.rows)
             THEN End("rowNotFound") ELSE End("ok")
  /\ UNCHANGED <<connected, walk>>

(* A variation that does not look at what was unavailable. *)
MissingIsAbsent == "accountNotFound"

(* assertOwnedAccount: absent, unless the connection could not be read.    *)
Missing == IF read.unavailable # {} THEN "unavailable" ELSE "accountNotFound"

AnswerAccount ==
  /\ read.stage = "answer"
  /\ read.op \in OfAccount
  /\ CASE ~(read.of \subseteq read.accounts) ->
              End(IF read.op = "plansOf" THEN "accountNotFound" ELSE Missing)
       [] read.of \subseteq read.accounts /\ read.op = "balanceByAccount" -> End("ok")
       [] read.of \subseteq read.accounts \ Cards /\ read.op # "balanceByAccount" ->
              End("wrongType")
       [] read.of \subseteq read.accounts \cap Cards /\ read.op = "plansOf" /\ NamesMissing ->
              End("connectionNotFound")
       [] read.of \subseteq read.accounts \cap Cards /\ read.op = "plansOf" /\ ~NamesMissing ->
              read' = [read EXCEPT !.stage = "done", !.answer = "ok",
                                   !.rows = {r \in @ : AccountOf[r] \in read.of}]
       [] OTHER -> read' = [read EXCEPT !.stage = "client"]
  /\ UNCHANGED <<connected, walk>>

(* getBills and getBillSummary read the row again, then the bills and the  *)
(* transactions of the card; a failure there is the answer.                *)
ReadCard ==
  /\ read.stage = "client"
  /\ IF ~connected THEN End("connectionNotFound")
     ELSE IF read.of \cap read.failing # {} THEN End("unavailable")
     ELSE read' = [read EXCEPT !.stage = "done", !.answer = "ok",
                                !.rows = {r \in Row : AccountOf[r] \in read.of}]
  /\ UNCHANGED <<connected, walk>>

(* getInvestments: item by item, each failure on its own; a cursor stands  *)
(* for a position, which must be among those that were read.  The totals   *)
(* are of all positions, the page is cut from those after the cursor.      *)
Positions == IF read.found THEN {h \in Holding : HeldAt[h] \notin read.failing} ELSE {}

After(cursor) == {h \in Positions : cursor = NoCursor \/ Rank[cursor] < Rank[h]}

ListPage(page, next) ==
  LET first == read.cursor = NoCursor
      missing == IF read.found THEN Item \cap read.failing ELSE {}
  IN
  /\ read' = [read EXCEPT !.stage = "done", !.answer = "ok", !.rows = page,
                          !.totals = Positions, !.unavailable = missing]
  /\ walk' = [next |-> next, found |-> read.found,
              listed |-> IF first THEN page ELSE walk.listed \cup page,
              repeated |-> ~first /\ (walk.repeated \/ walk.listed \cap page # {}),
              declared |-> missing # {} \/ (~first /\ walk.declared)]

ReadInvestments ==
  /\ read.stage = "investments"
  /\ \/ /\ read.cursor \notin Positions \cup {NoCursor}
        /\ End("invalidCursor") /\ UNCHANGED walk
     \/ /\ read.cursor \in Positions \cup {NoCursor}
        /\ Cardinality(After(read.cursor)) <= read.limit
        /\ ListPage(After(read.cursor), NoCursor)
     \/ /\ read.cursor \in Positions \cup {NoCursor}
        /\ \E last \in After(read.cursor) :
             LET page == {h \in After(read.cursor) : Rank[h] <= Rank[last]} IN
             /\ Cardinality(page) = read.limit /\ page # After(read.cursor)
             /\ ListPage(page, last)
  /\ UNCHANGED connected

(* listSources: the first item and its consent stand for the connection.   *)
ReadSources ==
  /\ read.stage = "sources"
  /\ read' = [read EXCEPT !.stage = "done", !.answer = "ok",
       !.unavailable = IF read.found THEN {FirstItem} \cap read.failing ELSE {}]
  /\ UNCHANGED <<connected, walk>>

(* deleteConnection, in another request. *)
Disconnect ==
  /\ connected
  /\ connected' = FALSE
  /\ UNCHANGED <<read, walk>>

Reset ==
  /\ read.stage = "done"
  /\ read' = NoRead
  /\ UNCHANGED <<connected, walk>>

Named(op) == IF op \in MayName THEN {"none", "scope", "other"} ELSE {"none"}

ReadsNext ==
  \/ \E op \in Whole \ {"investments"}, failing \in SUBSET (Item \cup Account) :
       \E of \in (IF op = "details" THEN SUBSET Row ELSE {{}}), named \in Named(op) :
         Request(op, of, named, failing)
  \/ \E op \in OfAccount, account \in Account \cup {Stranger}, failing \in SUBSET (Item \cup Account) :
       \E named \in Named(op) : Request(op, {account}, named, failing)
  \/ \E named \in Named("investments"), cursor \in Holding \cup {NoCursor, Foreign},
        limit \in Limits, failing \in SUBSET Item : RequestPage(named, cursor, limit, failing)
  \/ LoadConnection \/ LoadAccounts \/ LoadRows \/ AnswerWhole \/ AnswerAccount
  \/ ReadCard \/ ReadInvestments \/ ReadSources \/ Disconnect \/ Reset

ReadsSpec == ReadsInit /\ [][ReadsNext]_readVars

-----------------------------------------------------------------------------
(* All there is to answer, had every provider call been answered.          *)
Complete ==
  IF ~read.found THEN {}
  ELSE
    CASE read.op \in {"accounts", "balance"} -> Account
      [] read.op \in {"transactions", "details", "instalments"} -> Row
      [] read.op = "investments" -> Holding
      [] read.op \in {"bills", "billSummary", "plansOf"} -> {r \in Row : AccountOf[r] \in read.of}
      [] OTHER -> {}

Answered ==
  CASE read.op \in {"accounts", "balance"} -> read.accounts
    [] read.op = "investments" -> read.totals
    [] OTHER -> read.rows

AnswerComplete ==
  read.answer = "ok" =>
    \/ Answered = Complete
    \/ read.unavailable # {} /\ read.op \notin {"balance", "transactions", "details"}

(* Each page asks the provider again, and other items may fail each time.  *)
WalkComplete ==
  /\ ~walk.repeated
  /\ walk.found /\ walk.next = NoCursor => walk.listed = Holding \/ walk.declared

(* An answer holds everything the connection has, or says with it that     *)
(* something is unavailable, or is refused: a figure is never a sum over   *)
(* the accounts that happened to answer (service.ts 171-173, 645-706).     *)
(* And a walk over the investments that was followed to its end listed     *)
(* each of them, none twice, unless one of its pages said that something   *)
(* was unavailable (service.ts 495-557).                                   *)
CompleteOrDeclared == AnswerComplete /\ WalkComplete

(* An account is called not found only when the connection was read and    *)
(* does not have it, or there is none: not when Pluggy did not answer      *)
(* (service.ts 708-723).  listInstalmentPlans, which looks the account up  *)
(* itself (417-418), makes no such distinction.                            *)
NotFoundIsAbsent ==
  read.answer = "accountNotFound" /\ read.op # "plansOf" =>
    ~read.found \/ read.of = {Stranger}

=============================================================================
