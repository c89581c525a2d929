------------------------ MODULE FinanceReads_Proofs ------------------------
(***************************************************************************)
(* Reading financial data: the requests of FinanceReads, for any items,    *)
(* accounts, transactions and investments and any set of them the provider *)
(* does not answer for, and the period TransactionsScreen asks for, for    *)
(* any calendar and any day.  A request that is answered is answered in    *)
(* full or says that it is not, nothing is called not found because the    *)
(* provider was silent, and no day falls between two periods.  And the     *)
(* token those requests present: it has the skew left when it is taken.    *)
(***************************************************************************)
EXTENDS FinanceReads, TransactionsScreen, TokenTtl, TLAPS

Stage == {"idle", "connection", "accounts", "rows", "answer", "client", "investments",
          "sources", "done"}

ReadType ==
  [stage : Stage, op : Operation \cup {"none"}, of : SUBSET (Account \cup {Stranger} \cup Row),
   named : {"none", "scope", "other"}, cursor : Holding \cup {NoCursor, Foreign},
   limit : Limits \cup {0}, found : BOOLEAN, failing : SUBSET (Item \cup Account), accounts : SUBSET Account,
   rows : SUBSET (Row \cup Holding), totals : SUBSET Holding, unavailable : SUBSET (Item \cup Account),
   answer : {"none", "ok", "unavailable", "rowNotFound", "accountNotFound", "wrongType",
             "connectionNotFound", "invalidCursor"}]

WalkType == [next : Holding \cup {NoCursor}, found : BOOLEAN, listed : SUBSET Holding,
             repeated : BOOLEAN, declared : BOOLEAN]

(* A request about an account names one.                                   *)
NamesOne == read.op \in OfAccount => \E a \in Account \cup {Stranger} : read.of = {a}

(* Before anything was asked of the provider.                              *)
NothingLoaded ==
  read.stage \in {"connection", "accounts", "investments", "sources"} =>
    /\ read.op \in Operation
    /\ read.accounts = {} /\ read.rows = {} /\ read.unavailable = {} /\ read.answer = "none"
    /\ read.stage = "accounts" => read.op \notin {"investments", "sources"}
    /\ read.stage = "investments" => read.op = "investments"
    /\ read.stage = "sources" => read.op = "sources"

(* With the accounts loaded, what is missing of them was declared.         *)
AccountsOrDeclared ==
  read.stage \in {"rows", "answer", "client"} =>
    /\ read.op \in Operation \ {"investments", "sources"} /\ read.answer = "none"
    /\ ~read.found => read.accounts = {}
    /\ read.found /\ read.unavailable = {} => read.accounts = Account

(* So was what is missing of their transactions.                           *)
RowsOrDeclared ==
  read.stage \in {"rows", "answer", "client"} =>
    /\ read.stage = "rows" => read.op \in ReadsRows /\ read.rows = {}
    /\ read.stage = "client" => read.op \in {"bills", "billSummary"} /\ read.of \subseteq read.accounts
    /\ read.op \notin ReadsRows => read.rows = {}
    /\ read.stage = "answer" /\ read.op \in ReadsRows =>
         /\ read.rows = {r \in Row : AccountOf[r] \in read.accounts \ read.failing}
         /\ read.unavailable = {} => read.accounts \cap read.failing = {}

Connected == connected \in BOOLEAN

(* A page that is asked for follows the last one; the pages so far listed  *)
(* every investment up to their cursor, or declared, and none behind it.   *)
FollowsWalk ==
  read.stage \in {"connection", "investments"} =>
    read.cursor \in {NoCursor, walk.next, Foreign}

ListedSoFar ==
  walk.next # NoCursor =>
    /\ walk.found
    /\ \A h \in walk.listed : Rank[h] <= Rank[walk.next]
    /\ walk.declared \/ \A h \in Holding : Rank[h] <= Rank[walk.next] => h \in walk.listed

WalkInv == walk \in WalkType /\ FollowsWalk /\ ListedSoFar /\ WalkComplete

ReadsInv ==
  /\ read \in ReadType
  /\ NamesOne
  /\ NothingLoaded
  /\ AccountsOrDeclared
  /\ RowsOrDeclared
  /\ AnswerComplete
  /\ NotFoundIsAbsent

-----------------------------------------------------------------------------
(* Where nothing was declared missing, every transaction was read.         *)
LEMMA AllRows ==
  ASSUME ReadsInv, read.stage = "answer", read.op \in ReadsRows, read.unavailable = {}
  PROVE  read.rows = IF read.found THEN Row ELSE {}
<1>1. read.rows = {r \in Row : AccountOf[r] \in read.accounts}
  BY DEF ReadsInv, RowsOrDeclared
<1>2. CASE read.found
  BY <1>1, <1>2, ReadsAssumption DEF ReadsInv, AccountsOrDeclared
<1>3. CASE ~read.found
  BY <1>1, <1>3 DEF ReadsInv, AccountsOrDeclared
<1> QED BY <1>2, <1>3, Zenon

(* A request that ends without a result makes no promise but one.          *)
LEMMA EndKeeps ==
  ASSUME ReadsInv, NEW answer \in {"unavailable", "rowNotFound", "accountNotFound", "wrongType",
                                   "connectionNotFound", "invalidCursor"},
         answer = "accountNotFound" => read.op = "plansOf" \/ ~read.found \/ read.of = {Stranger},
         End(answer)
  PROVE  ReadsInv'
<1>1. read' = [read EXCEPT !.stage = "done", !.answer = answer]
  BY DEF End
<1>2. read' \in ReadType
  BY <1>1 DEF ReadsInv, ReadType, Stage
<1>3. /\ read'.stage = "done" /\ read'.answer = answer /\ read'.op = read.op
      /\ read'.of = read.of /\ read'.found = read.found
  BY <1>1 DEF ReadsInv, ReadType
<1> QED BY <1>2, <1>3 DEF ReadsInv, NamesOne, NothingLoaded, AccountsOrDeclared, RowsOrDeclared,
       AnswerComplete, NotFoundIsAbsent

LEMMA ReadsInitInv == ReadsInit => ReadsInv
BY DEF ReadsInit, NoRead, ReadsInv, ReadType, Stage, NamesOne, NothingLoaded, AccountsOrDeclared,
   RowsOrDeclared, AnswerComplete, NotFoundIsAbsent, OfAccount

LEMMA RequestStep ==
  ASSUME ReadsInv, NEW op \in Operation, NEW of \in SUBSET (Account \cup {Stranger} \cup Row),
         NEW failing \in SUBSET (Item \cup Account),
         op \in OfAccount => \E a \in Account \cup {Stranger} : of = {a},
         NEW named \in {"none", "scope", "other"}, Request(op, of, named, failing)
  PROVE  ReadsInv'
<1>1. read' = [NoRead EXCEPT !.stage = "connection", !.op = op, !.of = of, !.named = named,
                             !.failing = failing]
  BY DEF Request
<1>2. read' \in ReadType
  BY <1>1 DEF NoRead, ReadType, Stage
<1>3. /\ read'.stage = "connection" /\ read'.op = op /\ read'.of = of /\ read'.accounts = {}
      /\ read'.rows = {} /\ read'.unavailable = {} /\ read'.answer = "none"
  BY <1>1 DEF NoRead
<1> QED BY <1>2, <1>3 DEF ReadsInv, NamesOne, NothingLoaded, AccountsOrDeclared, RowsOrDeclared,
       AnswerComplete, NotFoundIsAbsent

LEMMA RequestPageStep ==
  ASSUME ReadsInv, NEW named \in {"none", "scope", "other"},
         NEW cursor \in Holding \cup {NoCursor, Foreign}, NEW limit \in Limits,
         NEW failing \in SUBSET Item, RequestPage(named, cursor, limit, failing)
  PROVE  ReadsInv'
<1>1. read' = [NoRead EXCEPT !.stage = "connection", !.op = "investments", !.named = named,
                             !.cursor = cursor, !.limit = limit, !.failing = failing]
  BY DEF RequestPage
<1>2. read' \in ReadType
  BY <1>1 DEF NoRead, ReadType, Stage, Operation, Whole
<1>3. /\ read'.stage = "connection" /\ read'.op = "investments" /\ read'.of = {}
      /\ read'.accounts = {} /\ read'.rows = {} /\ read'.unavailable = {}
      /\ read'.answer = "none"
  BY <1>1 DEF NoRead
<1> QED BY <1>2, <1>3 DEF ReadsInv, NamesOne, NothingLoaded, AccountsOrDeclared, RowsOrDeclared,
       AnswerComplete, NotFoundIsAbsent, Operation, Whole, OfAccount

LEMMA LoadConnectionStep == ASSUME ReadsInv, Connected, LoadConnection PROVE ReadsInv'
<1> DEFINE next == read'.stage
<1>0. CASE End("connectionNotFound")
  BY <1>0, EndKeeps
<1> SUFFICES ASSUME ~End("connectionNotFound") PROVE ReadsInv'
  BY <1>0
<1>1. /\ read' = [read EXCEPT !.found = connected, !.stage = next]
      /\ next \in {"investments", "sources", "accounts"}
      /\ next = "investments" => read.op = "investments"
      /\ next = "sources" => read.op = "sources"
      /\ next = "accounts" => read.op \notin {"investments", "sources"}
  BY DEF ReadsInv, ReadType, LoadConnection
<1>2. read' \in ReadType
  BY <1>1 DEF Connected, ReadsInv, ReadType, Stage
<1>3. /\ read'.op = read.op /\ read'.of = read.of /\ read'.accounts = read.accounts
      /\ read'.rows = read.rows /\ read'.unavailable = read.unavailable
      /\ read'.answer = read.answer
  BY <1>1 DEF ReadsInv, ReadType
<1> QED BY <1>1, <1>2, <1>3 DEF LoadConnection, ReadsInv, NamesOne, NothingLoaded,
       AccountsOrDeclared, RowsOrDeclared, AnswerComplete, NotFoundIsAbsent

LEMMA LoadAccountsStep == ASSUME ReadsInv, LoadAccounts PROVE ReadsInv'
<1> DEFINE answered == read.found /\ read.failing \cap Item = {}
<1>0. read.stage = "accounts" /\ read.op \in Operation \ {"investments", "sources"}
  BY DEF LoadAccounts, ReadsInv, NothingLoaded
<1>1. /\ read'.accounts = (IF answered THEN Account ELSE {})
      /\ read'.unavailable = (IF read.found /\ ~answered THEN Item ELSE {})
      /\ read'.stage = (IF read.op \in ReadsRows THEN "rows" ELSE "answer")
      /\ read'.op = read.op /\ read'.of = read.of /\ read'.found = read.found
      /\ read'.rows = {} /\ read'.answer = "none"
  BY <1>0 DEF LoadAccounts, ReadsInv, NothingLoaded, ReadType
<1>2. read' \in ReadType
  <2> DEFINE accounts == IF answered THEN Account ELSE {}
             unavailable == IF read.found /\ ~answered THEN Item ELSE {}
             stage == IF read.op \in ReadsRows THEN "rows" ELSE "answer"
  <2>1. /\ read' = [read EXCEPT !.accounts = accounts, !.unavailable = unavailable,
                                !.stage = stage]
        /\ accounts \in SUBSET Account /\ unavailable \in SUBSET (Item \cup Account)
        /\ stage \in Stage
    BY DEF LoadAccounts, Stage
  <2> HIDE DEF accounts, unavailable, stage
  <2> QED BY <2>1 DEF ReadsInv, ReadType
<1>3. AccountsOrDeclared'
  BY <1>0, <1>1, ReadsAssumption DEF AccountsOrDeclared
<1>4. RowsOrDeclared'
  BY <1>0, <1>1 DEF RowsOrDeclared
<1> QED BY <1>1, <1>2, <1>3, <1>4 DEF ReadsInv, NamesOne, NothingLoaded, AnswerComplete,
       NotFoundIsAbsent

LEMMA LoadRowsStep == ASSUME ReadsInv, LoadRows PROVE ReadsInv'
<1>0. read.stage = "rows" /\ read.op \in ReadsRows
  BY DEF LoadRows, ReadsInv, RowsOrDeclared
<1>1. /\ read'.rows = {r \in Row : AccountOf[r] \in read.accounts \ read.failing}
      /\ read'.unavailable = read.unavailable \cup (read.accounts \cap read.failing)
      /\ read'.stage = "answer" /\ read'.accounts = read.accounts
      /\ read'.failing = read.failing /\ read'.op = read.op /\ read'.of = read.of
      /\ read'.found = read.found /\ read'.answer = read.answer
  BY DEF LoadRows, ReadsInv, ReadType
<1>2. read' \in ReadType
  <2> DEFINE rows == {r \in Row : AccountOf[r] \in read.accounts \ read.failing}
             unavailable == read.unavailable \cup (read.accounts \cap read.failing)
  <2>1. /\ read' = [read EXCEPT !.rows = rows, !.unavailable = unavailable, !.stage = "answer"]
        /\ rows \in SUBSET (Row \cup Holding) /\ unavailable \in SUBSET (Item \cup Account)
    BY DEF LoadRows, ReadsInv, ReadType
  <2> HIDE DEF rows, unavailable
  <2> QED BY <2>1 DEF ReadsInv, ReadType, Stage
<1>3. AccountsOrDeclared' /\ RowsOrDeclared'
  BY <1>0, <1>1 DEF ReadsInv, AccountsOrDeclared, RowsOrDeclared
<1>4. read'.answer = "none"
  BY <1>0, <1>1 DEF ReadsInv, AccountsOrDeclared
<1> QED BY <1>1, <1>2, <1>3, <1>4 DEF ReadsInv, NamesOne, NothingLoaded, AnswerComplete,
       NotFoundIsAbsent

(* The answer of a request about everything in scope.                      *)
LEMMA AnswerWholeStep == ASSUME ReadsInv, AnswerWhole PROVE ReadsInv'
<1>0. read.stage = "answer" /\ read.op \in Whole
  BY DEF AnswerWhole
<1>1. CASE \E answer \in {"unavailable", "connectionNotFound", "rowNotFound"} : End(answer)
  BY <1>1, EndKeeps
<1>2. CASE End("ok") /\ ~(RefusesParts(read.op) /\ read.unavailable # {})
  <2>1. read' = [read EXCEPT !.stage = "done", !.answer = "ok"]
    BY <1>2 DEF End
  <2>2. read' \in ReadType
    BY <2>1 DEF ReadsInv, ReadType, Stage
  <2>3. /\ read'.stage = "done" /\ read'.answer = "ok" /\ read'.op = read.op
        /\ read'.of = read.of /\ read'.found = read.found /\ read'.rows = read.rows
        /\ read'.accounts = read.accounts /\ read'.unavailable = read.unavailable
    BY <2>1 DEF ReadsInv, ReadType
  <2>4. CASE read.unavailable # {}
    <3>1. read.op \notin {"balance", "transactions", "details"}
      BY <1>2, <2>4 DEF RefusesParts
    <3> QED BY <2>2, <2>3, <2>4, <3>1 DEF ReadsInv, NamesOne, NothingLoaded,
          AccountsOrDeclared, RowsOrDeclared, AnswerComplete, NotFoundIsAbsent
  <2>5. CASE read.unavailable = {}
    <3>1. read.op \in {"accounts", "balance", "transactions", "details", "instalments"}
      BY <1>0 DEF ReadsInv, AccountsOrDeclared, Whole
    <3>2. Answered' = Complete'
      <4>1. CASE read.op \in {"accounts", "balance"}
        <5>1. read.accounts = IF read.found THEN Account ELSE {}
          BY <1>0, <2>5 DEF ReadsInv, AccountsOrDeclared
        <5> QED BY <2>3, <4>1, <5>1 DEF Answered, Complete
      <4>2. CASE read.op \in {"transactions", "details", "instalments"}
        <5>1. read.rows = IF read.found THEN Row ELSE {}
          BY <1>0, <2>5, <4>2, AllRows DEF ReadsRows
        <5> QED BY <2>3, <4>2, <5>1 DEF Answered, Complete
      <4> QED BY <3>1, <4>1, <4>2
    <3> QED BY <2>2, <2>3, <3>2 DEF ReadsInv, NamesOne, NothingLoaded,
          AccountsOrDeclared, RowsOrDeclared, AnswerComplete, NotFoundIsAbsent
  <2> QED BY <2>4, <2>5
<1> QED BY <1>1, <1>2 DEF AnswerWhole

(* The answer of a request about one account.                              *)
LEMMA AnswerAccountStep == ASSUME ReadsInv, AnswerAccount PROVE ReadsInv'
<1>0. /\ read.stage = "answer" /\ read.op \in OfAccount /\ read.answer = "none"
      /\ \E a \in Account \cup {Stranger} : read.of = {a}
  BY DEF AnswerAccount, ReadsInv, NamesOne, AccountsOrDeclared
<1>1. CASE ~(read.of \subseteq read.accounts)
  <2>1. CASE read.op = "plansOf"
    <3>1. End("accountNotFound")
      BY <1>1, <2>1 DEF AnswerAccount
    <3> QED BY <2>1, <3>1, EndKeeps
  <2>2. CASE read.op # "plansOf" /\ read.unavailable # {}
    <3>1. End("unavailable")
      BY <1>1, <2>2 DEF AnswerAccount, Missing
    <3> QED BY <3>1, EndKeeps
  <2>3. CASE read.op # "plansOf" /\ read.unavailable = {}
    <3>1. End("accountNotFound")
      BY <1>1, <2>3 DEF AnswerAccount, Missing
    <3>2. ~read.found \/ read.of = {Stranger}
      BY <1>0, <1>1, <2>3 DEF ReadsInv, AccountsOrDeclared
    <3> QED BY <3>1, <3>2, EndKeeps
  <2> QED BY <2>1, <2>2, <2>3
<1>2. CASE read.of \subseteq read.accounts /\ read.op = "balanceByAccount"
  <2>1. End("ok")
    BY <1>0, <1>2 DEF AnswerAccount
  <2>2. read' \in ReadType
    BY <2>1 DEF End, ReadsInv, ReadType, Stage
  <2>3. /\ read'.stage = "done" /\ read'.answer = "ok" /\ read'.op = read.op
        /\ read'.of = read.of /\ read'.rows = read.rows
    BY <2>1 DEF End, ReadsInv, ReadType
  <2>4. read.rows = {}
    BY <1>0, <1>2 DEF ReadsInv, RowsOrDeclared, ReadsRows
  <2>5. Answered' = Complete'
    BY <1>2, <2>3, <2>4 DEF Answered, Complete
  <2> QED BY <2>2, <2>3, <2>5 DEF ReadsInv, NamesOne, NothingLoaded,
        AccountsOrDeclared, RowsOrDeclared, AnswerComplete, NotFoundIsAbsent
<1>3. CASE read.of \subseteq read.accounts \ Cards /\ read.op # "balanceByAccount"
  <2>1. End("wrongType")
    BY <1>0, <1>3 DEF AnswerAccount
  <2> QED BY <2>1, EndKeeps
<1>4. CASE read.of \subseteq read.accounts \cap Cards /\ read.op = "plansOf" /\ ~NamesMissing
  <2>1. read' = [read EXCEPT !.stage = "done", !.answer = "ok",
                             !.rows = {r \in @ : AccountOf[r] \in read.of}]
    BY <1>0, <1>4 DEF AnswerAccount
  <2>2. read' \in ReadType
    <3> DEFINE rows == {r \in read.rows : AccountOf[r] \in read.of}
    <3>1. /\ read' = [read EXCEPT !.stage = "done", !.answer = "ok", !.rows = rows]
          /\ rows \in SUBSET (Row \cup Holding)
      BY <2>1 DEF ReadsInv, ReadType
    <3> HIDE DEF rows
    <3> QED BY <3>1 DEF ReadsInv, ReadType, Stage
  <2>3. /\ read'.stage = "done" /\ read'.answer = "ok" /\ read'.op = "plansOf"
        /\ read'.of = read.of /\ read'.found = read.found
        /\ read'.unavailable = read.unavailable
        /\ read'.rows = {r \in read.rows : AccountOf[r] \in read.of}
    BY <1>4, <2>1 DEF ReadsInv, ReadType
  <2>4. read.unavailable = {} => Answered' = Complete'
    <3> SUFFICES ASSUME read.unavailable = {} PROVE Answered' = Complete' OBVIOUS
    <3>1. read.rows = IF read.found THEN Row ELSE {}
      BY <1>0, <1>4, AllRows DEF ReadsRows
    <3> QED BY <2>3, <3>1 DEF Answered, Complete
  <2> QED BY <1>4, <2>2, <2>3, <2>4 DEF ReadsInv, NamesOne, NothingLoaded,
        AccountsOrDeclared, RowsOrDeclared, AnswerComplete, NotFoundIsAbsent
<1>6. CASE read.of \subseteq read.accounts \cap Cards /\ read.op = "plansOf" /\ NamesMissing
  <2>1. End("connectionNotFound")
    BY <1>0, <1>6 DEF AnswerAccount
  <2> QED BY <2>1, EndKeeps
<1>5. CASE read.of \subseteq read.accounts \cap Cards /\ read.op \in {"bills", "billSummary"}
  <2>1. read' = [read EXCEPT !.stage = "client"]
    BY <1>0, <1>5 DEF AnswerAccount
  <2>2. read' \in ReadType
    BY <2>1 DEF ReadsInv, ReadType, Stage
  <2>3. /\ read'.stage = "client" /\ read'.answer = "none" /\ read'.op = read.op
        /\ read'.of = read.of /\ read'.found = read.found /\ read'.rows = read.rows
        /\ read'.accounts = read.accounts /\ read'.unavailable = read.unavailable
    BY <1>0, <2>1 DEF ReadsInv, ReadType
  <2> QED BY <1>0, <1>5, <2>2, <2>3 DEF ReadsInv, NamesOne, NothingLoaded,
        AccountsOrDeclared, RowsOrDeclared, AnswerComplete, NotFoundIsAbsent
<1> QED BY <1>0, <1>1, <1>2, <1>3, <1>4, <1>5, <1>6 DEF OfAccount

LEMMA ReadCardStep == ASSUME ReadsInv, ReadCard PROVE ReadsInv'
<1>0. /\ read.stage = "client" /\ read.op \in {"bills", "billSummary"}
      /\ read.of \subseteq read.accounts
      /\ ~read.found => read.of = {}
  BY DEF ReadCard, ReadsInv, RowsOrDeclared, AccountsOrDeclared
<1>1. CASE \E answer \in {"connectionNotFound", "unavailable"} : End(answer)
  BY <1>1, EndKeeps
<1>2. CASE read' = [read EXCEPT !.stage = "done", !.answer = "ok",
                                !.rows = {r \in Row : AccountOf[r] \in read.of}]
  <2>1. read' \in ReadType
    <3> DEFINE rows == {r \in Row : AccountOf[r] \in read.of}
    <3>1. /\ read' = [read EXCEPT !.stage = "done", !.answer = "ok", !.rows = rows]
          /\ rows \in SUBSET (Row \cup Holding)
      BY <1>2
    <3> HIDE DEF rows
    <3> QED BY <3>1 DEF ReadsInv, ReadType, Stage
  <2>2. /\ read'.stage = "done" /\ read'.answer = "ok" /\ read'.op = read.op
        /\ read'.of = read.of /\ read'.found = read.found
        /\ read'.rows = {r \in Row : AccountOf[r] \in read.of}
    BY <1>2 DEF ReadsInv, ReadType
  <2>3. Answered' = Complete'
    <3>1. CASE read.found
      BY <1>0, <2>2, <3>1 DEF Answered, Complete
    <3>2. CASE ~read.found
      BY <1>0, <2>2, <3>2 DEF Answered, Complete
    <3> QED BY <2>1, <3>1, <3>2 DEF ReadType
  <2> QED BY <2>1, <2>2, <2>3 DEF ReadsInv, NamesOne, NothingLoaded,
        AccountsOrDeclared, RowsOrDeclared, AnswerComplete, NotFoundIsAbsent
<1> QED BY <1>1, <1>2 DEF ReadCard

(* A page, whichever it is, comes with the totals of all that was read.    *)
LEMMA ListPageStep ==
  ASSUME ReadsInv, read.stage = "investments", NEW page \in SUBSET Positions,
         NEW next \in Holding \cup {NoCursor}, ListPage(page, next)
  PROVE  ReadsInv'
<1> DEFINE missing == IF read.found THEN Item \cap read.failing ELSE {}
<1>1. read' = [read EXCEPT !.stage = "done", !.answer = "ok", !.rows = page,
                           !.totals = Positions, !.unavailable = missing]
  BY DEF ListPage
<1>2. Positions \subseteq Holding
  BY DEF Positions
<1>3. read' \in ReadType
  BY <1>1, <1>2 DEF ReadsInv, ReadType, Stage
<1>4. /\ read'.stage = "done" /\ read'.answer = "ok" /\ read'.op = "investments"
      /\ read'.of = read.of /\ read'.found = read.found /\ read'.totals = Positions
      /\ read'.unavailable = missing
  BY <1>1 DEF ReadsInv, ReadType, NothingLoaded
<1>5. missing = {} => Answered' = Complete'
  BY <1>4, ReadsAssumption DEF Answered, Complete, Positions
<1> QED BY <1>3, <1>4, <1>5 DEF ReadsInv, NamesOne, NothingLoaded, AccountsOrDeclared,
       RowsOrDeclared, AnswerComplete, NotFoundIsAbsent, OfAccount

LEMMA ReadHoldingsStep ==
  ASSUME ReadsInv, ReadInvestments \/ ReadSources PROVE ReadsInv'
<1>1. CASE ReadInvestments
  <2>0. read.stage = "investments" /\ After(read.cursor) \subseteq Positions
        /\ Positions \subseteq Holding
    BY <1>1 DEF ReadInvestments, After, Positions
  <2>1. CASE End("invalidCursor")
    BY <2>1, EndKeeps
  <2>2. CASE ListPage(After(read.cursor), NoCursor)
    BY <2>0, <2>2, ListPageStep
  <2>3. ASSUME NEW last \in After(read.cursor),
               ListPage({h \in After(read.cursor) : Rank[h] <= Rank[last]}, last)
        PROVE  ReadsInv'
    <3>1. /\ {h \in After(read.cursor) : Rank[h] <= Rank[last]} \in SUBSET Positions
          /\ last \in Holding \cup {NoCursor}
      BY <2>0
    <3> QED BY <2>0, <2>3, <3>1, ListPageStep
  <2> QED BY <1>1, <2>1, <2>2, <2>3 DEF ReadInvestments
<1>2. CASE ReadSources
  <2>1. read' \in ReadType
    BY <1>2, ReadsAssumption DEF ReadSources, ReadsInv, ReadType, Stage
  <2>2. /\ read'.stage = "done" /\ read'.answer = "ok" /\ read'.op = "sources"
        /\ read'.of = read.of /\ read'.rows = {}
    BY <1>2 DEF ReadSources, ReadsInv, ReadType, NothingLoaded
  <2>3. Answered' = Complete'
    BY <2>2 DEF Answered, Complete
  <2> QED BY <2>1, <2>2, <2>3 DEF ReadsInv, NamesOne, NothingLoaded, AccountsOrDeclared,
        RowsOrDeclared, AnswerComplete, NotFoundIsAbsent, OfAccount
<1> QED BY <1>1, <1>2

(* The row of the connection is there or not, throughout.                  *)
LEMMA ConnectedStep == Connected /\ [ReadsNext]_readVars => Connected'
<1> SUFFICES ASSUME Connected, [ReadsNext]_readVars PROVE connected' = connected \/ connected' = FALSE
  BY DEF Connected
<1>1. CASE Disconnect \/ UNCHANGED readVars
  BY <1>1 DEF Disconnect, readVars
<1>2. CASE LoadConnection \/ LoadAccounts \/ LoadRows \/ ReadSources \/ Reset
  BY <1>2 DEF LoadConnection, LoadAccounts, LoadRows, ReadSources, Reset
<1>3. CASE AnswerWhole \/ AnswerAccount \/ ReadCard \/ ReadInvestments
  BY <1>3 DEF AnswerWhole, AnswerAccount, ReadCard, ReadInvestments
<1> QED BY <1>1, <1>2, <1>3, Zenon DEF ReadsNext, Request, RequestPage

LEMMA ReadsStep == Connected /\ ReadsInv /\ [ReadsNext]_readVars => ReadsInv'
<1> SUFFICES ASSUME Connected, ReadsInv, [ReadsNext]_readVars PROVE ReadsInv' OBVIOUS
<1>0. \A op \in Operation : Named(op) \subseteq {"none", "scope", "other"}
  BY DEF Named
<1>1. CASE \E op \in Whole \ {"investments"}, failing \in SUBSET (Item \cup Account) :
             \E of \in (IF op = "details" THEN SUBSET Row ELSE {{}}), named \in Named(op) :
               Request(op, of, named, failing)
  <2> PICK op \in Whole \ {"investments"}, failing \in SUBSET (Item \cup Account) :
             \E of \in (IF op = "details" THEN SUBSET Row ELSE {{}}), named \in Named(op) :
               Request(op, of, named, failing)
    BY <1>1
  <2>1. PICK of \in (IF op = "details" THEN SUBSET Row ELSE {{}}), named \in Named(op) :
          Request(op, of, named, failing)
    OBVIOUS
  <2>2. op \in Operation /\ op \notin OfAccount /\ of \in SUBSET (Account \cup {Stranger} \cup Row)
    BY DEF Operation, Whole, OfAccount
  <2>3. named \in {"none", "scope", "other"}
    BY <1>0, <2>2
  <2> QED BY <2>1, <2>2, <2>3, RequestStep
<1>2. CASE \E op \in OfAccount, account \in Account \cup {Stranger},
              failing \in SUBSET (Item \cup Account) :
             \E named \in Named(op) : Request(op, {account}, named, failing)
  <2> PICK op \in OfAccount, account \in Account \cup {Stranger},
           failing \in SUBSET (Item \cup Account) :
             \E named \in Named(op) : Request(op, {account}, named, failing)
    BY <1>2
  <2>1. PICK named \in Named(op) : Request(op, {account}, named, failing)
    OBVIOUS
  <2>2. op \in Operation /\ {account} \in SUBSET (Account \cup {Stranger} \cup Row)
    BY DEF Operation
  <2>3. named \in {"none", "scope", "other"}
    BY <1>0, <2>2
  <2> QED BY <2>1, <2>2, <2>3, RequestStep
<1>12. CASE \E named \in Named("investments"), cursor \in Holding \cup {NoCursor, Foreign},
              limit \in Limits, failing \in SUBSET Item : RequestPage(named, cursor, limit, failing)
  BY <1>0, <1>12, RequestPageStep DEF Named, MayName
<1>3. CASE LoadConnection
  BY <1>3, LoadConnectionStep
<1>4. CASE LoadAccounts
  BY <1>4, LoadAccountsStep
<1>5. CASE LoadRows
  BY <1>5, LoadRowsStep
<1>6. CASE AnswerWhole
  BY <1>6, AnswerWholeStep
<1>7. CASE AnswerAccount
  BY <1>7, AnswerAccountStep
<1>8. CASE ReadCard
  BY <1>8, ReadCardStep
<1>9. CASE ReadInvestments \/ ReadSources
  BY <1>9, ReadHoldingsStep
<1>10. CASE Disconnect \/ UNCHANGED readVars
  BY <1>10 DEF Disconnect, readVars, ReadsInv, NamesOne, NothingLoaded, AccountsOrDeclared,
     RowsOrDeclared, AnswerComplete, Answered, Complete, NotFoundIsAbsent
<1>11. CASE Reset
  <2>1. read' = NoRead /\ connected' = connected
    BY <1>11 DEF Reset
  <2> QED BY <2>1 DEF NoRead, ReadsInv, ReadType, Stage, NamesOne, NothingLoaded,
        AccountsOrDeclared, RowsOrDeclared, AnswerComplete, NotFoundIsAbsent, OfAccount
<1> QED BY <1>1, <1>2, <1>3, <1>4, <1>5, <1>6, <1>7, <1>8, <1>9, <1>10, <1>11, <1>12 DEF ReadsNext

(* The walk after a page: what it listed grows by what comes next, and an  *)
(* item that was silent is declared.                                       *)
LEMMA WalkOn ==
  ASSUME ReadsInv, WalkInv, read.stage = "investments", read.cursor \in Positions \cup {NoCursor},
         NEW next \in After(read.cursor) \cup {NoCursor}, NEW page,
         page = {h \in After(read.cursor) : next = NoCursor \/ Rank[h] <= Rank[next]},
         ListPage(page, next)
  PROVE  WalkInv'
<1> DEFINE first == read.cursor = NoCursor
           missing == IF read.found THEN Item \cap read.failing ELSE {}
<1>1. /\ walk' = [next |-> next, found |-> read.found,
                  listed |-> IF first THEN page ELSE walk.listed \cup page,
                  repeated |-> ~first /\ (walk.repeated \/ walk.listed \cap page # {}),
                  declared |-> missing # {} \/ (~first /\ walk.declared)]
      /\ read'.stage = "done"
  BY DEF ListPage, ReadsInv, ReadType
<1>2. /\ Positions \subseteq Holding /\ page \subseteq Holding /\ next \in Holding \cup {NoCursor}
      /\ read.found \in BOOLEAN /\ Rank \in [Holding -> Int] /\ NoCursor \notin Holding
  BY ReadsAssumption DEF ReadsInv, ReadType, Positions, After
<1>3. walk' \in WalkType
  BY <1>1, <1>2 DEF WalkInv, WalkType
<1>4. FollowsWalk'
  BY <1>1 DEF FollowsWalk
<1>5. ~first => /\ read.cursor = walk.next /\ walk.next \in Holding /\ read.found
                /\ \A h \in walk.listed : Rank[h] <= Rank[walk.next]
                /\ walk.declared \/ \A h \in Holding : Rank[h] <= Rank[walk.next] => h \in walk.listed
  <2> SUFFICES ASSUME ~first PROVE <1>5!2 OBVIOUS
  <2>1. read.cursor \in Positions /\ read.found
    BY DEF Positions
  <2>2. read.cursor \in Holding /\ read.cursor = walk.next
    BY <1>2, <2>1, ReadsAssumption DEF WalkInv, FollowsWalk
  <2> QED BY <1>2, <2>1, <2>2 DEF WalkInv, ListedSoFar
<1>6. missing = {} /\ read.found => Positions = Holding
  BY ReadsAssumption DEF Positions
<1>7. ~walk'.repeated
  <2>1. ~first => walk.listed \cap page = {}
    BY <1>2, <1>5 DEF After, WalkInv, WalkType
  <2> QED BY <1>1, <2>1 DEF WalkInv, WalkComplete
<1>8. ASSUME read.found, ~walk'.declared, NEW h \in Holding, next = NoCursor \/ Rank[h] <= Rank[next]
      PROVE  h \in walk'.listed
  <2>1. missing = {} /\ h \in Positions /\ (first \/ ~walk.declared)
    BY <1>1, <1>6, <1>8
  <2>2. CASE first \/ Rank[read.cursor] < Rank[h]
    BY <1>1, <1>8, <2>1, <2>2 DEF After
  <2>3. CASE ~first /\ ~(Rank[read.cursor] < Rank[h])
    BY <1>1, <1>2, <1>5, <2>1, <2>3
  <2> QED BY <2>2, <2>3
<1>9. ListedSoFar'
  <2> SUFFICES ASSUME next # NoCursor PROVE ListedSoFar'
    BY <1>1 DEF ListedSoFar
  <2>1. next \in After(read.cursor) /\ next \in Positions /\ read.found
    BY DEF After, Positions
  <2>2. \A h \in walk'.listed : Rank[h] <= Rank[next]
    <3>1. \A h \in page : Rank[h] <= Rank[next]
      OBVIOUS
    <3>2. ~first => \A h \in walk.listed : Rank[h] <= Rank[next]
      <4>1. ~first => Rank[walk.next] < Rank[next]
        BY <1>5, <2>1 DEF After
      <4> QED BY <1>2, <1>5, <4>1 DEF WalkInv, WalkType
    <3> QED BY <1>1, <3>1, <3>2
  <2> QED BY <1>1, <1>8, <2>1, <2>2 DEF ListedSoFar
<1>10. WalkComplete'
  <2>1. ASSUME walk'.found, walk'.next = NoCursor, ~walk'.declared PROVE walk'.listed = Holding
    <3>1. walk'.listed \subseteq Holding
      BY <1>3 DEF WalkType
    <3> QED BY <1>1, <1>8, <2>1, <3>1
  <2> QED BY <1>7, <2>1 DEF WalkComplete
<1> QED BY <1>3, <1>4, <1>9, <1>10 DEF WalkInv

LEMMA WalkStep == ReadsInv /\ WalkInv /\ [ReadsNext]_readVars => WalkInv'
<1> SUFFICES ASSUME ReadsInv, WalkInv, [ReadsNext]_readVars PROVE WalkInv' OBVIOUS
<1>1. CASE ReadInvestments
  <2>0. read.stage = "investments"
    BY <1>1 DEF ReadInvestments
  <2>1. CASE End("invalidCursor") /\ UNCHANGED walk
    BY <2>1 DEF End, ReadsInv, ReadType, WalkInv, FollowsWalk, ListedSoFar, WalkComplete
  <2>2. CASE read.cursor \in Positions \cup {NoCursor} /\ ListPage(After(read.cursor), NoCursor)
    <3>1. After(read.cursor) = {h \in After(read.cursor) : NoCursor = NoCursor
                                                        \/ Rank[h] <= Rank[NoCursor]}
      OBVIOUS
    <3> QED BY <2>0, <2>2, <3>1, WalkOn
  <2>3. ASSUME read.cursor \in Positions \cup {NoCursor}, NEW last \in After(read.cursor),
               ListPage({h \in After(read.cursor) : Rank[h] <= Rank[last]}, last)
        PROVE  WalkInv'
    <3>1. last # NoCursor
      BY ReadsAssumption DEF After, Positions
    <3>2. {h \in After(read.cursor) : Rank[h] <= Rank[last]} =
            {h \in After(read.cursor) : last = NoCursor \/ Rank[h] <= Rank[last]}
      BY <3>1
    <3> QED BY <2>0, <2>3, <3>2, WalkOn
  <2> QED BY <1>1, <2>1, <2>2, <2>3 DEF ReadInvestments
<1>2. CASE walk' = walk /\ (read'.stage \in {"connection", "investments"} =>
                              read'.cursor \in {NoCursor, walk.next, Foreign})
  BY <1>2 DEF WalkInv, FollowsWalk, ListedSoFar, WalkComplete
<1>5. CASE LoadConnection
  <2>1. read.stage = "connection" /\ read'.cursor = read.cursor /\ walk' = walk
    BY <1>5 DEF LoadConnection, End, ReadsInv, ReadType
  <2> QED BY <1>2, <2>1 DEF WalkInv, FollowsWalk
<1>6. CASE LoadAccounts \/ LoadRows \/ AnswerWhole \/ AnswerAccount \/ ReadCard \/ ReadSources \/ Reset
  <2>1. CASE LoadAccounts
    <3>1. walk' = walk /\ read'.stage \in {"rows", "answer"}
      BY <2>1 DEF LoadAccounts, ReadsInv, ReadType
    <3> QED BY <1>2, <3>1
  <2>5. CASE LoadRows
    <3>1. walk' = walk /\ read'.stage = "answer"
      BY <2>5 DEF LoadRows, ReadsInv, ReadType
    <3> QED BY <1>2, <3>1
  <2>6. CASE Reset
    <3>1. walk' = walk /\ read'.stage = "idle"
      BY <2>6 DEF Reset, NoRead
    <3> QED BY <1>2, <3>1
  <2>2. CASE AnswerWhole \/ ReadSources
    BY <1>2, <2>2 DEF AnswerWhole, ReadSources, End, ReadsInv, ReadType
  <2>3. CASE ReadCard
    BY <1>2, <2>3 DEF ReadCard, End, ReadsInv, ReadType
  <2>4. CASE AnswerAccount
    BY <1>2, <2>4 DEF AnswerAccount, End, OfAccount, ReadsInv, ReadType
  <2> QED BY <1>6, <2>1, <2>2, <2>3, <2>4, <2>5, <2>6
<1>7. CASE Disconnect \/ UNCHANGED readVars
  <2>1. walk' = walk /\ read' = read
    BY <1>7 DEF Disconnect, readVars
  <2> QED BY <1>2, <2>1 DEF WalkInv, FollowsWalk
<1>8. CASE \E op \in Whole \ {"investments"}, failing \in SUBSET (Item \cup Account) :
             \E of \in (IF op = "details" THEN SUBSET Row ELSE {{}}), named \in Named(op) :
               Request(op, of, named, failing)
  BY <1>2, <1>8 DEF Request, NoRead
<1>9. CASE \E op \in OfAccount, account \in Account \cup {Stranger},
              failing \in SUBSET (Item \cup Account) :
             \E named \in Named(op) : Request(op, {account}, named, failing)
  BY <1>2, <1>9 DEF Request, NoRead
<1>10. CASE \E named \in Named("investments"), cursor \in Holding \cup {NoCursor, Foreign},
              limit \in Limits, failing \in SUBSET Item : RequestPage(named, cursor, limit, failing)
  BY <1>2, <1>10 DEF RequestPage, NoRead
<1> QED BY <1>1, <1>5, <1>6, <1>7, <1>8, <1>9, <1>10 DEF ReadsNext

LEMMA WalkInit == ReadsInit => WalkInv
BY DEF ReadsInit, NoRead, NoWalk, WalkInv, WalkType, FollowsWalk, ListedSoFar, WalkComplete

LEMMA ReadsInvariant == ReadsSpec => [](ReadsInv /\ WalkInv)
<1>1. ReadsInit => Connected BY DEF ReadsInit, Connected
<1> QED BY <1>1, ReadsInitInv, WalkInit, ConnectedStep, ReadsStep, WalkStep, PTL DEF ReadsSpec

-----------------------------------------------------------------------------
(* No figure is computed from the accounts or items that happened to       *)
(* answer unless the answer says so, and a caller who followed the cursors *)
(* of getInvestments to the end saw every investment, none twice, unless a *)
(* page said that something was missing, whatever the provider does not    *)
(* answer for at each of the requests (service.ts:171-173, 495-557).       *)
THEOREM AnswersAreComplete == ReadsSpec => []CompleteOrDeclared
<1>1. ReadsInv /\ WalkInv => CompleteOrDeclared BY DEF ReadsInv, WalkInv, CompleteOrDeclared
<1> QED BY <1>1, ReadsInvariant, PTL

(* An account is not called not found because the provider was silent.     *)
THEOREM AbsentIsAbsent == ReadsSpec => []NotFoundIsAbsent
<1>1. ReadsInv => NotFoundIsAbsent BY DEF ReadsInv
<1> QED BY <1>1, ReadsInvariant, PTL

-----------------------------------------------------------------------------
(***************************************************************************)
(* The period of the transactions screen, whichever the URL named.  A      *)
(* month is shown from its first day, so the one before ends on the eve or *)
(* today, and today only when the month shown is still to come; a range    *)
(* and the one before it have the same length.                             *)
(***************************************************************************)

AnyMonth == Month \cup {MonthOf(day) : day \in Int}

SearchType == [period : {"month", "custom"}, month : AnyMonth, from : Int, to : Int,
               accounts : SUBSET Source, direction : Direction, query : Text]

(* The period of a search is a month, from its first day, or a range.      *)
Sound(s) ==
  /\ s \in SearchType /\ s.from <= s.to
  /\ s.period = "month" => s.month \in Month /\ s.from = FirstDay[s.month]

ScreenTyped ==
  /\ today \in FirstToday..LastToday
  /\ calendar \in [open : BOOLEAN, from : Int, to : Int]
  /\ typed \in [text : Text, waiting : BOOLEAN]

DraftIsRange == calendar.open /\ calendar.to # 0 => calendar.from <= calendar.to

ScreenInv == ScreenTyped /\ DraftIsRange /\ Sound(search) /\ (arriving # Here => Sound(arriving))

LEMMA MonthDays ==
  ASSUME NEW n \in Month
  PROVE  n \in Int /\ FirstDay[n] \in Int /\ FirstDay[n + 1] \in Int /\ FirstDay[n] < FirstDay[n + 1]
BY ScreenAssumption

LEMMA TodayIsDay == ASSUME today \in FirstToday..LastToday PROVE today \in Int
OBVIOUS

(* Today is in one month, and that one has begun.                          *)
LEMMA ThisMonth ==
  ASSUME today \in FirstToday..LastToday
  PROVE  /\ MonthOf(today) \in Month
         /\ FirstDay[MonthOf(today)] <= today /\ today < FirstDay[MonthOf(today) + 1]
BY ScreenAssumption DEF MonthOf

LEMMA RangeOfMonth ==
  ASSUME today \in FirstToday..LastToday, NEW n \in Month
  PROVE  /\ MonthRange(n).from = FirstDay[n] /\ MonthRange(n).to \in Int
         /\ FirstDay[n] \in Int /\ FirstDay[n] <= MonthRange(n).to
<1>1. n \in Int /\ FirstDay[n] \in Int /\ FirstDay[n + 1] \in Int /\ FirstDay[n] < FirstDay[n + 1]
      /\ today \in Int
  BY MonthDays
<1>2. n = MonthOf(today) => FirstDay[n] <= today
  BY ThisMonth
<1> QED BY <1>1, <1>2 DEF MonthRange

LEMMA ValidatedIsSound ==
  ASSUME today \in FirstToday..LastToday, NEW s \in SearchType,
         s.period = "month" => s.month \in Month,
         s.period = "custom" => s.from <= s.to
  PROVE  Sound(Validated(s))
<1>1. CASE s.period = "custom"
  BY <1>1 DEF Validated, Sound
<1>2. CASE s.period = "month"
  <2> DEFINE v == [s EXCEPT !.period = "month", !.from = MonthRange(s.month).from,
                            !.to = MonthRange(s.month).to]
  <2>1. Validated(s) = v
    BY <1>2 DEF Validated
  <2>2. /\ MonthRange(s.month).from = FirstDay[s.month] /\ MonthRange(s.month).to \in Int
        /\ FirstDay[s.month] \in Int /\ FirstDay[s.month] <= MonthRange(s.month).to
    BY <1>2, RangeOfMonth
  <2>3. v \in SearchType /\ v.period = "month" /\ v.month = s.month
        /\ v.from = FirstDay[s.month] /\ v.to = MonthRange(s.month).to
    BY <2>2 DEF SearchType
  <2> QED BY <1>2, <2>1, <2>2, <2>3 DEF Sound
<1> QED BY <1>1, <1>2 DEF SearchType

LEMMA ScreenInitInv == ScreenInit => ScreenInv
<1> SUFFICES ASSUME ScreenInit PROVE ScreenInv
  OBVIOUS
<1>1. today \in FirstToday..LastToday
  <2>1. today = FirstToday
    BY Zenon DEF ScreenInit
  <2>2. FirstToday \in Int /\ LastToday \in Int /\ FirstToday <= LastToday
    BY Zenon, ScreenAssumption
  <2> QED BY <2>1, <2>2
<1>2. PICK s \in Url : search = Validated(s)
  BY Zenon DEF ScreenInit
<1>3. s \in SearchType /\ s.month \in Month /\ s.period \in {"month", "custom"}
  <2>1. \A day \in Day : day \in Int
    BY MonthDays DEF Day
  <2> QED BY <1>2, <2>1 DEF Url, SearchType, AnyMonth
<1>4. Sound(search)
  <2>1. CASE s.period = "custom" /\ ~(s.from <= s.to)
    <3> DEFINE m == [s EXCEPT !.period = "month"]
    <3>1. m \in SearchType /\ m.period = "month" /\ m.month = s.month
      BY <1>3 DEF SearchType
    <3>2. Validated(m) = Validated(s)
      BY <1>3, <2>1 DEF Validated, SearchType
    <3> HIDE DEF m
    <3> QED BY <1>1, <1>2, <1>3, <3>1, <3>2, ValidatedIsSound
  <2>2. CASE s.period = "month" \/ s.from <= s.to
    BY <1>1, <1>2, <1>3, <2>2, ValidatedIsSound
  <2> QED BY <1>3, <2>1, <2>2
<1>5. typed = [text |-> search.query, waiting |-> FALSE] /\ calendar = Closed /\ arriving = Here
  BY Zenon DEF ScreenInit
<1>6. ScreenTyped /\ DraftIsRange
  <2>1. search.query \in Text
    BY <1>4 DEF Sound, SearchType
  <2> QED BY <1>1, <1>5, <2>1 DEF ScreenTyped, DraftIsRange, Closed
<1> QED BY <1>4, <1>5, <1>6 DEF ScreenInv

(* A navigation to a search made of a sound one.                           *)
LEMMA NavigateStep ==
  ASSUME ScreenInv, NEW s \in SearchType, Navigate(s),
         s.period = "month" => s.month \in Month,
         s.period = "custom" => s.from <= s.to,
         calendar' \in [open : BOOLEAN, from : Int, to : Int], DraftIsRange',
         typed' \in [text : Text, waiting : BOOLEAN]
  PROVE  ScreenInv'
<1>1. today' = today /\ search' = search /\ arriving' = Validated(s)
  BY DEF Navigate
<1>2. Sound(arriving')
  BY <1>1, ValidatedIsSound DEF ScreenInv, ScreenTyped
<1> QED BY <1>1, <1>2 DEF ScreenInv, ScreenTyped, Sound

(* The range before or after another one, of the same length.              *)
LEMMA ShiftedRange ==
  ASSUME NEW s \in SearchType, s.period = "custom", NEW direction \in {-1, 1},
         NEW t, t = Shifted(s, direction)
  PROVE  /\ t \in SearchType /\ t.period = "custom" /\ RangeDays(s) = s.to - s.from + 1
         /\ direction = 1 => t.from = s.from + RangeDays(s) /\ t.to = s.to + RangeDays(s)
         /\ direction = -1 => t.from = s.from - RangeDays(s) /\ t.to = s.to - RangeDays(s)
<1> DEFINE by == direction * RangeDays(s)
           from == s.from + by
           to == s.to + by
<1>1. s.from \in Int /\ s.to \in Int /\ RangeDays(s) = s.to - s.from + 1
  BY DEF SearchType, RangeDays
<1>2. t = [s EXCEPT !.from = from, !.to = to]
  BY DEF Shifted
<1>3. /\ from \in Int /\ to \in Int
      /\ direction = 1 => from = s.from + RangeDays(s) /\ to = s.to + RangeDays(s)
      /\ direction = -1 => from = s.from - RangeDays(s) /\ to = s.to - RangeDays(s)
  BY <1>1
<1> HIDE DEF from, to
<1>4. t \in SearchType /\ t.period = "custom" /\ t.from = from /\ t.to = to
  BY <1>2, <1>3 DEF SearchType
<1> QED BY <1>1, <1>3, <1>4

LEMMA LatestIsSound == ASSUME ScreenInv PROVE Sound(Latest)
BY DEF ScreenInv, Latest

LEMMA ArriveStep == ASSUME ScreenInv, Arrive PROVE ScreenInv'
<1>1. Sound(arriving) /\ search' = arriving /\ arriving' = Here /\ today' = today
  BY DEF Arrive, ScreenInv
<1>2. Sound(search)'
  BY <1>1 DEF Sound
<1>3. ScreenTyped' /\ DraftIsRange'
  BY DEF Arrive, ScreenInv, ScreenTyped, DraftIsRange, Closed, Sound, SearchType
<1> QED BY <1>1, <1>2, <1>3 DEF ScreenInv

LEMMA MoveStep == ASSUME ScreenInv, NEW direction \in {-1, 1}, Move(direction) PROVE ScreenInv'
<1> DEFINE s == Shifted(search, direction)
<1>1. Sound(search) /\ search \in SearchType /\ search.from \in Int /\ search.to \in Int
      /\ today \in Int /\ today \in FirstToday..LastToday
  BY DEF ScreenInv, Sound, SearchType, ScreenTyped
<1>2. CanShift(direction) /\ Navigate(s) /\ UNCHANGED <<calendar, typed>>
  BY DEF Move
<1>3. CASE search.period = "month"
  <2> DEFINE n == search.month + direction
  <2>1. n \in Month /\ search.month \in Month
    BY <1>1, <1>2, <1>3 DEF CanShift, Sound
  <2>2. /\ FirstDay[n] \in Int /\ FirstDay[n + 1] \in Int /\ FirstDay[n] < FirstDay[n + 1]
        /\ MonthRange(n).from = FirstDay[n] /\ MonthRange(n).to \in Int
    BY <1>1, <2>1, MonthDays DEF MonthRange
  <2>3. s = [search EXCEPT !.month = n, !.from = MonthRange(n).from, !.to = MonthRange(n).to]
    BY <1>3 DEF Shifted
  <2>4. s \in SearchType /\ s.period = "month" /\ s.month = n
    BY <1>1, <1>3, <2>1, <2>2, <2>3 DEF SearchType, AnyMonth
  <2> HIDE DEF s
  <2> QED BY <1>2, <2>1, <2>4, NavigateStep DEF ScreenInv, ScreenTyped, DraftIsRange
<1>4. CASE search.period = "custom"
  <2>1. /\ s \in SearchType /\ s.period = "custom" /\ RangeDays(search) \in Int
        /\ \/ s.from = search.from + RangeDays(search) /\ s.to = search.to + RangeDays(search)
           \/ s.from = search.from - RangeDays(search) /\ s.to = search.to - RangeDays(search)
    BY <1>1, <1>4, ShiftedRange
  <2>2. s.from <= s.to
    BY <1>1, <2>1 DEF Sound
  <2> HIDE DEF s
  <2> QED BY <1>2, <2>1, <2>2, NavigateStep DEF ScreenInv, ScreenTyped, DraftIsRange
<1> QED BY <1>1, <1>3, <1>4 DEF SearchType

(* Steps of the calendar and of the field.                                 *)
LEMMA HereStep ==
  ASSUME ScreenInv, ScreenTyped', DraftIsRange', UNCHANGED <<today, search, arriving>>
  PROVE  ScreenInv'
BY DEF ScreenInv, Sound

LEMMA OpenCalendarStep == ASSUME ScreenInv, OpenCalendar PROVE ScreenInv'
BY DEF OpenCalendar, ScreenInv, ScreenTyped, DraftIsRange, Sound, SearchType

LEMMA CloseCalendarStep == ASSUME ScreenInv, CloseCalendar PROVE ScreenInv'
BY HereStep DEF CloseCalendar, ScreenInv, ScreenTyped, DraftIsRange, Closed

LEMMA DraftRangeStep ==
  ASSUME ScreenInv, NEW from \in Day, NEW to \in Day \cup {0}, DraftRange(from, to) PROVE ScreenInv'
<1>1. from \in Int /\ to \in Int
  BY MonthDays DEF Day
<1> QED BY <1>1, HereStep DEF DraftRange, ScreenInv, ScreenTyped, DraftIsRange

LEMMA TypeStep == ASSUME ScreenInv, NEW text \in Text, Type(text) PROVE ScreenInv'
BY HereStep DEF Type, ScreenInv, ScreenTyped, DraftIsRange

LEMMA ApplyRangeStep == ASSUME ScreenInv, ApplyRange PROVE ScreenInv'
<1> DEFINE s == [Latest EXCEPT !.period = "custom", !.from = calendar.from,
                               !.to = calendar.to, !.month = MonthOf(calendar.from)]
<1>1. calendar.from \in Int /\ calendar.to \in Int /\ calendar.from <= calendar.to
  BY DEF ApplyRange, ScreenInv, ScreenTyped, DraftIsRange
<1>2. Latest \in SearchType
  BY LatestIsSound DEF Sound
<1>3. s \in SearchType /\ s.period = "custom" /\ s.from = calendar.from /\ s.to = calendar.to
  BY <1>1, <1>2 DEF SearchType, AnyMonth
<1>4. Navigate(s) /\ calendar' = Closed /\ typed' = typed
  BY DEF ApplyRange
<1> HIDE DEF s
<1> QED BY <1>1, <1>3, <1>4, NavigateStep DEF ScreenInv, ScreenTyped, DraftIsRange, Closed

(* A navigation that leaves the period as it is.                           *)
LEMMA SamePeriodStep ==
  ASSUME ScreenInv, NEW s \in SearchType, Navigate(s), calendar' = calendar,
         typed' \in [text : Text, waiting : BOOLEAN],
         s.period = Latest.period, s.month = Latest.month, s.from = Latest.from, s.to = Latest.to
  PROVE  ScreenInv'
<1>1. DraftIsRange'
  BY DEF ScreenInv, DraftIsRange
<1> QED BY <1>1, LatestIsSound, NavigateStep DEF ScreenInv, ScreenTyped, Sound

LEMMA ToggleAccountStep == ASSUME ScreenInv, NEW a \in Source, ToggleAccount(a) PROVE ScreenInv'
<1> DEFINE s == [Latest EXCEPT !.accounts = IF a \in search.accounts THEN search.accounts \ {a}
                                            ELSE search.accounts \cup {a}]
<1>1. Latest \in SearchType /\ search.accounts \subseteq Source
  BY LatestIsSound DEF Sound, ScreenInv, SearchType
<1>2. s \in SearchType /\ s.period = Latest.period /\ s.month = Latest.month
      /\ s.from = Latest.from /\ s.to = Latest.to
  BY <1>1 DEF SearchType
<1>3. Navigate(s) /\ UNCHANGED <<calendar, typed>>
  BY DEF ToggleAccount
<1> HIDE DEF s
<1> QED BY <1>2, <1>3, SamePeriodStep DEF ScreenInv, ScreenTyped

LEMMA ClearAccountsStep == ASSUME ScreenInv, ClearAccounts PROVE ScreenInv'
<1> DEFINE s == [Latest EXCEPT !.accounts = {}]
<1>1. s \in SearchType /\ s.period = Latest.period /\ s.month = Latest.month
      /\ s.from = Latest.from /\ s.to = Latest.to
  BY LatestIsSound DEF Sound, SearchType
<1>2. Navigate(s) /\ UNCHANGED <<calendar, typed>>
  BY DEF ClearAccounts
<1> HIDE DEF s
<1> QED BY <1>1, <1>2, SamePeriodStep DEF ScreenInv, ScreenTyped

LEMMA ChooseDirectionStep ==
  ASSUME ScreenInv, NEW d \in Direction, ChooseDirection(d) PROVE ScreenInv'
<1> DEFINE s == [Latest EXCEPT !.direction = d]
<1>1. s \in SearchType /\ s.period = Latest.period /\ s.month = Latest.month
      /\ s.from = Latest.from /\ s.to = Latest.to
  BY LatestIsSound DEF Sound, SearchType
<1>2. Navigate(s) /\ UNCHANGED <<calendar, typed>>
  BY DEF ChooseDirection
<1> HIDE DEF s
<1> QED BY <1>1, <1>2, SamePeriodStep DEF ScreenInv, ScreenTyped

LEMMA DebouncedStep == ASSUME ScreenInv, Debounced PROVE ScreenInv'
<1> DEFINE s == [Latest EXCEPT !.query = typed.text]
<1>1. s \in SearchType /\ s.period = Latest.period /\ s.month = Latest.month
      /\ s.from = Latest.from /\ s.to = Latest.to
  BY LatestIsSound DEF Sound, SearchType, ScreenInv, ScreenTyped
<1>2. Navigate(s) /\ calendar' = calendar /\ typed' \in [text : Text, waiting : BOOLEAN]
  BY DEF Debounced, ScreenInv, ScreenTyped
<1> HIDE DEF s
<1> QED BY <1>1, <1>2, SamePeriodStep

LEMMA MidnightStep == ASSUME ScreenInv, Midnight PROVE ScreenInv'
<1>1. /\ today \in Int /\ today' = today + 1 /\ today' \in FirstToday..LastToday
      /\ UNCHANGED <<search, arriving, calendar, typed>>
  <2>1. FirstToday \in Int /\ LastToday \in Int
    BY ScreenAssumption
  <2>2. today \in FirstToday..LastToday /\ today < LastToday /\ today' = today + 1
        /\ UNCHANGED <<search, arriving, calendar, typed>>
    BY DEF Midnight, ScreenInv, ScreenTyped
  <2> QED BY <2>1, <2>2
<1>2. ASSUME NEW s, Sound(s)
      PROVE  /\ s \in SearchType /\ s.from <= s.to
             /\ s.period = "month" => s.month \in Month /\ s.from = FirstDay[s.month]
  BY <1>2 DEF Sound
<1>3. Sound(search)' /\ (arriving' # Here => Sound(arriving)')
  BY <1>1, <1>2 DEF Sound, ScreenInv
<1> QED BY <1>1, <1>3 DEF ScreenInv, ScreenTyped, DraftIsRange

LEMMA ScreenNextInv == ScreenInv /\ [ScreenNext]_screenVars => ScreenInv'
<1> SUFFICES ASSUME ScreenInv, [ScreenNext]_screenVars PROVE ScreenInv'
  OBVIOUS
<1>1. CASE UNCHANGED screenVars
  BY <1>1, HereStep DEF screenVars, ScreenInv, ScreenTyped, DraftIsRange
<1> QED BY <1>1, ArriveStep, MoveStep, OpenCalendarStep, CloseCalendarStep, ApplyRangeStep,
           DraftRangeStep, ToggleAccountStep, ClearAccountsStep, ChooseDirectionStep, TypeStep,
           DebouncedStep, MidnightStep DEF ScreenNext

(* Walking back and forth over a period loses no day that has come and     *)
(* shows none twice, whatever the URL named, whatever today is and however *)
(* the months fall (shiftTransactionPeriod, transactionFilters.ts 112-142). *)
THEOREM PeriodsFollow == ScreenSpec => []PeriodsTile
<1>1. ScreenInv => PeriodsTile
  <2> SUFFICES ASSUME ScreenInv, CanShift(-1)
               PROVE  /\ Shifted(search, -1).to < search.from
                      /\ \/ Shifted(search, -1).to = search.from - 1
                         \/ Shifted(search, -1).to = today
                      /\ Shifted(Shifted(search, -1), 1).from = search.from
    BY DEF PeriodsTile
  <2> DEFINE before == Shifted(search, -1)
  <2>1. /\ Sound(search) /\ search \in SearchType /\ search.from \in Int /\ search.to \in Int
        /\ today \in Int /\ today \in FirstToday..LastToday
    BY DEF ScreenInv, Sound, SearchType, ScreenTyped
  <2>2. CASE search.period = "month"
    <3> DEFINE n == search.month + (-1)
               end == MonthRange(n).to
    <3>1. /\ n \in Month /\ search.month \in Month /\ n \in Int /\ n + 1 = search.month
          /\ search.from = FirstDay[search.month]
      BY <2>1, <2>2, MonthDays DEF CanShift, Sound
    <3>2. /\ end \in Int /\ end < search.from
          /\ end = search.from - 1 \/ end = today
      BY <2>1, <3>1, ThisMonth DEF MonthRange
    <3>3. MonthRange(n).from = FirstDay[n]
      BY DEF MonthRange
    <3>4. before = [search EXCEPT !.month = n, !.from = MonthRange(n).from, !.to = end]
      BY <2>2 DEF Shifted
    <3> HIDE DEF before, end
    <3>5. before.to = end /\ before.period = "month" /\ before.month = n
          /\ before \in SearchType
      <4>1. FirstDay[n] \in Int /\ n \in AnyMonth
        BY <3>1, MonthDays DEF AnyMonth
      <4> HIDE DEF n
      <4> QED BY <2>1, <2>2, <3>2, <3>3, <3>4, <4>1 DEF SearchType
    <3>6. Shifted(before, 1).from = MonthRange(n + 1).from
      BY <3>5 DEF Shifted
    <3>7. MonthRange(n + 1).from = search.from
      BY <3>1 DEF MonthRange
    <3> QED BY <2>1, <3>2, <3>5, <3>6, <3>7 DEF before
  <2>3. CASE search.period = "custom"
    <3>1. /\ before \in SearchType /\ before.period = "custom"
          /\ RangeDays(search) = search.to - search.from + 1
          /\ before.from = search.from - RangeDays(search)
          /\ before.to = search.to - RangeDays(search)
      BY <2>1, <2>3, ShiftedRange
    <3> HIDE DEF before
    <3>2. /\ Shifted(before, 1).from = before.from + RangeDays(before)
          /\ RangeDays(before) = before.to - before.from + 1
      BY <3>1, ShiftedRange
    <3> QED BY <2>1, <3>1, <3>2 DEF before
  <2> QED BY <2>1, <2>2, <2>3 DEF SearchType
<1> QED BY <1>1, ScreenInitInv, ScreenNextInv, PTL DEF ScreenSpec

-----------------------------------------------------------------------------
(* The cached token, for every clamp and every provider that keeps         *)
(* LifetimeAssumption.                                                     *)

(***************************************************************************)
(* What the token, the entry and the request carry: a token not yet cached *)
(* has at least the least lifetime left, an entry ends a skew before its   *)
(* token, and so does whatever a request took out of it.                   *)
(***************************************************************************)
PendingLasts ==
  pending # Nil =>
    /\ pending.since <= now /\ now <= pending.since + StoreDelay
    /\ pending.exp >= pending.since + StoreDelay + ExpirySkew
                      + (IF pending.opaque THEN FallbackTtl ELSE MinTtl)

EntryEndsFirst ==
  entry # Nil => now <= entry.until /\ entry.until + ExpirySkew <= entry.exp

RequestHasSkew ==
  inFlight # Nil => inFlight.since + ExpirySkew <= inFlight.exp

TtlInv == TtlTypeOK /\ PendingLasts /\ EntryEndsFirst /\ RequestHasSkew

(* tokenTtlSeconds never leaves [MinTtl, MaxTtl] for a readable token, and *)
(* keeps the skew of a token with enough time left.                        *)
LEMMA TtlBounds ==
  ASSUME NEW exp \in Nat, NEW at \in Nat
  PROVE  /\ TokenTtlSeconds(exp, FALSE, at) \in Nat
         /\ TokenTtlSeconds(exp, FALSE, at) >= MinTtl
         /\ TokenTtlSeconds(exp, FALSE, at) <= MaxTtl
         /\ exp >= at + ExpirySkew + MinTtl =>
              at + TokenTtlSeconds(exp, FALSE, at) + ExpirySkew <= exp
BY TtlAssumption DEF TokenTtlSeconds, Clamp

LEMMA TtlInvInit == TtlInit => TtlInv
BY DEF TtlInit, TtlInv, TtlTypeOK, PendingLasts, EntryEndsFirst, RequestHasSkew

LEMMA TtlInvStep == TtlInv /\ [TtlNext]_ttlVars => TtlInv'
<1> SUFFICES ASSUME TtlInv, [TtlNext]_ttlVars PROVE TtlInv'
  OBVIOUS
<1> USE TtlAssumption, LifetimeAssumption, NilAssumption
<1>1. CASE Mint
  <2>1. PICK opaque \in BOOLEAN, l \in Nat :
          /\ pending' = [exp |-> now + l, opaque |-> opaque, since |-> now]
          /\ l >= StoreDelay + ExpirySkew + (IF opaque THEN FallbackTtl ELSE MinTtl)
    BY <1>1 DEF Mint
  <2>2. pending' \in Minted /\ pending' # Nil
    BY <2>1 DEF TtlInv, TtlTypeOK, Minted
  <2>3. PendingLasts'
    BY <1>1, <2>1 DEF Mint, TtlInv, TtlTypeOK, PendingLasts
  <2> QED
    BY <1>1, <2>2, <2>3 DEF Mint, TtlInv, TtlTypeOK, EntryEndsFirst, RequestHasSkew
<1>2. CASE Store
  <2> DEFINE ttl == TokenTtlSeconds(pending.exp, pending.opaque, now)
  <2>1. pending \in Minted /\ now \in Nat /\ pending # Nil
    BY <1>2 DEF Store, TtlInv, TtlTypeOK
  <2>2. ttl \in Nat /\ now + ttl + ExpirySkew <= pending.exp
    <3>1. CASE pending.opaque
      BY <2>1, <3>1 DEF TokenTtlSeconds, Minted, TtlInv, PendingLasts
    <3>2. CASE ~pending.opaque
      <4>1. pending.exp \in Nat /\ pending.since \in Nat
        BY <2>1 DEF Minted
      <4>2. pending.opaque = FALSE
        BY <2>1, <3>2 DEF Minted
      <4>3. pending.exp >= now + ExpirySkew + MinTtl
        BY <2>1, <4>1, <4>2 DEF TtlInv, PendingLasts
      <4> QED
        BY <2>1, <4>1, <4>2, <4>3, TtlBounds
    <3> QED
      BY <3>1, <3>2
  <2>3. entry' = [exp |-> pending.exp, until |-> now + ttl]
    BY <1>2 DEF Store
  <2> HIDE DEF ttl
  <2>4. entry' \in StoredToken /\ EntryEndsFirst'
    BY <1>2, <2>1, <2>2, <2>3 DEF Store, StoredToken, Minted, EntryEndsFirst
  <2> QED
    BY <1>2, <2>4 DEF Store, TtlInv, TtlTypeOK, PendingLasts, RequestHasSkew
<1>3. CASE StoreFails \/ Evict \/ Answer
  BY <1>3 DEF StoreFails, Evict, Answer, TtlInv, TtlTypeOK, PendingLasts, EntryEndsFirst,
              RequestHasSkew
<1>4. CASE Take
  <2>1. entry \in StoredToken /\ now \in Nat /\ inFlight' = [exp |-> entry.exp, since |-> now]
    BY <1>4 DEF Take, TtlInv, TtlTypeOK
  <2>2. inFlight' \in TakenToken /\ RequestHasSkew'
    BY <1>4, <2>1 DEF Take, StoredToken, TakenToken, TtlInv, EntryEndsFirst, RequestHasSkew
  <2> QED
    BY <1>4, <2>2 DEF Take, TtlInv, TtlTypeOK, PendingLasts, EntryEndsFirst
<1>5. CASE Tick
  <2>1. now' = now + 1 /\ now \in Nat /\ UNCHANGED <<pending, inFlight>>
    BY <1>5 DEF Tick, TtlInv, TtlTypeOK
  <2>2. PendingLasts'
    <3> SUFFICES ASSUME pending # Nil
                 PROVE  pending.since <= now + 1 /\ now + 1 <= pending.since + StoreDelay
      BY <2>1 DEF TtlInv, PendingLasts
    <3>1. pending.since \in Nat /\ pending.since <= now /\ now < pending.since + StoreDelay
      BY <1>5 DEF Tick, TtlInv, TtlTypeOK, Minted, PendingLasts
    <3> QED
      BY <2>1, <3>1
  <2>3. entry' \in StoredToken \cup {Nil} /\ EntryEndsFirst'
    <3>1. CASE entry # Nil /\ entry.until <= now + 1
      BY <1>5, <3>1 DEF Tick, EntryEndsFirst
    <3>2. CASE ~(entry # Nil /\ entry.until <= now + 1)
      BY <1>5, <2>1, <3>2 DEF Tick, TtlInv, TtlTypeOK, StoredToken, EntryEndsFirst
    <3> QED
      BY <3>1, <3>2
  <2> QED
    BY <2>1, <2>2, <2>3 DEF TtlInv, TtlTypeOK, RequestHasSkew
<1>6. CASE UNCHANGED ttlVars
  BY <1>6 DEF ttlVars, TtlInv, TtlTypeOK, PendingLasts, EntryEndsFirst, RequestHasSkew
<1> QED
  BY <1>1, <1>2, <1>3, <1>4, <1>5, <1>6 DEF TtlNext

(***************************************************************************)
(* "Renew before the provider actually expires the token so in-flight      *)
(* requests never race it" (tokenCache.ts:18).                             *)
(***************************************************************************)
THEOREM NeverRaces == TtlSpec => []InFlightNeverRaces
<1>1. TtlInv => InFlightNeverRaces
  <2> SUFFICES ASSUME TtlInv, inFlight # Nil, now <= inFlight.since + ExpirySkew
               PROVE  now <= inFlight.exp
    BY DEF InFlightNeverRaces
  <2>1. inFlight \in TakenToken /\ now \in Nat
    BY DEF TtlInv, TtlTypeOK
  <2> QED
    BY <2>1, TtlAssumption DEF TakenToken, TtlInv, RequestHasSkew
<1> QED
  BY <1>1, TtlInvInit, TtlInvStep, PTL DEF TtlSpec

=============================================================================
