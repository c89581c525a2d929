------------------------- MODULE TransactionListing -------------------------
(***************************************************************************)
(* FinanceService.listTransactions: a caller walks all transactions of a   *)
(* filter page by page, following the cursor of each page, while the       *)
(* provider adds, drops and re-dates transactions and the user selects     *)
(* another connection.  Nothing is kept between two pages but the cursor,  *)
(* which holds the last row's date and id and the filter it belongs to.    *)
(***************************************************************************)
EXTENDS Integers, FiniteSets

CONSTANTS
  Id, Day,          \* provider ids of transactions, local dates
  Connection, OwnerOf,
  Filter, Matches,  \* filters of a request; the days and ids each lets through
  LocaleRank,       \* the order of ids by localeCompare, used to sort
  UnitRank,         \* the order of ids by code unit, used to compare with a cursor
  Limit,            \* rows of a page
  None

Entry == Id \X Day

ListingAssumption ==
  /\ Day \subseteq Int
  /\ Limit \in Nat \ {0}
  /\ OwnerOf \in [Id -> Connection]
  /\ Matches \in [Filter -> SUBSET Entry]
  /\ LocaleRank \in [Id -> Int]
  /\ UnitRank \in [Id -> Int]
  /\ \A i, j \in Id : LocaleRank[i] = LocaleRank[j] => i = j
  /\ None \notin Entry \cup Connection

ASSUME ListingAssumption

(* Provider ids are opaque to the code (schemas.ts:37).  Paging is right   *)
(* only if both orders agree on them, as they do on lower-case UUIDs.      *)
OrdersAgree ==
  \A i, j \in Id : LocaleRank[i] < LocaleRank[j] <=> UnitRank[i] < UnitRank[j]

ASSUME OrdersAgree

VARIABLES
  stored,   \* the entries the provider would report now
  scope,    \* the connection user_settings names, None without one
  walk,     \* the caller's walk
  steady    \* history: entries of the walk stored all the time since it began

vars == <<stored, scope, walk, steady>>

DayOf(e) == e[2]
IdOf(e) == e[1]

(* The sort order, newest first (service.ts 693-697). *)
Precedes(p, q) ==
  \/ DayOf(q) < DayOf(p)
  \/ DayOf(q) = DayOf(p) /\ LocaleRank[IdOf(q)] < LocaleRank[IdOf(p)]

(* Variations: the cursor holds the day alone; its own row is not passed.  *)
IsAnotherDay(e, position) == DayOf(e) < DayOf(position)

IsAtOrAfter(e, position) ==
  \/ DayOf(e) < DayOf(position)
  \/ DayOf(e) = DayOf(position) /\ UnitRank[IdOf(e)] <= UnitRank[IdOf(position)]

(* The cursor test (service.ts 267-273). *)
IsAfter(e, position) ==
  \/ DayOf(e) < DayOf(position)
  \/ DayOf(e) = DayOf(position) /\ UnitRank[IdOf(e)] < UnitRank[IdOf(position)]

(* What one request loads: rows of the connection in scope that pass, none *)
(* without a scope.                                                        *)
Rows(connection, filter) ==
  {e \in stored : OwnerOf[IdOf(e)] = connection /\ e \in Matches[filter]}

(* A variation that forgets the cursor. *)
WholeList(rows, cursor) == rows

Remaining(rows, cursor) ==
  IF cursor = None THEN rows ELSE {e \in rows : IsAfter(e, cursor)}

(* The first Limit rows in sort order. *)
IsPage(page, rows) ==
  /\ page \subseteq rows
  /\ \A p \in page, q \in rows \ page : Precedes(p, q)
  /\ Cardinality(page) <= Limit
  /\ page = rows \/ Cardinality(page) = Limit

IsLast(e, page) == e \in page /\ \A p \in page : p = e \/ Precedes(p, e)

Idle == [state |-> "idle", filter |-> None, connection |-> None, cursor |-> None,
         listed |-> {}, repeated |-> {}]

Init ==
  /\ stored \in {S \in SUBSET Entry :
       IsFiniteSet(S) /\ \A d, e \in S : IdOf(d) = IdOf(e) => d = e}
  /\ scope \in Connection \cup {None}
  /\ walk = Idle
  /\ steady = {}

(* One request of the walk, answered with `page`: the last page has no     *)
(* cursor.  `listed` and `repeated` are what the caller has received once  *)
(* and more than once.                                                     *)
Receive(state, filter, connection, cursor, page) ==
  walk' = [state |-> state, filter |-> filter, connection |-> connection,
           cursor |-> cursor, listed |-> walk.listed \cup page,
           repeated |-> walk.repeated \cup (walk.listed \cap page)]

Answer(filter, connection, rows) ==
  \/ IsPage(rows, rows) /\ Receive("done", filter, connection, None, rows)
  \/ \E page \in SUBSET rows : \E last \in page :
       /\ page # rows
       /\ IsPage(page, rows)
       /\ IsLast(last, page)
       /\ Receive("more", filter, connection, last, page)

(* listTransactions without a cursor. *)
FirstPage(filter) ==
  /\ walk.state = "idle"
  /\ LET rows == Rows(scope, filter) IN
     /\ Answer(filter, scope, rows)
     /\ steady' = rows
  /\ UNCHANGED <<stored, scope>>

(* listTransactions with the cursor of the page before: decodeCursor       *)
(* refuses it under another scope than the one it was minted in.  A page   *)
(* that fails (PLUGGY_UNAVAILABLE) changes nothing: the caller keeps its   *)
(* cursor and may ask again.                                               *)
(* A variation: the scope is not part of the cursor's filter. *)
CursorOfAnyScope == TRUE

CursorFits == walk.connection = scope

NextPage ==
  /\ walk.state = "more"
  /\ CursorFits
  /\ Answer(walk.filter, walk.connection,
            Remaining(Rows(scope, walk.filter), walk.cursor))
  /\ UNCHANGED <<stored, scope, steady>>

RefusePage ==
  /\ walk.state = "more"
  /\ ~CursorFits
  /\ walk' = [walk EXCEPT !.state = "refused"]
  /\ UNCHANGED <<stored, scope, steady>>

StartOver ==
  /\ walk.state \in {"done", "refused"}
  /\ walk' = Idle
  /\ steady' = {}
  /\ UNCHANGED <<stored, scope>>

(* The provider synchronises: transactions appear, vanish (pending ones    *)
(* are replaced) and move to another day.                                  *)
Report(e) ==
  /\ stored' = {s \in stored : IdOf(s) # IdOf(e)} \cup {e}
  /\ steady' = steady \cap stored'
  /\ UNCHANGED <<scope, walk>>

Withdraw(e) ==
  /\ stored' = stored \ {e}
  /\ steady' = steady \ {e}
  /\ UNCHANGED <<scope, walk>>

(* updateUserSettings, from any tab, or a connection deleted. *)
Select(connection) ==
  /\ scope' = connection
  /\ UNCHANGED <<stored, walk, steady>>

Next ==
  \/ \E f \in Filter : FirstPage(f)
  \/ NextPage \/ RefusePage \/ StartOver
  \/ \E e \in Entry \ stored : Report(e)
  \/ \E e \in stored : Withdraw(e)
  \/ \E c \in (Connection \cup {None}) \ {scope} : Select(c)

(* A caller that follows cursors asks for the next page sooner or later,   *)
(* and gets it unless the provider fails for ever.                         *)
Fairness == WF_vars(NextPage \/ RefusePage)

Spec == Init /\ [][Next]_vars /\ Fairness

(***************************************************************************)
(* Properties.                                                             *)
(***************************************************************************)
TypeOK ==
  /\ stored \subseteq Entry
  /\ scope \in Connection \cup {None}
  /\ steady \subseteq stored
  /\ walk \in [state: {"idle", "more", "done", "refused"},
               filter: Filter \cup {None}, connection: Connection \cup {None},
               cursor: Entry \cup {None}, listed: SUBSET Entry, repeated: SUBSET Entry]

(* A walk followed to its end shows every transaction that was there all   *)
(* along, although pages are computed from a list that changes between     *)
(* them (service.ts 261-282).                                              *)
SteadyRowsListed == walk.state = "done" => steady \subseteq walk.listed

(* No page repeats a row of an earlier one (service.ts 267-273): only a    *)
(* transaction that moved to an earlier day can be met again.              *)
NothingListedTwice == walk.repeated = {}

(* All pages of a walk come from one connection and one filter, whatever   *)
(* is selected in between (domain.ts 156-177).                             *)
OneConnectionPerWalk ==
  \A e \in walk.listed :
    OwnerOf[IdOf(e)] = walk.connection /\ e \in Matches[walk.filter]

(* A walk ends although transactions keep arriving: the cursor only moves  *)
(* towards the past.                                                       *)
WalksEnd == walk.state = "more" ~> walk.state # "more"

=============================================================================
