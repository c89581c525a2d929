------------------------- MODULE TransactionsScreen -------------------------
(***************************************************************************)
(* The filters of the transactions screen, kept in the URL                 *)
(* (lib/transactionFilters.ts): the period with its two arrows and its     *)
(* calendar, the accounts, the direction and the debounced search field    *)
(* (transactionsView.tsx).  A change navigates; the page shows the filters *)
(* it had until the loader has the data of the new ones.  Days are         *)
(* numbered; a month is a number and its first day.                        *)
(***************************************************************************)
EXTENDS Integers

CONSTANTS
  Month,       \* consecutive months
  FirstDay,    \* the first day of each month and of the one after the last
  FirstToday, LastToday,
  Source,      \* the accounts and cards that may be ticked
  Direction,   \* "all", "income", "expense"
  Text,        \* what may be typed, "" included
  Here         \* no navigation under way

ASSUME ScreenAssumption ==
  /\ Month \subseteq Int
  /\ \A n \in Month : /\ FirstDay[n] \in Int /\ FirstDay[n + 1] \in Int
                      /\ FirstDay[n] < FirstDay[n + 1]
  /\ FirstToday \in Int /\ LastToday \in Int /\ FirstToday <= LastToday
  /\ \A day \in FirstToday..LastToday :
       \E n \in Month : FirstDay[n] <= day /\ day < FirstDay[n + 1]
  /\ "" \in Text /\ "all" \in Direction

Day == UNION {FirstDay[n]..(FirstDay[n + 1] - 1) : n \in Month}

VARIABLES
  today,
  search,     \* the validated search the page renders
  arriving,   \* the search a navigation is loading
  calendar,   \* the draft of the calendar dialog, open or not
  typed       \* the search field: its text, and whether its timer runs

screenVars == <<today, search, arriving, calendar, typed>>

MonthOf(day) == CHOOSE n \in Month : FirstDay[n] <= day /\ day < FirstDay[n + 1]

(* monthRange: up to today in the current month.                           *)
MonthRange(n) ==
  [from |-> FirstDay[n],
   to |-> IF n = MonthOf(today) THEN today ELSE FirstDay[n + 1] - 1]

(* validateTransactionSearch, run on every navigation: a range that is not *)
(* one falls back to the month.                                            *)
Validated(s) ==
  IF s.period = "custom" /\ s.from <= s.to THEN s
  ELSE [s EXCEPT !.period = "month", !.from = MonthRange(s.month).from,
                 !.to = MonthRange(s.month).to]

(* updateSearch merges what changed into the search of the last navigation, *)
(* arrived or not, and takes its place.                                     *)
Latest == IF arriving = Here THEN search ELSE arriving

Navigate(s) == arriving' = Validated(s) /\ UNCHANGED <<today, search>>

(* A variation that counts the nights of the range. *)
RangeNights(s) == s.to - s.from

RangeDays(s) == s.to - s.from + 1

(* shiftTransactionPeriod by one month, or by the length of the range.     *)
Shifted(s, direction) ==
  IF s.period = "month"
    THEN LET n == s.month + direction IN
         [s EXCEPT !.month = n, !.from = MonthRange(n).from, !.to = MonthRange(n).to]
    ELSE [s EXCEPT !.from = @ + direction * RangeDays(s), !.to = @ + direction * RangeDays(s)]

Closed == [open |-> FALSE, from |-> 0, to |-> 0]

(* The page opens on the search of its URL, which may name any month, a    *)
(* later one than this too, and any range.                                 *)
Url == [period : {"month", "custom"}, month : Month, from : Day, to : Day,
        accounts : SUBSET Source, direction : Direction, query : Text]

ScreenInit ==
  /\ today = FirstToday
  /\ search \in {Validated(s) : s \in Url}
  /\ arriving = Here /\ calendar = Closed
  /\ typed = [text |-> search.query, waiting |-> FALSE]

(* The loader has the data: the page shows it.  The search field is keyed  *)
(* by the query, and begins anew with another one, whatever it held; so    *)
(* does the whole page when the pending screen took its place meanwhile.   *)
Arrive ==
  /\ arriving # Here /\ search' = arriving /\ arriving' = Here
  /\ \E replaced \in BOOLEAN :
       /\ typed' = IF replaced \/ arriving.query # search.query
                    THEN [text |-> arriving.query, waiting |-> FALSE] ELSE typed
       /\ calendar' = IF replaced THEN Closed ELSE calendar
  /\ UNCHANGED today

(* The arrows: back as far as one likes, here as far as there are months;  *)
(* forward only into a period that ends by today.                          *)
CanShift(direction) ==
  /\ search.period = "month" => search.month + direction \in Month
  /\ search.period = "custom" => Shifted(search, direction).from \in Day
  /\ direction = 1 => Shifted(search, 1).to <= today

(* An arrow sends the whole search that is shown: what a navigation under  *)
(* way was changing is set back.                                           *)
Move(direction) ==
  /\ CanShift(direction)
  /\ Navigate(Shifted(search, direction))
  /\ UNCHANGED <<calendar, typed>>

OpenCalendar ==
  /\ ~calendar.open
  /\ calendar' = [open |-> TRUE, from |-> search.from, to |-> search.to]
  /\ UNCHANGED <<today, search, arriving, typed>>

(* Days after today are disabled, but one end may stay while the other is  *)
(* picked; the picker keeps the ends in order, and the second one, or 0,   *)
(* is still to come.                                                       *)
DraftRange(from, to) ==
  /\ calendar.open /\ (to = 0 \/ from <= to)
  /\ from <= today \/ from = calendar.from
  /\ to <= today \/ to = calendar.to
  /\ calendar' = [calendar EXCEPT !.from = from, !.to = to]
  /\ UNCHANGED <<today, search, arriving, typed>>

CloseCalendar ==
  /\ calendar.open /\ calendar' = Closed
  /\ UNCHANGED <<today, search, arriving, typed>>

ApplyRange ==
  /\ calendar.open /\ calendar.to # 0
  /\ Navigate([Latest EXCEPT !.period = "custom", !.from = calendar.from,
                             !.to = calendar.to, !.month = MonthOf(calendar.from)])
  /\ calendar' = Closed /\ UNCHANGED typed

(* toggleAccount goes by the accounts that are shown as ticked.            *)
ToggleAccount(a) ==
  /\ Navigate([Latest EXCEPT !.accounts = IF a \in search.accounts
                                          THEN search.accounts \ {a}
                                          ELSE search.accounts \cup {a}])
  /\ UNCHANGED <<calendar, typed>>

ClearAccounts ==
  /\ search.accounts # {} /\ Navigate([Latest EXCEPT !.accounts = {}])
  /\ UNCHANGED <<calendar, typed>>

ChooseDirection(d) ==
  /\ Navigate([Latest EXCEPT !.direction = d]) /\ UNCHANGED <<calendar, typed>>

(* The field waits 300 ms after the last keystroke.                        *)
Type(text) ==
  /\ typed' = [text |-> text, waiting |-> text # search.query]
  /\ UNCHANGED <<today, search, arriving, calendar>>

Debounced ==
  /\ typed.waiting
  /\ Navigate([Latest EXCEPT !.query = typed.text])
  /\ typed' = [typed EXCEPT !.waiting = FALSE] /\ UNCHANGED calendar

Midnight ==
  /\ today < LastToday /\ today' = today + 1
  /\ UNCHANGED <<search, arriving, calendar, typed>>

ScreenNext ==
  \/ Arrive
  \/ \E direction \in {-1, 1} : Move(direction)
  \/ OpenCalendar \/ CloseCalendar \/ ApplyRange
  \/ \E from \in Day, to \in Day \cup {0} : DraftRange(from, to)
  \/ \E a \in Source : ToggleAccount(a)
  \/ ClearAccounts
  \/ \E d \in Direction : ChooseDirection(d)
  \/ \E text \in Text : Type(text)
  \/ Debounced \/ Midnight

ScreenSpec == ScreenInit /\ [][ScreenNext]_screenVars

-----------------------------------------------------------------------------
(* Walking back and forth over a period loses no day that has come and     *)
(* shows none twice, whatever the URL named: the period before ends on the *)
(* eve of this one, or today when this one is still to come, and its next  *)
(* one starts on the day this one does (transactionFilters.ts 112-142).    *)
PeriodsTile ==
  CanShift(-1) =>
    LET before == Shifted(search, -1) IN
    /\ before.to < search.from
    /\ before.to = search.from - 1 \/ before.to = today
    /\ Shifted(before, 1).from = search.from

=============================================================================
