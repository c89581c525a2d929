-------------------------- MODULE TransactionTotals --------------------------
(***************************************************************************)
(* The figures FinanceService derives from a set of transactions: totals   *)
(* of a period and instalment plans.  Every operator takes the rows one    *)
(* request loaded.                                                         *)
(***************************************************************************)
EXTENDS TransactionListing, Functions

CONSTANTS
  Today,
  Cents,            \* signed amount, negative for spending
  Transfers,        \* ids in the two transfer categories
  AccountOf,
  PurchaseDay,      \* purchaseDate, or the normalised description without one
  Number, Total,    \* instalment number and count, 0 when absent
  Purchase          \* the purchase a transaction really belongs to

ASSUME TotalsAssumption ==
  /\ Today \in Int
  /\ Cents \in [Id -> Int]
  /\ Transfers \subseteq Id
  /\ Number \in [Id -> Nat] /\ Total \in [Id -> Nat]

SumOf(rows, amount) == SumFunction([e \in rows |-> amount[IdOf(e)]])
Spending == [i \in Id |-> -Cents[i]]
Magnitude == [i \in Id |-> IF Cents[i] < 0 THEN -Cents[i] ELSE Cents[i]]

Current(rows) == {e \in rows : DayOf(e) <= Today}
Upcoming(rows) == rows \ Current(rows)
Outgoing(rows) == {e \in rows : Cents[IdOf(e)] < 0 /\ IdOf(e) \notin Transfers}
Incoming(rows) == {e \in rows : Cents[IdOf(e)] > 0 /\ IdOf(e) \notin Transfers}
Moved(rows) == {e \in rows : IdOf(e) \in Transfers}

(* A variation that adds the upcoming rows. *)
SummaryOfAll(rows) ==
  [spent |-> SumOf(Outgoing(rows), Spending),
   received |-> SumOf(Incoming(rows), Cents),
   upcoming |-> SumOf(Upcoming(rows), Magnitude)]

(* getTransactions: the headline figures, *)
Summary(rows) ==
  [spent |-> SumOf(Outgoing(Current(rows)), Spending),
   received |-> SumOf(Incoming(Current(rows)), Cents),
   upcoming |-> SumOf(Upcoming(rows), Magnitude)]

(* its list of days, *)
Days(rows) ==
  LET OnDay(d) == {e \in Current(rows) : DayOf(e) = d} IN
  [d \in {DayOf(e) : e \in Current(rows)} |->
    [spent |-> SumOf(Outgoing(OnDay(d)), Spending),
     received |-> SumOf(Incoming(OnDay(d)), Cents),
     count |-> Cardinality(OnDay(d))]]

(* and its groups, here by whether the category is a transfer. *)
Groups(rows) ==
  [transfer \in BOOLEAN |->
    SumOf({e \in rows : (IdOf(e) \in Transfers) = transfer}, Cents)]

(* listInstalmentPlans: rows that carry both instalment fields, grouped    *)
(* by account and purchase date.                                           *)
Instalments(rows) ==
  {e \in rows : Number[IdOf(e)] # 0 /\ Total[IdOf(e)] # 0}

InstalmentKey(e) == <<AccountOf[IdOf(e)], PurchaseDay[IdOf(e)]>>

InstalmentGroups(rows) ==
  {{e \in Instalments(rows) : InstalmentKey(e) = InstalmentKey(d)} : d \in Instalments(rows)}

(* The highest number, the first in sort order among equals. *)
Latest(group) ==
  CHOOSE e \in group : \A d \in group \ {e} :
    \/ Number[IdOf(d)] < Number[IdOf(e)]
    \/ Number[IdOf(d)] = Number[IdOf(e)] /\ Precedes(e, d)

(* A variation without the cap. *)
PaidUncapped(i) == Number[i]

Paid(i) == IF Number[i] < Total[i] THEN Number[i] ELSE Total[i]

Plan(group) ==
  LET i == IdOf(Latest(group)) IN
  [of |-> group, latest |-> i,
   remaining |-> Total[i] - Paid(i),
   remainingTotal |-> Magnitude[i] * (Total[i] - Paid(i))]

OpenPlans(rows) == {p \in {Plan(g) : g \in InstalmentGroups(rows)} : p.remaining > 0}

(* totals.remaining is summed over the groups, not over the plans. *)
RemainingCents(group) ==
  LET i == IdOf(Latest(group)) IN Magnitude[i] * (Total[i] - Paid(i))

RemainingTotal(rows) == SumFunction([g \in InstalmentGroups(rows) |-> RemainingCents(g)])

(***************************************************************************)
(* Properties, about what a request would answer now.                      *)
(***************************************************************************)

(* The headline figures, the days and the groups are summed separately     *)
(* and agree: nothing is counted in one and missed by another, transfers   *)
(* and upcoming rows included (service.ts 202-259).                        *)
TotalsReconcile ==
  LET s == Summary(stored)
      days == Days(stored)
      groups == Groups(stored)
      OfDays(figure) == SumFunction([d \in DOMAIN days |-> days[d][figure]])
  IN
  /\ OfDays("spent") = s.spent
  /\ OfDays("received") = s.received
  /\ OfDays("count") + Cardinality(Upcoming(stored)) = Cardinality(stored)
  /\ s.received - s.spent
       = groups[FALSE] - SumOf(Upcoming(stored) \ Moved(stored), Cents)

(* totals.remaining, summed over all groups, is what the open plans that   *)
(* are listed add up to; and when no two purchases share a card and a day  *)
(* it is what is owed on the purchases: each counts once, by its latest    *)
(* instalment known, of which a pending row may be a second copy, and one  *)
(* numbered past its count is settled, not a credit (service.ts 428-493,   *)
(* 793-801).                                                               *)
RemainingIsOwed ==
  LET rows == Instalments(stored)
      Unpaid(p) == {e \in rows : Purchase[IdOf(e)] = p}
      Furthest(p) == CHOOSE e \in Unpaid(p) :
        \A d \in Unpaid(p) : Number[IdOf(d)] <= Number[IdOf(e)]
      Owed(p) ==
        LET i == IdOf(Furthest(p)) IN
        IF Number[i] < Total[i] THEN Magnitude[i] * (Total[i] - Number[i]) ELSE 0
      OnePerKey == \A d, e \in rows :
        InstalmentKey(d) = InstalmentKey(e) <=> Purchase[IdOf(d)] = Purchase[IdOf(e)]
      CopiesAgree == \A d, e \in rows :
        /\ Purchase[IdOf(d)] = Purchase[IdOf(e)] /\ Number[IdOf(d)] = Number[IdOf(e)]
        => Total[IdOf(d)] = Total[IdOf(e)] /\ Magnitude[IdOf(d)] = Magnitude[IdOf(e)]
  IN
  /\ RemainingTotal(stored) = SumFunction([p \in OpenPlans(stored) |-> p.remainingTotal])
  /\ OnePerKey /\ CopiesAgree =>
       RemainingTotal(stored) = SumFunction([p \in {Purchase[IdOf(e)] : e \in rows} |-> Owed(p)])

=============================================================================
