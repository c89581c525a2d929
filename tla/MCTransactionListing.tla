------------------------ MODULE MCTransactionListing ------------------------
(* Four transactions of two connections on two days; pages of one row.     *)
(* 1 and 2 are instalments of one purchase, 3 of another one of the same   *)
(* card and day and a transfer, 4 a refund, numbered past its count.       *)
EXTENDS TransactionTotals

CONSTANTS a, b, card

MCOwnerOf == [i \in Id |-> IF i = 4 THEN b ELSE a]
MCRank == [i \in Id |-> i]
MCMatches == [f \in Filter |-> IF f = "all" THEN Entry ELSE Id \X {2}]
MCCents == <<-30, -30, -50, 20>>
MCAccountOf == [i \in Id |-> card]
MCPurchaseDay == <<1, 1, 1, 2>>
MCPurchase == <<1, 1, 2, 3>>
MCNumber == <<1, 2, 1, 3>>
MCTotal == <<3, 3, 4, 2>>

=============================================================================
