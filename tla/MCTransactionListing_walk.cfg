\* Four ids, two days, pages of one row, two connections.
CONSTANTS
  a = a
  b = b
  card = card
  None = None
  Id = {1, 2, 3, 4}
  Day = {1, 2}
  Connection = {a, b}
  OwnerOf <- MCOwnerOf
  Filter = {"all", "recent"}
  Matches <- MCMatches
  LocaleRank <- MCRank
  UnitRank <- MCRank
  Limit = 1
  Today = 1
  Cents <- MCCents
  Transfers = {3}
  AccountOf <- MCAccountOf
  PurchaseDay <- MCPurchaseDay
  Number <- MCNumber
  Total <- MCTotal
  Purchase <- MCPurchase
SPECIFICATION Spec
INVARIANTS SteadyRowsListed NothingListedTwice OneConnectionPerWalk TotalsReconcile RemainingIsOwed
PROPERTIES WalksEnd
