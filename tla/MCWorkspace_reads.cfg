\* Two tabs and their selections, one screen, one removal, one conversation;
\* one request over two accounts of two items; three months.
CONSTANTS
  a = a
  b = b
  x = x
  t1 = t1
  t2 = t2
  p1 = p1
  p2 = p2
  i1 = i1
  i2 = i2
  bank = bank
  card = card
  r1 = r1
  r2 = r2
  h1 = h1
  h2 = h2
  h3 = h3
  None = None
  Connection = {a, b, x}
  Mine = {a, b}
  Tab = {t1, t2}
  Viewing = {t1}
  Pick = {p1, p2}
  TabOf <- MCTabOf
  KeepsPrevious = FALSE
  Item = {i1, i2}
  Account = {bank, card}
  ItemOf <- MCItemOf
  Cards = {card}
  Row = {r1, r2}
  AccountOf <- MCAccountOf
  Holding = {h1, h2, h3}
  HeldAt <- MCHeldAt
  Rank <- MCRank
  Limits = {1, 2}
  NoCursor = NoCursor
  Foreign = Foreign
  FirstItem = i1
  Stranger = Stranger
  Month = {1, 2, 3}
  FirstDay <- MCFirstDay
  FirstToday = 3
  LastToday = 4
  Text = {"", "a"}
  Source = {"acc"}
  Direction = {"all", "income"}
  Here = Here
  ExpirySkew = 5
  MinTtl = 1
  MaxTtl = 8
  FallbackTtl = 6
  Lifetime = {7, 9, 16}
  OpaqueLifetime = {12, 20}
  StoreDelay = 1
  Horizon = 14
  Nil = Nil
  Provider = {"GITHUB"}
  ClientId <- MCClientId
  ClientSecret <- MCClientSecret
  ApiBindings <- MCApiBindings
  MaxEdits = 1
  Nowhere = Nowhere
SPECIFICATION MCSpec
CONSTRAINTS OneSide OneDraft
SYMMETRY ConnectionSymmetry
INVARIANTS ScopeIsOwned CachedUnderItsConnection AgentStaysPinned CompleteOrDeclared NotFoundIsAbsent PeriodsTile InFlightNeverRaces FileMirrorsApi
