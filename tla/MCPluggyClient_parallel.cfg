\* Two parallel calls of one cached client with every answer and failure, or
\* three with one 429 between them.
CONSTANTS
  k1 = k1
  c1 = c1
  c2 = c2
  c3 = c3
  NoCall = NoCall
  Client = {k1}
  Call = {c1, c2, c3}
  ClientOf <- MCOneClient
  CachedClient = {k1}
  Answers = {"ok", "throttled", "consent", "notFound", "serverError", "unreachable"}
  Mortal = {1}
  CacheMayFail = TRUE
  AuthMayFail = TRUE
  MaxThrottle = 2
SPECIFICATION MCSpec
INVARIANTS TypeOK SlotIsLive AwaitedIsLive RenewedTokenIsFresh
PROPERTIES CacheNeverRegresses ImplementsContract
