\* All requests: one after the other, with Pluggy and D1 failing; and overlapping, with KV failing too.
CONSTANTS
  a = a
  b = b
  s = s
  t = t
  i = i
  j = j
  create = create
  update1 = update1
  update2 = update2
  read = read
  delete = delete
  Absent = Absent
  Creators = {create}
  Updaters = {update1, update2}
  Readers = {read}
  Deleters = {delete}
  ClientId = {a, b}
  Secret = {s, t}
  Item = {i, j}
  Valid <- MCValid
  Access <- MCAccess
  CreateInput <- MCCreateInput
  UpdateInput <- MCUpdateInput
  Regimes <- MCRegimes
SPECIFICATION Spec
INVARIANTS StoredWorksWhenCalm QuietCacheServesRow
PROPERTIES DeletedStaysDeleted MisledReadsCease
