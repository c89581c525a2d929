\* One update overlapping one read, nothing failing.
CONSTANTS
  a = a
  b = b
  s = s
  t = t
  i = i
  j = j
  create = create
  update1 = update1
  update2 = update2
  read = read
  delete = delete
  Absent = Absent
  Creators = {create}
  Updaters = {update1}
  Readers = {read}
  Deleters = {}
  ClientId = {a, b}
  Secret = {s, t}
  Item = {i, j}
  Valid <- MCValid
  Access <- MCAccess
  CreateInput <- MCCreateWorking
  UpdateInput <- MCUpdateInput
  Regimes <- MCOverlapOnly
SPECIFICATION Spec
INVARIANTS StoredConnectionWorks
