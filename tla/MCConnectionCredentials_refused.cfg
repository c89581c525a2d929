\* A refused update followed by a read, nothing failing or overlapping.
CONSTANTS
  a = a
  b = b
  s = s
  t = t
  i = i
  j = j
  create = create
  update1 = update1
  update2 = update2
  read = read
  delete = delete
  Absent = Absent
  Creators = {create}
  Updaters = {update1}
  Readers = {read}
  Deleters = {}
  ClientId = {a, b}
  Secret = {s, t}
  Item = {i, j}
  Valid <- MCValid
  Access <- MCAccess
  CreateInput <- MCCreateWorking
  UpdateInput <- MCUpdateInput
  Regimes <- MCNothingFails
SPECIFICATION Spec
INVARIANTS WorkingConnectionReads
