SPECIFICATION MCSpec
CONSTANTS
  c1 = c1
  m1 = m1
  f1 = f1
  s1 = s1
  s2 = s2
  r1 = r1
  r2 = r2
  a = a
  b = b
  k1 = k1
  t1 = t1
  t2 = t2
  p1 = p1
  p2 = p2
  p3 = p3
  b1 = b1
  b2 = b2
  q1 = q1
  q2 = q2
  Conversation = {c1}
  Text = {m1}
  Picked = {f1}
  Slot = {s1, s2}
  MaxStream = 2
  Home = Home
  Nothing = Nothing
  Key = {1, 2, 3}
  UploadKey = {3}
  Content = {r1, r2}
  KeyOf <- MCKeyOf
  Limit = {2}
  DefaultLimit = 2
  Kind = {"upload", "output"}
  Anything = "anything"
  Row = {a, b}
  ApiKey = {k1}
  MaxInFlight = 2
  NoRow = NoRow
  ProfileTab = {t1, t2}
  Photo = {p1, p2, p3}
  NoFile = NoFile
  PartKind = {"reasoning", "tool", "text", "chart"}
  MaxParts = 3
  Browser = {b1, b2}
  Secret = {q1, q2}
  NoSecret = NoSecret
  MaxAsked = 2
CONSTRAINT Promised
INVARIANTS OpeningCovered OpeningSentOnce TranscriptKept FilesListedWhole SecretGoesToItsRow ImageStored FormsAnswered
