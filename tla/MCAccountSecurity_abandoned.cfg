\* A setup is closed while its call is under way, and another one is started.
SPECIFICATION SecuritySpec
CONSTANTS
  b1 = b1
  q1 = q1
  q2 = q2
  Browser = {b1}
  Secret = {q1, q2}
  NoSecret = NoSecret
  MaxAsked = 2
INVARIANTS AuthenticatorKept
