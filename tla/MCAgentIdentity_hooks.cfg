\* Two verification hooks at work at the same time.
CONSTANTS
  h1 = h1
  h2 = h2
  conv1 = conv1
  b1 = b1
  b2 = b2
  b3 = b3
  None = None
  Hook = {h1, h2}
  Conversation = {conv1}
  Boot = {b1, b2, b3}
  StartBoot = {b1, b2}
  BootOf <- MCOneConversation
SPECIFICATION Spec
INVARIANTS EnsureHostIdempotent
\* every hook and boot may be over, or its conversation never created
CHECK_DEADLOCK FALSE
