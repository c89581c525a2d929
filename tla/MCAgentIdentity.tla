--------------------------- MODULE MCAgentIdentity ---------------------------
(* Overlapping hooks and boots of one conversation. *)
EXTENDS AgentIdentity, TLC

CONSTANTS h1, h2, conv1, b1, b2, b3

MCOneConversation == [b \in {b1, b2, b3} |-> conv1]

=============================================================================
