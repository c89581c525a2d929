------------------------- MODULE MCAccountSecurity --------------------------
(* One browser and two secrets: the second factor of one person, alone. *)
EXTENDS AccountSecurity

CONSTANTS b1, q1, q2

=============================================================================
