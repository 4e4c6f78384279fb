------------------------- MODULE MCAccountSessions -------------------------
(* Two sub-accounts, the second the richer. *)
EXTENDS AccountSessions, TLC

CONSTANTS a1, a2, d1, d2, x, y

MCMoney == (x :> 1) @@ (y :> 2)
=============================================================================
