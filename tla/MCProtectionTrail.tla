------------------------- MODULE MCProtectionTrail -------------------------
(***************************************************************************)
(* Small instances of ProtectionTrail: t1 and t2 are the two timers, and   *)
(* t2 does what a user asks for as well.                                   *)
(***************************************************************************)
EXTENDS ProtectionTrail, TLC

CONSTANTS t1, t2

MCOneTimer == t1 :> [mode \in RowModes |-> {"protect"}]
MCTimersAndUser ==
  MCOneTimer @@
  (t2 :> [mode \in RowModes |-> IF mode = "SCALPING" THEN {"protect", "breakEven"}
                             ELSE {"protect", "ema", "breakEven", "trailing"}])
=============================================================================
