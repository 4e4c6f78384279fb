------------------------- MODULE MCStrategyRuntime -------------------------
(***************************************************************************)
(* Small instances of StrategyRuntime: two bots of one account that run in *)
(* different modes, one bot that is stopped, and no bot at all.            *)
(***************************************************************************)
EXTENDS StrategyRuntime, TLC

CONSTANTS s1, s2, a1, d1, d2, o1, o2

Row(status, scalp) == [status |-> status, scalp |-> scalp, accts |-> {a1}]

MCCasts ==
  {(s1 :> Row("RUNNING", TRUE)) @@ (s2 :> Row("RUNNING", FALSE)),
   (s1 :> Row("STOPPED", FALSE)) @@ (s2 :> Unborn),
   (s1 :> Unborn) @@ (s2 :> Unborn)}
=============================================================================
