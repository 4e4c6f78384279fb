------------------------ MODULE MCPositionLifecycle ------------------------
(***************************************************************************)
(* Small instances of PositionLifecycle.  The cfg files name the processes *)
(* and this module says which operations each may run: p1 and p2 belong to *)
(* the desk, t1 is a timer tick.                                           *)
(***************************************************************************)
EXTENDS PositionLifecycle, TLC

CONSTANTS p1, p2, t1

MCDeskSync == (p1 :> {"close", "partial"}) @@ (t1 :> {"sync"})
MCTwoDesks == (p1 :> {"close", "partial"}) @@ (p2 :> {"close", "partial", "sync", "reconcile"})

Symmetry == Permutations(Rows) \cup Permutations(Deals)
=============================================================================
