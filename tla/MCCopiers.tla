----------------------------- MODULE MCCopiers -----------------------------
(***************************************************************************)
(* A small instance of Copiers: a locked follower and one with a volume of *)
(* its own.  What may go wrong on the master does where nobody copies it,  *)
(* to keep the instance small; where it is copied, calls of the copier     *)
(* fail.                                                                   *)
(***************************************************************************)
EXTENDS Copiers, TLC

CONSTANTS f1, f2

MCFixed == (f1 :> 0) @@ (f2 :> 7)

MCInit == CopiersInit /\ (opening.at = "event" => faults = MaxFaults)

MCSpec == MCInit /\ [][Next]_copierVars /\ Fairness
=============================================================================
