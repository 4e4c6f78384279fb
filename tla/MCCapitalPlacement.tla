------------------------ MODULE MCCapitalPlacement ------------------------
(* Instances of CapitalPlacement for TLC. *)
EXTENDS CapitalPlacement

CONSTANTS desk, sibling, a1, a2, s1, s2

\* Orders and closes of one account beside the orders, the book and the unlocked
\* calls of another account of the login.
MCAdapterOf == (desk :> a1) @@ (sibling :> a2)
MCPin == (a1 :> s1) @@ (a2 :> s2)
MCWork == (desk :> {"place", "close"}) @@ (sibling :> {"place", "book", "loose"})
=============================================================================
