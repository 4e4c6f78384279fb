-------------------------- MODULE MCOrderPlacement --------------------------
(* Instances of OrderPlacement for TLC. *)
EXTENDS OrderPlacement, TLC

CONSTANTS r1, r2, c1, c2, c3

\* One call of each of two requests, or a double click on the first of them.
PairCalls == c1 :> r1 @@ c2 :> r2
ClickCalls == c1 :> r1 @@ c2 :> r1 @@ c3 :> r2

BotStrategies == r1 :> "s1" @@ r2 :> "s2"
NoStrategies == <<>>

\* The two clicks are alike.
Symmetry == Permutations({c1, c2})
=============================================================================
