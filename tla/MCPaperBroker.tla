--------------------------- MODULE MCPaperBroker ---------------------------
(* Instances of PaperBroker for TLC. *)
EXTENDS PaperBroker

\* Two prices, of which the lower hits the stop of a BUY and the higher that of
\* a SELL.
MCBids == {8, 12}
MCStops == {9}
MCTargets == {12}
MCTriggers == {11}
=============================================================================
