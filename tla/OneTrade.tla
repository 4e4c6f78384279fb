------------------------------ MODULE OneTrade ------------------------------
(***************************************************************************)
(* What the strategy runtime promises of each trading account, whatever    *)
(* its ticks, its desk, the broker and the operator do meanwhile: its bots *)
(* hold at most one trade, and open the next only when that one is closed  *)
(* ("Max 1 open position ... until it closes", strategy-runtime.service).  *)
(***************************************************************************)
EXTENDS Naturals

CONSTANT Accounts
VARIABLE held   \* the number of open trades of bots on each account

Init == held = [a \in Accounts |-> 0]

Open(a) == held[a] = 0 /\ held' = [held EXCEPT ![a] = 1]
Close(a) == held[a] = 1 /\ held' = [held EXCEPT ![a] = 0]

Next == \E a \in Accounts : Open(a) \/ Close(a)

Spec == Init /\ [][Next]_held
=============================================================================
