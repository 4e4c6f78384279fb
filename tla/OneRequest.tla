----------------------------- MODULE OneRequest -----------------------------
(***************************************************************************)
(* What placing an order promises of each client request id, however often *)
(* it is submitted and whatever crashes: it is written down before it is   *)
(* carried out and carried out at most once, and its order is told to be   *)
(* filled only when a deal came of it, which it stays unless it is         *)
(* cancelled.  That it is rejected may be taken back: the sweep says so of *)
(* orders it knows nothing of.                                             *)
(***************************************************************************)
EXTENDS Naturals

CONSTANT Requests
VARIABLES
  fate,  \* new, recorded, or what came of it: nothing, working, open, gone
  told   \* what the order row says: none, placing, rejected, filled, cancelled

Init == fate = [r \in Requests |-> "new"] /\ told = [r \in Requests |-> "none"]

Record(r) ==
  /\ fate[r] = "new" /\ fate' = [fate EXCEPT ![r] = "recorded"]
  /\ told[r] = "none" /\ told' = [told EXCEPT ![r] = "placing"]

Becomes(r, before, after) ==
  /\ fate[r] \in before
  /\ \E s \in after : fate' = [fate EXCEPT ![r] = s]
  /\ UNCHANGED told

Execute(r) == Becomes(r, {"recorded"}, {"nothing", "working", "open"})
Fill(r) == Becomes(r, {"working"}, {"open"})
Close(r) == Becomes(r, {"working", "open"}, {"gone"})

Tell(r, before, s) ==
  /\ told[r] \in before
  /\ told' = [told EXCEPT ![r] = s]
  /\ UNCHANGED fate

\* A call that was slower than the sweep goes on with a request it has not sent.
Resume(r) == fate[r] = "recorded" /\ Tell(r, {"rejected"}, "placing")
Confirm(r) == fate[r] \in {"open", "gone"} /\ Tell(r, {"placing", "rejected"}, "filled")
Cancel(r) == Tell(r, {"rejected", "filled"}, "cancelled")

\* An answer, or the sweep of several at once.
Reject ==
  /\ UNCHANGED fate
  /\ told' \in [Requests -> {"none", "placing", "rejected", "filled", "cancelled"}]
  /\ \A r \in Requests : told'[r] # told[r] => told[r] = "placing" /\ told'[r] = "rejected"

Next ==
  \/ Reject
  \/ \E r \in Requests : \/ Record(r) \/ Execute(r) \/ Fill(r) \/ Close(r)
                         \/ Resume(r) \/ Confirm(r) \/ Cancel(r)

Spec == Init /\ [][Next]_<<fate, told>>
=============================================================================
