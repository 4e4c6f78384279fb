------------------------------ MODULE ScaleOut ------------------------------
(***************************************************************************)
(* Scaling out of one position at several take-profit targets, which the   *)
(* app manages itself because Capital.com knows only one: the plan         *)
(* (packages/shared/src/multi-tp.ts), manageMultiTakeProfits and the       *)
(* close and partialClose it goes through (apps/api/src/positions/         *)
(* positions.service.ts), beside the desk's own closes, the sync with the  *)
(* broker and a deal that the broker closes at its native stop or target.  *)
(*                                                                         *)
(* Volumes count volume steps.  The mark that a pass starts with is the    *)
(* number of targets the price has reached, so BUY and SELL are one case   *)
(* here.  The sync, whose own interleavings are PositionLifecycle's        *)
(* subject, is one step.                                                   *)
(***************************************************************************)
EXTENDS VolumeSteps, Sequences, FiniteSetsExt

CONSTANTS
  Size,      \* the volume of the fill
  Count,     \* targets asked for
  MaxFaults  \* bound: closes by the desk, calls that fail, answers that are
             \* lost and crashes, all together

ASSUME ScaleOutAssumption ==
  /\ Size \in Nat \ {0, 1} /\ Count \in 2..10
  /\ MaxFaults \in Nat

\* The plan of the fill: a slice for each target.
Slices == SliceVolumes(Size, Count)

Targets == DOMAIN Slices
Last == Len(Slices)

Procs == {"pass", "desk"}

VARIABLES
  deal,    \* the volume open at the broker, 0 when it is closed
  row,     \* status and volume of the Position row
  level,   \* status of each level in takeProfitsJson
  op,      \* what the protections pass and the desk are doing
  events,  \* PositionPartiallyClosed events not yet taken up
  desks,   \* history: has the desk begun a close?
  faults,
  lost,    \* history: has a close been carried out and not been recorded?
  ender    \* history: who closed the deal, and whether the pass did so early

position == <<deal, row, level>>
history == <<desks, faults, lost, ender>>
vars == <<position, op, events, history>>

Idle == [at |-> "idle", whole |-> FALSE, ask |-> 0, seen |-> 0, left |-> 0, idx |-> 0, price |-> 0]

\* All that may go wrong does, or nothing.
Init ==
  /\ deal = Size /\ row = [status |-> "OPEN", vol |-> Size]
  /\ level = [i \in Targets |-> "PENDING"]
  /\ op = [p \in Procs |-> Idle]
  /\ events = 0
  /\ desks = FALSE /\ faults \in {0, MaxFaults} /\ lost = FALSE /\ ender = "none"

At(p, here) == op[p].at = here
Goto(p, there) == op' = [op EXCEPT ![p].at = there]

Fault == faults < MaxFaults /\ faults' = faults + 1 /\ UNCHANGED <<desks, ender>>
NoFault == UNCHANGED <<desks, faults, ender>>

\* An error goes up: the pass catches it, the desk's caller gets it.
Thrown(p) == IF p = "pass" THEN Goto(p, "fail") ELSE op' = [op EXCEPT ![p] = Idle]

-----------------------------------------------------------------------------
(***************************************************************************)
(* manageMultiTakeProfits                                                  *)
(***************************************************************************)
\* Mutant of Unfinished: a level that failed is not tried again.
UnfinishedPending == {i \in Targets : level[i] = "PENDING"}

Unfinished == {i \in Targets : level[i] \in {"PENDING", "FAILED"}}

\* The pass goes through the rows that are open, one pass at a time, with the
\* mark of the moment, which may be any.
BeginPass(mark) ==
  /\ At("pass", "idle") /\ row.status = "OPEN"
  /\ op' = [op EXCEPT !["pass"].at = "look", !["pass"].price = mark]
  /\ UNCHANGED <<position, events, history>>

IsLast(i) == i = Last \/ ~\E j \in Unfinished : j > i

\* One turn of the loop: the row is read, the first unfinished level is taken if
\* the mark has reached it, and closes what is left when it is the last one or
\* covers the rest of the volume.
Look ==
  LET over == row.status # "OPEN" \/ row.vol = 0 \/ Unfinished = {}
      first(i) == \A j \in Unfinished : i <= j
      whole(i) == IsLast(i) \/ row.vol <= 1 \/ Slices[i] >= row.vol
  IN  /\ At("pass", "look")
      /\ \/ over /\ op' = [op EXCEPT !["pass"] = Idle]
         \/ \E i \in Unfinished :
              /\ ~over /\ first(i)
              /\ op' = [op EXCEPT !["pass"] =
                   IF i > @.price THEN Idle
                   ELSE [@ EXCEPT !.at = "take", !.idx = i, !.whole = whole(i),
                                  !.ask = IF whole(i) THEN 0 ELSE Slices[i]]]
      /\ UNCHANGED <<position, events, history>>

\* Mutant of Executed: the plan of the next turn still has the level open.
ExecutedForgotten == UNCHANGED level

Executed == level' = [level EXCEPT ![op["pass"].idx] = "EXECUTED"]

\* The level is written; after a slice the loop goes on with the next level.
Note ==
  /\ At("pass", "note")
  /\ Executed
  /\ IF op["pass"].whole THEN op' = [op EXCEPT !["pass"] = Idle]
     ELSE op' = [op EXCEPT !["pass"] = [Idle EXCEPT !.at = "look", !.price = op["pass"].price]]
  /\ UNCHANGED <<deal, row, events, history>>

Fail ==
  /\ At("pass", "fail")
  /\ level' = [level EXCEPT ![op["pass"].idx] = "FAILED"]
  /\ op' = [op EXCEPT !["pass"] = Idle]
  /\ UNCHANGED <<deal, row, events, history>>

-----------------------------------------------------------------------------
(***************************************************************************)
(* close and partialClose, for the pass and for the desk                   *)
(***************************************************************************)
BeginDesk(whole, ask) ==
  /\ At("desk", "idle")
  /\ faults < MaxFaults /\ faults' = faults + 1 /\ desks' = TRUE
  /\ op' = [op EXCEPT !["desk"] = [Idle EXCEPT !.at = "take", !.whole = whole, !.ask = ask]]
  /\ UNCHANGED <<position, events, lost, ender>>

\* The row is read; partialClose refuses one that is being closed.
Take(p) ==
  /\ At(p, "take")
  /\ IF ~op[p].whole /\ row.status = "CLOSING" THEN Thrown(p)
     ELSE op' = [op EXCEPT ![p].at = "mark", ![p].seen = IF op[p].whole THEN 0 ELSE row.vol]
  /\ UNCHANGED <<position, events, history>>

\* assertStopLossBeforeClose may throw; otherwise the row says CLOSING.
MarkClosing(p) ==
  /\ At(p, "mark")
  /\ \/ row' = [row EXCEPT !.status = "CLOSING"] /\ Goto(p, "call") /\ NoFault
     \/ UNCHANGED row /\ Thrown(p) /\ Fault
  /\ UNCHANGED <<deal, level, events, lost>>

\* What the broker would close: everything, or a part that leaves something.
Asked(p) == IF op[p].whole THEN deal ELSE IF op[p].ask < deal THEN op[p].ask ELSE 0

CallBroker(p) ==
  LET n == Asked(p)
      closes ==
        /\ n > 0
        /\ deal' = deal - n
        /\ ender' = IF n < deal THEN ender
                    ELSE IF p = "pass" /\ op[p].price < Last THEN "early" ELSE p
  IN  /\ At(p, "call")
      /\ \/ /\ closes
            /\ op' = [op EXCEPT ![p].at = "write", ![p].left = deal - n, ![p].seen = 0]
            /\ UNCHANGED <<faults, lost>>
         \/ /\ closes /\ faults < MaxFaults /\ faults' = faults + 1
            /\ lost' = TRUE /\ Goto(p, "verify")
         \/ /\ n = 0 \/ faults < MaxFaults
            /\ faults' = IF n = 0 THEN faults ELSE faults + 1
            /\ Goto(p, "verify")
            /\ UNCHANGED <<deal, lost, ender>>
      /\ UNCHANGED <<row, level, events, desks>>

\* The catch block looks whether the deal is still there.  close takes one that
\* is gone for closed; partialClose puts back the volume it read, and throws.
VerifyClose(p) ==
  /\ At(p, "verify") /\ op[p].whole
  /\ IF deal = 0 THEN op' = [op EXCEPT ![p].at = "write", ![p].left = 0] /\ UNCHANGED row
     ELSE row' = [row EXCEPT !.status = "OPEN"] /\ Thrown(p)
  /\ UNCHANGED <<deal, level, events, history>>

VerifyPartial(p) ==
  /\ At(p, "verify") /\ ~op[p].whole
  /\ row' = IF deal = 0 THEN [status |-> "CLOSED", vol |-> 0]
            ELSE [status |-> "OPEN", vol |-> op[p].seen]
  /\ Thrown(p)
  /\ UNCHANGED <<deal, level, events, history>>

WriteResult(p) ==
  /\ At(p, "write")
  /\ row' = [status |-> IF op[p].left = 0 THEN "CLOSED" ELSE "OPEN", vol |-> op[p].left]
  /\ Goto(p, "publish")
  /\ UNCHANGED <<deal, level, events, history>>

\* What follows the row: the account, the event, persistState, audit and
\* notification.  Any of them may throw, before or after the event is out, and
\* the level of a slice that is closed counts as failed.
Publish(p) ==
  LET partly == ~op[p].whole /\ op[p].left > 0
      emit   == events' = IF partly THEN events + 1 ELSE events
  IN  /\ At(p, "publish")
      /\ \/ /\ emit /\ NoFault /\ UNCHANGED lost
            /\ IF p = "pass" THEN Goto(p, "note") ELSE op' = [op EXCEPT ![p] = Idle]
         \/ /\ emit \/ UNCHANGED events
            /\ Fault /\ lost' = TRUE /\ Thrown(p)
      /\ UNCHANGED position

-----------------------------------------------------------------------------
(***************************************************************************)
(* The broker, the sync and crashes                                        *)
(***************************************************************************)
NativeClose ==
  /\ deal > 0
  /\ deal' = 0 /\ ender' = "native"
  /\ UNCHANGED <<row, level, op, events, desks, faults, lost>>

\* syncAccountOpenPositionsFromBroker: the broker's volume and OPEN, or CLOSED.
Sync ==
  /\ row.status \in {"OPEN", "CLOSING"}
  /\ row' = IF deal > 0 THEN [status |-> "OPEN", vol |-> deal] ELSE [status |-> "CLOSED", vol |-> 0]
  /\ UNCHANGED <<deal, level, op, events, history>>

\* Events live in memory only.
Crash ==
  /\ faults < MaxFaults /\ faults' = faults + 1
  /\ lost' = TRUE
  /\ op' = [p \in Procs |-> Idle]
  /\ events' = 0
  /\ UNCHANGED <<position, desks, ender>>

Continue(p) ==
  \/ Take(p) \/ MarkClosing(p) \/ CallBroker(p)
  \/ VerifyClose(p) \/ VerifyPartial(p) \/ WriteResult(p) \/ Publish(p)

Manage == Look \/ Note \/ Fail \/ Continue("pass")

ScaleNext ==
  \/ \E mark \in 0..Last : BeginPass(mark)
  \/ Manage \/ Continue("desk")
  \/ BeginDesk(TRUE, 0) \/ \E ask \in 1..(Size - 1) : BeginDesk(FALSE, ask)
  \/ NativeClose \/ Sync

\* The trail timer starts a pass every second and the strategy tick a sync every
\* three, and the event loop carries what has begun through.  The timers are not
\* in step, so that a sync comes between two passes again and again: one that
\* always came in the middle of a slice would be undone by VerifyPartial.
ScaleFairness ==
  /\ WF_vars(\E mark \in 0..Last : BeginPass(mark))
  /\ WF_vars(Manage) /\ WF_vars(Continue("desk"))
  /\ SF_vars(At("pass", "idle") /\ Sync)
-----------------------------------------------------------------------------
(***************************************************************************)
(* Properties                                                              *)
(***************************************************************************)
LevelsExecuted == {i \in Targets : level[i] = "EXECUTED"}

\* As long as only the pass closes and it records what it closed, however many
\* of its calls are refused, the broker has closed the slices of the executed
\* levels and the one in hand, each once (2374-2450) ...
SlicesOnce ==
  ~lost /\ ~desks /\ ender = "none" =>
    Size - deal = SumFunctionOnSet(Slices, LevelsExecuted)
                + (IF op["pass"].at \in {"write", "publish", "note"} THEN op["pass"].ask ELSE 0)

\* ... and "remaining stays open" (2447): the deal is not closed before the price
\* has reached the last target.
RunnerKept == ~lost /\ ~desks => ender # "early"

ScalesAsPlanned == SlicesOnce /\ RunnerKept

\* "do not skip forever" (2452): when the price stays beyond the last target, so
\* that every pass finds it there, the position is closed in the end, whatever
\* failed on the way.
ScaledOut == <>[](At("pass", "look") => op["pass"].price = Last) => <>(deal = 0)
=============================================================================
