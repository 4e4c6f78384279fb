-------------------------- MODULE ProtectionTrail --------------------------
(***************************************************************************)
(* How the desk moves the stop of one open BUY position: the protections   *)
(* pass of positions.service.ts (autoManageAccountProtections), run by the *)
(* 3-second and by the 1-second timer of strategy-runtime.service.ts, the  *)
(* EMA3 trail those timers also run, a break-even asked for by a user and  *)
(* the user's switch of the trail.  The strategy's mode decides what a     *)
(* pass does: a ten-second SCALPING position is chased, any other has      *)
(* break-even and trailing.                                                *)
(*                                                                         *)
(* Every await is a step boundary, but for the two writes of a row that    *)
(* follow a modify.  Prices are whole ticks, a pip one tick.  A SELL       *)
(* mirrors a BUY.  The position stays open (a market that reaches the stop *)
(* closes it: see PositionLifecycle).  The second, slightly wider attempt  *)
(* after a rejected trail is part of the attempt.                          *)
(***************************************************************************)
EXTENDS StopLevels

CONSTANTS
  Procs,      \* the timers, and users
  Kinds,      \* what each may run, by mode
  RowModes,   \* the strategy modes the position may have
  Marks,      \* prices the market may show
  Entry,      \* the position's average entry
  FirstStop,  \* the stop a fill comes back with, unless it is naked
  MinDist,    \* the broker's least distance between mark and stop
  TrailDist,  \* trailing distance
  HasBe, BeAt, BeOffset,  \* break-even: enabled, profit that activates it, offset
  Bump,       \* the least improvement that the chase sends
  ChartEdits, \* may the stop be removed on the broker's chart?
  MaxMoves,   \* bound: moves of the market and edits of the chart
  MaxFaults   \* bound: broker calls that fail

ASSUME TrailAssumption ==
  /\ Kinds \in [Procs -> [RowModes -> SUBSET {"protect", "ema", "breakEven", "trailing"}]]
  /\ RowModes \subseteq {"SCALPING", "EMA_TICK_SCALP", "OTHER"}
  /\ Marks \subseteq Nat
  /\ {Entry, FirstStop, MinDist, TrailDist, BeAt, BeOffset, Bump, MaxMoves, MaxFaults} \subseteq Nat
  /\ MinDist <= TrailDist /\ \A m \in Marks : m >= TrailDist
  /\ {HasBe, ChartEdits} \subseteq BOOLEAN

VARIABLES
  mark,    \* the market
  sl,      \* the stop at the broker
  row,     \* the Position row: mode of its strategy, stop, break-even activated, trail
           \* enabled, trail activated
  chase,   \* what the service remembers of a SCALPING position: the stop the broker
           \* rejected, the tries to attach one, and the waits that have not ended
  busy,    \* is the account in protectionsRunningByAccount?
  op,      \* what each process is doing
  bes,     \* BreakEvenActivated events that protections passes published
  moves, faults

vars == <<mark, sl, row, chase, busy, op, bes, moves, faults>>

\* The process's copies of the row: the flag its path goes by (break-even
\* activated, or the chase's trail enabled), the trail's activation, and the stop
\* where the chase needs it; the mark and the stop it goes by, whether the broker
\* showed it them, and the stop to send or record.
Idle == [kind |-> "none", at |-> "idle", flag |-> FALSE, armed |-> FALSE, own |-> NoStop,
         mark |-> 0, sl |-> NoStop, seen |-> FALSE, want |-> NoStop]

\* EMA_TICK_SCALP is filled without a trailing distance.
Init ==
  /\ mark \in Marks
  /\ sl \in {NoStop} \cup {s \in {FirstStop} : mark - s >= MinDist}
  /\ \E mode \in RowModes :
       row = [mode |-> mode, sl |-> sl, be |-> FALSE, on |-> mode # "EMA_TICK_SCALP",
              armed |-> FALSE]
  /\ chase = [rejected |-> NoStop, tries |-> 0, waits |-> {}]
  /\ busy = FALSE
  /\ op = [p \in Procs |-> Idle]
  /\ bes = 0 /\ moves = 0 /\ faults = 0

At(p, kind, here) == op[p].kind = kind /\ op[p].at = here
Goto(p, there) == op' = [op EXCEPT ![p].at = there]
\* What break-even went by is forgotten.
ToTrail(p) ==
  op' = [op EXCEPT ![p].at = "trail", ![p].flag = FALSE, ![p].armed = FALSE, ![p].want = NoStop]
Finish(p) == op' = [op EXCEPT ![p] = Idle]
\* Mutant of Leave: the account stays in protectionsRunningByAccount.
LeaveLocked(p) == UNCHANGED busy /\ Finish(p)

Leave(p) == busy' = FALSE /\ Finish(p)
Fault == faults < MaxFaults /\ faults' = faults + 1
NoFault == UNCHANGED faults

\* adapter.modifyPosition: the broker takes a stop far enough below the mark of
\* that moment and shows it back; anything else, or a failed call, throws.
Takes(want) == mark - want >= MinDist

-----------------------------------------------------------------------------
(***************************************************************************)
(* The protections pass                                                    *)
(***************************************************************************)
Chased == row.mode = "SCALPING"

\* The sync copies the broker's stop into the row; the rows are then read.
BeginProtect(p) ==
  /\ op[p].at = "idle" /\ "protect" \in Kinds[p][row.mode]
  /\ \/ row' = [row EXCEPT !.sl = sl] /\ NoFault
     \/ Fault /\ UNCHANGED row
  /\ op' = [op EXCEPT ![p] =
              [Idle EXCEPT !.kind = "protect", !.at = "snapshot", !.sl = row'.sl,
                           !.flag = IF Chased THEN row.on ELSE row.be,
                           !.own = IF Chased THEN row'.sl ELSE NoStop]]
  /\ UNCHANGED <<mark, sl, chase, busy, bes, moves>>

\* The broker's book is read before the account is marked busy.  When it cannot
\* be, the market's own tick is the mark and the row's stop, if any, the stop; an
\* empty one is taken for a position without a stop.
Snapshot(p) ==
  /\ At(p, "protect", "snapshot")
  /\ \/ op' = [op EXCEPT ![p].at = "enter", ![p].mark = mark, ![p].sl = sl, ![p].seen = TRUE]
        /\ NoFault
     \/ op' = [op EXCEPT ![p].at = "enter", ![p].mark = mark, ![p].sl = NoStop, ![p].seen = TRUE]
        /\ Fault
     \/ op' = [op EXCEPT ![p].at = "enter", ![p].mark = mark] /\ Fault
  /\ UNCHANGED <<mark, sl, row, chase, busy, bes, moves>>

\* A pass that finds the account busy is dropped.
Enter(p) ==
  /\ At(p, "protect", "enter")
  /\ IF busy THEN Finish(p) /\ UNCHANGED busy
     ELSE busy' = TRUE /\ Goto(p, IF Chased THEN "chase" ELSE "recover")
  /\ UNCHANGED <<mark, sl, row, chase, bes, moves, faults>>

InProfit(p) == op[p].mark > Entry
\* brokerStopLoss.has: a book that was read leaves an entry, "" when naked.
HasSl(p) == op[p].seen \/ op[p].sl # NoStop

\* When no stop is known and there is no profit, one is attached at one of four
\* distances from the entry; throttled, rejected or lost, the pass ends.
Recover(p) ==
  /\ At(p, "protect", "recover")
  /\ IF HasSl(p) \/ InProfit(p)
     THEN Goto(p, "breakEven") /\ UNCHANGED <<sl, row, chase, busy>>
     ELSE \/ \E k \in {1, 2, 3, 5} :
               /\ sl' = InitialStop("BUY", Entry, k * MinDist, MinDist, op[p].mark)
               /\ sl' > 0 /\ Takes(sl')
               /\ row' = [row EXCEPT !.sl = sl']
               /\ op' = [op EXCEPT ![p].at = "breakEven", ![p].sl = sl']
               /\ UNCHANGED busy
          \/ Leave(p) /\ UNCHANGED <<sl, row>>
  /\ UNCHANGED <<mark, chase, bes, moves, faults>>

\* Mutant of TryBreakEven: the row is not read again.
TryBreakEvenStale(p) ==
  LET want == BreakEvenStop("BUY", Entry, BeOffset, MinDist, op[p].mark)
  IN  /\ At(p, "protect", "breakEven")
      /\ IF HasBe /\ ~op[p].flag /\ op[p].mark - Entry >= BeAt /\ want # NoStop
         THEN op' = [op EXCEPT ![p].at = "sendBe", ![p].want = want, ![p].armed = row.armed]
         ELSE ToTrail(p)
      /\ UNCHANGED <<mark, sl, row, chase, busy, bes, moves, faults>>

\* The copy of the row read before the lock decides whether to try, the row as
\* it is now whether to go on.
TryBreakEven(p) ==
  LET want == BreakEvenStop("BUY", Entry, BeOffset, MinDist, op[p].mark)
  IN  /\ At(p, "protect", "breakEven")
      /\ IF /\ HasBe /\ ~op[p].flag /\ op[p].mark - Entry >= BeAt
            /\ ~row.be /\ want # NoStop
         THEN op' = [op EXCEPT ![p].at = "sendBe", ![p].want = want, ![p].armed = row.armed]
         ELSE ToTrail(p)
      /\ UNCHANGED <<mark, sl, row, chase, busy, bes, moves, faults>>

\* A user's break-even takes no lock.
BeginBreakEven(p) ==
  LET want == BreakEvenStop("BUY", Entry, BeOffset, MinDist, mark)
  IN  /\ op[p].at = "idle" /\ "breakEven" \in Kinds[p][row.mode]
      /\ ~row.be /\ want # NoStop
      /\ op' = [op EXCEPT ![p] = [Idle EXCEPT !.kind = "breakEven", !.at = "sendBe", !.want = want,
                                              !.armed = row.armed]]
      /\ UNCHANGED <<mark, sl, row, chase, busy, bes, moves, faults>>

Abandon(p) == IF op[p].kind = "protect" THEN ToTrail(p) ELSE Finish(p)

SendBreakEven(p) ==
  /\ op[p].at = "sendBe"
  /\ \/ /\ Takes(op[p].want)
        /\ sl' = op[p].want /\ Goto(p, "noteBe") /\ NoFault
     \/ /\ IF Takes(op[p].want) THEN Fault ELSE NoFault
        /\ Abandon(p) /\ UNCHANGED sl
  /\ UNCHANGED <<mark, row, chase, busy, bes, moves>>

\* The trail's flag goes back to what it was when the row was read.
NoteBreakEven(p) ==
  /\ op[p].at = "noteBe"
  /\ row' = [row EXCEPT !.sl = op[p].want, !.be = TRUE, !.armed = op[p].armed]
  /\ bes' = IF op[p].kind = "protect" THEN bes + 1 ELSE bes
  /\ Abandon(p)
  /\ UNCHANGED <<mark, sl, chase, busy, moves, faults>>

\* The stop the trail starts from: what it goes by, or else the row's.
Existing(p) == IF HasSl(p) THEN op[p].sl ELSE row.sl

\* The row is read again, and the stop the pass goes by is copied into it.
TryTrail(p) ==
  LET want == TrailingStop("BUY", op[p].mark, TrailDist, MinDist, Existing(p))
  IN  /\ At(p, "protect", "trail")
      /\ IF row.on /\ (row.armed \/ InProfit(p))
         THEN /\ row' = [row EXCEPT !.sl = IF op[p].sl # NoStop THEN op[p].sl ELSE @]
              /\ IF want = Existing(p) THEN Leave(p)
                 ELSE op' = [op EXCEPT ![p].at = "sendTrail", ![p].want = want] /\ UNCHANGED busy
         ELSE Leave(p) /\ UNCHANGED row
      /\ UNCHANGED <<mark, sl, chase, bes, moves, faults>>

SendTrail(p) ==
  /\ At(p, "protect", "sendTrail")
  /\ \/ /\ Takes(op[p].want)
        /\ sl' = op[p].want /\ Goto(p, "noteTrail") /\ NoFault /\ UNCHANGED busy
     \/ /\ IF Takes(op[p].want) THEN Fault ELSE NoFault
        /\ Leave(p) /\ UNCHANGED sl
  /\ UNCHANGED <<mark, row, chase, bes, moves>>

\* A trail that the user has switched off in the meantime is on again.
NoteTrail(p) ==
  /\ At(p, "protect", "noteTrail")
  /\ row' = [row EXCEPT !.sl = op[p].want, !.on = TRUE, !.armed = TRUE]
  /\ Leave(p)
  /\ UNCHANGED <<mark, sl, chase, bes, moves, faults>>

-----------------------------------------------------------------------------
(***************************************************************************)
(* A SCALPING position in the pass (chaseScalpFixedPriceStop)              *)
(***************************************************************************)
\* Only the chart counts: what the row says of the stop is not trusted.
Chart(p) == IF op[p].seen THEN op[p].sl ELSE NoStop

\* The lock, or a pip outside the least distance where that is not legal.
ChaseStop(m) ==
  LET lock == LockStop("BUY", Entry, MinDist, m)
  IN  IF ValidVsMark("BUY", lock, MinDist, m) THEN lock ELSE m - MinDist - 1

\* Mutant of AfterChase: a naked position is left to the next chase.
AfterChaseLeaves(p) == Leave(p)

AfterChase(p) ==
  IF Chart(p) = NoStop THEN Goto(p, "attach") /\ UNCHANGED busy ELSE Leave(p)

\* A stop that is naked is always sent for, but for the wait after a rejection and
\* the level that was rejected; an improvement also waits for the one before it.
TryChase(p) ==
  LET want == ChaseStop(op[p].mark)
      send == /\ want > 0 /\ "backoff" \notin chase.waits /\ want # chase.rejected
              /\ Chart(p) = NoStop \/ want - Chart(p) >= Bump
  IN  /\ At(p, "protect", "chase")
      /\ row' = [row EXCEPT !.on = op[p].flag => @]
      /\ \/ send /\ op' = [op EXCEPT ![p].at = "sendChase", ![p].want = want] /\ UNCHANGED busy
         \/ (~send \/ Chart(p) # NoStop) /\ AfterChase(p)
      /\ UNCHANGED <<mark, sl, chase, bes, moves, faults>>

SendChase(p) ==
  /\ At(p, "protect", "sendChase")
  /\ \/ /\ Takes(op[p].want)
        /\ sl' = op[p].want /\ Goto(p, "noteChase") /\ NoFault /\ UNCHANGED <<chase, busy>>
     \/ /\ IF Takes(op[p].want) THEN Fault ELSE NoFault
        /\ chase' = [chase EXCEPT !.rejected = op[p].want, !.waits = @ \cup {"backoff"}]
        /\ AfterChase(p) /\ UNCHANGED sl
  /\ UNCHANGED <<mark, row, bes, moves>>

NoteChase(p) ==
  /\ At(p, "protect", "noteChase")
  /\ row' = [row EXCEPT !.sl = op[p].want, !.on = TRUE, !.armed = TRUE]
  /\ chase' = [chase EXCEPT !.rejected = NoStop, !.waits = @ \ {"backoff"}]
  /\ Leave(p)
  /\ UNCHANGED <<mark, sl, bes, moves, faults>>

\* The stop of the next try: a tenth of the entry, or what the row's stop would
\* be, wider with each try.
FirstAttach(p) ==
  LET first == Entry \div 10
      own == IF op[p].own = NoStop THEN first
             ELSE MaxOf(first, MaxOf(Entry - op[p].own, op[p].own - Entry))
      dist == CASE chase.tries = 0 -> first [] chase.tries = 1 -> 2 * own
                [] chase.tries = 2 -> 3 * own [] OTHER -> 5 * own
  IN  InitialStop("BUY", Entry, dist, MinDist, op[p].mark)

\* recoverScalpNakedStop: one try per wait.
Attach(p) ==
  LET stop == FirstAttach(p)
      waits == chase.waits \cup {"attach"}
  IN  /\ At(p, "protect", "attach")
      /\ \/ "attach" \in chase.waits /\ UNCHANGED <<sl, row, chase>> /\ NoFault
         \/ /\ "attach" \notin chase.waits /\ stop > 0 /\ Takes(stop)
            /\ sl' = stop /\ row' = [row EXCEPT !.sl = stop] /\ NoFault
            /\ chase' = [rejected |-> NoStop, tries |-> 0, waits |-> waits \ {"backoff"}]
         \/ /\ "attach" \notin chase.waits
            /\ IF stop > 0 /\ Takes(stop) THEN Fault ELSE NoFault
            /\ chase' = [chase EXCEPT !.tries = MinOf(@ + 1, 3), !.waits = waits]
            /\ UNCHANGED <<sl, row>>
      /\ Leave(p)
      /\ UNCHANGED <<mark, bes, moves>>

WaitEnds(w) ==
  /\ w \in chase.waits
  /\ chase' = [chase EXCEPT !.waits = @ \ {w}]
  /\ UNCHANGED <<mark, sl, row, busy, op, bes, moves, faults>>

-----------------------------------------------------------------------------
(***************************************************************************)
(* The EMA3 trail                                                          *)
(***************************************************************************)
\* An EMA above the row's stop and below the row's price, which is that of its last
\* sync, becomes the stop to send.
BeginEma(p, ema, price) ==
  /\ op[p].at = "idle" /\ "ema" \in Kinds[p][row.mode] /\ row.mode = "EMA_TICK_SCALP"
  /\ ema > row.sl /\ ema < price
  /\ op' = [op EXCEPT ![p] = [Idle EXCEPT !.kind = "ema", !.at = "sendEma", !.want = ema]]
  /\ UNCHANGED <<mark, sl, row, chase, busy, bes, moves, faults>>

SendEma(p) ==
  /\ At(p, "ema", "sendEma")
  /\ \/ /\ Takes(op[p].want)
        /\ sl' = op[p].want /\ Goto(p, "noteEma") /\ NoFault
     \/ /\ IF Takes(op[p].want) THEN Fault ELSE NoFault
        /\ Finish(p) /\ UNCHANGED sl
  /\ UNCHANGED <<mark, row, chase, busy, bes, moves>>

NoteEma(p) ==
  /\ At(p, "ema", "noteEma")
  /\ row' = [row EXCEPT !.sl = op[p].want]
  /\ Finish(p)
  /\ UNCHANGED <<mark, sl, chase, busy, bes, moves, faults>>

-----------------------------------------------------------------------------
(***************************************************************************)
(* The user's switch of the trail (updateTrailing), which takes no lock    *)
(***************************************************************************)
\* On: the stop comes from the row, whose price is that of its last sync; one that
\* the row has already is not sent.
BeginTrailOn(p, price) ==
  LET want == TrailingStop("BUY", price, TrailDist, 0, row.sl)
  IN  /\ op[p].at = "idle" /\ "trailing" \in Kinds[p][row.mode]
      /\ op' = [op EXCEPT ![p] =
                 [Idle EXCEPT !.kind = "trailOn", !.want = want,
                              !.at = IF want = row.sl THEN "noteSwitch" ELSE "sendSwitch"]]
      /\ UNCHANGED <<mark, sl, row, chase, busy, bes, moves, faults>>

\* Off: the broker's book is read first.
BeginTrailOff(p) ==
  /\ op[p].at = "idle" /\ "trailing" \in Kinds[p][row.mode]
  /\ op' = [op EXCEPT ![p] = [Idle EXCEPT !.kind = "trailOff", !.at = "readLive", !.sl = row.sl]]
  /\ UNCHANGED <<mark, sl, row, chase, busy, bes, moves, faults>>

\* Mutant of Kept: the stop the trail would go to, whatever the broker has.
KeptTrail(price, live) == TrailingStop("BUY", price, TrailDist, 0, NoStop)

\* The tighter of the live stop and the one the trail would go to.
Kept(price, live) == MaxOf(TrailingStop("BUY", price, TrailDist, 0, live), live)

Keep(p, price, live) ==
  op' = [op EXCEPT ![p].at = "sendSwitch", ![p].sl = live, ![p].want = Kept(price, live)]

\* A position that is naked leaves the row's stop, and a book that cannot be read
\* the row's price as well.
ReadLive(p) ==
  /\ At(p, "trailOff", "readLive")
  /\ \/ Keep(p, mark, IF sl # NoStop THEN sl ELSE op[p].sl) /\ NoFault
     \/ (\E price \in Marks : Keep(p, price, op[p].sl)) /\ Fault
  /\ UNCHANGED <<mark, sl, row, chase, busy, bes, moves>>

SendSwitch(p) ==
  /\ op[p].at = "sendSwitch"
  /\ \/ /\ Takes(op[p].want)
        /\ sl' = op[p].want /\ Goto(p, "noteSwitch") /\ NoFault
     \/ /\ IF Takes(op[p].want) THEN Fault ELSE NoFault
        /\ Finish(p) /\ UNCHANGED sl
  /\ UNCHANGED <<mark, row, chase, busy, bes, moves>>

NoteSwitch(p) ==
  LET on == op[p].kind = "trailOn"
  IN  /\ op[p].at = "noteSwitch"
      /\ row' = [row EXCEPT !.sl = op[p].want, !.on = on, !.armed = on]
      /\ Finish(p)
      /\ UNCHANGED <<mark, sl, chase, busy, bes, moves, faults>>

-----------------------------------------------------------------------------
(***************************************************************************)
(* The market and the chart                                                *)
(***************************************************************************)
MoveMarket(m) ==
  /\ moves < MaxMoves /\ moves' = moves + 1
  /\ m # mark /\ m > sl
  /\ mark' = m
  /\ UNCHANGED <<sl, row, chase, busy, op, bes, faults>>

RemoveStop ==
  /\ ChartEdits /\ sl # NoStop
  /\ moves < MaxMoves /\ moves' = moves + 1
  /\ sl' = NoStop
  /\ UNCHANGED <<mark, row, chase, busy, op, bes, faults>>

Continue(p) ==
  \/ Snapshot(p) \/ Enter(p) \/ Recover(p) \/ TryBreakEven(p)
  \/ SendBreakEven(p) \/ NoteBreakEven(p) \/ TryTrail(p) \/ SendTrail(p) \/ NoteTrail(p)
  \/ TryChase(p) \/ SendChase(p) \/ NoteChase(p) \/ Attach(p)
  \/ SendEma(p) \/ NoteEma(p) \/ ReadLive(p) \/ SendSwitch(p) \/ NoteSwitch(p)

Next ==
  \/ \E p \in Procs :
       \/ BeginProtect(p) \/ BeginBreakEven(p) \/ BeginTrailOff(p) \/ Continue(p)
       \/ \E price \in Marks : BeginTrailOn(p, price) \/ \E ema \in Marks : BeginEma(p, ema, price)
  \/ \E m \in Marks : MoveMarket(m)
  \/ RemoveStop
  \/ \E w \in {"backoff", "attach"} : WaitEnds(w)

Spec == Init /\ [][Next]_vars

\* Both timers fire for ever, the event loop carries every pass through and the
\* waits end.
Fairness ==
  /\ \A p \in Procs : WF_vars(Continue(p)) /\ WF_vars(BeginProtect(p))
  /\ \A w \in {"backoff", "attach"} : WF_vars(WaitEnds(w))

FairSpec == Spec /\ Fairness

-----------------------------------------------------------------------------
(***************************************************************************)
(* Properties                                                              *)
(***************************************************************************)
Levels == {NoStop} \cup Nat

\* Stops are prices or absent; the account is busy exactly while one pass is
\* between its lock and its release.
TypeOK ==
  /\ mark \in Marks /\ sl \in Levels
  /\ row \in [mode : RowModes, sl : Levels, be : BOOLEAN, on : BOOLEAN, armed : BOOLEAN]
  /\ chase \in [rejected : Levels, tries : 0..3, waits : SUBSET {"backoff", "attach"}]
  /\ bes \in Nat
  /\ busy <=> \E p \in Procs : op[p].kind = "protect" /\ op[p].at \notin {"snapshot", "enter"}
  /\ \A p \in Procs : op[p].want \in Levels /\ op[p].sl \in Levels

\* A pass that still goes by the stop the broker has does not lower it, whatever
\* the market did between its snapshot and its modify: a trail unless the mark it
\* goes by has reached the stop (2056-2095), a chase never ("improve-only", 1115).
\* Switching the trail off does not either, whatever the row and the market say:
\* "never loosen vs live stop" (2206).
FreshPassTightens ==
  [][\A p \in Procs :
       (/\ op'[p] # op[p] /\ op[p].sl = sl
        /\ \/ At(p, "protect", "sendTrail") /\ op[p].mark > sl
           \/ At(p, "protect", "sendChase") /\ op[p].seen
           \/ At(p, "trailOff", "sendSwitch")) => sl' >= sl]_vars

\* The passes activate break-even once however the two timers interleave, and
\* not at all after a user did: the copy of the row that each read before the
\* lock is not trusted (activateBreakEven 942-945, autoManage 1944-1948).
BreakEvenOnce == bes <= 1

\* "SL follows price when in plus" (2058): whatever stale snapshots, failed calls
\* and a switch in the middle of a pass did to it, a position in profit whose
\* trail is on has its stop within the trailing distance again and again.
StopFollows == []<>(~Chased /\ row.on /\ mark > Entry => sl >= mark - TrailDist)

\* "Capital SL must exist from the first tick" (1114): a SCALPING position that is
\* naked gets a stop, whatever was rejected or lost before.  Where the chase does
\* not send (a level rejected once is not sent again), the recovery does.
NakedAttached == Chased /\ sl = NoStop ~> sl # NoStop

\* "Naked Capital positions (no SL) - always try recovery" (1441): a naked
\* position gets a stop.
NakedRecovered == sl = NoStop ~> sl # NoStop
=============================================================================
