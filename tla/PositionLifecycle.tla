------------------------- MODULE PositionLifecycle -------------------------
(***************************************************************************)
(* The life of Position rows in apps/api/src/positions/                    *)
(* positions.service.ts on one account: close, partialClose, the sync with *)
(* the broker's open book, the reconciliation of rows whose deal is gone   *)
(* and the row a fresh fill creates (orders.service.ts), each an async     *)
(* function whose awaits are step boundaries.  Any number of them run at a *)
(* time: HTTP handlers, the 3-second strategy tick, the 1-second trail     *)
(* tick and the positions list all call them.                              *)
(*                                                                         *)
(* Volumes count volume steps and closing one step realises a profit of    *)
(* one unit, so that volume and money can be compared.  OPEN and           *)
(* PARTIALLY_CLOSED are one status here: the code treats them alike and    *)
(* the volume tells them apart.  The order of the rows of a findMany is    *)
(* not specified, so that loops over them take the next one arbitrarily.   *)
(***************************************************************************)
EXTENDS Integers, FiniteSets, Functions

CONSTANTS
  Deals,      \* broker deals that may be opened
  Rows,       \* bound: position rows there is room for
  Procs,      \* concurrent executions
  Kinds,      \* the operations a process may run
  Nil,        \* no deal, no row
  Full,       \* the volume of a fresh deal
  ChartEdits, \* may stops be removed and set on the broker's chart?
  MaxThrows,  \* bound: broker calls that throw or lose their answer
  EmptyLimit, \* consecutive empty books before rows are closed as ghosts, 5 in the code
  MaxFlakes,  \* bound: times the broker shows an empty book though it is not
  MaxCrashes  \* bound: crashes of the API process

ASSUME LifecycleAssumption ==
  /\ IsFiniteSet(Deals) /\ IsFiniteSet(Rows) /\ IsFiniteSet(Procs)
  /\ Kinds \in [Procs -> SUBSET {"close", "partial", "sync", "reconcile"}]
  /\ Nil \notin Deals \cup Rows
  /\ {Full, EmptyLimit} \subseteq Nat \ {0}
  /\ ChartEdits \in BOOLEAN
  /\ {MaxThrows, MaxFlakes, MaxCrashes} \subseteq Nat

VARIABLES
  vol,      \* the volume of a deal open at the broker, 0 before and after
  opened,   \* deals opened so far
  stop,     \* does the deal have a stop at the broker?
  earned,   \* what closing a deal through the desk has realised at the broker
  pos,      \* the Position rows
  today,    \* realizedPnlToday of the account
  empties,  \* emptyBrokerSnapshots of the account, counted up to EmptyLimit
  filling,  \* deals filled by a place() that has not created their row yet
  op,       \* what each process is doing
  throws, flakes, crashes,
  overlapped \* history: has a close begun while another one was under way?

vars == <<vol, opened, stop, earned, pos, today, empties, filling, op, throws, flakes, crashes,
          overlapped>>
deals == <<vol, opened, stop, earned>>
faults == <<throws, flakes, crashes, overlapped>>

NoRow == [deal |-> Nil, status |-> "none", vol |-> 0, pnl |-> 0, sl |-> FALSE]

\* What a process carries across its awaits: its row and the copy of it that it
\* read, the volume asked for, the result of the broker's close, the rows and
\* deals still to visit and the book the broker showed.
Idle == [kind |-> "none", at |-> "idle", id |-> Nil, mine |-> NoRow, ask |-> 0,
         won |-> 0, left |-> 0, todo |-> {}, live |-> {}, adopt |-> {}]

ActiveStatus == {"OPEN", "CLOSING"}
ActiveRows == {id \in Rows : pos[id].status \in ActiveStatus}
OpenDeals == {d \in Deals : vol[d] > 0}

\* The broker's answer to getOpenPositions: what is open, its volume and stop.
Book == {[deal |-> d, vol |-> vol[d], sl |-> stop[d]] : d \in OpenDeals}
Shown(live) == {b.deal : b \in live}

Init ==
  /\ vol = [d \in Deals |-> 0]
  /\ opened = {}
  /\ stop = [d \in Deals |-> FALSE]
  /\ earned = [d \in Deals |-> 0]
  /\ pos = [id \in Rows |-> NoRow]
  /\ today = 0
  /\ empties = 0
  /\ filling = {}
  /\ op = [p \in Procs |-> Idle]
  /\ throws = 0 /\ flakes = 0 /\ crashes = 0 /\ overlapped = FALSE

At(p, kinds, here) == op[p].kind \in kinds /\ op[p].at = here
Goto(p, there) == op' = [op EXCEPT ![p].at = there]
Finish(p) == op' = [op EXCEPT ![p] = Idle]

\* A broker call may throw; a read may show an empty book.
Throws == throws < MaxThrows /\ throws' = throws + 1 /\ UNCHANGED <<flakes, crashes, overlapped>>
Reads(live) ==
  \/ live = Book /\ UNCHANGED faults
  \/ /\ live = {} /\ Book # {}
     /\ flakes < MaxFlakes /\ flakes' = flakes + 1
     /\ UNCHANGED <<throws, crashes, overlapped>>

-----------------------------------------------------------------------------
(***************************************************************************)
(* close and partialClose                                                  *)
(***************************************************************************)
Closing == {"close", "partial"}

\* The row is read.  close looks at no status, partialClose refuses CLOSING.
BeginClose(p, kind, id, ask) ==
  /\ op[p].at = "idle" /\ kind \in Kinds[p] \cap Closing
  /\ pos[id].status # "none"
  /\ kind = "partial" => pos[id].status # "CLOSING"
  /\ op' = [op EXCEPT ![p] = [Idle EXCEPT !.kind = kind, !.at = "assert", !.id = id,
                                          !.mine = pos[id], !.ask = ask]]
  /\ overlapped' = (overlapped \/ \E q \in Procs \ {p} : op[q].kind \in Closing)
  /\ UNCHANGED <<deals, pos, today, empties, filling, throws, flakes, crashes>>

\* assertStopLossBeforeClose: the broker must show a stop on the deal or not
\* show the deal; when it cannot be read, the stop of the row decides.
AssertStopLoss(p) ==
  LET d == op[p].mine.deal
  IN  /\ At(p, Closing, "assert")
      /\ \/ \E live \in {Book, {}} :
              /\ Reads(live)
              /\ IF \A b \in live : b.deal = d => b.sl THEN Goto(p, "mark") ELSE Finish(p)
         \/ /\ Throws
            /\ IF op[p].mine.sl THEN Goto(p, "mark") ELSE Finish(p)
      /\ UNCHANGED <<deals, pos, today, empties, filling>>

MarkClosing(p) ==
  /\ At(p, Closing, "mark")
  /\ pos' = [pos EXCEPT ![op[p].id].status = "CLOSING"]
  /\ Goto(p, "call")
  /\ UNCHANGED <<deals, today, empties, filling, faults>>

\* What the broker would close: everything, or a part that leaves something.
Asked(p) ==
  LET open == vol[op[p].mine.deal]
  IN  IF op[p].kind = "close" THEN open
      ELSE IF op[p].ask < open THEN op[p].ask ELSE 0

\* adapter.closePosition and partialClosePosition: a deal that is gone, or a
\* part that is too large, throws; so may any call, before or after it closed.
CallBroker(p) ==
  LET d == op[p].mine.deal
      n == Asked(p)
  IN  /\ At(p, Closing, "call")
      /\ \/ /\ n > 0
            /\ vol' = [vol EXCEPT ![d] = @ - n]
            /\ earned' = [earned EXCEPT ![d] = @ + n]
            /\ \/ /\ op' = [op EXCEPT ![p].at = "write", ![p].won = n,
                                      ![p].left = vol[d] - n]
                  /\ UNCHANGED faults
               \/ Throws /\ Goto(p, "verify")
         \/ /\ IF n = 0 THEN UNCHANGED faults ELSE Throws
            /\ Goto(p, "verify")
            /\ UNCHANGED <<vol, earned>>
      /\ UNCHANGED <<opened, stop, pos, today, empties, filling>>

\* Mutant of VerifyClose: an error is taken to mean that the deal is gone.
VerifyCloseTrusting(p) ==
  /\ At(p, {"close"}, "verify")
  /\ Goto(p, "write")
  /\ UNCHANGED <<deals, pos, today, empties, filling, faults>>

\* The catch block reads the broker.  close: a deal that is gone counts as
\* closed with a profit of 0, any other outcome puts the row back to OPEN and
\* the error goes up.  partialClose: the row is put back to OPEN with the
\* volume read at the start, or closed, and the error goes up.
VerifyClose(p) ==
  LET id == op[p].id
      d  == op[p].mine.deal
  IN  /\ At(p, {"close"}, "verify")
      /\ \/ \E live \in {Book, {}} :
              /\ Reads(live)
              /\ IF d \in Shown(live)
                 THEN pos' = [pos EXCEPT ![id].status = "OPEN"] /\ Finish(p)
                 ELSE Goto(p, "write") /\ UNCHANGED pos
         \/ Throws /\ pos' = [pos EXCEPT ![id].status = "OPEN"] /\ Finish(p)
      /\ UNCHANGED <<deals, today, empties, filling>>

VerifyPartial(p) ==
  LET id == op[p].id
      d  == op[p].mine.deal
  IN  /\ At(p, {"partial"}, "verify")
      /\ \/ \E live \in {Book, {}} :
              /\ Reads(live)
              /\ pos' = [pos EXCEPT ![id].status = IF d \in Shown(live) THEN "OPEN" ELSE "CLOSED",
                                    ![id].vol = IF d \in Shown(live) THEN op[p].mine.vol ELSE 0]
         \/ Throws /\ pos' = [pos EXCEPT ![id].status = "OPEN"]
      /\ Finish(p)
      /\ UNCHANGED <<deals, today, empties, filling>>

\* Mutant of WriteResult: the profit of an earlier partial close is lost.
WriteLastResult(p) ==
  LET id == op[p].id
  IN  /\ At(p, Closing, "write")
      /\ pos' = [pos EXCEPT
           ![id].status = IF op[p].left = 0 THEN "CLOSED" ELSE "OPEN",
           ![id].vol = op[p].left,
           ![id].pnl = op[p].won]
      /\ Goto(p, "credit")
      /\ UNCHANGED <<deals, today, empties, filling, faults>>

\* The final update: the profit is the one read at the start plus the result.
WriteResult(p) ==
  LET id == op[p].id
  IN  /\ At(p, Closing, "write")
      /\ pos' = [pos EXCEPT
           ![id].status = IF op[p].left = 0 THEN "CLOSED" ELSE "OPEN",
           ![id].vol = op[p].left,
           ![id].pnl = op[p].mine.pnl + op[p].won]
      /\ op' = [op EXCEPT ![p].at = "credit", ![p].mine = NoRow, ![p].ask = 0, ![p].left = 0]
      /\ UNCHANGED <<deals, today, empties, filling, faults>>

\* tradingAccount.realizedPnlToday is incremented in the database.
CreditAccount(p) ==
  /\ At(p, Closing, "credit")
  /\ today' = today + op[p].won
  /\ Finish(p)
  /\ UNCHANGED <<deals, pos, empties, filling, faults>>

-----------------------------------------------------------------------------
(***************************************************************************)
(* syncAccountOpenPositionsFromBroker and reconcileClosedAgainstBroker     *)
(***************************************************************************)
Syncing == {"sync", "reconcile"}

\* The active rows are read first; reconcile stops when there are none.
BeginSync(p, kind) ==
  /\ op[p].at = "idle" /\ kind \in Kinds[p] \cap Syncing
  /\ kind = "reconcile" => ActiveRows # {}
  /\ op' = [op EXCEPT ![p] = [Idle EXCEPT !.kind = kind, !.at = "read", !.todo = ActiveRows]]
  /\ UNCHANGED <<deals, pos, today, empties, filling, faults>>

\* The broker's book arrives.  An empty one is counted while rows are open and
\* ends the pass until it is the EmptyLimit-th; one with deals starts the count
\* afresh; an empty one with no rows open leaves the count as it is.
ReadBook(p) ==
  LET rows == op[p].todo
      carry(live) ==
        op' = [op EXCEPT ![p].at = "rows", ![p].live = live,
                         ![p].adopt = Shown(live) \ {pos[id].deal : id \in rows}]
  IN  /\ At(p, Syncing, "read")
      /\ \/ \E live \in {Book, {}} :
              /\ Reads(live)
              /\ \/ /\ live = {} /\ rows # {}
                    /\ empties' = IF empties < EmptyLimit THEN empties + 1 ELSE EmptyLimit
                    /\ IF empties' < EmptyLimit THEN Finish(p) ELSE carry(live)
                 \/ /\ live # {} \/ rows = {}
                    /\ empties' = IF live # {} THEN 0 ELSE empties
                    /\ carry(live)
         \/ Throws /\ Finish(p) /\ UNCHANGED empties
      /\ UNCHANGED <<deals, pos, today, filling>>

\* What sync copies from the broker into a row, and whether rows without a deal
\* are closed; each after its mutant: the volume is not copied, an empty book
\* never closes a row.
RefreshedStop(r, b) == [r EXCEPT !.status = "OPEN", !.sl = b.sl]
Refreshed(r, b) == [r EXCEPT !.status = "OPEN", !.vol = b.vol, !.sl = b.sl]

BookNotEmpty(p) == op[p].live # {}
Believed(p) == op[p].live # {} \/ empties >= EmptyLimit

\* One row of the pass: sync copies what the broker showed, status included,
\* over whatever the row says by now; both close a row whose deal was not shown.
VisitRow(p, id) ==
  /\ At(p, Syncing, "rows") /\ id \in op[p].todo
  /\ op' = [op EXCEPT ![p].todo = @ \ {id}]
  /\ \/ \E b \in op[p].live :
          /\ b.deal = pos[id].deal
          /\ pos' = IF op[p].kind = "sync" THEN [pos EXCEPT ![id] = Refreshed(@, b)] ELSE pos
     \/ /\ pos[id].deal \notin Shown(op[p].live)
        /\ pos' = IF Believed(p) THEN [pos EXCEPT ![id].status = "CLOSED", ![id].vol = 0]
                  ELSE pos
  /\ UNCHANGED <<deals, today, empties, filling, faults>>

\* A deal shown that no row read at the start refers to: when no active row
\* has turned up meanwhile, a row is created for it.
CheckAdopt(p, d) ==
  /\ At(p, {"sync"}, "rows") /\ op[p].todo = {} /\ d \in op[p].adopt
  /\ IF \E id \in ActiveRows : pos[id].deal = d
     THEN op' = [op EXCEPT ![p].adopt = @ \ {d}]
     ELSE op' = [op EXCEPT ![p].at = "adopt", ![p].mine.deal = d]
  /\ UNCHANGED <<deals, pos, today, empties, filling, faults>>

FreeRow(id) == pos[id].status = "none"
NewRow(d, v, sl) == [deal |-> d, status |-> "OPEN", vol |-> v, pnl |-> 0, sl |-> sl]

\* With no row left (the bound on Rows) the deal stays unadopted.
Adopt(p, id) ==
  LET d == op[p].mine.deal
  IN  /\ At(p, {"sync"}, "adopt")
      /\ \/ FreeRow(id) /\ \E b \in op[p].live :
              b.deal = d /\ pos' = [pos EXCEPT ![id] = NewRow(d, b.vol, b.sl)]
         \/ ~(\E other \in Rows : FreeRow(other)) /\ UNCHANGED pos
      /\ op' = [op EXCEPT ![p].at = "rows", ![p].mine.deal = Nil, ![p].adopt = @ \ {d}]
      /\ UNCHANGED <<deals, today, empties, filling, faults>>

EndSync(p) ==
  /\ At(p, Syncing, "rows") /\ op[p].todo = {}
  /\ op[p].kind = "reconcile" \/ op[p].adopt = {}
  /\ Finish(p)
  /\ UNCHANGED <<deals, pos, today, empties, filling, faults>>

-----------------------------------------------------------------------------
(***************************************************************************)
(* Placement, the broker and crashes                                       *)
(***************************************************************************)
\* The broker fills an order of the desk; its row comes with a later step.
BrokerFills(d) ==
  /\ d \notin opened
  /\ opened' = opened \cup {d}
  /\ vol' = [vol EXCEPT ![d] = Full]
  /\ stop' = [stop EXCEPT ![d] = TRUE]
  /\ filling' = filling \cup {d}
  /\ UNCHANGED <<earned, pos, today, empties, op, faults>>

CreatePosition(d, id) ==
  /\ d \in filling /\ FreeRow(id)
  /\ filling' = filling \ {d}
  /\ pos' = [pos EXCEPT ![id] = NewRow(d, Full, TRUE)]
  /\ UNCHANGED <<deals, today, empties, op, faults>>

\* A stop or target is hit, or the deal is closed on the chart.
BrokerCloses(d) ==
  /\ vol[d] > 0
  /\ vol' = [vol EXCEPT ![d] = 0]
  /\ UNCHANGED <<opened, stop, earned, pos, today, empties, filling, op, faults>>

EditStop(d) ==
  /\ ChartEdits /\ vol[d] > 0
  /\ stop' = [stop EXCEPT ![d] = ~@]
  /\ UNCHANGED <<vol, opened, earned, pos, today, empties, filling, op, faults>>

Crash ==
  /\ crashes < MaxCrashes
  /\ crashes' = crashes + 1
  /\ op' = [p \in Procs |-> Idle]
  /\ empties' = 0
  /\ filling' = {}
  /\ UNCHANGED <<deals, pos, today, throws, flakes, overlapped>>

\* Every step of an operation that has begun.
Continue(p) ==
  \/ AssertStopLoss(p) \/ MarkClosing(p) \/ CallBroker(p)
  \/ VerifyClose(p) \/ VerifyPartial(p) \/ WriteResult(p) \/ CreditAccount(p)
  \/ ReadBook(p) \/ EndSync(p)
  \/ \E id \in Rows : VisitRow(p, id) \/ Adopt(p, id)
  \/ \E d \in Deals : CheckAdopt(p, d)

Next ==
  \/ \E p \in Procs :
       \/ \E kind \in Closing, id \in Rows, ask \in 1..Full :
            (kind = "close" => ask = Full) /\ BeginClose(p, kind, id, ask)
       \/ \E kind \in Syncing : BeginSync(p, kind)
       \/ Continue(p)
  \/ \E d \in Deals :
       \/ BrokerFills(d) \/ BrokerCloses(d) \/ EditStop(d)
       \/ \E id \in Rows : CreatePosition(d, id)
  \/ Crash

Spec == Init /\ [][Next]_vars

\* The timers start the sync of a connected account again and again, and the
\* event loop carries every operation through.
Fairness ==
  \A p \in Procs :
    /\ WF_vars(Continue(p))
    /\ "sync" \in Kinds[p] => WF_vars(BeginSync(p, "sync"))

FairSpec == Spec /\ Fairness
-----------------------------------------------------------------------------
(***************************************************************************)
(* Properties                                                              *)
(***************************************************************************)
\* A step that takes a row out of the active ones finds its deal gone.
LiveRowsStay ==
  \A id \in Rows : id \in ActiveRows /\ pos'[id].status = "CLOSED" => vol'[pos[id].deal] = 0

\* As long as the broker shows its true book, no operation closes the row of a
\* deal that is still open there, in whatever order closes, syncs,
\* reconciliations, fills, lost answers and crashes interleave (close 847-860,
\* partialClose 734-749, reconcile 206-252, sync 355-369): the rows are read
\* before the book they are compared with.
LiveRowNeverClosed == [][flakes' = 0 => LiveRowsStay]_vars

\* What the rows of a deal have booked; what each process has closed of it at the
\* broker and not yet entered in a row; what each has not yet credited.
Booked(d) == [id \in Rows |-> IF pos[id].deal = d THEN pos[id].pnl ELSE 0]
Unwritten(d) ==
  [p \in Procs |-> IF At(p, Closing, "write") /\ op[p].mine.deal = d THEN op[p].won ELSE 0]
Uncredited == [p \in Procs |-> IF op[p].at \in {"write", "credit"} THEN op[p].won ELSE 0]

\* Without faults, each closed step of a deal is booked once in its rows, be
\* they one or two because a sync adopted the deal before the order created its
\* row: the rows' profits and what is in flight add up to what the deal earned
\* (close 862-872, partialClose 752-761), as long as no two closes overlap.
RowsBookEarnings ==
  throws = 0 /\ crashes = 0 /\ ~overlapped =>
    \A d \in Deals : earned[d] = SumFunction(Booked(d)) + SumFunction(Unwritten(d))

\* Without faults, realizedPnlToday is what the deals earned, each close
\* credited once, with any number of operations closing the same deal
\* (close 874-877, partialClose 763-770).
AccountBooksEarnings ==
  throws = 0 /\ crashes = 0 => SumFunction(earned) = today + SumFunction(Uncredited)

\* What a close earned is booked once where it is booked: the deal's rows and the
\* account's day.
EarningsBooked == RowsBookEarnings /\ AccountBooksEarnings

\* "Without this, oneTradeOnly blocks forever" (160-161): a row whose deal is
\* gone leaves the active ones, even when the book is now empty and rows of
\* other operations' making come and go.
GhostRowsEnd ==
  \A id \in Rows : (id \in ActiveRows /\ vol[pos[id].deal] = 0) ~> id \notin ActiveRows

\* "Restore OPEN so strategies are not blocked forever in CLOSING" (739): no row
\* stays CLOSING, even when the process that was closing it has crashed.
ClosingEnds == \A id \in Rows : pos[id].status = "CLOSING" ~> pos[id].status # "CLOSING"

\* "Pull Capital open book into DB (adopt orphans, ...)" (258): an open deal
\* gets an active row, even when the order that opened it never created one, as
\* long as the rows that wrong empty books closed leave room (bound: Rows).
OpenDealsAdopted ==
  \A d \in Deals :
    vol[d] > 0 ~> \/ vol[d] = 0
                  \/ \E id \in ActiveRows : pos[id].deal = d
                  \/ flakes > 0 /\ ~\E id \in Rows : FreeRow(id)

\* With a restart at any moment and a book that is wrongly empty, the rows and the
\* broker's deals come to an agreement: what ended, what was being closed and
\* what is open at the broker is each told from the others.
RowsSettle == GhostRowsEnd /\ ClosingEnds /\ OpenDealsAdopted

\* An active row shows the broker's volume again and again: what a stale read
\* wrote over it does not last (338-354).
RowsCatchUp ==
  \A id \in Rows : []<>(id \in ActiveRows => pos[id].vol = vol[pos[id].deal])
=============================================================================
