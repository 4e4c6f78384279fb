---------------------------- MODULE PaperBroker ----------------------------
(***************************************************************************)
(* The in-memory broker of packages/broker-adapters/src/paper-adapter.ts:  *)
(* one PaperBrokerAdapter and one symbol.  Every public method that        *)
(* changes the adapter is an action; methods of the class are synchronous  *)
(* up to their return, so a call is one step.  A call that throws before   *)
(* it changes anything is not a step.                                      *)
(*                                                                         *)
(* Prices are whole ticks, volumes whole volume steps and money is scaled  *)
(* by the leverage, so that every Decimal computation of the class is an   *)
(* exact integer one.  Order and position ids are the insertion order of   *)
(* the Maps `orders' and `positions', the order in which the adapter walks *)
(* them.                                                                   *)
(***************************************************************************)
EXTENDS Integers, Sequences, FiniteSets, Functions

CONSTANTS
  RequestIds,       \* client request ids
  Bids,             \* bids a price update may carry
  DefaultBid,       \* the bid of DEFAULT_PRICES, used again after a restart
  Spread, Slippage, MinStop, ContractSize, Leverage, CommissionPerLot,
  StartingBalance, MinVolume, MaxVolume,
  Types, Volumes, Stops, Targets, Triggers, Trails,  \* inputs of the calls
  MaxOrders,        \* bound: orders ever stored, one less after each restart
  MaxPositions,     \* bound: positions ever opened, one less after each restart
  MaxRestarts       \* bound: process restarts

Absent == 0           \* an absent stop loss, take profit or trailing distance
Keep == -1          \* a field the caller leaves undefined

ASSUME PaperAssumption ==
  /\ Bids \cup Stops \cup Targets \cup Triggers \cup Trails \cup Volumes \subseteq Nat \ {0}
  /\ Types \subseteq {"MARKET", "LIMIT", "STOP", "STOP_LIMIT"}
  /\ DefaultBid \in Bids
  /\ {Spread, Slippage, CommissionPerLot, StartingBalance} \subseteq Nat
  /\ {MinStop, ContractSize, Leverage, MinVolume, MaxVolume} \subseteq Nat \ {0}
  /\ {MaxOrders, MaxPositions, MaxRestarts} \subseteq Nat

VARIABLES
  connected,  \* this.connected
  bid,        \* this.prices of the symbol (ask = bid + Spread)
  balance,    \* this.balance, times Leverage
  orders,     \* this.orders
  positions,  \* this.positions
  trades,     \* this.trades (volume and side only)
  processed,  \* this.processedRequestIds: the status answered
  saved,      \* the last snapshot() written to the account row
  restarts,   \* processes started after the first
  lastUpdate  \* how the last call ended, when it was updateMarketPrices

vars == <<connected, bid, balance, orders, positions, trades, processed,
          saved, restarts, lastUpdate>>

Directions == {"BUY", "SELL"}

Book == [balance |-> balance, orders |-> orders, positions |-> positions,
         trades |-> trades]

(***************************************************************************)
(* Prices, profit and margin                                               *)
(***************************************************************************)
Sign(dir) == IF dir = "BUY" THEN 1 ELSE -1

FillPrice(dir, b) == IF dir = "BUY" THEN b + Spread + Slippage ELSE b - Slippage

\* The price at which an open position is marked and closed.
MarkPrice(dir, b) == IF dir = "BUY" THEN b ELSE b + Spread

ValidStop(dir, sl, px) ==
  LET gap == Sign(dir) * (px - sl) IN sl > 0 /\ gap > 0 /\ gap >= MinStop

ValidTarget(dir, tp, px) ==
  LET gap == Sign(dir) * (tp - px) IN tp > 0 /\ gap > 0 /\ gap >= MinStop

Pnl(dir, entry, exit, vol) ==
  Sign(dir) * (exit - entry) * vol * ContractSize * Leverage

CommissionOn(vol) == CommissionPerLot * vol * Leverage

IsOpen(p) == p.status \in {"OPEN", "PARTIALLY_CLOSED"}

OpenOnes(ps) == {i \in DOMAIN ps : IsOpen(ps[i])}

FloatingPnl(ps, b) ==
  SumFunction([i \in OpenOnes(ps) |->
                 Pnl(ps[i].dir, ps[i].entry, MarkPrice(ps[i].dir, b), ps[i].vol)])

\* notional / leverage, times Leverage
UsedMargin(ps) ==
  SumFunction([i \in OpenOnes(ps) |-> ps[i].entry * ps[i].vol * ContractSize])

FreeMargin(book, b) ==
  book.balance + FloatingPnl(book.positions, b) - UsedMargin(book.positions)

MarkAll(ps, b) ==
  [i \in DOMAIN ps |-> IF IsOpen(ps[i]) THEN [ps[i] EXCEPT !.mark = MarkPrice(ps[i].dir, b)]
                       ELSE ps[i]]

(***************************************************************************)
(* fillMarketOrder: it throws on a bad stop or target, answers a rejection *)
(* when the margin is short (having marked the positions), or books the    *)
(* order, the position, the trade and the commission.                      *)
(***************************************************************************)
StopOf(q, px) ==
  IF q.sl # Absent THEN q.sl
  ELSE IF q.trail # Absent THEN px - Sign(q.dir) * q.trail ELSE Absent

FillThrows(q, b) ==
  LET px == FillPrice(q.dir, b) sl == StopOf(q, px)
  IN  \/ sl # Absent /\ ~ValidStop(q.dir, sl, px)
      \/ q.trail # Absent /\ sl = Absent
      \/ q.tp # Absent /\ ~ValidTarget(q.dir, q.tp, px)

MarginShort(book, q, b) ==
  FreeMargin(book, b) < FillPrice(q.dir, b) * q.vol * ContractSize

FillMarketOrder(book, q, b) ==
  LET px     == FillPrice(q.dir, b)
      marked == MarkAll(book.positions, b)
      order  == [req |-> q.req, type |-> q.type, dir |-> q.dir, vol |-> q.vol,
                 price |-> Absent, sl |-> Absent, tp |-> Absent, status |-> "FILLED"]
      pos    == [dir |-> q.dir, vol |-> q.vol, entry |-> px, mark |-> px,
                 sl |-> StopOf(q, px), tp |-> q.tp, realized |-> 0,
                 commission |-> CommissionOn(q.vol), status |-> "OPEN"]
  IN  IF MarginShort(book, q, b)
      THEN [book EXCEPT !.positions = marked]
      ELSE [balance   |-> book.balance - CommissionOn(q.vol),
            orders    |-> Append(book.orders, order),
            positions |-> Append(marked, pos),
            trades    |-> Append(book.trades, [dir |-> q.dir, vol |-> q.vol])]

(***************************************************************************)
(* executeClose of `vol' of position i at bid b                            *)
(***************************************************************************)
\* Mutant of Opposite: the closing trade is logged in the position's direction.
SameSide(dir) == dir

Opposite(dir) == IF dir = "BUY" THEN "SELL" ELSE "BUY"

\* Mutant of ExecuteClose: no commission is taken on the close.
ExecuteCloseFree(book, i, vol, b) ==
  LET p    == book.positions[i]
      pnl  == Pnl(p.dir, p.entry, MarkPrice(p.dir, b), vol)
      left == p.vol - vol
  IN  [book EXCEPT
        !.balance = @ + pnl,
        !.positions[i] = [p EXCEPT
            !.vol = left,
            !.realized = @ + pnl,
            !.commission = @ + CommissionOn(vol),
            !.status = IF left <= 0 THEN "CLOSED" ELSE "PARTIALLY_CLOSED"],
        !.trades = Append(@, [dir |-> Opposite(p.dir), vol |-> vol])]

ExecuteClose(book, i, vol, b) ==
  LET p    == book.positions[i]
      pnl  == Pnl(p.dir, p.entry, MarkPrice(p.dir, b), vol)
      left == p.vol - vol
  IN  [book EXCEPT
        !.balance = @ + pnl - CommissionOn(vol),
        !.positions[i] = [p EXCEPT
            !.vol = left,
            !.realized = @ + pnl,
            !.commission = @ + CommissionOn(vol),
            !.status = IF left <= 0 THEN "CLOSED" ELSE "PARTIALLY_CLOSED"],
        !.trades = Append(@, [dir |-> Opposite(p.dir), vol |-> vol])]

(***************************************************************************)
(* updateMarketPrices: the pending orders, then the stops and targets.     *)
(***************************************************************************)
Triggered(o, b) ==
  LET ask == b + Spread
  IN  \/ o.type = "LIMIT" /\ IF o.dir = "BUY" THEN ask <= o.price ELSE b >= o.price
      \/ o.type = "STOP"  /\ IF o.dir = "BUY" THEN ask >= o.price ELSE b <= o.price

\* The market request processPendingOrders makes of a pending order.
AsMarket(o) == [req |-> o.req, type |-> "MARKET", dir |-> o.dir, vol |-> o.vol,
                sl |-> o.sl, tp |-> o.tp, trail |-> Absent]

Waiting(o) == o.status = "PENDING"

\* Mutant of FillPending: the order keeps PENDING once filled.
FillPendingForgets(acc, i, b) ==
  LET o == acc.book.orders[i]
      q == AsMarket(o)
  IN  IF acc.threw \/ ~Waiting(o) \/ ~Triggered(o, b) THEN acc
      ELSE IF FillThrows(q, b) THEN [acc EXCEPT !.threw = TRUE]
      ELSE [acc EXCEPT !.book = FillMarketOrder(acc.book, q, b)]

\* One iteration over order i; nothing runs once an iteration has thrown.
FillPending(acc, i, b) ==
  LET o == acc.book.orders[i]
      q == AsMarket(o)
  IN  IF acc.threw \/ ~Waiting(o) \/ ~Triggered(o, b) THEN acc
      ELSE IF FillThrows(q, b) THEN [acc EXCEPT !.threw = TRUE]
      ELSE LET short == MarginShort(acc.book, q, b)
           IN  [acc EXCEPT !.book =
                 [FillMarketOrder(acc.book, q, b) EXCEPT
                    !.orders[i].status = IF short THEN "REJECTED" ELSE "FILLED"]]

\* The walk over the orders there were at the start.
ProcessPendingOrders(book, b) ==
  LET after[n \in 0..Len(book.orders)] ==
        IF n = 0 THEN [book |-> book, threw |-> FALSE] ELSE FillPending(after[n - 1], n, b)
  IN  after[Len(book.orders)]

StopHit(p, b) ==
  p.sl # Absent /\ Sign(p.dir) * (MarkPrice(p.dir, b) - p.sl) <= 0
\* Mutant of TargetHit: the target of a SELL is compared as if it were a BUY's.
TargetHitAsBuy(p, b) ==
  p.tp # Absent /\ MarkPrice(p.dir, b) - p.tp >= 0

TargetHit(p, b) ==
  p.tp # Absent /\ Sign(p.dir) * (MarkPrice(p.dir, b) - p.tp) >= 0

CloseIfHit(book, i, b) ==
  LET p == book.positions[i]
  IN  IF IsOpen(p) /\ (StopHit(p, b) \/ TargetHit(p, b))
      THEN ExecuteClose(book, i, p.vol, b) ELSE book

ProcessStopsAndTargets(book, b) ==
  LET after[n \in 0..Len(book.positions)] ==
        IF n = 0 THEN book ELSE CloseIfHit(after[n - 1], n, b)
  IN  after[Len(book.positions)]

-----------------------------------------------------------------------------
SetBook(book) ==
  /\ Len(book.orders) <= MaxOrders - restarts
  /\ Len(book.positions) <= MaxPositions - restarts
  /\ balance' = book.balance
  /\ orders' = book.orders
  /\ positions' = book.positions
  /\ trades' = book.trades

NewBook == [balance |-> StartingBalance * Leverage, orders |-> <<>>, positions |-> <<>>,
            trades |-> <<>>]

\* connect() on a new adapter with the account's balance.
Init ==
  /\ connected = TRUE
  /\ bid = DefaultBid
  /\ balance = NewBook.balance
  /\ orders = <<>> /\ positions = <<>> /\ trades = <<>>
  /\ processed = [r \in RequestIds |-> "none"]
  /\ saved = Book
  /\ restarts = 0
  /\ lastUpdate = "none"

\* placeOrder of a market order that neither throws nor was processed before.
PlaceMarketOrder(q) ==
  /\ connected /\ processed[q.req] = "none"
  /\ q.type = "MARKET"
  /\ q.vol \in MinVolume..MaxVolume
  /\ ~FillThrows(q, bid)
  /\ SetBook(FillMarketOrder(Book, q, bid))
  /\ processed' = [processed EXCEPT ![q.req] =
                     IF MarginShort(Book, q, bid) THEN "REJECTED" ELSE "FILLED"]
  /\ lastUpdate' = "none"
  /\ UNCHANGED <<connected, bid, saved, restarts>>

\* placeOrder of a limit, stop or stop-limit order: stored, not validated.
PlacePendingOrder(q, price) ==
  /\ connected /\ processed[q.req] = "none"
  /\ q.type # "MARKET"
  /\ q.vol \in MinVolume..MaxVolume
  /\ SetBook([Book EXCEPT !.orders = Append(@,
       [req |-> q.req, type |-> q.type, dir |-> q.dir, vol |-> q.vol,
        price |-> price, sl |-> q.sl, tp |-> q.tp, status |-> "PENDING"])])
  /\ processed' = [processed EXCEPT ![q.req] = "PENDING"]
  /\ lastUpdate' = "none"
  /\ UNCHANGED <<connected, bid, saved, restarts>>

\* placeOrder of a request id already processed: the stored answer.
ReplayRequest(r) ==
  /\ connected /\ processed[r] # "none"
  /\ lastUpdate' = "none"
  /\ UNCHANGED <<connected, bid, balance, orders, positions, trades, processed, saved, restarts>>

\* modifyOrder has no status check; what it writes into an order that is no
\* longer pending is never read, so that case is not a step.
ModifyOrder(i, price, sl, vol) ==
  /\ i \in DOMAIN orders /\ orders[i].status = "PENDING"
  /\ SetBook([Book EXCEPT !.orders[i].price = price, !.orders[i].sl = sl,
                          !.orders[i].vol = vol])
  /\ lastUpdate' = "none"
  /\ UNCHANGED <<connected, bid, processed, saved, restarts>>

\* cancelOrder has no status check either: a FILLED order becomes CANCELLED.
CancelOrder(i) ==
  /\ i \in DOMAIN orders
  /\ SetBook([Book EXCEPT !.orders[i].status = "CANCELLED"])
  /\ lastUpdate' = "none"
  /\ UNCHANGED <<connected, bid, processed, saved, restarts>>

\* modifyPosition: the new stop is checked against the last mark, the new
\* target not at all.  A trailing distance becomes a stop at that distance.
ModifyPosition(i, sl, trail, tp) ==
  /\ i \in DOMAIN positions /\ IsOpen(positions[i])
  /\ LET p       == positions[i]
         newStop == CASE trail # Absent -> p.mark - Sign(p.dir) * trail
                      [] sl = Keep -> p.sl
                      [] OTHER -> sl
     IN  /\ trail # Absent \/ sl \in Stops => ValidStop(p.dir, newStop, p.mark)
         /\ SetBook([Book EXCEPT !.positions[i].sl = newStop, !.positions[i].tp = tp])
  /\ lastUpdate' = "none"
  /\ UNCHANGED <<connected, bid, processed, saved, restarts>>

\* closePosition, and partialClosePosition with its three volume checks.
ClosePosition(i) ==
  /\ i \in DOMAIN positions /\ IsOpen(positions[i])
  /\ SetBook(ExecuteClose(Book, i, positions[i].vol, bid))
  /\ lastUpdate' = "none"
  /\ UNCHANGED <<connected, bid, processed, saved, restarts>>

PartialClosePosition(i, vol) ==
  /\ i \in DOMAIN positions /\ IsOpen(positions[i])
  /\ vol > 0 /\ vol < positions[i].vol
  /\ positions[i].vol - vol >= MinVolume
  /\ SetBook(ExecuteClose(Book, i, vol, bid))
  /\ lastUpdate' = "none"
  /\ UNCHANGED <<connected, bid, processed, saved, restarts>>

\* The prices are set first, so they stay when a pending order throws; then
\* neither the stops nor the marks are refreshed.
UpdateMarketPrices(b) ==
  LET pending == ProcessPendingOrders(Book, b)
      stopped == ProcessStopsAndTargets(pending.book, b)
  IN  /\ bid' = b
      /\ IF pending.threw
         THEN SetBook(pending.book) /\ lastUpdate' = "aborted"
         ELSE /\ SetBook([stopped EXCEPT !.positions = MarkAll(@, b)])
              /\ lastUpdate' = "completed"
      /\ UNCHANGED <<connected, processed, saved, restarts>>

\* getAccountState and getOpenPositions mark to market before they answer.
MarkToMarket ==
  /\ positions' = MarkAll(positions, bid)
  /\ UNCHANGED <<connected, bid, balance, orders, trades, processed, saved, restarts, lastUpdate>>

\* persistState of the runtime: getAccountState marks, then snapshot() is
\* written to the account row.  The row is read by restarts alone, so it is
\* left as it is when the bound allows no more of them.
Persist ==
  /\ connected /\ restarts < MaxRestarts
  /\ positions' = MarkAll(positions, bid)
  /\ saved' = [Book EXCEPT !.positions = positions', !.trades = <<>>]
  /\ UNCHANGED <<connected, bid, balance, orders, trades, processed, restarts, lastUpdate>>

Disconnect ==
  /\ connected
  /\ connected' = FALSE
  /\ UNCHANGED <<bid, balance, orders, positions, trades, processed, saved, restarts, lastUpdate>>

\* A new process (or a new adapter after disconnect): connect, then hydrate
\* from the account row.  Prices, trades and processed ids are not restored.  The
\* row is blanked when the bound allows nobody to read it again.
Restart ==
  /\ restarts < MaxRestarts
  /\ restarts' = restarts + 1
  /\ connected' = TRUE
  /\ bid' = DefaultBid
  /\ SetBook([saved EXCEPT !.positions = MarkAll(@, DefaultBid), !.trades = <<>>])
  /\ processed' = [r \in RequestIds |-> "none"]
  /\ lastUpdate' = "none"
  /\ saved' = IF restarts' < MaxRestarts THEN saved ELSE NewBook

Requests(types) ==
  [req : RequestIds, type : types, dir : Directions, vol : Volumes,
   sl : Stops \cup {Absent}, tp : Targets \cup {Absent}, trail : Trails \cup {Absent}]

Next ==
  \/ \E q \in Requests(Types \cap {"MARKET"}) : PlaceMarketOrder(q)
  \/ \E q \in Requests(Types \ {"MARKET"}), price \in Triggers :
        q.trail = Absent /\ PlacePendingOrder(q, price)
  \/ \E r \in RequestIds : ReplayRequest(r)
  \/ \E i \in 1..MaxOrders, price \in Triggers, sl \in Stops \cup {Absent}, vol \in Volumes :
        ModifyOrder(i, price, sl, vol)
  \/ \E i \in 1..MaxOrders : CancelOrder(i)
  \/ \E i \in 1..MaxPositions, sl \in Stops \cup {Absent, Keep}, trail \in Trails \cup {Absent},
        tp \in Targets \cup {Absent} : ModifyPosition(i, sl, trail, tp)
  \/ \E i \in 1..MaxPositions : ClosePosition(i)
  \/ \E i \in 1..MaxPositions, vol \in 1..MaxVolume : PartialClosePosition(i, vol)
  \/ \E b \in Bids : UpdateMarketPrices(b)
  \/ MarkToMarket
  \/ Persist
  \/ Disconnect
  \/ Restart

Spec == Init /\ [][Next]_vars

-----------------------------------------------------------------------------
(***************************************************************************)
(* Properties                                                              *)
(***************************************************************************)
Earned(ps) == SumFunction([i \in DOMAIN ps |-> ps[i].realized - ps[i].commission])

Reconciles(book) == book.balance = StartingBalance * Leverage + Earned(book.positions)

\* No money is made or lost outside the positions: through fills, partial and
\* full closes, stops, rejections and restarts the balance is the starting
\* balance plus what the positions realised minus the commissions they paid,
\* in the adapter and in the snapshot a restart would use.
BalanceReconciles == Reconciles(Book) /\ Reconciles(saved)

\* What trades, or positions, come to: bought less sold.
Net(entries) == SumFunction([i \in DOMAIN entries |-> Sign(entries[i].dir) * entries[i].vol])

\* The trade history of a process explains its exposure: what was bought less
\* what was sold is the net volume still open, so that no close is booked
\* twice or for more than was left (stops against manual and partial closes).
TradesExplainExposure == restarts = 0 => Net(trades) = Net(positions)

\* processedRequestIds: a client request id is filled at most once in the life
\* of a process, whether it fills at once, waits as a pending order, is
\* cancelled in between or is sent again.
OneFillPerRequest ==
  restarts = 0 =>
    \A r \in RequestIds :
      Cardinality({i \in DOMAIN orders : orders[i].type = "MARKET" /\ orders[i].req = r}) <= 1

StopReached(p) ==
  p.sl # Absent /\ IF p.dir = "BUY" THEN bid <= p.sl ELSE bid + Spread >= p.sl
TargetReached(p) ==
  p.tp # Absent /\ IF p.dir = "BUY" THEN bid >= p.tp ELSE bid + Spread <= p.tp

\* When updateMarketPrices has returned, no open position is at or beyond its
\* stop or target, fills made by that very update included.  The only way a
\* position outlives its stop is an update cut short by a triggered pending
\* order whose own stop or target is on the wrong side: it throws on every
\* such update and the stops behind it are not looked at.
StopsHonoured ==
  /\ lastUpdate = "completed" =>
       \A i \in DOMAIN positions :
         IsOpen(positions[i]) => ~StopReached(positions[i]) /\ ~TargetReached(positions[i])
  /\ lastUpdate = "aborted" =>
       \E i \in DOMAIN orders :
         /\ orders[i].status = "PENDING" /\ Triggered(orders[i], bid)
         /\ FillThrows(AsMarket(orders[i]), bid)

=============================================================================
