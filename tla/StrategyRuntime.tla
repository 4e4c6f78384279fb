-------------------------- MODULE StrategyRuntime --------------------------
(***************************************************************************)
(* The bots: the 3-second tick of strategy-runtime.service.ts, from the    *)
(* list of RUNNING strategies to the order and the position row it stamps, *)
(* beside the desk operations of strategies.service.ts (run for an         *)
(* account, start, stop) and a restart of the API.  A step ends where an   *)
(* await lets something happen that the rest of the step depends on.       *)
(*                                                                         *)
(* All bots trade one symbol.  What evaluateStrategyMode and the entry     *)
(* filters make of the candles is `signal'.  The sync of the rows is one   *)
(* step (see PositionLifecycle), orders.place is its belt and its answer   *)
(* (see OrderPlacement), the protections are in ProtectionTrail.  The      *)
(* windows of 60, 90 and 120 seconds after an order are one: the time     *)
(* during which an order is not yet "past".                                *)
(***************************************************************************)
EXTENDS Naturals, FiniteSets

CONSTANTS
  Bots, Accounts, Desks,
  Slots,      \* orders the models tells apart at a time; those that are over are reused
  Signals,    \* among BUY, SELL, HOLD, CLOSE
  Asks,       \* what a desk may ask: among "start", "save", "stop"
  Modes,      \* may a bot be SCALPING, may it be another: a subset of BOOLEAN
  Casts,      \* the Strategy rows there may be at the beginning
  None,
  MaxTurns, MaxFaults, MaxAsks   \* bounds: signals, failures, desk operations

Strategy == [status : {"none", "DRAFT", "VALID", "RUNNING", "STOPPED"}, scalp : BOOLEAN,
             accts : SUBSET Accounts]

\* "hand" is who opened a deal that no bot did.
ASSUME BotsAssumption ==
  /\ None \notin Bots \cup Accounts \cup Slots \cup Signals \cup Asks
  /\ "hand" \notin Bots \cup {None}
  /\ Modes \subseteq BOOLEAN
  /\ Casts \subseteq [Bots -> Strategy]

VARIABLES
  bot,       \* the Strategy rows
  order,     \* the orders, each with its deal at the broker and its Position row
  latch,     \* lastFingerprint
  backoff,   \* entryBackoffUntil: the <<bot, account>> still waiting
  ticking,   \* the flag that keeps ticks from overlapping
  tick,      \* where the tick is, and what it remembers
  desk,      \* the same of each desk request
  signal,
  turns, faults, asks

market == <<signal, turns>>
vars == <<bot, order, latch, backoff, ticking, tick, desk, signal, turns, faults, asks>>

\* `of' placed the order.  It is "sent", "unlinked" (FILLED, without a position
\* of its own yet) or "rejected" while the windows that count such an order last,
\* and "past" after them, or when it has its row.
Free == [of |-> None, acct |-> None, dir |-> None, state |-> "free", deal |-> "none", row |-> "none"]

AtRest == [at |-> "idle", todo |-> {}, bot |-> None, scalp |-> FALSE, accts |-> {},
           acct |-> None, dir |-> None, slot |-> None]

Unborn == [status |-> "none", scalp |-> FALSE, accts |-> {}]

NoAsk == [at |-> "idle", ask |-> None, acct |-> None, scalp |-> FALSE,
          bot |-> None, todo |-> {}, accts |-> {}]

\* The operator may hold a deal that no bot opened.
Init ==
  /\ bot \in Casts
  /\ \/ order = [o \in Slots |-> Free]
     \/ \E o \in Slots, a \in Accounts :
          order = [[p \in Slots |-> Free] EXCEPT ![o] =
            [Free EXCEPT !.of = "hand", !.acct = a, !.dir = "BUY", !.state = "past", !.deal = "open", !.row = "open"]]
  /\ latch = [s \in Bots |-> [a \in Accounts |-> None]]
  /\ backoff = {}
  /\ ticking = FALSE
  /\ tick = AtRest
  /\ desk = [d \in Desks |-> NoAsk]
  /\ signal \in Signals
  /\ turns = 0 /\ faults = 0 /\ asks = 0

Fault == faults < MaxFaults /\ faults' = faults + 1
NoFault == UNCHANGED faults
At(here) == tick.at = here
Goto(there) == tick' = [tick EXCEPT !.at = there]

-----------------------------------------------------------------------------
(***************************************************************************)
(* What the tick and the desk read                                         *)
(***************************************************************************)
On(a) == {o \in Slots : order[o].acct = a}
Rows(a) == {o \in On(a) : order[o].row = "open"}
Deals(a) == {o \in On(a) : order[o].deal = "open"}

\* An order in flight, or filled and without a position yet, in the last 90 s.
InFlight(a) == {o \in On(a) : order[o].state \in {"sent", "unlinked"}}
Rejected(s, a) == {o \in On(a) : order[o].of = s /\ order[o].state = "rejected"}
OwnInFlight(s, a) == {o \in InFlight(a) : order[o].of = s}

\* Mutant of Belt: in flight counts only for the bot's own orders.
BeltOwnOrders(s, a) ==
  Rows(a) = {} /\ OwnInFlight(s, a) = {} /\ Rejected(s, a) = {} /\ Deals(a) = {}

\* Mutant of Belt: the belt looks only for orders in flight.
BeltInFlightOnly(s, a) == InFlight(a) = {}

\* placeForAccount lets a bot's order pass.
Belt(s, a) ==
  Rows(a) = {} /\ InFlight(a) = {} /\ Rejected(s, a) = {} /\ Deals(a) = {}

\* An order of which nothing more can be read makes room for another.
Tidy(r) == IF r.state = "past" /\ r.deal # "open" /\ r.row # "open" THEN Free ELSE r
With(o, r) == order' = [order EXCEPT ![o] = Tidy(r)]

\* The sync adopts deals without a row and closes rows without a deal.
Synced(r) == Tidy([r EXCEPT !.row = IF r.deal = "open" THEN "open" ELSE "none"])

\* positions.close of some rows.
Close(shut) ==
  order' = [o \in Slots |-> IF o \in shut THEN Tidy([order[o] EXCEPT !.deal = "over", !.row = "none"])
                                          ELSE order[o]]

\* The slot of the next order.
NextSlot == CHOOSE o \in Slots : order[o] = Free
Room == \E o \in Slots : order[o] = Free

-----------------------------------------------------------------------------
(***************************************************************************)
(* tickAll                                                                 *)
(***************************************************************************)
Copy(s) == [bot |-> s, scalp |-> bot[s].scalp, accts |-> bot[s].accts]
InTick == <<order, latch, backoff, faults>>
Elsewhere == <<bot, desk, signal, turns, asks>>

Done == tick' = [AtRest EXCEPT !.at = "bots", !.todo = tick.todo]
Skip == tick' = [tick EXCEPT !.at = "accounts", !.acct = None, !.slot = None]

\* Mutant of Running: every strategy that has been started once.
Started == {s \in Bots : bot[s].status \in {"RUNNING", "STOPPED"}}

Running == {s \in Bots : bot[s].status = "RUNNING"}

\* The running strategies are copied for the whole tick: a status that changes
\* is not seen.  Their accounts, and those with an active row, are synced.
BeginTick ==
  LET list == {Copy(s) : s \in Running}
      scope == UNION {c.accts : c \in list} \cup {a \in Accounts : Rows(a) # {}}
  IN  /\ ~ticking
      /\ ticking' = TRUE
      /\ \/ order' = [o \in Slots |-> IF order[o].acct \in scope THEN Synced(order[o]) ELSE order[o]]
            /\ NoFault
         \/ Fault /\ UNCHANGED order
      /\ tick' = [AtRest EXCEPT !.at = "bots", !.todo = list]
      /\ UNCHANGED <<latch, backoff, Elsewhere>>

EndTick ==
  /\ At("bots") /\ tick.todo = {}
  /\ tick' = AtRest
  /\ ticking' = FALSE
  /\ UNCHANGED <<InTick, Elsewhere>>

\* Mutant of BotThrows: the error leaves tickAll, and `ticking' stays set.
BotThrowsOut ==
  /\ tick.at \in {"closing", "accounts"}
  /\ Fault
  /\ tick' = AtRest
  /\ UNCHANGED <<order, latch, backoff, ticking, Elsewhere>>

\* What one strategy throws, tickAll catches; the next strategy has its turn.
BotThrows ==
  /\ tick.at \in {"closing", "accounts"}
  /\ Fault
  /\ Done
  /\ UNCHANGED <<order, latch, backoff, ticking, Elsewhere>>

-----------------------------------------------------------------------------
(***************************************************************************)
(* tickStrategy                                                            *)
(***************************************************************************)
\* The next strategy and its signal.  SCALPING ignores CLOSE: its exits are the
\* stop and its trail.
TakeBot(c) ==
  LET left == tick.todo \ {c}
  IN  /\ At("bots")
      /\ tick' = IF signal = "HOLD" \/ (signal = "CLOSE" /\ c.scalp)
                 THEN [tick EXCEPT !.todo = left]
                 ELSE [AtRest EXCEPT !.todo = left, !.bot = c.bot, !.accts = c.accts,
                         !.at = IF signal = "CLOSE" THEN "closing" ELSE "accounts",
                         !.scalp = c.scalp, !.dir = signal]
      /\ UNCHANGED <<InTick, ticking, Elsewhere>>

\* A CLOSE closes every row of the account, whoever opened it; a naked one, or
\* one the broker refuses to close, stays.  EMA_TICK_SCALP takes its latch off.
CloseAccount ==
  /\ At("closing")
  /\ IF tick.accts = {} THEN Done /\ UNCHANGED <<order, latch>>
     ELSE \E a \in tick.accts : \E shut \in SUBSET Rows(a) :
            /\ Close(shut)
            /\ latch' \in {latch, [latch EXCEPT ![tick.bot][a] = None]}
            /\ tick' = [tick EXCEPT !.accts = @ \ {a}]
  /\ UNCHANGED <<backoff, faults, ticking, Elsewhere>>

EndAccounts ==
  /\ At("accounts") /\ tick.accts = {}
  /\ Done
  /\ UNCHANGED <<InTick, ticking, Elsewhere>>

\* The latch of a flat account is taken off, unless an order may still become a
\* position.
Unlatch(s, a) ==
  latch' = IF Rows(a) = {} /\ OwnInFlight(s, a) = {} THEN [latch EXCEPT ![s][a] = None] ELSE latch

\* Nothing is open in the rows, and none of the bot's orders is in flight or was
\* rejected lately.
GateOpens(s, a) ==
  Rows(a) = {} /\ OwnInFlight(s, a) = {} /\ Rejected(s, a) = {}

\* A bot that is not SCALPING closes the rows of the other direction, and leaves
\* it at that for this tick (closeOnlyNoFlip), unless it waits for the close of
\* what its latch stands for.
Flip(a) ==
  LET same == {o \in Rows(a) : order[o].dir = tick.dir}
  IN  IF tick.scalp \/ (latch[tick.bot][a] = tick.dir /\ same # {}) THEN UNCHANGED order
      ELSE \E shut \in SUBSET (Rows(a) \ same) : Close(shut)

TakeAccount(a) ==
  LET enter == [tick EXCEPT !.at = "look", !.acct = a, !.accts = @ \ {a}]
      skip == [tick EXCEPT !.accts = @ \ {a}]
  IN  /\ At("accounts") /\ a \in tick.accts
      /\ Unlatch(tick.bot, a)
      /\ IF GateOpens(tick.bot, a) THEN tick' = enter /\ UNCHANGED order
         ELSE tick' = skip /\ Flip(a)
      /\ UNCHANGED <<backoff, faults, ticking, Elsewhere>>

\* The broker's own book; an account without an adapter is not looked at.
Look ==
  /\ At("look")
  /\ \/ (IF Deals(tick.acct) # {} THEN Skip ELSE Goto("place")) /\ NoFault
     \/ (Skip \/ Goto("place")) /\ Fault
  /\ UNCHANGED <<order, latch, backoff, ticking, Elsewhere>>

BackOff == backoff' = backoff \cup {<<tick.bot, tick.acct>>}

\* orders.place refuses or creates the order.
Place ==
  LET s == tick.bot  a == tick.acct
  IN  /\ At("place")
      /\ \/ <<s, a>> \in backoff /\ Skip /\ NoFault /\ UNCHANGED <<order, backoff>>
         \/ <<s, a>> \notin backoff /\ ~Belt(s, a) /\ BackOff /\ Skip /\ NoFault /\ UNCHANGED order
         \/ <<s, a>> \notin backoff /\ BackOff /\ Skip /\ Fault /\ UNCHANGED order
         \/ /\ <<s, a>> \notin backoff /\ Belt(s, a)
            /\ Room
            /\ order' = [order EXCEPT ![NextSlot] = [Free EXCEPT !.of = s, !.acct = a,
                           !.dir = tick.dir, !.state = "sent"]]
            /\ tick' = [tick EXCEPT !.at = "send", !.slot = NextSlot]
            /\ NoFault /\ UNCHANGED backoff
      /\ UNCHANGED <<latch, ticking, Elsewhere>>

\* The broker opens the deal, or it refuses or throws; a call that throws may
\* have opened it.
Send ==
  /\ At("send")
  /\ \/ /\ order' = [order EXCEPT ![tick.slot].deal = "open"]
        /\ Goto("record") /\ NoFault /\ UNCHANGED backoff
     \/ /\ \E deal \in {"none", "open"} :
             order' = [order EXCEPT ![tick.slot].state = "rejected", ![tick.slot].deal = deal]
        /\ Skip /\ Fault /\ BackOff
  /\ UNCHANGED <<latch, ticking, Elsewhere>>

\* The latch waits for a row, and for a stop that was on it or got attached.
Latched(linked, confirmed) ==
  IF confirmed /\ (linked \/ Rows(tick.acct) # {})
  THEN [latch EXCEPT ![tick.bot][tick.acct] = tick.dir] ELSE latch

\* The order is FILLED and has its row, or lags without one.  The bot marks as its
\* own the row of the order or, when it has none, the most recent open row of the
\* account.
Record ==
  LET o == tick.slot
  IN  /\ At("record")
      /\ \E linked, confirmed \in BOOLEAN :
           /\ IF linked THEN With(o, [order[o] EXCEPT !.state = "past", !.row = "open"])
                        ELSE With(o, [order[o] EXCEPT !.state = "unlinked"])
           /\ latch' = Latched(linked, confirmed)
      /\ Skip
      /\ UNCHANGED <<backoff, faults, ticking, Elsewhere>>

TickStep ==
  \/ (\E c \in tick.todo : TakeBot(c)) \/ EndTick
  \/ CloseAccount \/ EndAccounts \/ (\E a \in tick.accts : TakeAccount(a))
  \/ Look \/ Place \/ Send \/ Record

-----------------------------------------------------------------------------
(***************************************************************************)
(* The desk: strategies.service.ts                                         *)
(***************************************************************************)
Ticks == <<ticking, tick>>
DeskAt(d, here) == desk[d].at = here
DeskGoto(d, there) == desk' = [desk EXCEPT ![d].at = there]
DeskDone(d) == desk' = [desk EXCEPT ![d] = NoAsk]
Ask == asks < MaxAsks /\ asks' = asks + 1
NotDesk == <<order, latch, backoff, Ticks, market>>

\* runForAccount reads the strategies of the account once.
RunForAccount(d, ask, a, scalp) ==
  LET bound == {s \in Bots : bot[s].status # "none" /\ a \in bot[s].accts}
      asked == [NoAsk EXCEPT !.ask = ask, !.acct = a, !.scalp = scalp]
  IN  /\ DeskAt(d, "idle") /\ Ask
      /\ \/ /\ ask = "stop"
            /\ desk' = [desk EXCEPT ![d] = [asked EXCEPT !.at = "stop",
                 !.todo = {Copy(s) : s \in {b \in bound : bot[b].status = "RUNNING"}}]]
         \/ /\ ask # "stop" /\ bound = {}
            /\ desk' = [desk EXCEPT ![d] = [asked EXCEPT !.at = "save"]]
         \/ /\ ask # "stop"
            /\ \E s \in bound :
                 desk' = [desk EXCEPT ![d] = [asked EXCEPT !.at = "detach", !.bot = s,
                            !.todo = {Copy(b) : b \in bound \ {s}}]]
      /\ UNCHANGED <<bot, faults, NotDesk>>

StopNext(d) ==
  /\ DeskAt(d, "stop")
  /\ IF desk[d].todo = {} THEN DeskDone(d) /\ UNCHANGED bot
     ELSE \E c \in desk[d].todo :
            /\ bot' = [bot EXCEPT ![c.bot].status = "STOPPED"]
            /\ desk' = [desk EXCEPT ![d].todo = @ \ {c}]
  /\ UNCHANGED <<asks, faults, NotDesk>>

\* The other strategies lose the account; one that is left with none stops.
Detach(d) ==
  /\ DeskAt(d, "detach")
  /\ IF desk[d].todo = {} THEN DeskGoto(d, "save") /\ UNCHANGED bot
     ELSE \E c \in desk[d].todo :
            LET left == c.accts \ {desk[d].acct}
            IN  /\ bot' = [bot EXCEPT ![c.bot].accts = left,
                             ![c.bot].status = IF left = {} /\ @ = "RUNNING" THEN "STOPPED" ELSE @]
                /\ desk' = [desk EXCEPT ![d].todo = @ \ {c}]
  /\ UNCHANGED <<asks, faults, NotDesk>>

\* A save ends with the row; a start goes on with it.
Saved(d, s) ==
  desk' = [desk EXCEPT ![d] = IF @.ask = "save" THEN NoAsk ELSE [NoAsk EXCEPT !.at = "start", !.bot = s]]

Create(d) ==
  /\ DeskAt(d, "save") /\ desk[d].bot = None
  /\ \E s \in Bots :
       /\ bot[s].status = "none"
       /\ bot' = [bot EXCEPT ![s] = [status |-> "DRAFT", scalp |-> desk[d].scalp, accts |-> {desk[d].acct}]]
       /\ Saved(d, s)
  /\ UNCHANGED <<asks, faults, NotDesk>>

\* The strategy has this account now, and no other; its status stays.
Update(d) ==
  LET s == desk[d].bot
  IN  /\ DeskAt(d, "save") /\ s # None
      /\ bot' = [bot EXCEPT ![s].scalp = desk[d].scalp, ![s].accts = {desk[d].acct}]
      /\ Saved(d, s)
      /\ UNCHANGED <<asks, faults, NotDesk>>

\* ensureBrokerReadyForTrading: without a broker there is no start.
BrokerReady(d) ==
  /\ DeskAt(d, "start")
  /\ \/ DeskGoto(d, "begin") /\ NoFault
     \/ DeskDone(d) /\ Fault
  /\ UNCHANGED <<bot, asks, NotDesk>>

\* start reads the row; a strategy that is RUNNING is not written again.
BeginStart(d) ==
  LET s == desk[d].bot
  IN  /\ DeskAt(d, "begin")
      /\ desk' = [desk EXCEPT ![d].accts = bot[s].accts, ![d].at =
           CASE bot[s].status = "RUNNING" -> "rows"
             [] bot[s].status \in {"VALID", "STOPPED"} -> "arm"
             [] OTHER -> "validate"]
      /\ UNCHANGED <<bot, asks, faults, NotDesk>>

Validate(d) ==
  /\ DeskAt(d, "validate")
  /\ bot' = [bot EXCEPT ![desk[d].bot].status = "VALID"]
  /\ DeskGoto(d, "arm")
  /\ UNCHANGED <<asks, faults, NotDesk>>

Arm(d) ==
  /\ DeskAt(d, "arm")
  /\ bot' = [bot EXCEPT ![desk[d].bot].status = "RUNNING"]
  /\ desk' = [desk EXCEPT ![d].at = "rows", ![d].accts = bot[desk[d].bot].accts]
  /\ UNCHANGED <<asks, faults, NotDesk>>

\* resetSignals forgets the latches and the backoffs of a strategy.
ResetSignals(s) ==
  /\ latch' = [latch EXCEPT ![s] = [a \in Accounts |-> None]]
  /\ backoff' = {p \in backoff : p[1] # s}

KeepSignals == UNCHANGED <<latch, backoff>>

\* hasLiveExposure of the accounts one after another: first the database.
ExposureRows(d) ==
  LET s == desk[d].bot
  IN  /\ DeskAt(d, "rows")
      /\ IF desk[d].accts = {}
         THEN /\ DeskDone(d)
              /\ IF \E a \in Accounts : OwnInFlight(s, a) # {} THEN KeepSignals ELSE ResetSignals(s)
         ELSE /\ KeepSignals
              /\ \E a \in desk[d].accts :
                   IF Rows(a) # {} \/ InFlight(a) # {} THEN DeskDone(d)
                   ELSE desk' = [desk EXCEPT ![d].at = "live", ![d].acct = a, ![d].accts = @ \ {a}]
      /\ UNCHANGED <<bot, order, asks, faults, Ticks, market>>

\* Then the broker's book.  Signals are reset when every account was flat.
ExposureLive(d) ==
  /\ DeskAt(d, "live")
  /\ \/ Fault /\ DeskDone(d) /\ KeepSignals
     \/ /\ NoFault
        /\ IF Deals(desk[d].acct) # {} THEN DeskDone(d) /\ KeepSignals
           ELSE IF desk[d].accts # {} THEN DeskGoto(d, "rows") /\ KeepSignals
           ELSE DeskDone(d) /\ ResetSignals(desk[d].bot)
  /\ UNCHANGED <<bot, order, asks, Ticks, market>>

DeskStep(d) ==
  \/ StopNext(d) \/ Detach(d) \/ Create(d) \/ Update(d) \/ BrokerReady(d)
  \/ BeginStart(d) \/ Validate(d) \/ Arm(d) \/ ExposureRows(d) \/ ExposureLive(d)

-----------------------------------------------------------------------------
(***************************************************************************)
(* Everything else                                                         *)
(***************************************************************************)
NotOrders == <<bot, latch, backoff, Ticks, desk, market, faults, asks>>

Turn ==
  /\ turns < MaxTurns /\ turns' = turns + 1
  /\ signal' \in Signals \ {signal}
  /\ UNCHANGED <<bot, order, latch, backoff, Ticks, desk, faults, asks>>

\* A stop or a target is hit, or the operator closes the deal.
DealEnds(o) ==
  /\ order[o].deal = "open"
  /\ With(o, [order[o] EXCEPT !.deal = "over"])
  /\ UNCHANGED NotOrders

\* A request the API did not live to see answered may still be executed.
LateFill(o) ==
  /\ order[o].state = "sent" /\ order[o].deal = "none" /\ tick.slot # o
  /\ order' = [order EXCEPT ![o].deal = "open"]
  /\ UNCHANGED NotOrders

\* The 1-second timer and the position list sync as well.
Refresh(a) ==
  /\ order' = [o \in Slots |-> IF order[o].acct = a THEN Synced(order[o]) ELSE order[o]]
  /\ UNCHANGED NotOrders

\* The clock: the windows after an order, and a backoff, end.
Age(o) ==
  /\ order[o].state \in {"sent", "unlinked", "rejected"} /\ tick.slot # o
  /\ With(o, [order[o] EXCEPT !.state = "past"])
  /\ UNCHANGED NotOrders

BackoffEnds(p) ==
  /\ p \in backoff
  /\ backoff' = backoff \ {p}
  /\ UNCHANGED <<bot, order, latch, Ticks, desk, market, faults, asks>>

\* The API restarts: rows stay, what was in memory is gone.
Restart ==
  /\ Fault
  /\ latch' = [s \in Bots |-> [a \in Accounts |-> None]]
  /\ backoff' = {} /\ ticking' = FALSE /\ tick' = AtRest
  /\ desk' = [d \in Desks |-> NoAsk]
  /\ UNCHANGED <<bot, order, market, asks>>

-----------------------------------------------------------------------------
Next ==
  \/ BeginTick \/ TickStep \/ BotThrows
  \/ \E d \in Desks : \/ DeskStep(d)
                      \/ \E ask \in Asks, a \in Accounts, scalp \in Modes : RunForAccount(d, ask, a, scalp)
  \/ Turn \/ Restart
  \/ \E o \in Slots : DealEnds(o) \/ LateFill(o) \/ Age(o)
  \/ \E a \in Accounts : Refresh(a)
  \/ \E p \in Bots \X Accounts : BackoffEnds(p)

\* The timer comes round, a tick goes on, the clock moves.
Fairness ==
  /\ WF_vars(BeginTick) /\ WF_vars(TickStep)
  /\ \A o \in Slots : WF_vars(Age(o))
  /\ \A p \in Bots \X Accounts : WF_vars(BackoffEnds(p))

Spec == Init /\ [][Next]_vars
FairSpec == Spec /\ Fairness

-----------------------------------------------------------------------------
(***************************************************************************)
(* Properties                                                              *)
(***************************************************************************)
BotDeals(a) == {o \in Deals(a) : order[o].of \in Bots}

Trades == INSTANCE OneTrade WITH held <- [a \in Accounts |-> Cardinality(BotDeals(a))]

\* On every account the runtime implements OneTrade, through lost answers,
\* restarts, rows that lag, other bots of the account and desk operations: a bot
\* opens a deal only on an account on which no bot has one (oneTradeOnly,
\* strategy-runtime.service.ts, and the belt of placeForAccount).
OneTradeUntilClose == Trades!Spec

\* A bot whose order has no row yet stamps the most recent row of the account
\* (findFirst, openedAt desc): that is never the deal of another bot.
NoBotTakesAnothers ==
  At("record") => \A o \in Rows(tick.acct) : order[o].of \in {tick.bot, "hand"}

\* A strategy that stays RUNNING on an account while there is a signal is not
\* frozen by its latch, its backoff, a stuck order, an error of a tick or a
\* restart ("must not freeze 10s SCALPING forever"): again and again there is a
\* trade on the account.
Wanted(s, a) == bot[s].status = "RUNNING" /\ a \in bot[s].accts /\ signal \in {"BUY", "SELL"}
NotFrozen ==
  \A s \in Bots, a \in Accounts :
    (<>[]Wanted(s, a)) => []<>(Deals(a) # {})

\* A strategy that stays stopped, or off an account, after the tick that may
\* still have it in its list places no more orders there.
NewOrder(s, a) ==
  \E o \in Slots : order'[o].of = s /\ order'[o].acct = a /\ order'[o].state = "sent" /\ order[o] = Free
StoppedBotsRest ==
  \A s \in Bots, a \in Accounts :
    (<>[](bot[s].status # "RUNNING" \/ a \notin bot[s].accts)) => <>[][~NewOrder(s, a)]_vars

=============================================================================
