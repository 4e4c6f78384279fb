----------------------- MODULE StrategyRuntimeProofs -----------------------
(***************************************************************************)
(* Proofs about StrategyRuntime for any bots, accounts, desks and order    *)
(* slots, any signals and any number of failures, restarts and requests:   *)
(* the runtime implements OneTrade, and a bot stamps no other bot's row.   *)
(***************************************************************************)
EXTENDS StrategyRuntime, FiniteSetTheorems, TLAPS

Directions == Signals \cup {"BUY", None}

Order == [of : Bots \cup {"hand", None}, acct : Accounts \cup {None}, dir : Directions,
          state : {"free", "sent", "unlinked", "rejected", "past"},
          deal : {"none", "open", "over"}, row : {"none", "open"}]

Listed == [bot : Bots, scalp : BOOLEAN, accts : SUBSET Accounts]

Places == {"idle", "bots", "closing", "accounts", "look", "place", "send", "record"}

TickState ==
  [at : Places, todo : SUBSET Listed, bot : Bots \cup {None}, scalp : BOOLEAN,
   accts : SUBSET Accounts, acct : Accounts \cup {None}, dir : Directions,
   slot : Slots \cup {None}]

DeskPlaces == {"idle", "stop", "detach", "save", "start", "begin", "validate", "arm", "rows", "live"}

DeskState ==
  [at : DeskPlaces, ask : Asks \cup {None}, acct : Accounts \cup {None}, scalp : BOOLEAN,
   bot : Bots \cup {None}, todo : SUBSET Listed, accts : SUBSET Accounts]

TypeOK ==
  /\ bot \in [Bots -> Strategy]
  /\ order \in [Slots -> Order]
  /\ latch \in [Bots -> [Accounts -> Directions]]
  /\ backoff \subseteq Bots \X Accounts
  /\ ticking \in BOOLEAN
  /\ tick \in TickState
  /\ desk \in [Desks -> DeskState]
  /\ signal \in Signals

\* Where the tick and the desk work on a strategy and on an account, they have one.
TickAtWork ==
  /\ tick.at \in {"closing", "accounts", "look", "place", "send", "record"} => tick.bot \in Bots
  /\ tick.at \in {"look", "place", "send", "record"} => tick.acct \in Accounts
  /\ tick.at \in {"send", "record"} => tick.slot \in Slots

DeskAtWork ==
  \A d \in Desks :
    /\ desk[d].at \in {"detach", "save"} => desk[d].acct \in Accounts
    /\ desk[d].at \in {"start", "begin", "validate", "arm", "rows", "live"} => desk[d].bot \in Bots

Typed == TypeOK /\ TickAtWork /\ DeskAtWork

\* An order that has a deal, or may still get one.
Holds(r) == r.deal = "open" \/ (r.state = "sent" /\ r.deal = "none")
MayHold(o) == Holds(order[o])

\* Between the belt and the answer the order in hand is the only one of its
\* account that holds anything.
InHand ==
  tick.at \in {"send", "record"} =>
    /\ order[tick.slot].of = tick.bot /\ order[tick.slot].acct = tick.acct
    /\ order[tick.slot].state = "sent"
    /\ tick.at = "send" => order[tick.slot].deal = "none"
    /\ \A o \in Slots \ {tick.slot} :
         order[o].acct = tick.acct => ~MayHold(o) /\ order[o].row # "open"

\* At most one order of bots on an account has a deal or may still get one.
OneHolds ==
  \A o, p \in Slots :
    /\ order[o].of \in Bots /\ order[p].of \in Bots
    /\ order[o].acct = order[p].acct
    /\ MayHold(o) /\ MayHold(p)
    => o = p

IInv == Typed /\ InHand /\ OneHolds

-----------------------------------------------------------------------------
\* An order stays one when it is tidied up, synced or given another state.
LEMMA TidyIsOrder ==
  ASSUME NEW r \in Order
  PROVE  /\ Tidy(r) \in Order
         /\ Synced(r) \in Order
         /\ Free \in Order
  BY DEF Tidy, Synced, Free, Order, Directions

\* Writing one order, closing some of them and syncing some keep them orders.
LEMMA OrdersKept ==
  ASSUME order \in [Slots -> Order]
  PROVE  /\ \A o \in Slots, r \in Order : With(o, r) => order' \in [Slots -> Order]
         /\ \A shut : Close(shut) => order' \in [Slots -> Order]
         /\ \A scope : order' = [o \in Slots |-> IF order[o].acct \in scope THEN Synced(order[o])
                                                 ELSE order[o]]
              => order' \in [Slots -> Order]
<1>1. \A o \in Slots : order[o] \in Order
  OBVIOUS
<1>2. ASSUME NEW o \in Slots, NEW r \in Order, With(o, r)
      PROVE  order' \in [Slots -> Order]
  BY <1>2, TidyIsOrder DEF With
<1>3. ASSUME NEW shut, Close(shut) PROVE order' \in [Slots -> Order]
  <2>1. \A o \in Slots : [order[o] EXCEPT !.deal = "over", !.row = "none"] \in Order
    BY <1>1 DEF Order
  <2> QED
    BY <1>1, <1>3, <2>1, TidyIsOrder DEF Close
<1>4. ASSUME NEW scope,
             order' = [o \in Slots |-> IF order[o].acct \in scope THEN Synced(order[o])
                                       ELSE order[o]]
      PROVE  order' \in [Slots -> Order]
  BY <1>1, <1>4, TidyIsOrder
<1> QED
  BY <1>2, <1>3, <1>4

\* What the tick copies of a strategy is typed.
LEMMA CopyIsListed ==
  ASSUME bot \in [Bots -> Strategy], NEW s \in Bots
  PROVE  Copy(s) \in Listed
  BY DEF Copy, Listed, Strategy

\* The types hold at the beginning.
LEMMA InitType == Init => Typed
<1> SUFFICES ASSUME Init PROVE Typed
  OBVIOUS
<1> USE BotsAssumption
<1>1. order \in [Slots -> Order]
  <2>1. Free \in Order
    BY DEF Free, Order, Directions
  <2>2. ASSUME NEW a \in Accounts
        PROVE  [Free EXCEPT !.of = "hand", !.acct = a, !.dir = "BUY", !.state = "past",
                            !.deal = "open", !.row = "open"] \in Order
    BY DEF Free, Order, Directions
  <2> QED
    BY <2>1, <2>2 DEF Init
<1>2. tick \in TickState /\ desk \in [Desks -> DeskState]
  BY DEF Init, AtRest, NoAsk, TickState, DeskState, Places, DeskPlaces, Directions
<1>3. /\ bot \in [Bots -> Strategy] /\ latch \in [Bots -> [Accounts -> Directions]]
      /\ backoff \subseteq Bots \X Accounts /\ ticking \in BOOLEAN /\ signal \in Signals
  BY DEF Init, Directions
<1>4. TickAtWork /\ DeskAtWork
  BY DEF Init, TickAtWork, DeskAtWork, AtRest, NoAsk
<1> QED
  BY <1>1, <1>2, <1>3, <1>4 DEF Typed, TypeOK

\* The tick at rest, and between two strategies, works on nothing.
LEMMA RestTyped ==
  ASSUME tick \in TickState, Done \/ tick' = AtRest
  PROVE  tick' \in TickState /\ TickAtWork' /\ tick'.at \in {"bots", "idle"}
<1>1. CASE Done
  <2>1. tick'.at = "bots" /\ tick' \in TickState
    BY <1>1 DEF Done, AtRest, TickState, Places, Directions
  <2> QED
    BY <2>1 DEF TickAtWork
<1>2. CASE tick' = AtRest
  <2>1. tick'.at = "idle" /\ tick' \in TickState
    BY <1>2 DEF AtRest, TickState, Places, Directions
  <2> QED
    BY <2>1 DEF TickAtWork
<1> QED
  BY <1>1, <1>2

\* The tick that goes on to the next account, or to another place of its way
\* through this one, keeps its strategy and its account.
LEMMA SkipTyped ==
  ASSUME tick \in TickState, tick.bot \in Bots, Skip
  PROVE  tick' \in TickState /\ TickAtWork' /\ tick'.at = "accounts"
  BY DEF Skip, TickState, Places, TickAtWork

LEMMA GotoTyped ==
  ASSUME tick \in TickState, TickAtWork,
         (tick.at = "look" /\ Goto("place")) \/ (tick.at = "send" /\ Goto("record"))
  PROVE  /\ tick' \in TickState /\ TickAtWork'
         /\ tick'.at \in {"place", "record"} /\ tick'.bot = tick.bot
         /\ tick'.acct = tick.acct /\ tick'.slot = tick.slot
  BY DEF Goto, TickState, Places, TickAtWork

\* So does one that takes an account off its list, or looks at it.
LEMMA AccountsTyped ==
  ASSUME tick \in TickState, tick.at \in {"closing", "accounts"}, TickAtWork, NEW a \in Accounts,
         \/ tick' = [tick EXCEPT !.accts = @ \ {a}]
         \/ tick' = [tick EXCEPT !.at = "look", !.acct = a, !.accts = @ \ {a}]
  PROVE  tick' \in TickState /\ TickAtWork' /\ tick'.at \in {"closing", "accounts", "look"}
<1>1. CASE tick' = [tick EXCEPT !.accts = @ \ {a}]
  <2>1. tick' \in TickState /\ tick'.at = tick.at /\ tick'.bot = tick.bot
    BY <1>1 DEF TickState
  <2> QED
    BY <2>1 DEF TickAtWork
<1>2. CASE tick' = [tick EXCEPT !.at = "look", !.acct = a, !.accts = @ \ {a}]
  <2>1. /\ tick' \in TickState /\ tick'.at = "look" /\ tick'.bot = tick.bot
        /\ tick'.acct = a
    BY <1>2 DEF TickState, Places
  <2> QED
    BY <2>1 DEF TickAtWork
<1> QED
  BY <1>1, <1>2

\* A latch that is set or taken off stays a latch.
LEMMA LatchKept ==
  ASSUME latch \in [Bots -> [Accounts -> Directions]], NEW s \in Bots, NEW a \in Accounts,
         NEW d \in Directions, latch' = latch \/ latch' = [latch EXCEPT ![s][a] = d]
  PROVE  latch' \in [Bots -> [Accounts -> Directions]]
  OBVIOUS

\* The tick keeps the types: the variables it writes one after the other.
LEMMA TickWrites ==
  ASSUME TypeOK, TickAtWork, BeginTick \/ TickStep \/ BotThrows
  PROVE  /\ order' \in [Slots -> Order]
         /\ latch' \in [Bots -> [Accounts -> Directions]]
         /\ backoff' \subseteq Bots \X Accounts /\ ticking' \in BOOLEAN
         /\ tick' \in TickState /\ TickAtWork'
<1>0. /\ order \in [Slots -> Order] /\ tick \in TickState
      /\ latch \in [Bots -> [Accounts -> Directions]]
      /\ backoff \subseteq Bots \X Accounts /\ ticking \in BOOLEAN
      /\ bot \in [Bots -> Strategy] /\ signal \in Signals
  BY DEF TypeOK
<1> DEFINE Goal == /\ order' \in [Slots -> Order]
                   /\ latch' \in [Bots -> [Accounts -> Directions]]
                   /\ backoff' \subseteq Bots \X Accounts /\ ticking' \in BOOLEAN
                   /\ tick' \in TickState /\ TickAtWork'
<1> SUFFICES Goal
  OBVIOUS
<1>1. CASE BeginTick
  <2>1. {Copy(s) : s \in Running} \in SUBSET Listed
    BY <1>0, CopyIsListed DEF Running
  <2>2. tick' \in TickState /\ TickAtWork' /\ ticking' = TRUE /\ UNCHANGED <<latch, backoff>>
    BY <1>1, <2>1, BotsAssumption DEF BeginTick, AtRest, TickState, Places, Directions, TickAtWork
  <2>3. order' \in [Slots -> Order]
    BY <1>0, <1>1, OrdersKept DEF BeginTick
  <2> QED
    BY <1>0, <2>2, <2>3
<1>2. CASE BotThrows \/ EndTick \/ EndAccounts
  <2>1. /\ Done \/ tick' = AtRest
        /\ ticking' \in {ticking, FALSE} /\ UNCHANGED <<order, latch, backoff>>
    BY <1>2 DEF BotThrows, EndTick, EndAccounts, InTick
  <2> QED
    BY <1>0, <2>1, RestTyped
<1>3. ASSUME NEW c \in tick.todo, TakeBot(c) PROVE Goal
  <2>1. c \in Listed /\ tick.todo \ {c} \in SUBSET Listed
    BY <1>0 DEF TickState
  <2>2. tick' \in TickState /\ TickAtWork'
    <3> HIDE DEF Goal
    <3>0. signal \in Directions /\ c.bot \in Bots /\ c.accts \in SUBSET Accounts /\ c.scalp \in BOOLEAN
      BY <1>0, <2>1 DEF Directions, Listed
    <3>1. CASE tick' = [tick EXCEPT !.todo = tick.todo \ {c}]
      BY <1>0, <1>3, <2>1, <3>1 DEF TakeBot, At, TickState, TickAtWork
    <3>2. CASE tick' = [AtRest EXCEPT !.todo = tick.todo \ {c}, !.bot = c.bot, !.accts = c.accts,
                          !.at = IF signal = "CLOSE" THEN "closing" ELSE "accounts",
                          !.scalp = c.scalp, !.dir = signal]
      BY <2>1, <3>0, <3>2 DEF AtRest, TickState, Places, TickAtWork
    <3> QED
      BY <1>3, <3>1, <3>2 DEF TakeBot
  <2> QED
    BY <1>0, <1>3, <2>2 DEF TakeBot, InTick
<1>4. CASE CloseAccount
  <2>0. tick.bot \in Bots /\ tick.accts \subseteq Accounts /\ tick.at = "closing"
    BY <1>0, <1>4 DEF CloseAccount, At, TickAtWork, TickState
  <2>1. order' \in [Slots -> Order]
    BY <1>0, <1>4, OrdersKept DEF CloseAccount
  <2>2. latch' \in [Bots -> [Accounts -> Directions]]
    BY <1>0, <1>4, <2>0, LatchKept DEF CloseAccount, Directions
  <2>3. Done \/ \E a \in Accounts : tick' = [tick EXCEPT !.accts = @ \ {a}]
    BY <1>4, <2>0 DEF CloseAccount
  <2>4. tick' \in TickState /\ TickAtWork'
    BY <1>0, <2>0, <2>3, RestTyped, AccountsTyped
  <2>5. UNCHANGED <<backoff, ticking>>
    BY <1>4 DEF CloseAccount
  <2> QED
    BY <1>0, <2>1, <2>2, <2>4, <2>5
<1>5. ASSUME NEW a \in tick.accts, TakeAccount(a) PROVE Goal
  <2>1. a \in Accounts /\ tick.at = "accounts" /\ tick.bot \in Bots
    BY <1>0, <1>5 DEF TickState, TakeAccount, At, TickAtWork
  <2>2. order' \in [Slots -> Order]
    BY <1>0, <1>5, OrdersKept DEF TakeAccount, Flip
  <2>3. tick' \in TickState /\ TickAtWork'
    BY <1>0, <1>5, <2>1, AccountsTyped DEF TakeAccount
  <2>4. latch' \in [Bots -> [Accounts -> Directions]]
    BY <1>0, <1>5, <2>1, LatchKept DEF TakeAccount, Unlatch, Directions
  <2>5. UNCHANGED <<backoff, ticking>>
    BY <1>5 DEF TakeAccount
  <2> QED
    BY <1>0, <2>2, <2>3, <2>4, <2>5
<1>6. CASE Look
  <2>1. tick.bot \in Bots /\ tick.at = "look" /\ (Skip \/ Goto("place"))
    BY <1>6 DEF Look, At, TickAtWork
  <2>2. tick' \in TickState /\ TickAtWork'
    BY <1>0, <2>1, SkipTyped, GotoTyped
  <2>3. UNCHANGED <<order, latch, backoff, ticking>>
    BY <1>6 DEF Look
  <2> QED
    BY <1>0, <2>2, <2>3
<1>7. CASE Place
  <2>1. tick.bot \in Bots /\ tick.acct \in Accounts
    BY <1>7 DEF Place, At, TickAtWork
  <2>2. backoff' \subseteq Bots \X Accounts /\ UNCHANGED <<latch, ticking>>
    BY <1>0, <1>7, <2>1 DEF Place, BackOff
  <2>3. CASE Skip /\ UNCHANGED order
    BY <1>0, <2>1, <2>2, <2>3, SkipTyped
  <2>4. CASE /\ Room
             /\ order' = [order EXCEPT ![NextSlot] = [Free EXCEPT !.of = tick.bot, !.acct = tick.acct,
                            !.dir = tick.dir, !.state = "sent"]]
             /\ tick' = [tick EXCEPT !.at = "send", !.slot = NextSlot]
    <3>1. NextSlot \in Slots
      BY <2>4 DEF NextSlot, Room
    <3>2. [Free EXCEPT !.of = tick.bot, !.acct = tick.acct, !.dir = tick.dir, !.state = "sent"] \in Order
      BY <1>0, <2>1 DEF Free, Order, TickState
    <3>3. order' \in [Slots -> Order]
      BY <1>0, <2>4, <3>1, <3>2
    <3>4. tick' \in TickState /\ TickAtWork'
      BY <1>0, <2>1, <2>4, <3>1 DEF TickState, Places, TickAtWork
    <3> QED
      BY <1>0, <2>2, <3>3, <3>4
  <2> QED
    BY <1>7, <2>3, <2>4 DEF Place
<1>8. CASE Send
  <2>1. tick.bot \in Bots /\ tick.acct \in Accounts /\ tick.slot \in Slots /\ tick.at = "send"
    BY <1>8 DEF Send, At, TickAtWork
  <2>2. order' \in [Slots -> Order]
    <3>1. order[tick.slot] \in Order
      BY <1>0, <2>1
    <3>2. /\ [order[tick.slot] EXCEPT !.deal = "open"] \in Order
          /\ \A deal \in {"none", "open"} :
               [order[tick.slot] EXCEPT !.state = "rejected", !.deal = deal] \in Order
      BY <3>1 DEF Order
    <3> QED
      BY <1>0, <1>8, <2>1, <3>2 DEF Send
  <2>3. tick' \in TickState /\ TickAtWork'
    BY <1>0, <1>8, <2>1, SkipTyped, GotoTyped DEF Send
  <2>4. backoff' \subseteq Bots \X Accounts /\ UNCHANGED <<latch, ticking>>
    BY <1>0, <1>8, <2>1 DEF Send, BackOff
  <2> QED
    BY <1>0, <2>2, <2>3, <2>4
<1>9. CASE Record
  <2>1. tick.bot \in Bots /\ tick.acct \in Accounts /\ tick.slot \in Slots /\ tick.dir \in Directions
    BY <1>0, <1>9 DEF Record, At, TickAtWork, TickState
  <2>2. /\ [order[tick.slot] EXCEPT !.state = "past", !.row = "open"] \in Order
        /\ [order[tick.slot] EXCEPT !.state = "unlinked"] \in Order
    BY ZenonT(60), <1>0, <2>1 DEF Order
  <2>3. order' \in [Slots -> Order]
    BY <1>0, <1>9, <2>1, <2>2, OrdersKept DEF Record
  <2>4. tick' \in TickState /\ TickAtWork'
    BY <1>0, <1>9, <2>1, SkipTyped DEF Record
  <2>5. latch' \in [Bots -> [Accounts -> Directions]]
    BY <1>0, <1>9, <2>1, LatchKept DEF Record, Latched
  <2>6. UNCHANGED <<backoff, ticking>>
    BY <1>9 DEF Record
  <2> QED
    BY <1>0, <2>3, <2>4, <2>5, <2>6
<1> QED
  BY <1>1, <1>2, <1>3, <1>4, <1>5, <1>6, <1>7, <1>8, <1>9 DEF TickStep

\* The tick keeps the types.
LEMMA TickTyped ==
  ASSUME Typed, BeginTick \/ TickStep \/ BotThrows
  PROVE  Typed'
<1>1. UNCHANGED <<bot, desk, signal>>
  BY DEF BeginTick, TickStep, BotThrows, TakeBot, EndTick, CloseAccount, EndAccounts, TakeAccount,
     Look, Place, Send, Record, Elsewhere
<1> QED
  BY <1>1, TickWrites DEF Typed, TypeOK, DeskAtWork

\* What a desk request remembers, and where it works.
DeskStateAtWork(r) ==
  /\ r.at \in {"detach", "save"} => r.acct \in Accounts
  /\ r.at \in {"start", "begin", "validate", "arm", "rows", "live"} => r.bot \in Bots

DeskWrite(d) ==
  \E r \in DeskState : DeskStateAtWork(r) /\ desk' = [desk EXCEPT ![d] = r]

\* A desk step that writes one request and one strategy keeps both typed.
LEMMA DeskWrites ==
  ASSUME Typed, NEW d \in Desks, DeskWrite(d),
         bot' \in [Bots -> Strategy], latch' \in [Bots -> [Accounts -> Directions]],
         backoff' \subseteq Bots \X Accounts, UNCHANGED <<order, ticking, tick, signal>>
  PROVE  Typed'
<1>1. desk' \in [Desks -> DeskState] /\ DeskAtWork'
  BY DEF Typed, TypeOK, DeskAtWork, DeskStateAtWork, DeskWrite
<1> QED
  BY <1>1 DEF Typed, TypeOK, TickAtWork

\* A request that is over, and one that goes on to another place, is typed.
LEMMA DeskMoves ==
  ASSUME desk \in [Desks -> DeskState], NEW d \in Desks
  PROVE  /\ DeskDone(d) => DeskWrite(d)
         /\ \A there \in DeskPlaces :
              DeskGoto(d, there) /\ DeskStateAtWork([desk[d] EXCEPT !.at = there]) => DeskWrite(d)
         /\ \A c, there : desk' = [desk EXCEPT ![d].todo = @ \ {c}] /\ DeskStateAtWork(desk[d]) => DeskWrite(d)
<1>0. desk[d] \in DeskState
  OBVIOUS
<1>1. NoAsk \in DeskState /\ DeskStateAtWork(NoAsk)
  BY DEF NoAsk, DeskState, DeskPlaces, DeskStateAtWork
<1>2. \A there \in DeskPlaces : [desk[d] EXCEPT !.at = there] \in DeskState
  BY <1>0 DEF DeskState
<1>3. ASSUME NEW c, desk' = [desk EXCEPT ![d].todo = @ \ {c}], DeskStateAtWork(desk[d])
      PROVE  DeskWrite(d)
  <2> DEFINE r == [desk[d] EXCEPT !.todo = @ \ {c}]
  <2>1. r \in DeskState /\ r.at = desk[d].at /\ r.acct = desk[d].acct /\ r.bot = desk[d].bot
    BY <1>0 DEF DeskState
  <2>2. desk' = [desk EXCEPT ![d] = r]
    BY <1>3
  <2>3. DeskStateAtWork(r)
    BY <1>3, <2>1 DEF DeskStateAtWork
  <2> HIDE DEF r
  <2> QED
    BY <2>1, <2>2, <2>3 DEF DeskWrite
<1>4. ASSUME NEW there \in DeskPlaces, DeskGoto(d, there), DeskStateAtWork([desk[d] EXCEPT !.at = there])
      PROVE  DeskWrite(d)
  BY <1>2, <1>4 DEF DeskGoto, DeskWrite
<1> QED
  BY <1>1, <1>3, <1>4 DEF DeskDone, DeskWrite

\* The desk keeps the types.
LEMMA DeskTyped ==
  ASSUME Typed, NEW d \in Desks, DeskStep(d)
  PROVE  Typed'
<1>0. /\ bot \in [Bots -> Strategy] /\ latch \in [Bots -> [Accounts -> Directions]]
      /\ backoff \subseteq Bots \X Accounts /\ desk \in [Desks -> DeskState]
      /\ desk[d] \in DeskState /\ DeskStateAtWork(desk[d])
  BY DEF Typed, TypeOK, DeskAtWork, DeskStateAtWork
<1>a. /\ desk[d].todo \in SUBSET Listed /\ desk[d].acct \in Accounts \cup {None}
      /\ desk[d].bot \in Bots \cup {None} /\ desk[d].accts \in SUBSET Accounts
      /\ desk[d].scalp \in BOOLEAN
  BY <1>0 DEF DeskState
<1>b. UNCHANGED <<order, ticking, tick, signal>>
  BY DEF DeskStep, StopNext, Detach, Create, Update, BrokerReady, BeginStart, Validate, Arm,
     ExposureRows, ExposureLive, NotDesk, Ticks, market
<1> SUFFICES /\ DeskWrite(d)
             /\ bot' \in [Bots -> Strategy]
             /\ latch' \in [Bots -> [Accounts -> Directions]]
             /\ backoff' \subseteq Bots \X Accounts
  BY <1>b, DeskWrites
<1> DEFINE Goal == /\ DeskWrite(d)
                   /\ bot' \in [Bots -> Strategy]
                   /\ latch' \in [Bots -> [Accounts -> Directions]]
                   /\ backoff' \subseteq Bots \X Accounts
<1>1. CASE StopNext(d)
  <2>1. UNCHANGED <<latch, backoff>>
    BY <1>1 DEF StopNext, NotDesk
  <2>2. CASE DeskDone(d) /\ UNCHANGED bot
    BY <1>0, <2>1, <2>2, DeskMoves
  <2>3. ASSUME NEW c \in desk[d].todo, bot' = [bot EXCEPT ![c.bot].status = "STOPPED"],
               desk' = [desk EXCEPT ![d].todo = @ \ {c}]
        PROVE  Goal
    <3>1. c.bot \in Bots
      BY <1>a DEF Listed
    <3>2. bot' \in [Bots -> Strategy]
      BY ZenonT(60), <1>0, <2>3, <3>1 DEF Strategy
    <3> QED
      BY <1>0, <2>1, <2>3, <3>2, DeskMoves
  <2> QED
    BY <1>1, <2>2, <2>3 DEF StopNext
<1>2. CASE Detach(d)
  <2>1. UNCHANGED <<latch, backoff>> /\ desk[d].at = "detach" /\ desk[d].acct \in Accounts
    BY <1>0, <1>2 DEF Detach, NotDesk, DeskAt, DeskStateAtWork
  <2>2. CASE DeskGoto(d, "save") /\ UNCHANGED bot
    <3>1. DeskStateAtWork([desk[d] EXCEPT !.at = "save"])
      BY <1>0, <2>1 DEF DeskState, DeskStateAtWork
    <3> QED
      BY <1>0, <2>1, <2>2, <3>1, DeskMoves DEF DeskPlaces
  <2>3. ASSUME NEW c \in desk[d].todo, desk' = [desk EXCEPT ![d].todo = @ \ {c}],
               bot' = [bot EXCEPT ![c.bot].accts = c.accts \ {desk[d].acct},
                         ![c.bot].status = IF c.accts \ {desk[d].acct} = {} /\ @ = "RUNNING"
                                           THEN "STOPPED" ELSE @]
        PROVE  Goal
    <3>1. c.bot \in Bots /\ c.accts \in SUBSET Accounts
      BY <1>a DEF Listed
    <3>2. bot' \in [Bots -> Strategy]
      BY SMTT(30), <1>0, <2>3, <3>1 DEF Strategy
    <3> QED
      BY <1>0, <2>1, <2>3, <3>2, DeskMoves
  <2> QED
    BY <1>2, <2>2, <2>3 DEF Detach
<1>3. ASSUME NEW s \in Bots, desk[d].at = "save", Saved(d, s) PROVE DeskWrite(d)
  <2>1. /\ NoAsk \in DeskState /\ DeskStateAtWork(NoAsk)
        /\ [NoAsk EXCEPT !.at = "start", !.bot = s] \in DeskState
        /\ DeskStateAtWork([NoAsk EXCEPT !.at = "start", !.bot = s])
    BY DEF NoAsk, DeskState, DeskPlaces, DeskStateAtWork
  <2> QED
    BY <1>3, <2>1 DEF Saved, DeskWrite
<1>4. CASE Create(d)
  <2>1. UNCHANGED <<latch, backoff>> /\ desk[d].at = "save" /\ desk[d].acct \in Accounts
    BY <1>0, <1>4 DEF Create, NotDesk, DeskAt, DeskStateAtWork
  <2>2. PICK s \in Bots :
          /\ bot' = [bot EXCEPT ![s] = [status |-> "DRAFT", scalp |-> desk[d].scalp, accts |-> {desk[d].acct}]]
          /\ Saved(d, s)
    BY <1>4 DEF Create
  <2>3. bot' \in [Bots -> Strategy]
    BY <1>0, <1>a, <2>1, <2>2 DEF Strategy
  <2> QED
    BY <1>0, <1>3, <2>1, <2>2, <2>3
<1>5. CASE Update(d)
  <2>1. /\ UNCHANGED <<latch, backoff>> /\ desk[d].at = "save" /\ desk[d].acct \in Accounts
        /\ desk[d].bot \in Bots /\ Saved(d, desk[d].bot)
        /\ bot' = [bot EXCEPT ![desk[d].bot].scalp = desk[d].scalp, ![desk[d].bot].accts = {desk[d].acct}]
    BY <1>0, <1>a, <1>5 DEF Update, NotDesk, DeskAt, DeskStateAtWork
  <2>2. bot' \in [Bots -> Strategy]
    BY SMTT(30), <1>0, <1>a, <2>1 DEF Strategy
  <2> QED
    BY <1>0, <1>3, <2>1, <2>2
<1>6. CASE BrokerReady(d)
  <2>1. DeskStateAtWork([desk[d] EXCEPT !.at = "begin"])
    BY <1>0, <1>6 DEF BrokerReady, DeskAt, DeskState, DeskStateAtWork
  <2> QED
    BY <1>0, <1>6, <2>1, DeskMoves DEF BrokerReady, NotDesk, DeskPlaces
<1>7. ASSUME desk[d].at \in {"start", "begin", "validate", "arm", "rows", "live"},
             NEW accts \in SUBSET Accounts, NEW there \in {"validate", "arm", "rows"},
             desk' = [desk EXCEPT ![d].accts = accts, ![d].at = there]
      PROVE  DeskWrite(d)
  <2> DEFINE r == [desk[d] EXCEPT !.accts = accts, !.at = there]
  <2>1. r \in DeskState /\ DeskStateAtWork(r)
    BY <1>0, <1>7 DEF DeskState, DeskStateAtWork, DeskPlaces
  <2>2. desk' = [desk EXCEPT ![d] = r]
    BY <1>0, <1>7 DEF DeskState
  <2> HIDE DEF r
  <2> QED
    BY <2>1, <2>2 DEF DeskWrite
<1>8. CASE BeginStart(d)
  <2>1. desk[d].at = "begin" /\ desk[d].bot \in Bots /\ UNCHANGED <<bot, latch, backoff>>
    BY <1>0, <1>8 DEF BeginStart, DeskAt, DeskStateAtWork, NotDesk
  <2>2. bot[desk[d].bot].accts \in SUBSET Accounts
    BY <1>0, <2>1 DEF Strategy
  <2>3. \E there \in {"validate", "arm", "rows"} :
          desk' = [desk EXCEPT ![d].accts = bot[desk[d].bot].accts, ![d].at = there]
    BY <1>8 DEF BeginStart
  <2> QED
    BY <1>0, <1>7, <2>1, <2>2, <2>3
<1>9. CASE Validate(d)
  <2>1. desk[d].at = "validate" /\ desk[d].bot \in Bots /\ UNCHANGED <<latch, backoff>>
    BY <1>0, <1>9 DEF Validate, DeskAt, DeskStateAtWork, NotDesk
  <2>2. bot' \in [Bots -> Strategy]
    BY SMTT(30), <1>0, <1>9, <2>1 DEF Validate, Strategy
  <2>3. DeskStateAtWork([desk[d] EXCEPT !.at = "arm"])
    BY <1>0, <2>1 DEF DeskState, DeskStateAtWork
  <2> QED
    BY <1>0, <1>9, <2>1, <2>2, <2>3, DeskMoves DEF Validate, DeskPlaces
<1>10. CASE Arm(d)
  <2>1. /\ desk[d].at = "arm" /\ desk[d].bot \in Bots /\ UNCHANGED <<latch, backoff>>
    BY <1>0, <1>10 DEF Arm, DeskAt, DeskStateAtWork, NotDesk
  <2>2. bot' \in [Bots -> Strategy] /\ bot[desk[d].bot].accts \in SUBSET Accounts
    BY SMTT(30), <1>0, <1>10, <2>1 DEF Arm, Strategy
  <2>3. desk' = [desk EXCEPT ![d].accts = bot[desk[d].bot].accts, ![d].at = "rows"]
    BY <1>0, <1>10 DEF Arm, DeskState
  <2> QED
    BY <1>0, <1>7, <2>1, <2>2, <2>3
<1>11. ASSUME NEW s \in Bots, ResetSignals(s) \/ KeepSignals
       PROVE  latch' \in [Bots -> [Accounts -> Directions]] /\ backoff' \subseteq Bots \X Accounts
  <2>1. [a \in Accounts |-> None] \in [Accounts -> Directions]
    BY DEF Directions
  <2> QED
    BY <1>0, <1>11, <2>1 DEF ResetSignals, KeepSignals
<1>12. CASE ExposureRows(d)
  <2>1. desk[d].at = "rows" /\ desk[d].bot \in Bots /\ UNCHANGED bot
    BY <1>0, <1>12 DEF ExposureRows, DeskAt, DeskStateAtWork
  <2>2. ResetSignals(desk[d].bot) \/ KeepSignals
    BY <1>12 DEF ExposureRows
  <2>3. ASSUME NEW a \in desk[d].accts,
               desk' = [desk EXCEPT ![d].at = "live", ![d].acct = a, ![d].accts = @ \ {a}]
        PROVE  DeskWrite(d)
    <3> DEFINE r == [desk[d] EXCEPT !.at = "live", !.acct = a, !.accts = @ \ {a}]
    <3>1. r \in DeskState /\ DeskStateAtWork(r)
      BY <1>0, <1>a, <2>1 DEF DeskState, DeskStateAtWork, DeskPlaces
    <3>2. desk' = [desk EXCEPT ![d] = r]
      BY <1>0, <2>3 DEF DeskState
    <3> HIDE DEF r
    <3> QED
      BY <3>1, <3>2 DEF DeskWrite
  <2>4. DeskDone(d) \/ \E a \in desk[d].accts :
          desk' = [desk EXCEPT ![d].at = "live", ![d].acct = a, ![d].accts = @ \ {a}]
    BY <1>12 DEF ExposureRows
  <2> QED
    BY <1>0, <1>11, <2>1, <2>2, <2>3, <2>4, DeskMoves
<1>13. CASE ExposureLive(d)
  <2>1. desk[d].at = "live" /\ desk[d].bot \in Bots /\ UNCHANGED bot
    BY <1>0, <1>13 DEF ExposureLive, DeskAt, DeskStateAtWork
  <2>2. /\ ResetSignals(desk[d].bot) \/ KeepSignals
        /\ DeskDone(d) \/ DeskGoto(d, "rows")
    BY <1>13 DEF ExposureLive
  <2>3. DeskStateAtWork([desk[d] EXCEPT !.at = "rows"])
    BY <1>0, <2>1 DEF DeskState, DeskStateAtWork
  <2> QED
    BY <1>0, <1>11, <2>1, <2>2, <2>3, DeskMoves DEF DeskPlaces
<1> QED
  BY <1>1, <1>2, <1>4, <1>5, <1>6, <1>8, <1>9, <1>10, <1>12, <1>13 DEF DeskStep

\* So does a desk that takes a request.
LEMMA RunForAccountTyped ==
  ASSUME Typed, NEW d \in Desks, NEW ask \in Asks, NEW a \in Accounts, NEW scalp \in Modes,
         RunForAccount(d, ask, a, scalp)
  PROVE  Typed'
<1>0. /\ bot \in [Bots -> Strategy] /\ latch \in [Bots -> [Accounts -> Directions]]
      /\ backoff \subseteq Bots \X Accounts /\ scalp \in BOOLEAN
  BY BotsAssumption DEF Typed, TypeOK
<1>1. UNCHANGED <<bot, latch, backoff, order, ticking, tick, signal>>
  BY DEF RunForAccount, NotDesk, Ticks, market
<1> DEFINE Copies(those) == {Copy(b) : b \in those}
<1>2. \A those \in SUBSET Bots : Copies(those) \in SUBSET Listed
  BY <1>0, CopyIsListed
<1> DEFINE asked == [NoAsk EXCEPT !.ask = ask, !.acct = a, !.scalp = scalp]
<1>3. /\ \A todo \in SUBSET Listed :
           /\ [asked EXCEPT !.at = "stop", !.todo = todo] \in DeskState
           /\ DeskStateAtWork([asked EXCEPT !.at = "stop", !.todo = todo])
      /\ [asked EXCEPT !.at = "save"] \in DeskState
      /\ DeskStateAtWork([asked EXCEPT !.at = "save"])
      /\ \A todo \in SUBSET Listed, s \in Bots :
           /\ [asked EXCEPT !.at = "detach", !.bot = s, !.todo = todo] \in DeskState
           /\ DeskStateAtWork([asked EXCEPT !.at = "detach", !.bot = s, !.todo = todo])
  BY ZenonT(60), <1>0 DEF NoAsk, DeskState, DeskPlaces, DeskStateAtWork
<1>4. DeskWrite(d)
  <2> DEFINE bound == {s \in Bots : bot[s].status # "none" /\ a \in bot[s].accts}
  <2>1. \/ desk' = [desk EXCEPT ![d] = [asked EXCEPT !.at = "stop",
                     !.todo = Copies({b \in bound : bot[b].status = "RUNNING"})]]
        \/ desk' = [desk EXCEPT ![d] = [asked EXCEPT !.at = "save"]]
        \/ \E s \in bound : desk' = [desk EXCEPT ![d] = [asked EXCEPT !.at = "detach", !.bot = s,
                                                           !.todo = Copies(bound \ {s})]]
    BY DEF RunForAccount
  <2>2. Copies({b \in bound : bot[b].status = "RUNNING"}) \in SUBSET Listed
    BY <1>2
  <2>3. \A s \in bound : s \in Bots /\ Copies(bound \ {s}) \in SUBSET Listed
    BY <1>2
  <2> HIDE DEF asked, Copies, bound
  <2> QED
    BY <1>3, <2>1, <2>2, <2>3 DEF DeskWrite
<1> QED
  BY <1>0, <1>1, <1>4, DeskWrites

-----------------------------------------------------------------------------
\* An order that becomes another one may hold a deal only if it might before,
\* in the same account and for the same bot.
Lessens(r, n) ==
  Holds(n) => Holds(r) /\ n.of = r.of /\ n.acct = r.acct

\* It is not more of an obstacle to a new order of the account than it was.
Quiet(r, n) ==
  Holds(n) \/ n.row = "open" => (Holds(r) \/ r.row = "open") /\ n.acct = r.acct

\* It has a deal after as it had one before.
SameDeal(r, n) ==
  /\ n.deal = "open" <=> r.deal = "open"
  /\ r.deal = "open" => n.of = r.of /\ n.acct = r.acct

Calm(r, n) == Lessens(r, n) /\ Quiet(r, n)

\* Tidying, syncing, closing and aging an order leave it no more than it held.
LEMMA OrderLessens ==
  ASSUME NEW r \in Order
  PROVE  /\ Calm(r, r) /\ SameDeal(r, r)
         /\ Calm(r, Synced(r)) /\ SameDeal(r, Synced(r))
         /\ Calm(r, Tidy([r EXCEPT !.deal = "over", !.row = "none"]))
         /\ Tidy([r EXCEPT !.deal = "over", !.row = "none"]).deal # "open"
         /\ Calm(r, Tidy([r EXCEPT !.deal = "over"]))
         /\ Tidy([r EXCEPT !.deal = "over"]).deal # "open"
         /\ Calm(r, Tidy([r EXCEPT !.state = "past"]))
         /\ SameDeal(r, Tidy([r EXCEPT !.state = "past"]))
<1> USE DEF Order, Calm
<1>1. Calm(r, r) /\ SameDeal(r, r)
  BY DEF Lessens, Quiet, SameDeal
<1>2. Calm(r, Synced(r)) /\ SameDeal(r, Synced(r))
  BY DEF Lessens, Quiet, SameDeal, Synced, Tidy, Free, Holds
<1>3. LET n == Tidy([r EXCEPT !.deal = "over", !.row = "none"])
      IN  Calm(r, n) /\ n.deal # "open"
  BY DEF Lessens, Quiet, Tidy, Free, Holds
<1>4. LET n == Tidy([r EXCEPT !.deal = "over"])
      IN  Calm(r, n) /\ n.deal # "open"
  BY DEF Lessens, Quiet, Tidy, Free, Holds
<1>5. LET n == Tidy([r EXCEPT !.state = "past"])
      IN  Calm(r, n) /\ SameDeal(r, n)
  BY DEF Lessens, Quiet, SameDeal, Tidy, Free, Holds
<1> QED
  BY <1>1, <1>2, <1>3, <1>4, <1>5

\* An order in flight stays where it is, whatever is synced or closed.
LEMMA SentStays ==
  ASSUME NEW r \in Order, r.state = "sent"
  PROVE  /\ Synced(r).of = r.of /\ Synced(r).acct = r.acct /\ Synced(r).state = "sent"
         /\ Synced(r).deal = r.deal
         /\ LET n == Tidy([r EXCEPT !.deal = "over"])
            IN  n.of = r.of /\ n.acct = r.acct /\ n.state = "sent"
  BY DEF Synced, Tidy, Order

\* What the steps do to the deals: nothing; they end the deals of some orders of
\* one account; an order that may get a deal gets one.
AllKept == \A o \in Slots : SameDeal(order[o], order'[o])

SomeEnd(a) ==
  \A o \in Slots : \/ SameDeal(order[o], order'[o])
                   \/ order[o].acct = a /\ order'[o].deal # "open"

OneOpens(p) ==
  /\ MayHold(p) /\ order[p].deal = "none"
  /\ order'[p].of = order[p].of /\ order'[p].acct = order[p].acct
  /\ \A o \in Slots \ {p} : order'[o] = order[o]

DealsMove ==
  AllKept \/ (\E a \in Accounts \cup {None} : SomeEnd(a)) \/ (\E p \in Slots : OneOpens(p))

AllLessen == \A o \in Slots : Lessens(order[o], order'[o])
AllCalm == \A o \in Slots : Calm(order[o], order'[o])

\* The rows that a tick closes are closed, and nothing else.
LEMMA CloseEnds ==
  ASSUME order \in [Slots -> Order], NEW a \in Accounts, NEW shut \in SUBSET Rows(a), Close(shut)
  PROVE  AllLessen /\ SomeEnd(a)
<1>1. \A o \in shut : o \in Slots /\ order[o].acct = a
  BY DEF Rows, On
<1>2. ASSUME NEW o \in Slots
      PROVE  /\ Lessens(order[o], order'[o])
             /\ SameDeal(order[o], order'[o]) \/ (order[o].acct = a /\ order'[o].deal # "open")
  <2>1. order[o] \in Order
    OBVIOUS
  <2>2. CASE o \in shut
    <3>1. order'[o] = Tidy([order[o] EXCEPT !.deal = "over", !.row = "none"])
      BY <2>2 DEF Close
    <3> QED
      BY <1>1, <2>1, <2>2, <3>1, OrderLessens DEF Calm
  <2>3. CASE o \notin shut
    <3>1. order'[o] = order[o]
      BY <2>3 DEF Close
    <3> QED
      BY <2>1, <3>1, OrderLessens DEF Calm
  <2> QED
    BY <2>2, <2>3
<1> QED
  BY <1>2 DEF AllLessen, SomeEnd

\* A sync of the orders of some accounts opens and ends no deal.
LEMMA SyncKeeps ==
  ASSUME order \in [Slots -> Order], NEW scope,
         order' = [o \in Slots |-> IF order[o].acct \in scope THEN Synced(order[o]) ELSE order[o]]
  PROVE  AllCalm /\ AllKept
<1>1. \A o \in Slots : order[o] \in Order /\ order'[o] \in {order[o], Synced(order[o])}
  OBVIOUS
<1> QED
  BY <1>1, OrderLessens DEF AllCalm, AllKept

\* A step that leaves the orders alone does so too.
LEMMA OrdersStay ==
  ASSUME order \in [Slots -> Order], UNCHANGED order
  PROVE  AllCalm /\ AllKept
  BY OrderLessens DEF AllCalm, AllKept

\* A bot's order is created behind the belt.
PlacesOne ==
  /\ Belt(tick.bot, tick.acct) /\ Room
  /\ order' = [order EXCEPT ![NextSlot] = [Free EXCEPT !.of = tick.bot, !.acct = tick.acct,
                 !.dir = tick.dir, !.state = "sent"]]
  /\ tick' = [tick EXCEPT !.at = "send", !.slot = NextSlot]

\* What the tick does to the orders.
LEMMA TickEffect ==
  ASSUME IInv, BeginTick \/ TickStep \/ BotThrows
  PROVE  DealsMove /\ (AllLessen \/ PlacesOne)
<1>0. order \in [Slots -> Order] /\ tick \in TickState /\ TickAtWork
  BY DEF IInv, Typed, TypeOK
<1>a. AllCalm => AllLessen
  BY DEF AllCalm, AllLessen, Calm
<1>b. ASSUME UNCHANGED order PROVE DealsMove /\ AllLessen
  BY <1>0, <1>a, <1>b, OrdersStay DEF DealsMove
<1>c. ASSUME NEW a \in Accounts, \E shut \in SUBSET Rows(a) : Close(shut) PROVE DealsMove /\ AllLessen
  BY <1>0, <1>c, CloseEnds DEF DealsMove
<1>1. CASE BeginTick
  <2>1. UNCHANGED order \/ \E scope :
          order' = [o \in Slots |-> IF order[o].acct \in scope THEN Synced(order[o]) ELSE order[o]]
    BY <1>1 DEF BeginTick
  <2> QED
    BY <1>0, <1>a, <1>b, <2>1, SyncKeeps DEF DealsMove
<1>2. CASE BotThrows \/ EndTick \/ EndAccounts \/ Look \/ \E c \in tick.todo : TakeBot(c)
  BY <1>2, <1>b DEF BotThrows, EndTick, EndAccounts, Look, TakeBot, InTick
<1>3. CASE CloseAccount
  <2>1. UNCHANGED order \/ \E a \in tick.accts : \E shut \in SUBSET Rows(a) : Close(shut)
    BY <1>3 DEF CloseAccount
  <2>2. tick.accts \subseteq Accounts
    BY <1>0 DEF TickState
  <2> QED
    BY <1>b, <1>c, <2>1, <2>2
<1>4. ASSUME NEW a \in tick.accts, TakeAccount(a) PROVE DealsMove /\ AllLessen
  <2>1. UNCHANGED order \/ \E shut \in SUBSET Rows(a) : Close(shut)
    BY <1>4 DEF TakeAccount, Flip
  <2>2. a \in Accounts
    BY <1>0 DEF TickState
  <2> QED
    BY <1>b, <1>c, <2>1, <2>2
<1>5. CASE Place
  <2>1. UNCHANGED order \/ PlacesOne
    BY <1>5 DEF Place, PlacesOne
  <2>2. ASSUME PlacesOne PROVE AllKept
    <3>1. NextSlot \in Slots /\ order[NextSlot] = Free
      BY <2>2 DEF PlacesOne, NextSlot, Room
    <3>2. order'[NextSlot].deal = "none" /\ \A o \in Slots \ {NextSlot} : order'[o] = order[o]
      BY <1>0, <2>2, <3>1 DEF PlacesOne, Free
    <3>3. order[NextSlot].deal = "none"
      BY <3>1 DEF Free
    <3> QED
      BY <1>0, <3>1, <3>2, <3>3 DEF AllKept, SameDeal
  <2> QED
    BY <1>b, <2>1, <2>2 DEF DealsMove
<1>6. CASE Send
  <2> DEFINE p == tick.slot
  <2>1. p \in Slots /\ order[p] \in Order /\ order[p].state = "sent" /\ order[p].deal = "none"
    BY <1>0, <1>6 DEF Send, At, IInv, InHand, TickAtWork
  <2>2. /\ order'[p].of = order[p].of /\ order'[p].acct = order[p].acct
        /\ \A o \in Slots \ {p} : order'[o] = order[o]
    BY <1>0, <1>6, <2>1 DEF Send, Order
  <2>3. OneOpens(p)
    BY <2>1, <2>2 DEF OneOpens, MayHold, Holds
  <2>4. AllLessen
    BY <1>0, <2>1, <2>2, OrderLessens DEF AllLessen, Lessens, Holds
  <2> QED
    BY <2>1, <2>3, <2>4 DEF DealsMove
<1>7. CASE Record
  <2> DEFINE p == tick.slot
  <2>1. p \in Slots /\ order[p] \in Order /\ order[p].state = "sent"
    BY <1>0, <1>7 DEF Record, At, IInv, InHand, TickAtWork
  <2>2. /\ \A o \in Slots \ {p} : order'[o] = order[o]
        /\ \/ order'[p] = Tidy([order[p] EXCEPT !.state = "past", !.row = "open"])
           \/ order'[p] = Tidy([order[p] EXCEPT !.state = "unlinked"])
    BY <1>0, <1>7, <2>1 DEF Record, With
  <2>3. SameDeal(order[p], order'[p]) /\ Lessens(order[p], order'[p])
    BY <2>1, <2>2 DEF SameDeal, Lessens, Tidy, Order, Holds
  <2>4. AllKept /\ AllLessen
    BY <1>0, <2>1, <2>2, <2>3, OrderLessens DEF AllKept, AllLessen, Calm
  <2> QED
    BY <2>4 DEF DealsMove
<1> QED
  BY <1>1, <1>2, <1>3, <1>4, <1>5, <1>6, <1>7 DEF TickStep

\* After a step that makes no order hold more than it did, and after one that
\* puts an order behind the belt, one order holds.
LEMMA OneHoldsKept ==
  ASSUME IInv, AllLessen \/ PlacesOne
  PROVE  OneHolds'
<1>1. CASE AllLessen
  BY <1>1 DEF IInv, OneHolds, AllLessen, Lessens, MayHold
<1>2. CASE PlacesOne
  <2>0. order \in [Slots -> Order]
    BY DEF IInv, Typed, TypeOK
  <2>1. NextSlot \in Slots
    BY <1>2 DEF PlacesOne, NextSlot, Room
  <2>2. order'[NextSlot].acct = tick.acct /\ \A o \in Slots \ {NextSlot} : order'[o] = order[o]
    BY <1>2, <2>0, <2>1 DEF PlacesOne, Free
  <2>3. \A o \in Slots : order[o].acct = tick.acct => ~MayHold(o)
    BY <1>2 DEF PlacesOne, Belt, Deals, InFlight, On, MayHold, Holds
  <2> QED
    BY <2>0, <2>1, <2>2, <2>3 DEF IInv, OneHolds, MayHold
<1> QED
  BY <1>1, <1>2

\* The tick keeps the order in hand the only one of its account: the belt has
\* looked at everything that could be another.
LEMMA TickInHand ==
  ASSUME IInv, BeginTick \/ TickStep \/ BotThrows
  PROVE  InHand'
<1>0. order \in [Slots -> Order] /\ tick \in TickState /\ TickAtWork
  BY DEF IInv, Typed, TypeOK
<1>1. CASE Place
  <2>1. tick.bot \in Bots
    BY <1>0, <1>1 DEF Place, At, TickAtWork
  <2>2. CASE Skip
    <3>1. tick'.at = "accounts"
      BY <1>0, <2>1, <2>2, SkipTyped
    <3> QED
      BY <3>1 DEF InHand
  <2>3. CASE PlacesOne
    <3>1. NextSlot \in Slots
      BY <2>3 DEF PlacesOne, NextSlot, Room
    <3>2. /\ order'[NextSlot].acct = tick.acct /\ order'[NextSlot].of = tick.bot
          /\ order'[NextSlot].state = "sent" /\ order'[NextSlot].deal = "none"
          /\ \A o \in Slots \ {NextSlot} : order'[o] = order[o]
      BY <2>3, <1>0, <3>1 DEF PlacesOne, Free
    <3>3. \A o \in Slots : order[o].acct = tick.acct => ~Holds(order[o]) /\ order[o].row # "open"
      BY <2>3 DEF PlacesOne, Belt, Deals, Rows, InFlight, On, Holds
    <3>4. tick'.slot = NextSlot /\ tick'.bot = tick.bot /\ tick'.acct = tick.acct
      BY <1>0, <2>3 DEF PlacesOne, TickState
    <3> QED
      BY <3>1, <3>2, <3>3, <3>4 DEF InHand, MayHold
  <2> QED
    BY <1>1, <2>2, <2>3 DEF Place, PlacesOne
<1>2. CASE Send
  <2>1. tick.bot \in Bots /\ tick.slot \in Slots /\ tick.at = "send"
    BY <1>0, <1>2 DEF Send, At, TickAtWork
  <2>2. CASE Skip
    <3>1. tick'.at = "accounts"
      BY <1>0, <2>1, <2>2, SkipTyped
    <3> QED
      BY <3>1 DEF InHand
  <2>3. CASE Goto("record") /\ order' = [order EXCEPT ![tick.slot].deal = "open"]
    <3>1. /\ tick'.at = "record" /\ tick'.bot = tick.bot
          /\ tick'.acct = tick.acct /\ tick'.slot = tick.slot
      BY <1>0, <2>1, <2>3 DEF Goto, TickState
    <3>2. /\ order'[tick.slot].of = order[tick.slot].of
          /\ order'[tick.slot].acct = order[tick.slot].acct
          /\ order'[tick.slot].state = order[tick.slot].state
          /\ \A o \in Slots \ {tick.slot} : order'[o] = order[o]
      BY <1>0, <2>1, <2>3 DEF Order
    <3> QED
      BY <2>1, <3>1, <3>2 DEF IInv, InHand, MayHold
  <2> QED
    BY <1>2, <2>2, <2>3 DEF Send
<1>3. CASE BeginTick \/ (TickStep /\ ~Place /\ ~Send) \/ BotThrows
  <2>1. tick'.at \in {"idle", "bots", "closing", "accounts", "look", "place"}
    <3>1. CASE BeginTick \/ \E c \in tick.todo : TakeBot(c)
      BY <1>0, <3>1 DEF BeginTick, TakeBot, At, AtRest, TickState
    <3>2. CASE BotThrows \/ EndTick \/ EndAccounts
      BY <1>0, <3>2, RestTyped DEF BotThrows, EndTick, EndAccounts
    <3>3. CASE CloseAccount
      BY <1>0, <3>3 DEF CloseAccount, At, Done, AtRest, TickState
    <3>4. CASE \E a \in tick.accts : TakeAccount(a)
      BY <1>0, <3>4 DEF TakeAccount, At, TickState
    <3>5. CASE Look
      BY <1>0, <3>5 DEF Look, At, Skip, Goto, TickState
    <3>6. CASE Record
      BY <1>0, <3>6 DEF Record, Skip, TickState
    <3> QED
      BY <1>3, <3>1, <3>2, <3>3, <3>4, <3>5, <3>6 DEF TickStep
  <2> QED
    BY <2>1 DEF InHand
<1> QED
  BY <1>1, <1>2, <1>3 DEF TickStep

-----------------------------------------------------------------------------
\* The steps of the broker, the market and the clock.
Elses ==
  \/ Turn \/ Restart
  \/ \E o \in Slots : DealEnds(o) \/ LateFill(o) \/ Age(o)
  \/ \E a \in Accounts : Refresh(a)
  \/ \E p \in Bots \X Accounts : BackoffEnds(p)

\* They keep the types.
LEMMA ElseTyped ==
  ASSUME Typed, Elses
  PROVE  Typed'
<1>0. /\ order \in [Slots -> Order] /\ \A o \in Slots : order[o] \in Order
      /\ backoff \in SUBSET (Bots \X Accounts)
  BY DEF Typed, TypeOK
<1>1. CASE Turn
  BY <1>1 DEF Turn, Ticks, Typed, TypeOK, TickAtWork, DeskAtWork
<1>2. CASE Restart
  <2>1. /\ AtRest \in TickState /\ AtRest.at = "idle" /\ NoAsk \in DeskState /\ NoAsk.at = "idle"
    BY DEF AtRest, NoAsk, TickState, DeskState, Places, DeskPlaces, Directions
  <2>2. /\ tick' = AtRest /\ desk' = [d \in Desks |-> NoAsk] /\ UNCHANGED <<bot, order, signal>>
        /\ latch' = [s \in Bots |-> [a \in Accounts |-> None]] /\ backoff' = {} /\ ticking' = FALSE
    BY <1>2 DEF Restart, market
  <2>3. TickAtWork' /\ DeskAtWork'
    BY <2>1, <2>2 DEF TickAtWork, DeskAtWork
  <2>4. latch' \in [Bots -> [Accounts -> Directions]]
    BY <2>2 DEF Directions
  <2> QED
    BY <2>1, <2>2, <2>3, <2>4 DEF Typed, TypeOK
<1>3. CASE order' \in [Slots -> Order] /\ UNCHANGED NotOrders
  BY <1>3 DEF NotOrders, Ticks, market, Typed, TypeOK, TickAtWork, DeskAtWork
<1>4. ASSUME NEW o \in Slots, DealEnds(o) \/ LateFill(o) \/ Age(o) PROVE Typed'
  <2>1. /\ [order[o] EXCEPT !.deal = "over"] \in Order /\ [order[o] EXCEPT !.state = "past"] \in Order
        /\ [order[o] EXCEPT !.deal = "open"] \in Order
    BY <1>0 DEF Order
  <2>2. order' \in [Slots -> Order]
    BY <1>0, <1>4, <2>1, OrdersKept DEF DealEnds, LateFill, Age
  <2> QED
    BY <1>3, <1>4, <2>2 DEF DealEnds, LateFill, Age
<1>5. ASSUME NEW a \in Accounts, Refresh(a) PROVE Typed'
  <2>1. order' = [o \in Slots |-> IF order[o].acct \in {a} THEN Synced(order[o]) ELSE order[o]]
    BY <1>5 DEF Refresh
  <2>2. order' \in [Slots -> Order]
    BY <1>0, <2>1, OrdersKept
  <2> QED
    BY <1>3, <1>5, <2>2 DEF Refresh
<1>6. ASSUME NEW p \in Bots \X Accounts, BackoffEnds(p) PROVE Typed'
  BY <1>6 DEF BackoffEnds, Ticks, market, Typed, TypeOK, TickAtWork, DeskAtWork
<1> QED
  BY <1>1, <1>2, <1>4, <1>5, <1>6 DEF Elses

\* What they do to the orders.
LEMMA ElseEffect ==
  ASSUME IInv, Elses
  PROVE  DealsMove /\ AllLessen
<1>0. order \in [Slots -> Order] /\ \A o \in Slots : order[o] \in Order
  BY DEF IInv, Typed, TypeOK
<1>a. AllCalm => AllLessen
  BY DEF AllCalm, AllLessen, Calm
<1>1. CASE Turn \/ Restart \/ \E p \in Bots \X Accounts : BackoffEnds(p)
  BY <1>0, <1>1, <1>a, OrdersStay DEF Turn, Restart, BackoffEnds, DealsMove
<1>2. ASSUME NEW o \in Slots, DealEnds(o) PROVE DealsMove /\ AllLessen
  <2>1. /\ order'[o] = Tidy([order[o] EXCEPT !.deal = "over"])
        /\ \A p \in Slots \ {o} : order'[p] = order[p]
    BY <1>0, <1>2 DEF DealEnds, With
  <2>2. Calm(order[o], order'[o]) /\ order'[o].deal # "open"
    BY <1>0, <2>1, OrderLessens
  <2>3. SomeEnd(order[o].acct) /\ AllCalm
    BY <1>0, <2>1, <2>2, OrderLessens DEF SomeEnd, AllCalm
  <2>4. order[o].acct \in Accounts \cup {None}
    BY <1>0 DEF Order
  <2> QED
    BY <1>a, <2>3, <2>4 DEF DealsMove
<1>3. ASSUME NEW o \in Slots, LateFill(o) PROVE DealsMove /\ AllLessen
  <2>1. /\ order[o].state = "sent" /\ order[o].deal = "none" /\ order[o] \in Order
        /\ order' = [order EXCEPT ![o].deal = "open"]
    BY <1>0, <1>3 DEF LateFill
  <2>2. /\ order'[o].of = order[o].of /\ order'[o].acct = order[o].acct
        /\ \A p \in Slots \ {o} : order'[p] = order[p]
    BY <1>0, <2>1 DEF Order
  <2>3. OneOpens(o)
    BY <2>1, <2>2 DEF OneOpens, MayHold, Holds
  <2>4. AllLessen
    BY <1>0, <2>1, <2>2 DEF AllLessen, Lessens, Holds
  <2> QED
    BY <2>3, <2>4 DEF DealsMove
<1>4. ASSUME NEW o \in Slots, Age(o) PROVE DealsMove /\ AllLessen
  <2>1. /\ order'[o] = Tidy([order[o] EXCEPT !.state = "past"])
        /\ \A p \in Slots \ {o} : order'[p] = order[p]
    BY <1>0, <1>4 DEF Age, With
  <2>2. AllKept /\ AllCalm
    BY <1>0, <2>1, OrderLessens DEF AllKept, AllCalm
  <2> QED
    BY <1>a, <2>2 DEF DealsMove
<1>5. ASSUME NEW a \in Accounts, Refresh(a) PROVE DealsMove /\ AllLessen
  <2>1. order' = [o \in Slots |-> IF order[o].acct \in {a} THEN Synced(order[o]) ELSE order[o]]
    BY <1>5 DEF Refresh
  <2> QED
    BY <1>0, <1>a, <2>1, SyncKeeps DEF DealsMove
<1> QED
  BY <1>1, <1>2, <1>3, <1>4, <1>5 DEF Elses

\* They leave the order in hand the only one of its account.  An order that is
\* filled late is not of that account; what a sync does to the order in hand
\* leaves it in flight.
LEMMA ElseInHand ==
  ASSUME IInv, Elses
  PROVE  InHand'
<1>0. /\ order \in [Slots -> Order] /\ \A o \in Slots : order[o] \in Order
      /\ TickAtWork
  BY DEF IInv, Typed, TypeOK
<1>1. CASE Restart
  BY <1>1 DEF Restart, InHand, AtRest
<1>2. CASE Turn \/ \E p \in Bots \X Accounts : BackoffEnds(p)
  <2>1. UNCHANGED <<order, tick>>
    BY <1>2 DEF Turn, BackoffEnds, Ticks
  <2> QED
    BY <2>1 DEF IInv, InHand, MayHold
<1> DEFINE s == tick.slot
<1>3. SUFFICES ASSUME tick.at \in {"send", "record"}, UNCHANGED tick,
                      \/ \E o \in Slots : DealEnds(o) \/ LateFill(o) \/ Age(o)
                      \/ \E a \in Accounts : Refresh(a)
               PROVE  InHand'
  <2>1. CASE \/ \E o \in Slots : DealEnds(o) \/ LateFill(o) \/ Age(o)
             \/ \E a \in Accounts : Refresh(a)
    <3>1. UNCHANGED tick
      BY <2>1 DEF DealEnds, LateFill, Age, Refresh, NotOrders, Ticks
    <3> QED
      BY <1>3, <2>1, <3>1 DEF InHand
  <2> QED
    BY <1>1, <1>2, <2>1 DEF Elses
<1>4. /\ s \in Slots /\ order[s] \in Order /\ order[s].of = tick.bot /\ order[s].acct = tick.acct
      /\ order[s].state = "sent" /\ (tick.at = "send" => order[s].deal = "none")
      /\ \A o \in Slots \ {s} : order[o].acct = tick.acct => ~Holds(order[o]) /\ order[o].row # "open"
  BY <1>0, <1>3 DEF IInv, InHand, TickAtWork, MayHold
<1>5. SUFFICES
        /\ order'[s].of = order[s].of /\ order'[s].acct = order[s].acct /\ order'[s].state = "sent"
        /\ tick.at = "send" => order'[s].deal = order[s].deal
        /\ \A o \in Slots \ {s} : \/ Quiet(order[o], order'[o])
                                  \/ order'[o].acct # tick.acct
  BY <1>3, <1>4 DEF InHand, MayHold, Quiet
<1>6. ASSUME NEW o \in Slots, DealEnds(o)
      PROVE  /\ order'[s].of = order[s].of /\ order'[s].acct = order[s].acct /\ order'[s].state = "sent"
             /\ tick.at = "send" => order'[s].deal = order[s].deal
             /\ \A p \in Slots \ {s} : Quiet(order[p], order'[p])
  <2>1. /\ order'[o] = Tidy([order[o] EXCEPT !.deal = "over"]) /\ order[o].deal = "open"
        /\ \A p \in Slots \ {o} : order'[p] = order[p]
    BY <1>0, <1>6 DEF DealEnds, With
  <2>2. \A p \in Slots \ {s} : Quiet(order[p], order'[p])
    BY <1>0, <2>1, OrderLessens DEF Calm
  <2>3. CASE o = s
    BY <1>4, <2>1, <2>2, <2>3, SentStays
  <2>4. CASE o # s
    BY <1>4, <2>1, <2>2, <2>4
  <2> QED
    BY <2>3, <2>4
<1>7. ASSUME NEW o \in Slots, LateFill(o)
      PROVE  /\ order'[s].of = order[s].of /\ order'[s].acct = order[s].acct /\ order'[s].state = "sent"
             /\ tick.at = "send" => order'[s].deal = order[s].deal
             /\ \A p \in Slots \ {s} : Quiet(order[p], order'[p]) \/ order'[p].acct # tick.acct
  <2>1. /\ o # s /\ order[o].state = "sent" /\ order[o].deal = "none" /\ order[o] \in Order
        /\ order' = [order EXCEPT ![o].deal = "open"]
    BY <1>0, <1>7 DEF LateFill
  <2>2. order'[o].acct = order[o].acct /\ \A p \in Slots \ {o} : order'[p] = order[p]
    BY <1>0, <2>1 DEF Order
  <2>3. order[o].acct # tick.acct
    BY <1>4, <2>1 DEF Holds
  <2>4. \A p \in Slots : Quiet(order[p], order[p])
    BY <1>0, OrderLessens DEF Calm
  <2> QED
    BY <1>4, <2>1, <2>2, <2>3, <2>4
<1>8. ASSUME NEW o \in Slots, Age(o)
      PROVE  /\ order'[s].of = order[s].of /\ order'[s].acct = order[s].acct /\ order'[s].state = "sent"
             /\ tick.at = "send" => order'[s].deal = order[s].deal
             /\ \A p \in Slots \ {s} : Quiet(order[p], order'[p])
  <2>1. /\ order'[o] = Tidy([order[o] EXCEPT !.state = "past"]) /\ o # s
        /\ \A p \in Slots \ {o} : order'[p] = order[p]
    BY <1>0, <1>8 DEF Age, With
  <2> QED
    BY <1>0, <1>4, <2>1, OrderLessens DEF Calm
<1>9. ASSUME NEW a \in Accounts, Refresh(a)
      PROVE  /\ order'[s].of = order[s].of /\ order'[s].acct = order[s].acct /\ order'[s].state = "sent"
             /\ tick.at = "send" => order'[s].deal = order[s].deal
             /\ \A p \in Slots \ {s} : Quiet(order[p], order'[p])
  <2>1. \A p \in Slots : order'[p] \in {order[p], Synced(order[p])}
    BY <1>9 DEF Refresh
  <2> QED
    BY <1>0, <1>4, <2>1, OrderLessens, SentStays DEF Calm
<1> QED
  BY <1>3, <1>6, <1>7, <1>8, <1>9

\* IInv is inductive.
LEMMA InvStep == IInv /\ [Next]_vars => IInv' /\ (DealsMove \/ UNCHANGED order)
<1> SUFFICES ASSUME IInv, [Next]_vars PROVE IInv' /\ (DealsMove \/ UNCHANGED order)
  OBVIOUS
<1>1. CASE BeginTick \/ TickStep \/ BotThrows
  BY <1>1, TickTyped, TickEffect, TickInHand, OneHoldsKept DEF IInv
<1>2. CASE \E d \in Desks : \/ DeskStep(d)
                            \/ \E ask \in Asks, a \in Accounts, scalp \in Modes : RunForAccount(d, ask, a, scalp)
  <2>1. UNCHANGED <<order, tick>>
    BY ZenonT(60), <1>2 DEF DeskStep, StopNext, Detach, Create, Update, BrokerReady, BeginStart, Validate, Arm,
       ExposureRows, ExposureLive, RunForAccount, NotDesk, Ticks
  <2>2. InHand' /\ OneHolds'
    BY <2>1 DEF IInv, InHand, OneHolds, MayHold
  <2>3. Typed'
    BY <1>2, DeskTyped, RunForAccountTyped DEF IInv
  <2> QED
    BY <2>1, <2>2, <2>3 DEF IInv
<1>3. CASE Elses
  BY <1>3, ElseTyped, ElseEffect, ElseInHand, OneHoldsKept DEF IInv
<1>4. CASE UNCHANGED vars
  BY <1>4 DEF vars, IInv, Typed, TypeOK, TickAtWork, DeskAtWork, InHand, OneHolds, MayHold
<1> QED
  BY <1>1, <1>2, <1>3, <1>4 DEF Next, Elses

\* At the beginning no bot has an order.
LEMMA InitOrders == Init => \A o \in Slots : order[o].of \notin Bots
<1> SUFFICES ASSUME Init, NEW o \in Slots PROVE order[o].of \notin Bots
  OBVIOUS
<1>1. CASE order = [p \in Slots |-> Free]
  BY <1>1, BotsAssumption DEF Free
<1>2. ASSUME NEW p \in Slots, NEW a \in Accounts,
             order = [[q \in Slots |-> Free] EXCEPT ![p] =
               [Free EXCEPT !.of = "hand", !.acct = a, !.dir = "BUY", !.state = "past", !.deal = "open", !.row = "open"]]
      PROVE  order[o].of \notin Bots
  BY <1>2, BotsAssumption DEF Free
<1> QED
  BY <1>1, <1>2 DEF Init

\* IInv holds at the beginning.
LEMMA InvInit == Init => IInv
<1> SUFFICES ASSUME Init PROVE IInv
  OBVIOUS
<1>1. InHand
  BY DEF Init, InHand, AtRest
<1>2. OneHolds
  BY InitOrders DEF OneHolds
<1> QED
  BY <1>1, <1>2, InitType DEF IInv

\* Every variable has its type, the tick and the desk work on strategies and
\* accounts there are, the order in hand is alone on its account, and of the
\* orders of bots on an account at most one may have a deal.
THEOREM RuntimeInvariant == Spec => []IInv
  BY InvInit, InvStep, PTL DEF Spec

\* A bot whose order has no row stamps no other bot's deal (NoBotTakesAnothers):
\* when the answer is recorded the account has no row but, at most, that of the
\* order in hand itself.
THEOREM NoOtherBotsRow == Spec => []NoBotTakesAnothers
<1>1. IInv => NoBotTakesAnothers
  BY DEF IInv, InHand, NoBotTakesAnothers, At, Rows, On
<1> QED
  BY <1>1, RuntimeInvariant, PTL

-----------------------------------------------------------------------------
\* The deals of bots on an account are one at most.
LEMMA OneBotDeal ==
  ASSUME IInv, NEW a \in Accounts
  PROVE  BotDeals(a) = {} \/ \E o \in Slots : BotDeals(a) = {o}
<1>1. \A o, p \in BotDeals(a) : o \in Slots /\ o = p
  BY DEF IInv, OneHolds, MayHold, Holds, BotDeals, Deals, On
<1> QED
  BY <1>1

Held == [a \in Accounts |-> Cardinality(BotDeals(a))]

\* The deals of one account are others: what OneTrade sees of it.
LEMMA HeldChanges ==
  ASSUME NEW a \in Accounts, \A b \in Accounts \ {a} : BotDeals(b)' = BotDeals(b)
  PROVE  Held' = [Held EXCEPT ![a] = Cardinality(BotDeals(a)')]
<1>1. Held' = [b \in Accounts |-> Cardinality(BotDeals(b)')]
  BY DEF Held
<1>2. \A b \in Accounts \ {a} : Cardinality(BotDeals(b)') = Cardinality(BotDeals(b))
  OBVIOUS
<1>3. Held \in [Accounts -> {Cardinality(BotDeals(b)) : b \in Accounts}]
      /\ \A b \in Accounts : Held[b] = Cardinality(BotDeals(b))
  BY DEF Held
<1> QED
  BY <1>1, <1>2, <1>3

\* A step is a step of OneTrade, or no step of it.
LEMMA TradeStep == IInv /\ [Next]_vars => [Trades!Next]_Held
<1> SUFFICES ASSUME IInv, [Next]_vars PROVE [Trades!Next]_Held
  OBVIOUS
<1>0. IInv'
  BY InvStep
<1>1. CASE AllKept \/ UNCHANGED order
  <2>1. \A a \in Accounts : BotDeals(a)' = BotDeals(a)
    BY <1>1 DEF AllKept, SameDeal, BotDeals, Deals, On
  <2> QED
    BY <2>1 DEF Held
<1>2. ASSUME NEW a \in Accounts \cup {None}, SomeEnd(a) PROVE [Trades!Next]_Held
  <2>1. \A b \in Accounts \ {a} : BotDeals(b)' = BotDeals(b)
    BY <1>2 DEF SomeEnd, SameDeal, BotDeals, Deals, On
  <2>2. a \in Accounts => BotDeals(a)' \subseteq BotDeals(a)
    BY <1>2 DEF SomeEnd, SameDeal, BotDeals, Deals, On
  <2>3. CASE a \notin Accounts \/ BotDeals(a)' = BotDeals(a)
    <3>1. \A b \in Accounts : BotDeals(b)' = BotDeals(b)
      BY <2>1, <2>3
    <3> QED
      BY <3>1 DEF Held
  <2>4. CASE a \in Accounts /\ BotDeals(a)' # BotDeals(a)
    <3>1. PICK o \in Slots : BotDeals(a) = {o}
      BY <2>2, <2>4, OneBotDeal
    <3>2. BotDeals(a)' = {}
      BY <2>2, <2>4, <3>1
    <3>3. Cardinality(BotDeals(a)) = 1 /\ Cardinality(BotDeals(a)') = 0
      BY <3>1, <3>2, FS_EmptySet, FS_Singleton
    <3>4. Held[a] = 1 /\ Held' = [Held EXCEPT ![a] = 0]
      BY <2>1, <2>4, <3>3, HeldChanges DEF Held
    <3>5. Trades!Close(a)
      BY <3>4 DEF Trades!Close, Held
    <3> QED
      BY <2>4, <3>5 DEF Trades!Next
  <2> QED
    BY <2>3, <2>4
<1>3. ASSUME NEW p \in Slots, OneOpens(p) PROVE [Trades!Next]_Held
  <2>0. PICK a : a = order[p].acct
    OBVIOUS
  <2>1. \A b \in Accounts \ {a} : BotDeals(b)' = BotDeals(b)
    BY <1>3, <2>0 DEF OneOpens, BotDeals, Deals, On
  <2>2. p \notin BotDeals(a) /\ BotDeals(a)' \subseteq BotDeals(a) \cup {p}
        /\ BotDeals(a) \subseteq BotDeals(a)'
    BY <1>3, <2>0 DEF OneOpens, BotDeals, Deals, On
  <2>3. CASE a \notin Accounts \/ BotDeals(a)' = BotDeals(a)
    <3>1. \A b \in Accounts : BotDeals(b)' = BotDeals(b)
      BY <2>1, <2>3
    <3> QED
      BY <3>1 DEF Held
  <2>4. CASE a \in Accounts /\ BotDeals(a)' # BotDeals(a)
    <3>1. p \in BotDeals(a)'
      BY <2>2, <2>4
    <3>2. order[p].of \in Bots
      BY <1>3, <3>1 DEF OneOpens, BotDeals
    <3>3. BotDeals(a) = {}
      BY <1>3, <2>0, <2>2, <3>2 DEF OneOpens, IInv, OneHolds, MayHold, Holds, BotDeals, Deals, On
    <3>4. BotDeals(a)' = {p}
      BY <2>2, <3>1, <3>3
    <3>5. Cardinality(BotDeals(a)) = 0 /\ Cardinality(BotDeals(a)') = 1
      BY <3>3, <3>4, FS_EmptySet, FS_Singleton
    <3>6. Held[a] = 0 /\ Held' = [Held EXCEPT ![a] = 1]
      BY <2>1, <2>4, <3>5, HeldChanges DEF Held
    <3>7. Trades!Open(a)
      BY <3>6 DEF Trades!Open, Held
    <3> QED
      BY <2>4, <3>7 DEF Trades!Next
  <2> QED
    BY <2>3, <2>4
<1> QED
  BY <1>1, <1>2, <1>3, InvStep DEF DealsMove

\* On every account the runtime implements OneTrade (OneTradeUntilClose): a bot
\* gets a deal only where no bot has one, whatever is lost, late, restarted or
\* asked at the desk meanwhile.
THEOREM RuntimeImplementsOneTrade == Spec => OneTradeUntilClose
<1>1. Init => Trades!Init
  <2> SUFFICES ASSUME Init PROVE Trades!Init
    OBVIOUS
  <2>1. \A a \in Accounts : BotDeals(a) = {}
    BY InitOrders DEF BotDeals, Deals, On
  <2> QED
    BY <2>1, FS_EmptySet DEF Trades!Init
<1>2. IInv /\ [Next]_vars => [Trades!Next]_[a \in Accounts |-> Cardinality(BotDeals(a))]
  BY TradeStep DEF Held
<1> QED
  BY <1>1, <1>2, RuntimeInvariant, PTL DEF Spec, OneTradeUntilClose, Trades!Spec
=============================================================================
