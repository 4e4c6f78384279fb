--------------------------- MODULE SignalCases ---------------------------
(***************************************************************************)
(* The signals of Signals over the readings that differ in at most two     *)
(* indicators from one on which a mode buys, or from one on which nothing  *)
(* speaks, beside the stop levels of StopLevelCases.  A state is one       *)
(* input and nothing moves.                                                *)
(***************************************************************************)
EXTENDS StopLevelCases, Signals, EntryPlan

VARIABLES
  mode, reading, held, candles,  \* the input of a signal
  bars,                          \* the bars and the live price it is read from
  order                          \* the input of an entry's plan

caseVars == <<dir, entry, quote, dist, min, existing, mode, reading, held, candles, bars, order>>

NoReading == [price |-> 0]
NoBars == [forming |-> FALSE]
NoOrder == [raw |-> 0]

\* A market that does not move.
Neutral ==
  [price |-> 0, open |-> 0, high |-> 2, low |-> -2, prevHigh |-> 2, prevLow |-> -2,
   ema1 |-> 0, ema3 |-> 0, ema1Prev |-> 0, ema3Prev |-> 0, ema1Prev2 |-> 0, ema3Prev2 |-> 0,
   ema9 |-> 0, ema21 |-> 0, ema55 |-> 0, ema200 |-> 0,
   ema9Slope |-> 0, ema21Slope |-> 0, ema200Slope |-> 0, rsi |-> 50, rsiPrev |-> 50,
   atr |-> 20, atrSlow |-> 20, atrPrev3 |-> 20, atrAvg14 |-> 20,
   macd |-> 0, macdSignal |-> 0, macdHist |-> 0, macdHistPrev |-> 0, macdHistPrev2 |-> 0,
   bbMid |-> 0, bbUpper |-> 20, bbLower |-> -20, bbWidth |-> 10, bbWidthAvg |-> 10,
   bbWidthCompressed |-> FALSE, lastRange |-> 10, avgVolRange |-> 10,
   adx |-> 20, adxPrev2 |-> 20, plusDi |-> 20, minusDi |-> 20,
   stochK |-> 50, stochD |-> 50, stochKPrev |-> 50, pctB |-> 50,
   gapUpAtr |-> 0, gapDownAtr |-> 0, sessionHigh |-> 9, sessionLow |-> -9, vwapProxy |-> 0,
   rejectionBull |-> FALSE, rejectionBear |-> FALSE, bullDiv |-> FALSE, bearDiv |-> FALSE,
   hasVolumeData |-> FALSE, volumeOk |-> FALSE, volumeStrong |-> FALSE]

Flags == {"bbWidthCompressed", "rejectionBull", "rejectionBear", "bullDiv", "bearDiv",
          "hasVolumeData", "volumeOk", "volumeStrong"}

\* The same market turned upside down.
Mirrored(i) ==
  [i EXCEPT
    !.price = -i.price, !.open = -i.open, !.high = -i.low, !.low = -i.high,
    !.prevHigh = -i.prevLow, !.prevLow = -i.prevHigh, !.ema1 = -i.ema1, !.ema3 = -i.ema3,
    !.ema1Prev = -i.ema1Prev, !.ema3Prev = -i.ema3Prev, !.ema1Prev2 = -i.ema1Prev2,
    !.ema3Prev2 = -i.ema3Prev2, !.ema9 = -i.ema9, !.ema21 = -i.ema21, !.ema55 = -i.ema55,
    !.ema200 = -i.ema200, !.ema9Slope = -i.ema9Slope, !.ema21Slope = -i.ema21Slope,
    !.ema200Slope = -i.ema200Slope, !.rsi = 100 - i.rsi, !.rsiPrev = 100 - i.rsiPrev,
    !.macd = -i.macd, !.macdSignal = -i.macdSignal, !.macdHist = -i.macdHist,
    !.macdHistPrev = -i.macdHistPrev, !.macdHistPrev2 = -i.macdHistPrev2,
    !.bbMid = -i.bbMid, !.bbUpper = -i.bbLower, !.bbLower = -i.bbUpper,
    !.plusDi = i.minusDi, !.minusDi = i.plusDi, !.stochK = 100 - i.stochK,
    !.stochD = 100 - i.stochD, !.stochKPrev = 100 - i.stochKPrev, !.pctB = 100 - i.pctB,
    !.gapUpAtr = i.gapDownAtr, !.gapDownAtr = i.gapUpAtr,
    !.sessionHigh = -i.sessionLow, !.sessionLow = -i.sessionHigh, !.vwapProxy = -i.vwapProxy,
    !.rejectionBull = i.rejectionBear, !.rejectionBear = i.rejectionBull,
    !.bullDiv = i.bearDiv, !.bearDiv = i.bullDiv]

\* A rising market, a dip in one, and one below its range.
Rising == [Neutral EXCEPT !.ema9 = 9, !.ema21 = 5, !.ema55 = 2, !.ema9Slope = 1,
             !.ema21Slope = 1, !.ema200Slope = 1, !.plusDi = 25, !.adx = 30, !.macdHist = 3,
             !.macdHistPrev = 2, !.macdHistPrev2 = 1, !.macd = 1, !.stochK = 60,
             !.rsi = 60, !.rsiPrev = 59, !.price = 10]
Fallen == [Neutral EXCEPT !.price = -21, !.bbLower = -20, !.rsi = 30, !.stochK = 20,
             !.stochKPrev = 19, !.pctB = 5, !.adx = 18, !.adxPrev2 = 19, !.macdHist = 1,
             !.bullDiv = TRUE, !.ema200Slope = 1]

\* A reading on which the mode buys.
Bought(m) ==
  CASE m = "MOMENTUM" -> [Rising EXCEPT !.lastRange = 12]
    [] m = "PULLBACK" -> [Rising EXCEPT !.price = 4, !.rsi = 45, !.stochKPrev = 50]
    [] m = "BREAKOUT" -> [Rising EXCEPT !.price = 21, !.bbWidthCompressed = TRUE,
                            !.lastRange = 13, !.atrPrev3 = 19]
    [] m = "EMA_TICK_SCALP" -> [Neutral EXCEPT !.price = 2, !.ema1 = 2, !.ema3 = 0,
                            !.ema1Prev = -1, !.ema1Prev2 = -1]
    [] m \in {"MEAN_REVERSION", "REVERSAL", "DCA"} -> Fallen
    [] m \in {"RANGE", "ARBITRAGE_SIM", "GRID"} -> [Fallen EXCEPT !.price = -18]
    [] m = "MARKET_MAKING_SIM" -> [Fallen EXCEPT !.price = -15]
    [] m = "NEWS" -> [Rising EXCEPT !.atr = 24, !.atrPrev3 = 23, !.gapUpAtr = 25]
    [] m = "CUSTOM" -> [Rising EXCEPT !.price = 13]
    [] OTHER -> Rising

\* The indicators that most modes read.
Leading == {"price", "open", "ema1", "ema1Prev", "ema3", "ema9", "ema21", "macdHist", "rsi",
            "adx", "plusDi", "stochK", "atr"}

With(i, f, x, g, y) == [i EXCEPT ![f] = x, ![g] = y]

\* The readings that differ from i in at most two indicators, one of them leading.
Nearby(i) ==
  LET values(f) == IF f \in Flags THEN BOOLEAN
                   ELSE {i[f] - 1, i[f], i[f] + 1, Mirrored(i)[f]}
  IN  UNION {{With(i, f, x, g, y) : x \in values(f), y \in values(g)} :
               f \in DOMAIN i, g \in Leading}

Holds == {Held(rows, p) : rows \in SUBSET {[dir |-> "BUY"], [dir |-> "SELL"]},
                          p \in {"above", "below", "none"}}

Candles == {[green |-> 3, red |-> 2, net |-> 9, count |-> 60],
            [green |-> 2, red |-> 2, net |-> -1, count |-> 60],
            [green |-> 4, red |-> 1, net |-> -13, count |-> 60],
            [green |-> 4, red |-> 1, net |-> 1, count |-> 57]}

\* Closes of four bars, in sixteenths so that their averages are whole.
Series == [1..4 -> {-32, 0, 32}]
Mids == {-48, -16, 0, 16, 48}

Live(b) == LiveReading("EMA_TICK_SCALP", Averages(Neutral, b.closes), b.closes, b.forming, b.mid)

\* An entry on an instrument of the price level 20.00, with pips of ten ticks: what
\* the strategy asks for, what the market says, and the rules of a market whose
\* limits are whole in its steps.
Settings ==
  [stop : {NotSet, 5, 30}, target : {NotSet, 5, 30}, atrStop : {10}, atrTarget : {22},
   tenSeconds : BOOLEAN, targetOn : {TRUE}, multi : BOOLEAN, count : {2, 3}, volume : {1, 2, 7},
   breakEvenOn : {TRUE}, breakEven : {0, 5, 30}, offset : {0, 10}, trailOn : {TRUE}, trail : {5, 30}]
Markets ==
  [entry : {2000}, atr : {30, 300}, ema3 : {1900, 1990, 2050}, prevLow : {1950, 1995},
   prevHigh : {2005, 2060}]
Rules ==
  {DealRules(kind, [least |-> l, most |-> x, step |-> s, lot |-> lot]) :
     kind \in {"index", "metal"}, l \in {NoSize, 1, 10, 20, 1000}, x \in {NoSize, 500, 5000},
     s \in {NoSize, 1, 5, 10, 100}, lot \in {1, 5, 1000}}

\* The parts of an order that have nothing to do with each other vary by
\* themselves.
BlankOrder ==
  [mode |-> "TREND", dir |-> "BUY", fill |-> 2000, mark |-> 2000, filled |-> 7,
   c |-> [stop |-> NotSet, target |-> NotSet, atrStop |-> 10, atrTarget |-> 22,
          tenSeconds |-> FALSE, targetOn |-> TRUE, multi |-> TRUE, count |-> 3, volume |-> 7,
          breakEvenOn |-> TRUE, breakEven |-> 30, offset |-> 10, trailOn |-> TRUE, trail |-> 30],
   k |-> [entry |-> 2000, atr |-> 30, ema3 |-> 1990, prevLow |-> 1995, prevHigh |-> 2005],
   rules |-> FallbackRules("index"), raw |-> 10]

PlanOrder(m, d, k, f, x, s) ==
  [BlankOrder EXCEPT !.mode = m, !.dir = d, !.k = k, !.fill = f, !.mark = x, !.c.stop = s,
                     !.c.breakEven = 5]
TargetOrder(d, a, f, c) == [BlankOrder EXCEPT !.dir = d, !.k.atr = a, !.filled = f, !.c = c]
SizeOrder(r, v) == [BlankOrder EXCEPT !.rules = r, !.raw = v]

PlanOrders ==
  {PlanOrder(m, d, k, f, x, s) :
     m \in {"SCALPING", "EMA_TICK_SCALP", "TREND"}, d \in Directions, k \in Markets,
     f \in {1985, 2000, 2010}, x \in {1700, 1900, 1960, 2000, 2040, 2300},
     s \in {NotSet, 5, 30}}
TargetOrders ==
  {TargetOrder(d, a, f, c) : d \in Directions, a \in {30, 300}, f \in {1, 2, 7}, c \in Settings}
SizeOrders ==
  {SizeOrder(r, v) : r \in Rules, v \in {0, 1, 7, 10, 54, 499, 501, 1001}}

\* Either the input of a stop level, or that of a signal, or that of a plan.
CasesInit ==
  \/ /\ AnyLevels
     /\ mode = "OTHER" /\ reading = NoReading /\ bars = NoBars /\ order = NoOrder
     /\ held = Held({}, "none") /\ candles = CHOOSE c \in Candles : c.net = 9
  \/ /\ dir = "BUY" /\ entry = 2 * MaxDist /\ quote = 2 * MaxDist /\ dist = 0
     /\ min = 1 /\ existing = NoStop
     /\ \/ /\ mode \in Modes
           /\ \E i \in {Neutral, Bought(mode)} : reading \in Nearby(i)
           /\ held \in {h \in Holds :
                /\ mode \notin {"EMA_TICK_SCALP", "DCA", "ARBITRAGE_SIM", "MARKET_MAKING_SIM"}
                     => ~h.openBuy /\ ~h.openSell
                /\ mode # "EMA_TICK_SCALP" => h.prevSide = "none"}
           /\ candles \in {c \in Candles : mode # "SCALPING" => c.net = 9}
           /\ bars = NoBars /\ order = NoOrder
        \/ /\ mode = "EMA_TICK_SCALP" /\ candles = CHOOSE c \in Candles : c.net = 9
           /\ bars \in [closes : Series, forming : BOOLEAN, mid : Mids]
           /\ reading = Live(bars)
           /\ held \in {h \in Holds : ~h.openBuy /\ ~h.openSell}
           /\ order = NoOrder
        \/ /\ mode = "OTHER" /\ reading = NoReading /\ bars = NoBars
           /\ held = Held({}, "none") /\ candles = CHOOSE c \in Candles : c.net = 9
           /\ order \in PlanOrders \cup TargetOrders \cup SizeOrders

CasesSpec == CasesInit /\ [][UNCHANGED caseVars]_caseVars

------------------------------------------------------------------------

OtherSide(s) == CASE s = "BUY" -> "SELL" [] s = "SELL" -> "BUY" [] OTHER -> s
OtherHold == [held EXCEPT !.openBuy = held.openSell, !.openSell = held.openBuy,
               !.prevSide = CASE @ = "above" -> "below" [] @ = "below" -> "above" [] OTHER -> @]
OtherCandles == [candles EXCEPT !.green = candles.red, !.red = candles.green, !.net = -@]
\* Ties the code gives to one side.
Tied == \/ mode = "EMA_TICK_SCALP" /\ (reading.price = reading.ema3 \/ (held.openBuy /\ held.openSell))
        \/ mode = "SCALPING" /\ (\/ reading.price = reading.ema9
                                 \/ ScalpBuy(reading) = ScalpSell(reading))

\* A plan turned upside down at the price of the entry.
PlanOf(d, o) ==
  LET at(price) == Favorable(d, o.k.entry, price)
      levels == Targets(o.mode, d, o.c, o.k)
  IN  [stop |-> at(PlannedStop(o.mode, d, o.c, o.k)), dist |-> StopDistance(o.mode, d, o.c, o.k),
       targets |-> [i \in DOMAIN levels |-> [levels[i] EXCEPT !.price = at(@)]],
       breakEven |-> BreakEven(o.mode, d, o.c, o.k), trailing |-> Trailing(o.mode, o.c)]
MirroredMarket(k) ==
  [k EXCEPT !.ema3 = 2 * k.entry - @, !.prevLow = 2 * k.entry - k.prevHigh,
            !.prevHigh = 2 * k.entry - k.prevLow]

\* Every mode is written out twice, for buying and for selling (430-1283), and so
\* is every level of an entry (1183-1312 of strategy-runtime.service.ts): on the
\* mirrored market a mode decides the mirrored thing, ties apart, and the entry
\* has the mirrored plan.
SignalsMirror ==
  /\ reading # NoReading /\ ~Tied =>
       Decision(mode, TRUE, Mirrored(reading), OtherHold, OtherCandles, OtherCandles)
         = OtherSide(Decision(mode, TRUE, reading, held, candles, candles))
  /\ order # NoOrder =>
       PlanOf(Flip(order.dir), [order EXCEPT !.k = MirroredMarket(@)]) = PlanOf(order.dir, order)

\* What EMA_TICK_SCALP buys on a tick it does not sell on a later tick of the same
\* bar at that price or above: neither the cross that let it in nor the side it
\* has remembered lets it out (646-705), unless the last bar had crossed the
\* other way.
EntryIsNoExit ==
  LET long == Held({[dir |-> "BUY"]}, Side(reading))
  IN  bars # NoBars /\ ~ClosedDown(reading) /\ Signal(mode, reading, held) = "BUY" =>
        \A mid \in Mids : mid >= bars.mid =>
          Signal(mode, Live([bars EXCEPT !.mid = mid]), long) # "CLOSE"

------------------------------------------------------------------------
(* What the runtime counts on when it sends a plan.                      *)

\* The stop is as far from the entry as break-even and the attempts after the
\* fill take it to be, and the broker takes it at the entry price.
StopPlaced(o) ==
  LET stop == PlannedStop(o.mode, o.dir, o.c, o.k)
  IN  /\ Favorable(o.dir, stop, o.k.entry) = StopDistance(o.mode, o.dir, o.c, o.k)
      /\ ValidVsMark(o.dir, stop, LeastStop, o.k.entry)

\* Of the stops tried after the fill one is legal as long as the loss is not one
\* and a half times the distance that was planned.
StopAttached(o) ==
  LET stop(attempt) == AttachStop(o.mode, o.dir, o.c, o.k, o.fill, o.mark, attempt)
  IN  2 * Favorable(o.dir, o.mark, o.fill) <= 3 * StopDistance(o.mode, o.dir, o.c, o.k) =>
        \E attempt \in Attempts : ValidVsMark(o.dir, stop(attempt), LeastStop, o.mark)

\* The targets follow one another in profit and share out the whole volume, and
\* the last one of the row is the one the broker has, whatever was filled.
TargetsShareOut(o) ==
  LET levels == Targets(o.mode, o.dir, o.c, o.k)
      kept == RowTargets(o.mode, o.dir, o.c, o.k, o.filled)
      at(t) == Favorable(o.dir, o.k.entry, t.price)
      shared(ts) == SumFunction([i \in DOMAIN ts |-> ts[i].volume])
  IN  /\ levels # <<>> => at(Head(levels)) > 0 /\ shared(levels) = o.c.volume
      /\ kept # <<>> => /\ shared(kept) = o.filled
                        /\ Last(kept).price = Last(levels).price
      /\ \A ts \in {levels, kept} : \A i \in 2..Len(ts) : at(ts[i]) > at(ts[i - 1])

\* The size sent is within the market's limits and whole in its steps, less than a
\* step above what was asked, and asked for again it stays what it is.
SizeTaken(o) ==
  LET size == DealSize(o.raw, o.rules)
  IN  /\ size \in o.rules.least..o.rules.most
      /\ size \in {o.rules.least, o.rules.most} \/ size % o.rules.step = 0
      /\ o.raw \in 1..o.rules.most => size >= o.raw
      /\ size < MaxOf(o.raw, o.rules.least) + o.rules.step
      /\ DealSize(size, o.rules) = size

\* What tickStrategy sends with an entry the broker can take, and the row that is
\* written after the fill agrees with it (1192-1312, 1496-1620).
PlanIsTradable ==
  order # NoOrder =>
    StopPlaced(order) /\ StopAttached(order) /\ TargetsShareOut(order) /\ SizeTaken(order)
=============================================================================
