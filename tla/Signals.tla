----------------------------- MODULE Signals -----------------------------
(***************************************************************************)
(* evaluateStrategyMode of strategy-engine.ts: the entry and exit rules of *)
(* the strategy modes, as functions of one reading i of the indicators and *)
(* of what is open, o.  Prices are counted from a level of the market, so  *)
(* that a tolerance the code takes as a share of the price is a distance;  *)
(* the factors of the code are kept as hundredths.  PROTECTIVE_GATES_OFF   *)
(* is true in the code: the session, range and score gates it switches off *)
(* are left out, and so are the texts that name the gate of a result.      *)
(***************************************************************************)
EXTENDS Integers, SequencesExt

CONSTANTS
  Tolerance,  \* 0.2 % of the price, by which ema55 may miss ema200
  LeastAtr    \* the range below which a spread would eat the profit

ASSUME SignalsAssumption == Tolerance \in Nat /\ LeastAtr \in Nat

Modes == {"TREND", "MOMENTUM", "PULLBACK", "BREAKOUT", "SCALPING", "EMA_TICK_SCALP",
          "MEAN_REVERSION", "REVERSAL", "RANGE", "CUSTOM", "GRID", "DCA", "NEWS",
          "SESSION", "ARBITRAGE_SIM", "MARKET_MAKING_SIM", "OTHER"}

Gap(a, b) == IF a >= b THEN a - b ELSE b - a
Larger(a, b) == IF a >= b THEN a ELSE b
Capped(points) == IF points > 100 THEN 100 ELSE points
\* pass(): the points of a side whose condition holds.
Points(ok, points) == IF ok THEN points ELSE 0

\* What a mode finds: points for each side, an exit, or a wait that no later
\* rule may turn into an entry.
Votes(b, s) == [buy |-> b, sell |-> s, exit |-> FALSE, wait |-> FALSE]
Exit == [Votes(0, 0) EXCEPT !.exit = TRUE]
Wait(b, s) == [Votes(b, s) EXCEPT !.wait = TRUE]

------------------------------------------------------------------------
(* What several modes ask of a reading.                                  *)

BullStack(i) == i.ema9 > i.ema21 /\ i.ema21 > i.ema55 /\ i.ema55 >= i.ema200 - Tolerance
BearStack(i) == i.ema9 < i.ema21 /\ i.ema21 < i.ema55 /\ i.ema55 <= i.ema200 + Tolerance
AdxRising(i) == i.adx > i.adxPrev2
AdxFalling(i) == i.adx < i.adxPrev2
HistUp2(i) == i.macdHist > i.macdHistPrev /\ i.macdHistPrev > i.macdHistPrev2
HistDown2(i) == i.macdHist < i.macdHistPrev /\ i.macdHistPrev < i.macdHistPrev2
AtrRising(i) == i.atr > i.atrPrev3
AtrStable(i) == i.atrAvg14 > 0 /\ 100 * Gap(i.atr, i.atrAvg14) <= 15 * i.atrAvg14
\* atrRatio >= n hundredths; a missing slow range counts as the ratio 1.
RatioAtLeast(i, n) == IF i.atrSlow > 0 THEN 100 * i.atr >= n * i.atrSlow ELSE 100 >= n
RatioAbove3(i) == i.atrSlow > 0 /\ i.atr > 3 * i.atrSlow
MidRange(i) ==
  i.bbUpper > i.bbLower /\ 10 * Gap(i.price, i.bbMid) < 3 * (i.bbUpper - i.bbLower)
NoBreakout(i) ==
  i.price > i.bbLower /\ i.price < i.bbUpper /\ 10 * i.bbWidth <= 11 * i.bbWidthAvg
\* Half the range or a quarter of the band, in quarters.
GridStep(i) == Larger(2 * i.atr, i.bbUpper - i.bbLower)
NearGridLower(i) == 400 * (i.price - i.bbMid) <= -85 * GridStep(i)
NearGridUpper(i) == 400 * (i.price - i.bbMid) >= 85 * GridStep(i)
RangeSupport(i) == 100 * (i.price - i.bbLower) <= 15 * (i.bbUpper - i.bbLower)
RangeResist(i) == 100 * (i.bbUpper - i.price) <= 15 * (i.bbUpper - i.bbLower)
SpreadOk(i) == i.atr >= LeastAtr

------------------------------------------------------------------------
(* The readings of the modes that follow the live price.                 *)

LiveModes == {"SCALPING", "EMA_TICK_SCALP"}

\* ema over three bars, seeded with the first: each bar weighs half of what is left.
Ema3(closes) ==
  LET average[n \in 1..Len(closes)] ==
        IF n = 1 THEN closes[1] ELSE (average[n - 1] + closes[n]) \div 2
  IN  average[Len(closes)]

\* computeIndicators, of the averages that EMA_TICK_SCALP reads: those of the last
\* bar, of the series without it and of the series without the last two.
Averages(i, closes) ==
  LET before == Front(closes)
      two == Front(before)
  IN  [i EXCEPT !.price = Last(closes), !.ema1 = Last(closes), !.ema3 = Ema3(closes),
                !.ema1Prev = Last(before), !.ema3Prev = Ema3(before),
                !.ema1Prev2 = Last(two), !.ema3Prev2 = Ema3(two)]

\* closesWithLiveClose0: the live price replaces the close of a bar that is still
\* forming and follows that of a bar that is over.
LiveCloses(closes, forming, mid) == Append(IF forming THEN Front(closes) ELSE closes, mid)

\* applyEmaTickLivePrice: the averages of the bars before stay as they are.
LiveReading(mode, i, closes, forming, mid) ==
  CASE mode = "EMA_TICK_SCALP" ->
         [i EXCEPT !.price = mid, !.ema1 = mid, !.ema3 = Ema3(LiveCloses(closes, forming, mid))]
    [] mode = "SCALPING" -> [i EXCEPT !.price = mid]
    [] OTHER -> i

\* Enough bars, and a range: on ten-second bars the modes that do not follow the
\* live price read those of a minute.
Ready(mode, tenSeconds, i, candles, minute) ==
  LET read == IF tenSeconds /\ mode \notin LiveModes THEN minute ELSE candles
  IN  candles.count >= 55 /\ read.count >= 60 /\ i.atr > 0

\* What is open for a strategy: the open rows of its symbol on all its accounts.
Held(rows, prevSide) ==
  [openBuy |-> \E r \in rows : r.dir = "BUY", openSell |-> \E r \in rows : r.dir = "SELL",
   prevSide |-> prevSide, minScore |-> 0]

------------------------------------------------------------------------
(* The modes.                                                            *)

Trend(i) ==
  Votes(Points(/\ BullStack(i) /\ i.ema21Slope > 0 /\ i.ema200Slope >= 0
               /\ i.price >= i.ema21 /\ 100 * (i.price - i.ema21) <= 85 * i.atr
               /\ i.adx > 28 /\ AdxRising(i) /\ i.plusDi > i.minusDi
               /\ i.rsi \in 52..65 /\ i.rsi > i.rsiPrev
               /\ HistUp2(i) /\ i.macdHist > 0, 60),
        Points(/\ BearStack(i) /\ i.ema21Slope < 0 /\ i.ema200Slope <= 0
               /\ i.price <= i.ema21 /\ 100 * (i.ema21 - i.price) <= 85 * i.atr
               /\ i.adx > 28 /\ AdxRising(i) /\ i.minusDi > i.plusDi
               /\ i.rsi \in 35..48 /\ i.rsi < i.rsiPrev
               /\ HistDown2(i) /\ i.macdHist < 0, 60))

Momentum(i) ==
  LET expands == 100 * i.lastRange > 115 * i.avgVolRange
  IN  Votes(Points(/\ i.plusDi > i.minusDi /\ i.adx > 28 /\ AdxRising(i)
                   /\ i.macd > i.macdSignal /\ i.macdHist > i.macdHistPrev
                   /\ i.rsi \in 58..72 /\ i.rsi > i.rsiPrev
                   /\ i.price > i.ema9 /\ i.ema9 > i.ema21
                   /\ i.price > i.prevHigh /\ expands, 60),
            Points(/\ i.minusDi > i.plusDi /\ i.adx > 28 /\ AdxRising(i)
                   /\ i.macd < i.macdSignal /\ i.macdHist < i.macdHistPrev
                   /\ i.rsi \in 28..42 /\ i.rsi < i.rsiPrev
                   /\ i.price < i.ema9 /\ i.ema9 < i.ema21
                   /\ i.price < i.prevLow /\ expands, 60))

Pullback(i) ==
  LET turnsUp == i.rejectionBull \/ (i.stochK > i.stochD /\ i.stochKPrev <= i.stochD)
      turnsDown == i.rejectionBear \/ (i.stochK < i.stochD /\ i.stochKPrev >= i.stochD)
  IN  Votes(Points(/\ BullStack(i) /\ i.ema21Slope > 0
                   /\ i.price <= i.ema21 /\ i.price > i.ema55 /\ turnsUp
                   /\ i.rsi \in 38..52 /\ i.macdHist > i.macdHistPrev
                   /\ i.plusDi > i.minusDi, 60),
            Points(/\ BearStack(i) /\ i.ema21Slope < 0
                   /\ i.price >= i.ema21 /\ i.price < i.ema55 /\ turnsDown
                   /\ i.rsi \in 48..62 /\ i.macdHist < i.macdHistPrev
                   /\ i.minusDi > i.plusDi, 60))

Breakout(i) ==
  LET wakes == /\ i.bbWidthCompressed /\ 10 * i.lastRange > 12 * i.avgVolRange
               /\ AtrRising(i) /\ i.adx > 25
  IN  Votes(Points(/\ i.price > i.bbUpper /\ wakes /\ i.plusDi > i.minusDi
                   /\ i.rsi \in 54..70 /\ i.macdHist > i.macdHistPrev
                   /\ i.price <= i.ema21 + 2 * i.atr, 60),
            Points(/\ i.price < i.bbLower /\ wakes /\ i.minusDi > i.plusDi
                   /\ i.rsi \in 30..46 /\ i.macdHist < i.macdHistPrev
                   /\ i.price >= i.ema21 - 2 * i.atr, 60))

ScalpBuy(i) ==
  Points(i.ema9 > i.ema21, 18) + Points(i.ema9Slope > 0, 14) + Points(i.price >= i.ema9, 12)
    + Points(i.macdHist > 0, 14) + Points(i.macdHist > i.macdHistPrev, 8)
    + Points(i.stochK > i.stochD, 10) + Points(i.plusDi > i.minusDi, 10)
    + Points(i.rsi \in 42..75, 8) + Points(2 * i.price > i.high + i.low, 10)
    + Points(i.price > i.open, 12)
ScalpSell(i) ==
  Points(i.ema9 < i.ema21, 18) + Points(i.ema9Slope < 0, 14) + Points(i.price < i.ema9, 12)
    + Points(i.macdHist < 0, 14) + Points(i.macdHist < i.macdHistPrev, 8)
    + Points(i.stochK < i.stochD, 10) + Points(i.minusDi > i.plusDi, 10)
    + Points(i.rsi \in 25..58, 8) + Points(2 * i.price < i.high + i.low, 10)
    + Points(i.price < i.open, 12)

\* Ties go to the buying side twice: a price on ema9, and equal points.
Scalping(i) ==
  LET buys == ScalpBuy(i) >= ScalpSell(i)
  IN  Votes(Capped(ScalpBuy(i) + Points(i.adx >= 12 /\ buys, 6)),
            Capped(ScalpSell(i) + Points(i.adx >= 12 /\ ~buys, 6)))

Side(i) == IF i.price >= i.ema3 THEN "above" ELSE "below"
StructUp(i) == i.ema1Prev <= i.ema3Prev /\ i.ema1 > i.ema3
StructDown(i) == i.ema1Prev >= i.ema3Prev /\ i.ema1 < i.ema3
ClosedUp(i) == i.ema1Prev2 <= i.ema3Prev2 /\ i.ema1Prev > i.ema3Prev
ClosedDown(i) == i.ema1Prev2 >= i.ema3Prev2 /\ i.ema1Prev < i.ema3Prev

\* Mutant of EmaTickExit: the two branches of the exit are swapped.
EmaTickExitSwapped(i, o) ==
  IF o.openSell
  THEN StructDown(i) \/ ClosedDown(i) \/ (o.prevSide = "above" /\ Side(i) = "below")
  ELSE StructUp(i) \/ ClosedUp(i) \/ (o.prevSide = "below" /\ Side(i) = "above")

EmaTickExit(i, o) ==
  IF o.openBuy
  THEN StructDown(i) \/ ClosedDown(i) \/ (o.prevSide = "above" /\ Side(i) = "below")
  ELSE StructUp(i) \/ ClosedUp(i) \/ (o.prevSide = "below" /\ Side(i) = "above")

EmaTickScalp(i, o) ==
  LET diverging == Gap(i.ema1, i.ema3) > Gap(i.ema1Prev, i.ema3Prev)
      up == (StructUp(i) \/ ClosedUp(i)) /\ diverging /\ i.price > i.ema3
      down == (StructDown(i) \/ ClosedDown(i)) /\ diverging /\ i.price < i.ema3
  IN  IF o.openBuy \/ o.openSell
      THEN IF EmaTickExit(i, o) THEN Exit ELSE Wait(0, 0)
      ELSE Votes(Points(up, 100), Points(down, 100))

MeanReversion(i) ==
  Votes(Points(/\ i.adx <= 24 /\ i.price <= i.bbLower /\ i.rsi < 36
               /\ i.stochK < 28 /\ i.stochK > i.stochKPrev /\ i.pctB <= 8, 58),
        Points(/\ i.adx <= 24 /\ i.price >= i.bbUpper /\ i.rsi > 64
               /\ i.stochK > 72 /\ i.stochK < i.stochKPrev /\ i.pctB >= 92, 58))

Reversal(i) ==
  LET tired == AdxFalling(i) \/ i.adx < 28
  IN  Votes(Points(/\ i.price < i.bbLower /\ i.rsi < 32 /\ i.stochK < 22
                   /\ i.macdHist > i.macdHistPrev
                   /\ i.bullDiv \/ i.rejectionBull
                   /\ tired, 58),
            Points(/\ i.price > i.bbUpper /\ i.rsi > 68 /\ i.stochK > 78
                   /\ i.macdHist < i.macdHistPrev
                   /\ i.bearDiv \/ i.rejectionBear
                   /\ tired, 58))

RangeMode(i) ==
  LET quiet == /\ i.adx <= 22 /\ 10 * i.bbWidth <= 12 * i.bbWidthAvg
               /\ 100 * Gap(i.ema21Slope, 0) <= 8 * i.atr
  IN  Votes(Points(/\ quiet /\ RangeSupport(i) /\ i.rsi < 42
                   /\ i.stochK < 35 /\ i.stochK > i.stochKPrev, 58),
            Points(/\ quiet /\ RangeResist(i) /\ i.rsi > 58
                   /\ i.stochK > 65 /\ i.stochK < i.stochKPrev, 58))

\* A side is taken only with the least score and by more than ten points.
Clear(b, s, least) == IF (b >= least /\ b > s + 10) \/ (s >= least /\ s > b + 10)
                      THEN Votes(b, s) ELSE Wait(b, s)

Custom(i, o) ==
  LET strong == Points(i.adx > 25, 8)
      b == Capped(Points(BullStack(i), 18) + Points(i.ema21Slope > 0, 10)
             + Points(i.plusDi > i.minusDi, 12)
             + Points(i.macdHist > 0 /\ i.macdHist >= i.macdHistPrev, 12)
             + Points(i.rsi > 55, 10) + strong + Points(i.price >= i.ema21, 8))
      s == Capped(Points(BearStack(i), 18) + Points(i.ema21Slope < 0, 10)
             + Points(i.minusDi > i.plusDi, 12)
             + Points(i.macdHist < 0 /\ i.macdHist <= i.macdHistPrev, 12)
             + Points(i.rsi < 45, 10) + strong + Points(i.price <= i.ema21, 8))
  IN  IF ~RatioAtLeast(i, 45) \/ RatioAbove3(i) \/ MidRange(i)
      THEN Wait(b, s) ELSE Clear(b, s, o.minScore)

OtherMode(i) ==
  Clear(Points(BullStack(i), 18) + Points(i.plusDi > i.minusDi, 12) + Points(i.macdHist > 0, 12),
        Points(BearStack(i), 18) + Points(i.minusDi > i.plusDi, 12) + Points(i.macdHist < 0, 12),
        55)

Grid(i) ==
  LET quiet == i.adx <= 22 /\ AtrStable(i) /\ NoBreakout(i)
      b == Points(quiet /\ NearGridLower(i) /\ (i.price <= i.bbLower \/ i.rsi < 40), 58)
      s == Points(quiet /\ NearGridUpper(i) /\ (i.price >= i.bbUpper \/ i.rsi > 60), 58)
  IN  IF MidRange(i) /\ ~NearGridLower(i) /\ ~NearGridUpper(i) THEN Wait(b, s) ELSE Votes(b, s)

Dca(i, o) ==
  IF \/ o.openBuy /\ i.rsi > 70 /\ i.price > i.bbUpper /\ i.price > i.ema21 + 2 * i.atr
     \/ o.openSell /\ i.rsi < 30 /\ i.price < i.bbLower /\ i.price < i.ema21 - 2 * i.atr
  THEN Exit
  ELSE Votes(Points(/\ i.ema200Slope > 0 /\ i.price < i.ema21 /\ i.price < i.ema55
                    /\ i.rsi < 40 /\ i.price < i.vwapProxy /\ i.adx < 35, 58),
             Points(/\ i.ema200Slope < 0 /\ i.price > i.ema21 /\ i.price > i.ema55
                    /\ i.rsi > 60 /\ i.price > i.vwapProxy /\ i.adx < 35, 58))

News(i) ==
  LET wide == 10 * i.lastRange > 16 * i.avgVolRange
      awake == RatioAtLeast(i, 120) /\ AtrRising(i)
      volume == IF i.hasVolumeData THEN i.volumeStrong ELSE AtrRising(i) /\ RatioAtLeast(i, 115)
  IN  Votes(Points(/\ (i.gapUpAtr >= 25 \/ wide) /\ awake /\ volume
                   /\ i.adx > 22 /\ i.plusDi > i.minusDi
                   /\ i.macdHist > 0 /\ i.macdHist >= i.macdHistPrev
                   /\ i.rsi \in 55..78, 65),
            Points(/\ (i.gapDownAtr >= 25 \/ wide) /\ awake /\ volume
                   /\ i.adx > 22 /\ i.minusDi > i.plusDi
                   /\ i.macdHist < 0 /\ i.macdHist <= i.macdHistPrev
                   /\ i.rsi \in 22..45, 65))

Session(i) ==
  LET volume == i.hasVolumeData => i.volumeOk
  IN  Votes(Points(/\ volume /\ i.price > i.sessionHigh /\ i.open <= i.sessionHigh
                   /\ i.ema9 > i.ema21 /\ i.plusDi > i.minusDi
                   /\ i.adx > 24 /\ AdxRising(i) /\ i.rsi \in 52..70, 60),
            Points(/\ volume /\ i.price < i.sessionLow /\ i.open >= i.sessionLow
                   /\ i.ema9 < i.ema21 /\ i.minusDi > i.plusDi
                   /\ i.adx > 24 /\ AdxRising(i) /\ i.rsi \in 30..48, 60))

ArbitrageSim(i, o) ==
  LET sound == /\ i.adx < 30 /\ AtrStable(i) /\ SpreadOk(i)
               /\ 100 * Gap(i.price, i.vwapProxy) >= 55 * Larger(i.atr, 1)
  IN  IF \/ o.openBuy /\ i.price >= i.vwapProxy
         \/ o.openSell /\ i.price <= i.vwapProxy
      THEN Exit
      ELSE Votes(Points(/\ 100 * (i.vwapProxy - i.price) >= 55 * i.atr /\ ~o.openBuy /\ sound
                        /\ i.rsi < 42 /\ i.macdHist > i.macdHistPrev
                        /\ i.stochK > i.stochKPrev, 65),
                 Points(/\ 100 * (i.price - i.vwapProxy) >= 55 * i.atr /\ ~o.openSell /\ sound
                        /\ i.rsi > 58 /\ i.macdHist < i.macdHistPrev
                        /\ i.stochK < i.stochKPrev, 65))

MarketMakingSim(i, o) ==
  LET broken == i.adx > 20 \/ RatioAbove3(i) \/ ~NoBreakout(i)
      band == Larger(i.bbUpper - i.bbLower, i.atr)
      sound == i.adx <= 18 /\ AtrStable(i) /\ SpreadOk(i)
  IN  IF \/ broken /\ (o.openBuy \/ o.openSell)
         \/ ~broken /\ o.openBuy /\ i.price >= i.bbMid
         \/ ~broken /\ o.openSell /\ i.price <= i.bbMid
      THEN Exit
      ELSE IF broken THEN Wait(0, 0)
      ELSE Votes(Points(/\ ~o.openBuy /\ sound /\ i.rsi < 48
                        /\ 100 * (i.bbMid - i.price) >= 35 * band, 55),
                 Points(/\ ~o.openSell /\ sound /\ i.rsi > 52
                        /\ 100 * (i.price - i.bbMid) >= 35 * band, 55))

------------------------------------------------------------------------
(* From the votes to the signal.                                         *)

ByMode(mode, i, o) ==
  CASE mode = "TREND" -> Trend(i)
    [] mode = "MOMENTUM" -> Momentum(i)
    [] mode = "PULLBACK" -> Pullback(i)
    [] mode = "BREAKOUT" -> Breakout(i)
    [] mode = "SCALPING" -> Scalping(i)
    [] mode = "EMA_TICK_SCALP" -> EmaTickScalp(i, o)
    [] mode = "MEAN_REVERSION" -> MeanReversion(i)
    [] mode = "REVERSAL" -> Reversal(i)
    [] mode = "RANGE" -> RangeMode(i)
    [] mode = "CUSTOM" -> Custom(i, o)
    [] mode = "GRID" -> Grid(i)
    [] mode = "DCA" -> Dca(i, o)
    [] mode = "NEWS" -> News(i)
    [] mode = "SESSION" -> Session(i)
    [] mode = "ARBITRAGE_SIM" -> ArbitrageSim(i, o)
    [] mode = "MARKET_MAKING_SIM" -> MarketMakingSim(i, o)
    [] mode = "OTHER" -> OtherMode(i)

\* A trend that has run too far closes what is open, whatever the mode finds.
Exhausted(mode, i) ==
  /\ mode \notin {"EMA_TICK_SCALP", "SCALPING"}
  /\ \/ i.rsi > 78 /\ BearStack(i)
     \/ i.rsi < 22 /\ BullStack(i)

\* softSideScore.
SoftBuy(i) ==
  Points(i.ema9 > i.ema21, 12) + Points(i.ema21 > i.ema55, 10) + Points(i.ema21Slope > 0, 8)
    + Points(i.plusDi > i.minusDi, 12) + Points(i.adx > 18, 10) + Points(i.macdHist > 0, 10)
    + Points(i.macdHist >= i.macdHistPrev, 8) + Points(i.rsi \in 45..68, 10)
    + Points(i.price >= i.ema21, 8) + Points(i.stochK >= i.stochD, 6)

\* Mutant of SoftSell: it has the window of ScalpSell.
SoftSellWide(i) ==
  Points(i.ema9 < i.ema21, 12) + Points(i.ema21 < i.ema55, 10) + Points(i.ema21Slope < 0, 8)
    + Points(i.minusDi > i.plusDi, 12) + Points(i.adx > 18, 10) + Points(i.macdHist < 0, 10)
    + Points(i.macdHist <= i.macdHistPrev, 8) + Points(i.rsi \in 25..58, 10)
    + Points(i.price <= i.ema21, 8) + Points(i.stochK <= i.stochD, 6)

SoftSell(i) ==
  Points(i.ema9 < i.ema21, 12) + Points(i.ema21 < i.ema55, 10) + Points(i.ema21Slope < 0, 8)
    + Points(i.minusDi > i.plusDi, 12) + Points(i.adx > 18, 10) + Points(i.macdHist < 0, 10)
    + Points(i.macdHist <= i.macdHistPrev, 8) + Points(i.rsi \in 32..55, 10)
    + Points(i.price <= i.ema21, 8) + Points(i.stochK <= i.stochD, 6)

Leaning(b, s) == IF b > s THEN "BUY" ELSE IF s > b THEN "SELL" ELSE "HOLD"

\* With the gates off the stronger side is taken; a mode that found nothing,
\* except EMA_TICK_SCALP, leans on the soft points.
Signal(mode, i, o) ==
  LET votes == ByMode(mode, i, o)
      silent == votes.buy = 0 /\ votes.sell = 0
  IN  IF Exhausted(mode, i) \/ votes.exit THEN "CLOSE"
      ELSE IF votes.wait \/ (silent /\ mode = "EMA_TICK_SCALP") THEN "HOLD"
      ELSE IF silent THEN Leaning(SoftBuy(i), SoftSell(i))
      ELSE Leaning(votes.buy, votes.sell)

------------------------------------------------------------------------
(* What the runtime asks of a signal before it becomes an entry.         *)

\* evaluateCandleBiasFive, of the colours of five candles and their net move.
Bias(c) ==
  LET tie == c.green = 2 /\ c.red = 2
  IN  IF c.red >= 3 \/ (tie /\ c.net < 0) THEN "bear"
      ELSE IF c.green >= 3 \/ (tie /\ c.net > 0) THEN "bull" ELSE "flat"

\* scalpStrictEntryAllowed: a scalp goes with the candles of its own timeframe,
\* not against those of a minute, not against a net move of 12 thousandths of a
\* percent, and only with an edge of 12 points.
StrictEntry(signal, votes, candles, minute) ==
  \/ /\ signal = "BUY" /\ Bias(candles) = "bull" /\ Bias(minute) # "bear"
     /\ candles.net >= -12 /\ votes.buy - votes.sell >= 12
  \/ /\ signal = "SELL" /\ Bias(candles) = "bear" /\ Bias(minute) # "bull"
     /\ candles.net <= 12 /\ votes.sell - votes.buy >= 12

\* What tickStrategy acts on: nothing before there are enough bars, and a SCALPING
\* signal never closes and enters only under the strict rules.
Decision(mode, tenSeconds, i, o, candles, minute) ==
  LET signal == Signal(mode, i, o)
  IN  IF ~Ready(mode, tenSeconds, i, candles, minute) THEN "HOLD"
      ELSE IF mode # "SCALPING" THEN signal
      ELSE IF StrictEntry(signal, Scalping(i), candles, minute) THEN signal ELSE "HOLD"
=============================================================================
