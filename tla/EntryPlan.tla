----------------------------- MODULE EntryPlan -----------------------------
(***************************************************************************)
(* What tickStrategy of strategy-runtime.service.ts sends with an entry:   *)
(* the stop, the targets, break-even and trailing of the position it asks  *)
(* for, and the stops it tries when the fill comes back without one.       *)
(*                                                                         *)
(* Prices are whole ticks.  A setting is a number of tenths: below 1.0 it  *)
(* is a difference of prices, from 1.0 on a number of pips.                *)
(***************************************************************************)
EXTENDS StopLevels, VolumeSteps, Sequences

CONSTANTS
  Pip,   \* ticks of a pip
  Unit,  \* ticks of a price of 1.0
  Forex  \* is the instrument a currency pair?

ASSUME EntryPlanAssumption ==
  Pip \in Nat \ {0} /\ Unit \in Nat \ {0} /\ Forex \in BOOLEAN

NotSet == -1
LeastStop == 2 * Pip   \* minProtectiveDistance and capitalMinStopDistance

Setting(v) == IF v < 10 THEN (v * Unit) \div 10 ELSE (v * Pip) \div 10

Behind(dir, price, dist) == IF dir = "BUY" THEN price - dist ELSE price + dist
Ahead(dir, price, dist) == Behind(dir, price, -dist)
Farther(dir, a, b) == IF dir = "BUY" THEN MinOf(a, b) ELSE MaxOf(a, b)

------------------------------------------------------------------------
(* The stop.  c is the strategy's configuration, k the market: the entry *)
(* price and the indicators of the signal.                               *)

\* Behind the average and the last bar, whichever is farther.
EmaStop(dir, k) ==
  Farther(dir, k.ema3, IF dir = "BUY" THEN k.prevLow ELSE k.prevHigh)

StopDistance(mode, dir, c, k) ==
  CASE mode = "SCALPING" -> k.entry \div 10
    [] mode = "EMA_TICK_SCALP" ->
         MaxOf(Favorable(dir, Farther(dir, EmaStop(dir, k), Behind(dir, k.entry, LeastStop)), k.entry),
               LeastStop)
    [] OTHER -> MaxOf(LeastStop, IF c.stop # NotSet THEN Setting(c.stop)
                                 ELSE MaxOf((k.atr * c.atrStop) \div 10, (k.entry * 65) \div 100000))

PlannedStop(mode, dir, c, k) ==
  CASE mode = "SCALPING" -> InitialStop(dir, k.entry, k.entry \div 10, LeastStop, k.entry)
    [] mode = "EMA_TICK_SCALP" -> Farther(dir, EmaStop(dir, k), Behind(dir, k.entry, LeastStop))
    [] OTHER -> Behind(dir, k.entry, StopDistance(mode, dir, c, k))

------------------------------------------------------------------------
(* The targets.                                                          *)

\* A single target; on ten-second bars its setting is a difference of prices.
TargetDistance(c, k) ==
  MaxOf(2 * Pip, IF c.target = NotSet THEN MaxOf((k.atr * c.atrTarget) \div 10, 3 * Pip)
                 ELSE IF c.tenSeconds THEN (c.target * Unit) \div 10 ELSE Setting(c.target))

\* buildEqualMultiTpPlan: a target for each slice, evenly up to the share of the
\* range that a single one would have; the least reach is a volume step.
MultiTargets(dir, c, k, volume) ==
  LET vols == SliceVolumes(volume, c.count)
      reach == MaxOf((k.atr * MaxOf(c.atrTarget, 1)) \div 10, Unit \div 100)
  IN  [i \in DOMAIN vols |-> [price |-> Ahead(dir, k.entry, (reach * i) \div Len(vols)),
                              volume |-> vols[i]]]

\* A lot too small for two slices has the single target; the scalping modes have
\* none.  Only the last one goes to the broker.
Targets(mode, dir, c, k) ==
  LET multi == MultiTargets(dir, c, k, c.volume)
  IN  IF mode \in {"SCALPING", "EMA_TICK_SCALP"} \/ ~c.targetOn THEN <<>>
      ELSE IF c.multi /\ Len(multi) >= 2 THEN multi
      ELSE << [price |-> Ahead(dir, k.entry, TargetDistance(c, k)), volume |-> c.volume] >>

\* The levels written to the row, of the volume that was filled.
RowTargets(mode, dir, c, k, filled) ==
  IF Len(Targets(mode, dir, c, k)) < 2 THEN <<>> ELSE MultiTargets(dir, c, k, filled)

------------------------------------------------------------------------
(* Break-even and trailing.                                              *)

\* resolveScalpActivationDistance; a setting of zero counts as one pip.
Activation(v) == MaxOf(Setting(IF v > 0 THEN v ELSE 10), Pip \div 20)

\* resolveScalpTrailDistance: at least three pips, and a currency pair has no
\* differences of prices.
ScalpTrail(v) ==
  MaxOf(3 * Pip, IF v <= 0 \/ (Forex /\ v < 10) THEN 6 * Pip ELSE Setting(v))

BreakEven(mode, dir, c, k) ==
  LET plan(on, money, act, off) == [on |-> on, money |-> money, act |-> act, off |-> off]
  IN  CASE mode = "EMA_TICK_SCALP" ->
             plan(TRUE, FALSE, MaxOf(StopDistance(mode, dir, c, k), Pip \div 10), Pip)
        [] mode = "SCALPING" -> plan(TRUE, TRUE, 5, Activation(10))  \* 5 hundredths of money
        [] c.tenSeconds /\ mode \notin {"SCALPING", "EMA_TICK_SCALP"} ->
             plan(c.breakEvenOn, FALSE, Activation(c.breakEven), Activation(c.offset))
        [] OTHER -> plan(c.breakEvenOn, FALSE, MaxOf(Setting(c.breakEven), Pip \div 10),
                         MaxOf(Setting(c.offset), Pip))

Trailing(mode, c) ==
  CASE mode = "EMA_TICK_SCALP" -> [on |-> FALSE, fifth |-> FALSE, dist |-> 0]
    [] mode = "SCALPING" -> [on |-> TRUE, fifth |-> TRUE, dist |-> 0]
    [] c.tenSeconds /\ mode \notin {"SCALPING", "EMA_TICK_SCALP"} ->
         [on |-> c.trailOn, fifth |-> FALSE, dist |-> ScalpTrail(c.trail)]
    [] OTHER -> [on |-> c.trailOn, fifth |-> FALSE, dist |-> MaxOf(Setting(c.trail), LeastStop)]

------------------------------------------------------------------------
(* The stop sent after the fill when the position shows none: four       *)
(* attempts, each half a distance wider.                                 *)

Attempts == 0..3

\* Mutant of AttachDistance: every attempt asks for the same distance.
AttachDistanceSame(mode, dir, c, k, fill, attempt) ==
  IF mode = "SCALPING" THEN fill \div 10 ELSE MaxOf(StopDistance(mode, dir, c, k), LeastStop)

AttachDistance(mode, dir, c, k, fill, attempt) ==
  LET base == IF mode = "SCALPING" THEN fill \div 10
              ELSE MaxOf(StopDistance(mode, dir, c, k), LeastStop)
  IN  (base * (2 + attempt)) \div 2

AttachStop(mode, dir, c, k, fill, mark, attempt) ==
  InitialStop(dir, fill, AttachDistance(mode, dir, c, k, fill, attempt), LeastStop, mark)
=============================================================================
