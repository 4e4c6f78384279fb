---------------------------- MODULE StopLevels ----------------------------
(***************************************************************************)
(* The stop levels of packages/shared/src/instrument.ts: where the desk    *)
(* puts a protective, a break-even and a trailing stop so that the broker  *)
(* takes it.  Prices are whole ticks, so that formatting a price is the    *)
(* identity and the loops that move a rounded stop away from the mark have *)
(* nothing to do.  min is capitalMinStopDistance of the symbol.            *)
(***************************************************************************)
EXTENDS Integers

NoStop == -1   \* no stop, or one not known: below every price
Directions == {"BUY", "SELL"}

MaxOf(a, b) == IF a >= b THEN a ELSE b
MinOf(a, b) == IF a <= b THEN a ELSE b

\* What the position has gained at a mark, in ticks.
Favorable(dir, entry, mark) == IF dir = "BUY" THEN mark - entry ELSE entry - mark

\* capitalSafeInitialStop: dist from the entry, widened by what the code adds
\* when that is too close to the mark.
InitialStop(dir, entry, distance, min, mark) ==
  LET dist == MaxOf(distance, min)
  IN  IF dir = "BUY"
      THEN entry - (IF mark - (entry - dist) < min THEN MaxOf(dist, mark - entry + min) ELSE dist)
      ELSE entry + (IF entry + dist - mark < min THEN MaxOf(dist, entry - mark + min) ELSE dist)

\* Mutants of BreakEvenStop: no check that the entry can be locked; the SELL
\* branch a copy of the BUY branch's min.
BreakEvenStopAlways(dir, entry, offset, min, mark) ==
  IF dir = "BUY" THEN MinOf(entry + offset, mark - min)
  ELSE MaxOf(entry - offset, mark + min)

BreakEvenStopCopied(dir, entry, offset, min, mark) ==
  IF Favorable(dir, entry, mark) < min THEN NoStop
  ELSE IF dir = "BUY" THEN MinOf(entry + offset, mark - min)
  ELSE MinOf(entry - offset, mark + min)

\* capitalSafeBreakEvenStop: entry plus offset, no closer to the mark than min,
\* and none before that locks at least the entry.
BreakEvenStop(dir, entry, offset, min, mark) ==
  IF Favorable(dir, entry, mark) < min THEN NoStop
  ELSE IF dir = "BUY" THEN MinOf(entry + offset, mark - min)
  ELSE MaxOf(entry - offset, mark + min)

\* Mutant of TrailingStop: the existing stop is not looked at.
TrailingStopBlind(dir, mark, distance, min, existing) ==
  LET dist == MaxOf(distance, min)
  IN  IF dir = "BUY" THEN mark - dist ELSE mark + dist

\* capitalSafeTrailingStop: the distance behind the mark, or the existing stop
\* when that is tighter and on the right side of the mark.
TrailingStop(dir, mark, distance, min, existing) ==
  LET dist == MaxOf(distance, min)
  IN  IF dir = "BUY"
      THEN IF existing < mark /\ mark - dist < existing THEN existing ELSE mark - dist
      ELSE IF existing > mark /\ mark + dist > existing THEN existing ELSE mark + dist

\* Mutant of LockStop: the whole gain given back once it is twice the least
\* distance.
LockStopTiered(dir, entry, min, mark) ==
  LET gain == Favorable(dir, entry, mark)
      dist == IF gain >= 2 * min THEN gain ELSE min
  IN  IF gain <= 0 THEN InitialStop(dir, entry, entry \div 10, min, mark)
      ELSE TrailingStop(dir, mark, dist, min, NoStop)

\* scalpPctLockBrokerStop: in profit a fifth of the gain behind the mark (or
\* min, and not before the entry once min allows), otherwise the initial stop
\* a tenth of the entry away.
LockStop(dir, entry, min, mark) ==
  LET gain == Favorable(dir, entry, mark)
      cushion == MaxOf((gain + 2) \div 5, min)
      dist == IF gain >= min THEN MinOf(cushion, gain) ELSE cushion
  IN  IF gain <= 0 THEN InitialStop(dir, entry, entry \div 10, min, mark)
      ELSE TrailingStop(dir, mark, dist, min, NoStop)

\* scalpStopValidVsMark: on the right side of the mark, min away from it.
ValidVsMark(dir, stop, min, mark) ==
  stop > 0 /\ Favorable(dir, stop, mark) >= min

\* scalpBrokerStopShouldMove, improve_only.
ShouldMove(dir, candidate, current) ==
  \/ current = NoStop
  \/ IF dir = "BUY" THEN candidate > current ELSE candidate < current
=============================================================================
