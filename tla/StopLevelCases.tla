-------------------------- MODULE StopLevelCases --------------------------
(***************************************************************************)
(* The stop levels of StopLevels over every input within bounds, against   *)
(* what the comments and the callers expect of them.                       *)
(***************************************************************************)
EXTENDS StopLevels

CONSTANTS
  MaxPrice,  \* bound: entry and quote are up to this
  MaxDist    \* bound: distances, offsets and the least distance

\* There is an entry the distances fit below.
ASSUME CasesAssumption == MaxPrice \in Nat /\ MaxDist \in Nat \ {0} /\ 2 * MaxDist <= MaxPrice

VARIABLES dir, entry, quote, dist, min, existing

AnyLevels ==
  /\ dir \in Directions
  /\ entry \in (2 * MaxDist)..MaxPrice /\ quote \in (2 * MaxDist)..MaxPrice
  /\ dist \in 0..MaxDist /\ min \in 1..MaxDist
  /\ existing \in {NoStop} \cup 1..MaxPrice

Flip(d) == IF d = "BUY" THEN "SELL" ELSE "BUY"
\* The price as far on the other side of the entry.
Mirror(price) == IF price = NoStop THEN NoStop ELSE 2 * entry - price

\* The trailing stop is never behind an existing stop that still protects, and
\* when it is a new one the broker takes it (221-230).
TrailingTightens ==
  LET stop == TrailingStop(dir, quote, dist, min, existing)
  IN  /\ existing # NoStop /\ Favorable(dir, existing, quote) > 0
           => Favorable(dir, existing, stop) >= 0
      /\ stop # existing => ValidVsMark(dir, stop, min, quote)

\* Break-even gives the stop that locks most, of those that lock at least the
\* entry and at most entry plus offset and that the broker takes, and none
\* exactly when there is no such stop (168-178).
BreakEvenBest ==
  LET legal == {s \in 1..(2 * MaxPrice) :
                  /\ Favorable(dir, entry, s) \in 0..dist
                  /\ Favorable(dir, s, quote) >= min}
      stop == BreakEvenStop(dir, entry, dist, min, quote)
  IN  IF legal = {} THEN stop = NoStop
      ELSE stop \in legal /\ \A s \in legal : Favorable(dir, s, stop) >= 0

\* In profit the 10-second chase's stop is one the broker takes, and never
\* short of the entry once the gain allows the least distance (428-433).
LockLegal ==
  LET stop == LockStop(dir, entry, min, quote)
      gain == Favorable(dir, entry, quote)
  IN  gain > 0 => /\ ValidVsMark(dir, stop, min, quote)
                  /\ gain >= min => Favorable(dir, entry, stop) >= 0

\* The chase only improves: as the gain grows its stop does not go back, so that
\* what ShouldMove sends at one quote it does not undo at a better one (377).
LockMonotone ==
  LET better == IF dir = "BUY" THEN quote + 1 ELSE quote - 1
  IN  Favorable(dir, entry, quote) > 0 =>
        ~ShouldMove(dir, LockStop(dir, entry, min, quote), LockStop(dir, entry, min, better))

\* The 10-second chase's stop is legal, locks the entry once it can, and is never
\* taken back as the gain grows.
LockSound == LockLegal /\ LockMonotone

\* The code is written out twice, for BUY and for SELL: a SELL mirrored at the
\* entry gets the mirrored stop.
SellMirrorsBuy ==
  /\ InitialStop(Flip(dir), entry, dist, min, Mirror(quote))
       = Mirror(InitialStop(dir, entry, dist, min, quote))
  /\ BreakEvenStop(Flip(dir), entry, dist, min, Mirror(quote))
       = Mirror(BreakEvenStop(dir, entry, dist, min, quote))
  /\ existing # NoStop =>
       TrailingStop(Flip(dir), Mirror(quote), dist, min, Mirror(existing))
         = Mirror(TrailingStop(dir, quote, dist, min, existing))
=============================================================================
