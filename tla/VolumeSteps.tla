---------------------------- MODULE VolumeSteps ----------------------------
(***************************************************************************)
(* Volumes in whole steps: packages/shared/src/multi-tp.ts, and the sizes  *)
(* that Capital.com takes (packages/broker-adapters/src/capital-size.ts).  *)
(***************************************************************************)
EXTENDS Integers

\* splitVolumeIntoSteps: whole steps, the remainder to the earliest targets, no
\* more targets than steps, and none at all when there would be only one.
SliceVolumes(volume, count) ==
  LET n    == IF count < volume THEN count ELSE volume
      base == volume \div n
  IN  IF volume < 2 THEN <<>>
      ELSE [i \in 1..n |-> IF i <= volume % n THEN base + 1 ELSE base]

------------------------------------------------------------------------
(* The size of a deal, in thousandths of a lot.                          *)

NoSize == 0   \* a rule the market's details do not give
LargestSize == 500000

\* capitalDealRulesFallback, for a kind of instrument.
FallbackRules(kind) ==
  CASE kind = "index"  -> [least |-> 1, most |-> LargestSize, step |-> 1]
    [] kind = "crypto" -> [least |-> 1, most |-> 100000, step |-> 1]
    [] OTHER           -> [least |-> 10, most |-> LargestSize, step |-> 10]

\* parseCapitalDealRules, and sanitizeCapitalDealRules after it: the lot size
\* stands in for a step that is not given only where it does not exceed the
\* least size, and rules far above the known ones are not believed.
DealRules(kind, market) ==
  LET known == FallbackRules(kind)
      given == IF market.step # NoSize THEN market.step
               ELSE IF market.lot \in 1..market.least THEN market.lot ELSE market.least
      step == IF given > market.least THEN market.least ELSE given
  IN  IF \/ market.least = NoSize
         \/ market.least > 10 * known.least \/ step > 10 * known.step
      THEN known
      ELSE [least |-> market.least, step |-> step,
            most |-> IF market.most > market.least THEN market.most ELSE LargestSize]

\* volumePrecisionForStep: the unit of the last decimal kept, one tenth of a
\* thousandth being left out.
Precision(step) ==
  IF step >= 1000 THEN 1000 ELSE IF step >= 100 THEN 100 ELSE IF step >= 10 THEN 10 ELSE 1

RoundTo(size, unit) == ((2 * size + unit) \div (2 * unit)) * unit
Within(least, most, size) ==
  IF size > most THEN most ELSE IF size < least THEN least ELSE size

\* normalizeCapitalDealSize and the text of it that is sent: up to a whole step,
\* then within the limits.
DealSize(raw, rules) ==
  LET up == ((raw + rules.step - 1) \div rules.step) * rules.step
      whole == RoundTo(IF up > rules.least THEN up ELSE rules.least, rules.step)
  IN  IF raw <= 0 THEN rules.least
      ELSE RoundTo(Within(rules.least, rules.most, whole), Precision(rules.step))
=============================================================================
