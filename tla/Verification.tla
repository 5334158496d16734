---------------------------- MODULE Verification ----------------------------
(***************************************************************************)
(* The deterministic calculation of app/services/verification.py: a        *)
(* weather-adjusted difference in differences between a treated zone and   *)
(* its matched control.  Temperatures, hours and costs are integers here   *)
(* (the code has floats); a quotient is the pair of its terms, and <<>>    *)
(* stands for None.  The confidence interval is left out.                  *)
(***************************************************************************)
EXTENDS Integers

Group == [baseline : Int, observed : Int, weather : Int,
          hoursBefore : Int, hoursAfter : Int]
Data  == [treated : Group, control : Group, expected : Nat, cost : Nat]

\* What a group's temperature changed beyond what its weather explains.
AdjustedDelta(group) == group.observed - group.baseline - group.weather

HoursReduction(group) == group.hoursBefore - group.hoursAfter

\* Mutant: the control is taken from the treated zone.
SwappedEffect(d) == AdjustedDelta(d.treated) - AdjustedDelta(d.control)

\* Lower is better: positive when the treated zone cooled more.
CoolingEffect(d) == AdjustedDelta(d.control) - AdjustedDelta(d.treated)

\* A cost per unit gained, None unless something was gained.
QuotientIfGained(cost, gain) == IF gain > 0 THEN <<cost, gain>> ELSE <<>>

CalculateVerification(d) ==
  LET effect == CoolingEffect(d)
      hours  == HoursReduction(d.treated) - HoursReduction(d.control)
  IN  [coolingEffect       |-> effect,
       expectedCooling     |-> d.expected,
       expectedMinusActual |-> d.expected - effect,
       attainment          |-> IF d.expected = 0 THEN <<0, 1>>
                               ELSE <<effect, d.expected>>,
       metExpectation      |-> effect >= d.expected,
       hoursReduction      |-> hours,
       costPerDegree       |-> QuotientIfGained(d.cost, effect),
       costPerHour         |-> QuotientIfGained(d.cost, hours)]
=============================================================================
