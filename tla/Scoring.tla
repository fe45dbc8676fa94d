------------------------------ MODULE Scoring ------------------------------
(***************************************************************************)
(* The scoring engine (services/scoring.py).  Values are integers and      *)
(* fractions are kept as numerator and denominator: the rounding of a      *)
(* score to twelve digits is left out.                                     *)
(***************************************************************************)
EXTENDS Integers, Sequences, FiniteSetsExt

CONSTANTS Items,     \* the items of the template version
          Template,  \* Template[i]: weight, missing_strategy, required, bounds, outlier_z of item i
          OutlierZ,  \* outlier_z_default
          MinPriors, \* priors from which on outliers are looked for
          Absent     \* no value

Strategies == {"ZERO_FILL", "EXCLUDE_FROM_DENOMINATOR"}

TemplateItem == [weight : Nat, strategy : Strategies, required : BOOLEAN, min : Int, max : Int,
                 z : Nat \cup {Absent}]

ASSUME ScoringAssumption == /\ IsFiniteSet(Items)
                            /\ Template \in [Items -> TemplateItem]
                            /\ OutlierZ \in Nat
                            /\ MinPriors \in Nat \ {0, 1}
                            /\ Absent \notin Int

\* ZERO_FILL or EXCLUDE_FROM_DENOMINATOR
EffectiveWeight(i, x) ==
  IF x = Absent /\ Template[i].strategy = "EXCLUDE_FROM_DENOMINATOR" THEN 0
  ELSE Template[i].weight

EffectiveValue(x) == IF x = Absent THEN 0 ELSE x

\* The values of item i in earlier traces
PriorValues(i, priors) == {k \in DOMAIN priors : priors[k][i] # Absent}

\* The item's own outlier_z goes before the default.
ZThreshold(i) == IF Template[i].z = Absent THEN OutlierZ ELSE Template[i].z

\* |x - mean| / stddev > z for the sample standard deviation, multiplied out; with a
\* deviation of zero any other value is an outlier.
IsOutlier(i, x, priors) ==
  LET ks == PriorValues(i, priors)
      n == Cardinality(ks)
      sum == MapThenSumSet(LAMBDA k : priors[k][i], ks)
      squares == MapThenSumSet(LAMBDA k : priors[k][i] * priors[k][i], ks)
      off == n * x - sum
  IN /\ n >= MinPriors
     /\ off * off * (n - 1) > ZThreshold(i) * ZThreshold(i) * n * (n * squares - sum * sum)

Flags(i, x, priors) ==
  IF x = Absent THEN {f \in {"missing"} : Template[i].required}
  ELSE {f \in {"threshold_exceeded"} : x < Template[i].min \/ x > Template[i].max}
         \cup {f \in {"outlier"} : IsOutlier(i, x, priors)}

\* The trace of a submission: raw values, flags and the two sums whose quotient is the
\* score (0 if no weight counts).
Score(inputs, priors) ==
  [raw |-> inputs,
   flags |-> [i \in Items |-> Flags(i, inputs[i], priors)],
   sum |-> MapThenSumSet(LAMBDA i : EffectiveValue(inputs[i]) * EffectiveWeight(i, inputs[i]),
                         Items),
   weight |-> MapThenSumSet(LAMBDA i : EffectiveWeight(i, inputs[i]), Items)]
=============================================================================
