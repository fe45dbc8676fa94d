------------------------------ MODULE MCCycles ------------------------------
(***************************************************************************)
(* A small instance of Cycles for TLC: deadlines before and on weekends,   *)
(* with and without make-up days; two items, one of each missing strategy. *)
(***************************************************************************)
EXTENDS Cycles, TLC

CONSTANTS s1, s2, i1, i2

\* UTC, and eight hours behind
MCZones == {UTC, -1}

\* The deadlines are at night in UTC, on days of the second week, and on the evening
\* before where clocks are behind; the eleventh and the fourteenth day are off.
MCOffers ==
  {c \in [deadline : {DayLength * d : d \in {8, 10, 11, 12, 13}}, zone : MCZones,
          makeup : BOOLEAN, days : {0, 1, 3}, holidays : {{11, 14}}] :
     HasMakeup(c) \/ c.deadline = DayLength * 8}

MCTemplate ==
  [i \in {i1, i2} |->
     IF i = i1
     THEN [weight |-> 2, strategy |-> "ZERO_FILL", required |-> TRUE, min |-> 0, max |-> 4,
           z |-> Absent]
     ELSE [weight |-> 1, strategy |-> "EXCLUDE_FROM_DENOMINATOR", required |-> FALSE,
           min |-> 0, max |-> 4, z |-> 1]]

MCAnswers == {f \in [{i1, i2} -> {1, 5, Absent}] : f[i1] # 5 /\ (f[i1] = 1 \/ f[i2] = 1)}

Symmetry == Permutations(Sessions)
=============================================================================
