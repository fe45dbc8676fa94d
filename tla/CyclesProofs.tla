---------------------------- MODULE CyclesProofs ----------------------------
(***************************************************************************)
(* Proofs about Cycles, and about what the recursive definitions of        *)
(* Calendar and Scoring compute, for any calendar, template and number of  *)
(* sessions.                                                               *)
(*                                                                         *)
(* Induction is by least counterexample: a non-empty set of naturals has a *)
(* least element.                                                          *)
(***************************************************************************)
EXTENDS Cycles, FiniteSetTheorems, SequenceTheorems, WellFoundedInduction, TLAPS

LEMMA LeastNatural ==
  ASSUME NEW T, T \subseteq Nat, T # {}
  PROVE  \E n \in T : \A m \in T : n <= m
<1> DEFINE less == {ss \in Nat \X Nat : ss[1] < ss[2]}
<1>1. IsWellFoundedOn(less, Nat)
  BY NatLessThanWellFounded DEF OpToRel
<1>2. \A y, x \in Nat : y < x => <<y, x>> \in less
  OBVIOUS
<1> HIDE DEF less
<1>3. \E x \in T : \A y \in T : ~ (<<y, x>> \in less)
  BY <1>1, WFMin
<1>4. PICK x \in T : \A y \in T : ~ (<<y, x>> \in less)
  BY <1>3
<1>5. \A y \in T : ~ (y < x)
  BY <1>2, <1>4
<1>6. \A y \in T : x <= y
  BY <1>5
<1>7. QED
  BY <1>6

\* A set that has 0, and the successor of each natural number it has, has them all.
LEMMA Counting ==
  ASSUME NEW S, 0 \in S, \A n \in Nat : n \in S => n + 1 \in S
  PROVE  Nat \subseteq S
<1> DEFINE T == {n \in Nat : n \notin S}
<1>1. ASSUME T # {}
      PROVE  FALSE
  <2>1. PICK n \in T : \A m \in T : n <= m
    BY <1>1, LeastNatural
  <2>2. n - 1 \in Nat /\ n - 1 \notin T
    BY <2>1
  <2>3. QED
    BY <2>1, <2>2
<1>2. QED
  BY <1>1

\* A function starts at v0 and goes on step by step.
HasOrbit(V, v0, step) ==
  \E f \in [Nat -> V] : f[0] = v0 /\ \A n \in Nat : f[n + 1] = step[f[n]]

LEMMA NatRecursion ==
  ASSUME NEW V, NEW v0 \in V, NEW step \in [V -> V]
  PROVE  HasOrbit(V, v0, step)
<1> DEFINE G(n) == {g \in [0 .. n -> V] : g[0] = v0
                                             /\ \A k \in 0 .. n - 1 : g[k + 1] = step[g[k]]}
           Some == {n \in Nat : G(n) # {}}
<1>1. 0 \in Some
  <2>1. [k \in 0 .. 0 |-> v0] \in G(0)
    OBVIOUS
  <2>2. QED
    BY <2>1
<1>2. ASSUME NEW n \in Nat, n \in Some
      PROVE  n + 1 \in Some
  <2>1. PICK g \in G(n) : TRUE
    BY <1>2
  <2> DEFINE h == [k \in 0 .. n + 1 |-> IF k <= n THEN g[k] ELSE step[g[n]]]
  <2>2. h \in [0 .. n + 1 -> V] /\ h[0] = v0
    BY <2>1
  <2>3. \A k \in 0 .. n : h[k + 1] = step[h[k]]
    BY <2>1
  <2>4. h \in G(n + 1)
    BY <2>2, <2>3
  <2>5. QED
    <3> HIDE DEF h, G
    <3>1. QED
      BY <2>4
<1>3. Nat \subseteq Some
  <2> HIDE DEF Some
  <2>1. QED
    BY <1>1, <1>2, Counting
<1>4. ASSUME NEW n \in Nat, NEW g \in G(n), NEW h \in G(n + 1)
      PROVE  g[n] = h[n]
  <2> DEFINE Same == {k \in Nat : k <= n => g[k] = h[k]}
  <2>0. /\ g[0] = v0 /\ h[0] = v0
        /\ \A k \in 0 .. n - 1 : g[k + 1] = step[g[k]]
        /\ \A k \in 0 .. (n + 1) - 1 : h[k + 1] = step[h[k]]
    BY g \in G(n), h \in G(n + 1)
  <2> HIDE DEF G
  <2>1. 0 \in Same
    BY <2>0
  <2>2. ASSUME NEW k \in Nat, k \in Same, k + 1 <= n
        PROVE  g[k + 1] = h[k + 1]
    <3>1. k <= n /\ k \in 0 .. n - 1 /\ k \in 0 .. (n + 1) - 1
      BY <2>2
    <3>2. g[k] = h[k]
      BY <2>2, <3>1
    <3>3. QED
      BY <2>0, <3>1, <3>2
  <2>3. \A k \in Nat : k \in Same => k + 1 \in Same
    BY <2>2
  <2>4. Nat \subseteq Same
    <3> HIDE DEF Same
    <3>1. QED
      BY <2>1, <2>3, Counting
  <2>5. QED
    BY <2>4
<1> DEFINE c(n) == CHOOSE g \in G(n) : TRUE
           f == [n \in Nat |-> c(n)[n]]
<1>5. ASSUME NEW n \in Nat
      PROVE  /\ c(n) \in G(n)
             /\ c(n) \in [0 .. n -> V] /\ c(n)[0] = v0
             /\ \A k \in 0 .. n - 1 : c(n)[k + 1] = step[c(n)[k]]
  <2>1. G(n) # {}
    BY <1>3
  <2>2. c(n) \in G(n)
    <3> HIDE DEF G
    <3>1. QED
      BY <2>1
  <2>3. QED
    <3> HIDE DEF c
    <3>1. QED
      BY <2>2
<1> HIDE DEF c, G
<1>6. f \in [Nat -> V]
  <2>1. \A n \in Nat : n \in 0 .. n
    OBVIOUS
  <2>2. QED
    BY <1>5, <2>1
<1>7. f[0] = v0
  BY <1>5
<1>8. ASSUME NEW n \in Nat
      PROVE  f[n + 1] = step[f[n]]
  <2>1. c(n) \in G(n) /\ c(n + 1) \in G(n + 1)
    BY <1>5
  <2>2. c(n)[n] = c(n + 1)[n]
    BY <1>4, <2>1
  <2>3. c(n + 1)[n + 1] = step[c(n + 1)[n]]
    BY <1>5
  <2>4. QED
    BY <2>2, <2>3
<1>9. QED
  BY <1>6, <1>7, <1>8 DEF HasOrbit
-----------------------------------------------------------------------------
(* The calendar *)

\* A finite set of dates has a last one.
LEMMA LastDate ==
  ASSUME NEW D \in SUBSET Nat, IsFiniteSet(D)
  PROVE  \E b \in Nat : \A d \in D : d <= b
<1> DEFINE Bounded(E) == \E b \in Nat : \A d \in E : d <= b
           S == {n \in Nat : \A E \in SUBSET Nat :
                               IsFiniteSet(E) /\ Cardinality(E) = n => Bounded(E)}
<1>1. 0 \in S
  BY FS_EmptySet
<1>2. ASSUME NEW n \in Nat, n \in S
      PROVE  n + 1 \in S
  <2> SUFFICES ASSUME NEW E \in SUBSET Nat, IsFiniteSet(E), Cardinality(E) = n + 1
               PROVE  Bounded(E)
    OBVIOUS
  <2>1. E # {}
    BY FS_EmptySet
  <2>2. PICK x \in E : TRUE
    BY <2>1
  <2>3. IsFiniteSet(E \ {x}) /\ Cardinality(E \ {x}) = n
    <3>1. IsFiniteSet(E \ {x}) /\ Cardinality(E \ {x}) = Cardinality(E) - 1
      <4> HIDE DEF S, Bounded
      <4>1. QED
        BY <2>2, FS_RemoveElement
    <3>2. QED
      BY <3>1
  <2>4. PICK b \in Nat : \A d \in E \ {x} : d <= b
    BY <1>2, <2>3
  <2>5. CASE x <= b
    BY <2>4, <2>5
  <2>6. CASE b <= x
    BY <2>2, <2>4, <2>6
  <2>7. QED
    BY <2>2, <2>4, <2>5, <2>6
<1>3. Cardinality(D) \in S
  <2>1. Cardinality(D) \in Nat
    BY FS_CardinalityType
  <2> HIDE DEF S
  <2>2. QED
    BY <1>1, <1>2, <2>1, Counting
<1>4. QED
  BY <1>3

\* e is the first business day from d on.
IsNextDay(e, d, holidays) ==
  /\ e \in Nat /\ d <= e
  /\ IsBusinessDay(e, holidays)
  /\ \A x \in d .. e - 1 : ~IsBusinessDay(x, holidays)

\* There is always one: holidays come to an end, weekends too.
LEMMA NextDayExists ==
  ASSUME NEW h \in SUBSET Nat, IsFiniteSet(h), NEW d \in Nat
  PROVE  \E e : IsNextDay(e, d, h)
<1> DEFINE Ahead == {e \in Nat : d <= e /\ IsBusinessDay(e, h)}
<1>1. PICK b \in Nat : \A x \in h : x <= b
  BY LastDate
<1>2. 7 * (b + d + 1) \in Ahead
  <2> DEFINE e == 7 * (b + d + 1)
  <2>1. e \in Nat /\ d <= e /\ e > b /\ e % 7 = 0
    OBVIOUS
  <2>2. e \notin h
    BY <1>1, <2>1
  <2>3. QED
    BY <2>1, <2>2 DEF IsBusinessDay
<1>3. PICK e \in Ahead : \A x \in Ahead : e <= x
  <2>1. Ahead \subseteq Nat /\ Ahead # {}
    BY <1>2
  <2> HIDE DEF Ahead
  <2>2. QED
    BY <2>1, LeastNatural
<1>4. ASSUME NEW x \in d .. e - 1
      PROVE  ~IsBusinessDay(x, h)
  BY <1>3
<1>5. QED
  BY <1>3, <1>4 DEF IsNextDay

LEMMA NextDayUnique ==
  ASSUME NEW h, NEW d \in Nat, NEW e, NEW f, IsNextDay(e, d, h), IsNextDay(f, d, h)
  PROVE  e = f
<1>1. e \in Nat /\ f \in Nat /\ d <= e /\ d <= f
  BY DEF IsNextDay
<1>2. ~(e < f) /\ ~(f < e)
  BY <1>1 DEF IsNextDay
<1>3. QED
  BY <1>1, <1>2

\* The loop that advances a date ends, at the first business day.
LEMMA LoopFindsNextDay ==
  ASSUME NEW h \in SUBSET Nat, IsFiniteSet(h), NEW d \in Nat
  PROVE  IsNextDay(OnOrAfter(d, h), d, h)
<1> DEFINE next[x \in Nat] == IF IsBusinessDay(x, h) THEN x ELSE next[x + 1]
           least == [x \in Nat |-> CHOOSE e : IsNextDay(e, x, h)]
<1>1. \A x \in Nat : IsNextDay(least[x], x, h)
  BY NextDayExists
<1>2. ASSUME NEW x \in Nat
      PROVE  least[x] = IF IsBusinessDay(x, h) THEN x ELSE least[x + 1]
  <2>1. IsNextDay(least[x], x, h) /\ IsNextDay(least[x + 1], x + 1, h)
    BY <1>1
  <2> HIDE DEF least
  <2>2. CASE IsBusinessDay(x, h)
    <3>1. IsNextDay(x, x, h)
      BY <2>2 DEF IsNextDay
    <3>2. QED
      BY <2>1, <2>2, <3>1, NextDayUnique
  <2>3. CASE ~IsBusinessDay(x, h)
    <3>1. IsNextDay(least[x + 1], x, h)
      BY <2>1, <2>3 DEF IsNextDay
    <3>2. QED
      BY <2>1, <2>3, <3>1, NextDayUnique
  <2>4. QED
    BY <2>2, <2>3
<1>3. \E g : g = [x \in Nat |-> IF IsBusinessDay(x, h) THEN x ELSE g[x + 1]]
  <2>1. least = [x \in Nat |-> least[x]]
    OBVIOUS
  <2> HIDE DEF least
  <2>2. least = [x \in Nat |-> IF IsBusinessDay(x, h) THEN x ELSE least[x + 1]]
    BY <1>2, <2>1
  <2>3. QED
    BY <2>2
<1>4. next = [x \in Nat |-> IF IsBusinessDay(x, h) THEN x ELSE next[x + 1]]
  BY <1>3 DEF next
<1>5. OnOrAfter(d, h) = next[d]
  BY DEF OnOrAfter
<1> HIDE DEF next, least
<1>6. PICK e : IsNextDay(e, d, h)
  BY NextDayExists
<1>7. e \in Nat /\ d <= e /\ e - d \in Nat
  BY <1>6 DEF IsNextDay
<1> DEFINE S == {n \in Nat : n <= e - d => next[e - n] = e}
<1>8. 0 \in S
  BY <1>4, <1>6, <1>7 DEF IsNextDay
<1>9. ASSUME NEW n \in Nat, n \in S, n + 1 <= e - d
      PROVE  next[e - (n + 1)] = e
  <2> DEFINE x == e - (n + 1)
  <2>1. x \in Nat /\ x \in d .. e - 1 /\ x + 1 = e - n
    BY <1>7, <1>9
  <2>2. ~IsBusinessDay(x, h)
    BY <1>6, <2>1 DEF IsNextDay
  <2>3. next[e - n] = e
    BY <1>7, <1>9
  <2>4. QED
    BY <1>4, <2>1, <2>2, <2>3
<1>10. e - d \in S
  <2>1. \A n \in Nat : n \in S => n + 1 \in S
    BY <1>9
  <2> HIDE DEF S
  <2>2. QED
    BY <1>7, <1>8, <2>1, Counting
<1>11. next[d] = e
  <2>1. e - (e - d) = d
    BY <1>7
  <2>2. QED
    BY <1>7, <1>10, <2>1
<1>12. QED
  BY <1>5, <1>6, <1>11

LEMMA DatesFinite ==
  ASSUME NEW a \in Nat, NEW b \in Nat, NEW D, D \subseteq a .. b
  PROVE  IsFiniteSet(D)
<1>1. IsFiniteSet(a .. b)
  BY FS_Interval
<1>2. QED
  BY <1>1, FS_Subset

\* The loop that counts days ends on a business day, with one business day more
\* than it had to count from where it started.
LEMMA LoopCountsDays ==
  ASSUME NEW h \in SUBSET Nat, IsFiniteSet(h), NEW start \in Nat, NEW count \in Nat
  PROVE  /\ AddBusinessDays(start, count, h) \in Nat
         /\ start <= AddBusinessDays(start, count, h)
         /\ IsBusinessDay(AddBusinessDays(start, count, h), h)
         /\ Cardinality({x \in start .. AddBusinessDays(start, count, h) :
                           IsBusinessDay(x, h)}) = count + 1
<1> DEFINE day[n \in Nat] == OnOrAfter(IF n = 0 THEN start ELSE day[n - 1] + 1, h)
           step == [d \in Nat |-> OnOrAfter(d + 1, h)]
<1>1. \A d \in Nat : OnOrAfter(d, h) \in Nat
  BY LoopFindsNextDay DEF IsNextDay
<1>2. \E f : f = [n \in Nat |-> OnOrAfter(IF n = 0 THEN start ELSE f[n - 1] + 1, h)]
  <2>1. step \in [Nat -> Nat] /\ OnOrAfter(start, h) \in Nat
    BY <1>1
  <2>2. \A d \in Nat : step[d] = OnOrAfter(d + 1, h)
    OBVIOUS
  <2> HIDE DEF step, day
  <2>3. PICK f \in [Nat -> Nat] : /\ f[0] = OnOrAfter(start, h)
                                  /\ \A n \in Nat : f[n + 1] = step[f[n]]
    <3>1. HasOrbit(Nat, OnOrAfter(start, h), step)
      BY <2>1, NatRecursion
    <3>2. QED
      BY <3>1 DEF HasOrbit
  <2>4. ASSUME NEW n \in Nat
        PROVE  f[n] = OnOrAfter(IF n = 0 THEN start ELSE f[n - 1] + 1, h)
    <3>1. CASE n = 0
      BY <2>3, <3>1
    <3>2. CASE n # 0
      <4>1. n - 1 \in Nat /\ n = (n - 1) + 1
        BY <3>2
      <4>2. f[n] = step[f[n - 1]]
        BY <2>3, <4>1
      <4>3. QED
        BY <2>2, <2>3, <3>2, <4>1, <4>2
    <3>3. QED
      BY <3>1, <3>2
  <2>5. f = [n \in Nat |-> OnOrAfter(IF n = 0 THEN start ELSE f[n - 1] + 1, h)]
    BY <2>3, <2>4
  <2>6. QED
    BY <2>5
<1>3. day = [n \in Nat |-> OnOrAfter(IF n = 0 THEN start ELSE day[n - 1] + 1, h)]
  BY <1>2 DEF day
<1>4. AddBusinessDays(start, count, h) = day[count]
  BY DEF AddBusinessDays
<1> HIDE DEF day, step
<1>5. /\ day[0] = OnOrAfter(start, h)
      /\ \A n \in Nat : day[n + 1] = OnOrAfter(day[n] + 1, h)
  <2>1. day[0] = OnOrAfter(start, h)
    BY <1>3
  <2>2. ASSUME NEW n \in Nat
        PROVE  day[n + 1] = OnOrAfter(day[n] + 1, h)
    <3>1. n + 1 \in Nat /\ n + 1 # 0 /\ (n + 1) - 1 = n
      OBVIOUS
    <3>2. QED
      BY <1>3, <3>1
  <2>3. QED
    BY <2>1, <2>2
<1> DEFINE Days(d) == {x \in start .. d : IsBusinessDay(x, h)}
           Counted_(n) == /\ day[n] \in Nat /\ start <= day[n]
                          /\ IsBusinessDay(day[n], h)
                          /\ Cardinality(Days(day[n])) = n + 1
           S == {n \in Nat : Counted_(n)}
<1>6. 0 \in S
  <2>1. IsNextDay(day[0], start, h)
    BY <1>5, LoopFindsNextDay
  <2>2. Days(day[0]) = {day[0]}
    BY <2>1 DEF IsNextDay
  <2>3. Cardinality(Days(day[0])) = 1
    <3> HIDE DEF Days
    <3>1. QED
      BY <2>2, FS_Singleton
  <2>4. QED
    BY <2>1, <2>3 DEF IsNextDay
<1>7. ASSUME NEW n \in Nat, n \in S
      PROVE  n + 1 \in S
  <2> DEFINE d == day[n]
             e == day[n + 1]
  <2>1. d \in Nat /\ start <= d /\ Cardinality(Days(d)) = n + 1
    BY <1>7
  <2>2. IsNextDay(e, d + 1, h)
    BY <1>5, <2>1, LoopFindsNextDay
  <2>3. e \in Nat /\ d < e /\ start <= e /\ IsBusinessDay(e, h)
    BY <2>1, <2>2 DEF IsNextDay
  <2>4. Days(e) = Days(d) \cup {e}
    <3>1. \A x \in d + 1 .. e - 1 : ~IsBusinessDay(x, h)
      BY <2>2 DEF IsNextDay
    <3>2. QED
      BY <2>1, <2>3, <3>1
  <2>5. IsFiniteSet(Days(d)) /\ e \notin Days(d)
    <3>1. Days(d) \subseteq start .. d
      OBVIOUS
    <3>2. IsFiniteSet(Days(d))
      <4> HIDE DEF Days, d, e
      <4>1. QED
        BY <2>1, <3>1, DatesFinite
    <3>3. QED
      BY <2>1, <2>3, <3>2
  <2>6. Cardinality(Days(e)) = (n + 1) + 1
    <3> HIDE DEF Days, d, e
    <3>1. Cardinality(Days(d) \cup {e}) = Cardinality(Days(d)) + 1
      BY <2>5, FS_AddElement
    <3>2. QED
      BY <2>1, <2>4, <3>1
  <2>7. QED
    BY <2>3, <2>6
<1>8. count \in S
  <2> HIDE DEF S
  <2>1. QED
    BY <1>6, <1>7, Counting
<1>9. QED
  BY <1>4, <1>8

\* A date has DayLength ticks.
LEMMA DateOfTick ==
  ASSUME NEW t \in Int, NEW zone \in Int
  PROVE  /\ LocalDate(t, zone) \in Int
         /\ DayLength * LocalDate(t, zone) <= t + zone
         /\ t + zone < DayLength * (LocalDate(t, zone) + 1)
<1> DEFINE a == t + zone
           L == DayLength
<1>1. a \in Int /\ L \in Nat \ {0}
  BY DayAssumption
<1> HIDE DEF a, L
<1>2. a \div L \in Int /\ L * (a \div L) <= a /\ a < L * (a \div L) + L
  BY <1>1
<1>3. L * ((a \div L) + 1) = L * (a \div L) + L
  BY <1>1, <1>2
<1>4. QED
  BY <1>2, <1>3 DEF LocalDate, a, L

LEMMA DateUnique ==
  ASSUME NEW t \in Int, NEW zone \in Int, NEW d \in Int,
         DayLength * d <= t + zone, t + zone < DayLength * (d + 1)
  PROVE  LocalDate(t, zone) = d
<1> DEFINE a == t + zone
           L == DayLength
<1>1. a \in Int /\ L \in Nat \ {0} /\ L * d <= a /\ a < L * (d + 1)
  BY DayAssumption
<1> HIDE DEF a, L
<1>2. a \div L = d
  BY <1>1
<1>3. QED
  BY <1>2 DEF LocalDate, a, L

\* Dates do not go back while the clock goes on.
LEMMA DatesGoOn ==
  ASSUME NEW t \in Int, NEW u \in Int, NEW zone \in Int, t <= u
  PROVE  LocalDate(t, zone) <= LocalDate(u, zone)
<1> DEFINE a == t + zone
           b == u + zone
           L == DayLength
<1>1. a \in Int /\ b \in Int /\ a <= b /\ L \in Nat \ {0}
  BY DayAssumption
<1> HIDE DEF a, b, L
<1>2. a \div L <= b \div L
  BY <1>1
<1>3. QED
  BY <1>2 DEF LocalDate, a, b, L

\* The end of a day belongs to the day, and no tick of an earlier one is after it.
LEMMA EndOfDayFacts ==
  ASSUME NEW d \in Int, NEW zone \in Int, NEW t \in Int, LocalDate(t, zone) <= d
  PROVE  /\ EndOfDay(d, zone) \in Int
         /\ LocalDate(EndOfDay(d, zone), zone) = d
         /\ t <= EndOfDay(d, zone)
<1> DEFINE L == DayLength
           q == LocalDate(t, zone)
<1>1. L \in Nat \ {0} /\ q \in Int /\ q <= d /\ t + zone < L * (q + 1)
  BY DayAssumption, DateOfTick
<1> HIDE DEF L, q
<1>2. L * (q + 1) <= L * (d + 1) /\ L * d = L * (d + 1) - L /\ L * (d + 1) = (d + 1) * L
  BY <1>1
<1>3. L * (d + 1) \in Int /\ L * d \in Int /\ L * (q + 1) \in Int
  BY <1>1
<1>4. EndOfDay(d, zone) = L * (d + 1) - 1 - zone
  BY <1>2 DEF EndOfDay, L
<1> DEFINE e == EndOfDay(d, zone)
           m == L * (d + 1)
           p == L * (q + 1)
           k == L * d
<1>5. /\ m \in Int /\ p \in Int /\ k \in Int /\ p <= m /\ k = m - L
      /\ e = m - 1 - zone /\ t + zone < p
  BY <1>1, <1>2, <1>3, <1>4
<1> HIDE DEF e, m, p, k
<1>6. e \in Int /\ t <= e /\ k <= e + zone /\ e + zone < m
  BY <1>1, <1>5
<1>7. DayLength * d <= EndOfDay(d, zone) + zone
      /\ EndOfDay(d, zone) + zone < DayLength * (d + 1)
  BY <1>6 DEF e, m, k, L
<1>8. EndOfDay(d, zone) \in Int /\ t <= EndOfDay(d, zone)
  BY <1>6 DEF e
<1>9. QED
  BY <1>7, <1>8, DateUnique

\* The make-up deadline is the end of the business day it should be.
LEMMA MakeupDeadline ==
  ASSUME NEW c \in Offers, NEW zone \in Int, c.deadline + zone >= 0, c.days > 0, c.makeup
  PROVE  IsMakeupDeadline(c, zone, EffectiveDeadline(c, zone))
<1> DEFINE q == LocalDate(c.deadline, zone)
           d == AddBusinessDays(q + 1, c.days - 1, c.holidays)
           t == EndOfDay(d, zone)
<1>1. /\ c.deadline \in Nat /\ c.days - 1 \in Nat
      /\ c.holidays \in SUBSET Nat /\ IsFiniteSet(c.holidays)
  BY CyclesAssumption DEF Settings
<1>2. q \in Nat
  <2> DEFINE L == DayLength
  <2>1. /\ q \in Int /\ L \in Nat \ {0} /\ c.deadline + zone < L * (q + 1)
        /\ c.deadline + zone \in Nat
    <3>1. c.deadline \in Int /\ c.deadline + zone \in Nat
      BY <1>1
    <3>2. q \in Int /\ c.deadline + zone < DayLength * (q + 1)
      <4> HIDE DEF L
      <4>1. QED
        BY <3>1, DateOfTick
    <3>3. QED
      BY <3>1, <3>2, DayAssumption
  <2> HIDE DEF q, L
  <2>2. L * (q + 1) > 0 /\ L * (q + 1) \in Int
    BY <2>1
  <2>3. q + 1 > 0
    <3>1. q + 1 <= 0 => L * (q + 1) <= 0
      BY <2>1
    <3>2. QED
      BY <2>1, <2>2, <3>1
  <2>4. QED
    BY <2>1, <2>3
<1>3. EffectiveDeadline(c, zone) = t
  BY DEF EffectiveDeadline, HasMakeup, DeadlineDate
<1>4. /\ d \in Nat /\ q + 1 <= d /\ IsBusinessDay(d, c.holidays)
      /\ Cardinality({x \in q + 1 .. d : IsBusinessDay(x, c.holidays)}) = (c.days - 1) + 1
  <2>1. q + 1 \in Nat
    BY <1>2
  <2> HIDE DEF q
  <2>2. QED
    BY <1>1, <2>1, LoopCountsDays
<1>5. BusinessDaysBetween(q, d, c.holidays) = c.days
  <2> HIDE DEF q, d
  <2>1. (c.days - 1) + 1 = c.days
    BY CyclesAssumption DEF Settings
  <2>2. QED
    BY <1>4, <2>1 DEF BusinessDaysBetween
<1>6. t \in Int /\ LocalDate(t, zone) = d /\ c.deadline <= t
  <2>1. q <= d /\ d \in Int
    BY <1>2, <1>4
  <2> HIDE DEF d
  <2>2. QED
    BY <1>1, <2>1, EndOfDayFacts
<1> HIDE DEF d
<1>7. c.deadline <= t /\ t = EndOfDay(d, zone) /\ LocalDate(t, zone) = d
  BY <1>6
<1> HIDE DEF t
<1>8. IsMakeupDeadline(c, zone, t)
  <2>1. t >= c.deadline
    BY <1>1, <1>6
  <2>2. QED
    BY <1>4, <1>5, <1>7, <2>1 DEF IsMakeupDeadline
<1>9. QED
  BY <1>3, <1>8 DEF t, d
-----------------------------------------------------------------------------
(* Sums *)

Chosen(s) == CHOOSE y \in s : TRUE

\* g adds up v over every subset of S.
IsSum(g, S, v) ==
  /\ g \in [SUBSET S -> Int]
  /\ g[{}] = 0
  /\ \A s \in SUBSET S : s # {} => g[s] = v[Chosen(s)] + g[s \ {Chosen(s)}]

\* The element that is chosen leaves one element less.
LEMMA ChosenLeaves ==
  ASSUME NEW S, IsFiniteSet(S), NEW s \in SUBSET S, s # {}
  PROVE  /\ Chosen(s) \in s /\ Chosen(s) \in S
         /\ s \ {Chosen(s)} \in SUBSET S
         /\ IsFiniteSet(s) /\ Cardinality(s) \in Nat
         /\ Cardinality(s \ {Chosen(s)}) = Cardinality(s) - 1
<1>1. Chosen(s) \in s
  BY DEF Chosen
<1>2. IsFiniteSet(s) /\ Cardinality(s) \in Nat
  BY FS_Subset, FS_CardinalityType
<1>3. Cardinality(s \ {Chosen(s)}) = Cardinality(s) - 1
  BY <1>1, <1>2, FS_RemoveElement
<1>4. QED
  BY <1>1, <1>2, <1>3

\* Every finite sum exists.
LEMMA SumExists ==
  ASSUME NEW S, IsFiniteSet(S), NEW v \in [S -> Int]
  PROVE  \E g : IsSum(g, S, v)
<1> DEFINE Upto(g, n) == \A s \in SUBSET S : s # {} /\ Cardinality(s) <= n =>
                            g[s] = v[Chosen(s)] + g[s \ {Chosen(s)}]
           Sums(n) == {g \in [SUBSET S -> Int] : g[{}] = 0 /\ Upto(g, n)}
           Some == {n \in Nat : Sums(n) # {}}
<1>1. 0 \in Some
  <2> DEFINE g == [s \in SUBSET S |-> 0]
  <2>1. g \in [SUBSET S -> Int] /\ g[{}] = 0
    OBVIOUS
  <2>2. \A s \in SUBSET S : s # {} => ~(Cardinality(s) <= 0)
    <3> SUFFICES ASSUME NEW s \in SUBSET S, s # {}
                 PROVE  ~(Cardinality(s) <= 0)
      OBVIOUS
    <3>1. IsFiniteSet(s) /\ Cardinality(s) \in Nat
      BY ChosenLeaves
    <3>2. Cardinality(s) # 0
      BY <3>1, FS_EmptySet
    <3>3. QED
      BY <3>1, <3>2
  <2>3. Upto(g, 0)
    BY <2>2
  <2>4. g \in Sums(0)
    <3> HIDE DEF g, Upto
    <3>1. QED
      BY <2>1, <2>3
  <2>5. QED
    <3> HIDE DEF g, Sums
    <3>1. QED
      BY <2>4
<1>2. ASSUME NEW n \in Nat, n \in Some
      PROVE  n + 1 \in Some
  <2>1. PICK g \in [SUBSET S -> Int] : g[{}] = 0 /\ Upto(g, n)
    BY <1>2
  <2> DEFINE h == [s \in SUBSET S |-> IF s = {} THEN 0
                                      ELSE v[Chosen(s)] + g[s \ {Chosen(s)}]]
  <2>2. h \in [SUBSET S -> Int]
    <3>1. \A s \in SUBSET S : s # {} => v[Chosen(s)] + g[s \ {Chosen(s)}] \in Int
      BY ChosenLeaves
    <3>2. QED
      BY <3>1
  <2>3. h[{}] = 0
    OBVIOUS
  <2>4. \A s \in SUBSET S : s # {} => h[s] = v[Chosen(s)] + g[s \ {Chosen(s)}]
    OBVIOUS
  <2> HIDE DEF h
  <2>5. ASSUME NEW s \in SUBSET S, s # {}, Cardinality(s) <= n + 1
        PROVE  h[s] = v[Chosen(s)] + h[s \ {Chosen(s)}]
    <3> DEFINE t == s \ {Chosen(s)}
    <3>1. t \in SUBSET S /\ Cardinality(t) = Cardinality(s) - 1 /\ Cardinality(s) \in Nat
      BY <2>5, ChosenLeaves
    <3>2. Cardinality(t) <= n
      BY <2>5, <3>1
    <3> HIDE DEF t
    <3>3. h[t] = g[t]
      BY <2>1, <2>3, <2>4, <3>1, <3>2
    <3>4. QED
      BY <2>4, <2>5, <3>3 DEF t
  <2>6. Upto(h, n + 1)
    BY <2>5
  <2>7. h \in Sums(n + 1)
    <3> HIDE DEF Upto
    <3>1. QED
      BY <2>2, <2>3, <2>6
  <2>8. QED
    <3> HIDE DEF Sums
    <3>1. QED
      BY <2>7
<1>3. Cardinality(S) \in Some
  <2>1. Cardinality(S) \in Nat
    BY FS_CardinalityType
  <2> HIDE DEF Some
  <2>2. QED
    BY <1>1, <1>2, <2>1, Counting
<1>4. PICK g \in [SUBSET S -> Int] : g[{}] = 0 /\ Upto(g, Cardinality(S))
  BY <1>3
<1>5. \A s \in SUBSET S : Cardinality(s) <= Cardinality(S)
  BY FS_Subset
<1>6. IsSum(g, S, v)
  BY <1>4, <1>5 DEF IsSum
<1>7. QED
  BY <1>6

\* f follows the recursion of such a sum, whatever its values.
AddsUp(f, S, v) ==
  /\ f = [s \in SUBSET S |-> f[s]]
  /\ f[{}] = 0
  /\ \A s \in SUBSET S : s # {} => f[s] = v[Chosen(s)] + f[s \ {Chosen(s)}]

\* Whatever follows the recursion is the sum.
LEMMA SumIsUnique ==
  ASSUME NEW S, IsFiniteSet(S), NEW v \in [S -> Int], NEW g, IsSum(g, S, v),
         NEW f, AddsUp(f, S, v)
  PROVE  f = g
<1> DEFINE Same(s) == f[s] = g[s]
           N == {n \in Nat : \A s \in SUBSET S : Cardinality(s) = n => Same(s)}
<1>1. 0 \in N
  <2>1. \A s \in SUBSET S : Cardinality(s) = 0 => s = {}
    BY FS_Subset, FS_EmptySet
  <2>2. QED
    BY <2>1 DEF IsSum, AddsUp
<1>2. ASSUME NEW n \in Nat, n \in N
      PROVE  n + 1 \in N
  <2> SUFFICES ASSUME NEW s \in SUBSET S, Cardinality(s) = n + 1
               PROVE  Same(s)
    <3> HIDE DEF Same
    <3>1. QED
      OBVIOUS
  <2> DEFINE t == s \ {Chosen(s)}
  <2>1. s # {}
    <3> HIDE DEF N, t
    <3>1. s = {} => Cardinality(s) = 0
      BY FS_EmptySet, Zenon
    <3>2. n + 1 # 0
      OBVIOUS
    <3>3. QED
      BY <3>1, <3>2, Zenon
  <2>2. t \in SUBSET S /\ Cardinality(t) = n
    <3>1. t \in SUBSET S /\ Cardinality(t) = Cardinality(s) - 1
      BY <2>1, ChosenLeaves
    <3> HIDE DEF N, t
    <3>2. QED
      BY <3>1
  <2>3. f[t] = g[t]
    <3> HIDE DEF t
    <3>1. QED
      BY <1>2, <2>2
  <2>4. QED
    BY <2>1, <2>3 DEF IsSum, AddsUp
<1>3. \A s \in SUBSET S : f[s] = g[s]
  <2> SUFFICES ASSUME NEW s \in SUBSET S
               PROVE  f[s] = g[s]
    OBVIOUS
  <2>1. Cardinality(s) \in Nat
    BY FS_Subset, FS_CardinalityType
  <2>2. Cardinality(s) \in N
    <3> HIDE DEF N
    <3>1. QED
      BY <1>1, <1>2, <2>1, Counting
  <2>3. QED
    BY <2>2
<1>4. g = [s \in SUBSET S |-> g[s]]
  BY DEF IsSum
<1>5. [s \in SUBSET S |-> f[s]] = [s \in SUBSET S |-> g[s]]
  BY <1>3
<1>6. QED
  BY <1>4, <1>5 DEF AddsUp

\* A sum lies where its terms lie.
LEMMA SumBetween ==
  ASSUME NEW S, IsFiniteSet(S), NEW v \in [S -> Int], NEW w \in [S -> Int],
         NEW low \in Int, NEW high \in Int,
         \A i \in S : low * w[i] <= v[i] /\ v[i] <= high * w[i],
         NEW V, IsSum(V, S, v), NEW W, IsSum(W, S, w)
  PROVE  low * W[S] <= V[S] /\ V[S] <= high * W[S]
<1> DEFINE Between(s) == low * W[s] <= V[s] /\ V[s] <= high * W[s]
           N == {n \in Nat : \A s \in SUBSET S : Cardinality(s) = n => Between(s)}
<1>1. V \in [SUBSET S -> Int] /\ W \in [SUBSET S -> Int]
  BY DEF IsSum
<1>2. 0 \in N
  <2>1. \A s \in SUBSET S : Cardinality(s) = 0 => s = {}
    BY FS_Subset, FS_EmptySet
  <2>2. Between({})
    BY DEF IsSum
  <2>3. QED
    BY <2>1, <2>2
<1>3. ASSUME NEW n \in Nat, n \in N
      PROVE  n + 1 \in N
  <2> SUFFICES ASSUME NEW s \in SUBSET S, Cardinality(s) = n + 1
               PROVE  Between(s)
    OBVIOUS
  <2> DEFINE x == Chosen(s)
             t == s \ {x}
  <2>0. Cardinality({}) = 0
    BY FS_EmptySet
  <2>1. s # {}
    <3> HIDE DEF Between, N, x, t
    <3>1. s = {} => Cardinality(s) = 0
      BY <2>0, Zenon
    <3>2. n + 1 # 0
      OBVIOUS
    <3>3. QED
      BY <3>1, <3>2, Zenon
  <2>2. x \in S /\ t \in SUBSET S /\ Cardinality(t) = n
    <3>1. x \in s /\ t \in SUBSET S /\ Cardinality(t) = Cardinality(s) - 1
      BY <2>1, ChosenLeaves
    <3> HIDE DEF Between, N, x, t
    <3>2. QED
      BY <3>1
  <2>3. Between(t)
    <3> HIDE DEF Between, x, t
    <3>1. QED
      BY <1>3, <2>2
  <2>4. V[s] = v[x] + V[t] /\ W[s] = w[x] + W[t]
    BY <2>1 DEF IsSum
  <2>5. /\ v[x] \in Int /\ w[x] \in Int /\ V[t] \in Int /\ W[t] \in Int
        /\ low * w[x] <= v[x] /\ v[x] <= high * w[x]
    BY <1>1, <2>2
  <2> DEFINE a == v[x]
             b == w[x]
             c == V[t]
             d == W[t]
  <2>6. /\ a \in Int /\ b \in Int /\ c \in Int /\ d \in Int
        /\ low * b <= a /\ a <= high * b /\ low * d <= c /\ c <= high * d
        /\ V[s] = a + c /\ W[s] = b + d
    BY <2>3, <2>4, <2>5
  <2> HIDE DEF a, b, c, d, x, t
  <2>7. low * (b + d) = low * b + low * d /\ high * (b + d) = high * b + high * d
    BY <2>6
  <2>8. low * b \in Int /\ low * d \in Int /\ high * b \in Int /\ high * d \in Int
    BY <2>6
  <2>9. low * (b + d) <= a + c /\ a + c <= high * (b + d)
    BY <2>6, <2>7, <2>8
  <2>10. QED
    BY <2>6, <2>9
<1>4. Cardinality(S) \in N
  <2>1. Cardinality(S) \in Nat
    BY FS_CardinalityType
  <2> HIDE DEF N
  <2>2. QED
    BY <1>2, <1>3, <2>1, Counting
<1>5. QED
  BY <1>4
-----------------------------------------------------------------------------
(* The score of a submission *)

Weights(a) == [i \in Items |-> EffectiveWeight(i, a[i])]

Terms(a) == [i \in Items |-> EffectiveValue(a[i]) * EffectiveWeight(i, a[i])]

\* A weight is a natural number, and zero if the item does not count.
LEMMA TermFacts ==
  ASSUME NEW a \in Answers, NEW i \in Items
  PROVE  /\ EffectiveWeight(i, a[i]) \in Nat
         /\ EffectiveValue(a[i]) \in Int
         /\ EffectiveWeight(i, a[i]) # 0
              => a[i] # Absent \/ Template[i].strategy = "ZERO_FILL"
<1>1. a[i] \in Int \cup {Absent}
  BY CyclesAssumption
<1>2. Template[i] \in TemplateItem
  BY ScoringAssumption
<1>3. Template[i].weight \in Nat /\ Template[i].strategy \in Strategies
  BY <1>2 DEF TemplateItem
<1>4. EffectiveWeight(i, a[i]) \in Nat
  BY <1>3 DEF EffectiveWeight
<1>5. EffectiveValue(a[i]) \in Int
  BY <1>1 DEF EffectiveValue
<1>6. EffectiveWeight(i, a[i]) # 0
        => a[i] # Absent \/ Template[i].strategy = "ZERO_FILL"
  BY <1>3 DEF EffectiveWeight, Strategies
<1>7. QED
  BY <1>4, <1>5, <1>6

LEMMA TermsTyped ==
  ASSUME NEW a \in Answers
  PROVE  Weights(a) \in [Items -> Int] /\ Terms(a) \in [Items -> Int]
<1>1. \A i \in Items : EffectiveWeight(i, a[i]) \in Int
  BY TermFacts
<1>2. \A i \in Items : EffectiveValue(a[i]) * EffectiveWeight(i, a[i]) \in Int
  <2> SUFFICES ASSUME NEW i \in Items
               PROVE  EffectiveValue(a[i]) * EffectiveWeight(i, a[i]) \in Int
    OBVIOUS
  <2>1. EffectiveWeight(i, a[i]) \in Int /\ EffectiveValue(a[i]) \in Int
    BY TermFacts
  <2>2. QED
    BY <2>1
<1>3. QED
  BY <1>1, <1>2 DEF Weights, Terms

\* The two folds of Score are sums in this sense.
LEMMA ScoreSums ==
  ASSUME NEW a \in Answers, NEW p
  PROVE  \E g, h : /\ IsSum(g, Items, Terms(a)) /\ Score(a, p).sum = g[Items]
                   /\ IsSum(h, Items, Weights(a)) /\ Score(a, p).weight = h[Items]
<1> DEFINE f[s \in SUBSET Items] ==
             IF s = {} THEN 0
             ELSE LET x == CHOOSE y \in s : TRUE
                  IN EffectiveValue(a[x]) * EffectiveWeight(x, a[x]) + f[s \ {x}]
           e[s \in SUBSET Items] ==
             IF s = {} THEN 0
             ELSE LET x == CHOOSE y \in s : TRUE
                  IN EffectiveWeight(x, a[x]) + e[s \ {x}]
<1>0. \A s \in SUBSET Items : s # {} => Chosen(s) \in Items
  BY ChosenLeaves, ScoringAssumption
<1>1. Score(a, p).sum = f[Items] /\ Score(a, p).weight = e[Items]
  BY DEF Score, MapThenSumSet, MapThenFoldSet
<1>2. IsSum(f, Items, Terms(a))
  <2>1. PICK g : IsSum(g, Items, Terms(a))
    BY TermsTyped, SumExists, ScoringAssumption
  <2>2. g = [s \in SUBSET Items |->
               IF s = {} THEN 0
               ELSE LET x == CHOOSE y \in s : TRUE
                    IN EffectiveValue(a[x]) * EffectiveWeight(x, a[x]) + g[s \ {x}]]
    <3> DEFINE G(s) == IF s = {} THEN 0
                       ELSE EffectiveValue(a[Chosen(s)]) * EffectiveWeight(Chosen(s), a[Chosen(s)])
                              + g[s \ {Chosen(s)}]
    <3>1. \A s \in SUBSET Items : g[s] = G(s)
      BY <2>1, <1>0 DEF IsSum, Terms, Weights
    <3>2. g = [s \in SUBSET Items |-> G(s)]
      <4> HIDE DEF G
      <4>1. g \in [SUBSET Items -> Int]
        BY <2>1 DEF IsSum
      <4>2. QED
        BY <3>1, <4>1
    <3>3. QED
      BY <3>2 DEF Chosen
  <2>3. f = [s \in SUBSET Items |->
               IF s = {} THEN 0
               ELSE LET x == CHOOSE y \in s : TRUE
                    IN EffectiveValue(a[x]) * EffectiveWeight(x, a[x]) + f[s \ {x}]]
    BY <2>2
  <2> HIDE DEF f
  <2>4. f = [s \in SUBSET Items |->
               IF s = {} THEN 0
               ELSE EffectiveValue(a[Chosen(s)]) * EffectiveWeight(Chosen(s), a[Chosen(s)])
                      + f[s \ {Chosen(s)}]]
    BY <2>3 DEF Chosen
  <2>5. \A s \in SUBSET Items : s # {} =>
          f[s] = Terms(a)[Chosen(s)] + f[s \ {Chosen(s)}]
    BY <1>0, <2>4 DEF Terms, Weights
  <2>6. f[{}] = 0 /\ f = [s \in SUBSET Items |-> f[s]]
    BY <2>4
  <2>7. f = g
    <3>1. Terms(a) \in [Items -> Int] /\ IsFiniteSet(Items)
      BY TermsTyped, ScoringAssumption
    <3> HIDE DEF e, f
    <3>2. AddsUp(f, Items, Terms(a))
      BY <2>5, <2>6 DEF AddsUp
    <3>3. QED
      BY <2>1, <3>1, <3>2, SumIsUnique
  <2>8. QED
    BY <2>1, <2>7
<1>3. IsSum(e, Items, Weights(a))
  <2>1. PICK g : IsSum(g, Items, Weights(a))
    BY TermsTyped, SumExists, ScoringAssumption
  <2>2. g = [s \in SUBSET Items |->
               IF s = {} THEN 0
               ELSE LET x == CHOOSE y \in s : TRUE
                    IN EffectiveWeight(x, a[x]) + g[s \ {x}]]
    <3> DEFINE G(s) == IF s = {} THEN 0
                       ELSE EffectiveWeight(Chosen(s), a[Chosen(s)])
                              + g[s \ {Chosen(s)}]
    <3>1. \A s \in SUBSET Items : g[s] = G(s)
      BY <2>1, <1>0 DEF IsSum, Terms, Weights
    <3>2. g = [s \in SUBSET Items |-> G(s)]
      <4> HIDE DEF G
      <4>1. g \in [SUBSET Items -> Int]
        BY <2>1 DEF IsSum
      <4>2. QED
        BY <3>1, <4>1
    <3>3. QED
      BY <3>2 DEF Chosen
  <2>3. e = [s \in SUBSET Items |->
               IF s = {} THEN 0
               ELSE LET x == CHOOSE y \in s : TRUE
                    IN EffectiveWeight(x, a[x]) + e[s \ {x}]]
    BY <2>2
  <2> HIDE DEF e
  <2>4. e = [s \in SUBSET Items |->
               IF s = {} THEN 0
               ELSE EffectiveWeight(Chosen(s), a[Chosen(s)])
                      + e[s \ {Chosen(s)}]]
    BY <2>3 DEF Chosen
  <2>5. \A s \in SUBSET Items : s # {} =>
          e[s] = Weights(a)[Chosen(s)] + e[s \ {Chosen(s)}]
    BY <1>0, <2>4 DEF Terms, Weights
  <2>6. e[{}] = 0 /\ e = [s \in SUBSET Items |-> e[s]]
    BY <2>4
  <2>7. e = g
    <3>1. Weights(a) \in [Items -> Int] /\ IsFiniteSet(Items)
      BY TermsTyped, ScoringAssumption
    <3> HIDE DEF e, f
    <3>2. AddsUp(e, Items, Weights(a))
      BY <2>5, <2>6 DEF AddsUp
    <3>3. QED
      BY <2>1, <3>1, <3>2, SumIsUnique
  <2>8. QED
    BY <2>1, <2>7
<1>4. QED
  BY <1>1, <1>2, <1>3

LEMMA TimesWeight ==
  ASSUME NEW x \in Int, NEW y \in Int, NEW w \in Nat, x <= y
  PROVE  x * w <= y * w /\ x * w \in Int /\ y * w \in Int
<1>1. y - x \in Nat
  OBVIOUS
<1>2. (y - x) * w \in Nat
  BY <1>1
<1>3. (y - x) * w = y * w - x * w
  OBVIOUS
<1>4. x * w \in Int /\ y * w \in Int
  OBVIOUS
<1> DEFINE a == x * w
           b == y * w
           c == (y - x) * w
<1>5. a \in Int /\ b \in Int /\ c \in Nat /\ c = b - a
  BY <1>2, <1>3, <1>4
<1> HIDE DEF a, b, c
<1>6. a <= b
  BY <1>5
<1>7. QED
  BY <1>4, <1>6 DEF a, b

\* A score lies between the values that count in it, whatever came before.
LEMMA ScoreIsWithin ==
  ASSUME NEW a \in Answers, NEW p
  PROVE  ScoreWithin(Score(a, p))
<1> DEFINE trace == Score(a, p)
           values == Counted(trace)
<1>1. trace.raw = a
  BY DEF Score
<1>2. values \subseteq Int
  BY <1>1, TermFacts DEF Counted
<1>3. \A i \in Items : EffectiveWeight(i, a[i]) # 0 => EffectiveValue(a[i]) \in values
  BY <1>1, TermFacts DEF Counted
<1>4. PICK g, h : /\ IsSum(g, Items, Terms(a)) /\ trace.sum = g[Items]
                  /\ IsSum(h, Items, Weights(a)) /\ trace.weight = h[Items]
  BY ScoreSums
<1> HIDE DEF trace, values
<1>5. ASSUME NEW low \in values, NEW high \in values,
             \A x \in values : low <= x /\ x <= high
      PROVE  low * trace.weight <= trace.sum /\ trace.sum <= high * trace.weight
  <2>1. low \in Int /\ high \in Int
    BY <1>2
  <2>2. ASSUME NEW i \in Items
        PROVE  low * Weights(a)[i] <= Terms(a)[i] /\ Terms(a)[i] <= high * Weights(a)[i]
    <3> DEFINE w == EffectiveWeight(i, a[i])
               x == EffectiveValue(a[i])
    <3>1. w \in Nat /\ x \in Int /\ Weights(a)[i] = w /\ Terms(a)[i] = x * w
      BY TermFacts DEF Weights, Terms
    <3>2. w # 0 => low <= x /\ x <= high
      BY <1>3, <1>5
    <3> HIDE DEF w, x
    <3>3. CASE w = 0
      BY <2>1, <3>1, <3>3
    <3>4. CASE w # 0
      <4>1. low * w <= x * w /\ x * w <= high * w
        BY <2>1, <3>1, <3>2, <3>4, TimesWeight
      <4>2. QED
        BY <3>1, <4>1
    <3>5. QED
      BY <3>3, <3>4
  <2>3. Weights(a) \in [Items -> Int] /\ Terms(a) \in [Items -> Int] /\ IsFiniteSet(Items)
    BY TermsTyped, ScoringAssumption
  <2>4. low * h[Items] <= g[Items] /\ g[Items] <= high * h[Items]
    BY <1>4, <2>1, <2>2, <2>3, SumBetween
  <2>5. QED
    BY <1>4, <2>4
<1>6. QED
  BY <1>5 DEF ScoreWithin, trace, values
-----------------------------------------------------------------------------
(* Requests and what they hold *)

Phases == {"idle", "asked", "zoned", "read", "decided", "flushed"}

RequestsHeld == phase \in [Sessions -> Phases] /\ req = [s \in Sessions |-> req[s]]

\* A request's phase and contents are its own.
LEMMA EnterFacts ==
  ASSUME RequestsHeld, NEW s \in Sessions, NEW p \in Phases, NEW r, Enter(s, p, r)
  PROVE  /\ RequestsHeld'
         /\ phase'[s] = p /\ req'[s] = r
         /\ \A t \in Sessions \ {s} : phase'[t] = phase[t] /\ req'[t] = req[t]
  BY DEF Enter, RequestsHeld

LEMMA InitHeld == Init => RequestsHeld
  BY DEF Init, RequestsHeld, Phases

LEMMA NextHeld ==
  ASSUME RequestsHeld, [Next]_vars
  PROVE  RequestsHeld'
<1>1. CASE UNCHANGED vars
  BY <1>1 DEF vars, RequestsHeld
<1>2. CASE Tick
  BY <1>2 DEF Tick, RequestsHeld
<1>3. ASSUME NEW s \in Sessions, NEW p \in Phases, NEW r, Enter(s, p, r)
      PROVE  RequestsHeld'
  BY <1>3, EnterFacts
<1>4. {"idle", "asked", "zoned", "read", "decided", "flushed"} = Phases
  BY DEF Phases
<1>5. ASSUME NEW s \in Sessions,
             \/ \E c \in Offers, zone \in Zones : CreateCycle(s, c, zone)
             \/ \E inputs \in Answers : BeginSubmit(s, inputs)
             \/ \E k \in DOMAIN traces, i \in Items, x \in Corrections : BeginEdit(s, k, i, x)
             \/ \E zone \in Zones : BeginZone(s, zone)
             \/ BeginDigest(s)
      PROVE  RequestsHeld'
  <2>1. (IF user.zone = UTC THEN "asked" ELSE "zoned") \in Phases
    BY <1>4
  <2>2. QED
    BY <1>3, <1>4, <1>5, <2>1 DEF CreateCycle, BeginSubmit, BeginEdit, BeginZone, BeginDigest, Begin
<1>6. ASSUME NEW s \in Sessions,
             \/ CommitCycle(s) \/ CommitSubmit(s) \/ FlushEdit(s) \/ CommitEdit(s)
             \/ FallbackZone(s) \/ ReadClock(s) \/ ShowDigest(s) \/ FlushUser(s)
             \/ CommitDigest(s) \/ CommitZone(s) \/ Undo(s)
      PROVE  RequestsHeld'
  BY <1>3, <1>4, <1>6 DEF CommitCycle, CommitSubmit, FlushEdit, CommitEdit, FallbackZone,
     ReadClock, ShowDigest, FlushUser, CommitDigest, CommitZone, Undo, Finish
<1>7. QED
  BY <1>1, <1>2, <1>5, <1>6 DEF Next

-----------------------------------------------------------------------------
(* Deadlines *)

CycleRow(c, zone) ==
  [settings |-> c, timezone |-> zone, answer |-> EffectiveDeadline(c, c.zone)]

CycleRows == {CycleRow(c, zone) : c \in Offers, zone \in Zones}

\* Every cycle, committed or not yet, is one that was offered, answered with its deadline.
CyclesOffered ==
  /\ cycles \in Seq(CycleRows)
  /\ \A s \in Sessions : req[s].op = "cycle" =>
       /\ req[s].cycle \in Offers
       /\ req[s].timezone \in Zones
       /\ req[s].answer = EffectiveDeadline(req[s].cycle, req[s].cycle.zone)

LEMMA InitOffered == Init => CyclesOffered
  BY DEF Init, CyclesOffered, NoRequest

\* A step that commits no cycle and leaves every other request alone keeps this if the
\* request it leaves behind does.
LEMMA OfferedKept ==
  ASSUME RequestsHeld, CyclesOffered, UNCHANGED cycles,
         NEW s \in Sessions, NEW p \in Phases, NEW r, Enter(s, p, r),
         \/ r.op # "cycle"
         \/ r = req[s]
         \/ /\ r.cycle \in Offers /\ r.timezone \in Zones
            /\ r.answer = EffectiveDeadline(r.cycle, r.cycle.zone)
  PROVE  CyclesOffered'
  BY EnterFacts DEF CyclesOffered

LEMMA NextOffered ==
  ASSUME RequestsHeld, CyclesOffered, [Next]_vars
  PROVE  CyclesOffered'
<1>1. CASE UNCHANGED vars
  BY <1>1 DEF vars, CyclesOffered
<1>2. CASE Tick
  BY <1>2 DEF Tick, CyclesOffered
<1>3. {"idle", "asked", "zoned", "read", "decided", "flushed"} = Phases
  BY DEF Phases
<1>4. ASSUME NEW s \in Sessions, NEW c \in Offers, NEW zone \in Zones,
             CreateCycle(s, c, zone)
      PROVE  CyclesOffered'
  <2> DEFINE r == [op |-> "cycle", cycle |-> c, timezone |-> zone,
                   answer |-> EffectiveDeadline(c, c.zone)]
  <2>1. /\ r.cycle \in Offers /\ r.timezone \in Zones
        /\ r.answer = EffectiveDeadline(r.cycle, r.cycle.zone)
    OBVIOUS
  <2>2. Enter(s, "flushed", r) /\ UNCHANGED cycles
    BY <1>4 DEF CreateCycle, Begin
  <2> HIDE DEF r
  <2>3. QED
    BY <1>3, <2>1, <2>2, OfferedKept
<1>5. ASSUME NEW s \in Sessions, CommitCycle(s)
      PROVE  CyclesOffered'
  <2> DEFINE row == CycleRow(req[s].cycle, req[s].timezone)
  <2>1. row \in CycleRows
    BY <1>5 DEF CommitCycle, CyclesOffered, CycleRows
  <2>2. cycles' = Append(cycles, row)
    BY <1>5 DEF CommitCycle, CyclesOffered, CycleRow
  <2> HIDE DEF row
  <2>3. cycles' \in Seq(CycleRows)
    BY <2>1, <2>2, AppendProperties DEF CyclesOffered
  <2>4. Enter(s, "idle", NoRequest)
    BY <1>5 DEF CommitCycle, Finish
  <2>5. req'[s].op # "cycle" /\ \A t \in Sessions \ {s} : req'[t] = req[t]
    BY <1>3, <2>4, EnterFacts DEF NoRequest
  <2>6. QED
    BY <2>3, <2>5 DEF CyclesOffered
<1>6. ASSUME NEW s \in Sessions,
             \/ \E inputs \in Answers : BeginSubmit(s, inputs)
             \/ \E k \in DOMAIN traces, i \in Items, x \in Corrections : BeginEdit(s, k, i, x)
             \/ \E zone \in Zones : BeginZone(s, zone)
             \/ BeginDigest(s) \/ FallbackZone(s) \/ ReadClock(s) \/ ShowDigest(s)
      PROVE  CyclesOffered'
  <2>1. UNCHANGED cycles
    BY <1>6 DEF BeginSubmit, BeginEdit, BeginZone, BeginDigest, FallbackZone, ReadClock, ShowDigest
  <2>2. ASSUME NEW p \in Phases, NEW r, Enter(s, p, r), r.op # "cycle"
        PROVE  CyclesOffered'
    BY <2>1, <2>2, OfferedKept
  <2>3. ASSUME NEW inputs \in Answers, BeginSubmit(s, inputs)
        PROVE  CyclesOffered'
    BY <1>3, <2>2, <2>3 DEF BeginSubmit, Begin
  <2>4. ASSUME NEW k \in DOMAIN traces, NEW i \in Items, NEW x \in Corrections,
               BeginEdit(s, k, i, x)
        PROVE  CyclesOffered'
    BY <1>3, <2>2, <2>4 DEF BeginEdit, Begin
  <2>5. ASSUME NEW zone \in Zones, BeginZone(s, zone)
        PROVE  CyclesOffered'
    BY <1>3, <2>2, <2>5 DEF BeginZone, Begin
  <2>6. CASE BeginDigest(s)
    <3>1. (IF user.zone = UTC THEN "asked" ELSE "zoned") \in Phases
      BY <1>3
    <3>2. QED
      BY <2>2, <2>6, <3>1 DEF BeginDigest, Begin
  <2>7. CASE FallbackZone(s) \/ ReadClock(s) \/ ShowDigest(s)
    BY <1>3, <2>2, <2>7 DEF FallbackZone, ReadClock, ShowDigest
  <2>8. QED
    BY <1>6, <2>3, <2>4, <2>5, <2>6, <2>7
<1>7. ASSUME NEW s \in Sessions,
             \/ CommitSubmit(s) \/ FlushEdit(s) \/ CommitEdit(s) \/ FlushUser(s)
             \/ CommitDigest(s) \/ CommitZone(s) \/ Undo(s)
      PROVE  CyclesOffered'
  <2>1. UNCHANGED cycles
    BY <1>7 DEF CommitSubmit, FlushEdit, CommitEdit, FlushUser, CommitDigest, CommitZone, Undo
  <2>2. Enter(s, "idle", NoRequest) \/ Enter(s, "flushed", req[s])
    BY <1>7 DEF CommitSubmit, FlushEdit, CommitEdit, FlushUser, CommitDigest, CommitZone,
       Undo, Finish
  <2>3. NoRequest.op # "cycle"
    BY DEF NoRequest
  <2>4. QED
    BY <1>3, <2>1, <2>2, <2>3, OfferedKept
<1>8. QED
  BY <1>1, <1>2, <1>4, <1>5, <1>6, <1>7 DEF Next

LEMMA OfferedDeadlines == CyclesOffered => DeadlineIsNthBusinessDay
<1> SUFFICES ASSUME CyclesOffered, NEW k \in DOMAIN cycles
             PROVE  LET c == cycles[k].settings
                        enforced == EffectiveDeadline(c, UTC)
                    IN IF c.makeup /\ c.days > 0
                       THEN /\ IsMakeupDeadline(c, c.zone, cycles[k].answer)
                            /\ IsMakeupDeadline(c, UTC, enforced)
                       ELSE cycles[k].answer = c.deadline /\ enforced = c.deadline
  BY DEF DeadlineIsNthBusinessDay
<1>1. cycles[k] \in CycleRows
  BY DEF CyclesOffered
<1>2. PICK c \in Offers, zone \in Zones : cycles[k] = CycleRow(c, zone)
  BY <1>1 DEF CycleRows
<1>3. cycles[k].settings = c /\ cycles[k].answer = EffectiveDeadline(c, c.zone)
  BY <1>2 DEF CycleRow
<1>4. /\ c.deadline \in Nat /\ c.zone \in Int /\ c.days \in Nat
      /\ c.deadline + c.zone >= 0 /\ UTC \in Int /\ c.deadline + UTC >= 0
  BY CyclesAssumption DEF Settings, UTC
<1>5. CASE c.makeup /\ c.days > 0
  BY <1>3, <1>4, <1>5, MakeupDeadline
<1>6. CASE ~(c.makeup /\ c.days > 0)
  BY <1>3, <1>6 DEF EffectiveDeadline, HasMakeup
<1>7. QED
  BY <1>3, <1>5, <1>6

\* In every cycle with make-up days, the deadline that was answered and the one enforced
\* later are each the end of the business day that many business days after the
\* deadline's date, in the zone each is computed in (effective_deadline), however many
\* holidays there are and on whatever day of the week the deadline is.
THEOREM DeadlinesAreBusinessDays == Spec => []DeadlineIsNthBusinessDay
<1>1. RequestsHeld /\ CyclesOffered /\ [Next]_vars => (RequestsHeld /\ CyclesOffered)'
  BY NextHeld, NextOffered
<1>2. QED
  BY <1>1, InitHeld, InitOffered, OfferedDeadlines, PTL DEF Spec

-----------------------------------------------------------------------------
(* Traces and grades *)

Values == Int \cup {Absent}

Traces == {Score(a, p) : a \in Answers, p \in Seq(Answers)}

Hashes == {Hash(i, x) : i \in Items, x \in Values} \cup {HashOfCorrection(x) : x \in Values}

GradeRows == [present : BOOLEAN, value : Values, hash : Hashes]

\* Each submission has a trace that was scored, a row for each item and its corrections.
ScoresHeld ==
  /\ traces \in Seq(Traces)
  /\ grades \in Seq([Items -> GradeRows]) /\ Len(grades) = Len(traces)
  /\ edited \in Seq(SUBSET Items) /\ Len(edited) = Len(traces)

\* Requests score with what was committed, and correct a grade there is.
ScoresAsked ==
  \A s \in Sessions :
    /\ req[s].op = "submit" => req[s].trace \in Traces
    /\ req[s].op = "edit" => /\ req[s].sub \in DOMAIN traces
                             /\ req[s].item \in Items
                             /\ req[s].value \in Corrections

GradesTraced == \A k \in DOMAIN traces, i \in Items : GradeTraced(k, i)

ScoresInv == ScoresHeld /\ ScoresAsked /\ GradesTraced

LEMMA InitScores == Init => ScoresInv
  BY DEF Init, ScoresInv, ScoresHeld, ScoresAsked, GradesTraced, NoRequest

\* As OfferedKept, for what is asked of the scores
LEMMA AskedKept ==
  ASSUME RequestsHeld, ScoresAsked, traces' \in Seq(Traces), DOMAIN traces \subseteq DOMAIN traces',
         NEW s \in Sessions, NEW p \in Phases, NEW r, Enter(s, p, r),
         \/ r.op \notin {"submit", "edit"}
         \/ r = req[s]
         \/ r.op = "submit" /\ r.trace \in Traces
         \/ /\ r.op = "edit" /\ r.sub \in DOMAIN traces
            /\ r.item \in Items /\ r.value \in Corrections
  PROVE  ScoresAsked'
  BY EnterFacts DEF ScoresAsked

LEMMA RawIsAnswer ==
  ASSUME NEW t \in Traces
  PROVE  t.raw \in Answers
<1>1. PICK a \in Answers, p \in Seq(Answers) : t = Score(a, p)
  BY DEF Traces
<1>2. Score(a, p).raw = a
  BY DEF Score
<1>3. QED
  BY <1>1, <1>2

LEMMA PriorsAreAnswers ==
  ASSUME ScoresHeld
  PROVE  Priors \in Seq(Answers)
<1>1. \A k \in 1 .. Len(traces) : traces[k].raw \in Answers
  BY RawIsAnswer DEF ScoresHeld
<1>2. DOMAIN traces = 1 .. Len(traces) /\ Len(traces) \in Nat
  BY DEF ScoresHeld
<1>3. Priors \in [1 .. Len(traces) -> Answers]
  BY <1>1, <1>2 DEF Priors
<1>4. QED
  BY <1>2, <1>3

LEMMA GradesTyped ==
  ASSUME NEW i \in Items, NEW x \in Values, NEW g
  PROVE  Grade(i, x) \in GradeRows /\ Corrected(g, x) \in GradeRows
<1>1. Hash(i, x) \in Hashes /\ HashOfCorrection(x) \in Hashes
  BY DEF Hashes
<1>2. QED
  BY <1>1 DEF Grade, Corrected, GradeRows

\* Actions that neither hand in nor correct
LEMMA ScoresKept ==
  ASSUME RequestsHeld, ScoresInv, UNCHANGED scores,
         NEW s \in Sessions, NEW p \in Phases, NEW r, Enter(s, p, r),
         \/ r.op \notin {"submit", "edit"}
         \/ r = req[s]
         \/ r.op = "submit" /\ r.trace \in Traces
         \/ /\ r.op = "edit" /\ r.sub \in DOMAIN traces
            /\ r.item \in Items /\ r.value \in Corrections
  PROVE  ScoresInv'
<1>1. ScoresHeld'
  BY DEF ScoresInv, ScoresHeld, scores
<1>2. GradesTraced'
  BY DEF ScoresInv, GradesTraced, GradeTraced, scores
<1>3. DOMAIN traces \subseteq DOMAIN traces'
  BY DEF scores
<1>4. ScoresAsked /\ traces' \in Seq(Traces)
  BY <1>1 DEF ScoresInv, ScoresHeld
<1>5. ScoresAsked'
  BY <1>3, <1>4, AskedKept
<1>6. QED
  BY <1>1, <1>2, <1>5 DEF ScoresInv

LEMMA BeginSubmitScores ==
  ASSUME RequestsHeld, ScoresInv, NEW s \in Sessions, NEW a \in Answers, BeginSubmit(s, a)
  PROVE  ScoresInv'
<1> DEFINE r == [op |-> "submit", trace |-> Score(a, Priors)]
<1>1. Priors \in Seq(Answers)
  BY PriorsAreAnswers DEF ScoresInv
<1>2. Score(a, Priors) \in Traces
  BY <1>1 DEF Traces
<1>3. r.op = "submit" /\ r.trace \in Traces
  BY <1>2
<1>4. Enter(s, "flushed", r) /\ UNCHANGED scores /\ "flushed" \in Phases
  BY DEF BeginSubmit, Begin, Phases
<1> HIDE DEF r
<1>5. QED
  BY <1>3, <1>4, ScoresKept

\* What is handed in is graded by its trace, and nothing of it is corrected yet.
LEMMA CommitSubmitScores ==
  ASSUME RequestsHeld, ScoresInv, NEW s \in Sessions, CommitSubmit(s)
  PROVE  ScoresInv'
<1> DEFINE trace == req[s].trace
           rows == [i \in Items |-> Grade(i, trace.raw[i])]
           n == Len(traces)
<1>1. trace \in Traces
  BY DEF CommitSubmit, ScoresInv, ScoresAsked
<1>2. trace.raw \in Answers
  BY <1>1, RawIsAnswer
<1>3. \A i \in Items : trace.raw[i] \in Values
  BY <1>2, CyclesAssumption DEF Values
<1>4. rows \in [Items -> GradeRows]
  BY <1>3, GradesTyped
<1>5. /\ traces' = Append(traces, trace)
      /\ grades' = Append(grades, rows)
      /\ edited' = Append(edited, {})
      /\ Enter(s, "idle", NoRequest)
  BY DEF CommitSubmit, Finish
<1>6. /\ traces \in Seq(Traces) /\ grades \in Seq([Items -> GradeRows])
      /\ edited \in Seq(SUBSET Items) /\ Len(grades) = n /\ Len(edited) = n /\ n \in Nat
  BY DEF ScoresInv, ScoresHeld
<1>7. /\ \A i \in Items : rows[i] = Grade(i, trace.raw[i])
  OBVIOUS
<1> HIDE DEF trace, rows
<1>8. /\ traces' \in Seq(Traces) /\ Len(traces') = n + 1 /\ traces'[n + 1] = trace
      /\ \A k \in 1 .. n : traces'[k] = traces[k]
  BY <1>1, <1>5, <1>6, AppendProperties
<1>9. /\ grades' \in Seq([Items -> GradeRows]) /\ Len(grades') = n + 1 /\ grades'[n + 1] = rows
      /\ \A k \in 1 .. n : grades'[k] = grades[k]
  BY <1>4, <1>5, <1>6, AppendProperties
<1>10. /\ edited' \in Seq(SUBSET Items) /\ Len(edited') = n + 1 /\ edited'[n + 1] = {}
       /\ \A k \in 1 .. n : edited'[k] = edited[k]
  <2>1. {} \in SUBSET Items
    OBVIOUS
  <2>2. QED
    BY <1>5, <1>6, <2>1, AppendProperties
<1>11. DOMAIN traces = 1 .. n /\ DOMAIN traces' = 1 .. n + 1
  BY <1>6, <1>8
<1> HIDE DEF n
<1>12. ScoresHeld'
  BY <1>8, <1>9, <1>10 DEF ScoresHeld
<1>13. ScoresAsked'
  <2>1. DOMAIN traces \subseteq DOMAIN traces' /\ "idle" \in Phases
    BY <1>6, <1>11 DEF Phases
  <2>2. NoRequest.op \notin {"submit", "edit"}
    BY DEF NoRequest
  <2>3. QED
    BY <1>5, <1>8, <2>1, <2>2, AskedKept DEF ScoresInv
<1>14. GradesTraced'
  <2> SUFFICES ASSUME NEW k \in 1 .. n + 1, NEW i \in Items
               PROVE  GradeTraced(k, i)'
    BY <1>11 DEF GradesTraced
  <2>1. CASE k \in 1 .. n
    <3>1. GradeTraced(k, i)
      BY <1>11, <2>1 DEF ScoresInv, GradesTraced
    <3>2. grades'[k] = grades[k] /\ traces'[k] = traces[k] /\ edited'[k] = edited[k]
      BY <1>8, <1>9, <1>10, <2>1
    <3>3. QED
      BY <3>1, <3>2 DEF GradeTraced
  <2>2. CASE k = n + 1
    <3>1. grades'[k][i] = Grade(i, trace.raw[i]) /\ traces'[k] = trace /\ edited'[k] = {}
      BY <1>7, <1>8, <1>9, <1>10, <2>2
    <3>2. /\ Grade(i, trace.raw[i]).present = (trace.raw[i] # Absent)
          /\ Grade(i, trace.raw[i]).value = trace.raw[i]
          /\ Grade(i, trace.raw[i]).hash = Hash(i, trace.raw[i])
      BY DEF Grade
    <3>3. QED
      BY <3>1, <3>2, Zenon DEF GradeTraced
  <2>3. QED
    BY <1>6, <2>1, <2>2
<1>15. QED
  BY <1>12, <1>13, <1>14 DEF ScoresInv

\* A correction sets one row, with its presence and hash, and marks that item.
LEMMA CommitEditScores ==
  ASSUME RequestsHeld, ScoresInv, NEW s \in Sessions, CommitEdit(s)
  PROVE  ScoresInv'
<1> DEFINE j == req[s].sub
           item == req[s].item
           x == req[s].value
           row == [grades[j] EXCEPT ![item] = Corrected(@, x)]
           marks == edited[j] \cup {item}
           n == Len(traces)
<1>1. j \in DOMAIN traces /\ item \in Items /\ x \in Values
  BY CyclesAssumption DEF CommitEdit, ScoresInv, ScoresAsked, Values
<1>2. /\ traces \in Seq(Traces) /\ grades \in Seq([Items -> GradeRows])
      /\ edited \in Seq(SUBSET Items) /\ Len(grades) = n /\ Len(edited) = n /\ n \in Nat
      /\ DOMAIN traces = 1 .. n
  BY DEF ScoresInv, ScoresHeld
<1>3. grades[j] \in [Items -> GradeRows] /\ edited[j] \in SUBSET Items
  BY <1>1, <1>2
<1>4. row \in [Items -> GradeRows]
  BY <1>1, <1>3, GradesTyped
<1>5. marks \in SUBSET Items
  BY <1>1, <1>3
<1>6. /\ row[item] = Corrected(grades[j][item], x)
      /\ \A i \in Items \ {item} : row[i] = grades[j][i]
  BY <1>1, <1>3
<1>7. /\ grades' = [grades EXCEPT ![j] = row]
      /\ edited' = [edited EXCEPT ![j] = marks]
      /\ UNCHANGED traces
      /\ Enter(s, "idle", NoRequest)
  BY DEF CommitEdit, Finish
<1>8. marks = edited[j] \cup {item}
  OBVIOUS
<1> HIDE DEF row, marks
<1>9. /\ grades' \in Seq([Items -> GradeRows]) /\ Len(grades') = n
      /\ \A k \in 1 .. n : grades'[k] = IF k = j THEN row ELSE grades[k]
  <2>1. j \in 1 .. Len(grades)
    BY <1>1, <1>2
  <2> HIDE DEF j, n
  <2>2. QED
    BY <1>2, <1>4, <1>7, <2>1, ExceptSeq
<1>10. /\ edited' \in Seq(SUBSET Items) /\ Len(edited') = n
       /\ \A k \in 1 .. n : edited'[k] = IF k = j THEN marks ELSE edited[k]
  <2>1. j \in 1 .. Len(edited)
    BY <1>1, <1>2
  <2> HIDE DEF j, n
  <2>2. QED
    BY <1>2, <1>5, <1>7, <2>1, ExceptSeq
<1> HIDE DEF j, item, x
<1>11. ScoresHeld'
  BY <1>2, <1>7, <1>9, <1>10 DEF ScoresHeld
<1>12. ScoresAsked'
  <2>1. "idle" \in Phases /\ NoRequest.op \notin {"submit", "edit"}
    BY DEF Phases, NoRequest
  <2>2. ScoresAsked /\ DOMAIN traces \subseteq DOMAIN traces'
    BY <1>7 DEF ScoresInv
  <2>3. QED
    BY <1>2, <1>7, <2>1, <2>2, AskedKept
<1>13. GradesTraced'
  <2> SUFFICES ASSUME NEW k \in 1 .. n, NEW i \in Items
               PROVE  GradeTraced(k, i)'
    BY <1>2, <1>7 DEF GradesTraced
  <2>1. GradeTraced(k, i)
    BY <1>2 DEF ScoresInv, GradesTraced
  <2>2. CASE k = j /\ i = item
    <3>1. grades'[k][i] = Corrected(grades[j][item], x) /\ i \in edited'[k]
      BY <1>6, <1>8, <1>9, <1>10, <2>2
    <3>2. /\ Corrected(grades[j][item], x).present = (x # Absent)
          /\ Corrected(grades[j][item], x).value = x
          /\ Corrected(grades[j][item], x).hash = HashOfCorrection(x)
      BY DEF Corrected
    <3>3. QED
      BY <3>1, <3>2, Zenon DEF GradeTraced
  <2>3. CASE ~(k = j /\ i = item)
    <3>1. grades'[k][i] = grades[k][i] /\ traces'[k] = traces[k]
      BY <1>6, <1>7, <1>9, <2>3
    <3>2. i \in edited'[k] <=> i \in edited[k]
      BY <1>8, <1>10, <2>3
    <3>3. QED
      BY <2>1, <3>1, <3>2, Zenon DEF GradeTraced
  <2>4. QED
    BY <2>2, <2>3
<1>14. QED
  BY <1>11, <1>12, <1>13 DEF ScoresInv

LEMMA NextScores ==
  ASSUME RequestsHeld, ScoresInv, [Next]_vars
  PROVE  ScoresInv'
<1>1. CASE UNCHANGED vars
  BY <1>1 DEF vars, scores, ScoresInv, ScoresHeld, ScoresAsked, GradesTraced, GradeTraced
<1>2. CASE Tick
  BY <1>2 DEF Tick, scores, ScoresInv, ScoresHeld, ScoresAsked, GradesTraced, GradeTraced
<1>3. {"idle", "asked", "zoned", "read", "decided", "flushed"} = Phases
  BY DEF Phases
<1>4. ASSUME NEW s \in Sessions, NEW p \in Phases, NEW r, Enter(s, p, r),
             r.op \notin {"submit", "edit"} \/ r = req[s], UNCHANGED scores
      PROVE  ScoresInv'
  BY <1>4, ScoresKept
<1>5. ASSUME NEW s \in Sessions, NEW k \in DOMAIN traces, NEW i \in Items,
             NEW x \in Corrections, BeginEdit(s, k, i, x)
      PROVE  ScoresInv'
  <2> DEFINE r == [op |-> "edit", sub |-> k, item |-> i, value |-> x]
  <2>1. /\ r.op = "edit" /\ r.sub \in DOMAIN traces
        /\ r.item \in Items /\ r.value \in Corrections
    OBVIOUS
  <2>2. Enter(s, "read", r) /\ UNCHANGED scores
    BY <1>5 DEF BeginEdit, Begin
  <2> HIDE DEF r
  <2>3. QED
    BY <1>3, <2>1, <2>2, ScoresKept
<1>6. ASSUME NEW s \in Sessions, NEW c \in Offers, NEW zone \in Zones,
             CreateCycle(s, c, zone)
      PROVE  ScoresInv'
  BY <1>3, <1>4, <1>6 DEF CreateCycle, Begin
<1>7. ASSUME NEW s \in Sessions, NEW zone \in Zones, BeginZone(s, zone)
      PROVE  ScoresInv'
  BY <1>3, <1>4, <1>7 DEF BeginZone, Begin
<1>8. ASSUME NEW s \in Sessions, BeginDigest(s)
      PROVE  ScoresInv'
  <2>1. (IF user.zone = UTC THEN "asked" ELSE "zoned") \in Phases
    BY <1>3
  <2>2. QED
    BY <1>4, <1>8, <2>1 DEF BeginDigest, Begin
<1>9. ASSUME NEW s \in Sessions, FallbackZone(s) \/ ReadClock(s) \/ ShowDigest(s)
      PROVE  ScoresInv'
  BY <1>3, <1>4, <1>9 DEF FallbackZone, ReadClock, ShowDigest
<1>10. ASSUME NEW s \in Sessions,
              CommitCycle(s) \/ CommitDigest(s) \/ CommitZone(s) \/ Undo(s)
       PROVE  ScoresInv'
  <2>1. NoRequest.op \notin {"submit", "edit"}
    BY DEF NoRequest
  <2>2. Enter(s, "idle", NoRequest) /\ UNCHANGED scores
    BY <1>10 DEF CommitCycle, CommitDigest, CommitZone, Undo, Finish
  <2>3. QED
    BY <1>3, <1>4, <2>1, <2>2
<1>11. ASSUME NEW s \in Sessions, FlushEdit(s) \/ FlushUser(s)
       PROVE  ScoresInv'
  BY <1>3, <1>4, <1>11 DEF FlushEdit, FlushUser
<1>12. QED
  BY <1>1, <1>2, <1>5, <1>6, <1>7, <1>8, <1>9, <1>10, <1>11,
     BeginSubmitScores, CommitSubmitScores, CommitEditScores DEF Next

LEMMA ScoresExplain == ScoresInv => TracesExplainGrades
<1> SUFFICES ASSUME ScoresInv
             PROVE  TracesExplainGrades
  OBVIOUS
<1>1. ASSUME NEW k \in DOMAIN traces
      PROVE  ScoreWithin(traces[k])
  <2>1. traces[k] \in Traces
    BY DEF ScoresInv, ScoresHeld
  <2>2. PICK a \in Answers, p \in Seq(Answers) : traces[k] = Score(a, p)
    BY <2>1 DEF Traces
  <2>3. QED
    BY <2>2, ScoreIsWithin
<1>2. QED
  BY <1>1 DEF TracesExplainGrades, ScoresInv, GradesTraced

\* However corrections and submissions overlap: a grade no audit row mentions is the one
\* its trace was computed from, any grade is as present and hashed as its value
\* (edit_grade), and every score lies between the values that count in it (score_submission).
THEOREM GradesAreExplained == Spec => []TracesExplainGrades
<1>1. RequestsHeld /\ ScoresInv /\ [Next]_vars => (RequestsHeld /\ ScoresInv)'
  BY NextHeld, NextScores
<1>2. QED
  BY <1>1, InitHeld, InitScores, ScoresExplain, PTL DEF Spec

-----------------------------------------------------------------------------
(* Digests *)

Deciding(s) == req[s].op = "digest" /\ phase[s] \in {"decided", "flushed"}

Shows == [date : Int, zone : Int, read : Nat, at : Int]

\* It is past nine of that date.
Reached(date, zone, t) == date * DayLength + Nine <= t + zone

DigestsHeld ==
  /\ user = [zone |-> user.zone, shown |-> user.shown] /\ user.zone \in Int
  /\ now \in Int
  /\ shows \in Seq(Shows)
  /\ \A s \in Sessions : req[s].op \in {"zone", "digest"} => req[s].zone \in Int

\* A digest of the date today was not the last one of those seen when the user was read.
Unseen(seen, today, read) == read > 0 => seen[read].date # today

\* What is known of a request for a digest once it has taken the time, and read the user
DigestsAsked ==
  \A s \in Sessions :
    /\ req[s].op = "digest" /\ phase[s] \in {"read", "decided", "flushed"} =>
         req[s].today \in Int /\ Reached(req[s].today, req[s].zone, now)
    /\ Deciding(s) => req[s].read \in 0 .. Len(shows) /\ Unseen(shows, req[s].today, req[s].read)

\* What is known of a digest once it is shown
DigestsShown ==
  /\ \A n \in DOMAIN shows :
       /\ shows[n].read \in 0 .. n - 1
       /\ Unseen(shows, shows[n].date, shows[n].read)
       /\ Reached(shows[n].date, shows[n].zone, shows[n].at)
       /\ shows[n].at <= now
  /\ \A m, n \in DOMAIN shows : m <= n => shows[m].at <= shows[n].at
  /\ shows # <<>> => user.shown = shows[Len(shows)].date

DigestsInv == DigestsHeld /\ DigestsAsked /\ DigestsShown

LEMMA InitDigests == Init => DigestsInv
<1> SUFFICES ASSUME Init
             PROVE  DigestsInv
  OBVIOUS
<1>1. \A s \in Sessions : req[s].op = "none"
  BY DEF Init, NoRequest
<1>2. DigestsHeld
  BY <1>1, CyclesAssumption DEF Init, DigestsHeld, UTC
<1>3. DigestsAsked
  BY <1>1 DEF DigestsAsked, Deciding
<1>4. DigestsShown
  BY DEF Init, DigestsShown
<1>5. QED
  BY <1>2, <1>3, <1>4 DEF DigestsInv

\* Actions that show nothing, and the request they leave behind
LEMMA DigestsEntered ==
  ASSUME RequestsHeld, DigestsInv, UNCHANGED <<now, shows>>,
         user' = [zone |-> user'.zone, shown |-> user.shown], user'.zone \in Int,
         NEW s \in Sessions, NEW p \in Phases, NEW r, Enter(s, p, r),
         r.op \in {"zone", "digest"} => r.zone \in Int,
         r.op = "digest" /\ p \in {"read", "decided", "flushed"} =>
           r.today \in Int /\ Reached(r.today, r.zone, now),
         r.op = "digest" /\ p \in {"decided", "flushed"} =>
           r.read \in 0 .. Len(shows) /\ Unseen(shows, r.today, r.read)
  PROVE  DigestsInv'
<1>1. /\ phase'[s] = p /\ req'[s] = r
      /\ \A t \in Sessions \ {s} : phase'[t] = phase[t] /\ req'[t] = req[t]
  BY EnterFacts
<1>2. user'.shown = user.shown /\ user' = [zone |-> user'.zone, shown |-> user'.shown]
  OBVIOUS
<1>3. DigestsHeld'
  BY <1>1, <1>2 DEF DigestsInv, DigestsHeld
<1>4. DigestsAsked'
  <2>1. ASSUME NEW t \in Sessions, req'[t].op = "digest",
               phase'[t] \in {"read", "decided", "flushed"}
        PROVE  req'[t].today \in Int /\ Reached(req'[t].today, req'[t].zone, now)
    BY <1>1, <2>1 DEF DigestsInv, DigestsAsked
  <2>2. ASSUME NEW t \in Sessions, Deciding(t)'
        PROVE  req'[t].read \in 0 .. Len(shows) /\ Unseen(shows, req'[t].today, req'[t].read)
    BY <1>1, <2>2 DEF DigestsInv, DigestsAsked, Deciding
  <2>3. QED
    BY <2>1, <2>2 DEF DigestsAsked, Unseen, Reached
<1>5. DigestsShown'
  BY <1>2 DEF DigestsInv, DigestsShown, Unseen, Reached
<1>6. QED
  BY <1>3, <1>4, <1>5 DEF DigestsInv

\* What it was past nine of, it still is.
LEMMA TickDigests ==
  ASSUME RequestsHeld, DigestsInv, Tick
  PROVE  DigestsInv'
<1>1. now \in Int /\ now' = now + 1 /\ UNCHANGED <<user, shows, phase, req>>
  BY DEF Tick, digests, DigestsInv, DigestsHeld
<1>2. DigestsHeld'
  BY <1>1 DEF DigestsInv, DigestsHeld
<1>3. ASSUME NEW d \in Int, NEW zone \in Int, Reached(d, zone, now)
      PROVE  Reached(d, zone, now')
  <2>1. d * DayLength + Nine \in Int
    BY DayAssumption, CyclesAssumption
  <2>2. QED
    BY <1>1, <1>3, <2>1 DEF Reached
<1>4. DigestsAsked'
  <2>1. ASSUME NEW s \in Sessions, req[s].op = "digest", phase[s] \in {"read", "decided", "flushed"}
        PROVE  req[s].today \in Int /\ Reached(req[s].today, req[s].zone, now')
    BY <1>3, <2>1 DEF DigestsInv, DigestsHeld, DigestsAsked
  <2>2. ASSUME NEW s \in Sessions, Deciding(s)
        PROVE  req[s].read \in 0 .. Len(shows) /\ Unseen(shows, req[s].today, req[s].read)
    BY <2>2 DEF DigestsInv, DigestsAsked
  <2>3. QED
    BY <1>1, <2>1, <2>2 DEF DigestsAsked, Deciding, Unseen, Reached
<1>5. DigestsShown'
  <2>1. \A n \in DOMAIN shows : shows[n].at \in Int
    <3>1. \A n \in DOMAIN shows : shows[n] \in Shows
      BY DEF DigestsInv, DigestsHeld
    <3>2. QED
      BY <3>1 DEF Shows
  <2>2. \A n \in DOMAIN shows : shows[n].at <= now'
    BY <1>1, <2>1 DEF DigestsInv, DigestsShown
  <2>3. QED
    BY <1>1, <2>2 DEF DigestsInv, DigestsShown, Unseen, Reached
<1>6. QED
  BY <1>2, <1>4, <1>5 DEF DigestsInv

\* The local time a request takes is past nine of its date.
LEMMA ReadClockDigests ==
  ASSUME RequestsHeld, DigestsInv, NEW s \in Sessions, ReadClock(s)
  PROVE  DigestsInv'
<1> DEFINE zone == req[s].zone
           today == LocalDate(now, zone)
           r == [op |-> "digest", zone |-> zone, today |-> today]
<1>1. /\ ~ BeforeNine(zone) /\ Enter(s, "read", r) /\ UNCHANGED <<user, shows, now>>
      /\ req[s].op = "digest"
  BY DEF ReadClock, digests
<1>2. now \in Int /\ zone \in Int /\ user = [zone |-> user.zone, shown |-> user.shown]
      /\ user.zone \in Int
  BY <1>1 DEF DigestsInv, DigestsHeld
<1>3. today \in Int /\ Reached(today, zone, now)
  <2> DEFINE a == now + zone
             L == DayLength
  <2>1. a \in Int /\ L \in Nat \ {0} /\ Nine \in Nat
    BY <1>2, DayAssumption, CyclesAssumption
  <2>2. ~ (a % L < Nine)
    BY <1>1 DEF BeforeNine
  <2> HIDE DEF a, L
  <2>3. a \div L \in Int /\ a % L \in Int /\ a = L * (a \div L) + (a % L)
    BY <2>1
  <2>4. (a \div L) * L = L * (a \div L)
    BY <2>1, <2>3
  <2>5. (a \div L) * L + Nine <= a
    BY <2>1, <2>2, <2>3, <2>4
  <2>6. QED
    BY <2>3, <2>5 DEF LocalDate, Reached, a, L
<1>4. r.op = "digest" /\ r.zone = zone /\ r.today = today
  OBVIOUS
<1>5. "read" \in Phases
  BY DEF Phases
<1> HIDE DEF r, today
<1>6. QED
  BY <1>1, <1>2, <1>3, <1>4, <1>5, DigestsEntered

\* The user is read: the digest of today is not the last one shown.
LEMMA ShowDigestDigests ==
  ASSUME RequestsHeld, DigestsInv, NEW s \in Sessions, ShowDigest(s)
  PROVE  DigestsInv'
<1> DEFINE r == [op |-> "digest", zone |-> req[s].zone, today |-> req[s].today,
                 read |-> Len(shows), writes |-> TRUE]
<1>1. /\ Enter(s, "decided", r) /\ UNCHANGED <<user, shows, now>>
      /\ phase[s] = "read" /\ req[s].op = "digest" /\ user.shown # req[s].today
  BY DEF ShowDigest, digests
<1>2. /\ r.op = "digest" /\ r.zone = req[s].zone /\ r.today = req[s].today
      /\ r.read = Len(shows)
  OBVIOUS
<1>3. /\ req[s].zone \in Int /\ req[s].today \in Int /\ Reached(req[s].today, req[s].zone, now)
      /\ user = [zone |-> user.zone, shown |-> user.shown] /\ user.zone \in Int
  BY <1>1 DEF DigestsInv, DigestsHeld, DigestsAsked
<1>4. Len(shows) \in Nat /\ (Len(shows) > 0 => shows # <<>>)
  BY DEF DigestsInv, DigestsHeld
<1>5. Unseen(shows, req[s].today, Len(shows))
  BY <1>1, <1>4 DEF DigestsInv, DigestsShown, Unseen
<1>6. "decided" \in Phases
  BY DEF Phases
<1> HIDE DEF r
<1>7. r.read \in 0 .. Len(shows)
  BY <1>2, <1>4
<1>8. QED
  BY <1>1, <1>2, <1>3, <1>5, <1>6, <1>7, DigestsEntered

\* The digest joins those that were shown, and its date is stamped.
LEMMA CommitDigestDigests ==
  ASSUME RequestsHeld, DigestsInv, NEW s \in Sessions, CommitDigest(s)
  PROVE  DigestsInv'
<1> DEFINE r == req[s]
           d == [date |-> r.today, zone |-> r.zone, read |-> r.read, at |-> now]
           last == Len(shows) + 1
<1>1. /\ user' = [user EXCEPT !.shown = r.today] /\ shows' = Append(shows, d)
      /\ Enter(s, "idle", NoRequest) /\ UNCHANGED now
      /\ phase[s] = "flushed" /\ r.op = "digest" /\ Deciding(s)
  BY DEF CommitDigest, Finish, Deciding, Stamp
<1>2. /\ r.zone \in Int /\ r.today \in Int /\ Reached(r.today, r.zone, now)
      /\ r.read \in 0 .. Len(shows) /\ Unseen(shows, r.today, r.read)
      /\ now \in Int /\ shows \in Seq(Shows)
      /\ user = [zone |-> user.zone, shown |-> user.shown] /\ user.zone \in Int
  BY <1>1 DEF DigestsInv, DigestsHeld, DigestsAsked
<1>3. /\ d.date = r.today /\ d.zone = r.zone /\ d.read = r.read /\ d.at = now
      /\ d \in Shows
  BY <1>2 DEF Shows
<1>4. user'.shown = r.today /\ user' = [zone |-> user'.zone, shown |-> user'.shown]
      /\ user'.zone \in Int
  BY <1>1, <1>2
<1> HIDE DEF d, r
<1>5. /\ shows' \in Seq(Shows) /\ Len(shows') = last /\ Len(shows) \in Nat
      /\ \A n \in 1 .. Len(shows) : shows'[n] = shows[n]
      /\ shows'[last] = d
  BY <1>1, <1>2, <1>3, AppendProperties
<1>6. /\ DOMAIN shows = 1 .. Len(shows) /\ DOMAIN shows' = 1 .. last /\ shows' # <<>>
      /\ last \in Nat /\ last > 0
  BY <1>1, <1>2, <1>5
<1>7. \A n \in DOMAIN shows : shows'[n] = shows[n] /\ n < last
  BY <1>5, <1>6
<1>8. \A n \in DOMAIN shows' : n \in DOMAIN shows \/ n = last
  BY <1>6
<1>9. "idle" \in Phases /\ NoRequest.op = "none"
  BY DEF Phases, NoRequest
<1>10. /\ req'[s].op = "none"
       /\ \A t \in Sessions \ {s} : phase'[t] = phase[t] /\ req'[t] = req[t]
  BY <1>1, <1>9, EnterFacts
<1>11. DigestsHeld'
  BY <1>1, <1>2, <1>4, <1>5, <1>10 DEF DigestsInv, DigestsHeld
\* What was unseen among the earlier digests still is.
<1>12. ASSUME NEW today, NEW read \in 0 .. Len(shows), Unseen(shows, today, read)
       PROVE  Unseen(shows', today, read)
  BY <1>5, <1>12 DEF Unseen
<1>13. DigestsAsked'
  <2>1. ASSUME NEW t \in Sessions, req'[t].op = "digest",
               phase'[t] \in {"read", "decided", "flushed"}
        PROVE  req'[t].today \in Int /\ Reached(req'[t].today, req'[t].zone, now)
    BY <1>10, <2>1 DEF DigestsInv, DigestsAsked
  <2>2. ASSUME NEW t \in Sessions, Deciding(t)'
        PROVE  req'[t].read \in 0 .. Len(shows') /\ Unseen(shows', req'[t].today, req'[t].read)
    <3>1. t # s /\ req'[t] = req[t] /\ Deciding(t)
      BY <1>10, <2>2 DEF Deciding
    <3>2. req[t].read \in 0 .. Len(shows) /\ Unseen(shows, req[t].today, req[t].read)
      BY <3>1 DEF DigestsInv, DigestsAsked
    <3>3. QED
      BY <1>5, <1>12, <3>1, <3>2 DEF Unseen
  <2>3. QED
    BY <1>1, <2>1, <2>2 DEF DigestsAsked, Reached
<1>14. DigestsShown'
  <2>1. ASSUME NEW n \in DOMAIN shows
        PROVE  /\ shows'[n].read \in 0 .. n - 1 /\ Unseen(shows', shows'[n].date, shows'[n].read)
               /\ Reached(shows'[n].date, shows'[n].zone, shows'[n].at)
               /\ shows'[n].at <= now /\ shows[n].at \in Int
    <3>1. /\ shows[n].read \in 0 .. n - 1 /\ Unseen(shows, shows[n].date, shows[n].read)
          /\ Reached(shows[n].date, shows[n].zone, shows[n].at)
          /\ shows[n].at <= now
      BY DEF DigestsInv, DigestsShown
    <3>2. shows[n].read \in 0 .. Len(shows)
      BY <1>5, <1>6, <3>1
    <3>3. shows[n].at \in Int
      <4>1. shows[n] \in Shows
        BY <1>2
      <4>2. QED
        BY <4>1 DEF Shows
    <3>4. QED
      BY <1>7, <1>12, <3>1, <3>2, <3>3 DEF Unseen
  <2>2. /\ shows'[last].read \in 0 .. last - 1
        /\ Unseen(shows', shows'[last].date, shows'[last].read)
        /\ Reached(shows'[last].date, shows'[last].zone, shows'[last].at)
        /\ shows'[last].at <= now /\ shows'[last].at = now
    <3>1. Unseen(shows', r.today, r.read)
      BY <1>5, <1>2 DEF Unseen
    <3>2. QED
      BY <1>2, <1>3, <1>5, <3>1 DEF Unseen
  <2>3. ASSUME NEW m \in DOMAIN shows', NEW n \in DOMAIN shows', m <= n
        PROVE  shows'[m].at <= shows'[n].at
    <3>1. CASE n \in DOMAIN shows
      <4>1. m \in DOMAIN shows
        BY <1>5, <1>6, <2>3, <3>1
      <4>2. QED
        BY <1>7, <2>3, <3>1, <4>1 DEF DigestsInv, DigestsShown
    <3>2. CASE n = last
      BY <1>2, <1>8, <2>1, <2>2, <3>2
    <3>3. QED
      BY <1>8, <3>1, <3>2
  <2>4. user'.shown = shows'[Len(shows')].date
    BY <1>3, <1>4, <1>5
  <2>5. ASSUME NEW n \in DOMAIN shows'
        PROVE  /\ shows'[n].read \in 0 .. n - 1
               /\ Unseen(shows', shows'[n].date, shows'[n].read)
               /\ Reached(shows'[n].date, shows'[n].zone, shows'[n].at)
               /\ shows'[n].at <= now
    BY <1>8, <2>1, <2>2
  <2>6. QED
    BY <1>1, <2>3, <2>4, <2>5 DEF DigestsShown, Reached, Unseen
<1>15. QED
  BY <1>11, <1>13, <1>14 DEF DigestsInv

LEMMA ZonesAreOffsets ==
  ASSUME CyclesOffered
  PROVE  \A k \in DOMAIN cycles : cycles[k].timezone \in Int
<1> SUFFICES ASSUME NEW k \in DOMAIN cycles
             PROVE  cycles[k].timezone \in Int
  OBVIOUS
<1>1. cycles[k] \in CycleRows
  BY DEF CyclesOffered
<1>2. PICK c \in Offers, zone \in Zones : cycles[k] = CycleRow(c, zone)
  BY <1>1 DEF CycleRows
<1>3. QED
  BY <1>2, CyclesAssumption DEF CycleRow

LEMMA NextDigests ==
  ASSUME RequestsHeld, CyclesOffered, DigestsInv, [Next]_vars
  PROVE  DigestsInv'
<1>1. CASE UNCHANGED vars
  BY <1>1 DEF vars, digests, DigestsInv, DigestsHeld, DigestsAsked, DigestsShown, Deciding,
              Unseen, Reached
<1>2. {"idle", "asked", "zoned", "read", "decided", "flushed"} = Phases
  BY DEF Phases
<1>3. user = [zone |-> user.zone, shown |-> user.shown] /\ user.zone \in Int
  BY DEF DigestsInv, DigestsHeld
<1>4. ASSUME NEW s \in Sessions, NEW p \in Phases, NEW r, Enter(s, p, r),
             UNCHANGED <<digests, now>>, r.op # "digest", r.op = "zone" => r.zone \in Int
      PROVE  DigestsInv'
  BY <1>3, <1>4, DigestsEntered DEF digests
<1>5. ASSUME NEW s \in Sessions, NEW p \in {"asked", "zoned"}, NEW r, Enter(s, p, r),
             UNCHANGED <<digests, now>>, r.op = "digest", r.zone \in Int
      PROVE  DigestsInv'
  BY <1>2, <1>3, <1>5, DigestsEntered DEF digests
<1>6. ASSUME NEW s \in Sessions, NEW c \in Offers, NEW zone \in Zones,
             CreateCycle(s, c, zone)
      PROVE  DigestsInv'
  BY <1>2, <1>4, <1>6 DEF CreateCycle, Begin
<1>7. ASSUME NEW s \in Sessions, NEW a \in Answers, BeginSubmit(s, a)
      PROVE  DigestsInv'
  BY <1>2, <1>4, <1>7 DEF BeginSubmit, Begin
<1>8. ASSUME NEW s \in Sessions, NEW k \in DOMAIN traces, NEW i \in Items,
             NEW x \in Corrections, BeginEdit(s, k, i, x)
      PROVE  DigestsInv'
  BY <1>2, <1>4, <1>8 DEF BeginEdit, Begin
<1>9. ASSUME NEW s \in Sessions, NEW zone \in Zones, BeginZone(s, zone)
      PROVE  DigestsInv'
  <2> DEFINE r == [op |-> "zone", zone |-> zone, writes |-> zone # user.zone]
  <2>1. r.zone \in Int /\ r.op = "zone"
    BY CyclesAssumption
  <2>2. Enter(s, "decided", r) /\ UNCHANGED <<digests, now>>
    BY <1>9 DEF BeginZone, Begin
  <2> HIDE DEF r
  <2>3. QED
    BY <1>2, <1>4, <2>1, <2>2
<1>10. ASSUME NEW s \in Sessions, CommitCycle(s) \/ CommitSubmit(s) \/ CommitEdit(s) \/ Undo(s)
       PROVE  DigestsInv'
  <2>1. NoRequest.op = "none"
    BY DEF NoRequest
  <2>2. Enter(s, "idle", NoRequest) /\ UNCHANGED <<digests, now>>
    BY <1>10 DEF CommitCycle, CommitSubmit, CommitEdit, Undo, Finish
  <2>3. QED
    BY <1>2, <1>4, <2>1, <2>2
<1>11. ASSUME NEW s \in Sessions, FlushEdit(s)
       PROVE  DigestsInv'
  BY <1>2, <1>4, <1>11 DEF FlushEdit
<1>12. ASSUME NEW s \in Sessions, FlushUser(s)
       PROVE  DigestsInv'
  <2>1. phase[s] = "decided" /\ Enter(s, "flushed", req[s]) /\ UNCHANGED <<user, shows, now>>
    BY <1>12 DEF FlushUser, digests
  <2>2. req[s].op = "digest" => /\ req[s].today \in Int /\ Reached(req[s].today, req[s].zone, now)
                                /\ req[s].read \in 0 .. Len(shows)
                                /\ Unseen(shows, req[s].today, req[s].read)
    BY <2>1 DEF DigestsInv, DigestsAsked, Deciding
  <2>3. req[s].op \in {"zone", "digest"} => req[s].zone \in Int
    BY DEF DigestsInv, DigestsHeld
  <2>4. QED
    BY <1>2, <1>3, <2>1, <2>2, <2>3, DigestsEntered
<1>13. ASSUME NEW s \in Sessions, BeginDigest(s)
       PROVE  DigestsInv'
  <2> DEFINE p == IF user.zone = UTC THEN "asked" ELSE "zoned"
             r == [op |-> "digest", zone |-> user.zone]
  <2>1. Enter(s, p, r) /\ UNCHANGED <<digests, now>>
    BY <1>13 DEF BeginDigest, Begin
  <2>2. p \in {"asked", "zoned"} /\ r.op = "digest" /\ r.zone \in Int
    BY <1>3
  <2> HIDE DEF p, r
  <2>3. QED
    BY <1>5, <2>1, <2>2
<1>14. ASSUME NEW s \in Sessions, FallbackZone(s)
       PROVE  DigestsInv'
  <2>1. PICK zone \in IF cycles = <<>> THEN {UTC} ELSE {cycles[k].timezone : k \in DOMAIN cycles} :
          Enter(s, "zoned", [op |-> "digest", zone |-> zone])
    BY <1>14 DEF FallbackZone
  <2>2. UNCHANGED <<digests, now>>
    BY <1>14 DEF FallbackZone
  <2>3. zone \in Int
    BY <2>1, ZonesAreOffsets DEF UTC
  <2> DEFINE r == [op |-> "digest", zone |-> zone]
  <2>4. Enter(s, "zoned", r) /\ r.op = "digest" /\ r.zone = zone
    BY <2>1
  <2> HIDE DEF r
  <2>5. QED
    BY <1>5, <2>2, <2>3, <2>4
<1>15. ASSUME NEW s \in Sessions, CommitZone(s)
       PROVE  DigestsInv'
  <2>1. /\ req[s].op = "zone" /\ UNCHANGED <<shows, now>> /\ Enter(s, "idle", NoRequest)
        /\ user' = IF req[s].writes THEN [user EXCEPT !.zone = req[s].zone] ELSE user
    BY <1>15 DEF CommitZone, Finish
  <2>2. req[s].zone \in Int
    BY <2>1 DEF DigestsInv, DigestsHeld
  <2>3. user' = [zone |-> user'.zone, shown |-> user.shown] /\ user'.zone \in Int
    BY <1>3, <2>1, <2>2
  <2>4. NoRequest.op = "none"
    BY DEF NoRequest
  <2>5. QED
    BY <1>2, <2>1, <2>3, <2>4, DigestsEntered
<1>16. QED
  BY <1>1, <1>6, <1>7, <1>8, <1>9, <1>10, <1>11, <1>12, <1>13, <1>14, <1>15,
     TickDigests, ReadClockDigests, ShowDigestDigests, CommitDigestDigests DEF Next

\* A day that has been reached before the end of another is not after it.
LEMMA DatesInOrder ==
  ASSUME NEW a \in Int, NEW b \in Int, NEW zone \in Int, NEW t \in Int, NEW u \in Int,
         Reached(a, zone, t), t <= u, ~ Reached(b + 1, zone, u)
  PROVE  a <= b
<1>1. /\ DayLength \in Nat /\ Nine \in Nat
      /\ a * DayLength \in Int /\ (b + 1) * DayLength \in Int
  BY DayAssumption, CyclesAssumption
<1>2. a * DayLength < (b + 1) * DayLength
  BY <1>1 DEF Reached
<1>3. ~ (b + 1 <= a)
  <2>1. SUFFICES ASSUME b + 1 <= a PROVE FALSE
    OBVIOUS
  <2>2. (b + 1) * DayLength <= a * DayLength
    BY <1>1, <2>1, TimesWeight
  <2>3. QED
    BY <1>1, <1>2, <2>2
<1>4. QED
  BY <1>3

\* While the zone stays and no digest is belated, dates follow each other: what the request
\* of the later digest found to be the last one shown is not before the earlier digest, nor
\* after its own date, and it is not its own date.
LEMMA DigestsOnce == DigestsInv => OneDigestADay
<1> SUFFICES ASSUME DigestsInv, NEW m \in DOMAIN shows, NEW n \in DOMAIN shows,
                    m <= shows[n].read, shows[m].date = shows[n].date,
                    \A k \in m + 1 .. n : shows[k].zone = shows[m].zone /\ ~ Belated(shows[k])
             PROVE  FALSE
  BY DEF OneDigestADay
<1> DEFINE r == shows[n].read
<1>1. /\ \A k \in DOMAIN shows : shows[k] \in Shows
      /\ DOMAIN shows = 1 .. Len(shows) /\ Len(shows) \in Nat
  BY DEF DigestsInv, DigestsHeld
<1>2. \A k \in DOMAIN shows : /\ shows[k].date \in Int /\ shows[k].zone \in Int
                              /\ shows[k].at \in Int /\ shows[k].read \in Nat
  BY <1>1 DEF Shows
<1>3. r \in 0 .. n - 1 /\ Unseen(shows, shows[n].date, r)
  BY DEF DigestsInv, DigestsShown
<1>4. r \in Nat /\ r > 0 /\ r \in DOMAIN shows /\ m <= r /\ r < n
  BY <1>1, <1>3
<1>5. shows[r].date # shows[n].date
  BY <1>3, <1>4 DEF Unseen
<1>6. r \in m + 1 .. n /\ n \in m + 1 .. n
  BY <1>1, <1>4, <1>5
<1> HIDE DEF r
<1>7. /\ shows[m].at <= shows[r].at /\ shows[r].at <= shows[n].at
      /\ Reached(shows[m].date, shows[m].zone, shows[m].at)
      /\ Reached(shows[r].date, shows[r].zone, shows[r].at)
  BY <1>1, <1>4 DEF DigestsInv, DigestsShown
<1>8. /\ shows[r].zone = shows[m].zone /\ shows[n].zone = shows[m].zone
      /\ ~ Reached(shows[r].date + 1, shows[m].zone, shows[r].at)
      /\ ~ Reached(shows[n].date + 1, shows[m].zone, shows[n].at)
  <2>1. \A k \in DOMAIN shows : ~ Belated(shows[k]) => ~ Reached(shows[k].date + 1, shows[k].zone, shows[k].at)
    BY <1>2, DayAssumption, CyclesAssumption DEF Belated, Reached
  <2>2. QED
    BY <1>4, <1>6, <2>1
<1>9. shows[m].date <= shows[r].date
  BY <1>2, <1>4, <1>7, <1>8, DatesInOrder
<1>10. shows[r].date <= shows[n].date
  BY <1>2, <1>4, <1>7, <1>8, DatesInOrder
<1>11. QED
  BY <1>2, <1>4, <1>5, <1>9, <1>10

\* However many sessions a user has and however long their requests take, a digest that was
\* shown is shown again on its day only to a request that had read the user before, as long
\* as the zone stays and no digest arrives past nine of the next day (build_digest, get_digest).
THEOREM DigestsComeOnceADay == Spec => []OneDigestADay
<1> DEFINE Inv == RequestsHeld /\ CyclesOffered /\ DigestsInv
<1>1. Init => Inv
  BY InitHeld, InitOffered, InitDigests
<1>2. Inv /\ [Next]_vars => Inv'
  BY NextHeld, NextOffered, NextDigests
<1>3. Inv => OneDigestADay
  BY DigestsOnce
<1>4. QED
  BY <1>1, <1>2, <1>3, PTL DEF Spec
=============================================================================
