\* Two sessions, one cycle, four requests, ticks of eight hours from one evening to the next day.
CONSTANTS
  s1 = s1  s2 = s2  i1 = i1  i2 = i2  Absent = Absent
  DayLength = 3
  Items = {i1, i2}
  Template <- MCTemplate
  OutlierZ = 3
  MinPriors = 2
  Sessions = {s1, s2}
  Offers <- MCOffers
  Answers <- MCAnswers
  Corrections = {3, Absent}
  Zones <- MCZones
  Nine = 1
  Start = 5
  MaxTime = 7
  MaxCycles = 1
  MaxRequests = 4
SYMMETRY Symmetry
SPECIFICATION Spec
INVARIANTS DeadlineIsNthBusinessDay TracesExplainGrades OneDigestADay
CHECK_DEADLOCK FALSE
