\* Two administrator sessions that manage the experiment and send feedback.
CONSTANTS
  s1 = s1  s2 = s2
  Managers = {s1, s2}
  Users = {s1, s2}
  Weights = {50, 100}
  Arms = {"A"}
  Limit = 1
  Window = 1
  Lag = 1
  MaxTime = 3
  MaxEvents = 3
SPECIFICATION Spec
INVARIANTS TypeOK WeightsAddUp SignalsMatchEvents BlocksMatchEvents RateBounded OneLateSignal
SYMMETRY Symmetry
CHECK_DEADLOCK FALSE
