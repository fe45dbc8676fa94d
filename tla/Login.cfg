\* Two connections, a threshold of two failures, a window of one tick.
CONSTANTS
  c1 = c1  c2 = c2
  Tasks = {c1, c2}
  Threshold = 2
  Window = 1
  Ttl = 2
  MaxTime = 4
  MaxRequests = 4
SPECIFICATION Spec
INVARIANTS TypeOK GuessesBounded OneLateAttempt SessionsEnd PasswordIsChosen
SYMMETRY Symmetry
CHECK_DEADLOCK FALSE
