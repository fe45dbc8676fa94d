\* Two administrators decide on restores of one archive.
CONSTANTS
  s1 = s1  s2 = s2  k1 = k1  k2 = k2
  Admins = {s1, s2}
  Scheduler = Scheduler
  Keys = {k1, k2}
  Modes = {TRUE, FALSE}
  Retention = 0
  MaxDay = 1
  MaxRequested = 1
  MaxArchives = 1
  MaxEvents = 3
  MaxFaults = 1
SPECIFICATION Spec
INVARIANTS TypeOK OneStagedEach EndsAreRecorded TrafficIsHeld MaintenanceHasCause
CHECK_DEADLOCK FALSE
