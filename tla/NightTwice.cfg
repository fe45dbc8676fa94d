\* No faults: the scheduler, and one administrator who stages one restore.
CONSTANTS
  s1 = s1  s2 = s2  k1 = k1  k2 = k2
  Admins = {s1}
  Scheduler = Scheduler
  Keys = {k1}
  Modes = {TRUE}
  Retention = 0
  MaxDay = 2
  MaxRequested = 1
  MaxArchives = 4
  MaxEvents = 1
  MaxFaults = 0
SPECIFICATION Spec
INVARIANT OneNightlyArchive
CHECK_DEADLOCK FALSE
