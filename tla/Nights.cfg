\* The scheduler, and one administrator who stages and prunes.
CONSTANTS
  s1 = s1  s2 = s2  k1 = k1  k2 = k2
  Admins = {s1}
  Scheduler = Scheduler
  Keys = {k1}
  Modes = {FALSE}
  Retention = 1
  MaxDay = 3
  MaxRequested = 1
  MaxArchives = 5
  MaxEvents = 1
  MaxFaults = 1
SPECIFICATION FairSpec
INVARIANTS RestorableOnRecord FilesOutlastRetention
PROPERTY NightlyIsRecorded
CHECK_DEADLOCK FALSE
