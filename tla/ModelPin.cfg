\* Two promoters; versions and runs come from one session.
CONSTANTS
  s1 = s1  s2 = s2  h1 = h1  h2 = h2
  Registrars = {s1}
  Runners = {s1}
  Promoters = {s1, s2}
  Schemas = {h1, h2}
  NoSchema = NoSchema
  MaxVersions = 2
  MaxRuns = 2
SPECIFICATION Spec
INVARIANT ApprovedMatchLive
CHECK_DEADLOCK FALSE
