\* Two sessions that may each register, run and promote.
CONSTANTS
  s1 = s1  s2 = s2  h1 = h1  h2 = h2
  Registrars = {s1, s2}
  Runners = {s1, s2}
  Promoters = {s1, s2}
  Schemas = {h1, h2}
  NoSchema = NoSchema
  MaxVersions = 3
  MaxRuns = 2
SPECIFICATION Spec
INVARIANTS TypeOK VersionsNumbered LiveIsOfApproved EvaluatedBeforeApproval
SYMMETRY Symmetry
CHECK_DEADLOCK FALSE
