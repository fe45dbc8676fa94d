\* Two sessions, one document of each kind, three versions, one link.
CONSTANTS
  s1 = s1  s2 = s2  plan = plan  template = template  rules = rules  b1 = b1  b2 = b2
  Plans = {plan}
  Templates = {template}
  RuleSets = {rules}
  Bodies = {b1, b2}
  Sessions = {s1, s2}
  Admins = {s1, s2}
  Days = {0, 3}
  MaxDays = 1
  MaxTime = 2
  MaxVersions = 3
  MaxLinks = 1
SYMMETRY Symmetry
SPECIFICATION Spec
INVARIANTS TypeOK OneLateOpening
PROPERTY ImplementsHistory
CHECK_DEADLOCK FALSE
