\* Two reviewer sessions decide on the same submission.
CONSTANTS
  s1 = s1  s2 = s2  i1 = i1  i2 = i2
  Evaluators = {s1}
  Reviewers = {s1, s2}
  Managers = {}
  Ids = {i1, i2}
  NoId = NoId
  Values = {empty}
  EmptyDraft = empty
  Deadline = 1
  EffectiveDeadline = 2
  MakeupEnabled = TRUE
  MaxTime = 1
  MaxSubmissions = 1
SPECIFICATION Spec
PROPERTY ArchivedIsTerminal
CHECK_DEADLOCK FALSE
