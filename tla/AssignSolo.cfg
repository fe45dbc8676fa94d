\* One evaluator session and one reviewer session; the roster is left alone.
CONSTANTS
  s1 = s1  s2 = s2  i1 = i1  i2 = i2
  Evaluators = {s1}
  Reviewers = {s2}
  Managers = {}
  Ids = {i1, i2}
  NoId = NoId
  Values = {empty, full}
  EmptyDraft = empty
  Deadline = 1
  EffectiveDeadline = 2
  MakeupEnabled = TRUE
  MaxTime = 3
  MaxSubmissions = 3
SPECIFICATION Spec
INVARIANTS DraftIsSubmitted FlagMeansLate SubmissionsAnswerReturns
PROPERTY ImplementsLifecycle
CHECK_DEADLOCK FALSE
