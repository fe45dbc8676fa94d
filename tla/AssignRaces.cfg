\* Two sessions that may each act as evaluator, reviewer and manager, as an
\* administrator's may: any two requests can race.
CONSTANTS
  s1 = s1  s2 = s2  i1 = i1  i2 = i2
  Evaluators = {s1, s2}
  Reviewers = {s1, s2}
  Managers = {s1, s2}
  Ids = {i1, i2}
  NoId = NoId
  Values = {empty}
  EmptyDraft = empty
  Deadline = 1
  EffectiveDeadline = 2
  MakeupEnabled = TRUE
  MaxTime = 3
  MaxSubmissions = 1
SPECIFICATION FairSpec
INVARIANTS TypeOK HandedInHasSubmission NoOrphanSubmission LateIsFlagged OneRowPerEvaluator
           RosterIsAudited
PROPERTY RequestsEnd
CHECK_DEADLOCK FALSE
