CONSTANTS
  r1 = r1
  r2 = r2
  Resource = {r1, r2}
  Providers = 1
  Reconnecting = TRUE
SPECIFICATION FairSpec
INVARIANTS TypeOK AdmittedUnanimously AnswerHonest OnlyRefusalsRepeat NullOnlyIfClosed
PROPERTIES AdmittedSurvivesClose EventuallyAnswered NoGhosts
CHECK_DEADLOCK FALSE
