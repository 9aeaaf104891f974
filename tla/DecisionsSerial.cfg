SPECIFICATION FairSpec
CONSTANTS
  file = file
  Files <- MCFiles
  Contents = {content}
  TestPaths = {}
  MarkedTests = {}
  Options = {o1, o2}
  NoOption = NoOption
  NoGate = NoGate
  NoResult = NoResult
  NoExecution = NoExecution
  NoComment = NoComment
  Processes = {p1}
  Comments = {c1}
  OneAtATime = TRUE
  MayCrash = TRUE
  MaxGates = 3
  MaxCancels = 1
  MaxDeliveries = 2
  MaxAnswers = 3
INVARIANTS
  EachCommentDecidesOnce
PROPERTIES
  LogOnlyGrows
  FollowsLifecycle
  MarkedCommentDecides
CHECK_DEADLOCK FALSE
