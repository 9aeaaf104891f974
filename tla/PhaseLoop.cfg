SPECIFICATION FairSpec
CONSTANTS
  src = src
  test = test
  old = old
  new = new
  Files <- MCFiles
  Contents <- MCContents
  InitialTree <- MCInitialTree
  TestPaths = {test}
  MarkedTests = {}
  Options = {o1, o2}
  NoOption = NoOption
  NoGate = NoGate
  NoResult = NoResult
  NoExecution = NoExecution
  Requests <- MCRequests
  MaxAttempts = 2
  MaxGates = 2
  MaxCancels = 1
  DryRuns = {FALSE, TRUE}
  MayCrash = TRUE
INVARIANTS
  TypeOK
  LogImpliesStatus
  OpenGateIsLastGate
  ProcessAgreesWithDisk
  WaitingIsResumable
  NthDecisionAnswersNthGate
  ReportIsWhatChanged
  CompletedIsValidated
  WritingTurnsHaveTheirOwnSession
PROPERTIES
  PhasesInOrder
  OnlyDeathLeavesPlaceholder
  FollowsLifecycle
  EveryProcessEnds
CHECK_DEADLOCK FALSE
