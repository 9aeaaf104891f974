SPECIFICATION Spec
CONSTANTS
  src = src
  test = test
  old = old
  new = new
  Files <- MCFiles
  Contents <- MCContents
  InitialTree <- MCInitialTree
  TestPaths = {test}
  MarkedTests = {}
  Options = {o1}
  NoOption = NoOption
  NoGate = NoGate
  NoResult = NoResult
  NoExecution = NoExecution
  Requests <- MCTestRequests
  MaxAttempts = 2
  MaxGates = 1
  MaxCancels = 1
  DryRuns = {FALSE}
  MayCrash = FALSE
INVARIANT
  TestRunKeepsItsScope
CHECK_DEADLOCK FALSE
