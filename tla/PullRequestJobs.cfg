SPECIFICATION Spec
CONSTANTS
  c1 = c1
  c2 = c2
  e1 = e1
  e2 = e2
  j1 = j1
  j2 = j2
  Comments <- MCComments
  NoComment = NoComment
  Executions <- MCExecutions
  NoExecution = NoExecution
  Jobs <- MCJobs
  Apart = TRUE
  MaxDeliveries = 2
  MaxGates = 2
SYMMETRY MCSymmetry
INVARIANTS
  EachFollowUpRunsOnce
  OneReportPerExecution
  ReportIsCurrent
CHECK_DEADLOCK FALSE
