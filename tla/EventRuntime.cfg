SPECIFICATION FairSpec
CONSTANTS
  first = first
  second = second
  empty = empty
  Requests <- MCRequests
  NoRequest = NoRequest
  EmptyPayloads <- MCEmpty
  MaxAttempts = 2
  MaxReports = 3
INVARIANTS
  TypeOK
  NeverPanics
  DiagnosisIsCurrent
PROPERTIES
  ServiceSpec
  FailureIsSettled
CHECK_DEADLOCK FALSE
