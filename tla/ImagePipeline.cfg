SPECIFICATION FairSpec
CONSTANTS
  Operations <- MCOperations
  Techniques <- MCTechniques
  Types <- DataTypes
  Inputs <- MCInputs
  OutputOf <- MCOutputOf
  Plans <- MCPlans
  Limits <- MCLimits
  NoLimit = NoLimit
  Input = Input
  MaxRetries = 1
  MaxAttempts = 1
  MaxRuns = 2
INVARIANTS
  BuiltIsValid
PROPERTIES
  EveryRunEnds
