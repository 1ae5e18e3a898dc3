CONSTANTS
  Executions <- MCExecutions
  NReduce = 2
  MaxCrashes = 0
  None = None
SPECIFICATION Spec
INVARIANT FinishedFilesWhole
