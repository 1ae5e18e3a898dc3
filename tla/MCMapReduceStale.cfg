\* An intermediate file of an earlier run is still in the working directory.
CONSTANTS
  w1 = w1
  w2 = w2
  w3 = w3
  Workers <- MCWorkers
  InputSizes <- MCInputSizes
  MapInputSize = 2
  UnreadableFile = 0
  NReduce = 2
  MapIdBase = 1000
  MapRequeuePolls = 1
  ReduceRequeuePolls = 1
  MaxCrashes = 1
  MaxFailures = 1
  HandlersImplemented = TRUE
  TempDirOtherFs = FALSE
  WorkersStartEarly = FALSE
  MaxLostCalls = 1
  GetJobMayFail = FALSE
  StaleFiles <- MCStaleFiles
  DirScanMayFail = FALSE
SPECIFICATION Spec
INVARIANT ReduceInputComplete
