\* Safety of the coordinator/worker protocol with stragglers, crashes and failures.
CONSTANTS
  w1 = w1
  w2 = w2
  w3 = w3
  Workers <- MCWorkers
  InputSizes <- MCInputSizes
  MapInputSize = 2
  UnreadableFile = 0
  NReduce = 2
  MapIdBase = 1000
  MapRequeuePolls = 1
  ReduceRequeuePolls = 1
  MaxCrashes = 1
  MaxFailures = 1
  HandlersImplemented = TRUE
  TempDirOtherFs = FALSE
  WorkersStartEarly = FALSE
  MaxLostCalls = 1
  GetJobMayFail = TRUE
  StaleFiles <- NoStaleFiles
  DirScanMayFail = FALSE
SPECIFICATION Spec
SYMMETRY WorkerSymmetry
INVARIANT TypeOK
INVARIANT ReduceInputComplete
INVARIANT OutputComplete
PROPERTY JobRefinement
