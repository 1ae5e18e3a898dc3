\* os.ReadDir may fail while MakeCoordinator lists the intermediate files of a bucket.
CONSTANTS
  w1 = w1
  w2 = w2
  w3 = w3
  Workers <- MCWorkers
  InputSizes <- MCInputSizes
  MapInputSize = 2
  UnreadableFile = 0
  NReduce = 2
  MapIdBase = 1000
  MapRequeuePolls = 1
  ReduceRequeuePolls = 1
  MaxCrashes = 1
  MaxFailures = 1
  HandlersImplemented = TRUE
  TempDirOtherFs = FALSE
  WorkersStartEarly = FALSE
  MaxLostCalls = 1
  GetJobMayFail = FALSE
  StaleFiles <- NoStaleFiles
  DirScanMayFail = TRUE
SPECIFICATION Spec
INVARIANT OutputComplete
