\* Every job finishes and every live worker exits, under the fairness of the
\* coordinator's poll loop and of the live workers' loops (no symmetry: liveness);
\* CallGetJob does not fail while the coordinator runs.
CONSTANTS
  w1 = w1
  w2 = w2
  w3 = w3
  Workers <- MCWorkers
  InputSizes <- MCInputSizes
  MapInputSize = 2
  UnreadableFile = 0
  NReduce = 2
  MapIdBase = 1000
  MapRequeuePolls = 1
  ReduceRequeuePolls = 1
  MaxCrashes = 1
  MaxFailures = 1
  HandlersImplemented = TRUE
  TempDirOtherFs = FALSE
  WorkersStartEarly = FALSE
  MaxLostCalls = 1
  GetJobMayFail = FALSE
  StaleFiles <- NoStaleFiles
  DirScanMayFail = FALSE
SPECIFICATION Spec
PROPERTY JobTerminates
