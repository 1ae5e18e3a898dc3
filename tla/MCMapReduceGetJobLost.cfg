\* One worker crashes holding a job and the other one's CallGetJob fails once
\* while the coordinator runs: no worker is left and the job never ends.
CONSTANTS
  w1 = w1
  w2 = w2
  w3 = w3
  Workers <- MCWorkers
  InputSizes <- MCInputSizes
  MapInputSize = 2
  UnreadableFile = 0
  NReduce = 2
  MapIdBase = 1000
  MapRequeuePolls = 1
  ReduceRequeuePolls = 1
  MaxCrashes = 1
  MaxFailures = 1
  HandlersImplemented = TRUE
  TempDirOtherFs = FALSE
  WorkersStartEarly = FALSE
  MaxLostCalls = 1
  GetJobMayFail = TRUE
  StaleFiles <- NoStaleFiles
  DirScanMayFail = FALSE
SPECIFICATION Spec
PROPERTY JobTerminates
