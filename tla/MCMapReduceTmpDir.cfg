\* doReduce renames its temp file from os.TempDir() into the working directory:
\* with the two on different file systems no reduce job can ever finish.
CONSTANTS
  w1 = w1
  w2 = w2
  w3 = w3
  Workers <- MCWorkers
  InputSizes <- MCInputSizes
  MapInputSize = 2
  UnreadableFile = 0
  NReduce = 2
  MapIdBase = 1000
  MapRequeuePolls = 1
  ReduceRequeuePolls = 1
  MaxCrashes = 1
  MaxFailures = 1
  HandlersImplemented = TRUE
  TempDirOtherFs = TRUE
  WorkersStartEarly = FALSE
  MaxLostCalls = 1
  GetJobMayFail = FALSE
  StaleFiles <- NoStaleFiles
  DirScanMayFail = FALSE
SPECIFICATION Spec
PROPERTY JobTerminates
