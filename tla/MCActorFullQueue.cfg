CONSTANTS
  QueueSize = 3
  Programs <- FullQueueProgram
SPECIFICATION Spec
INVARIANT FullQueueRejected
