CONSTANTS
  MaxFiles = 3
  MaxFileSize = 5
  MaxChunk = 3
SPECIFICATION Spec
INVARIANT SplitMatchesReference
