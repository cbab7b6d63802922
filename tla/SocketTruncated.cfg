SPECIFICATION Spec
CONSTANTS
  Scripts <- OneTruncated
  Pipelining <- WaitsForReplies
  FileSizes = {2}
  IntMax = 127
  multiPartOverhead = 2
  BoundarySize = 3
  PartHeadSize = 4
INVARIANT EveryRequestIsAnswered
