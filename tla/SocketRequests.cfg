SPECIFICATION FairSpec
CONSTANTS
  Scripts <- AnyScript
  Pipelining = {TRUE, FALSE}
  FileSizes <- Sizes
  IntMax = 127
  multiPartOverhead = 2
  BoundarySize = 3
  PartHeadSize = 4
INVARIANTS RequestsIntact OneReplyEach AnswersOwnCall RangesServed HandledIsAnswered
PROPERTIES NoConcurrentCall ImplementsExchange LeftUnreadIsRead
