SPECIFICATION Spec
CONSTANTS
  c1 = c1  c2 = c2
  None = None
  Calls <- TwoCalls
  Responses <- AllResponses
  MaxHandles = 2
SYMMETRY SymmetricCalls
INVARIANTS TypeOK AnswerIsReplys TaskAlive BlockedWhileWorking JarOfMain QuietCancel SharedWhileOwned
