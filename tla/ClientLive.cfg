SPECIFICATION FairSpec
CONSTANTS
  c1 = c1  c2 = c2
  None = None
  Calls <- TwoCalls
  Responses <- OneAnswer
  MaxHandles = 1
PROPERTIES CallReturns DestructorReturns WatchedIsNotified
