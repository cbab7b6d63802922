\* Objects of generated classes on their way, with headers and addressing.
CONSTANTS
  Cases <- MCCases
  KeyOrder <- MCKeyOrder
  MaxSets = 2
  MaxHeaders = 2
  Trips = 2
SPECIFICATION Spec
INVARIANTS
  ObjectArrives
  SecondTripIsLossless
  EnvelopeHeaderArrives
  RepairRepeatsHeadersOnly
CHECK_DEADLOCK FALSE
