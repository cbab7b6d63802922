\* The header of KDSoapJob promises finished() once a job is done.
CONSTANTS
  Inputs <- MCInputs
  MaxDepth = 4
  UpperFirst <- MCUpperFirst
  Identifiers <- MCIdentifiers
  Values = {u, v}
  EndPoints = {"set"}
  Versions = {"1.1"}
SPECIFICATION Spec
INVARIANT
  JobsEmitFinished
CHECK_DEADLOCK FALSE
