\* Loading, generating and using the generated code, for each of the inputs.
CONSTANTS
  Inputs <- MCInputs
  MaxDepth = 4
  UpperFirst <- MCUpperFirst
  Identifiers <- MCIdentifiers
  Values = {u, v}
  EndPoints = {"set"}
  Versions = {"1.1"}
SPECIFICATION FairSpec
INVARIANTS
  ImportsFlattened
  KeptTypesAreNeeded
  ConflictsResolved
  CallsReachTheirMethod
  ResultsComeBack
PROPERTY
  GeneratorExits
CHECK_DEADLOCK FALSE
