CONSTANTS
  Resource <- MCResource
  Name <- MCName
  Inputs <- MCInputs
SPECIFICATION Spec
INVARIANT
  ExpiringArePlanned
