CONSTANTS
  Resource <- MCResource
  Name <- MCName
  Inputs <- MCInputs
SPECIFICATION Spec
INVARIANTS
  TypeOK
  EveryMembershipJudged
  OnePlanPerMembership
  HeldIsNotRequested
  ArgumentsDecide
  ClientPlanAgrees
