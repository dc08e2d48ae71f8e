CONSTANTS
  RoleName <- MCRoleName
  GroupName <- MCGroupName
  Resource <- MCResource
  Permission <- MCPermission
  Label <- MCLabel
  LabelValue <- MCLabelValue
  Policies <- MCPolicies
  MaxDocs = 5
  MaxMixed = 3
SPECIFICATION Spec
INVARIANT
  DocumentOrderDecides
