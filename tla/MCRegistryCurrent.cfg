CONSTANTS
  p1 = p1
  p2 = p2
  c1 = c1
  c2 = c2
  none = none
  Process = {p1, p2}
  Context = {c1, c2}
  NoContext = none
  Pack <- MCPack
  NumFiles = 2
  Trustee <- MCTrustee
  Source <- MCSource
SPECIFICATION Spec
INVARIANT
  ImportSetsCurrent
