SPECIFICATION Spec
CONSTANTS
  Process = {p1, p2}
  PlanId = {i1}
  trashBody = trashBody
  purgeBody = purgeBody
  Body <- MCBody
  RiskOf <- MCRiskOf
  ApprovalId = {a1}
  Ttl <- MCTtl
  MaxClock = 1
  NoBody = NoBody
  NoRow = NoRow
  NoPlan = NoPlan
  NoToken = NoToken
SYMMETRY MCSymmetry
INVARIANT
  SingleUse
