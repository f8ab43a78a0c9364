CONSTANTS
  u1 = u1
  u2 = u2
  Users = {u1}
  Scale = 2
  FreeDaily = 3
  FreeMonthly = 4
  ReplyCosts <- MCCosts
  MaxCost = 5
  GroupCost = 1
  Grants <- MCGrants
  Revocations <- MCRevocations
  MaxRevoked = 6
  GrantCap = 8
  PanelInBot = TRUE
SPECIFICATION Spec
INVARIANT TypeOK
INVARIANT FreeWithinLimits
INVARIANT DebtBounded
INVARIANT RevokeSpendsExtraFirst
