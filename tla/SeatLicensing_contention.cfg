CONSTANTS
  Users = {u1, u2}
  Keys = {k1}
  Attempts = {r1, r2}
  Unheard = {r1}
  Handlers = {}
  PlanLimits = {1}
  MaxUses = 2
  MaxBatch = 1
  None = None
SPECIFICATION FairSpec
INVARIANTS TypeOK
PROPERTIES NoRedemptionOfRevokedKey RedeemedAccountSurvives RedemptionIsAtomic RedemptionsEnd
