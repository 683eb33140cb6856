CONSTANTS
  Users = {u1, u2}
  Keys = {k1, k2}
  Attempts = {r1, r2}
  Unheard = {}
  Handlers = {}
  PlanLimits = {2}
  MaxUses = 1
  MaxBatch = 1
  None = None
SYMMETRY Symmetry
CONSTRAINT Narrow
SPECIFICATION Spec
INVARIANTS RedemptionsWithinMaxUses AtMostOneElectedOwner RedeemedIsMember
