CONSTANTS
  Users = {}
  Keys = {k1, k2, k3, k4}
  Attempts = {}
  Unheard = {}
  Handlers = {h1, h2}
  PlanLimits = {1}
  MaxUses = 1
  MaxBatch = 2
  None = None
SYMMETRY Symmetry
CONSTRAINT FewRevoked
SPECIFICATION Spec
INVARIANTS OversellBounded
PROPERTIES IssuedKeysProvisioned
