CONSTANTS
  Tabs = {{ann}, {bob}}
  Savers = {ann}
  Managers = {bob}
  Revisers = {bob}
  Families = {f1}
  Chosen = {"sent"}
  MaxVersion = 3
  MaxRows = 2
  MaxTroubles = 0
CONSTRAINTS NoneLeft ManagersUpToDate
SPECIFICATION Spec
INVARIANTS WholeUnlessRevised
PROPERTIES KeepsPromise
