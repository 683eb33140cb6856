CONSTANTS
  Orgs = {o1}
  Admins = {a1}
  Grace = 1
  ScriptGrace = 0
  AssignedStatuses = {"active", "trialing"}
  Terms = {1}
  Year = 1
  MaxRows = 2
  MaxTime = 3
  MaxEnd = 3
SPECIFICATION FairSpec
INVARIANTS TypeOK OneCurrentSubscription
PROPERTIES FunctionAgreesWithService LapsedIsEnded
CHECK_DEADLOCK FALSE
