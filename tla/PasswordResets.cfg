CONSTANTS
  Forms = {f1, f2}
  Reviewers = {v1, v2}
  MaxRequests = 2
  MaxFailures = 1
SPECIFICATION FairResetSpec
INVARIANTS ResetTypeOK UndisturbedDecisions OnePendingUnlessHurried
PROPERTIES ApprovalsSettle
CHECK_DEADLOCK FALSE
