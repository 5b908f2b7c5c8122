SPECIFICATION RequestSpec
CONSTANTS
  MaxRev <- MaxRevPricing
  MaxEdited = 1
  MaxSilent = 0
  SilentEdits = {}
  Origins = {"created"}
  Requests = {r1, r2}
  Ops <- LostMarkOps
INVARIANT CleanMeansCurrent
CHECK_DEADLOCK FALSE
