SPECIFICATION RequestSpec
CONSTANTS
  MaxRev <- MaxRevOnce
  MaxEdited = 2
  MaxSilent = 1
  SilentEdits = {"opexRates", "opexLabels", "masterData", "history"}
  Origins = {"created", "cloned"}
  Requests = {r1}
  Ops <- AllOps
PROPERTY AtomicPipeline
CHECK_DEADLOCK FALSE
