SPECIFICATION FairSpec
CONSTANTS
  MaxRev <- MaxRevOnce
  MaxEdited = 3
  MaxSilent = 1
  SilentEdits = {"opexRates", "opexLabels", "masterData", "history"}
  Origins = {"created", "fromSource", "cloned", "imported"}
INVARIANTS
  TypeOK
  CleanMeansCurrent
  CleanNeedsCleanUpstream
  PnlMirrorsModules
PROPERTIES
  RecalculationProgresses
  RecalculationConverges
CHECK_DEADLOCK FALSE
