SPECIFICATION FairSpec
CONSTANTS
  rent = rent
  water = water
  budget = budget
  forecast = forecast
  Versions <- TheVersions
  Lines <- TheLines
  Months = {1}
  Home <- TheHomes
  MaxEntries = 3
  Requests = {r1, r2}
  Hasty = FALSE
INVARIANTS
  EntriesAreKept
  ShownIsStored
PROPERTY TimedEntriesAreSaved
CHECK_DEADLOCK FALSE
