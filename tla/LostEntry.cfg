SPECIFICATION Spec
CONSTANTS
  rent = rent
  water = water
  budget = budget
  forecast = forecast
  Versions <- TheVersions
  Lines <- TheLines
  Months = {1}
  Home <- TheHomes
  MaxEntries = 2
  Requests = {r1, r2}
  Hasty = TRUE
INVARIANT EntriesAreKept
CHECK_DEADLOCK FALSE
