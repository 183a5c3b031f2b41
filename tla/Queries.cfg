SPECIFICATION MCSpec
CONSTANTS
  Capacity = 3
  Multiplier = 2
  ScanMax = 3
  Readers = {r1, r2}
  Limits = {1, 3}
  Matching <- MCMatching
  MaxSpots = 6
  s1 = s1
  t1 = t1
  p = p
SYMMETRY Symmetry
INVARIANTS NewestFirst NothingMissed RampHonoured LookupsAreSound PredictionsRestOnReports
 
CHECK_DEADLOCK FALSE
