SPECIFICATION Spec
CONSTANTS
  r1 = r1
  r2 = r2
  b1 = b1
  b2 = b2
  k1 = k1
  k2 = k2
  Runs = {r1, r2}
  Rollbacks = {}
  Sessions <- MCSessions
  Contents <- MCContents
  Exports <- MCFewExports
  Keys = {k1}
  Offers <- MCOffers
  Empty = Empty
  Absent = Absent
  Untouched = Untouched
  NoSession = NoSession
  NoRun = NoRun
  NoExport = NoExport
  NoRow = NoRow
  Seed = Seed
  Older = Older
  MinEstablishments = 5
  MinIndicators = 20
  MinCommunes = 3
  MinMatchPercent = 95
SYMMETRY Symmetry
CHECK_DEADLOCK FALSE
INVARIANT
  OverlappingRunsAreRefused
