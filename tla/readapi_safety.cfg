SPECIFICATION ApiSpec
CONSTANTS
  r1 = r1
  b1 = b1
  q1 = q1
  q2 = q2
  Runs = {r1}
  Rollbacks = {b1}
  Requests = {q1, q2}
  Endpoints = {"fact_sheet", "assistant"}
  PoolSize = 1
  Sessions <- MCSessions
  Contents <- MCContents
  Exports <- MCExports
  Keys = {}
  Offers <- MCOffers
  Empty = Empty
  Absent = Absent
  Untouched = Untouched
  NoSession = NoSession
  NoRun = NoRun
  NoExport = NoExport
  NoRow = NoRow
  Seed = Seed
  Older = Older
  Unread = Unread
  NoSnapshot = NoSnapshot
  MinEstablishments = 5
  MinIndicators = 20
  MinCommunes = 3
  MinMatchPercent = 95
SYMMETRY Symmetry
CHECK_DEADLOCK FALSE
INVARIANTS
  ResponsesShowOneLoad
  ResponsesAreOnRecord
