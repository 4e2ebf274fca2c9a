SPECIFICATION ApiSpec
CONSTANTS
  r1 = r1
  b1 = b1
  q1 = q1
  q2 = q2
  Runs = {r1}
  Rollbacks = {}
  Requests = {q1}
  Endpoints = {"search"}
  PoolSize = 1
  Sessions <- MCSessions
  Contents <- MCContents
  Exports <- MCExports
  Keys = {}
  Offers <- MCOffers
  Empty = Empty
  Absent = Absent
  Untouched = Untouched
  NoSession = NoSession
  NoRun = NoRun
  NoExport = NoExport
  NoRow = NoRow
  Seed = Seed
  Older = Older
  Unread = Unread
  NoSnapshot = NoSnapshot
  MinEstablishments = 5
  MinIndicators = 20
  MinCommunes = 3
  MinMatchPercent = 95
CHECK_DEADLOCK FALSE
INVARIANT
  LoadsNeverBlockReaders
