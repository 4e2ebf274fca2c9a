SPECIFICATION AssistantSpec
CONSTANTS
  t1 = t1
  t2 = t2
  v0 = v0
  v1 = v1
  w = w
  x = x
  lycee = lycee
  moulin = moulin
  lyon = lyon
  nord = nord
  arles = arles
  nice = nice
  bref = bref
  p1 = p1
  p2 = p2
  c1 = c1
  c2 = c2
  c3 = c3
  d = d
  u1 = u1
  u2 = u2
  u3 = u3
  u4 = u4
  None = None
  Blank = Blank
  Invalid = Invalid
  Threads = {t1, t2}
  Versions = {v0, v1}
  Data <- MCData
  Queries <- MCQueries
  Interpretations <- MCInterpretations
  Supported <- MCSupported
  ShortTexts <- MCShortTexts
  LongTexts = {}
  Postcodes <- MCPostcodes
  Collation <- MCCollation
  MaxLimit = 100
  MaxRadius = 100
  MaxCommuneLimit = 20
  DefaultLimit = 20
  DefaultCommuneLimit = 10
  DefaultRadius = 10
  CacheKeys <- MCCacheKeys
  MaxEntries = 1
  Ttl = 2
  MaxClock = 2
  NoEntry = NoEntry
  NoQuery = NoQuery
  NoIntent = NoIntent
  NoVersion = NoVersion
SYMMETRY Symmetry
INVARIANTS
  AssistantTypeOK
  NothingIsInvented
  OnlyAcceptedIntentsAreCached
  IntentsMatchTheirData
  RankingRequestsAreAnswered
  PlacesAreNotGuessed
  AcceptedIntentsAreSearchable
  OrderIsAsStated
  PagesNeverOverlap
  CacheIsBounded
  ServedIntentsAreYoung
