SPECIFICATION PagesSpec
CONSTANTS
  lycee = lycee
  college = college
  school = school
  p1 = p1
  p2 = p2
  mill = mill
  here = here
  there = there
  None = None
  Blank = Blank
  ShortTexts = {}
  Collation <- MCCollation
  MaxLimit = 100
  DefaultLimit = 20
  MaxRadius = 100
  Malformed = Malformed
  Unreadable = Unreadable
  Absent = Absent
  ReformYear = 2
  DirectoryExports <- MCDirectoryExports
  IndicatorOffers <- MCIndicatorOffers
  Routes <- MCRoutes
  MaxWrites = 2
  MaxOpens = 3
CHECK_DEADLOCK FALSE

INVARIANTS
  LinesJoinOneSeries
