------------------------ MODULE EstablishmentRecords ------------------------
(***************************************************************************)
(* What the rows of the sources become on their way to a page: the         *)
(* adapters' grouping and rejections, the append of indicator rows, the    *)
(* figures of the fact sheet, the history with its methodology breaks and  *)
(* the lines of its chart, and the comparison.                             *)
(*                                                                         *)
(* A directory row is [uai, key, site, offers]: key stands for the three   *)
(* fields rows are sorted on, site is the site EstablishmentSearch         *)
(* describes.  An indicator row is [uai, year, type, value, added]: value  *)
(* stands for whichever rate is looked at, added for the value added       *)
(* published beside it.  A data store is [rows, directory, sources].       *)
(***************************************************************************)
EXTENDS EstablishmentSearch

CONSTANTS
  Malformed,   \* an identifier parse_uai rejects
  Unreadable,  \* a year parse_year rejects
  Absent,      \* a figure the source did not publish
  ReformYear   \* the year of IVAL_BACCALAUREAT_REFORM

IndicatorTypes == {"IVAC", "IVAL_GT", "IVAL_PRO"}
Datasets == IndicatorTypes \cup {"directory"}

\* ORDER BY indicator_type, and sorting on indicator_type.value.
TypeRank(t) == CASE t = "IVAC" -> 1 [] t = "IVAL_GT" -> 2 [] t = "IVAL_PRO" -> 3

-----------------------------------------------------------------------------
(* The directory.                                                          *)

RowsOf(export, u) == Selected(export, {i \in DOMAIN export : export[i].uai = u})

\* Mutant: the group is left in the order of the export.
Unsorted(group) == group

\* Python's sort is stable: rows with one key stay in the order of the export.
Sorted(group) ==
  LET order == {e \in (DOMAIN group) \X (DOMAIN group) :
                  \/ group[e[1]].key < group[e[2]].key
                  \/ group[e[1]].key = group[e[2]].key /\ e[1] < e[2]}
      places == InOrder(DOMAIN group, order)
  IN [k \in DOMAIN group |-> group[places[k]]]

\* Mutant: a dictionary in which the last row of an identifier wins.
LastSiteOnly(export, u) ==
  LET last == Last(RowsOf(export, u))
  IN [sites |-> <<last.site>>, offers |-> last.offers]

\* One establishment; its first site gives it its name, type and state.
Establishment(export, u) ==
  LET ordered == Sorted(RowsOf(export, u))
  IN [sites  |-> [k \in DOMAIN ordered |-> ordered[k].site],
      offers |-> UNION {ordered[k].offers : k \in DOMAIN ordered}]

BuildEstablishments(export) ==
  [u \in {r.uai : r \in ToSet(export)} \ {Malformed} |-> Establishment(export, u)]

\* Rows of one establishment that nothing but the export's order tells apart.
HasTies(export) ==
  \E i, j \in DOMAIN export :
    i # j /\ export[i].uai = export[j].uai /\ export[i].key = export[j].key

-----------------------------------------------------------------------------
(* The indicator rows.                                                     *)

\* build_results skips a row without a valid identifier or year.
IsReadable(r) == r.uai # Malformed /\ r.year # Unreadable

SameKey(r, s) == r.uai = s.uai /\ r.year = s.year /\ r.type = s.type

\* ON CONFLICT (uai, year, indicator_type) DO NOTHING: a row is inserted
\* unless its key is stored, or came earlier in the same batch.
Appended(rows, offered) ==
  rows \cup {offered[i] : i \in {i \in DOMAIN offered :
    /\ IsReadable(offered[i])
    /\ ~\E s \in rows : SameKey(s, offered[i])
    /\ ~\E j \in DOMAIN offered : j < i /\ SameKey(offered[j], offered[i])}}

-----------------------------------------------------------------------------
(* What one establishment published, in the orders the pages use.          *)

Published(rows, u) == {r \in rows : r.uai = u}

\* ORDER BY year DESC, indicator_type ASC
ListForEstablishment(rows, u) ==
  InOrder(Published(rows, u), {e \in rows \X rows :
    \/ e[1].year > e[2].year
    \/ e[1].year = e[2].year /\ TypeRank(e[1].type) < TypeRank(e[2].type)})

HistoryPoints(rows, u) ==
  InOrder(Published(rows, u), {e \in rows \X rows :
    \/ e[1].year < e[2].year
    \/ e[1].year = e[2].year /\ TypeRank(e[1].type) < TypeRank(e[2].type)})

-----------------------------------------------------------------------------
(* The figures of a row.                                                   *)

\* Figure and FigureOut.of, without the explanation of an absence.
Figure(value, computed) == [value |-> value, computed |-> computed]

\* Mutant: a value added of 0.0 is taken for one that is missing.
ExpectedUnlessZero(observed, added) ==
  IF observed = Absent \/ added \in {Absent, 0} THEN Figure(Absent, FALSE)
  ELSE Figure(observed - added, TRUE)

\* expected_rate.  round(..., 2) is left out: it changes nothing of figures with
\* two decimals at most, and a figure here is a whole number of hundredths.
ExpectedRate(observed, added) ==
  IF Absent \in {observed, added} THEN Figure(Absent, FALSE)
  ELSE Figure(observed - added, TRUE)

\* to_result_row and ResultOut.of
ResultOf(r) ==
  [row |-> r, observed |-> Figure(r.value, FALSE), added |-> Figure(r.added, FALSE),
   expected |-> ExpectedRate(r.value, r.added)]

-----------------------------------------------------------------------------
(* Methodology breaks and the lines of the chart.                          *)

BreaksOf(t) == IF t = "IVAC" THEN {} ELSE {ReformYear}

\* Mutant: the year of the break counts as one before it.
BreaksSpannedLate(published) ==
  {b \in {ReformYear} : \E t \in IndicatorTypes :
     /\ b \in BreaksOf(t)
     /\ \E r \in published : r.type = t /\ r.year < b
     /\ \E r \in published : r.type = t /\ r.year > b}

BreaksSpannedBy(published) ==
  {b \in {ReformYear} : \E t \in IndicatorTypes :
     /\ b \in BreaksOf(t)
     /\ \E r \in published : r.type = t /\ r.year < b
     /\ \E r \in published : r.type = t /\ r.year >= b}

Plotted(points) == Selected(points, {i \in DOMAIN points : points[i].value # Absent})

\* toSegments joins a point to the previous one of its segment, or starts
\* another segment; what is drawn is the pairs of points it joins.
Joined(a, b, breakYears) == b.year = a.year + 1 /\ b.year \notin breakYears

Lines(points, breakYears) ==
  LET p == Plotted(points)
  IN {<<p[i], p[i + 1]>> : i \in {i \in 1..(Len(p) - 1) : Joined(p[i], p[i + 1], breakYears)}}

ChartOf(rows, u) ==
  Lines(HistoryPoints(rows, u), BreaksSpannedBy(Published(rows, u)))

-----------------------------------------------------------------------------
(* The comparison.                                                         *)

IsValidPair(uais) == Len(uais) = 2 /\ uais[1] # uais[2]

\* A dictionary by year, filled from the list: a later row of the year
\* replaces an earlier one.
NoRow == [year |-> "none"]

RowOfYear(list, y) ==
  IF \E i \in DOMAIN list : list[i].year = y
  THEN list[Max({i \in DOMAIN list : list[i].year = y})]
  ELSE NoRow

LatestFirst(years) == InOrder(years, {e \in years \X years : e[1] > e[2]})

\* Mutant: only the years both establishments published.
SharedYears(rows, uais) ==
  LatestFirst({r.year : r \in Published(rows, uais[1])}
                \cap {r.year : r \in Published(rows, uais[2])})

ComparedYears(rows, uais) ==
  LatestFirst({r.year : r \in UNION {Published(rows, u) : u \in ToSet(uais)}})

Compare(rows, uais) ==
  LET years == ComparedYears(rows, uais)
  IN [k \in DOMAIN years |->
       [year  |-> years[k],
        cells |-> [c \in DOMAIN uais |->
                    [uai |-> uais[c],
                     row |-> RowOfYear(ListForEstablishment(rows, uais[c]), years[k])]]]]

-----------------------------------------------------------------------------
(* The address of a page, [page, uais, filters], and what it asks for.     *)

\* Mutant: a position in the address is searched for as well.
FilterKeysWithPosition ==
  {"q", "type", "secteur", "filiere", "code_commune", "code_postal",
   "lat", "lng", "rayon_km"}

FilterKeys ==
  {"q", "type", "secteur", "filiere", "code_commune", "code_postal", "rayon_km"}

\* toParams, and the parameters of the route: whatever else the address says
\* is not sent.
Asked(filters, key) == IF key \in FilterKeys \cap DOMAIN filters THEN filters[key] ELSE None

CriteriaAsked(filters) ==
  [NoCriteria EXCEPT
     !.text = Asked(filters, "q"), !.type = Asked(filters, "type"),
     !.sector = Asked(filters, "secteur"), !.filiere = Asked(filters, "filiere"),
     !.commune = Asked(filters, "code_commune"),
     !.postcode = Asked(filters, "code_postal"),
     !.lat = Asked(filters, "lat"), !.lng = Asked(filters, "lng"),
     !.radius = Asked(filters, "rayon_km")]

Chips(filters) == FilterKeys \cap DOMAIN filters

-----------------------------------------------------------------------------
(* How a request is answered: refused (400 or 422), unknown (404), or      *)
(* withheld (503) when a row it shows has no source reference, or ok.      *)

RowsShown(db, uais) == UNION {Published(db.rows, u) : u \in ToSet(uais)}

StatusOfSearch(db, filters) ==
  IF ~ValidCriteria(CriteriaAsked(filters)) THEN "refused"
  ELSE IF "directory" \notin db.sources THEN "withheld"
  ELSE "ok"

StatusOfRecords(db, uais) ==
  IF ~(ToSet(uais) \subseteq DOMAIN db.directory) THEN "unknown"
  ELSE IF \E r \in RowsShown(db, uais) : r.type \notin db.sources THEN "withheld"
  ELSE "ok"

Status(db, route) ==
  IF route.page = "search" THEN StatusOfSearch(db, route.filters)
  ELSE IF route.page = "compare" /\ ~IsValidPair(route.uais) THEN "refused"
  ELSE StatusOfRecords(db, route.uais)
=============================================================================
