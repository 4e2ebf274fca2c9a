------------------------ MODULE EstablishmentSearch -------------------------
(***************************************************************************)
(* What GET /establishments/search answers from one snapshot of the        *)
(* directory: which criteria are refused, which establishments match, in   *)
(* which order they come, and the page and total that are returned.        *)
(*                                                                         *)
(* A directory maps identifiers to [sites, offers]; a site is [name, city, *)
(* postcode, commune, at, type, sector, open], at a position [lat, lng].   *)
(* Names, communes and queries are sequences of words, as                  *)
(* normalize_search_text leaves them.  Criteria are a record [text, type,  *)
(* sector, filiere, commune, postcode, lat, lng, radius, limit, offset].   *)
(***************************************************************************)
EXTENDS Orderings, SequencesExt

CONSTANTS
  None,         \* Python's None and SQL's NULL
  Blank,        \* a text of spaces
  ShortTexts,   \* texts under two characters, or without a letter or a digit
  Collation,    \* the database's order of names, communes and identifiers
  MaxLimit,     \* 100
  DefaultLimit, \* 20
  MaxRadius     \* 100 km

ASSUME SearchAssumption ==
  /\ MaxLimit \in Nat /\ DefaultLimit \in 1..MaxLimit /\ MaxRadius \in Nat
  /\ None \notin ShortTexts \cup Int /\ Blank # None

\* Its collation is deterministic: texts that differ are never equal in it.
ASSUME CollationAssumption ==
  \A a, b \in DOMAIN Collation :
    Collation[a] \in Int /\ (Collation[a] = Collation[b] => a = b)

Types == {"college", "lycee", "erea", "ecole", "autre"}
Sectors == {"public", "prive"}
Filieres == {"generale", "technologique", "professionnelle"}

-----------------------------------------------------------------------------
(* Criteria.                                                               *)

NoCriteria == [text |-> None, type |-> None, sector |-> None, filiere |-> None,
               commune |-> None, postcode |-> None,
               lat |-> None, lng |-> None, radius |-> None,
               limit |-> DefaultLimit, offset |-> 0]

HasLocation(c) == None \notin {c.lat, c.lng, c.radius}

\* The router's enumerations and ranges (422) and validate (400).
ValidCriteria(c) ==
  /\ c.type \in Types \cup {None}
  /\ c.sector \in Sectors \cup {None}
  /\ c.filiere \in Filieres \cup {None}
  /\ c.limit \in 1..MaxLimit /\ c.offset >= 0
  /\ c.text \notin ShortTexts
  /\ Blank \notin {c.commune, c.postcode}
  /\ HasLocation(c) \/ {c.lat, c.lng, c.radius} = {None}
  /\ HasLocation(c) => /\ c.lat \in -90..90 /\ c.lng \in -180..180
                       /\ c.radius \in 1..MaxRadius

-----------------------------------------------------------------------------
(* Which establishments match.                                             *)

\* LIKE '%' || q || '%'; no match where the text is NULL.
Occurs(q, text) ==
  text # None /\ \E i \in 0..(Len(text) - Len(q)) : SubSeq(text, i + 1, i + Len(q)) = q

\* LIKE q || '%'
Starts(q, text) == text # None /\ IsPrefix(q, text)

\* The site of the lowest sequence stands for its establishment.
Canonical(e) == e.sites[1]

\* What the columns of the directory's tables hold.
IsSite(site) ==
  /\ site.name \in DOMAIN Collation
  /\ site.city # None => site.city \in DOMAIN Collation
  /\ site.at # None => {site.at.lat, site.at.lng} \subseteq Int

IsDirectory(directory) ==
  /\ IsFiniteSet(DOMAIN directory)
  /\ \A u \in DOMAIN directory : u \in DOMAIN Collation /\ IsSite(Canonical(directory[u]))

TextMatches(q, u, site) ==
  q = <<u>> \/ Occurs(q, site.name) \/ Occurs(q, site.city) \/ q = <<site.postcode>>

Abs(n) == IF n < 0 THEN -n ELSE n

\* Stands for ST_DistanceSphere.
Distance(at, lat, lng) == Abs(at.lat - lat) + Abs(at.lng - lng)

\* The bounding box only prefilters what the distance decides.  A position
\* that is not known fails the comparison.
IsWithin(c, site) ==
  site.at # None /\ Distance(site.at, c.lat, c.lng) <= c.radius

\* Mutant: any site of the establishment may match the place.
SelectsAnySite(c, u, e) ==
  /\ Canonical(e).open
  /\ c.type \in {None, Canonical(e).type}
  /\ c.sector \in {None, Canonical(e).sector}
  /\ c.filiere \in e.offers \cup {None}
  /\ c.text # None => TextMatches(c.text, u, Canonical(e))
  /\ \E i \in DOMAIN e.sites :
       c.commune \in {None, e.sites[i].commune} /\ c.postcode \in {None, e.sites[i].postcode}
  /\ HasLocation(c) => IsWithin(c, Canonical(e))

Selects(c, u, e) ==
  LET site == Canonical(e)
  IN /\ site.open
     /\ c.type \in {None, site.type}
     /\ c.sector \in {None, site.sector}
     /\ c.filiere \in e.offers \cup {None}
     /\ c.text # None => TextMatches(c.text, u, site)
     /\ c.commune \in {None, site.commune}
     /\ c.postcode \in {None, site.postcode}
     /\ HasLocation(c) => IsWithin(c, site)

Matches(directory, c) == {u \in DOMAIN directory : Selects(c, u, directory[u])}

-----------------------------------------------------------------------------
(* In which order, and what is returned.                                   *)

FirstTrue(conditions) ==
  CHOOSE i \in DOMAIN conditions :
    conditions[i] /\ \A j \in 1..(i - 1) : ~conditions[j]

\* match_tier
MatchTier(q, u, site) ==
  FirstTrue(<< q = <<u>>, q = site.name, q = site.city \/ q = <<site.postcode>>,
               Starts(q, site.name), Starts(q, site.city),
               Occurs(q, site.name), TRUE >>)

\* ORDER BY city ASC NULLS LAST
CityRank(site) == IF site.city = None THEN <<1, 0>> ELSE <<0, Collation[site.city]>>

\* Mutant: names alone break ties.
SortKeyByName(c, u, site) ==
  (IF c.text = None THEN <<>> ELSE <<MatchTier(c.text, u, site)>>)
  \o (IF HasLocation(c) THEN <<Distance(site.at, c.lat, c.lng)>> ELSE CityRank(site))
  \o <<Collation[site.name]>>

SortKey(c, u, site) ==
  (IF c.text = None THEN <<>> ELSE <<MatchTier(c.text, u, site)>>)
  \o (IF HasLocation(c) THEN <<Distance(site.at, c.lat, c.lng)>> ELSE CityRank(site))
  \o <<Collation[site.name], Collation[u]>>

Before(k, l) ==
  \E i \in DOMAIN k : k[i] < l[i] /\ \A j \in 1..(i - 1) : k[j] = l[j]

\* The database may return rows that ORDER BY does not tell apart in any
\* order, and in another one for the next page.
Orders(directory, c) ==
  LET Key(u) == SortKey(c, u, Canonical(directory[u]))
  IN {o \in SetToSeqs(Matches(directory, c)) :
        \A i, j \in DOMAIN o : i < j => ~Before(Key(o[j]), Key(o[i]))}

\* LIMIT ... OFFSET ...
Slice(s, limit, offset) ==
  SubSeq(s, offset + 1, IF offset + limit < Len(s) THEN offset + limit ELSE Len(s))

\* Mutant: the stated order forgets the location.
SortOfText(c) == IF c.text # None THEN "correspondance" ELSE "alphabetique"

\* tri
SortOf(c) ==
  IF c.text # None
  THEN IF HasLocation(c) THEN "correspondance_puis_proximite" ELSE "correspondance"
  ELSE IF HasLocation(c) THEN "proximite" ELSE "alphabetique"

\* Count, page and label, in one transaction.
Search(directory, c) ==
  LET matches == CHOOSE o \in Orders(directory, c) : TRUE
  IN [hits  |-> Slice(matches, c.limit, c.offset),
      total |-> Len(matches),
      sort  |-> SortOf(c)]
=============================================================================
