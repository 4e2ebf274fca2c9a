--------------------------- MODULE MCRecordPages ----------------------------
(* A small instance of RecordPages: a lycee with two sites and two series  *)
(* around the reform (year 2), and two other establishments.  The sources  *)
(* also serve a malformed identifier, an unreadable year, one row twice,   *)
(* differing, and a value added that is missing or zero.                   *)
EXTENDS RecordPages, TLC

CONSTANTS lycee, college, school, p1, p2, mill, here, there

Row(uai, year, type, value, added) ==
  [uai |-> uai, year |-> year, type |-> type, value |-> value, added |-> added]

MCIndicatorOffers == {
  << Row(lycee, 1, "IVAL_GT", 80, 0), Row(lycee, 2, "IVAL_GT", 85, Absent),
     Row(lycee, 1, "IVAL_GT", 81, 2), Row(Malformed, 1, "IVAL_GT", 80, 1) >>,
  << Row(lycee, 1, "IVAL_GT", 82, 3), Row(lycee, 1, "IVAL_PRO", 60, -1),
     Row(lycee, 3, "IVAL_GT", Absent, 1), Row(lycee, 3, "IVAL_PRO", 65, 0),
     Row(college, 3, "IVAC", 90, 4), Row(college, Unreadable, "IVAC", 91, 0) >> }

Site(city, postcode, type) ==
  [name |-> <<mill>>, city |-> <<city>>, postcode |-> postcode, commune |-> city,
   at |-> [lat |-> 1, lng |-> 1], type |-> type, sector |-> "public", open |-> TRUE]

s1 == Site(here, p1, "lycee")
s2 == Site(there, p2, "lycee")
s3 == Site(there, p2, "college")

Line(uai, key, site, offers) ==
  [uai |-> uai, key |-> key, site |-> site, offers |-> offers]

MCDirectoryExports == {
  << Line(lycee, 2, s2, {"professionnelle"}), Line(lycee, 1, s1, {"generale"}),
     Line(college, 1, s3, {}), Line(school, 1, s3, {}) >>,
  << Line(school, 1, s3, {}), Line(college, 1, s3, {}),
     Line(lycee, 1, s1, {"generale"}), Line(lycee, 2, s2, {"professionnelle"}) >>,
  << Line(lycee, 1, s1, {"generale"}), Line(lycee, 1, s2, {}), Line(Malformed, 1, s3, {}) >> }

At(page, uais, filters) == [page |-> page, uais |-> uais, filters |-> filters]

MCRoutes == {
  At("search", <<>>, [code_postal |-> p2]),
  At("search", <<>>, [lat |-> 1, lng |-> 1, rayon_km |-> 5]),
  At("history", <<lycee>>, <<>>),
  At("compare", <<college, lycee>>, <<>>) }

Names == << <<mill>>, <<here>>, <<there>>, lycee, college, school >>
MCCollation == [n \in {Names[i] : i \in DOMAIN Names} |-> CHOOSE i \in DOMAIN Names : Names[i] = n]
=============================================================================
