--------------------------- MODULE MCPublication ---------------------------
(* Small instances of Publication.                                         *)
EXTENDS Publication, TLC

CONSTANTS r1, r2, b1, b2, k1, k2

MCSessions == Runs \cup Rollbacks
MCContents == Runs \cup {Seed, Older, Empty}
MCOffers == [r \in Runs |-> Keys]

\* The floors, an export that just reaches them all, and one just under each.
Good == [establishments |-> 5, indicators |-> 20, communes |-> 3, matched |-> 19]

MCExports ==
  {Good,
   [Good EXCEPT !.establishments = 4],
   [Good EXCEPT !.indicators = 19],
   [Good EXCEPT !.communes = 2],
   [Good EXCEPT !.matched = 18]}

MCFewExports == {Good, [Good EXCEPT !.matched = 18]}

Symmetry == Permutations(Runs) \cup Permutations(Keys)
=============================================================================
