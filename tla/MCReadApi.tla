----------------------------- MODULE MCReadApi ------------------------------
(* Small instances of ReadApi.                                             *)
EXTENDS ReadApi, TLC

CONSTANTS r1, b1, q1, q2

MCSessions == Runs \cup Rollbacks \cup Requests
MCContents == Runs \cup {Seed, Older, Empty}
MCOffers == [r \in Runs |-> Keys]

Good == [establishments |-> 5, indicators |-> 20, communes |-> 3, matched |-> 19]
MCExports == {Good}

Symmetry == Permutations(Runs) \cup Permutations(Requests)
=============================================================================
