--------------------------- MODULE CommuneLookup ----------------------------
(***************************************************************************)
(* The official commune reference: what the adapter makes of the geo API's *)
(* payload, and what GET /communes/search finds in it.                     *)
(*                                                                         *)
(* A row of the payload is [code, name, department, postcodes, centre],    *)
(* where Invalid stands for a value of the wrong type or shape and Blank   *)
(* for a text of spaces.  A name is a sequence of words.                   *)
(***************************************************************************)
EXTENDS EstablishmentSearch

CONSTANTS
  Invalid,           \* a value the adapter rejects for its type or shape
  MaxCommuneLimit    \* 20

-----------------------------------------------------------------------------
(* The adapter.                                                            *)

IsText(value) == value \notin {Invalid, Blank, None}

IsCentre(centre) ==
  centre # Invalid /\ (centre # None => centre.lat \in -90..90 /\ centre.lng \in -180..180)

IsCommuneRow(row) ==
  /\ IsText(row.code) /\ IsText(row.name) /\ IsText(row.department)
  /\ row.postcodes # Invalid /\ \A i \in DOMAIN row.postcodes : IsText(row.postcodes[i])
  /\ IsCentre(row.centre)

\* One bad row refuses the payload, and so does a code that comes twice.
AcceptsPayload(rows) ==
  /\ \A i \in DOMAIN rows : IsCommuneRow(rows[i])
  /\ \A i, j \in DOMAIN rows : i # j => rows[i].code # rows[j].code

BuildCommunes(rows) ==
  {[code |-> rows[i].code, name |-> rows[i].name,
    postcodes |-> ToSet(rows[i].postcodes), centre |-> rows[i].centre] : i \in DOMAIN rows}

-----------------------------------------------------------------------------
(* The lookup.                                                             *)

\* SearchCommunes.run
ValidLookup(q, limit) == q \notin ShortTexts /\ limit \in 1..MaxCommuneLimit

IsHit(q, commune) ==
  \/ q = <<commune.code>>
  \/ \E p \in commune.postcodes : q = <<p>>
  \/ Occurs(q, commune.name)

CommuneTier(q, commune) ==
  FirstTrue(<< q = <<commune.code>>, \E p \in commune.postcodes : q = <<p>>,
               q = commune.name, Starts(q, commune.name), TRUE >>)

Hits(communes, q) == {m \in communes : IsHit(q, m)}

\* ORDER BY match_tier, name, code
HitOrder(communes, q) ==
  LET Key(m) == <<CommuneTier(q, m), Collation[m.name], Collation[m.code]>>
  IN {e \in Hits(communes, q) \X Hits(communes, q) : Before(Key(e[1]), Key(e[2]))}

\* Mutant: the lookup returns one commune.
FirstCommune(communes, q, limit) ==
  Slice(InOrder(Hits(communes, q), HitOrder(communes, q)), 1, 0)

\* LIMIT
LookUp(communes, q, limit) ==
  Slice(InOrder(Hits(communes, q), HitOrder(communes, q)), limit, 0)

\* The hits of the best tier (assistant_search.py): one of them, and the
\* place is resolved.
BestHits(q, hits) ==
  Selected(hits, {i \in DOMAIN hits : CommuneTier(q, hits[i]) = CommuneTier(q, hits[1])})
=============================================================================
