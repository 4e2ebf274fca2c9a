------------------------- MODULE MCAssistantSearch --------------------------
(* A small instance of AssistantSearch: a request for a ranking, spelt in  *)
(* two ways, and a plain query; nothing loaded yet (v0), and a load in     *)
(* which one place is resolved, one is ambiguous, one is unknown and one   *)
(* has no centre.                                                          *)
EXTENDS AssistantSearch, TLC

CONSTANTS t1, t2, v0, v1, w, x, lycee, moulin, lyon, nord, arles, nice,
          bref, p1, p2, c1, c2, c3, d, u1, u2, u3, u4

Query(wording, form, text, subjective, spelt) ==
  [wording |-> wording, form |-> form, text |-> text, subjective |-> subjective,
   spelt |-> spelt]

MCQueries == {
  Query(w, "complex", <<lycee, lyon>>, TRUE, {<<"postcode", p1>>, <<"radius", 3>>}),
  Query(w, "complex", <<lycee, lyon>>, TRUE, {}),
  Query(x, "name", <<lycee, moulin>>, FALSE, {}) }

At(place, mode) == [NoCriterion EXCEPT !.place = place, !.mode = mode]

MCInterpretations == {
  [At(<<lyon>>, "around") EXCEPT !.type = "lycee", !.postcode = p1],
  At(<<lyon>>, "exact"),
  [At(<<nord>>, "around") EXCEPT !.radius = 3],
  At(<<arles>>, "exact"),
  At(<<nice>>, "exact"),
  At(<<bref>>, "exact"),
  [NoCriterion EXCEPT !.needs_location = TRUE],
  [NoCriterion EXCEPT !.sector = "public"] }

MCSupported == [v \in {w, x} |->
  IF v = w
  THEN {<<"type", "lycee">>, <<"mode", "exact">>, <<"mode", "around">>}
         \cup {<<"place", <<n>> >> : n \in {lyon, nord, arles, nice, bref}}
  ELSE {}]

MCShortTexts == {<<bref>>}
MCPostcodes == {p1, p2}

Names == << <<arles>>, <<lyon>>, <<lyon, nord>>, <<lycee, moulin>>, u1, u2, u3, u4, c1, c2, c3, d >>
MCCollation == [n \in {Names[i] : i \in DOMAIN Names} |-> CHOOSE i \in DOMAIN Names : Names[i] = n]

Commune(code, name, postcodes, centre) ==
  [code |-> code, name |-> name, department |-> d, postcodes |-> postcodes, centre |-> centre]

Site(name, city, commune, lat) ==
  [name |-> name, city |-> city, postcode |-> p1, commune |-> commune,
   at |-> IF lat = None THEN None ELSE [lat |-> lat, lng |-> 0],
   type |-> "lycee", sector |-> "public", open |-> TRUE]

One(site) == [sites |-> <<site>>, offers |-> {}]

MCData == [v \in {v0, v1} |->
  IF v = v0
  THEN [payload |-> <<>>, directory |-> <<>>, sources |-> {}]
  ELSE [payload |-> << Commune(c1, <<lyon>>, <<p1>>, [lat |-> 0, lng |-> 0]),
                       Commune(c2, <<lyon, nord>>, <<p2, p2>>, None),
                       Commune(c3, <<arles>>, <<p2>>, None),
                       Commune(d, <<arles>>, <<>>, None) >>,
        directory |-> u1 :> One(Site(<<lycee, moulin>>, <<lyon>>, c1, 2))
                   @@ u2 :> One(Site(<<lycee, moulin>>, <<lyon>>, c1, 2))
                   @@ u3 :> One(Site(<<arles>>, <<arles>>, c3, 9))
                   @@ u4 :> One(Site(<<lycee, moulin>>, None, c1, None)),
        sources |-> {"directory", "communes"}]]

MCCacheKeys == {q.wording : q \in MCQueries} \X Versions

Symmetry == Permutations(Threads)
=============================================================================
