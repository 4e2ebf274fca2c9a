-------------------------- MODULE AssistantSearch ---------------------------
(***************************************************************************)
(* POST /assistant/search: AssistantSearch.run (application/               *)
(* assistant_search.py) as the API's worker threads run it side by side,   *)
(* sharing one InterpretationCache, against a data store that loads and    *)
(* rollbacks change at one instant (Publication shows that they do).       *)
(*                                                                         *)
(* A query is [wording, form, text, subjective, spelt]: the wording it     *)
(* normalises to, which two queries may share; its form for the regular    *)
(* expressions of _deterministic_intent; its words; whether it asks for a  *)
(* ranking; the postal codes and radiuses spelt in it.  An interpretation  *)
(* has the fields of InterpretedSearch.  The language model returns any    *)
(* interpretation its parser lets through, or fails.                       *)
(***************************************************************************)
EXTENDS InterpretationCache, CommuneLookup

CONSTANTS
  Threads,              \* worker threads, each serving one request after another
  Queries,
  Interpretations,
  Supported,            \* the criteria each wording supports
  LongTexts,            \* texts of more than 120 characters
  Postcodes,            \* texts of five digits
  Versions,             \* data versions: the load the source references describe
  Data,                 \* each version's [payload, directory, sources]
  DefaultCommuneLimit,  \* 10
  DefaultRadius,        \* DEFAULT_RADIUS_KM
  NoQuery, NoIntent, NoVersion

ASSUME AssistantAssumption ==
  /\ CacheKeys = {q.wording : q \in Queries} \X Versions
  /\ NoIntent \notin Interpretations
  /\ NoVersion \notin Versions /\ NoQuery \notin Queries
  /\ DefaultCommuneLimit \in 2..MaxCommuneLimit  \* one hit would look unique
  /\ DefaultRadius \in 1..MaxRadius

ASSUME DataAssumption ==
  \A v \in Versions :
    LET payload == Data[v].payload
    IN /\ payload \in Seq(ToSet(payload)) /\ AcceptsPayload(payload)
       /\ \A i \in DOMAIN payload :
            {payload[i].code, payload[i].name} \subseteq DOMAIN Collation
       /\ IsDirectory(Data[v].directory)

\* The parser's enumerations.
ASSUME ParserAssumption ==
  /\ None \notin {"exact", "around"} /\ Blank \notin Postcodes
  /\ \A i \in Interpretations :
       /\ i.type \in Types \cup {None}
       /\ i.sector \in Sectors \cup {None}
       /\ i.filiere \in Filieres \cup {None}

VARIABLES
  pc,      \* where each thread stands, or how its last request ended
  query,   \* the request it serves
  snap,    \* the version its transaction sees
  intent,  \* the interpretation it works with
  hit,     \* cache_hit
  made,    \* auxiliary: the version under which the intent was obtained
  store    \* the version committed

requestVars == <<query, snap, intent, hit, made>>
assistantVars == <<cacheVars, pc, requestVars, store>>

SearchedPcs == {"found", "place_required", "place_unknown", "place_ambiguous",
                "place_has_no_centre"}
OutcomePcs == SearchedPcs \cup
  {"idle", "provider_unavailable", "rejected", "source_missing"}
WorkPcs == {"version", "get", "interpret", "judge", "resolve"}

Become(t, at) == pc' = [pc EXCEPT ![t] = at]

NoCriterion == [text |-> None, place |-> None, postcode |-> None, type |-> None,
                sector |-> None, filiere |-> None, radius |-> None, mode |-> None,
                needs_location |-> FALSE]

\* An identifier, a postal code or a simple name is searched as it stands,
\* but no request for a ranking is.
IsPlain(q) ==
  q.form \in {"identifier", "postcode"} \/ (q.form = "name" /\ ~q.subjective)

\* _deterministic_intent
PlainIntent(q) ==
  IF q.form = "postcode"
  THEN [NoCriterion EXCEPT !.postcode = q.text[1]]
  ELSE [NoCriterion EXCEPT !.text = q.text]

\* NoIntent stands for Python's None, which no interpretation is.
ASSUME NoIntentAssumption == NoIntent \notin {PlainIntent(q) : q \in Queries}

\* What the cache keeps; NoEntry stands for the absence of any of it.
Values == [intent : Interpretations, made : Versions]
Entry == [value : Values, stored_at : Nat, expires_at : Nat]

ASSUME NoEntryAssumption == NoEntry \notin Entry

\* Mutant: the version is left out of the key.
KeyOfWording(q, v) == <<q.wording, CHOOSE w \in Versions : TRUE>>

CacheKey(q, v) == <<q.wording, v>>

Key(t) == CacheKey(query[t], snap[t])

-----------------------------------------------------------------------------
(* _validate_intent.                                                       *)

Given(i, fields) == {<<f, i[f]>> : f \in {g \in fields : i[g] # None}}

\* What the words of a request must support, and what it must spell out.
Claims(i) ==
  Given(i, {"text", "place", "type", "sector", "filiere", "mode"})
    \cup (IF i.needs_location THEN {<<"mode", "around">>} ELSE {})

Literals(i) == Given(i, {"postcode", "radius"})

Factual(i) ==
  \/ Given(i, {"text", "place", "postcode", "type", "sector", "filiere"}) # {}
  \/ i.needs_location

\* Mutant: the texts are not measured.
InContractOfAnyLength(i) ==
  /\ i.postcode \in Postcodes \cup {None}
  /\ i.place = None <=> i.mode = None
  /\ i.radius # None => i.mode = "around" /\ i.radius \in 1..MaxRadius

InContract(i) ==
  /\ {i.text, i.place} \cap (ShortTexts \cup LongTexts) = {}
  /\ i.postcode \in Postcodes \cup {None}
  /\ i.place = None <=> i.mode = None
  /\ i.radius # None => i.mode = "around" /\ i.radius \in 1..MaxRadius

\* Only interpreted queries need their words behind them.
Acceptable(i, q) ==
  /\ InContract(i)
  /\ Literals(i) \subseteq q.spelt
  /\ ~IsPlain(q) => Claims(i) \subseteq Supported[q.wording] /\ Factual(i)

-----------------------------------------------------------------------------
(* Interpreting the query.                                                 *)

Receive(t) ==
  /\ pc[t] \in OutcomePcs
  /\ \E q \in Queries :
       /\ query' = [query EXCEPT ![t] = q]
       /\ intent' = [intent EXCEPT ![t] = IF IsPlain(q) THEN PlainIntent(q) ELSE NoIntent]
       /\ Become(t, IF IsPlain(q) THEN "judge" ELSE "version")
  /\ snap' = [snap EXCEPT ![t] = NoVersion]
  /\ hit' = [hit EXCEPT ![t] = FALSE]
  /\ made' = [made EXCEPT ![t] = NoVersion]
  /\ UNCHANGED <<cacheVars, store>>

\* current_version: the first statement of a REPEATABLE READ transaction.
ReadVersion(t) ==
  /\ pc[t] = "version"
  /\ snap' = [snap EXCEPT ![t] = store]
  /\ Become(t, "get")
  /\ UNCHANGED <<cacheVars, query, intent, hit, made, store>>

GetCached(t) ==
  /\ pc[t] = "get"
  /\ Hit(Key(t))
  /\ intent' = [intent EXCEPT ![t] = entries[Key(t)].value.intent]
  /\ made' = [made EXCEPT ![t] = entries[Key(t)].value.made]
  /\ hit' = [hit EXCEPT ![t] = TRUE]
  /\ Become(t, "judge")
  /\ UNCHANGED <<query, snap, store>>

GetNothing(t) ==
  /\ pc[t] = "get"
  /\ Miss(Key(t))
  /\ Become(t, "interpret")
  /\ UNCHANGED <<requestVars, store>>

\* Mutant: the interpretation is cached before it is judged.
InterpretAndStore(t) ==
  /\ pc[t] = "interpret"
  /\ \E i \in Interpretations :
       /\ intent' = [intent EXCEPT ![t] = i]
       /\ Put(Key(t), [intent |-> i, made |-> snap[t]])
  /\ made' = [made EXCEPT ![t] = snap[t]]
  /\ Become(t, "judge")
  /\ UNCHANGED <<query, snap, hit, store>>

Interpret(t) ==
  /\ pc[t] = "interpret"
  /\ \E i \in Interpretations : intent' = [intent EXCEPT ![t] = i]
  /\ made' = [made EXCEPT ![t] = snap[t]]
  /\ Become(t, "judge")
  /\ UNCHANGED <<cacheVars, query, snap, hit, store>>

\* Mutant: the failure is cached like an interpretation.
CacheTheFailure(t) ==
  /\ pc[t] = "interpret"
  /\ Put(Key(t), [intent |-> NoIntent, made |-> snap[t]])
  /\ Become(t, "provider_unavailable")
  /\ UNCHANGED <<requestVars, store>>

\* No key, a timeout, an HTTP error or an answer the parser refuses.
InterpreterFails(t) ==
  /\ pc[t] = "interpret"
  /\ Become(t, "provider_unavailable")
  /\ UNCHANGED <<cacheVars, requestVars, store>>

-----------------------------------------------------------------------------
(* Judging it.                                                             *)

\* Mutant: what the cache returned is not judged again.
PassesIfCached(t) == hit[t] \/ Acceptable(intent[t], query[t])

Passes(t) == Acceptable(intent[t], query[t])

\* Mutant: a refusal is answered as an outage.
RefuseAsOutage(t) ==
  /\ pc[t] = "judge"
  /\ ~Passes(t)
  /\ Become(t, "provider_unavailable")
  /\ UNCHANGED <<cacheVars, requestVars, store>>

Reject(t) ==
  /\ pc[t] = "judge"
  /\ ~Passes(t)
  /\ Become(t, "rejected")
  /\ UNCHANGED <<cacheVars, requestVars, store>>

\* Accepted; stored if the language model has just given it.
Accept(t) ==
  /\ pc[t] = "judge"
  /\ Passes(t)
  /\ IF IsPlain(query[t]) \/ hit[t]
     THEN UNCHANGED cacheVars
     ELSE Put(Key(t), [intent |-> intent[t], made |-> made[t]])
  /\ Become(t, "resolve")
  /\ UNCHANGED <<requestVars, store>>

-----------------------------------------------------------------------------
(* Answering it, on the version the transaction sees.                      *)

\* A plain query reads its first table only here.
Seen(t) == IF snap[t] = NoVersion THEN store ELSE snap[t]

Communes(v) == BuildCommunes(Data[v].payload)

PlaceHits(i, v) == LookUp(Communes(v), i.place, DefaultCommuneLimit)
BestPlaces(i, v) == BestHits(i.place, PlaceHits(i, v))
IsResolved(i, v) == i.place # None /\ Len(BestPlaces(i, v)) = 1
Place(i, v) == BestPlaces(i, v)[1]

\* Mutant: no radius unless one was spelt.
CriteriaWithoutRadius(i, v) ==
  [NoCriteria EXCEPT
     !.text = i.text, !.postcode = i.postcode,
     !.type = i.type, !.sector = i.sector, !.filiere = i.filiere,
     !.commune = IF i.mode = "exact" THEN Place(i, v).code ELSE None,
     !.lat = IF i.mode = "around" THEN Place(i, v).centre.lat ELSE None,
     !.lng = IF i.mode = "around" THEN Place(i, v).centre.lng ELSE None,
     !.radius = i.radius]

\* The criteria searched for; a place has been resolved if there is one.
CriteriaOf(i, v) ==
  [NoCriteria EXCEPT
     !.text = i.text, !.postcode = i.postcode,
     !.type = i.type, !.sector = i.sector, !.filiere = i.filiere,
     !.commune = IF i.mode = "exact" THEN Place(i, v).code ELSE None,
     !.lat = IF i.mode = "around" THEN Place(i, v).centre.lat ELSE None,
     !.lng = IF i.mode = "around" THEN Place(i, v).centre.lng ELSE None,
     !.radius = IF i.mode = "around" /\ i.radius = None THEN DefaultRadius ELSE i.radius]

Conclude(t, outcome) ==
  /\ pc[t] = "resolve"
  /\ snap' = [snap EXCEPT ![t] = Seen(t)]
  /\ Become(t, outcome)
  /\ UNCHANGED <<cacheVars, query, intent, hit, made, store>>

Needs(t, dataset) == dataset \in Data[Seen(t)].sources

\* The commune reference is consulted, with its provenance.
LooksUp(t) == pc[t] = "resolve" /\ intent[t].place # None /\ Needs(t, "communes")

\* The directory is searched, once a place there may be is resolved.
Centred(t) == intent[t].mode = "around" => Place(intent[t], Seen(t)).centre # None

Searches(t) ==
  /\ pc[t] = "resolve"
  /\ IF intent[t].place = None THEN ~intent[t].needs_location
     ELSE LooksUp(t) /\ IsResolved(intent[t], Seen(t)) /\ Centred(t)

AskForPlace(t) ==
  /\ pc[t] = "resolve" /\ intent[t].needs_location /\ intent[t].place = None
  /\ Conclude(t, "place_required")

PlaceUnknown(t) ==
  /\ LooksUp(t) /\ PlaceHits(intent[t], Seen(t)) = <<>>
  /\ Conclude(t, "place_unknown")

PlaceAmbiguous(t) ==
  /\ LooksUp(t) /\ Len(BestPlaces(intent[t], Seen(t))) > 1
  /\ Conclude(t, "place_ambiguous")

PlaceHasNoCentre(t) ==
  /\ LooksUp(t) /\ IsResolved(intent[t], Seen(t)) /\ ~Centred(t)
  /\ Conclude(t, "place_has_no_centre")

CommunesMissing(t) ==
  /\ pc[t] = "resolve" /\ intent[t].place # None /\ ~Needs(t, "communes")
  /\ Conclude(t, "source_missing")

DirectoryMissing(t) ==
  Searches(t) /\ ~Needs(t, "directory") /\ Conclude(t, "source_missing")

Find(t) == Searches(t) /\ Needs(t, "directory") /\ Conclude(t, "found")

-----------------------------------------------------------------------------
(* What is said to the user: the outcome's own message, and the statement  *)
(* that this service does not rank beside it.                              *)

\* Outcomes answered with HTTP 200.
AnsweredPcs == SearchedPcs \cup {"provider_unavailable", "rejected"}

\* Mutant: the statement comes with results and questions only.
ResponseWhenSearched(t) ==
  [message |-> IF pc[t] \in {"rejected", "provider_unavailable"}
               THEN "interpreter_unavailable" ELSE pc[t],
   reframe |-> IF query[t].subjective /\ pc[t] \in SearchedPcs THEN "no_ranking" ELSE None]

Response(t) ==
  IF pc[t] = "rejected" /\ query[t].subjective
  THEN [message |-> "no_ranking", reframe |-> None]
  ELSE [message |-> IF pc[t] \in {"rejected", "provider_unavailable"}
                    THEN "interpreter_unavailable" ELSE pc[t],
        reframe |-> IF query[t].subjective THEN "no_ranking" ELSE None]

-----------------------------------------------------------------------------
\* A lost connection or a failed statement, at any point: HTTP 500, and
\* nothing of the request remains.
RequestFails(t) ==
  /\ pc[t] \in WorkPcs
  /\ Become(t, "idle")
  /\ query' = [query EXCEPT ![t] = NoQuery]
  /\ snap' = [snap EXCEPT ![t] = NoVersion]
  /\ intent' = [intent EXCEPT ![t] = NoIntent]
  /\ hit' = [hit EXCEPT ![t] = FALSE]
  /\ made' = [made EXCEPT ![t] = NoVersion]
  /\ UNCHANGED <<cacheVars, store>>

\* A load or a rollback commits.
ChangeData ==
  /\ store' \in Versions
  /\ UNCHANGED <<cacheVars, pc, requestVars>>

TimePasses == Tick /\ UNCHANGED <<pc, requestVars, store>>

Serve(t) ==
  \/ Receive(t) \/ ReadVersion(t) \/ GetCached(t) \/ GetNothing(t)
  \/ Interpret(t) \/ InterpreterFails(t) \/ Reject(t) \/ Accept(t)
  \/ AskForPlace(t) \/ PlaceUnknown(t) \/ PlaceAmbiguous(t) \/ PlaceHasNoCentre(t)
  \/ CommunesMissing(t) \/ DirectoryMissing(t) \/ Find(t) \/ RequestFails(t)

AssistantInit ==
  /\ CacheInit
  /\ pc = [t \in Threads |-> "idle"]
  /\ query = [t \in Threads |-> NoQuery]
  /\ snap = [t \in Threads |-> NoVersion]
  /\ intent = [t \in Threads |-> NoIntent]
  /\ hit = [t \in Threads |-> FALSE]
  /\ made = [t \in Threads |-> NoVersion]
  /\ store \in Versions

AssistantNext == (\E t \in Threads : Serve(t)) \/ ChangeData \/ TimePasses

AssistantSpec == AssistantInit /\ [][AssistantNext]_assistantVars

-----------------------------------------------------------------------------
(* Properties.                                                             *)

\* Every variable holds a value of its type; a cached value is always an
\* interpretation, never a failure.
AssistantTypeOK ==
  /\ entries \in [CacheKeys -> {NoEntry} \cup Entry]
  /\ recency \in Seq(CacheKeys)
  /\ clock \in Nat
  /\ pc \in [Threads -> OutcomePcs \cup WorkPcs]
  /\ query \in [Threads -> Queries \cup {NoQuery}]
  /\ snap \in [Threads -> Versions \cup {NoVersion}]
  /\ intent \in [Threads -> Interpretations \cup {NoIntent}
                              \cup {PlainIntent(q) : q \in Queries}]
  /\ hit \in [Threads -> BOOLEAN]
  /\ made \in [Threads -> Versions \cup {NoVersion}]
  /\ store \in Versions

\* A search or a clarification rests only on criteria the request's own words
\* support, even when another request's interpretation was reused
\* (assistant_search.py:318-331).
NothingIsInvented ==
  \A t \in Threads : pc[t] \in SearchedPcs /\ ~IsPlain(query[t]) =>
    /\ Claims(intent[t]) \subseteq Supported[query[t].wording]
    /\ Literals(intent[t]) \subseteq query[t].spelt

\* "Only structured intent that passed application validation is cached"
\* (docs/08_API_Contract.md:549), whatever else the threads are doing: some
\* request of the entry's wording was entitled to it.
OnlyAcceptedIntentsAreCached ==
  \A k \in Cached : \E q \in Queries :
    k[1] = q.wording /\ ~IsPlain(q) /\ Acceptable(entries[k].value.intent, q)

\* An interpretation is only ever used on the data version it was made under:
\* a load or a rollback that commits meanwhile is not mixed in.
IntentsMatchTheirData ==
  \A t \in Threads : made[t] # NoVersion => made[t] = snap[t]

\* "The 'this service does not rank' statement reaches the user on every path
\* a ranking request can take" (assistant_search.py:192-195), and such a request
\* is told of an outage exactly if no interpretation was obtained: "Reporting
\* a refusal as a failure tells the user something untrue" (:181-182).
RankingRequestsAreAnswered ==
  \A t \in Threads : pc[t] \in AnsweredPcs /\ query[t].subjective =>
    /\ "no_ranking" \in {Response(t).message, Response(t).reframe}
    /\ Response(t).message = "interpreter_unavailable" <=> intent[t] = NoIntent

\* "Coordinates and absent centres are never guessed"
\* (docs/08_API_Contract.md:524), nor is a place: the one searched is the only
\* commune of the reference, not just of the hits that were fetched, that
\* matches the words as well as it does.
PlacesAreNotGuessed ==
  \A t \in Threads : pc[t] = "found" /\ intent[t].place # None =>
    LET words == intent[t].place
        place == Place(intent[t], snap[t])
    IN \A m \in Communes(snap[t]) \ {place} :
         IsHit(words, m) => CommuneTier(words, m) > CommuneTier(words, place)

\* The router turns neither InvalidSearchError nor InvalidCommuneSearchError of
\* an assistant search into a response: what _validate_intent accepts, these
\* searches must never refuse.
AcceptedIntentsAreSearchable ==
  \A t \in Threads : pc[t] = "resolve" =>
    /\ intent[t].place # None => ValidLookup(intent[t].place, DefaultCommuneLimit)
    /\ Searches(t) => ValidCriteria(CriteriaOf(intent[t], Seen(t)))

\* What a finished search found, and the key its response says it is sorted by.
Directory(t) == Data[snap[t]].directory
Criteria(t) == CriteriaOf(intent[t], snap[t])

StatedKey(t, u) ==
  LET site == Canonical(Directory(t)[u])
      c == Criteria(t)
      tier == IF c.text = None THEN 0 ELSE MatchTier(c.text, u, site)
      distance == IF HasLocation(c) THEN Distance(site.at, c.lat, c.lng) ELSE 0
  IN CASE SortOf(c) = "alphabetique"                  -> CityRank(site)
       [] SortOf(c) = "proximite"                     -> <<distance>>
       [] SortOf(c) = "correspondance"                -> <<tier>> \o CityRank(site)
       [] SortOf(c) = "correspondance_puis_proximite" -> <<tier, distance>>

\* The order is "Stated explicitly so a consumer never has to infer the
\* ordering" (schemas.py:496): the results are in the order their label names.
OrderIsAsStated ==
  \A t \in Threads : pc[t] = "found" =>
    LET hits == Search(Directory(t), Criteria(t)).hits
    IN \A i, j \in DOMAIN hits :
         i < j => ~Before(StatedKey(t, hits[j]), StatedKey(t, hits[i]))

\* "name/UAI stabilize ties" (docs/08_API_Contract.md:89): wherever the results
\* are cut into pages, no establishment is on both sides of the cut, however
\* the database orders ties in the one query and in the next.
PagesNeverOverlap ==
  \A t \in Threads : pc[t] = "found" =>
    \A o, p \in Orders(Directory(t), Criteria(t)) : \A n \in DOMAIN o :
      ToSet(Slice(o, n, 0)) \cap ToSet(Slice(p, Len(p), n)) = {}

\* However the threads' gets and puts interleave, the cache never exceeds its
\* limit, and its order lists exactly what it holds, once.
CacheIsBounded ==
  /\ Len(recency) <= MaxEntries
  /\ {recency[i] : i \in DOMAIN recency} = Cached
  /\ \A i, j \in DOMAIN recency : recency[i] = recency[j] => i = j

\* No request is served an interpretation more than ttl_seconds after it was
\* stored, however often it was hit in between.
ServedIntentsAreYoung ==
  \A k \in CacheKeys : Live(k) => clock < entries[k].stored_at + Ttl
=============================================================================
