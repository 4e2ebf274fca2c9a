------------------------- MODULE RecordPages_proofs -------------------------
(***************************************************************************)
(* Proofs about RecordPages, for any exports, offers, addresses and        *)
(* bounds.  The answer of a request is the store as it was when the        *)
(* request was served: each theorem needs what holds of the store to hold  *)
(* of every answer still on its way, and of the one shown.  PagesInv says  *)
(* so of rows and references, RecordsInv of the tables' contents, and      *)
(* SelectionInv of the comparison the reader is putting together.          *)
(***************************************************************************)
EXTENDS RecordPages, EstablishmentSearch_proofs

\* An answer that is a snapshot of the store.
IsSnapshot(answer) == answer \notin {Pending, Lost}

\* Unless an effect is due, the active request is for the address shown, and
\* so is what is shown.
RequestsMatchRoutes ==
  /\ opens \in Nat
  /\ \A q \in inFlight :
       q.id \in 0..opens /\ (q.id = opens /\ ~effectDue => q.route = route)
  /\ PageAnswersItsRoute

\* What is shown has been answered; success is never claimed for a request
\* the network lost.
ShownIsAnswered ==
  /\ resource.state # "loading" => resource.answer # Pending
  /\ resource.state = "success" => resource.answer # Lost

\* Rows once stored stay, so every snapshot's rows are in the store.
SnapshotsAreOlder ==
  /\ \A q \in inFlight : IsSnapshot(q.answer) => q.answer.rows \subseteq db.rows
  /\ resource.state # "loading" /\ IsSnapshot(resource.answer) =>
       resource.answer.rows \subseteq db.rows

\* An establishment is there only together with every source reference.
HasSources(store) == store.directory # <<>> => store.sources = Datasets

SourcesComeAlong ==
  /\ HasSources(db)
  /\ previous # NoCopies => HasSources(previous)
  /\ \A r \in db.rows : r.type \in IndicatorTypes
  /\ \A q \in inFlight : IsSnapshot(q.answer) => HasSources(q.answer)
  /\ resource.state # "loading" /\ IsSnapshot(resource.answer) =>
       HasSources(resource.answer)

PagesInv ==
  RequestsMatchRoutes /\ ShownIsAnswered /\ SnapshotsAreOlder /\ SourcesComeAlong
-----------------------------------------------------------------------------

\* The tab starts with a page that loads, over an empty store.
LEMMA InitPages == PagesInit => PagesInv
<1> SUFFICES ASSUME PagesInit PROVE PagesInv
  OBVIOUS
<1> USE DEF PagesInit
<1>1. RequestsMatchRoutes /\ ShownIsAnswered
  BY DEF RequestsMatchRoutes, PageAnswersItsRoute, ShownIsAnswered, Loading
<1>2. SnapshotsAreOlder /\ SourcesComeAlong
  BY DEF SnapshotsAreOlder, SourcesComeAlong, IsSnapshot, HasSources, Loading
<1> QED
  BY <1>1, <1>2 DEF PagesInv

\* Appending keeps the rows there are and adds rows of the batch only.
LEMMA AppendedRows ==
  ASSUME NEW rows, NEW offered
  PROVE  /\ rows \subseteq Appended(rows, offered)
         /\ \A r \in Appended(rows, offered) :
              r \in rows \/ \E i \in DOMAIN offered : r = offered[i]
  BY DEF Appended

\* A step of the store that keeps its rows and gives every establishment its
\* sources leaves the tab's part of the invariant alone.
LEMMA StoreSteps ==
  ASSUME PagesInv, UNCHANGED tabVars,
         db.rows \subseteq db'.rows, HasSources(db'),
         previous' # NoCopies => HasSources(previous'),
         \A r \in db'.rows : r.type \in IndicatorTypes
  PROVE  PagesInv'
<1> USE DEF PagesInv, tabVars
<1>1. RequestsMatchRoutes' /\ ShownIsAnswered'
  BY DEF RequestsMatchRoutes, PageAnswersItsRoute, ShownIsAnswered
<1>2. SnapshotsAreOlder'
  BY DEF SnapshotsAreOlder, IsSnapshot, Pending, Lost
<1>3. SourcesComeAlong'
  BY DEF SourcesComeAlong, IsSnapshot, HasSources, Pending, Lost, NoCopies
<1> QED
  BY <1>1, <1>2, <1>3

\* A load adds rows and writes every source reference.
LEMMA LoadKeeps == PagesInv /\ Load => PagesInv'
<1> SUFFICES ASSUME PagesInv, Load PROVE PagesInv'
  OBVIOUS
<1>1. PICK export \in DirectoryExports, offered \in IndicatorOffers :
        /\ previous' = [directory |-> db.directory, sources |-> db.sources]
        /\ db' = [rows |-> Appended(db.rows, offered),
                  directory |-> BuildEstablishments(export),
                  sources |-> Datasets]
  BY DEF Load
<1>2. db.rows \subseteq db'.rows
  BY <1>1, AppendedRows
<1>3. HasSources(db') /\ HasSources(previous')
  BY <1>1 DEF HasSources, PagesInv, SourcesComeAlong
<1>4. \A r \in db'.rows : r.type \in IndicatorTypes
  BY <1>1, AppendedRows, PagesAssumption DEF PagesInv, SourcesComeAlong
<1>5. UNCHANGED tabVars
  BY DEF Load
<1> QED
  BY <1>2, <1>3, <1>4, <1>5, StoreSteps

\* A rollback restores a directory together with its references.
LEMMA RollbackKeeps == PagesInv /\ Rollback => PagesInv'
<1> SUFFICES ASSUME PagesInv, Rollback PROVE PagesInv'
  OBVIOUS
<1>1. /\ previous # NoCopies /\ previous' = previous
      /\ db' = [rows |-> db.rows, directory |-> previous.directory,
                sources |-> previous.sources]
      /\ UNCHANGED tabVars
  BY DEF Rollback
<1>2. HasSources(db') /\ HasSources(previous')
  BY <1>1 DEF HasSources, PagesInv, SourcesComeAlong
<1>3. db.rows \subseteq db'.rows /\ \A r \in db'.rows : r.type \in IndicatorTypes
  BY <1>1 DEF PagesInv, SourcesComeAlong
<1> QED
  BY <1>1, <1>2, <1>3, StoreSteps

\* Opening an address leaves the requests alone and makes an effect due.
LEMMA OpenKeeps ==
  ASSUME PagesInv, NEW r, Open(r), UNCHANGED storeVars
  PROVE  PagesInv'
<1> USE DEF PagesInv, Open, storeVars
<1>1. (resource' = resource /\ r.page = route.page) \/ resource' = Loading
  OBVIOUS
<1>2. RequestsMatchRoutes'
  BY <1>1 DEF RequestsMatchRoutes, PageAnswersItsRoute, Loading
<1>3. ShownIsAnswered'
  BY <1>1 DEF ShownIsAnswered, Loading
<1>4. SnapshotsAreOlder'
  BY <1>1 DEF SnapshotsAreOlder, IsSnapshot, Loading
<1>5. SourcesComeAlong'
  BY <1>1 DEF SourcesComeAlong, IsSnapshot, HasSources, Loading
<1> QED
  BY <1>2, <1>3, <1>4, <1>5

\* The effect of an address makes a request of its own the active one.
LEMMA RunEffectKeeps == PagesInv /\ RunEffect => PagesInv'
<1> SUFFICES ASSUME PagesInv, RunEffect PROVE PagesInv'
  OBVIOUS
<1> USE DEF PagesInv, RunEffect, storeVars
<1>1. RequestsMatchRoutes'
  <2>1. ASSUME NEW q \in inFlight'
        PROVE  q.id \in 0..opens' /\ (q.id = opens' => q.route = route')
    <3>1. CASE q \in inFlight
      BY <3>1 DEF RequestsMatchRoutes
    <3>2. CASE q = [id |-> opens + 1, route |-> route, answer |-> Pending]
      BY <3>2 DEF RequestsMatchRoutes
    <3> QED
      BY <2>1, <3>1, <3>2
  <2>2. opens' \in Nat /\ resource'.state = "loading"
    BY DEF RequestsMatchRoutes, Loading
  <2> QED
    BY <2>1, <2>2 DEF RequestsMatchRoutes, PageAnswersItsRoute
<1>2. ShownIsAnswered'
  BY DEF ShownIsAnswered, Loading
<1>3. SnapshotsAreOlder'
  BY DEF SnapshotsAreOlder, IsSnapshot, Loading
<1>4. SourcesComeAlong'
  BY DEF SourcesComeAlong, IsSnapshot, HasSources, Loading
<1> QED
  BY <1>1, <1>2, <1>3, <1>4

\* The API answers a request with the store as it is, or it is lost.
LEMMA AnswerKeeps ==
  ASSUME PagesInv, NEW q \in inFlight, NEW answer \in {db, Lost}, Answer(q, answer),
         UNCHANGED <<storeVars, route, effectDue, opens, resource>>
  PROVE  PagesInv'
<1> USE DEF PagesInv, Answer, storeVars
<1>1. RequestsMatchRoutes'
  BY DEF RequestsMatchRoutes, PageAnswersItsRoute
<1>2. ShownIsAnswered'
  BY DEF ShownIsAnswered
<1>3. SnapshotsAreOlder'
  BY DEF SnapshotsAreOlder, IsSnapshot
<1>4. SourcesComeAlong'
  BY DEF SourcesComeAlong, IsSnapshot
<1> QED
  BY <1>1, <1>2, <1>3, <1>4

\* Only the active request's answer is shown, and only on a page of its kind;
\* unless an effect is due it is for the address.
LEMMA DeliverKeeps ==
  ASSUME PagesInv, NEW q \in inFlight, Deliver(q)
  PROVE  PagesInv'
<1> USE DEF PagesInv, Deliver, storeVars, IsActive
<1>1. CASE ~(q.id = opens /\ q.route.page = route.page)
  <2>1. /\ inFlight' \subseteq inFlight
        /\ UNCHANGED <<resource, route, effectDue, opens, db, previous>>
    BY <1>1
  <2>2. RequestsMatchRoutes' /\ ShownIsAnswered'
    BY <2>1 DEF RequestsMatchRoutes, PageAnswersItsRoute, ShownIsAnswered
  <2>3. SnapshotsAreOlder' /\ SourcesComeAlong'
    BY <2>1 DEF SnapshotsAreOlder, SourcesComeAlong, IsSnapshot
  <2> QED
    BY <2>2, <2>3
<1>2. CASE q.id = opens /\ q.route.page = route.page
  <2>1. /\ inFlight' \subseteq inFlight /\ q.answer # Pending
        /\ UNCHANGED <<route, effectDue, opens, db, previous>>
        /\ resource' = Settled(q)
    BY <1>2
  <2>2. /\ resource'.route = q.route /\ resource'.answer = q.answer
        /\ resource'.state = "success" => q.answer # Lost
    BY <2>1 DEF Settled
  <2>3. RequestsMatchRoutes'
    BY <1>2, <2>1, <2>2 DEF RequestsMatchRoutes, PageAnswersItsRoute
  <2>4. ShownIsAnswered'
    BY <2>1, <2>2 DEF ShownIsAnswered
  <2>5. SnapshotsAreOlder' /\ SourcesComeAlong'
    BY <2>1, <2>2 DEF SnapshotsAreOlder, SourcesComeAlong, IsSnapshot
  <2> QED
    BY <2>3, <2>4, <2>5
<1> QED
  BY <1>1, <1>2

\* Every step of the tab or the store keeps the invariant.
LEMMA StepPages == PagesInv /\ [PagesNext]_pageVars => PagesInv'
<1> SUFFICES ASSUME PagesInv, [PagesNext]_pageVars PROVE PagesInv'
  OBVIOUS
<1>1. CASE Load
  BY <1>1, LoadKeeps
<1>2. CASE Rollback
  BY <1>2, RollbackKeeps
<1>3. CASE Navigate \/ OpenSelection \/ RemoveFilter
  <2>1. UNCHANGED storeVars /\ \E r : Open(r)
    BY <1>3 DEF Navigate, OpenSelection, RemoveFilter
  <2> QED
    BY <2>1, OpenKeeps
<1>4. CASE Toggle \/ Clear \/ UNCHANGED pageVars
  <2>1. UNCHANGED <<storeVars, tabVars>>
    BY <1>4 DEF Toggle, Clear, pageVars
  <2> QED
    BY <2>1, StoreSteps DEF storeVars, PagesInv, SourcesComeAlong, HasSources
<1>5. CASE RunEffect
  BY <1>5, RunEffectKeeps
<1>6. ASSUME NEW q \in inFlight, Serve(q) \/ NetworkFails(q) PROVE PagesInv'
  BY <1>6, AnswerKeeps DEF Serve, NetworkFails
<1>7. ASSUME NEW q \in inFlight, Deliver(q) PROVE PagesInv'
  BY <1>7, DeliverKeeps
<1> QED
  BY <1>1, <1>2, <1>3, <1>4, <1>5, <1>6, <1>7 DEF PagesNext

\* The invariant of a tab and its store, in every behaviour.
THEOREM PagesInvariant == PagesSpec => []PagesInv
  BY InitPages, StepPages, PTL DEF PagesSpec
-----------------------------------------------------------------------------

\* No slow answer ever replaces a newer one: what a page shows, or the error
\* it reports, answers the address whose effect ran last, for any addresses
\* opened in any order and any order of answers (useApiResource.ts).
THEOREM PagesShowTheirOwnAnswer == PagesSpec => []PageAnswersItsRoute
<1>1. PagesInv => PageAnswersItsRoute
  BY DEF PagesInv, RequestsMatchRoutes
<1> QED
  BY <1>1, PagesInvariant, PTL

\* Whatever a page shows of an indicator series stays in the store, through
\* any loads and rollbacks after it (repositories.py, append-only rows).
THEOREM ShownRowsAreNeverTakenBack == PagesSpec => []ShownRowsStayTrue
<1>1. PagesInv => ShownRowsStayTrue
  BY DEF PagesInv, ShownIsAnswered, SnapshotsAreOlder, IsSnapshot,
         ShownRowsStayTrue, RowsShown, Published
<1> QED
  BY <1>1, PagesInvariant, PTL

\* No page about an establishment is withheld for want of a source
\* reference, although a rollback takes back the references and not the rows
\* (MissingSourceReferenceError, get_establishment_fact_sheet.py).
THEOREM ProvenanceIsNeverMissing == PagesSpec => []RecordPagesAreNeverWithheld
<1>1. ASSUME PagesInv PROVE RecordPagesAreNeverWithheld
  <2> SUFFICES ASSUME resource.state = "error", resource.answer # Lost,
                      resource.route.page # "search"
               PROVE  Status(resource.answer, resource.route) # "withheld"
    BY DEF RecordPagesAreNeverWithheld
  <2> DEFINE seen == resource.answer
  <2> DEFINE uais == resource.route.uais
  <2>1. HasSources(seen) /\ \A r \in seen.rows : r.type \in IndicatorTypes
    BY <1>1 DEF PagesInv, ShownIsAnswered, SnapshotsAreOlder, SourcesComeAlong, IsSnapshot
  <2>2. ASSUME ToSet(uais) \subseteq DOMAIN seen.directory,
               NEW r \in RowsShown(seen, uais)
        PROVE  r.type \in seen.sources
    <3>1. PICK u \in ToSet(uais) : r \in Published(seen.rows, u)
      BY <2>2 DEF RowsShown
    <3>2. seen.directory # <<>>
      BY <2>2, <3>1
    <3>3. seen.sources = Datasets
      BY <2>1, <3>2 DEF HasSources
    <3> QED
      BY <2>1, <3>1, <3>3 DEF Published, Datasets
  <2>3. StatusOfRecords(seen, uais) # "withheld"
    BY <2>2 DEF StatusOfRecords
  <2> QED
    BY <2>3 DEF Status
<1> QED
  BY <1>1, PagesInvariant, PTL
-----------------------------------------------------------------------------
\* The figures of stored rows are numbers or absent; a page that shows an
\* answer was given one.
RowsAreFigures == \A r \in db.rows : {r.value, r.added} \subseteq Int \cup {Absent}

ShownIsOk ==
  resource.state = "success" => Status(resource.answer, resource.route) = "ok"

\* The figures stay figures: rows come from offers only.
LEMMA StepFigures == RowsAreFigures /\ [PagesNext]_pageVars => RowsAreFigures'
<1> SUFFICES ASSUME RowsAreFigures, [PagesNext]_pageVars PROVE RowsAreFigures'
  OBVIOUS
<1>1. CASE Load
  <2>1. PICK offered \in IndicatorOffers : db'.rows = Appended(db.rows, offered)
    BY <1>1 DEF Load
  <2> QED
    BY <2>1, AppendedRows, PagesAssumption DEF RowsAreFigures
<1>2. CASE Rollback
  BY <1>2 DEF Rollback, RowsAreFigures
<1>3. CASE UNCHANGED db
  BY <1>3 DEF RowsAreFigures
<1>4. Load \/ Rollback \/ UNCHANGED db
  BY DEF PagesNext, Navigate, OpenSelection, RemoveFilter, Toggle, Clear, RunEffect,
         Serve, NetworkFails, Deliver, storeVars, pageVars
<1> QED
  BY <1>1, <1>2, <1>3, <1>4

\* A page shows an answer only if the API did not refuse or withhold it.
LEMMA StepOk == ShownIsOk /\ [PagesNext]_pageVars => ShownIsOk'
<1> SUFFICES ASSUME ShownIsOk, [PagesNext]_pageVars PROVE ShownIsOk'
  OBVIOUS
<1>1. CASE UNCHANGED resource
  BY <1>1 DEF ShownIsOk, Status, StatusOfSearch, StatusOfRecords
<1>2. CASE resource' = Loading
  BY <1>2 DEF ShownIsOk, Loading
<1>3. ASSUME NEW q \in inFlight, Deliver(q) PROVE ShownIsOk'
  <2>1. CASE UNCHANGED resource
    BY <1>1, <2>1
  <2>2. CASE resource' = Settled(q)
    BY <2>2 DEF ShownIsOk, Settled
  <2> QED
    BY <1>3, <2>1, <2>2 DEF Deliver
<1>4. \/ UNCHANGED resource \/ resource' = Loading
      \/ \E q \in inFlight : Deliver(q)
  BY DEF PagesNext, Load, Rollback, Navigate, OpenSelection, RemoveFilter, Open,
         Toggle, Clear, RunEffect, Serve, NetworkFails, tabVars, pageVars
<1> QED
  BY <1>1, <1>2, <1>3, <1>4

\* What is shown of the figures, in every behaviour.
THEOREM ShownFiguresInvariant == PagesSpec => [](RowsAreFigures /\ ShownIsOk)
<1>1. PagesInit => RowsAreFigures /\ ShownIsOk
  BY DEF PagesInit, RowsAreFigures, ShownIsOk, Loading
<1> QED
  BY <1>1, StepFigures, StepOk, PTL DEF PagesSpec

\* Whatever is published, an expected rate is there exactly if both figures it
\* is derived from are, zero or not, and then they add up
\* (expected_rate, get_establishment_fact_sheet.py).
THEOREM RatesAddUp == PagesSpec => []ExpectedRatesAddUp
<1>1. ASSUME PagesInv, RowsAreFigures PROVE ExpectedRatesAddUp
  <2> SUFFICES ASSUME resource.state = "success",
                      NEW r \in RowsShown(resource.answer, resource.route.uais)
               PROVE  LET result == ResultOf(r)
                          rate == result.expected
                      IN /\ rate.value # Absent <=> Absent \notin {r.value, r.added}
                         /\ rate.value # Absent =>
                              rate.value + result.added.value = result.observed.value
                         /\ rate.computed <=> rate.value # Absent
    BY DEF ExpectedRatesAddUp
  <2>1. r \in db.rows
    BY <1>1 DEF PagesInv, ShownIsAnswered, SnapshotsAreOlder, IsSnapshot,
                RowsShown, Published
  <2>2. r.value \in Int \cup {Absent} /\ r.added \in Int \cup {Absent}
    BY <1>1, <2>1 DEF RowsAreFigures
  <2>3. CASE Absent \in {r.value, r.added}
    BY <2>3 DEF ResultOf, ExpectedRate, Figure
  <2>4. CASE Absent \notin {r.value, r.added}
    <3>1. r.value \in Int /\ r.added \in Int /\ r.value - r.added \in Int
      BY <2>2, <2>4
    <3>2. r.value - r.added # Absent /\ (r.value - r.added) + r.added = r.value
      BY <3>1, PagesAssumption
    <3> QED
      BY <2>4, <3>2 DEF ResultOf, ExpectedRate, Figure
  <2> QED
    BY <2>3, <2>4
<1> QED
  BY <1>1, PagesInvariant, ShownFiguresInvariant, PTL
-----------------------------------------------------------------------------
\* A search with fewer filters is never refused where the search with all of
\* them was not, and finds all it found.
LEMMA FewerFilters ==
  ASSUME NEW filters, NEW key, NEW fewer,
         fewer = Restrict(filters, DOMAIN filters \ {key}),
         ValidCriteria(CriteriaAsked(filters))
  PROVE  /\ ValidCriteria(CriteriaAsked(fewer))
         /\ \A directory : Matches(directory, CriteriaAsked(filters))
                             \subseteq Matches(directory, CriteriaAsked(fewer))
<1> DEFINE c == CriteriaAsked(filters)
           d == CriteriaAsked(fewer)
<1>1. \A k : Asked(fewer, k) \in {None, Asked(filters, k)}
  BY DEF Asked, Restrict
<1>2. /\ d.text \in {None, c.text} /\ d.type \in {None, c.type}
      /\ d.sector \in {None, c.sector} /\ d.filiere \in {None, c.filiere}
      /\ d.commune \in {None, c.commune} /\ d.postcode \in {None, c.postcode}
      /\ d.radius \in {None, c.radius}
      /\ d.limit = c.limit /\ d.offset = c.offset
  BY <1>1 DEF CriteriaAsked, NoCriteria
<1>3. c.lat = None /\ c.lng = None /\ d.lat = None /\ d.lng = None
  BY DEF CriteriaAsked, NoCriteria, Asked, FilterKeys
<1> HIDE DEF c, d
<1>4. c.radius = None /\ d.radius = None
  BY <1>2, <1>3 DEF ValidCriteria, HasLocation, c
<1>5. ~HasLocation(c) /\ ~HasLocation(d)
  BY <1>3 DEF HasLocation
<1>6. ValidCriteria(d)
  BY <1>2, <1>3, <1>4, <1>5, SearchAssumption DEF ValidCriteria, c
<1>7. ASSUME NEW directory, NEW u \in Matches(directory, c) PROVE u \in Matches(directory, d)
  BY <1>2, <1>5, <1>7 DEF Matches, Selects
<1> QED
  BY <1>6, <1>7 DEF c, d

\* Clicking any chip of any search that was shown gives a search that is not
\* refused and still has every establishment the store has for the first one
\* (removeFilter, SearchResultsPage.tsx).
THEOREM ChipsOnlyWiden == PagesSpec => RemovingAFilterWidens
<1>1. ASSUME PagesInv, ShownIsOk, RemoveFilter
      PROVE  /\ Status(db, route') # "refused"
             /\ Matches(db.directory, CriteriaAsked(route.filters))
                  \subseteq Matches(db.directory, CriteriaAsked(route'.filters))
  <2>1. PICK key : Open([page |-> "search", uais |-> <<>>,
               filters |-> Restrict(route.filters, DOMAIN route.filters \ {key})])
    BY <1>1 DEF RemoveFilter
  <2>2. /\ route'.page = "search" /\ ~effectDue
        /\ route'.filters = Restrict(route.filters, DOMAIN route.filters \ {key})
    BY <2>1 DEF Open
  <2>3. resource.state = "success" /\ route.page = "search"
    BY <1>1 DEF RemoveFilter, Shows
  <2>4. resource.route = route
    BY <1>1, <2>2, <2>3 DEF PagesInv, RequestsMatchRoutes, PageAnswersItsRoute
  <2>5. ValidCriteria(CriteriaAsked(route.filters))
    BY <1>1, <2>3, <2>4 DEF ShownIsOk, Status, StatusOfSearch
  <2>6. /\ ValidCriteria(CriteriaAsked(route'.filters))
        /\ Matches(db.directory, CriteriaAsked(route.filters))
             \subseteq Matches(db.directory, CriteriaAsked(route'.filters))
    BY <2>2, <2>5, FewerFilters
  <2> QED
    BY <2>2, <2>6 DEF Status, StatusOfSearch
<1> QED
  BY <1>1, PagesInvariant, ShownFiguresInvariant, PTL DEF RemovingAFilterWidens
-----------------------------------------------------------------------------
(* What the store's tables hold.                                           *)

\* Rows are told apart by their key, and their years are numbers.
RowsAreSound(rows) ==
  /\ IsFiniteSet(rows)
  /\ \A r \in rows : r.year \in Int /\ r.type \in IndicatorTypes
  /\ \A r, s \in rows : SameKey(r, s) => r = s

\* Since the last load, the directory is what the load made of its export.
DirectoriesAreSound ==
  /\ IsDirectory(db.directory)
  /\ previous # NoCopies => IsDirectory(previous.directory)
  /\ exported # NoExport =>
       exported \in DirectoryExports /\ db.directory = BuildEstablishments(exported)

AnswersAreSound ==
  /\ \A q \in inFlight : IsSnapshot(q.answer) => IsDirectory(q.answer.directory)
  /\ resource.state # "loading" /\ IsSnapshot(resource.answer) =>
       IsDirectory(resource.answer.directory)

RecordsInv == RowsAreSound(db.rows) /\ DirectoriesAreSound /\ AnswersAreSound

\* Appending a batch keeps the rows sound (repositories.py, ON CONFLICT).
LEMMA AppendedAreSound ==
  ASSUME NEW rows, RowsAreSound(rows), NEW offered \in IndicatorOffers
  PROVE  RowsAreSound(Appended(rows, offered))
<1> DEFINE I == {i \in DOMAIN offered :
              /\ IsReadable(offered[i])
              /\ ~\E s \in rows : SameKey(s, offered[i])
              /\ ~\E j \in DOMAIN offered : j < i /\ SameKey(offered[j], offered[i])}
           New == {offered[i] : i \in I}
           all == Appended(rows, offered)
<1>1. all = rows \cup New
  BY DEF Appended
<1>2. DOMAIN offered = 1..Len(offered) /\ Len(offered) \in Nat
  BY OffersAssumption
<1>3. IsFiniteSet(I)
  <2>1. IsFiniteSet(1..Len(offered))
    BY <1>2, FS_Interval
  <2>2. I \subseteq 1..Len(offered)
    BY <1>2
  <2> HIDE DEF I
  <2> QED
    BY <2>1, <2>2, FS_Subset
<1>4. /\ \A i \in I : i \in 1..Len(offered) /\ IsReadable(offered[i])
      /\ \A i \in I : \A s \in rows : ~SameKey(s, offered[i])
      /\ \A i, j \in I : j < i => ~SameKey(offered[j], offered[i])
  BY <1>2
<1>5. \A r : r \in New <=> \E i \in I : r = offered[i]
  OBVIOUS
<1> HIDE DEF I
<1>6. IsFiniteSet(New)
  <2> DEFINE f == [i \in I |-> offered[i]]
  <2>1. f \in Surjection(I, New)
    BY <1>5 DEF Surjection
  <2> QED
    BY <1>3, <2>1, FS_Surjection
<1> HIDE DEF New
<1>7. IsFiniteSet(all)
  BY <1>1, <1>6, FS_Union DEF RowsAreSound
<1>8. \A r \in all : r.year \in Int /\ r.type \in IndicatorTypes
  <2>1. ASSUME NEW i \in I
        PROVE  offered[i].year \in Int /\ offered[i].type \in IndicatorTypes
    BY <1>2, <1>4, OffersAssumption, PagesAssumption DEF IsReadable
  <2> QED
    BY <1>1, <1>5, <2>1 DEF RowsAreSound
<1>9. ASSUME NEW r \in all, NEW s \in all, SameKey(r, s) PROVE r = s
  <2>1. SameKey(s, r)
    BY <1>9 DEF SameKey
  <2>2. CASE r \in rows /\ s \in rows
    BY <1>9, <2>2 DEF RowsAreSound
  <2>3. CASE r \in New /\ s \in New
    <3>1. PICK i \in I : r = offered[i]
      BY <1>5, <2>3
    <3>2. PICK j \in I : s = offered[j]
      BY <1>5, <2>3
    <3>3. ~(i < j) /\ ~(j < i) /\ i \in Int /\ j \in Int
      BY <1>2, <1>4, <1>9, <2>1, <3>1, <3>2
    <3> QED
      BY <3>1, <3>2, <3>3
  <2>4. ~(r \in rows /\ s \in New) /\ ~(s \in rows /\ r \in New)
    BY <1>4, <1>5, <1>9, <2>1
  <2> QED
    BY <1>1, <2>2, <2>3, <2>4
<1> QED
  BY <1>7, <1>8, <1>9 DEF RowsAreSound

\* o puts the rows of the group in the order of their keys, each one once.
SortsGroup(o, group) ==
  LET N == Len(group)
  IN /\ o \in [1..N -> 1..N]
     /\ \A i \in 1..N : \E k \in 1..N : o[k] = i
     /\ \A j, k \in 1..N : o[j] = o[k] => j = k
     /\ \A j, k \in 1..N : j < k => group[o[j]].key <= group[o[k]].key
     /\ Sorted(group) = [k \in 1..N |-> group[o[k]]]

\* Sorting a group is reordering it.
LEMMA SortedIsAPermutation ==
  ASSUME NEW T, NEW group \in Seq(T), \A i \in DOMAIN group : group[i].key \in Int
  PROVE  \E o : SortsGroup(o, group)
<1> DEFINE N == Len(group)
           D == DOMAIN group
           R == {e \in D \X D :
                   \/ group[e[1]].key < group[e[2]].key
                   \/ group[e[1]].key = group[e[2]].key /\ e[1] < e[2]}
           p == InOrder(D, R)
<1>1. N \in Nat /\ D = 1..N
  OBVIOUS
<1>2. IsFiniteSet(D) /\ Cardinality(D) = N
  BY <1>1, CountTo
<1>3. \A i, j \in D : <<i, j>> \in R <=>
        \/ group[i].key < group[j].key
        \/ group[i].key = group[j].key /\ i < j
  OBVIOUS
<1>4. Sorted(group) = [k \in D |-> group[p[k]]]
  BY DEF Sorted
<1> HIDE DEF R
<1>5. StrictlyOrders(R, D)
  <2>1. \A i \in D : group[i].key \in Int /\ i \in Int
    BY <1>1
  <2> HIDE DEF D
  <2>2. \A i \in D : <<i, i>> \notin R
    BY <1>3, <2>1
  <2>3. ASSUME NEW i \in D, NEW j \in D
        PROVE  i = j \/ <<i, j>> \in R \/ <<j, i>> \in R
    <3>1. group[i].key \in Int /\ group[j].key \in Int /\ i \in Int /\ j \in Int
      BY <2>1
    <3> QED
      BY <1>3, <3>1
  <2>4. \A i, j, k \in D : <<i, j>> \in R /\ <<j, k>> \in R => <<i, k>> \in R
    BY <1>3, <2>1
  <2> QED
    BY <1>2, <2>2, <2>3, <2>4 DEF StrictlyOrders
<1>6. /\ p \in [1..N -> D]
      /\ \A i \in D : \E k \in 1..N : p[k] = i
      /\ \A j, k \in 1..N : j < k <=> <<p[j], p[k]>> \in R
      /\ \A j, k \in 1..N : p[j] = p[k] => j = k
  BY <1>2, <1>5, InOrderSorts
<1> HIDE DEF p
<1>7. ASSUME NEW j \in 1..N, NEW k \in 1..N, j < k
      PROVE  group[p[j]].key <= group[p[k]].key
  <2>1. p[j] \in D /\ p[k] \in D /\ <<p[j], p[k]>> \in R
    BY <1>6, <1>7
  <2>2. group[p[j]].key \in Int /\ group[p[k]].key \in Int
    BY <2>1
  <2> QED
    BY <1>3, <2>1, <2>2
<1>8. SortsGroup(p, group)
  BY <1>1, <1>4, <1>6, <1>7 DEF SortsGroup
<1> QED
  BY <1>8

\* The rows of one establishment, in the order of the export.
LEMMA RowsOfExport ==
  ASSUME NEW e \in DirectoryExports, NEW u
  PROVE  /\ RowsOf(e, u) \in Seq(ToSet(e))
         /\ \A r : r \in ToSet(RowsOf(e, u)) <=> r \in ToSet(e) /\ r.uai = u
<1> DEFINE I == {i \in DOMAIN e : e[i].uai = u}
           g == RowsOf(e, u)
<1>1. e \in Seq(ToSet(e)) /\ I \in SUBSET (DOMAIN e)
  BY ExportsAssumption
<1>2. IsFiniteSet(I) /\ I \in SUBSET Int
  BY <1>1, PositionsAreFinite
<1>3. \A i \in I : e[i] \in ToSet(e)
  BY DEF ToSet
<1>4. g = Selected(e, I)
  BY DEF RowsOf
<1>5. \A i : i \in I <=> i \in DOMAIN e /\ e[i].uai = u
  OBVIOUS
<1> HIDE DEF I, g
<1>6. /\ g \in Seq(ToSet(e)) /\ DOMAIN g = 1..Cardinality(I)
      /\ \A k \in 1..Cardinality(I) : \E i \in I : g[k] = e[i]
      /\ \A i \in I : \E k \in 1..Cardinality(I) : g[k] = e[i]
  <2>1. /\ g \in Seq(ToSet(e)) /\ DOMAIN g = 1..Cardinality(I)
        /\ HasExactly(g, e, I)
    BY <1>2, <1>3, <1>4, SelectedHas
  <2> QED
    BY <2>1 DEF HasExactly
<1>7. ASSUME NEW r PROVE r \in ToSet(g) <=> r \in ToSet(e) /\ r.uai = u
  <2>1. ASSUME r \in ToSet(g) PROVE r \in ToSet(e) /\ r.uai = u
    <3>1. PICK k \in DOMAIN g : r = g[k]
      BY <2>1 DEF ToSet
    <3>2. PICK i \in I : r = e[i]
      BY <1>6, <3>1
    <3> QED
      BY <1>5, <3>2 DEF ToSet
  <2>2. ASSUME r \in ToSet(e), r.uai = u PROVE r \in ToSet(g)
    <3>1. PICK i \in DOMAIN e : r = e[i]
      BY <2>2 DEF ToSet
    <3>2. PICK k \in DOMAIN g : g[k] = e[i]
      BY <1>5, <1>6, <2>2, <3>1
    <3> QED
      BY <3>1, <3>2 DEF ToSet
  <2> QED
    BY <2>1, <2>2
<1> QED
  BY <1>6, <1>7 DEF g

\* An establishment has its rows' sites, in a new order.
LEMMA SitesOfAnEstablishment ==
  ASSUME NEW e \in DirectoryExports, NEW u
  PROVE  LET g == RowsOf(e, u)
         IN \E o : /\ SortsGroup(o, g)
                   /\ Establishment(e, u).sites = [k \in 1..Len(g) |-> g[o[k]].site]
<1> DEFINE g == RowsOf(e, u)
<1>1. g \in Seq(ToSet(e)) /\ \A i \in DOMAIN g : g[i] \in ToSet(g)
  BY RowsOfExport DEF ToSet
<1>2. \A i \in DOMAIN g : g[i].key \in Int
  <2>1. \A r \in ToSet(e) : r.key \in Int
    BY ExportsAssumption DEF ToSet
  <2> QED
    BY <1>1, <2>1
<1>3. Establishment(e, u).sites = [k \in DOMAIN Sorted(g) |-> Sorted(g)[k].site]
  BY DEF Establishment
<1> HIDE DEF g
<1>4. PICK o : SortsGroup(o, g)
  BY <1>1, <1>2, SortedIsAPermutation
<1>5. Sorted(g) = [k \in 1..Len(g) |-> g[o[k]]]
  BY <1>4 DEF SortsGroup
<1>6. Establishment(e, u).sites = [k \in 1..Len(g) |-> g[o[k]].site]
  BY <1>3, <1>5
<1> QED
  BY <1>4, <1>6 DEF g

\* Whom the directory made of an export is about.
LEMMA EstablishmentsOfAnExport ==
  ASSUME NEW e
  PROVE  /\ \A u : u \in DOMAIN BuildEstablishments(e) <=>
                     u # Malformed /\ \E r \in ToSet(e) : r.uai = u
         /\ \A u \in DOMAIN BuildEstablishments(e) :
              BuildEstablishments(e)[u] = Establishment(e, u)
  BY DEF BuildEstablishments

\* The directory made of an export is one.
LEMMA BuildsADirectory ==
  ASSUME NEW e \in DirectoryExports
  PROVE  IsDirectory(BuildEstablishments(e))
<1> DEFINE b == BuildEstablishments(e)
           uais == {e[i].uai : i \in DOMAIN e}
<1>1. e \in Seq(ToSet(e)) /\ DOMAIN e = 1..Len(e) /\ Len(e) \in Nat
  BY ExportsAssumption
<1>2. IsFiniteSet(uais)
  <2> DEFINE f == [i \in 1..Len(e) |-> e[i].uai]
  <2>1. f \in Surjection(1..Len(e), uais)
    BY <1>1 DEF Surjection
  <2>2. IsFiniteSet(1..Len(e))
    BY <1>1, FS_Interval
  <2> QED
    BY <2>1, <2>2, FS_Surjection
<1>3. DOMAIN b \subseteq uais
  BY EstablishmentsOfAnExport DEF ToSet
<1> HIDE DEF uais
<1>4. IsFiniteSet(DOMAIN b)
  BY <1>2, <1>3, FS_Subset
<1>5. ASSUME NEW u \in DOMAIN b
      PROVE  u \in DOMAIN Collation /\ IsSite(Canonical(b[u]))
  <2> DEFINE g == RowsOf(e, u)
  <2>1. u # Malformed /\ b[u] = Establishment(e, u) /\ \E r \in ToSet(e) : r.uai = u
    BY <1>5, EstablishmentsOfAnExport
  <2>2. g \in Seq(ToSet(e)) /\ \A r : r \in ToSet(g) <=> r \in ToSet(e) /\ r.uai = u
    BY RowsOfExport
  <2>3. PICK o : /\ SortsGroup(o, g)
                 /\ Establishment(e, u).sites = [k \in 1..Len(g) |-> g[o[k]].site]
    BY SitesOfAnEstablishment
  <2> HIDE DEF g, b
  <2>4. 1 \in 1..Len(g) /\ Len(g) \in Nat
    <3>1. PICK r \in ToSet(g) : TRUE
      BY <2>1, <2>2
    <3>2. PICK i \in DOMAIN g : r = g[i]
      BY <3>1 DEF ToSet
    <3> QED
      BY <2>2, <3>2
  <2>5. o[1] \in DOMAIN g /\ Canonical(b[u]) = g[o[1]].site
    BY <2>1, <2>2, <2>3, <2>4 DEF SortsGroup, Canonical
  <2>6. g[o[1]] \in ToSet(e) /\ g[o[1]].uai = u
    BY <2>2, <2>5 DEF ToSet
  <2>7. \A r \in ToSet(e) : r.uai # Malformed => r.uai \in DOMAIN Collation /\ IsSite(r.site)
    BY ExportsAssumption DEF ToSet
  <2> QED
    BY <2>1, <2>5, <2>6, <2>7
<1> QED
  BY <1>4, <1>5 DEF IsDirectory

\* What a step does to the requests and to what is shown.
LEMMA StepsOfAnswers ==
  ASSUME [PagesNext]_pageVars
  PROVE  /\ \A q \in inFlight' : q \in inFlight \/ q.answer \in {Pending, Lost, db}
         /\ \/ resource' = resource \/ resource' = Loading
            \/ \E q \in inFlight : resource' = Settled(q)
<1>1. CASE Load \/ Rollback \/ Toggle \/ Clear \/ UNCHANGED pageVars
  BY <1>1 DEF Load, Rollback, Toggle, Clear, pageVars, tabVars
<1>2. CASE Navigate \/ OpenSelection \/ RemoveFilter
  BY <1>2 DEF Navigate, OpenSelection, RemoveFilter, Open
<1>3. CASE RunEffect
  BY <1>3 DEF RunEffect
<1>4. ASSUME NEW q \in inFlight, Serve(q) \/ NetworkFails(q)
      PROVE  /\ \A r \in inFlight' : r \in inFlight \/ r.answer \in {Pending, Lost, db}
             /\ resource' = resource
  BY <1>4 DEF Serve, NetworkFails, Answer
<1>5. ASSUME NEW q \in inFlight, Deliver(q)
      PROVE  /\ inFlight' \subseteq inFlight
             /\ resource' = resource \/ resource' = Settled(q)
  BY <1>5 DEF Deliver
<1> QED
  BY <1>1, <1>2, <1>3, <1>4, <1>5 DEF PagesNext

\* Every step keeps the tables sound, and every answer on its way.
LEMMA StepRecords == RecordsInv /\ [PagesNext]_pageVars => RecordsInv'
<1> SUFFICES ASSUME RecordsInv, [PagesNext]_pageVars PROVE RecordsInv'
  OBVIOUS
<1>1. RowsAreSound(db'.rows) /\ DirectoriesAreSound'
  <2>1. CASE Load
    <3>1. PICK export \in DirectoryExports, offered \in IndicatorOffers :
            /\ previous' = [directory |-> db.directory, sources |-> db.sources]
            /\ db' = [rows |-> Appended(db.rows, offered),
                      directory |-> BuildEstablishments(export),
                      sources |-> Datasets]
            /\ exported' = export
      BY <2>1 DEF Load
    <3>2. RowsAreSound(db'.rows)
      BY <3>1, AppendedAreSound DEF RecordsInv
    <3>3. IsDirectory(db'.directory) /\ IsDirectory(previous'.directory)
      BY <3>1, BuildsADirectory DEF RecordsInv, DirectoriesAreSound
    <3> QED
      BY <3>1, <3>2, <3>3 DEF DirectoriesAreSound
  <2>2. CASE Rollback
    BY <2>2 DEF Rollback, RecordsInv, DirectoriesAreSound
  <2>3. CASE UNCHANGED <<db, previous, exported>>
    BY <2>3 DEF RecordsInv, DirectoriesAreSound
  <2> QED
    BY <2>1, <2>2, <2>3 DEF PagesNext, Navigate, OpenSelection, RemoveFilter, Toggle,
       Clear, RunEffect, Serve, NetworkFails, Deliver, storeVars, pageVars
<1>2. AnswersAreSound'
  <2>1. ASSUME NEW q \in inFlight', IsSnapshot(q.answer)
        PROVE  IsDirectory(q.answer.directory)
    <3>1. q \in inFlight \/ q.answer = db
      BY <2>1, StepsOfAnswers DEF IsSnapshot
    <3> QED
      BY <2>1, <3>1 DEF RecordsInv, AnswersAreSound, DirectoriesAreSound
  <2>2. ASSUME resource'.state # "loading", IsSnapshot(resource'.answer)
        PROVE  IsDirectory(resource'.answer.directory)
    <3>1. CASE resource' = resource
      BY <2>2, <3>1 DEF RecordsInv, AnswersAreSound
    <3>2. CASE resource' = Loading
      BY <2>2, <3>2 DEF Loading
    <3>3. ASSUME NEW q \in inFlight, resource' = Settled(q)
          PROVE  IsDirectory(resource'.answer.directory)
      <4>1. resource'.answer = q.answer
        BY <3>3 DEF Settled
      <4> QED
        BY <2>2, <4>1 DEF RecordsInv, AnswersAreSound
    <3> QED
      BY <3>1, <3>2, <3>3, StepsOfAnswers
  <2> QED
    BY <2>1, <2>2 DEF AnswersAreSound, IsSnapshot, Pending, Lost
<1> QED
  BY <1>1, <1>2 DEF RecordsInv

\* What the tables hold, in every behaviour.
THEOREM RecordsInvariant == PagesSpec => []RecordsInv
<1>1. PagesInit => RecordsInv
  <2> SUFFICES ASSUME PagesInit PROVE RecordsInv
    OBVIOUS
  <2>1. IsDirectory(<<>>) /\ RowsAreSound({})
    BY FS_EmptySet DEF IsDirectory, RowsAreSound
  <2> QED
    BY <2>1 DEF PagesInit, RecordsInv, DirectoriesAreSound, AnswersAreSound, Loading
<1> QED
  BY <1>1, StepRecords, PTL DEF PagesSpec
-----------------------------------------------------------------------------
(* The directory.                                                          *)

\* However the source orders an export, and however many sites an establishment
\* has in it, each of its rows is one of its sites (directory_adapter.py).
THEOREM EverySiteIsKept == PagesSpec => []NoSiteIsLost
<1>1. ASSUME RecordsInv, exported # NoExport, NEW u \in DOMAIN db.directory
      PROVE  /\ Len(db.directory[u].sites) = Len(RowsOf(exported, u))
             /\ ToSet(db.directory[u].sites) = {r.site : r \in ToSet(RowsOf(exported, u))}
  <2> DEFINE g == RowsOf(exported, u)
             s == db.directory[u].sites
  <2>1. exported \in DirectoryExports /\ db.directory[u] = Establishment(exported, u)
    BY <1>1, EstablishmentsOfAnExport DEF RecordsInv, DirectoriesAreSound
  <2>2. g \in Seq(ToSet(exported))
    BY <2>1, RowsOfExport
  <2>3. PICK o : /\ SortsGroup(o, g)
                 /\ Establishment(exported, u).sites = [k \in 1..Len(g) |-> g[o[k]].site]
    BY <2>1, SitesOfAnEstablishment
  <2>4. s = [k \in 1..Len(g) |-> g[o[k]].site]
    BY <2>1, <2>3
  <2> HIDE DEF g, s
  <2>5. /\ Len(g) \in Nat /\ DOMAIN g = 1..Len(g) /\ o \in [1..Len(g) -> 1..Len(g)]
        /\ \A i \in 1..Len(g) : \E k \in 1..Len(g) : o[k] = i
    BY <2>2, <2>3 DEF SortsGroup
  <2>6. Len(s) = Len(g)
    BY <2>4, <2>5
  <2>7. \A x : x \in ToSet(s) <=> \E k \in 1..Len(g) : x = g[o[k]].site
    BY <2>4, <2>5 DEF ToSet
  <2>8. \A x : x \in {r.site : r \in ToSet(g)} <=> \E i \in 1..Len(g) : x = g[i].site
    <3>1. \A r : r \in ToSet(g) <=> \E i \in 1..Len(g) : r = g[i]
      BY <2>5 DEF ToSet
    <3> QED
      BY <3>1
  <2>9. ToSet(s) = {r.site : r \in ToSet(g)}
    <3>1. ASSUME NEW i \in 1..Len(g) PROVE \E k \in 1..Len(g) : g[i].site = g[o[k]].site
      BY <2>5
    <3>2. \A k \in 1..Len(g) : o[k] \in 1..Len(g)
      BY <2>5
    <3> QED
      BY <2>7, <2>8, <3>1, <3>2
  <2> QED
    BY <2>6, <2>9 DEF g, s
<1>2. RecordsInv => NoSiteIsLost
  BY <1>1 DEF NoSiteIsLost
<1> QED
  BY <1>2, RecordsInvariant, PTL

\* Rows whose keys differ are sorted in one way, whatever their order was.
LEMMA OneOrderOfSites ==
  ASSUME NEW g, NEW S, g \in Seq(S), \A r : r \in ToSet(g) <=> r \in S,
         \A i, j \in DOMAIN g : g[i] = g[j] => i = j,
         \A r \in S : r.key \in Int, \A r, s \in S : r.key = s.key => r = s
  PROVE  Sorted(g) = InOrder(S, {e \in S \X S : e[1].key < e[2].key})
<1> DEFINE N == Len(g)
           R == {e \in S \X S : e[1].key < e[2].key}
<1>1. N \in Nat /\ DOMAIN g = 1..N /\ \A i \in 1..N : g[i] \in S
  OBVIOUS
<1>2. \A r, s \in S : <<r, s>> \in R <=> r.key < s.key
  OBVIOUS
<1>3. g \in Bijection(1..N, S)
  <2>1. g \in [1..N -> S] /\ \A r \in S : \E i \in 1..N : g[i] = r
    BY <1>1 DEF ToSet
  <2> QED
    BY <1>1, <2>1 DEF Bijection, Injection, Surjection, IsInjective
<1>4. IsFiniteSet(S) /\ Cardinality(S) = N
  <2>1. IsFiniteSet(1..N) /\ Cardinality(1..N) = N
    BY <1>1, CountTo
  <2>2. ExistsBijection(1..N, S)
    BY <1>3 DEF ExistsBijection
  <2> QED
    BY <2>1, <2>2, FS_Bijection
<1> HIDE DEF R
<1>5. StrictlyOrders(R, S)
  <2>1. ASSUME NEW r \in S, NEW s \in S
        PROVE  r = s \/ <<r, s>> \in R \/ <<s, r>> \in R
    <3>1. r.key \in Int /\ s.key \in Int
      OBVIOUS
    <3>2. r.key < s.key \/ s.key < r.key \/ r.key = s.key
      BY <3>1
    <3> QED
      BY <1>2, <3>2
  <2>2. \A r \in S : <<r, r>> \notin R
    BY <1>2
  <2>3. \A q, r, s \in S : <<q, r>> \in R /\ <<r, s>> \in R => <<q, s>> \in R
    <3>1. ASSUME NEW q \in S, NEW r \in S, NEW s \in S, <<q, r>> \in R, <<r, s>> \in R
          PROVE  <<q, s>> \in R
      <4>1. q.key \in Int /\ r.key \in Int /\ s.key \in Int
        OBVIOUS
      <4> QED
        BY <1>2, <3>1, <4>1
    <3> QED
      BY <3>1
  <2> QED
    BY <1>4, <2>1, <2>2, <2>3 DEF StrictlyOrders
<1>6. PICK o : SortsGroup(o, g)
  BY <1>1, SortedIsAPermutation
<1>7. /\ o \in [1..N -> 1..N] /\ \A j, k \in 1..N : o[j] = o[k] => j = k
      /\ \A j, k \in 1..N : j < k => g[o[j]].key <= g[o[k]].key
      /\ Sorted(g) = [k \in 1..N |-> g[o[k]]]
  BY <1>6 DEF SortsGroup
<1> DEFINE q == Sorted(g)
<1>8. q \in [1..N -> S] /\ \A j, k \in 1..N : q[j] = q[k] => j = k
  <2>1. q = [k \in 1..N |-> g[o[k]]]
    BY <1>7
  <2> HIDE DEF q
  <2>2. ASSUME NEW k \in 1..N PROVE q[k] = g[o[k]] /\ o[k] \in 1..N /\ q[k] \in S
    BY <1>1, <1>7, <2>1
  <2>3. q \in [1..N -> S]
    BY <2>1, <2>2
  <2>4. ASSUME NEW j \in 1..N, NEW k \in 1..N, q[j] = q[k] PROVE j = k
    <3>1. o[j] = o[k]
      BY <1>1, <2>2, <2>4
    <3> QED
      BY <1>7, <3>1
  <2> QED
    BY <2>3, <2>4
<1>9. \A j, k \in 1..N : j < k => <<q[k], q[j]>> \notin R
  <2>1. ASSUME NEW j \in 1..N, NEW k \in 1..N, j < k PROVE <<q[k], q[j]>> \notin R
    <3>1. /\ q[j] \in S /\ q[k] \in S
          /\ q[j].key \in Int /\ q[k].key \in Int /\ q[j].key <= q[k].key
      BY <1>7, <1>8, <2>1
    <3> QED
      BY <1>2, <3>1
  <2> QED
    BY <2>1
<1> HIDE DEF q
<1>10. q = InOrder(S, R)
  BY <1>4, <1>5, <1>8, <1>9, SortedIsUnique
<1> QED
  BY <1>10 DEF q, R

\* Serving the rows of an export without ties again, as many of them, is
\* serving them in another order: none comes twice.
LEMMA ServedOnce ==
  ASSUME NEW e \in DirectoryExports, NEW f \in DirectoryExports, ~HasTies(e),
         ToSet(f) = ToSet(e), Len(f) = Len(e)
  PROVE  /\ \A i, j \in DOMAIN e : e[i] = e[j] => i = j
         /\ \A i, j \in DOMAIN f : f[i] = f[j] => i = j
<1> DEFINE N == Len(e)
           S == ToSet(e)
<1>1. /\ e \in Seq(S) /\ f \in Seq(S) /\ N \in Nat
      /\ DOMAIN e = 1..N /\ DOMAIN f = 1..N
  BY ExportsAssumption
<1>2. \A i, j \in DOMAIN e : e[i] = e[j] => i = j
  BY DEF HasTies
<1>3. /\ e \in [1..N -> S] /\ \A r \in S : \E i \in 1..N : e[i] = r
      /\ f \in [1..N -> S] /\ \A r \in S : \E i \in 1..N : f[i] = r
  <2>1. \A r \in S : \E i \in 1..N : e[i] = r
    BY <1>1 DEF ToSet
  <2>2. \A r \in ToSet(f) : \E i \in 1..N : f[i] = r
    BY <1>1 DEF ToSet
  <2> HIDE DEF S
  <2> QED
    BY <1>1, <2>1, <2>2 DEF S
<1> HIDE DEF S
<1>4. IsFiniteSet(1..N) /\ Cardinality(1..N) = N
  BY <1>1, CountTo
<1>5. Cardinality(S) = N
  <2>1. e \in Bijection(1..N, S)
    BY <1>1, <1>2, <1>3 DEF Bijection, Injection, Surjection, IsInjective
  <2>2. ExistsBijection(1..N, S)
    BY <2>1 DEF ExistsBijection
  <2> QED
    BY <1>4, <2>2, FS_Bijection
<1>6. f \in Injection(1..N, S)
  <2>1. f \in Surjection(1..N, S)
    BY <1>3 DEF Surjection
  <2> QED
    BY <1>4, <1>5, <2>1, FS_SurjSameCardinalityImpliesInj
<1>7. \A i, j \in DOMAIN f : f[i] = f[j] => i = j
  BY <1>1, <1>6 DEF Injection, IsInjective
<1> QED
  BY <1>2, <1>7

\* Filtering an export's rows by establishment repeats none.
LEMMA RowsOfOnce ==
  ASSUME NEW e \in DirectoryExports, \A i, j \in DOMAIN e : e[i] = e[j] => i = j, NEW u
  PROVE  IsInjective(RowsOf(e, u))
<1> DEFINE I == {i \in DOMAIN e : e[i].uai = u}
<1>1. e \in Seq(ToSet(e)) /\ I \in SUBSET (DOMAIN e)
  BY ExportsAssumption
<1> HIDE DEF I
<1>2. \A j, k \in DOMAIN Selected(e, I) : Selected(e, I)[j] = Selected(e, I)[k] => j = k
  BY <1>1, SelectedKeepsDistinct
<1> QED
  BY <1>2 DEF IsInjective, RowsOf, I

\* The same rows make the same establishments, in whatever order they come.
LEMMA OneDirectory ==
  ASSUME NEW e \in DirectoryExports, NEW f \in DirectoryExports, ~HasTies(e),
         ToSet(f) = ToSet(e), Len(f) = Len(e)
  PROVE  BuildEstablishments(f) = BuildEstablishments(e)
<1>1. /\ \A i, j \in DOMAIN e : e[i] = e[j] => i = j
      /\ \A i, j \in DOMAIN f : f[i] = f[j] => i = j
  BY ServedOnce
<1>2. /\ \A r \in ToSet(e) : r.key \in Int
      /\ \A r, s \in ToSet(e) : r.uai = s.uai /\ r.key = s.key => r = s
  BY ExportsAssumption DEF ToSet, HasTies
<1>3. ASSUME NEW u PROVE Establishment(f, u) = Establishment(e, u)
  <2> DEFINE S == {r \in ToSet(e) : r.uai = u}
             R == {p \in S \X S : p[1].key < p[2].key}
             g == RowsOf(e, u)
             h == RowsOf(f, u)
  <2>1. /\ g \in Seq(ToSet(e)) /\ \A r : r \in ToSet(g) <=> r \in ToSet(e) /\ r.uai = u
        /\ h \in Seq(ToSet(f)) /\ \A r : r \in ToSet(h) <=> r \in ToSet(f) /\ r.uai = u
    BY RowsOfExport
  <2>2. IsInjective(g) /\ IsInjective(h)
    BY <1>1, RowsOfOnce
  <2> HIDE DEF g, h
  <2>3. /\ \A r : r \in ToSet(g) <=> r \in S
        /\ \A r : r \in ToSet(h) <=> r \in S
    BY <2>1
  <2>4. g \in Seq(S) /\ h \in Seq(S)
    <3>1. ASSUME NEW k, NEW T, k \in Seq(T), \A r : r \in ToSet(k) <=> r \in S
          PROVE  k \in Seq(S)
      <4>1. \A i \in 1..Len(k) : k[i] \in ToSet(k)
        BY <3>1 DEF ToSet
      <4> QED
        BY <3>1, <4>1
    <3> QED
      BY <2>1, <2>3, <3>1
  <2>5. /\ \A i, j \in DOMAIN g : g[i] = g[j] => i = j
        /\ \A i, j \in DOMAIN h : h[i] = h[j] => i = j
    BY <2>2 DEF IsInjective
  <2>6. (\A r \in S : r.key \in Int) /\ \A r, s \in S : r.key = s.key => r = s
    BY <1>2
  <2> HIDE DEF S
  <2>7. Sorted(g) = InOrder(S, R) /\ Sorted(h) = InOrder(S, R)
    BY <2>3, <2>4, <2>5, <2>6, OneOrderOfSites
  <2>8. Sorted(h) = Sorted(g)
    BY <2>7
  <2> QED
    BY <2>8 DEF Establishment, g, h
<1> QED
  BY <1>3 DEF BuildEstablishments

\* Loading the rows that are loaded again, in another order, changes nothing,
\* unless their sort keys leave ties (directory_adapter.py).
THEOREM SameRowsSameDirectory == PagesSpec => ReloadsAgree
<1>1. ASSUME RecordsInv, [PagesNext]_pageVars, exported # NoExport, writes' # writes,
             ToSet(exported') = ToSet(exported), Len(exported') = Len(exported),
             ~HasTies(exported)
      PROVE  db'.directory = db.directory
  <2>1. exported \in DirectoryExports /\ db.directory = BuildEstablishments(exported)
    BY <1>1 DEF RecordsInv, DirectoriesAreSound
  <2>2. Load \/ Rollback
    BY <1>1 DEF PagesNext, Navigate, OpenSelection, RemoveFilter, Toggle, Clear,
       RunEffect, Serve, NetworkFails, Deliver, storeVars, pageVars
  <2>3. CASE Load
    <3>1. PICK export \in DirectoryExports :
            exported' = export /\ db'.directory = BuildEstablishments(export)
      BY <2>3 DEF Load
    <3> QED
      BY <1>1, <2>1, <3>1, OneDirectory
  <2>4. CASE Rollback
    <3>1. exported' = <<>>
      BY <2>4 DEF Rollback, NoExport
    <3>2. exported \in Seq(ToSet(exported)) /\ Len(exported) = 0
      BY <1>1, <2>1, <3>1, ExportsAssumption
    <3> QED
      BY <1>1, <3>2 DEF NoExport
  <2> QED
    BY <2>2, <2>3, <2>4
<1> QED
  BY <1>1, RecordsInvariant, PTL DEF ReloadsAgree, PagesSpec
-----------------------------------------------------------------------------
(* The comparison and the history.                                         *)

\* What is shown was published, and is as sound as what is stored.
LEMMA ShownAreSound ==
  ASSUME PagesInv, RecordsInv, resource.state = "success"
  PROVE  RowsAreSound(resource.answer.rows)
<1> DEFINE rows == resource.answer.rows
<1>1. rows \subseteq db.rows
  BY DEF PagesInv, ShownIsAnswered, SnapshotsAreOlder, IsSnapshot
<1>2. RowsAreSound(db.rows)
  BY DEF RecordsInv
<1> HIDE DEF rows
<1>3. IsFiniteSet(rows)
  BY <1>1, <1>2, FS_Subset DEF RowsAreSound
<1>4. RowsAreSound(rows)
  BY <1>1, <1>2, <1>3 DEF RowsAreSound
<1> QED
  BY <1>4 DEF rows

\* The rank of a series.
LEMMA RanksDiffer ==
  /\ \A a \in IndicatorTypes : TypeRank(a) \in Int
  /\ \A a, b \in IndicatorTypes : TypeRank(a) = TypeRank(b) => a = b
<1>1. TypeRank("IVAC") = 1 /\ TypeRank("IVAL_GT") = 2 /\ TypeRank("IVAL_PRO") = 3
  BY DEF TypeRank
<1> QED
  BY <1>1 DEF IndicatorTypes

\* An establishment's rows, in either order of the pages, are all there and
\* nothing else is.
LEMMA ListedRows ==
  ASSUME NEW rows, RowsAreSound(rows), NEW u
  PROVE  /\ ListForEstablishment(rows, u) \in Seq(Published(rows, u))
         /\ \A r : r \in ToSet(ListForEstablishment(rows, u)) <=> r \in Published(rows, u)
         /\ HistoryPoints(rows, u) \in Seq(Published(rows, u))
<1> DEFINE P == Published(rows, u)
           L == {e \in rows \X rows :
                   \/ e[1].year > e[2].year
                   \/ e[1].year = e[2].year /\ TypeRank(e[1].type) < TypeRank(e[2].type)}
           H == {e \in rows \X rows :
                   \/ e[1].year < e[2].year
                   \/ e[1].year = e[2].year /\ TypeRank(e[1].type) < TypeRank(e[2].type)}
<1>1. P \subseteq rows /\ \A r \in P : r.uai = u
  BY DEF Published
<1>2. IsFiniteSet(P)
  BY <1>1, FS_Subset DEF RowsAreSound
<1>3. ASSUME NEW r \in P
      PROVE  r.year \in Int /\ r.type \in IndicatorTypes /\ TypeRank(r.type) \in Int
  BY <1>1, RanksDiffer DEF RowsAreSound
<1>4. ASSUME NEW r \in P, NEW s \in P, r.year = s.year, TypeRank(r.type) = TypeRank(s.type)
      PROVE  r = s
  <2>1. r.type = s.type
    BY <1>3, <1>4, RanksDiffer
  <2> QED
    BY <1>1, <1>4, <2>1 DEF RowsAreSound, SameKey
<1>5. /\ \A r, s \in P : <<r, s>> \in L <=>
           \/ r.year > s.year
           \/ r.year = s.year /\ TypeRank(r.type) < TypeRank(s.type)
      /\ \A r, s \in P : <<r, s>> \in H <=>
           \/ r.year < s.year
           \/ r.year = s.year /\ TypeRank(r.type) < TypeRank(s.type)
  BY <1>1
<1>6. /\ ListForEstablishment(rows, u) = InOrder(P, L)
      /\ HistoryPoints(rows, u) = InOrder(P, H)
  BY DEF ListForEstablishment, HistoryPoints
<1> HIDE DEF P, L, H
<1>7. ASSUME NEW r \in P, NEW s \in P
      PROVE  /\ <<r, r>> \notin L /\ <<r, r>> \notin H
             /\ r = s \/ <<r, s>> \in L \/ <<s, r>> \in L
             /\ r = s \/ <<r, s>> \in H \/ <<s, r>> \in H
  <2>1. /\ r.year \in Int /\ TypeRank(r.type) \in Int
        /\ s.year \in Int /\ TypeRank(s.type) \in Int
    BY <1>3
  <2>2. \/ r.year < s.year \/ s.year < r.year
        \/ r.year = s.year /\ TypeRank(r.type) < TypeRank(s.type)
        \/ r.year = s.year /\ TypeRank(s.type) < TypeRank(r.type)
        \/ r.year = s.year /\ TypeRank(r.type) = TypeRank(s.type)
    BY <2>1
  <2>3. <<r, r>> \notin L /\ <<r, r>> \notin H
    BY <1>5, <2>1
  <2> QED
    BY <1>4, <1>5, <2>1, <2>2, <2>3
<1>8. ASSUME NEW q \in P, NEW r \in P, NEW s \in P
      PROVE  /\ <<q, r>> \in L /\ <<r, s>> \in L => <<q, s>> \in L
             /\ <<q, r>> \in H /\ <<r, s>> \in H => <<q, s>> \in H
  <2>1. /\ q.year \in Int /\ TypeRank(q.type) \in Int
        /\ r.year \in Int /\ TypeRank(r.type) \in Int
        /\ s.year \in Int /\ TypeRank(s.type) \in Int
    BY <1>3
  <2> QED
    BY <1>5, <2>1
<1>9. StrictlyOrders(L, P) /\ StrictlyOrders(H, P)
  BY <1>2, <1>7, <1>8 DEF StrictlyOrders
<1>10. /\ Cardinality(P) \in Nat
       /\ InOrder(P, L) \in [1..Cardinality(P) -> P]
       /\ \A r \in P : \E k \in 1..Cardinality(P) : InOrder(P, L)[k] = r
       /\ InOrder(P, H) \in [1..Cardinality(P) -> P]
  <2>1. /\ Cardinality(P) \in Nat
        /\ InOrder(P, L) \in [1..Cardinality(P) -> P]
        /\ \A r \in P : \E k \in 1..Cardinality(P) : InOrder(P, L)[k] = r
    BY <1>9, InOrderSorts
  <2>2. InOrder(P, H) \in [1..Cardinality(P) -> P]
    BY <1>9, InOrderSorts
  <2> QED
    BY <2>1, <2>2
<1>11. InOrder(P, L) \in Seq(P) /\ InOrder(P, H) \in Seq(P)
  BY <1>10
<1>12. \A r : r \in ToSet(InOrder(P, L)) <=> r \in P
  BY <1>10 DEF ToSet
<1> QED
  BY <1>6, <1>11, <1>12 DEF P

\* The row of a year, if there is one.
LEMMA RowOfAYear ==
  ASSUME NEW rows, RowsAreSound(rows), NEW u, NEW y
  PROVE  LET mine == {r \in Published(rows, u) : r.year = y}
             row == RowOfYear(ListForEstablishment(rows, u), y)
         IN IF mine = {} THEN row = NoRow ELSE row \in mine
<1> DEFINE P == Published(rows, u)
           list == ListForEstablishment(rows, u)
           I == {i \in DOMAIN list : list[i].year = y}
<1>1. list \in Seq(P) /\ \A r : r \in ToSet(list) <=> r \in P
  BY ListedRows
<1>2. RowOfYear(list, y) = IF \E i \in DOMAIN list : list[i].year = y
                           THEN list[Max(I)] ELSE NoRow
  BY DEF RowOfYear
<1> HIDE DEF list, P
<1>3. \A r \in P : \E i \in DOMAIN list : list[i] = r
  BY <1>1 DEF ToSet
<1>4. \A i \in DOMAIN list : list[i] \in P
  BY <1>1
<1>5. CASE I = {}
  BY <1>2, <1>3, <1>5 DEF P, list
<1>6. CASE I # {}
  <2>1. IsFiniteSet(I) /\ I \in SUBSET Int
    <3>1. I \in SUBSET (DOMAIN list)
      OBVIOUS
    <3> HIDE DEF I
    <3> QED
      BY <1>1, <3>1, PositionsAreFinite
  <2>2. Max(I) \in I
    <3> HIDE DEF I
    <3> QED
      BY <1>6, <2>1, GreatestNumber
  <2>3. list[Max(I)] \in P /\ list[Max(I)].year = y
    BY <1>4, <2>2
  <2> QED
    BY <1>2, <1>6, <2>2, <2>3 DEF P, list
<1> QED
  BY <1>5, <1>6

\* The years compared: those of either establishment, each one once.
LEMMA YearsCompared ==
  ASSUME NEW rows, RowsAreSound(rows), NEW uais
  PROVE  LET years == ComparedYears(rows, uais)
             mine == UNION {Published(rows, u) : u \in ToSet(uais)}
         IN /\ \A r \in mine : \E k \in DOMAIN years : years[k] = r.year
            /\ \A k \in DOMAIN years \ {1} :
                 k - 1 \in DOMAIN years /\ years[k] < years[k - 1]
<1> DEFINE mine == UNION {Published(rows, u) : u \in ToSet(uais)}
           Y == {r.year : r \in mine}
           R == {e \in Y \X Y : e[1] > e[2]}
           years == ComparedYears(rows, uais)
<1>1. mine \subseteq rows
  BY DEF Published
<1>2. years = InOrder(Y, R)
  BY DEF ComparedYears, LatestFirst
<1>3. \A y : y \in Y <=> \E r \in mine : y = r.year
  OBVIOUS
<1> HIDE DEF mine, Y, years
<1>4. Y \subseteq Int /\ IsFiniteSet(Y)
  <2> DEFINE f == [r \in mine |-> r.year]
  <2>1. f \in Surjection(mine, Y)
    BY <1>3 DEF Surjection
  <2>2. IsFiniteSet(mine)
    BY <1>1, FS_Subset DEF RowsAreSound
  <2>3. IsFiniteSet(Y)
    BY <2>1, <2>2, FS_Surjection
  <2> QED
    BY <1>1, <1>3, <2>3 DEF RowsAreSound
<1>5. \A y, z \in Y : <<y, z>> \in R <=> y > z
  OBVIOUS
<1> HIDE DEF R
<1>6. StrictlyOrders(R, Y)
  BY <1>4, <1>5 DEF StrictlyOrders
<1>7. /\ Cardinality(Y) \in Nat /\ years \in [1..Cardinality(Y) -> Y]
      /\ \A y \in Y : \E k \in 1..Cardinality(Y) : years[k] = y
      /\ \A j, k \in 1..Cardinality(Y) : j < k <=> <<years[j], years[k]>> \in R
  BY <1>2, <1>6, InOrderSorts
<1>8. ASSUME NEW k \in DOMAIN years \ {1}
      PROVE  k - 1 \in DOMAIN years /\ years[k] < years[k - 1]
  <2>1. k \in 1..Cardinality(Y) /\ k - 1 \in 1..Cardinality(Y) /\ k - 1 < k
    BY <1>7
  <2>2. <<years[k - 1], years[k]>> \in R /\ years[k - 1] \in Y /\ years[k] \in Y
    BY <1>7, <2>1
  <2> QED
    BY <1>4, <1>5, <1>7, <2>1, <2>2
<1>9. ASSUME NEW r \in mine PROVE \E k \in DOMAIN years : years[k] = r.year
  BY <1>3, <1>7
<1> QED
  BY <1>8, <1>9 DEF years, mine

\* Every year that either establishment published is compared, once and most
\* recent first, each cell is one of its own establishment's rows, and an empty
\* one means that there is none (compare_establishments.py).
THEOREM EveryYearIsCompared == PagesSpec => []ComparisonIsTheUnion
<1>1. ASSUME NEW rows, RowsAreSound(rows), NEW uais, NEW shown,
             shown = UNION {Published(rows, u) : u \in ToSet(uais)}
      PROVE  LET c == Compare(rows, uais)
             IN /\ \A r \in shown : \E k \in DOMAIN c : c[k].year = r.year
                /\ \A k \in DOMAIN c : \A i \in DOMAIN uais :
                     LET uai == uais[i]
                         cell == c[k].cells[i]
                         mine == {r \in Published(rows, uai) : r.year = c[k].year}
                     IN cell.uai = uai /\ IF mine = {} THEN cell.row = NoRow ELSE cell.row \in mine
                /\ \A k \in DOMAIN c \ {1} : c[k].year < c[k - 1].year
  <2> DEFINE years == ComparedYears(rows, uais)
             c == Compare(rows, uais)
  <2>1. /\ \A r \in shown : \E k \in DOMAIN years : years[k] = r.year
        /\ \A k \in DOMAIN years \ {1} :
             k - 1 \in DOMAIN years /\ years[k] < years[k - 1]
    BY <1>1, YearsCompared
  <2>2. c = [k \in DOMAIN years |->
               [year  |-> years[k],
                cells |-> [i \in DOMAIN uais |->
                  [uai |-> uais[i],
                   row |-> RowOfYear(ListForEstablishment(rows, uais[i]), years[k])]]]]
    BY DEF Compare
  <2> HIDE DEF c
  <2>3. DOMAIN c = DOMAIN years /\ \A k \in DOMAIN years : c[k].year = years[k]
    BY <2>2
  <2>4. ASSUME NEW k \in DOMAIN c, NEW i \in DOMAIN uais
        PROVE  /\ c[k].cells[i].uai = uais[i]
               /\ c[k].cells[i].row =
                    RowOfYear(ListForEstablishment(rows, uais[i]), c[k].year)
    BY <2>2
  <2>5. ASSUME NEW k \in DOMAIN c, NEW i \in DOMAIN uais
        PROVE  LET mine == {r \in Published(rows, uais[i]) : r.year = c[k].year}
               IN IF mine = {} THEN c[k].cells[i].row = NoRow ELSE c[k].cells[i].row \in mine
    BY <1>1, <2>4, RowOfAYear
  <2>6. ASSUME NEW k \in DOMAIN c \ {1} PROVE c[k].year < c[k - 1].year
    <3>1. k \in DOMAIN years /\ k - 1 \in DOMAIN years /\ years[k] < years[k - 1]
      BY <2>1, <2>3
    <3> QED
      BY <2>3, <3>1
  <2>7. \A r \in shown : \E k \in DOMAIN c : c[k].year = r.year
    BY <2>1, <2>3
  <2> QED
    BY <2>4, <2>5, <2>6, <2>7 DEF c
<1>2. ASSUME PagesInv, RecordsInv, Shows("compare") PROVE RowsAreSound(resource.answer.rows)
  BY <1>2, ShownAreSound DEF Shows
<1>3. PagesInv /\ RecordsInv => ComparisonIsTheUnion
  BY <1>1, <1>2 DEF ComparisonIsTheUnion, RowsShown
<1> QED
  BY <1>3, PagesInvariant, RecordsInvariant, PTL

-----------------------------------------------------------------------------
(* The lines of the chart.                                                 *)

\* What is plotted was published by the establishment of the page.
LEMMA PlottedArePublished ==
  ASSUME NEW rows, RowsAreSound(rows), NEW u
  PROVE  LET p == Plotted(HistoryPoints(rows, u))
         IN /\ Len(p) \in Nat
            /\ \A i \in 1..Len(p) : p[i] \in Published(rows, u)
<1> DEFINE points == HistoryPoints(rows, u)
           I == {i \in DOMAIN points : points[i].value # Absent}
           p == Plotted(points)
<1>1. points \in Seq(Published(rows, u))
  BY ListedRows
<1>2. p = Selected(points, I)
  BY DEF Plotted
<1> HIDE DEF points, p
<1>3. /\ I \subseteq DOMAIN points
      /\ \A i \in DOMAIN points : points[i] \in Published(rows, u)
  BY <1>1
<1> HIDE DEF I
<1>4. I \in SUBSET Int /\ IsFiniteSet(I)
  BY <1>1, <1>3, PositionsAreFinite
<1>5. \A i \in I : points[i] \in Published(rows, u)
  BY <1>3
<1>6. p \in Seq(Published(rows, u))
  BY <1>2, <1>4, <1>5, SelectedHas
<1> QED
  BY <1>6 DEF p, points

\* No line of the chart joins a point of a series before a methodology break of
\* that series to one after it, whatever the years published on either side
\* (HistoryChart.tsx toSegments, get_establishment_history.py).
THEOREM LinesNeverCrossABreak == PagesSpec => []LinesStopAtBreaks
<1>1. ASSUME NEW rows, RowsAreSound(rows), NEW u, NEW line \in ChartOf(rows, u),
             line[1].type = line[2].type,
             NEW y \in BreaksOf(line[1].type), line[1].year < y, y <= line[2].year
      PROVE  FALSE
  <2> DEFINE P == Published(rows, u)
             B == BreaksSpannedBy(P)
             p == Plotted(HistoryPoints(rows, u))
  <2>1. PICK i \in 1..(Len(p) - 1) : line = <<p[i], p[i + 1]>> /\ Joined(p[i], p[i + 1], B)
    BY <1>1 DEF ChartOf, Lines
  <2>2. Len(p) \in Nat /\ \A k \in 1..Len(p) : p[k] \in P
    BY <1>1, PlottedArePublished
  <2> HIDE DEF p
  <2>3. i \in 1..Len(p) /\ i + 1 \in 1..Len(p)
    BY <2>1, <2>2
  <2>4. line[1] \in P /\ line[2] \in P /\ line[1] = p[i] /\ line[2] = p[i + 1]
    BY <2>1, <2>2, <2>3
  <2>5. line[2].year = line[1].year + 1 /\ line[2].year \notin B
    BY <2>1, <2>4 DEF Joined
  <2>6. line[1] \in rows /\ line[2] \in rows
    BY <2>4 DEF Published
  <2>7. line[1].year \in Int /\ line[1].type \in IndicatorTypes
    BY <1>1, <2>6 DEF RowsAreSound
  <2>8. y = ReformYear /\ ReformYear \in Int
    BY <1>1, PagesAssumption DEF BreaksOf
  <2>9. y = line[2].year
    BY <1>1, <2>5, <2>7, <2>8
  <2>10. y \in B
    <3> DEFINE t == line[1].type
    <3>1. /\ line[1] \in P /\ line[1].type = t /\ line[1].year < y
          /\ line[2] \in P /\ line[2].type = t /\ line[2].year >= y
      BY <1>1, <2>4, <2>7, <2>8, <2>9
    <3>2. t \in IndicatorTypes /\ y \in BreaksOf(t)
      BY <1>1, <2>7
    <3> HIDE DEF t, P
    <3> QED
      BY <2>8, <3>1, <3>2 DEF BreaksSpannedBy
  <2> QED
    BY <2>5, <2>9, <2>10
<1>2. ASSUME PagesInv, RecordsInv, Shows("history") PROVE RowsAreSound(resource.answer.rows)
  BY <1>2, ShownAreSound DEF Shows
<1>3. PagesInv /\ RecordsInv => LinesStopAtBreaks
  BY <1>1, <1>2 DEF LinesStopAtBreaks
<1> QED
  BY <1>3, PagesInvariant, RecordsInvariant, PTL

-----------------------------------------------------------------------------
(* The search page and the comparison its cards select.                    *)

\* A part of a sequence.
LEMMA PartOfASequence ==
  ASSUME NEW T, NEW s \in Seq(T), NEW a \in Nat, NEW b \in Nat, a < b, b <= Len(s)
  PROVE  /\ SubSeq(s, a + 1, b) \in Seq(T)
         /\ Len(SubSeq(s, a + 1, b)) = b - a
         /\ \A k \in 1..(b - a) : SubSeq(s, a + 1, b)[k] = s[a + k]
<1>1. \A i \in (a + 1)..b : i \in 1..Len(s)
  OBVIOUS
<1>2. Len(SubSeq(s, a + 1, b)) = b - a
  OBVIOUS
<1>3. ASSUME NEW k \in 1..(b - a) PROVE SubSeq(s, a + 1, b)[k] = s[a + k]
  <2>1. SubSeq(s, a + 1, b)[k] = s[(a + 1) + k - 1]
    OBVIOUS
  <2>2. (a + 1) + k - 1 = a + k
    OBVIOUS
  <2> QED
    BY <2>1, <2>2
<1>4. SubSeq(s, a + 1, b) \in Seq(T)
  BY <1>1
<1> QED
  BY <1>2, <1>3, <1>4

\* What a search returns of a sound directory: matches, each of them once.
LEMMA HitsAreMatches ==
  ASSUME NEW d, IsDirectory(d), NEW c, ValidCriteria(c), c.limit \in Nat, c.offset \in Nat
  PROVE  /\ Search(d, c).hits \in Seq(Matches(d, c))
         /\ IsInjective(Search(d, c).hits)
<1> DEFINE M == Matches(d, c)
           N == Cardinality(M)
           p == InOrder(M, SearchOrder(d, c))
           hits == Search(d, c).hits
           last == IF c.offset + c.limit < N THEN c.offset + c.limit ELSE N
<1>1. /\ N \in Nat /\ p \in [1..N -> M]
      /\ \A i, j \in 1..N : p[i] = p[j] => i = j
  BY SearchOrderIsStrict, InOrderSorts
<1>2. hits = Slice(p, c.limit, c.offset)
  <2>1. Orders(d, c) = {p}
    BY OneOrderOfMatches
  <2>2. hits = Slice(CHOOSE o \in Orders(d, c) : TRUE, c.limit, c.offset)
    BY DEF Search
  <2> HIDE DEF p, hits
  <2> QED
    BY <2>1, <2>2
<1>3. last \in Nat /\ last <= N /\ hits = SubSeq(p, c.offset + 1, last)
  <2>1. Len(p) = N
    BY <1>1
  <2> HIDE DEF N, p
  <2> QED
    BY <1>1, <1>2, <2>1 DEF Slice
<1>4. p \in Seq(M) /\ Len(p) = N
  BY <1>1
<1> HIDE DEF M, N, p, hits, last
<1>5. \A k \in (c.offset + 1)..last : k \in 1..N
  BY <1>1, <1>3
<1>6. /\ hits \in Seq(M)
      /\ \A k \in DOMAIN hits :
           c.offset + k \in 1..N /\ k \in Nat /\ hits[k] = p[c.offset + k]
  <2>1. CASE c.offset + 1 > last
    BY <1>3, <1>4, <2>1
  <2>2. CASE c.offset + 1 <= last
    <3>1. /\ hits \in Seq(M) /\ Len(hits) = last - c.offset
          /\ \A k \in 1..(last - c.offset) : hits[k] = p[c.offset + k]
      <4>1. c.offset < last /\ last <= Len(p)
        BY <1>1, <1>3, <1>4, <2>2
      <4> QED
        BY <1>3, <1>4, <4>1, PartOfASequence
    <3>2. DOMAIN hits = 1..(last - c.offset)
      BY <3>1
    <3>3. \A k \in 1..(last - c.offset) : c.offset + k \in 1..N /\ k \in Nat
      BY <1>1, <1>3
    <3> QED
      BY <3>1, <3>2, <3>3
  <2> QED
    BY <1>3, <2>1, <2>2
<1>7. IsInjective(hits)
  <2> SUFFICES ASSUME NEW i \in DOMAIN hits, NEW j \in DOMAIN hits, hits[i] = hits[j]
               PROVE  i = j
    BY DEF IsInjective
  <2>1. c.offset + i = c.offset + j /\ i \in Nat /\ j \in Nat
    BY <1>1, <1>6
  <2> QED
    BY <2>1
<1> QED
  BY <1>6, <1>7 DEF hits, M

\* What a search page that shows an answer found.
LEMMA FoundAreMatches ==
  ASSUME PagesInv, RecordsInv, ShownIsOk, Shows("search")
  PROVE  /\ Found.hits \in
              Seq(Matches(resource.answer.directory, CriteriaAsked(resource.route.filters)))
         /\ IsInjective(Found.hits)
         /\ IsDirectory(resource.answer.directory)
<1> DEFINE c == CriteriaAsked(resource.route.filters)
           d == resource.answer.directory
<1>1. resource.state = "success" /\ resource.route.page = "search"
  BY DEF Shows, PagesInv, RequestsMatchRoutes, PageAnswersItsRoute
<1>2. ValidCriteria(c)
  BY <1>1 DEF ShownIsOk, Status, StatusOfSearch
<1>3. IsDirectory(d)
  BY <1>1 DEF RecordsInv, AnswersAreSound, PagesInv, ShownIsAnswered, IsSnapshot
<1>4. c.limit \in Nat /\ c.offset \in Nat
  <2>1. c.limit = DefaultLimit /\ c.offset = 0
    BY DEF CriteriaAsked, NoCriteria
  <2> QED
    BY <2>1, SearchAssumption
<1>5. Found = Search(d, c)
  BY DEF Found
<1> HIDE DEF c, d
<1>6. Search(d, c).hits \in Seq(Matches(d, c)) /\ IsInjective(Search(d, c).hits)
  BY <1>2, <1>3, <1>4, HitsAreMatches
<1> QED
  BY <1>3, <1>5, <1>6 DEF c, d

\* A hit is shown once, and the locality on its card is the one that was asked
\* for, however many sites its establishment has (queries.py, canonical site).
THEOREM LocalityShownIsMatched == PagesSpec => []ShownLocalityIsTheMatchedOne
<1>1. ASSUME PagesInv, RecordsInv, ShownIsOk, Shows("search"), NEW u \in ToSet(Found.hits)
      PROVE  LET asked == CriteriaAsked(resource.route.filters)
                 site == Canonical(resource.answer.directory[u])
             IN /\ asked.commune \in {None, site.commune}
                /\ asked.postcode \in {None, site.postcode}
  <2> DEFINE M == Matches(resource.answer.directory, CriteriaAsked(resource.route.filters))
             hits == Found.hits
  <2>1. hits \in Seq(M)
    BY <1>1, FoundAreMatches
  <2>2. u \in ToSet(hits)
    BY <1>1
  <2> HIDE DEF M, hits
  <2>3. u \in M
    BY <2>1, <2>2 DEF ToSet
  <2> QED
    BY <2>3 DEF M, Matches, Selects
<1>2. ASSUME PagesInv, RecordsInv, ShownIsOk, Shows("search")
      PROVE  IsInjective(Found.hits)
  BY <1>2, FoundAreMatches
<1>3. PagesInv /\ RecordsInv /\ ShownIsOk => ShownLocalityIsTheMatchedOne
  BY <1>1, <1>2 DEF ShownLocalityIsTheMatchedOne
<1> QED
  BY <1>3, PagesInvariant, RecordsInvariant, ShownFiguresInvariant, PTL

\* The selection never holds more than a comparison takes, nor one
\* establishment twice (useComparisonSelection.ts).
SelectionInv ==
  /\ selection \in Seq(DOMAIN Collation)
  /\ Len(selection) <= MaxSelected
  /\ IsInjective(selection)

\* A full selection has two establishments.
LEMMA FullIsTwo ==
  ASSUME NEW n \in Nat, n <= 2, ~(n < MaxSelected)
  PROVE  n = 2
  BY DEF MaxSelected

\* What is left of it when its oldest establishment goes.
LEMMA TailOfTwo ==
  ASSUME NEW T, NEW s \in Seq(T), Len(s) = 2
  PROVE  Tail(s) \in Seq(T) /\ Len(Tail(s)) = 1 /\ Tail(s)[1] = s[2]
<1>1. s # <<>>
  OBVIOUS
<1>2. Tail(s) \in Seq(T) /\ Len(Tail(s)) = 1
  BY <1>1
<1>3. Tail(s)[1] = s[1 + 1]
  BY <1>1, <1>2
<1> QED
  BY <1>2, <1>3

\* Toggling keeps it so.
LEMMA ToggleKeeps ==
  ASSUME NEW u \in DOMAIN Collation, SelectionInv, selection' = Toggled(u)
  PROVE  SelectionInv'
<1> DEFINE T == DOMAIN Collation
           I == {i \in DOMAIN selection : selection[i] # u}
<1>1. /\ selection \in Seq(T) /\ Len(selection) \in Nat /\ Len(selection) <= 2
      /\ \A i, j \in DOMAIN selection : selection[i] = selection[j] => i = j
  BY DEF SelectionInv, IsInjective, MaxSelected
<1>2. CASE u \in ToSet(selection)
  <2>1. selection' = Selected(selection, I)
    BY <1>2 DEF Toggled
  <2>2. I \in SUBSET (DOMAIN selection)
    OBVIOUS
  <2> HIDE DEF I, T
  <2>3. /\ Cardinality(I) <= Len(selection)
        /\ Selected(selection, I) \in Seq(T)
        /\ Len(Selected(selection, I)) = Cardinality(I)
        /\ \A j, k \in DOMAIN Selected(selection, I) :
             Selected(selection, I)[j] = Selected(selection, I)[k] => j = k
    BY <1>1, <2>2, PositionsAreFinite, SelectedKeepsDistinct
  <2>4. Len(selection') <= 2
    BY <1>1, <2>1, <2>3
  <2>5. IsInjective(selection')
    BY <2>1, <2>3 DEF IsInjective
  <2> QED
    BY <2>1, <2>3, <2>4, <2>5 DEF SelectionInv, MaxSelected, T
<1>3. ASSUME u \notin ToSet(selection), NEW s \in Seq(T), Len(s) < 2,
             \A i \in DOMAIN s : s[i] \in ToSet(selection), IsInjective(s),
             selection' = Append(s, u)
      PROVE  SelectionInv'
  <2>1. /\ selection' \in Seq(T) /\ Len(selection') = Len(s) + 1
        /\ DOMAIN selection' = 1..(Len(s) + 1) /\ selection'[Len(s) + 1] = u
        /\ \A i \in 1..Len(s) : selection'[i] = s[i]
        /\ Len(s) \in Nat /\ DOMAIN s = 1..Len(s)
    BY <1>3
  <2>2. ASSUME NEW i \in DOMAIN selection', NEW j \in DOMAIN selection',
               selection'[i] = selection'[j]
        PROVE  i = j
    <3>1. CASE i \in 1..Len(s) /\ j \in 1..Len(s)
      <4>1. s[i] = s[j] /\ i \in DOMAIN s /\ j \in DOMAIN s
        BY <2>1, <2>2, <3>1
      <4> QED
        BY <1>3, <4>1 DEF IsInjective
    <3>2. \A k \in 1..Len(s) : selection'[k] # u
      BY <1>3, <2>1
    <3> QED
      BY <2>1, <2>2, <3>1, <3>2
  <2>3. Len(selection') <= 2
    BY <1>3, <2>1
  <2>4. IsInjective(selection')
    BY <2>2 DEF IsInjective
  <2> QED
    BY <2>1, <2>3, <2>4 DEF SelectionInv, MaxSelected
<1>4. CASE u \notin ToSet(selection) /\ Len(selection) < MaxSelected
  <2>1. selection' = Append(selection, u) /\ Len(selection) < 2
    BY <1>4 DEF Toggled, MaxSelected
  <2>2. \A i \in DOMAIN selection : selection[i] \in ToSet(selection)
    BY DEF ToSet
  <2>3. IsInjective(selection)
    BY DEF SelectionInv
  <2> QED
    BY <1>1, <1>3, <1>4, <2>1, <2>2, <2>3
<1>5. CASE u \notin ToSet(selection) /\ ~(Len(selection) < MaxSelected)
  <2>1. selection' = Append(Tail(selection), u)
    BY <1>5 DEF Toggled
  <2> HIDE DEF T
  <2>2. selection \in Seq(T) /\ Len(selection) = 2
    BY <1>1, <1>5, FullIsTwo
  <2>3. PICK s \in Seq(T) : s = Tail(selection) /\ Len(s) = 1 /\ s[1] = selection[2]
    BY <2>2, TailOfTwo
  <2>4. \A i \in DOMAIN s : i = 1
    BY <2>3
  <2>5. 2 \in DOMAIN selection
    BY <2>2
  <2>6. Len(s) < 2 /\ \A i \in DOMAIN s : s[i] \in ToSet(selection)
    BY <2>3, <2>4, <2>5 DEF ToSet
  <2>7. IsInjective(s)
    BY <2>4 DEF IsInjective
  <2> QED
    BY <1>3, <1>5, <2>1, <2>3, <2>6, <2>7 DEF T
<1> QED
  BY <1>2, <1>4, <1>5

\* So does every step: a card is toggled only while it is shown.
LEMMA StepSelection ==
  ASSUME PagesInv, RecordsInv, ShownIsOk, SelectionInv, [PagesNext]_pageVars
  PROVE  SelectionInv'
<1>1. CASE Toggle
  <2> DEFINE d == resource.answer.directory
             M == Matches(d, CriteriaAsked(resource.route.filters))
             hits == Found.hits
  <2>1. PICK u \in ToSet(hits) : selection' = Toggled(u)
    BY <1>1 DEF Toggle
  <2>2. hits \in Seq(M) /\ IsDirectory(d)
    BY <1>1, FoundAreMatches DEF Toggle
  <2>3. M \subseteq DOMAIN d
    BY DEF Matches
  <2> HIDE DEF hits, M, d
  <2>4. u \in M
    BY <2>1, <2>2 DEF ToSet
  <2>5. u \in DOMAIN Collation
    BY <2>2, <2>3, <2>4 DEF IsDirectory
  <2> QED
    BY <2>1, <2>5, ToggleKeeps
<1>2. CASE Clear
  BY <1>2 DEF Clear, SelectionInv, MaxSelected, IsInjective
<1>3. CASE UNCHANGED selection
  BY <1>3 DEF SelectionInv
<1>4. Toggle \/ Clear \/ UNCHANGED selection
  BY DEF PagesNext, Load, Rollback, Navigate, OpenSelection, RemoveFilter, RunEffect,
         Serve, NetworkFails, Deliver, pageVars
<1> QED
  BY <1>1, <1>2, <1>3, <1>4

\* The selection is sound in every behaviour.
THEOREM SelectionInvariant == PagesSpec => []SelectionInv
<1>1. PagesInit => SelectionInv
  BY DEF PagesInit, SelectionInv, MaxSelected, IsInjective
<1>2. PagesInv /\ RecordsInv /\ ShownIsOk /\ SelectionInv /\ [PagesNext]_pageVars => SelectionInv'
  BY StepSelection
<1> QED
  BY <1>1, <1>2, PagesInvariant, RecordsInvariant, ShownFiguresInvariant, PTL DEF PagesSpec

\* Whatever cards were toggled, on whatever pages, the bar of the search page
\* opens a comparison of two different establishments, which the API does not
\* refuse (ComparisonBar.tsx, compare_establishments.py).
THEOREM BarIsNeverRefused == PagesSpec => BarOpensNoRefusedComparison
<1>1. ASSUME SelectionInv, OpenSelection PROVE Status(db, route') # "refused"
  <2>1. /\ route'.page = "compare" /\ route'.uais = selection
        /\ Len(selection) = 2
    BY <1>1 DEF OpenSelection, Open, IsReady, MaxSelected
  <2>2. 1 \in DOMAIN selection /\ 2 \in DOMAIN selection
    BY <1>1, <2>1 DEF SelectionInv
  <2>3. selection[1] # selection[2]
    BY <1>1, <2>2 DEF SelectionInv, IsInjective
  <2> QED
    BY <2>1, <2>3 DEF Status, IsValidPair, StatusOfRecords
<1> QED
  BY <1>1, SelectionInvariant, PTL DEF BarOpensNoRefusedComparison
=============================================================================
