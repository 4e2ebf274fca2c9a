---------------------------- MODULE RecordPages -----------------------------
(***************************************************************************)
(* A reader's browser tab over a data store that loads and rollbacks       *)
(* change.  useApiResource starts a request whenever the page or its key   *)
(* changes and drops the answer of any other request, but only in an       *)
(* effect that runs after the page has been rendered with its new address; *)
(* the comparison selection lives in a module-level array, whatever page   *)
(* is open.  The API answers a request from one snapshot (ReadApi), so an  *)
(* answer is kept here as that snapshot; what the page shows of it is      *)
(* computed by the operators of EstablishmentRecords.  Loads and rollbacks *)
(* change the store in one step (Publication).                             *)
(***************************************************************************)
EXTENDS EstablishmentRecords

CONSTANTS
  DirectoryExports,  \* what the directory dataset may serve
  IndicatorOffers,   \* what the results datasets may serve
  Routes,            \* the addresses a reader may open, [page, uais, filters]
  MaxWrites,         \* bound: loads and rollbacks
  MaxOpens           \* bound: effects run, one for each address opened

ASSUME PagesAssumption ==
  /\ MaxWrites \in Nat /\ MaxOpens \in Nat \ {0}
  /\ <<>> \notin DirectoryExports  \* the gates refuse it
  /\ \A o \in IndicatorOffers : \A i \in DOMAIN o :
       o[i].type \in IndicatorTypes /\ {o[i].value, o[i].added} \subseteq Int \cup {Absent}
  /\ Absent \notin Int /\ ReformYear \in Int

\* The rows the adapters are given, one after the other.
ASSUME ExportsAssumption ==
  \A e \in DirectoryExports :
    /\ e \in Seq(ToSet(e))
    /\ \A i \in DOMAIN e :
         /\ e[i].key \in Int
         /\ e[i].uai # Malformed => e[i].uai \in DOMAIN Collation /\ IsSite(e[i].site)

ASSUME OffersAssumption ==
  \A o \in IndicatorOffers :
    o \in Seq(ToSet(o)) /\ \A i \in DOMAIN o : o[i].year \in Int \cup {Unreadable}

VARIABLES
  db,         \* the committed tables: [rows, directory, sources]
  previous,   \* the _previous copies: [directory, sources], or NoCopies
  exported,   \* auxiliary: the directory rows of the last load, or NoExport
  writes,     \* auxiliary: how many loads and rollbacks there have been
  route,      \* the address of the page as last rendered
  effectDue,  \* whether the effect of that address has yet to run
  opens,      \* the effects run so far; the last one is the active one
  inFlight,   \* requests: [id, route, answer]
  resource,   \* what useApiResource returned last: [state, route, answer]
  selection   \* useComparisonSelection's module-level array

storeVars == <<db, previous, exported, writes>>
tabVars == <<route, effectDue, opens, inFlight, resource>>
pageVars == <<storeVars, tabVars, selection>>

NoCopies == [copies |-> "none"]
NoExport == <<>>

\* The answer of a request that is still out, and of one the network lost.
Pending == [lost |-> FALSE]
Lost == [lost |-> TRUE]

Loading == [state |-> "loading"]

MaxSelected == 2

-----------------------------------------------------------------------------
(* Loads and rollbacks.                                                    *)

\* Mutant: the source references are not written.
LoadWithoutSources ==
  /\ writes < MaxWrites
  /\ \E export \in DirectoryExports, offered \in IndicatorOffers :
       /\ previous' = [directory |-> db.directory, sources |-> db.sources]
       /\ db' = [db EXCEPT !.rows = Appended(db.rows, offered),
                           !.directory = BuildEstablishments(export)]
       /\ exported' = export
  /\ writes' = writes + 1
  /\ UNCHANGED <<tabVars, selection>>

Load ==
  /\ writes < MaxWrites
  /\ \E export \in DirectoryExports, offered \in IndicatorOffers :
       /\ previous' = [directory |-> db.directory, sources |-> db.sources]
       /\ db' = [rows |-> Appended(db.rows, offered),
                 directory |-> BuildEstablishments(export),
                 sources |-> Datasets]
       /\ exported' = export
  /\ writes' = writes + 1
  /\ UNCHANGED <<tabVars, selection>>

\* Indicator rows are not rolled back.
Rollback ==
  /\ writes < MaxWrites
  /\ previous # NoCopies
  /\ db' = [rows |-> db.rows, directory |-> previous.directory, sources |-> previous.sources]
  /\ exported' = NoExport
  /\ writes' = writes + 1
  /\ UNCHANGED <<previous, tabVars, selection>>

-----------------------------------------------------------------------------
(* useApiResource.                                                         *)

\* A page rendered with another address keeps its state, a page of another
\* kind is a new component.  Effects that are due run before another render.
Open(r) ==
  /\ ~effectDue /\ opens < MaxOpens
  /\ r # route
  /\ route' = r
  /\ effectDue' = TRUE
  /\ resource' = IF r.page = route.page THEN resource ELSE Loading
  /\ UNCHANGED <<opens, inFlight>>

Navigate ==
  /\ \E r \in Routes : Open(r)
  /\ UNCHANGED <<storeVars, selection>>

\* The cleanup of the effect before, which aborts its request and leaves it
\* inactive, then the effect of the new address.
RunEffect ==
  /\ effectDue
  /\ effectDue' = FALSE
  /\ opens' = opens + 1
  /\ inFlight' = inFlight \cup {[id |-> opens + 1, route |-> route, answer |-> Pending]}
  /\ resource' = Loading
  /\ UNCHANGED <<storeVars, route, selection>>

Answer(q, answer) ==
  inFlight' = (inFlight \ {q}) \cup {[id |-> q.id, route |-> q.route, answer |-> answer]}

\* A request is answered from one store in one step.  That it may meet a table
\* which a load or a rollback has just emptied, and answer 404 or an empty page,
\* is ReadApi's subject and cannot occur here.
Serve(q) ==
  /\ q.answer = Pending
  /\ Answer(q, db)
  /\ UNCHANGED <<storeVars, route, effectDue, opens, resource, selection>>

NetworkFails(q) ==
  /\ q.answer = Pending
  /\ Answer(q, Lost)
  /\ UNCHANGED <<storeVars, route, effectDue, opens, resource, selection>>

\* Mutant: an answer is taken for the page shown, whoever asked.
AnyIsActive(q) == TRUE

IsActive(q) == q.id = opens

\* Mutant: a failure leaves the page loading.
SettledUnlessLost(q) ==
  IF q.answer = Lost THEN Loading
  ELSE [state |-> IF Status(q.answer, q.route) = "ok" THEN "success" ELSE "error",
        route |-> q.route, answer |-> q.answer]

Settled(q) == [state |-> IF q.answer = Lost THEN "error"
                         ELSE IF Status(q.answer, q.route) = "ok" THEN "success" ELSE "error",
               route |-> q.route, answer |-> q.answer]

\* The promise of an answered, failed or aborted request settles; only the
\* active effect takes any notice, and a component that is gone shows nothing.
Deliver(q) ==
  /\ q.answer # Pending \/ ~IsActive(q)
  /\ inFlight' = inFlight \ {q}
  /\ resource' = IF IsActive(q) /\ q.route.page = route.page THEN Settled(q) ELSE resource
  /\ UNCHANGED <<storeVars, route, effectDue, opens, selection>>

-----------------------------------------------------------------------------
(* The search page: its chips, and the comparison its cards and bar select *)
(* (useComparisonSelection).                                               *)

Shows(page) == route.page = page /\ resource.state = "success"

\* What the page shown found, for the address it was asked for.
Found == Search(resource.answer.directory, CriteriaAsked(resource.route.filters))

\* A click on a chip leaves its key out of the address.
RemoveFilter ==
  /\ Shows("search")
  /\ \E key \in Chips(route.filters) :
       Open([page |-> "search", uais |-> <<>>,
             filters |-> Restrict(route.filters, DOMAIN route.filters \ {key})])
  /\ UNCHANGED <<storeVars, selection>>

\* Mutant: a card that is selected already is added again.
ToggledAgain(u) ==
  IF Len(selection) < MaxSelected THEN Append(selection, u)
  ELSE Append(Tail(selection), u)

Toggled(u) ==
  CASE u \in ToSet(selection) -> Selected(selection, {i \in DOMAIN selection : selection[i] # u})
    [] u \notin ToSet(selection) /\ Len(selection) < MaxSelected -> Append(selection, u)
    [] OTHER -> Append(Tail(selection), u)

Toggle ==
  /\ Shows("search")
  /\ \E u \in ToSet(Found.hits) : selection' = Toggled(u)
  /\ UNCHANGED <<storeVars, tabVars>>

Clear ==
  /\ Shows("search") /\ selection # <<>>
  /\ selection' = <<>>
  /\ UNCHANGED <<storeVars, tabVars>>

IsReady == Len(selection) = MaxSelected

OpenSelection ==
  /\ Shows("search") /\ IsReady
  /\ Open([page |-> "compare", uais |-> selection, filters |-> <<>>])
  /\ UNCHANGED <<storeVars, selection>>

-----------------------------------------------------------------------------
(* The specification.  Nothing has been loaded yet; the reader comes in at *)
(* any address, as after a reload of the tab.                              *)

PagesInit ==
  /\ db = [rows |-> {}, directory |-> <<>>, sources |-> {}]
  /\ previous = NoCopies
  /\ exported = NoExport
  /\ writes = 0
  /\ route \in Routes
  /\ effectDue = TRUE
  /\ opens = 0
  /\ inFlight = {}
  /\ resource = Loading
  /\ selection = <<>>

PagesNext ==
  \/ Load \/ Rollback
  \/ Navigate \/ OpenSelection \/ RunEffect \/ RemoveFilter \/ Toggle \/ Clear
  \/ \E q \in inFlight : Serve(q) \/ NetworkFails(q) \/ Deliver(q)

PagesSpec == PagesInit /\ [][PagesNext]_pageVars

\* A request is answered or fails (ReadApi's EveryRequestEnds; the browser
\* gives up on a dead connection), and the event loop runs what is due.
FairPagesSpec ==
  /\ PagesSpec
  /\ WF_pageVars(\E q \in inFlight : Serve(q) \/ NetworkFails(q))
  /\ WF_pageVars(\E q \in inFlight : Deliver(q))
  /\ WF_pageVars(RunEffect)

-----------------------------------------------------------------------------
(* Properties.                                                             *)

\* useApiResource promises that a slow earlier response never overwrites a
\* newer one: what a page shows, or the error it reports, answers its address
\* once the effect of that address has run, and never another kind of page.
PageAnswersItsRoute ==
  resource.state # "loading" =>
    /\ ~effectDue => resource.route = route
    /\ resource.route.page = route.page

\* An indicator row is never rewritten (repositories.py), so an open page,
\* however old, shows no figure that a page opened now would contradict.
ShownRowsStayTrue ==
  resource.state = "success" => RowsShown(resource.answer, resource.route.uais) \subseteq db.rows

\* docs/04: rows are grouped by UAI "so no location is dropped": every valid
\* row of the export is a site of its establishment, and there is no other.
NoSiteIsLost ==
  exported # NoExport =>
    \A u \in DOMAIN db.directory :
      /\ Len(db.directory[u].sites) = Len(RowsOf(exported, u))
      /\ ToSet(db.directory[u].sites) = {r.site : r \in ToSet(RowsOf(exported, u))}

\* docs/04: loading the same rows again gives the same directory, in whatever
\* order the source serves them, as long as the sort keys tell them apart.
ReloadsAgree ==
  [][ /\ exported # NoExport /\ writes' # writes
      /\ ToSet(exported') = ToSet(exported) /\ Len(exported') = Len(exported)
      /\ ~HasTies(exported)
      => db'.directory = db.directory ]_pageVars

\* The comparison has a row for every year either establishment published,
\* most recent first; a column is empty only where its establishment
\* published nothing, and is never filled with another's row.
ComparisonIsTheUnion ==
  Shows("compare") =>
    LET c == Compare(resource.answer.rows, resource.route.uais)
    IN /\ \A r \in RowsShown(resource.answer, resource.route.uais) :
            \E k \in DOMAIN c : c[k].year = r.year
       /\ \A k \in DOMAIN c : \A i \in DOMAIN resource.route.uais :
            LET uai == resource.route.uais[i]
                cell == c[k].cells[i]
                mine == {r \in Published(resource.answer.rows, uai) : r.year = c[k].year}
            IN cell.uai = uai /\ IF mine = {} THEN cell.row = NoRow ELSE cell.row \in mine
       /\ \A k \in DOMAIN c \ {1} : c[k].year < c[k - 1].year

\* compare_establishments.py: the comparison must not "hide real published
\* data": every published row of the two establishments is in a cell.
ComparisonHidesNoRow ==
  Shows("compare") =>
    LET c == Compare(resource.answer.rows, resource.route.uais)
    IN \A r \in RowsShown(resource.answer, resource.route.uais) :
         \E k \in DOMAIN c : \E i \in DOMAIN resource.route.uais : c[k].cells[i].row = r

\* HistoryChart.tsx: no line is drawn from a point before a methodology break
\* of its series to a point after it.
LinesStopAtBreaks ==
  Shows("history") =>
    \A line \in ChartOf(resource.answer.rows, resource.route.uais[1]) :
      line[1].type = line[2].type =>
        ~\E y \in BreaksOf(line[1].type) : line[1].year < y /\ y <= line[2].year

\* HistoryPage.tsx: "One point per year for the selected figure" of "one
\* indicator's series": a line of the chart joins two points of one series.
LinesJoinOneSeries ==
  Shows("history") =>
    \A line \in ChartOf(resource.answer.rows, resource.route.uais[1]) : line[1].type = line[2].type

\* "It is never partially reconstructed" (get_establishment_fact_sheet.py:81):
\* an expected rate is there exactly if the two figures it is derived from
\* are, a value added of zero among them, and then the three add up (as they
\* do after round(..., 2), if the published ones have two decimals at most).
ExpectedRatesAddUp ==
  resource.state = "success" =>
    \A r \in RowsShown(resource.answer, resource.route.uais) :
      LET result == ResultOf(r)
          rate == result.expected
      IN /\ rate.value # Absent <=> Absent \notin {r.value, r.added}
         /\ rate.value # Absent => rate.value + result.added.value = result.observed.value
         /\ rate.computed <=> rate.value # Absent

\* "Canonical-site matching guarantees the displayed locality is the matched
\* one" (docs/07_Backlog_Epics_Tickets.md:133): a hit stands for its establishment once,
\* at the site its card shows, whatever other sites the establishment has.
ShownLocalityIsTheMatchedOne ==
  Shows("search") =>
    LET asked == CriteriaAsked(resource.route.filters)
        hits == Found.hits
    IN /\ IsInjective(hits)
       /\ \A u \in ToSet(hits) :
            LET site == Canonical(resource.answer.directory[u])
            IN /\ asked.commune \in {None, site.commune}
               /\ asked.postcode \in {None, site.postcode}

\* The empty result of a search has the reader remove a filter
\* (docs/11_Parcours_Utilisateurs.md:77): over the same data that is never
\* refused and never loses an establishment that was found.
RemovingAFilterWidens ==
  [][ RemoveFilter =>
        /\ Status(db, route') # "refused"
        /\ Matches(db.directory, CriteriaAsked(route.filters))
             \subseteq Matches(db.directory, CriteriaAsked(route'.filters)) ]_pageVars

\* Rollbacks restore the source references but not the indicator rows; even
\* so no page about an establishment is withheld for want of a reference.
RecordPagesAreNeverWithheld ==
  resource.state = "error" /\ resource.answer # Lost /\ resource.route.page # "search" =>
    Status(resource.answer, resource.route) # "withheld"

\* The bar of the search page, offered over any sequence of toggles, never
\* leads to a comparison the API refuses.
BarOpensNoRefusedComparison ==
  [][ OpenSelection => Status(db, route') # "refused" ]_pageVars

\* A page that loads comes to show an answer or an error.
PagesSettle == resource.state = "loading" ~> resource.state # "loading"
=============================================================================
