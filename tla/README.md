# TLA+ models of school_advisor

`school_advisor` publishes French public education data: a daily job loads four
open datasets into PostgreSQL, a read-only HTTP API serves them, a language
model turns a sentence into search criteria, and a React front end shows the
result. This directory holds TLA+ models of its moving parts, TLC
configurations that check them on small instances, and TLAPS proofs of the
results that should hold for every instance. Paths below are relative to the
repository root; `back/src` and `front/src` are the two programs.

## 1. Inventory

| Component | Source | State | Operations | What makes it correct |
|---|---|---|---|---|
| Ingestion job | `back/src/infrastructure/ingestion/job.py`, `application/ingest_public_data.py` | one connection and its open transaction, the fetched rows, `ingestion_run` | fetch and judge, write, record, commit; on failure record, alert, re-raise | all or nothing; what shows passed the gates and is on record |
| Advisory lock | `ingestion/locking.py` | session-level lock | try, release, die with the session | never outlives its run; keeps loads apart |
| Repositories | `persistence/repositories.py` | `establishment`, `site`, `commune`, `source_reference`, their `_previous` copies, `indicator_result` | snapshot, replace, append, upsert, restore | the live tables are one generation, the copies the one before; indicators are written once |
| Rollback command | `ingestion/__main__.py` | one transaction | three restores | one generation back, at once or not at all |
| Alert | `ingestion/alerts.py` | none | best-effort post | "No data was published" is true when it is said |
| Scheduler | `job.py:148-175` | an in-process timer | one run a day, errors swallowed | a run that has started ends |
| Read API | `interfaces/api/*.py`, `application/*`, `persistence/queries.py` | a pool of ten connections, one REPEATABLE READ transaction per request | search, communes, fact sheet, history, compare, assistant | one response shows one load; every request ends |
| Assistant | `application/assistant_search.py`, `application/interpret_search.py`, `infrastructure/llm/*` | a process-wide TTL/LRU cache | interpret, validate, cache, resolve the place, search | a cached interpretation is a validated one of the same query, interpreter and data version |
| Source clients | `ingestion/ods_client.py`, `ingestion/geo_api_client.py` | a catalogue cache per client | retry with backoff, check the schema, export | bounded retries; no partial export passes |
| Adapters | `ingestion/*_adapter.py` | none | group rows into establishments, results, communes | nothing invented, duplicates and conflicts rejected or resolved the same way in any row order |
| Search, commune lookup | `application/search_establishments.py`, `application/search_communes.py`, `persistence/queries.py` | none | validate, filter, order, count and cut into pages | one establishment once, at the site that matched; the order stated; no page overlaps another |
| Comparison, history | `application/compare_establishments.py`, `application/get_establishment_history.py`, `domain/methodology_break.py` | none | align two establishments by year; list breaks | every published cell shown, none displaced |
| Search page | `front/src/pages/SearchResultsPage.tsx` | its address | chips, cards, comparison bar | an address never asks for what the API refuses because of a click |
| Browser hooks | `front/src/hooks/*`, `context/GlossaryContext.tsx`, `api/client.ts` | request state per page; module-level comparison selection | fetch, abort, retry; toggle | the page shows the answer to its current request; the selection stays within two |
| Domain vocabulary, schemas | `domain/*`, `interfaces/api/schemas.py` | none that changes | figures, stated order, messages | an absent figure is never taken for a number, nor a zero for an absence |
| Settings, migrations, rendering, scripts | the rest | none that changes | | not modelled |

Interactions. Loads, rollbacks and requests meet in PostgreSQL only: through
table locks, through committed contents, through the advisory lock (loads
only), and for requests through the pool. The job calls the clients and the
adapters before it writes anything. A failing load opens a second connection
for its audit row. The assistant's cache key contains the source references, so
a load changes every key. The browser meets the API through HTTP alone.

What is hard here: several processes may run loads (one scheduler per uvicorn
worker, plus the command line), and nothing but table locks keeps a rollback
and a load apart; any statement, connection or process may die; `COMMIT`
happens later than the code's indentation suggests; TRUNCATE is transactional
but not MVCC-safe; lock waits reach from one load through the pool to every
request. `PROJECT.json` lists each hazard at its line.

## 2. Modules

| Module | What it is |
|---|---|
| `PostgresTables` | the part of PostgreSQL the code relies on (external): contents, private writes, table locks, commit, abort |
| `IngestionJob` | one load, statement by statement, with its lock, its failure handler and its faults |
| `AtomicPublication` | what the store promises: publish and restore in one step each |
| `Publication` | loads and rollbacks together, deadlocks, fairness; the properties; the refinement of `AtomicPublication` |
| `ReadApi` | requests and their pool on top of `Publication` |
| `EstablishmentSearch` | the pure part of a search: refused criteria, matches, order, pages, stated order |
| `CommuneLookup` | the commune payload's checks, the commune lookup and the choice of the best hits |
| `InterpretationCache` | the TTL/LRU cache of interpretations |
| `AssistantSearch` | assistant requests on their threads, sharing that cache, from the query to the search and the message |
| `SourceLoad` | what a load reads, request by request: retries, schema check, catalogue cache, publication dates |
| `EstablishmentRecords` | the pure part of the pages: what source rows become in the directory, the figures, the history, its chart and the comparison, and what an address asks for |
| `RecordPages` | a browser tab over a store that loads and rollbacks change |
| `MCPublication`, `MCReadApi`, `MCAssistantSearch`, `MCSourceLoad`, `MCRecordPages` | the small instances TLC checks |
| `Orderings` | sorting and filtering, as `sorted`, comprehensions and ORDER BY do them |
| `PostgresTables_proofs`, `Publication_proofs`, `TableLocks_proofs`, `ReadApi_proofs`, `EstablishmentSearch_proofs`, `AssistantSearch_proofs`, `SourceLoad_proofs`, `RecordPages_proofs` | lemmas and theorems |

### PostgresTables

A *session* is one client invocation, with one transaction. A table's content
is the name of the load that filled it (`Seed` and `Older` for what is there at
the start, `Empty` after TRUNCATE, `Absent` for a copy that does not exist).

| Variable | In PostgreSQL |
|---|---|
| `db` | committed content per table and per `_previous` copy |
| `dirty` | what each open transaction has written |
| `held` | table locks, kept to the end of the transaction |
| `rewrites`, `filenode` | which TRUNCATE last gave a live table a new file: needed for what an old snapshot sees |

`AccessShare` and `RowExclusive` do not conflict and are one mode. A statement
waits until its locks are grantable; the queue behind a waiting
`AccessExclusive` request is not modelled (a statement may be granted earlier
than PostgreSQL would, which adds behaviours). READ COMMITTED visibility is
`View`; the statement's snapshot is taken at the step that grants the locks.

### IngestionJob

`pc[r]` is the statement run `r` is about to send. The mapping follows the
code's order: `Connect` (job.py:53-59), `TryLock`/`Decline` (locking.py:59-62,
job.py:62-72), `FetchAndJudge` (ingest_public_data.py:116-157, everything
before the first write), `WriteStep` (the writes of lines 169-185, each
repository statement a disjunct of its own), `ReleaseSavepoint`, `Unlock`
(locking.py:66-69), `Succeed` (the COMMIT at the exit of `psycopg.connect`).

The order of the last three is the code's and deserves a reader's attention.
psycopg connections are not in autocommit, so `SELECT pg_try_advisory_lock`
opens the transaction; `connection.transaction()` inside it is a savepoint;
`ingestion_lock`'s `finally` runs before `psycopg.connect`'s exit. So the lock
is released first and the COMMIT comes second, outside the `try`.

Faults: `StatementFails` (an error on a connection that lives on, from any
point of the block: rollback to the savepoint, then the handler),
`CopyCollides` (CREATE TABLE finds a copy committed by another load meanwhile),
`ConnectionLost`, `CommitUnheard` (the server commits, the client sees an
error), `Crash` (killed or interrupted: only the context managers, or the
server, clean up). The handler is `RecordFailure` or `RecordFailureFails`,
`SendAlert`, `UnlockAfterFailure`.

`indicators` has one entry per natural key and `Offers[r]` is what an export
holds: `ON CONFLICT DO NOTHING`. PostgreSQL would make the statement wait while an
open transaction has inserted one of the keys; the guard says so, but no load
gets there beside another that has inserted keys, because that one's exclusive lock on
`source_reference_previous` stops the second at its first DROP or CREATE until
it ends. An export is reduced to the four numbers the gates look at.

Left out: the run's counters in `ingestion_run` (a failure row drops the ones
already measured), log lines, the temporary table of `append`, whose name is
private to its session.

### Publication

Adds `--rollback`: `CheckPrevious` (to_regclass, which takes no lock and does
not wait), `TruncateLive`, `RestoreLive`, for establishments and sites, then
communes, then sources, in one real transaction that takes no advisory lock.
`BreakDeadlock` fails one statement of a ring of waiting sessions.
`Init` allows no copies, those of establishment and site only (databases loaded
before migration 0003 and the source snapshots existed), or all.

### ReadApi

A request waits for a pooled connection or times out, takes its snapshot with
its first statement, reads the tables in its use case's order (`ReadOrder`),
each under an AccessShare lock kept to the end of the request, and ends as
answered, 404, 503, an unknown place, or 500. `Visible` is what a snapshot sees
of a table truncated by a transaction it does not see: nothing.

`indicator_result` is append-only and read last, so it is left out; filters and
paging are `EstablishmentSearch`'s; the language-model call is a delay between
two reads.

### EstablishmentSearch and CommuneLookup

They have no variables; `AssistantSearch` and, through `EstablishmentRecords`,
`RecordPages` run them. `ValidCriteria` is `search_establishments.validate`
with the router's enumerations and ranges, `Selects` is `_filters` (on the
canonical site, the one of lowest sequence), `SortKey` and `Orders` are the
ORDER BY, `Slice` is LIMIT and OFFSET, `SortOf` the label `tri` of the
response. `Orders` is the set of all the orders the database may return, since
rows the ORDER BY leaves tied may come differently to two requests.
`BuildCommunes` and `AcceptsPayload` are the commune adapter, `LookUp` the
reader, `BestHits` the assistant's choice among the hits.

A name is a sequence of words, so text is matched word by word and not letter
by letter. Distances are Manhattan distances on a grid instead of
`ST_DistanceSphere`: only whether they are within the radius and how they
compare matters. The bounding box that narrows the query is left out, as it
excludes nothing within the radius south of 81 degrees of latitude.

### InterpretationCache and AssistantSearch

`entries` and `recency` are the cache's `OrderedDict`, its mapping and its
order; `get` (`Hit`, `Miss`) and `put` (`Put`) hold its lock and are one step
each. `stored_at` is auxiliary.

A thread serves one request at a time: `Receive` (assistant_search.py:285-296:
a plain query has its interpretation at once), `ReadVersion` (the snapshot its
transaction keeps), `GetCached` or `GetNothing`, `Interpret` or
`InterpreterFails`, `Accept` (which stores what the model gave) or `Reject`,
then the place, if there is one (`PlaceUnknown`, `PlaceAmbiguous`,
`PlaceHasNoCentre`, `AskForPlace`), and the search (`Find`), or a missing source
reference (`CommunesMissing`, `DirectoryMissing`). `RequestFails` is an error at
any point, after which nothing of the request remains. Loads and rollbacks
(`ChangeData`) change `store`, the version the source references describe, at
any moment; `Data` is what each version holds. `Response` is what is said with
the outcome.

A query is its wording (what `_normalized` makes of it), its form for the
regular expressions of `_deterministic_intent`, its words, whether it asks for a
ranking, and the literals spelt in it (postal code, radius); an interpretation
has the fields of `InterpretedSearch`. `Supported` stands for the word patterns,
per wording, and `Acceptable` for `_validate_intent`. Two queries of one wording
share a cache key and may spell their literals differently, since normalising
folds compatibility characters: this is why a hit is judged again. The model,
through its parser, may answer any interpretation. The interpreter's identity is
constant in a process and is left out of the key; a query of invalid length is
refused before any state is read and is left out.

### SourceLoad

The step `FetchAndJudge` of `IngestionJob`, opened: for each dataset of
`ReadOrder` the catalogue entry and then the export, then the communes, and
after the writes the source references. `portal` is what is upstream and may
change at any step (`Republish`); `catalog` is the client's `_catalog_cache`;
`rows` and `dates` remember which edition an export and a reference came from.
`BackOff`, `Wake` and `GiveUp` are the loops of `OdsClient._get` and
`GeoApiClient.fetch_communes`, which differ in one thing: the first gives up at
once on another 4xx or on malformed JSON (`Refused`), the second retries.
`Abandon` is everything else that may end a load: a gate, a write, the process.
`tries` and `begun` are auxiliary. An export that selects a column the dataset has
lost may be refused (`Refused`) or answered without it: nothing is assumed of
the portal. So `ColumnsWereThereWhenChecked` says what the code's own check
gives: no column was missing when this load looked, and rows that lack one come
from an edition published between that look and the export. In this window the
code relies on the portal's refusal.

Editions stand for the `data_processed` instant; the stored date is a day, so
two editions of a day look alike there. `last_synchronised_at`, taken when the
references are made, is left out.

### EstablishmentRecords and RecordPages

The first has no variables. `BuildEstablishments` is
`DirectoryAdapter.build_establishments` (group by identifier, stable sort, one
site for each row), `IsReadable` and `Appended` are the rejections of
`IndicatorAdapter.build_results` and `ON CONFLICT DO NOTHING`,
`ListForEstablishment`, `HistoryPoints` and `Compare` are the use cases with
their orders, `BreaksSpannedBy` and `Lines` are `breaks_spanned_by` and
`toSegments`, `ExpectedRate` and `ResultOf` are the fact sheet's figures,
`FilterKeys`, `Chips` and `CriteriaAsked` are what the search page makes of its
address, `Status` is how a request ends. A directory row keeps its identifier,
its sort key (one number for the three fields), what it offers and its site; an
indicator row keeps its natural key and one rate with its value added, whichever
the chart or the cell is about, each possibly unpublished. Figures are whole numbers
(of hundredths): the columns are floats and `round(..., 2)` of
`get_establishment_fact_sheet.py:86` is left out, so that the expected rate adds
up is shown for figures with two decimals at most.

`RecordPages` runs them. `Load` and `Rollback` change the store in one step, as
`AtomicPublication` promises, and a request is answered from one snapshot in one
step. The 404 or empty page of a request that meets a table just emptied, which
`ReadApi` shows, cannot occur here; no property of the tab turns on it, since
record pages read `establishment` first and keep its lock, so that what a stale
snapshot can add to them is a 404. A tab is `route`, `effectDue`, `opens`, `inFlight` and
`resource`. `Open` renders a new address: a page of the same kind keeps what it
shows for that moment, another kind is a new component. `RunEffect` is
`useApiResource`'s effect with the cleanup of the one before; `Serve`,
`NetworkFails` and `Deliver` are the request's answer, its loss and its promise
callbacks, for any request in any order. `selection` is the module-level array
of `useComparisonSelection`, which outlives pages; `Toggle`, `Clear` and
`OpenSelection` are what a search page offers, on the hits it shows, and
`RemoveFilter` is a click on a chip. A reader may come in at any address, so
filters may be there that no chip shows. `exported` and `writes` are
auxiliary. A reload of the tab is a new initial state. The fact sheet and the
history answer alike and are one kind of page.

The sort of a group is on name, postal code and first address line.
directory_adapter.py:98-99 calls it total; rows that agree on all three keep the
order of the export, and the first of them names the establishment. So
`ReloadsAgree` is stated for exports without such ties.

## 3. Runs

The writers' and requests' runs use one row of floors, `5, 20, 3, 95 %`. "Exports" are the one that
just reaches every floor and, in `publication_safety`, one just under each.

| Run | Instance | Checks |
|---|---|---|
| `publication_safety` | 2 loads, 1 rollback, 2 keys, 5 exports | `TypeOK`, `ShownLoadsAreOnRecord`, `OneVerdictPerRun`, `AlertsAreTruthful`, `GenerationsAgree`, `CopiesStayExact`, `ShownLoadsPassedGates`, `IndicatorRowsAreFinal`, and the refinement `KeepsPromise` |
| `publication_liveness` | 2 loads, 1 rollback, no indicator keys | `EveryProgramEnds`, through waits for table locks and deadlocks of a load with the rollback |
| `readapi_safety` | 1 load, 1 rollback, 2 requests, pool of 1, 2 endpoints | `ResponsesShowOneLoad`, `ResponsesAreOnRecord` |
| `readapi_liveness` | 1 load, 1 rollback, 2 searches, pool of 1 | `EveryRequestEnds`, through the wait for the pool and its timeout, `WritersEndDespiteReaders`, through deadlocks of a load, a rollback and a reader |
| `assistant_cache` | 2 threads, 3 queries of 2 wordings, 8 interpretations, 2 versions (nothing loaded; 4 communes and 4 establishments), a cache of 1 entry, `Ttl` 2, clock up to 2 | the cache and the requests: `AssistantTypeOK`, `NothingIsInvented`, `OnlyAcceptedIntentsAreCached`, `IntentsMatchTheirData`, `CacheIsBounded`, `ServedIntentsAreYoung`, `RankingRequestsAreAnswered`; the place and the search: `PlacesAreNotGuessed`, `AcceptedIntentsAreSearchable`, `OrderIsAsStated`, `PagesNeverOverlap` |
| `source_load` | 2 loads, 2 datasets, 3 editions each, 3 attempts (the code's default) | `DatesBracketTheRows`, `ColumnsWereThereWhenChecked`, `RetriesAreBounded`, and that a load which has started ends (`LoadsEnd`) |
| `record_pages` | 2 loads or rollbacks of 3 directory exports and 2 offers of indicators, 3 addresses opened out of 4 and those clicks lead to, 3 establishments | the tab: `PageAnswersItsRoute`, `RemovingAFilterWidens`, `BarOpensNoRefusedComparison`, and that a loading page settles (`PagesSettle`); what it shows: `NoSiteIsLost`, `ReloadsAgree`, `ComparisonIsTheUnion`, `LinesStopAtBreaks`, `ExpectedRatesAddUp`, `ShownLocalityIsTheMatchedOne`, `RecordPagesAreNeverWithheld` |

Why these bounds are enough to be interesting: two loads are what it takes to
overlap, and a third would meet the same locks; one rollback can fall between
any two statements of either; two keys tell a key already published from a new
one; a pool of one is full with one request, and the second waits for it or
times out. What needs more: a rollback after a rollback, and a lookup that finds
more communes than its limit, are left to the theorems `WritersKeepThePromise`
and `NoPlaceIsGuessed`. Symmetry is used in safety runs
only. In `assistant_cache` one wording is spelt with and without a postal code,
one interpretation claims what no wording supports, a cache of one entry evicts
at the second key, and two ticks let an entry expire. Of the places the
interpretations name one is a commune whose name begins another's, one is
shared by two communes, one has no centre, one is unknown and one is too short
to be looked up; two establishments differ in their identifier only, a third is
farther off, and a fourth has neither a city nor a position. A page
of any length is compared with the one that follows it.
In `source_load` two editions after the first let a dataset change before and
after its entry is cached, and a second load tells a fresh cache from a kept
one. In `record_pages` the two offers overlap in one key with another value, hold one
key twice, a malformed identifier and an unreadable year, and give one lycee
general and vocational rows on both sides of the reform; two exports are one in
another order and the third has a tie. A value added is missing, zero or
negative, the lycee has a site in each of two places, and one of the addresses
holds a position no chip shows. With three addresses a late answer of the
first can meet a page of its own kind and of another.
A session runs once, so every counter is bounded by the instance.
`CHECK_DEADLOCK FALSE` for the writers and requests: once all have ended the system
stops.

### Disagreements with the documentation

Each of these runs checks one sentence of the repository and finds it violated.

| Run | Sentence | What the code does |
|---|---|---|
| `publication_overlap` | "Overlapping runs are refused" (job.py:49) | the lock is released before the COMMIT; a second load starts in between. `CopiesStayExact` and `KeepsPromise` still hold: the second load's first DROP or CREATE waits for the first one's table locks, and a load that lost the race fails with a duplicate table |
| `readapi_truncated` | "readers never observe a half-loaded directory" (repositories.py:34) | a snapshot older than a TRUNCATE finds the table empty: 404 or an empty page during the moment of the COMMIT, and 503 if it is a rollback's, as a load does not truncate `source_reference` |
| `readapi_blocked` | "The API keeps serving during an ingestion run" (`back/tests/integration/test_ingestion_locking.py:91`) | from its TRUNCATE to its COMMIT a load blocks every reader of the table |
| `comparison_hidden` | dropping a published year "would hide real published data to make the table tidy" (compare_establishments.py:117-118) | of the `IVAL_GT` and `IVAL_PRO` rows of one year only the second reaches the dictionary by year (line 107), and the table |
| `history_lines` | "One point per year for the selected figure" (HistoryPage.tsx:59) | an establishment with two series has two points a year, and the chart joins the last of one year to the first of the next: a line from one series to the other |

The last two are defects a reader of the site would see, for every lycee that
has both general and vocational results.

Two things noticed and consistent with the documentation: a rollback leaves
`indicator_result` and `ingestion_run` as they are
(docs/deployment-notes.md:107-109), and a second rollback restores the same
copies again. One more follows from `CommitUnheard` and from the order of
`Succeed`: "A failed run *is* recorded" (job.py:46) has an exception, since a
COMMIT that fails raises outside the `try`, and leaves neither row nor alert
(`failed_outside_handler`).

### Fairness

`Fairness` asks that while some program that has started can take its next step
(`RunProgress`, `RollbackProgress`), or the deadlock detector can run
(`BreakDeadlock`), such a step is eventually taken. It is one weak fairness
condition for all of them, `Progress`; one for each program would come to the
same, since a program takes finitely many steps and so every behaviour ends in a
state where nobody moves any more. Nothing is asked of `Connect`, `StartRollback`
or `Receive`, nor of any fault. The code justifies it: each program is a
straight line without a loop, run by its own thread or process, and every lock
wait is PostgreSQL's. `ApiFairness` adds the same for requests in progress (`ApiProgress`).
`LoadSpec` asks that a load in progress goes on: requests have timeouts and
sleeps end. Nothing is asked of the portal. `FairPagesSpec` asks that a request
that is out is answered or fails (`EveryRequestEnds`, and a browser gives up on
a dead connection) and that the event loop runs the effects and callbacks that
are due; nothing is asked of the reader, and the bound on addresses excludes a
reader who never stops. Weak fairness is enough because a granted lock is taken by the step that waits
for it and no session asks twice.

## 4. Proofs

Every safety property a passing run checks, as an invariant or of steps, is also a
theorem, for every value of the constants; so is the refinement. What the
theorems rest on are the named assumptions of the modules, which TLC evaluates
on every instance. It also finds each inductive invariant named below to hold
on the instance of its run.

| Module | Proves about | Inductive invariants |
|---|---|---|
| `PostgresTables_proofs` | tables and locks | lemmas only |
| `Publication_proofs` | what is on record | `TypeOK`, `RecordInv` |
| `TableLocks_proofs` | what the table locks buy; the refinement | `TablesInv` |
| `ReadApi_proofs` | requests beside the writers | `ReadersInv`, `ResponseInv` |
| `SourceLoad_proofs` | what a load reads | `LoadInv`, `TriesInv` |
| `EstablishmentSearch_proofs` | sorting, filtering, the order of a search | none: no state |
| `AssistantSearch_proofs` | the cache and assistant requests | `SharedInv`, `IntentInv`, `TypeInv`, `FoundInv` |
| `RecordPages_proofs` | the tab and what it shows | `PagesInv`, `RowsAreFigures`, `ShownIsOk`, `RecordsInv`, `SelectionInv` |

### The record: `Publication_proofs`

For any finite or infinite sets of loads, rollbacks, exports, keys and any
floors, from `ContentsAssumption`, `RunsAssumption` and `RollbacksAssumption`
(the special values are distinct, loads and rollbacks are disjoint):

| Theorem | States |
|---|---|
| `TypeCorrect` | `Spec => []TypeOK` |
| `LoadsThatShowAreOnRecord` | `Spec => []ShownLoadsAreOnRecord` |
| `NoRunHasTwoVerdicts` | `Spec => []OneVerdictPerRun` |
| `AlertsTellTheTruth` | `Spec => []AlertsAreTruthful` |
| `NothingBelowTheFloorsShows` | `Spec => []ShownLoadsPassedGates` |
| `EndedRunsHoldNoLock` | `Spec => []LockDiesWithItsRun` (no run checks it) |

That a load which shows is on record is not inductive: one must know what an
open transaction would commit. `RecordInv` says so, as the conjunction of
`CarriesItsRecord` (a load about to commit has its success row pending, or has
written nothing), `RecordsMatchPrograms` (which audit rows and alerts can exist
at each place of the program), `WritersPassedGates` (a load that has begun to
write works on an accepted export), `OthersCopyCommittedLoads` (an uncommitted
row of another load is a copy of one that already shows),
`LockIsHeldWithinTheRun`, and `ShownLoadsAreOnRecord` itself. `RecordsAreKept`
proves `TypeOK /\ RecordInv` invariant, and the other theorems follow without
another induction. The proof splits `Next` into statements (`WriteStepShape`),
quiet steps, steps that end a transaction, and rollback steps; broken deadlocks
and copy collisions are failed statements.

### The tables: `TableLocks_proofs`

| Theorem | States |
|---|---|
| `TablesAreKept` | `Spec => []TablesInv` |
| `GenerationsAlwaysAgree` | `Spec => []GenerationsAgree` |
| `CopiesAreExact` | `Spec => []CopiesStayExact` |
| `PublishedIndicatorsAreFinal` | `Spec => IndicatorRowsAreFinal` |
| `WritersKeepThePromise` | `Spec => KeepsPromise` |

`TablesInv` says what each program has written at each place, on which locks.
For a load (`LoadPlace`): the tables it has replaced hold its rows, and those it
has copied are, in its transaction, what is live now, with an exclusive lock on
the copy and a lock on the original. For a rollback (`RollbackPlace`): which
tables it has found, emptied and refilled. Beside it stand `LocksExclude` and
`AppendsWhatIsFree`. Two lemmas carry the proof. Whoever commits is alone
(`CommitsAreAlone`): while a load commits, no other load has copied a table and
no rollback has restored one, because one of the two would hold an exclusive
lock the other needs. And a statement that is granted a lock changes nothing another program
relies on (`GrantKeepsLocksApart`). The advisory lock does not occur in the
proof: that it is released before the COMMIT does no harm to the tables.

`WritersKeepThePromise` maps the committed live tables, the committed copies
and the success rows to the variables of `AtomicPublication`. Every step but a
COMMIT is a stutter (`SilentStep`, `OnlyCommitsPublish`); a load's COMMIT is
`Publish` (`CommitPublishes`), and a rollback's `Restore` (`CommitRestores`).

### Requests: `ReadApi_proofs`

| Theorem | States |
|---|---|
| `ReadersOnlyDelayWriters` | `ApiSpec => W!Spec` |
| `ReadersSeeGoodTables` | generations agree and loads are on record beside readers too |
| `ResponsesAreOfTheirSnapshot` | `ApiSpec => []ResponseInv` |
| `NoResponseMixesLoads` | `ApiSpec => []ResponsesShowOneLoad` |
| `NothingUnrecordedIsServed` | `ApiSpec => []ResponsesAreOnRecord` |

`W` is `Publication` with the requests' places and locks hidden. A request
writes nothing, so each of its steps is a stutter there, and a step of a writer
that is possible with readers is possible without them; hence all that is
proved of the writers holds beside any number of requests, which is where the
first theorem of the table is used. `ResponseInv` adds that a snapshot is of
one recorded load and that what was read is the snapshot's, or nothing. Readers
may delay writers; that they delay them finitely is the liveness property
`WritersEndDespiteReaders`, checked with TLC.

### Sources: `SourceLoad_proofs`

For any datasets, reading order, number of attempts and of editions
(`LoadAssumption`: the order is not empty and reaches every dataset):

| Theorem | States |
|---|---|
| `DatesAreHonest` | `LoadSpec => []DatesBracketTheRows` |
| `SchemaChangesAreNoticed` | `LoadSpec => []ColumnsWereThereWhenChecked` |
| `ExportsFollowTheirCheck` | `LoadSpec => []ExportsAreChecked` (no run checks it) |
| `NoUrlIsAskedTooOften` | `LoadSpec => []RetriesAreBounded` |

`LoadInv` adds to the type invariant that a dataset's editions are met in order
(begin, catalogue, rows, upstream now), that one edition is one content, and that everything before `reading` has
been read. `TriesInv` ties the requests sent to the attempt counter, which the
code resets between requests. `SchemaChangesAreNoticed` needs that an edition is
published once: rows and a catalogue entry of the same edition are the same, and
the entry was complete when the export was asked for.

### Sorting and searching: `EstablishmentSearch_proofs`

The orders of the code are written with `InOrder` and `Selected` of
`Orderings`: an element's place is one more than the number of those before it.
That makes sorting provable without induction over sequences. `InOrderSorts`:
over a finite set and a strict total order, places are an injection between
sets of one size, hence a bijection, so the result has every element once and
in order; `SortedIsUnique`: nothing else has. `SelectedHas`,
`SelectedKeepsDistinct` and `OnlyFirstSelected` say the same of filters.

`OneOrderOfMatches`: for any directory whose columns hold what the schema says
(`IsDirectory`) and any criteria `validate` accepts, `Orders` is a singleton,
the sort by `SearchOrder`. Its core is that `SortKey` ends in the identifier's
place in the collation, which is injective (`CollationAssumption`: PostgreSQL's
deterministic collations never call different texts equal), and that keys of one
search have one length and only integers (`SortKeyIsAKey`).

### The assistant: `AssistantSearch_proofs`

For any number of threads, any queries, interpretations, versions, data,
capacity and lifetime:

| Theorem | States |
|---|---|
| `AssistantIsTyped` | `AssistantSpec => []AssistantTypeOK` |
| `NoCriterionIsInvented` | `AssistantSpec => []NothingIsInvented` |
| `CacheHoldsAcceptedIntents` | `AssistantSpec => []OnlyAcceptedIntentsAreCached` |
| `NoIntentOutlivesItsData` | `AssistantSpec => []IntentsMatchTheirData` |
| `CacheKeepsItsBound` | `AssistantSpec => []CacheIsBounded` |
| `NothingOldIsServed` | `AssistantSpec => []ServedIntentsAreYoung` |
| `RankingIsAlwaysDeclined` | `AssistantSpec => []RankingRequestsAreAnswered` |
| `NoAcceptedIntentIsRefused` | `AssistantSpec => []AcceptedIntentsAreSearchable` |
| `NoPlaceIsGuessed` | `AssistantSpec => []PlacesAreNotGuessed` |
| `StatedOrderIsKept` | `AssistantSpec => []OrderIsAsStated` |
| `NoPageRepeatsAnother` | `AssistantSpec => []PagesNeverOverlap` |

The assumptions: keys are wordings paired with versions and the special values
are distinct (`AssistantAssumption`, `NoIntentAssumption`,
`NoEntryAssumption`), a version's communes are what the adapter accepts and its
directory is one (`DataAssumption`), and interpretations are in the enumerations
of the parser (`ParserAssumption`).

`SharedInv` is inductive: every entry is made for its key's version and
justified by some query of its key's wording (`CacheKeepsJustified`, for each
cache operation), a thread past the judgement holds what its own query
justifies, and a thread at work has read its version. `ServeKeepsThread` has
one case per action of a thread, `ServeTouchesOneThread` frames the others.
`NothingOldIsServed` needs only that an entry expires `Ttl` after it was
stored (`EntriesAreDated`), and `RankingIsAlwaysDeclined` that a thread has an
interpretation from when it is judged on, and none before or after a failure
(`IntentInv`). `TypeInv` adds the order of the cache: `WithoutKey`,
`MovedKey` and `PutKeepsCache` say what moving a key to the end and evicting
from the front leave of it. `FoundInv` adds that a finished search had accepted
criteria and, if a place was named, exactly one best hit.

`NoPlaceIsGuessed` speaks of all communes of the reference although only ten
hits are fetched: the lookup is sorted by tier first, so the fetched hits begin
with the best ones, and if only one of the best is among them there is no other
(`ResolvedPlaceIsTheOnlyBest`). The proof showed that this needs a limit of two
at least, which `AssistantAssumption` now asks (the code has ten): with a limit
of one every ambiguous name would look unique. `StatedOrderIsKept` and
`NoPageRepeatsAnother` are `OneOrderOfMatches` applied to a request: were the
identifier missing from ORDER BY, the second would be false.

### The pages: `RecordPages_proofs`

For any exports, offers, addresses and bounds:

| Theorem | States |
|---|---|
| `PagesShowTheirOwnAnswer` | `PagesSpec => []PageAnswersItsRoute` |
| `ShownRowsAreNeverTakenBack` | `PagesSpec => []ShownRowsStayTrue` (no run checks it) |
| `ProvenanceIsNeverMissing` | `PagesSpec => []RecordPagesAreNeverWithheld` |
| `RatesAddUp` | `PagesSpec => []ExpectedRatesAddUp` |
| `ChipsOnlyWiden` | `PagesSpec => RemovingAFilterWidens` |
| `EverySiteIsKept` | `PagesSpec => []NoSiteIsLost` |
| `SameRowsSameDirectory` | `PagesSpec => ReloadsAgree` |
| `EveryYearIsCompared` | `PagesSpec => []ComparisonIsTheUnion` |
| `LinesNeverCrossABreak` | `PagesSpec => []LinesStopAtBreaks` |
| `LocalityShownIsMatched` | `PagesSpec => []ShownLocalityIsTheMatchedOne` |
| `BarIsNeverRefused` | `PagesSpec => BarOpensNoRefusedComparison` |

The assumptions: offers are sequences of rows of the three indicator types
whose figures are integers or absent and whose years are integers or unreadable
(`PagesAssumption`, `OffersAssumption`), an empty directory is refused, as the
gates do, and the rows of an export have a sort key and, if their identifier is
valid, the columns of a site (`ExportsAssumption`).

`PagesInv` says of every answer on its way what must hold of one shown: it is
older than the store (`SnapshotsAreOlder`), and where it has an establishment it
has every source reference (`SourcesComeAlong`, which needs the same of the
`_previous` copies); and the active request is for the address shown unless an
effect is due (`RequestsMatchRoutes`). `RowsAreFigures` and `ShownIsOk` say that
stored figures are figures and that a page which shows an answer was not
refused. `ChipsOnlyWiden` compares the criteria of two addresses field by field
(`FewerFilters`); that no chip shows half of a position is why it holds: `lat`
and `lng` are never sent.

`RecordsInv` is about contents: stored rows have one row to a key
(`AppendedAreSound`), the directory is what the load made of its export, and
every directory, stored, copied or on its way to a page, holds what the search
needs of it. From it `EverySiteIsKept` follows because sorting a group is a
permutation (`SortedIsAPermutation`). For `SameRowsSameDirectory` a row without
ties is served once (`ServedOnce`; otherwise two exports of one length and the
same rows could repeat different ones), so two sorted groups are one
(`OneOrderOfSites`). `EveryYearIsCompared` and `LinesNeverCrossABreak` rest on
`ListedRows` and on `Plotted` as a filter. `LocalityShownIsMatched` is
`OneOrderOfMatches` on what a page was answered. `SelectionInv` (at most two,
all different) is inductive because a card can only be toggled while its hit is
shown, and `BarIsNeverRefused` follows from it.

### Model-checked only

- Liveness: `EveryProgramEnds`, `EveryRequestEnds`, `WritersEndDespiteReaders`,
  `LoadsEnd` and `PagesSettle`. They need fairness and ENABLED, which the prover
  does not reason about.
- That the sentences of section 3's last table are violated, which takes one
  counterexample each.

What is assumed in the models and not derived: PostgreSQL's locks and
visibility, that a dataset's rows and catalogue entry change together, and the
contents of words, as section 2 says. The proofs do not connect `RecordPages`'s one-step loads with
`Publication` beyond `WritersKeepThePromise`, nor the operators that stand for
text matching with the letters of a text.

## 5. Plan

1. *Done:* the writers of the data store, their promise, and the record theorems.
2. *Done:* requests, the pool and snapshots.
3. *Done:* proofs about locks, generations and copies, and the refinement
   `Spec => KeepsPromise`.
4. *Done:* proofs about requests: one load to a response, on record.
5. *Done:* assistant requests, the interpreter's failures, the TTL/LRU cache
   with data-versioned keys, intent validation, the place, the search and the
   messages, and a theorem for each of its properties.
6. *Done:* `SourceLoad`: retries, schema check, catalogue cache, and four
   theorems.
7. *Done:* `EstablishmentRecords`: grouping, rejections, append, figures,
   comparison, breaks, chart lines, addresses; theorems about all of them.
8. *Done:* `RecordPages`: stale answers, aborts, the comparison selection, the
   search page's chips and hits, and a theorem for each safety property. *Left:*
   the search bar with its suggestions, and the assistant's page.
9. *Done:* `EstablishmentSearch` and `CommuneLookup`, run by both of the above,
   and that one order only satisfies the ORDER BY.
10. *Left:* the refinement the other way round for readers, that a request in
    progress is `RecordPages`'s one-step `Serve`, so that the tab can be
    composed with `ReadApi` by proof; and that `SourceLoad` implements
    `IngestionJob`'s `FetchAndJudge`.

## 6. Not modelled

Settings; logging; alembic (run offline); Docker, nginx and CI; the one-off
scripts of `scripts/spike`; rendering, but for the chart's lines, the chips and
the cards; the conversions of numbers and labels in the adapters; the editorial
texts, the explanatory blocks that come with them, and the glossary, fetched
once and never an error. None of these keeps state that another part races
with. PostgreSQL's own durability is assumed.

Noticed while reading, and outside the models: an address with `rayon_km` alone
is always refused, since the page never sends a position; the search page shows
the first 20 hits and has no control for the next ones, though
docs/12_Architecture_Information.md:81 lists pagination; the search bar keeps
its text after the chip for it is removed; an interpretation that was refused
and an interpreter that is down get the same message unless the request asked
for a ranking (docs/08_API_Contract.md:486-489).
