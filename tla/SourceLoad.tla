----------------------------- MODULE SourceLoad -----------------------------
(***************************************************************************)
(* What a load reads before it writes anything, request by request:        *)
(* OdsClient (its retries, its schema check, its catalogue cache),         *)
(* GeoApiClient, and the order in which the adapters use them; and, after  *)
(* the writes, the source references it makes from the cached catalogue.   *)
(* In IngestionJob all of this is the one step FetchAndJudge; the gates    *)
(* are there.                                                              *)
(*                                                                         *)
(* A dataset changes upstream at any moment.  What matters of it is which  *)
(* edition it is, whether it has every field its adapter reads, and        *)
(* whether its data_processed date can be read.  The portal may refuse an  *)
(* export that selects a field the dataset lacks, or answer without it:    *)
(* nothing is assumed of that (external).                                  *)
(***************************************************************************)
EXTENDS Integers, Sequences

CONSTANTS
  Datasets,     \* the four open datasets
  ReadOrder,    \* the order the adapters read them in
  Undated,      \* no publication date, or nothing read yet
  MaxRetries,   \* max_retries
  MaxEdition,   \* bound: editions published per dataset
  MaxLoads      \* bound: loads in a behaviour

\* A dataset upstream, or what an answer said of it.
Edition == [edition : Nat, complete : BOOLEAN, dated : BOOLEAN]

ASSUME LoadAssumption ==
  /\ ReadOrder \in Seq(Datasets) /\ ReadOrder # <<>>
  /\ \A d \in Datasets : \E i \in DOMAIN ReadOrder : ReadOrder[i] = d
  /\ Undated \notin Nat /\ Undated \notin Edition
  /\ MaxRetries \in Nat \ {0} /\ MaxEdition \in Nat /\ MaxLoads \in Nat

VARIABLES
  portal,     \* each dataset as it is upstream
  pc,         \* the request the load is working on
  reading,    \* the dataset it is reading, as an index in ReadOrder
  attempt,    \* attempt
  asleep,     \* backing off
  catalog,    \* _catalog_cache: the dataset each entry describes
  rows,       \* the dataset each export was made from
  dates,      \* source_published_at, as the edition it dates
  tries,      \* auxiliary: the requests sent to the present URL
  begun,      \* auxiliary: the edition of each dataset when the load began
  loads       \* loads begun so far

progress == <<reading, attempt, asleep, tries>>
loadVars == <<portal, pc, progress, catalog, rows, dates, begun, loads>>

RequestPcs == {"catalogue", "export", "communes"}

Current == ReadOrder[reading]

Nothing == [d \in Datasets |-> Undated]

-----------------------------------------------------------------------------
(* One request: _get, and the loop of fetch_communes.                      *)

Sending(at) == pc = at /\ ~asleep

\* Mutant: one attempt too many.
OneMoreAttempt == attempt < MaxRetries

AttemptsLeft == attempt < MaxRetries - 1

\* The next request starts afresh.
MoveOn(at) ==
  /\ pc' = at
  /\ attempt' = 0 /\ tries' = 0
  /\ UNCHANGED asleep

Fail == pc' = "failed" /\ UNCHANGED <<attempt, asleep, tries>>

\* Mutant: the loop forgets how often it has tried.
ForgetfulBackOff ==
  /\ pc \in RequestPcs /\ ~asleep /\ AttemptsLeft
  /\ asleep' = TRUE
  /\ tries' = IF tries < MaxRetries THEN tries + 1 ELSE tries
  /\ UNCHANGED <<portal, pc, reading, attempt, catalog, rows, dates, begun, loads>>

\* A transport error, a timeout, 429 or 5xx; from the commune service, any
\* answer but an array.
BackOff ==
  /\ pc \in RequestPcs /\ ~asleep /\ AttemptsLeft
  /\ asleep' = TRUE
  /\ attempt' = attempt + 1
  /\ tries' = tries + 1
  /\ UNCHANGED <<portal, pc, reading, catalog, rows, dates, begun, loads>>

Wake ==
  /\ asleep
  /\ asleep' = FALSE
  /\ UNCHANGED <<portal, pc, reading, attempt, tries, catalog, rows, dates, begun, loads>>

GiveUp ==
  /\ pc \in RequestPcs /\ ~asleep /\ ~AttemptsLeft
  /\ tries' = tries + 1
  /\ pc' = "failed"
  /\ UNCHANGED <<portal, reading, attempt, asleep, catalog, rows, dates, begun, loads>>

\* Another 4xx, or an answer that is not the JSON expected: not retried.
Refused ==
  /\ Sending("catalogue") \/ Sending("export")
  /\ tries' = tries + 1
  /\ pc' = "failed"
  /\ UNCHANGED <<portal, reading, attempt, asleep, catalog, rows, dates, begun, loads>>

-----------------------------------------------------------------------------
(* The adapters.                                                           *)

\* _catalog_entry: asked for once per client.
CatalogEntry == IF catalog[Current] # Undated THEN catalog[Current] ELSE portal[Current]

\* Mutant: a missing field is logged, and the export asked for all the same.
SchemaIsLogged == TRUE

\* assert_schema: every field of the adapter is in the catalogue entry.
SchemaHolds == CatalogEntry.complete

\* The entry is cached before it is looked at.
CheckSchema ==
  /\ Sending("catalogue")
  /\ catalog' = [catalog EXCEPT ![Current] = CatalogEntry]
  /\ IF SchemaHolds THEN MoveOn("export") ELSE Fail
  /\ UNCHANGED <<portal, reading, rows, dates, begun, loads>>

Export ==
  /\ Sending("export")
  /\ rows' = [rows EXCEPT ![Current] = portal[Current]]
  /\ IF reading < Len(ReadOrder)
     THEN reading' = reading + 1 /\ MoveOn("catalogue")
     ELSE UNCHANGED reading /\ MoveOn("communes")
  /\ UNCHANGED <<portal, catalog, dates, begun, loads>>

ReadCommunes ==
  /\ Sending("communes")
  /\ MoveOn("references")
  /\ UNCHANGED <<portal, reading, catalog, rows, dates, begun, loads>>

\* Mutant: the catalogue is asked again, once the rows are written.
DateNow(d) == IF portal[d].dated THEN portal[d].edition ELSE Undated

\* data_published_at, from the cached entry.
PublishedAt(d) ==
  IF catalog[d] # Undated /\ catalog[d].dated THEN catalog[d].edition ELSE Undated

\* source_references, once the rows are written.
MakeReferences ==
  /\ pc = "references"
  /\ dates' = [d \in Datasets |-> PublishedAt(d)]
  /\ pc' = "done"
  /\ UNCHANGED <<portal, progress, catalog, rows, begun, loads>>

\* A gate refuses what was read, a write fails, or the process dies.
Abandon ==
  /\ pc \in RequestPcs \cup {"references"}
  /\ pc' = "failed"
  /\ asleep' = FALSE
  /\ UNCHANGED <<portal, reading, attempt, tries, catalog, rows, dates, begun, loads>>

\* The next run builds its clients anew.
StartLoad ==
  /\ pc \in {"idle", "done", "failed"} /\ loads < MaxLoads
  /\ loads' = loads + 1
  /\ pc' = "catalogue"
  /\ reading' = 1 /\ attempt' = 0 /\ asleep' = FALSE /\ tries' = 0
  /\ catalog' = Nothing /\ rows' = Nothing /\ dates' = Nothing
  /\ begun' = [d \in Datasets |-> portal[d].edition]
  /\ UNCHANGED portal

-----------------------------------------------------------------------------
\* The ministry publishes an edition; data and catalogue change together.
Republish(d) ==
  /\ portal[d].edition < MaxEdition
  /\ \E complete, dated \in BOOLEAN :
       portal' = [portal EXCEPT ![d] = [edition |-> portal[d].edition + 1,
                                        complete |-> complete, dated |-> dated]]
  /\ UNCHANGED <<pc, progress, catalog, rows, dates, begun, loads>>

LoadStep ==
  \/ BackOff \/ Wake \/ GiveUp \/ Refused \/ CheckSchema \/ Export
  \/ ReadCommunes \/ MakeReferences

LoadInit ==
  /\ portal = [d \in Datasets |-> [edition |-> 0, complete |-> TRUE, dated |-> TRUE]]
  /\ pc = "idle" /\ reading = 1 /\ attempt = 0 /\ asleep = FALSE /\ tries = 0
  /\ catalog = Nothing /\ rows = Nothing /\ dates = Nothing
  /\ begun = [d \in Datasets |-> 0]
  /\ loads = 0

LoadNext == LoadStep \/ Abandon \/ StartLoad \/ \E d \in Datasets : Republish(d)

\* Every request has a timeout and every sleep ends, so a load goes on.
LoadSpec == LoadInit /\ [][LoadNext]_loadVars /\ WF_loadVars(LoadStep)

-----------------------------------------------------------------------------
(* Properties.                                                             *)

LoadTypeOK ==
  /\ portal \in [Datasets -> Edition]
  /\ pc \in RequestPcs \cup {"idle", "references", "done", "failed"}
  /\ reading \in DOMAIN ReadOrder
  /\ attempt \in 0..(MaxRetries - 1)
  /\ asleep \in BOOLEAN
  /\ catalog \in [Datasets -> Edition \cup {Undated}]
  /\ rows \in [Datasets -> Edition \cup {Undated}]
  /\ dates \in [Datasets -> Nat \cup {Undated}]
  /\ tries \in Nat
  /\ begun \in [Datasets -> Nat]
  /\ loads \in 0..MaxLoads

\* A publication date is never later than the rows it is shown with, though the
\* dataset may be republished while they are read, and never older than the
\* load ("the cache cannot serve stale metadata across runs", ods_client.py:110).
DatesBracketTheRows ==
  pc = "done" => \A d \in Datasets : dates[d] # Undated =>
    begun[d] <= dates[d] /\ dates[d] <= rows[d].edition

\* The schema check is there so that a renamed column is not read as null
\* (ods_client.py:159-168).  What it gives a load that has read everything:
\* each dataset had all its columns when this load looked, and rows that lack
\* one are of an edition published between that look and the export.
ColumnsWereThereWhenChecked ==
  pc \in {"communes", "references", "done"} =>
    \A d \in Datasets :
      /\ rows[d] # Undated /\ catalog[d] # Undated
      /\ catalog[d].complete /\ begun[d] <= catalog[d].edition
      /\ ~rows[d].complete => catalog[d].edition < rows[d].edition

\* "The export endpoint must never be reached once the schema check fails"
\* (back/tests/unit/infrastructure/test_directory_adapter.py:70), and what was
\* checked is an edition of this load.
ExportsAreChecked ==
  pc = "export" => /\ catalog[Current] # Undated /\ catalog[Current].complete
                   /\ begun[Current] <= catalog[Current].edition

\* No URL is asked more than max_retries times, and a pause is always followed
\* by another attempt: "Skipped after the final attempt" (ods_client.py:95-99).
RetriesAreBounded ==
  /\ tries <= MaxRetries
  /\ asleep => tries < MaxRetries

\* However the sources fail, a load that has started ends.
LoadsEnd == [](pc = "catalogue" => <>(pc \in {"done", "failed"}))
=============================================================================
