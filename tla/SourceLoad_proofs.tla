------------------------- MODULE SourceLoad_proofs --------------------------
(***************************************************************************)
(* Proofs about SourceLoad, for any datasets, reading order, number of     *)
(* attempts and of editions.  A load passes each dataset by three moments: *)
(* it begins, it caches the catalogue entry, it exports the rows; what is  *)
(* upstream only gets newer in between, and an edition does not change:    *)
(* EditionsInOrder says so.                                                *)
(***************************************************************************)
EXTENDS SourceLoad, TLAPS

\* The editions a load has met, in the order it met them.
EditionsInOrder ==
  \A d \in Datasets :
    /\ begun[d] <= portal[d].edition
    /\ catalog[d] # Undated =>
         /\ begun[d] <= catalog[d].edition /\ catalog[d].edition <= portal[d].edition
         /\ catalog[d].edition = portal[d].edition => catalog[d] = portal[d]
    /\ rows[d] # Undated =>
         /\ catalog[d] # Undated /\ catalog[d].complete
         /\ catalog[d].edition <= rows[d].edition
         /\ rows[d].edition = catalog[d].edition => rows[d] = catalog[d]
    /\ dates[d] # Undated =>
         catalog[d] # Undated /\ dates[d] = catalog[d].edition

\* How far through the reading order each request finds the load.
ReadSoFar ==
  /\ pc \in {"catalogue", "export"} =>
       \A i \in 1..(reading - 1) : rows[ReadOrder[i]] # Undated
  /\ pc = "export" => catalog[Current] # Undated /\ catalog[Current].complete
  /\ pc \in {"communes", "references", "done"} => \A d \in Datasets : rows[d] # Undated

LoadInv == LoadTypeOK /\ EditionsInOrder /\ ReadSoFar
-----------------------------------------------------------------------------

\* Every dataset comes in the reading order.
LEMMA OrderReachesAll ==
  /\ Len(ReadOrder) \in Nat \ {0} /\ DOMAIN ReadOrder = 1..Len(ReadOrder)
  /\ \A i \in 1..Len(ReadOrder) : ReadOrder[i] \in Datasets
  /\ \A d \in Datasets : \E i \in 1..Len(ReadOrder) : ReadOrder[i] = d
  BY LoadAssumption

\* The attempts of a request are counted from zero.
LEMMA AttemptsCount == MaxRetries - 1 \in Nat /\ 0 \in 0..(MaxRetries - 1)
  BY LoadAssumption

\* Nothing is cached or read at the start.
LEMMA InitLoad == LoadInit => LoadInv
<1> SUFFICES ASSUME LoadInit PROVE LoadInv
  OBVIOUS
<1> USE LoadAssumption, OrderReachesAll DEF LoadInit
<1>1. \A d \in Datasets :
        catalog[d] = Undated /\ rows[d] = Undated /\ dates[d] = Undated
  BY DEF Nothing
<1>2. LoadTypeOK
  <2>1. /\ catalog \in [Datasets -> Edition \cup {Undated}]
        /\ rows \in [Datasets -> Edition \cup {Undated}]
        /\ dates \in [Datasets -> Nat \cup {Undated}]
    BY DEF Nothing
  <2>2. portal \in [Datasets -> Edition] /\ begun \in [Datasets -> Nat]
    BY DEF Edition
  <2>3. reading \in DOMAIN ReadOrder /\ loads \in 0..MaxLoads
    OBVIOUS
  <2> QED
    BY <2>1, <2>2, <2>3, AttemptsCount DEF LoadTypeOK
<1>3. EditionsInOrder
  <2>1. ASSUME NEW d \in Datasets PROVE begun[d] <= portal[d].edition
    <3>1. begun[d] = 0 /\ portal[d].edition = 0
      OBVIOUS
    <3>2. 0 <= 0
      OBVIOUS
    <3> QED
      BY <3>1, <3>2, Zenon
  <2> QED
    BY <1>1, <2>1 DEF EditionsInOrder
<1>4. ReadSoFar
  BY DEF ReadSoFar
<1> QED
  BY <1>2, <1>3, <1>4 DEF LoadInv

\* A step that only concerns the request on its way.
LEMMA RequestKeepsLoad ==
  ASSUME LoadInv, BackOff \/ Wake \/ GiveUp \/ Refused \/ Abandon
  PROVE  LoadInv'
<1>1. UNCHANGED <<portal, reading, catalog, rows, dates, begun, loads>>
  BY DEF BackOff, Wake, GiveUp, Refused, Abandon
<1>2. /\ pc' = pc \/ pc' = "failed"
      /\ attempt' \in 0..(MaxRetries - 1) /\ asleep' \in BOOLEAN /\ tries' \in Nat
  <2>1. attempt \in 0..(MaxRetries - 1) /\ tries \in Nat /\ asleep \in BOOLEAN
    BY DEF LoadInv, LoadTypeOK
  <2>2. CASE BackOff
    <3>1. attempt + 1 \in 0..(MaxRetries - 1)
      BY <2>1, <2>2, AttemptsCount DEF BackOff, AttemptsLeft
    <3> QED
      BY <2>1, <2>2, <3>1 DEF BackOff
  <2>3. CASE Wake \/ Abandon
    BY <2>1, <2>3 DEF Wake, Abandon
  <2>4. CASE GiveUp \/ Refused
    BY <2>1, <2>4 DEF GiveUp, Refused
  <2> QED
    BY <2>2, <2>3, <2>4
<1>3. LoadTypeOK'
  BY <1>1, <1>2 DEF LoadInv, LoadTypeOK
<1>4. EditionsInOrder'
  BY <1>1 DEF LoadInv, EditionsInOrder
<1>5. ReadSoFar'
  BY <1>1, <1>2 DEF LoadInv, ReadSoFar, Current
<1> QED
  BY <1>3, <1>4, <1>5 DEF LoadInv

\* A load reads one of the datasets, and the portal has it.
LEMMA CurrentIsRead ==
  ASSUME LoadInv
  PROVE  Current \in Datasets /\ portal[Current] \in Edition /\ portal[Current] # Undated
  BY LoadAssumption, OrderReachesAll DEF LoadInv, LoadTypeOK, Current

\* The entry the schema check works on is cached, and not newer than upstream.
LEMMA EntryIsInOrder ==
  ASSUME LoadInv
  PROVE  /\ CatalogEntry \in Edition /\ CatalogEntry # Undated
         /\ begun[Current] <= CatalogEntry.edition
         /\ CatalogEntry.edition <= portal[Current].edition
         /\ CatalogEntry.edition = portal[Current].edition => CatalogEntry = portal[Current]
<1>1. CASE catalog[Current] # Undated
  BY <1>1, CurrentIsRead DEF CatalogEntry, LoadInv, LoadTypeOK, EditionsInOrder
<1>2. CASE catalog[Current] = Undated
  <2>1. portal[Current].edition \in Nat
    BY CurrentIsRead DEF Edition
  <2> QED
    BY <1>2, <2>1, CurrentIsRead DEF CatalogEntry, LoadInv, EditionsInOrder
<1> QED
  BY <1>1, <1>2

\* The catalogue request, answered or taken from the cache, keeps the invariant.
LEMMA CheckKeepsLoad ==
  ASSUME LoadInv, CheckSchema
  PROVE  LoadInv'
<1>1. /\ UNCHANGED <<portal, reading, rows, dates, begun, loads, asleep>>
      /\ catalog' = [catalog EXCEPT ![Current] = CatalogEntry]
      /\ pc = "catalogue"
      /\ \/ pc' = "export" /\ CatalogEntry.complete /\ attempt' = 0 /\ tries' = 0
         \/ pc' = "failed" /\ UNCHANGED <<attempt, tries>>
  BY DEF CheckSchema, Sending, MoveOn, Fail, SchemaHolds
<1>2. /\ DOMAIN catalog = Datasets /\ Current \in Datasets
      /\ catalog'[Current] = CatalogEntry
      /\ \A d \in Datasets : d # Current => catalog'[d] = catalog[d]
  BY <1>1, CurrentIsRead DEF LoadInv, LoadTypeOK
<1>3. LoadTypeOK'
  <2>1. catalog' \in [Datasets -> Edition \cup {Undated}]
    BY <1>1, CurrentIsRead, EntryIsInOrder DEF LoadInv, LoadTypeOK
  <2> QED
    BY <1>1, <2>1, LoadAssumption DEF LoadInv, LoadTypeOK, RequestPcs
<1>4. catalog[Current] # Undated => catalog'[Current] = catalog[Current]
  BY <1>2 DEF CatalogEntry
<1>5. EditionsInOrder'
  BY <1>1, <1>2, <1>4, EntryIsInOrder DEF LoadInv, EditionsInOrder
<1>6. ReadSoFar'
  <2>1. Current' = Current
    BY <1>1 DEF Current
  <2> QED
    BY <1>1, <1>2, <2>1, EntryIsInOrder DEF LoadInv, ReadSoFar
<1> QED
  BY <1>3, <1>5, <1>6 DEF LoadInv

\* So does the export of a dataset, after which the next one is read.
LEMMA ExportKeepsLoad ==
  ASSUME LoadInv, Export
  PROVE  LoadInv'
<1>1. /\ UNCHANGED <<portal, catalog, dates, begun, loads, asleep>>
      /\ rows' = [rows EXCEPT ![Current] = portal[Current]]
      /\ pc = "export"
      /\ attempt' = 0 /\ tries' = 0
      /\ \/ reading < Len(ReadOrder) /\ reading' = reading + 1 /\ pc' = "catalogue"
         \/ ~(reading < Len(ReadOrder)) /\ reading' = reading /\ pc' = "communes"
  BY DEF Export, Sending, MoveOn
<1>2. /\ rows' \in [Datasets -> Edition \cup {Undated}]
      /\ rows'[Current] = portal[Current] /\ rows'[Current] # Undated
      /\ \A d \in Datasets : d # Current => rows'[d] = rows[d]
  BY <1>1, CurrentIsRead DEF LoadInv, LoadTypeOK
<1>3. reading \in 1..Len(ReadOrder) /\ reading' \in 1..Len(ReadOrder)
  BY <1>1, OrderReachesAll DEF LoadInv, LoadTypeOK
<1>4. LoadTypeOK'
  BY <1>1, <1>2, <1>3, OrderReachesAll, LoadAssumption
  DEF LoadInv, LoadTypeOK, RequestPcs
<1>5. EditionsInOrder'
  <2>1. /\ catalog[Current] # Undated /\ catalog[Current].complete
        /\ catalog[Current].edition <= portal[Current].edition
        /\ catalog[Current].edition = portal[Current].edition
             => portal[Current] = catalog[Current]
    BY <1>1, CurrentIsRead DEF LoadInv, EditionsInOrder, ReadSoFar
  <2> QED
    BY <1>1, <1>2, <2>1, CurrentIsRead DEF LoadInv, EditionsInOrder
<1>6. \A i \in 1..reading : rows'[ReadOrder[i]] # Undated
  <2> TAKE i \in 1..reading
  <2>1. ReadOrder[i] \in Datasets
    BY <1>3, OrderReachesAll
  <2>2. CASE ReadOrder[i] = Current
    BY <1>2, <2>2
  <2>3. CASE ReadOrder[i] # Current
    <3>1. i \in 1..(reading - 1)
      BY <1>3, <2>3, OrderReachesAll DEF Current
    <3> QED
      BY <1>1, <1>2, <2>1, <2>3, <3>1 DEF LoadInv, ReadSoFar
  <2> QED
    BY <2>2, <2>3
<1>7. ReadSoFar'
  <2>1. CASE pc' = "catalogue"
    BY <1>1, <1>3, <1>6, <2>1 DEF ReadSoFar
  <2>2. CASE pc' = "communes"
    <3>1. ~(reading < Len(ReadOrder))
      BY <1>1, <2>2
    <3>2. reading = Len(ReadOrder)
      <4>1. Len(ReadOrder) \in Nat
        BY OrderReachesAll
      <4> QED
        BY <1>3, <3>1, <4>1
    <3>3. \A d \in Datasets : rows'[d] # Undated
      BY <1>6, <3>2, OrderReachesAll
    <3> QED
      BY <2>2, <3>3 DEF ReadSoFar
  <2> QED
    BY <1>1, <2>1, <2>2
<1> QED
  BY <1>4, <1>5, <1>7 DEF LoadInv

\* So do the source references, made of the catalogue entries.
LEMMA ReferencesKeepLoad ==
  ASSUME LoadInv, ReadCommunes \/ MakeReferences
  PROVE  LoadInv'
<1>1. /\ UNCHANGED <<portal, reading, asleep, catalog, rows, begun, loads>>
      /\ \/ pc = "communes" /\ pc' = "references"
            /\ attempt' = 0 /\ tries' = 0 /\ dates' = dates
         \/ pc = "references" /\ pc' = "done" /\ UNCHANGED <<attempt, tries>>
            /\ dates' = [d \in Datasets |-> PublishedAt(d)]
  BY DEF ReadCommunes, MakeReferences, Sending, MoveOn, progress
<1>2. \A d \in Datasets :
        /\ PublishedAt(d) \in Nat \cup {Undated}
        /\ PublishedAt(d) # Undated =>
             catalog[d] # Undated /\ PublishedAt(d) = catalog[d].edition
  <2> TAKE d \in Datasets
  <2>1. catalog[d] # Undated => catalog[d].edition \in Nat
    BY DEF LoadInv, LoadTypeOK, Edition
  <2> QED
    BY <2>1 DEF PublishedAt
<1>3. dates' \in [Datasets -> Nat \cup {Undated}]
  BY <1>1, <1>2 DEF LoadInv, LoadTypeOK
<1>4. LoadTypeOK'
  BY <1>1, <1>3, LoadAssumption DEF LoadInv, LoadTypeOK
<1>5. EditionsInOrder'
  BY <1>1, <1>2 DEF LoadInv, EditionsInOrder
<1>6. ReadSoFar'
  BY <1>1 DEF LoadInv, ReadSoFar
<1> QED
  BY <1>4, <1>5, <1>6 DEF LoadInv

\* So does the start of a load.
LEMMA StartKeepsLoad ==
  ASSUME LoadInv, StartLoad
  PROVE  LoadInv'
<1>1. /\ loads' \in 0..MaxLoads /\ pc' = "catalogue" /\ reading' = 1
      /\ attempt' = 0 /\ asleep' = FALSE /\ tries' = 0 /\ portal' = portal
      /\ catalog' = Nothing /\ rows' = Nothing /\ dates' = Nothing
      /\ begun' = [d \in Datasets |-> portal[d].edition]
  BY LoadAssumption DEF LoadInv, LoadTypeOK, StartLoad
<1>2. \A d \in Datasets : portal[d].edition \in Nat
  BY DEF LoadInv, LoadTypeOK, Edition
<1>3. /\ Nothing \in [Datasets -> Edition \cup {Undated}]
      /\ Nothing \in [Datasets -> Nat \cup {Undated}]
      /\ begun' \in [Datasets -> Nat]
      /\ reading' \in DOMAIN ReadOrder
  BY <1>1, <1>2, OrderReachesAll DEF Nothing
<1>4. LoadTypeOK'
  BY <1>1, <1>3, AttemptsCount DEF LoadInv, LoadTypeOK, RequestPcs
<1>5. EditionsInOrder'
  BY <1>1, <1>2 DEF EditionsInOrder, Nothing
<1>6. ReadSoFar'
  BY <1>1 DEF ReadSoFar
<1> QED
  BY <1>4, <1>5, <1>6 DEF LoadInv

\* So does a dataset that changes upstream at any moment.
LEMMA RepublishKeepsLoad ==
  ASSUME LoadInv, NEW d \in Datasets, Republish(d)
  PROVE  LoadInv'
<1>1. PICK complete \in BOOLEAN, dated \in BOOLEAN :
        portal' = [portal EXCEPT ![d] = [edition |-> portal[d].edition + 1,
                                         complete |-> complete, dated |-> dated]]
  BY DEF Republish
<1>2. UNCHANGED <<pc, reading, attempt, asleep, tries, catalog, rows, dates, begun, loads>>
  BY DEF Republish, progress
<1>3. \A e \in Datasets : portal[e].edition \in Nat
  BY DEF LoadInv, LoadTypeOK, Edition
<1>4. portal' \in [Datasets -> Edition]
  <2>1. [edition |-> portal[d].edition + 1, complete |-> complete, dated |-> dated]
          \in Edition
    BY <1>3 DEF Edition
  <2> QED
    BY <1>1, <2>1 DEF LoadInv, LoadTypeOK
<1>5. \A e \in Datasets : portal'[e].edition \in Nat /\ portal[e].edition <= portal'[e].edition
  <2>1. DOMAIN portal = Datasets
    BY DEF LoadInv, LoadTypeOK
  <2> QED
    BY <1>1, <1>3, <2>1
<1>6. \A e \in Datasets :
        begun[e] \in Nat /\ (catalog[e] # Undated => catalog[e].edition \in Nat)
  BY DEF LoadInv, LoadTypeOK, Edition
<1>7. LoadTypeOK'
  BY <1>2, <1>4 DEF LoadInv, LoadTypeOK
<1>8. \A e \in Datasets :
        \/ portal'[e] = portal[e]
        \/ portal[e].edition < portal'[e].edition
  <2>1. DOMAIN portal = Datasets
    BY DEF LoadInv, LoadTypeOK
  <2> QED
    BY <1>1, <1>3, <2>1
<1>9. EditionsInOrder'
  <2> SUFFICES ASSUME NEW e \in Datasets
               PROVE  /\ begun[e] <= portal'[e].edition
                      /\ catalog[e] # Undated =>
                           /\ catalog[e].edition <= portal'[e].edition
                           /\ catalog[e].edition = portal'[e].edition
                                => catalog[e] = portal'[e]
    BY <1>2 DEF LoadInv, EditionsInOrder
  <2> QED
    BY <1>3, <1>5, <1>6, <1>8 DEF LoadInv, EditionsInOrder
<1>10. ReadSoFar'
  BY <1>2 DEF LoadInv, ReadSoFar, Current
<1> QED
  BY <1>7, <1>9, <1>10 DEF LoadInv

\* Every step of a load or of the portal keeps the invariant.
LEMMA NextKeepsLoad == LoadInv /\ [LoadNext]_loadVars => LoadInv'
<1>1. ASSUME LoadInv, UNCHANGED loadVars PROVE LoadInv'
  BY <1>1 DEF loadVars, progress, LoadInv, LoadTypeOK, EditionsInOrder, ReadSoFar, Current
<1> QED
  BY <1>1, RequestKeepsLoad, CheckKeepsLoad, ExportKeepsLoad,
     ReferencesKeepLoad, StartKeepsLoad, RepublishKeepsLoad
  DEF LoadNext, LoadStep

\* Every reachable state of the reading of the sources is well typed, and the
\* editions it met are in the order it met them.
THEOREM LoadAlways == LoadSpec => []LoadInv
  BY InitLoad, NextKeepsLoad, PTL DEF LoadSpec

\* No publication date is later than the rows it is shown with, or older than
\* the load (ods_client.py:104-119, 135-157).
THEOREM DatesAreHonest == LoadSpec => []DatesBracketTheRows
<1>1. LoadInv => DatesBracketTheRows
  BY DEF LoadInv, LoadTypeOK, EditionsInOrder, ReadSoFar, DatesBracketTheRows
<1> QED
  BY <1>1, LoadAlways, PTL

\* A load that has read everything found every column of every dataset when it
\* looked, and only an edition published after that look can have cost its rows
\* one (ods_client.py:159-187, directory_adapter.py:114-117).
THEOREM SchemaChangesAreNoticed == LoadSpec => []ColumnsWereThereWhenChecked
<1>1. ASSUME LoadInv, NEW d \in Datasets, rows[d] # Undated, ~rows[d].complete
      PROVE  catalog[d].edition < rows[d].edition
  <2>1. /\ catalog[d] # Undated /\ catalog[d].complete
        /\ catalog[d].edition <= rows[d].edition
        /\ rows[d].edition = catalog[d].edition => rows[d] = catalog[d]
    BY <1>1 DEF LoadInv, EditionsInOrder
  <2>2. catalog[d].edition \in Nat /\ rows[d].edition \in Nat
    BY <1>1, <2>1 DEF LoadInv, LoadTypeOK, Edition
  <2> QED
    BY <1>1, <2>1, <2>2
<1>2. LoadInv => ColumnsWereThereWhenChecked
  BY <1>1 DEF LoadInv, EditionsInOrder, ReadSoFar, ColumnsWereThereWhenChecked
<1> QED
  BY <1>2, LoadAlways, PTL

\* The export endpoint is only asked after this load's schema check of the
\* same dataset passed (directory_adapter.py:114-117).
THEOREM ExportsFollowTheirCheck == LoadSpec => []ExportsAreChecked
<1>1. LoadInv => ExportsAreChecked
  BY OrderReachesAll
  DEF LoadInv, LoadTypeOK, EditionsInOrder, ReadSoFar, ExportsAreChecked, Current
<1> QED
  BY <1>1, LoadAlways, PTL
-----------------------------------------------------------------------------
\* While a request is being worked on, every try but the one under way was a
\* failed attempt; only such a request sleeps, and only with attempts left.
TriesInv ==
  /\ attempt \in 0..(MaxRetries - 1) /\ tries \in Nat
  /\ pc \in RequestPcs => tries = attempt
  /\ tries <= attempt + 1
  /\ asleep \in BOOLEAN
  /\ pc \notin RequestPcs => ~asleep

\* There is at least one attempt.
LEMMA MaxRetriesCount == MaxRetries \in Nat /\ 1 <= MaxRetries
  BY LoadAssumption

\* A step keeps the count of the tries.
LEMMA NextKeepsTries == TriesInv /\ [LoadNext]_loadVars => TriesInv'
<1> SUFFICES ASSUME TriesInv, [LoadNext]_loadVars PROVE TriesInv'
  OBVIOUS
<1> USE MaxRetriesCount DEF TriesInv, RequestPcs
<1>1. CASE BackOff
  BY <1>1 DEF BackOff, AttemptsLeft
<1>2. CASE GiveUp \/ Refused
  BY <1>2 DEF GiveUp, Refused, Sending
<1>3. CASE Wake \/ Abandon
  BY <1>3 DEF Wake, Abandon
<1>4. CASE CheckSchema \/ Export \/ ReadCommunes
  BY <1>4 DEF CheckSchema, Export, ReadCommunes, Sending, MoveOn, Fail
<1>5. CASE MakeReferences
  BY <1>5 DEF MakeReferences, progress
<1>6. CASE StartLoad
  <2>1. pc' = "catalogue" /\ attempt' = 0 /\ asleep' = FALSE /\ tries' = 0
    BY <1>6 DEF StartLoad
  <2>2. attempt' \in 0..(MaxRetries - 1) /\ tries' <= attempt' + 1
    BY <2>1
  <2>3. tries' \in Nat /\ tries' = attempt' /\ asleep' \in BOOLEAN /\ ~asleep'
    BY <2>1
  <2> QED
    BY <2>2, <2>3
<1>7. CASE UNCHANGED loadVars \/ \E d \in Datasets : Republish(d)
  BY <1>7 DEF loadVars, Republish, progress
<1> QED
  BY <1>1, <1>2, <1>3, <1>4, <1>5, <1>6, <1>7 DEF LoadNext, LoadStep

\* No URL is asked more than max_retries times, and no pause follows the last
\* attempt (ods_client.py:80-99, geo_client.py).
THEOREM NoUrlIsAskedTooOften == LoadSpec => []RetriesAreBounded
<1>1. ASSUME LoadInit PROVE TriesInv
  <2>1. pc = "idle" /\ attempt = 0 /\ asleep = FALSE /\ tries = 0
    BY <1>1 DEF LoadInit
  <2>2. attempt \in 0..(MaxRetries - 1) /\ tries <= attempt + 1
    BY <2>1, MaxRetriesCount
  <2>3. tries \in Nat /\ tries = attempt /\ asleep \in BOOLEAN /\ ~asleep
    BY <2>1
  <2> QED
    BY <2>2, <2>3 DEF TriesInv
<1>2. TriesInv => RetriesAreBounded
  BY MaxRetriesCount DEF TriesInv, RetriesAreBounded
<1> QED
  BY <1>1, <1>2, NextKeepsTries, PTL DEF LoadSpec
=============================================================================
