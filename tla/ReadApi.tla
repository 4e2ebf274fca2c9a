------------------------------ MODULE ReadApi -------------------------------
(***************************************************************************)
(* The public API's requests against the data store while loads and        *)
(* rollbacks run.  A request borrows one pooled connection for its whole   *)
(* life (interfaces/api/establishments.py) and runs one REPEATABLE READ    *)
(* transaction (interfaces/api/main.py); the use cases under application/  *)
(* fix the order in which it reads the tables.  A request is supposed to   *)
(* ask for rows every load holds, so an empty table is the only reason for *)
(* it to find nothing.                                                     *)
(***************************************************************************)
EXTENDS Publication, Sequences, FiniteSets

CONSTANTS
  Requests,     \* HTTP requests
  Endpoints,    \* the endpoints they call
  PoolSize,     \* ConnectionPool(max_size=...)
  NoSnapshot,   \* no statement executed yet
  Unread        \* a table the request has not read

ASSUME RequestsAssumption ==
  /\ Requests \subseteq Sessions
  /\ Requests \cap Writers = {}
  /\ PoolSize \in Nat \ {0}
  /\ Unread \notin Contents

VARIABLES
  todo,   \* the tables each request has still to read, in order
  asked,  \* the endpoint each request calls
  snap,   \* the snapshot of its transaction
  seen    \* what it read in each table

readVars == <<todo, asked, snap, seen>>
apiVars == <<vars, readVars>>

\* Tables in the order the endpoint's use case first reads them.  The fact
\* sheet stands for history and compare too; indicator_result is append-only
\* and read last, so it is left out.
ReadOrder(e) ==
  CASE e = "search"     -> <<"source_reference", "establishment", "site">>
    [] e = "communes"   -> <<"source_reference", "commune">>
    [] e = "fact_sheet" -> <<"establishment", "site", "source_reference">>
    [] e = "assistant"  -> <<"source_reference", "commune", "establishment", "site">>

AnswerPcs == {"answered", "not_found", "unavailable", "unknown_place", "error"}
RequestPcs == {"idle", "waiting", "reading"} \cup AnswerPcs

Borrowed == {q \in Requests : pc[q] = "reading"}

-----------------------------------------------------------------------------

Receive(q) ==
  /\ pc[q] = "idle"
  /\ \E e \in Endpoints :
       /\ asked' = [asked EXCEPT ![q] = e]
       /\ todo' = [todo EXCEPT ![q] = ReadOrder(e)]
  /\ Goto(q, "waiting")
  /\ UNCHANGED <<tableVars, jobVars, snap, seen>>

Borrow(q) ==
  /\ pc[q] = "waiting"
  /\ Cardinality(Borrowed) < PoolSize
  /\ Goto(q, "reading")
  /\ UNCHANGED <<tableVars, jobVars, readVars>>

PoolTimeout(q) ==
  /\ pc[q] = "waiting"
  /\ Cardinality(Borrowed) >= PoolSize
  /\ Goto(q, "error")
  /\ UNCHANGED <<tableVars, jobVars, readVars>>

\* REPEATABLE READ: the first statement takes the transaction's snapshot,
\* and takes it before it waits for its table locks.
TakeSnapshot(q) ==
  /\ pc[q] = "reading"
  /\ snap[q] = NoSnapshot
  /\ snap' = [snap EXCEPT ![q] = [content |-> [n \in Names |-> db[Live(n)]],
                                  file |-> filenode]]
  /\ UNCHANGED <<tableVars, pc, jobVars, todo, asked, seen>>

\* TRUNCATE gives a table a new file whose rows are younger than the snapshot;
\* the rows the snapshot should see went with the old file.
Visible(q, n) ==
  IF filenode[n] = snap[q].file[n] THEN snap[q].content[n] ELSE Empty

NoSource(q) == seen[q]["source_reference"] = Empty
UnknownEstablishment(q) ==
  asked[q] = "fact_sheet" /\ seen[q]["establishment"] = Empty
UnknownPlace(q) == asked[q] = "assistant" /\ seen[q]["commune"] = Empty

\* A fact sheet needs the source references only for the results it shows.
MustStop(q) ==
  \/ NoSource(q) /\ asked[q] # "fact_sheet"
  \/ UnknownEstablishment(q)
  \/ UnknownPlace(q)

RequestWanted(q) ==
  IF pc[q] = "reading" /\ snap[q] # NoSnapshot /\ todo[q] # <<>> /\ ~MustStop(q)
  THEN Request({}, {Live(Head(todo[q]))})
  ELSE NoRequest

\* Mutant: the pool's connections stay READ COMMITTED.
ReadCommitted(q) ==
  /\ RequestWanted(q) # NoRequest
  /\ Grantable(q, RequestWanted(q))
  /\ Grant(q, RequestWanted(q))
  /\ seen' = [seen EXCEPT ![q][Head(todo[q])] = db[Live(Head(todo[q]))]]
  /\ todo' = [todo EXCEPT ![q] = Tail(@)]
  /\ UNCHANGED <<db, filenode, dirty, rewrites, pc, jobVars, asked, snap>>

ReadTable(q) ==
  /\ RequestWanted(q) # NoRequest
  /\ Grantable(q, RequestWanted(q))
  /\ Grant(q, RequestWanted(q))
  /\ seen' = [seen EXCEPT ![q][Head(todo[q])] = Visible(q, Head(todo[q]))]
  /\ todo' = [todo EXCEPT ![q] = Tail(@)]
  /\ UNCHANGED <<db, filenode, dirty, rewrites, pc, jobVars, asked, snap>>

\* Mutant: the connection goes back to the pool in its transaction.
ReturnedInTransaction(q, outcome) ==
  /\ pc[q] = "reading"
  /\ Goto(q, outcome)
  /\ UNCHANGED <<tableVars, jobVars, readVars>>

\* The response leaves, the transaction ends, the connection returns.
EndRequest(q, outcome) ==
  /\ pc[q] = "reading"
  /\ EndTransaction(q)
  /\ Goto(q, outcome)
  /\ UNCHANGED <<db, filenode, jobVars, readVars>>

AnswerUnavailable(q) == NoSource(q) /\ EndRequest(q, "unavailable")
AnswerNotFound(q) == UnknownEstablishment(q) /\ EndRequest(q, "not_found")
AnswerUnknownPlace(q) ==
  UnknownPlace(q) /\ ~NoSource(q) /\ EndRequest(q, "unknown_place")
Answer(q) == todo[q] = <<>> /\ ~MustStop(q) /\ EndRequest(q, "answered")

\* A failed statement or a lost connection: HTTP 500.
RequestFails(q) == EndRequest(q, "error")

RequestProgress(q) ==
  \/ Borrow(q) \/ PoolTimeout(q) \/ TakeSnapshot(q) \/ ReadTable(q)
  \/ AnswerUnavailable(q) \/ AnswerNotFound(q) \/ AnswerUnknownPlace(q) \/ Answer(q)

RequestStep(q) == Receive(q) \/ RequestProgress(q) \/ RequestFails(q)

-----------------------------------------------------------------------------

AnyWaitsFor(s, q) ==
  WaitsOn(s, IF s \in Requests THEN RequestWanted(s) ELSE Wanted(s), q)

\* A deadlock may have requests in its ring; PostgreSQL fails any one member.
BreakAnyDeadlock(s) ==
  /\ InWaitRing(s, Writers \cup Requests, AnyWaitsFor)
  /\ \/ s \in Runs /\ StatementFails(s) /\ UNCHANGED readVars
     \/ s \in Rollbacks /\ RollbackFails(s) /\ UNCHANGED readVars
     \/ s \in Requests /\ RequestFails(s)

ApiInit ==
  /\ Init
  /\ todo = [q \in Requests |-> <<>>]
  /\ asked = [q \in Requests |-> "none"]
  /\ snap = [q \in Requests |-> NoSnapshot]
  /\ seen = [q \in Requests |-> [n \in Names |-> Unread]]

ApiNext ==
  \/ \E r \in Runs : RunStep(r) /\ UNCHANGED readVars
  \/ \E b \in Rollbacks : RollbackStep(b) /\ UNCHANGED readVars
  \/ \E q \in Requests : RequestStep(q)
  \/ \E s \in Writers \cup Requests : BreakAnyDeadlock(s)

ApiSpec == ApiInit /\ [][ApiNext]_apiVars

\* What programs and requests in progress do, and the deadlock detector.
ApiProgress ==
  \/ \E r \in Runs : RunProgress(r) /\ UNCHANGED readVars
  \/ \E b \in Rollbacks : RollbackProgress(b) /\ UNCHANGED readVars
  \/ \E q \in Requests : RequestProgress(q)
  \/ \E s \in Writers \cup Requests : BreakAnyDeadlock(s)

\* While any of them can go on, one does.
ApiFairness == WF_apiVars(ApiProgress)

FairApiSpec == ApiSpec /\ ApiFairness

-----------------------------------------------------------------------------
(* Properties.                                                             *)

\* The rows one response is made of all come from one load (main.py:33-37,
\* establishments.py:88-92), whatever commits while it is assembled.
ResponsesShowOneLoad ==
  \A q \in Requests : \A m, n \in Names :
    {seen[q][m], seen[q][n]} \cap {Empty, Unread} = {} => seen[q][m] = seen[q][n]

\* Nobody is ever shown a row of a load without a successful ingestion_run
\* row, so none of an uncommitted, refused or failed one.
ResponsesAreOnRecord ==
  \A q \in Requests, n \in Names :
    seen[q][n] \in Runs => AuditRow(seen[q][n], TRUE) \in audit

\* A request that has begun is answered, although it waits for a connection
\* another request keeps while a load or a rollback blocks it, or for their
\* tables itself, and may deadlock with them.
EveryRequestEnds ==
  \A q \in Requests : pc[q] = "waiting" ~> pc[q] \in AnswerPcs

\* Requests never keep a load or a rollback from ending.
WritersEndDespiteReaders ==
  \A s \in Writers : pc[s] # "idle" ~>
    pc[s] \in {"succeeded", "declined", "failed", "failed_outside_handler", "crashed"}

\* "TRUNCATE is transactional in Postgres, so readers never observe a
\* half-loaded directory" (repositories.py:34-36).
ReadersNeverSeeATruncatedTable ==
  \A q \in Requests, n \in Names : seen[q][n] # Empty

\* "The API keeps serving during an ingestion run" (test_ingestion_locking.py:
\* 91-92): no request is ever made to wait by a load.
LoadsNeverBlockReaders ==
  \A q \in Requests, r \in Runs : ~AnyWaitsFor(q, r)
=============================================================================
