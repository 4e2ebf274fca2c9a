---------------------------- MODULE IngestionJob ----------------------------
(***************************************************************************)
(* One load of the public datasets: run_ingestion_once (ingestion/job.py), *)
(* the advisory lock around it (ingestion/locking.py), the use case it     *)
(* runs (application/ingest_public_data.py) and the statements its         *)
(* repositories send (persistence/repositories.py).                        *)
(*                                                                         *)
(* Each element of Runs is one invocation, by a scheduler or by the CLI;   *)
(* it names the load it would publish.  The advisory-lock SELECT opens the *)
(* connection's implicit transaction, so job.py's "outer" transaction      *)
(* block is a savepoint and the COMMIT comes after the lock is released.   *)
(***************************************************************************)
EXTENDS PostgresTables, Integers

CONSTANTS
  Runs,               \* invocations of run_ingestion_once
  NoRun,              \* the advisory lock is free
  Exports,            \* what the public sources may return: row counts
  NoExport,           \* nothing fetched yet
  Keys,               \* (uai, year, indicator_type) of indicator rows
  Offers,             \* Offers[r]: the keys run r's export holds
  NoRow,              \* no indicator row for this key
  Seed, Older,        \* contents found live, and in the copies, at the start
  MinEstablishments, MinIndicators, MinCommunes, MinMatchPercent

ASSUME RunsAssumption ==
  /\ Runs \subseteq Sessions /\ Runs \subseteq Contents
  /\ NoRun \notin Sessions /\ NoRow \notin Contents
  /\ {Seed, Older} \subseteq Contents
  /\ {Seed, Older, Empty} \cap Runs = {}
  /\ Empty \notin {Seed, Older}
  /\ NoExport \notin Exports
  /\ Offers \in [Runs -> SUBSET Keys]

VARIABLES
  pc,          \* where each session stands
  advisory,    \* the run holding the ingestion lock, or NoRun
  fetched,     \* the export each run is working from
  inserted,    \* indicator keys each open transaction has inserted
  recorded,    \* runs whose success row is written but not committed
  indicators,  \* committed indicator rows: the load that published each key
  audit,       \* committed ingestion_run rows
  alerted      \* runs that posted the failure notice

jobVars ==
  <<advisory, fetched, inserted, recorded, indicators, audit, alerted>>

WritePcs == {
  "drop_sources", "copy_sources", "drop_establishments",
  "copy_establishments", "drop_sites", "copy_sites",
  "replace_establishments", "append_indicators", "drop_communes",
  "copy_communes", "replace_communes", "upsert_sources", "record_run" }

\* Inside job.py's "with connection.transaction()", so inside its try.
BlockPcs == {"fetch", "release_savepoint"} \cup WritePcs
HandlerPcs == {"audit", "alert", "unlock_after_failure"}
EndPcs == {"succeeded", "declined", "failed", "failed_outside_handler", "crashed"}
RunPcs == {"idle", "try_lock", "unlock", "commit"}
          \cup BlockPcs \cup HandlerPcs \cup EndPcs

AuditRow(r, ok) == [run |-> r, succeeded |-> ok]

Goto(s, at) == pc' = [pc EXCEPT ![s] = at]

FreeAdvisory(r) == advisory' = IF advisory = r THEN NoRun ELSE advisory

\* The transaction's uncommitted rows and locks vanish.
AbortRun(r) ==
  /\ Abort(r)
  /\ inserted' = [inserted EXCEPT ![r] = {}]
  /\ recorded' = recorded \ {r}
  /\ UNCHANGED <<fetched, indicators, audit, alerted>>

-----------------------------------------------------------------------------
(* Before the first write.                                                 *)

Connect(r) ==
  /\ pc[r] = "idle"
  /\ Goto(r, "try_lock")
  /\ UNCHANGED <<tableVars, jobVars>>

TryLock(r) ==
  /\ pc[r] = "try_lock"
  /\ advisory = NoRun
  /\ advisory' = r
  /\ Goto(r, "fetch")
  /\ UNCHANGED <<tableVars, fetched, inserted, recorded, indicators, audit, alerted>>

\* Another run holds the lock: run_ingestion_once returns None.
Decline(r) ==
  /\ pc[r] = "try_lock"
  /\ advisory # NoRun
  /\ Goto(r, "declined")
  /\ UNCHANGED <<tableVars, jobVars>>

\* Mutant: a count one below its floor is let through.
PassesLooseGates(e) ==
  /\ e.establishments + 1 >= MinEstablishments
  /\ e.indicators + 1 >= MinIndicators
  /\ e.communes + 1 >= MinCommunes
  /\ e.indicators = 0 => MinMatchPercent <= 0
  /\ 100 * e.matched >= MinMatchPercent * e.indicators

PassesGates(e) ==
  /\ e.establishments >= MinEstablishments
  /\ e.indicators >= MinIndicators
  /\ e.communes >= MinCommunes
  /\ e.indicators = 0 => MinMatchPercent <= 0
  /\ 100 * e.matched >= MinMatchPercent * e.indicators

\* Mutant: a suspicious export is logged and loaded all the same.
FetchAndWarn(r) ==
  /\ pc[r] = "fetch"
  /\ \E e \in Exports : fetched' = [fetched EXCEPT ![r] = e]
  /\ Goto(r, "drop_sources")
  /\ UNCHANGED <<tableVars, advisory, inserted, recorded, indicators, audit, alerted>>

\* Every source is read and judged before the first write; a refusal raises
\* SuspiciousIngestionError into the job's handler with nothing written.
FetchAndJudge(r) ==
  /\ pc[r] = "fetch"
  /\ \E e \in Exports :
       /\ fetched' = [fetched EXCEPT ![r] = e]
       /\ Goto(r, IF PassesGates(e) THEN "drop_sources" ELSE "audit")
  /\ UNCHANGED <<tableVars, advisory, inserted, recorded, indicators, audit, alerted>>

-----------------------------------------------------------------------------
(* The statements of the load, each waiting for its table locks.           *)

NoRequest == Request({}, {})

\* DROP TABLE IF EXISTS locks nothing when the table is not there to drop.
DropRequest(r, n) ==
  Request(IF View(r, Previous(n)) = Absent THEN {} ELSE {Previous(n)}, {})

CopyRequest(n) == Request({Previous(n)}, {Live(n)})

RunRequest(r) ==
  CASE pc[r] = "drop_sources"           -> DropRequest(r, "source_reference")
    [] pc[r] = "copy_sources"           -> CopyRequest("source_reference")
    [] pc[r] = "drop_establishments"    -> DropRequest(r, "establishment")
    [] pc[r] = "copy_establishments"    -> CopyRequest("establishment")
    [] pc[r] = "drop_sites"             -> DropRequest(r, "site")
    [] pc[r] = "copy_sites"             -> CopyRequest("site")
    [] pc[r] = "replace_establishments" ->
         Request({Live("establishment"), Live("site")}, {})
    [] pc[r] = "drop_communes"          -> DropRequest(r, "commune")
    [] pc[r] = "copy_communes"          -> CopyRequest("commune")
    [] pc[r] = "replace_communes"       -> Request({Live("commune")}, {})
    [] pc[r] = "upsert_sources"         -> Request({}, {Live("source_reference")})
    [] OTHER                            -> NoRequest

\* One statement of run r: its locks are granted and the program moves on.
Statement(r, at, after, request) ==
  /\ pc[r] = at
  /\ Grantable(r, request)
  /\ Grant(r, request)
  /\ Goto(r, after)
  /\ UNCHANGED <<db, filenode, advisory, fetched, indicators, audit, alerted>>

\* DROP TABLE IF EXISTS n_previous: a copy that is not there is not written,
\* so another transaction may still create it first.
DropPrevious(r, n, at, after) ==
  /\ Statement(r, at, after, DropRequest(r, n))
  /\ Write(r, [x \in DropRequest(r, n).exclusive |-> Absent])
  /\ UNCHANGED <<rewrites, inserted, recorded>>

\* CREATE TABLE n_previous AS SELECT * FROM n
CopyToPrevious(r, n, at, after) ==
  /\ Statement(r, at, after, CopyRequest(n))
  /\ View(r, Previous(n)) = Absent
  /\ Write(r, [x \in {Previous(n)} |-> View(r, Live(n))])
  /\ UNCHANGED <<rewrites, inserted, recorded>>

\* TRUNCATE the tables and COPY the export in.  Everyone who locks both
\* establishment and site locks establishment first, so taking the two locks
\* together loses no wait.
ReplaceLive(r, names, at, after) ==
  /\ Statement(r, at, after, Request({Live(n) : n \in names}, {}))
  /\ Write(r, [x \in {Live(n) : n \in names} |-> r])
  /\ rewrites' = [rewrites EXCEPT ![r] = @ \cup names]
  /\ UNCHANGED <<inserted, recorded>>

\* Mutant: ON CONFLICT DO UPDATE.
OverwriteIndicators(r) ==
  /\ \A q \in Runs \ {r} : inserted[q] \cap Offers[r] = {}
  /\ Statement(r, "append_indicators", "drop_communes", NoRequest)
  /\ inserted' = [inserted EXCEPT ![r] = Offers[r]]
  /\ UNCHANGED <<dirty, rewrites, recorded>>

\* INSERT ... ON CONFLICT DO NOTHING: a key already published keeps its row;
\* one being inserted by an open transaction would make the statement wait.
\* No load gets so far beside another: the first one's lock on the copy of the
\* source references stops the second before this, until it has ended.
AppendIndicators(r) ==
  /\ \A q \in Runs \ {r} : inserted[q] \cap Offers[r] = {}
  /\ Statement(r, "append_indicators", "drop_communes", NoRequest)
  /\ inserted' = [inserted EXCEPT
                    ![r] = {k \in Offers[r] : indicators[k] = NoRow}]
  /\ UNCHANGED <<dirty, rewrites, recorded>>

\* One upsert per dataset, always the same datasets: the table as a whole
\* describes load r, and no file is replaced.
UpsertSources(r) ==
  /\ Statement(r, "upsert_sources", "record_run",
               Request({}, {Live("source_reference")}))
  /\ Write(r, [x \in {Live("source_reference")} |-> r])
  /\ UNCHANGED <<rewrites, inserted, recorded>>

\* Mutant: only failures are recorded.
ForgetToRecordRun(r) ==
  /\ Statement(r, "record_run", "release_savepoint", NoRequest)
  /\ UNCHANGED <<dirty, rewrites, inserted, recorded>>

RecordRun(r) ==
  /\ Statement(r, "record_run", "release_savepoint", NoRequest)
  /\ recorded' = recorded \cup {r}
  /\ UNCHANGED <<dirty, rewrites, inserted>>

\* Leaving "with connection.transaction()": RELEASE SAVEPOINT, no COMMIT.
ReleaseSavepoint(r) ==
  /\ Statement(r, "release_savepoint", "unlock", NoRequest)
  /\ UNCHANGED <<dirty, rewrites, inserted, recorded>>

\* Mutant: the commune table is copied after it is replaced.
CommunesReplacedFirst(r) ==
  \/ DropPrevious(r, "source_reference", "drop_sources", "copy_sources")
  \/ CopyToPrevious(r, "source_reference", "copy_sources", "drop_establishments")
  \/ DropPrevious(r, "establishment", "drop_establishments", "copy_establishments")
  \/ CopyToPrevious(r, "establishment", "copy_establishments", "drop_sites")
  \/ DropPrevious(r, "site", "drop_sites", "copy_sites")
  \/ CopyToPrevious(r, "site", "copy_sites", "replace_establishments")
  \/ ReplaceLive(r, {"establishment", "site"}, "replace_establishments", "append_indicators")
  \/ AppendIndicators(r)
  \/ DropPrevious(r, "commune", "drop_communes", "replace_communes")
  \/ ReplaceLive(r, {"commune"}, "replace_communes", "copy_communes")
  \/ CopyToPrevious(r, "commune", "copy_communes", "upsert_sources")
  \/ UpsertSources(r)
  \/ RecordRun(r)
  \/ ReleaseSavepoint(r)

WriteStep(r) ==
  \/ DropPrevious(r, "source_reference", "drop_sources", "copy_sources")
  \/ CopyToPrevious(r, "source_reference", "copy_sources", "drop_establishments")
  \/ DropPrevious(r, "establishment", "drop_establishments", "copy_establishments")
  \/ CopyToPrevious(r, "establishment", "copy_establishments", "drop_sites")
  \/ DropPrevious(r, "site", "drop_sites", "copy_sites")
  \/ CopyToPrevious(r, "site", "copy_sites", "replace_establishments")
  \/ ReplaceLive(r, {"establishment", "site"}, "replace_establishments", "append_indicators")
  \/ AppendIndicators(r)
  \/ DropPrevious(r, "commune", "drop_communes", "copy_communes")
  \/ CopyToPrevious(r, "commune", "copy_communes", "replace_communes")
  \/ ReplaceLive(r, {"commune"}, "replace_communes", "upsert_sources")
  \/ UpsertSources(r)
  \/ RecordRun(r)
  \/ ReleaseSavepoint(r)

-----------------------------------------------------------------------------
(* Leaving the lock and the connection.                                    *)

\* pg_advisory_unlock, in the finally of ingestion_lock.
Unlock(r) ==
  /\ pc[r] = "unlock"
  /\ FreeAdvisory(r)
  /\ Goto(r, "commit")
  /\ UNCHANGED <<tableVars, fetched, inserted, recorded, indicators, audit, alerted>>

\* COMMIT, when psycopg.connect's context manager exits.
CommitRun(r) ==
  /\ Commit(r)
  /\ indicators' = [k \in Keys |-> IF k \in inserted[r] THEN r ELSE indicators[k]]
  /\ audit' = IF r \in recorded THEN audit \cup {AuditRow(r, TRUE)} ELSE audit
  /\ inserted' = [inserted EXCEPT ![r] = {}]
  /\ recorded' = recorded \ {r}
  /\ UNCHANGED <<advisory, fetched, alerted>>

Succeed(r) ==
  /\ pc[r] = "commit"
  /\ CommitRun(r)
  /\ Goto(r, "succeeded")

\* Mutant: the error handler encloses the connection, and so its COMMIT.
CommitUnheardIsHandled(r) ==
  /\ pc[r] = "commit"
  /\ CommitRun(r)
  /\ Goto(r, "audit")

\* The server commits and the connection drops before the client hears of it.
CommitUnheard(r) ==
  /\ pc[r] = "commit"
  /\ CommitRun(r)
  /\ Goto(r, "failed_outside_handler")

-----------------------------------------------------------------------------
(* Failure.                                                                *)

\* Mutant: the error leaves the transaction open, its locks held.
FailureLeaksTransaction(r) ==
  /\ pc[r] \in BlockPcs
  /\ Goto(r, "audit")
  /\ UNCHANGED <<tableVars, jobVars>>

\* A statement fails (a fetch, a full disk, a deadlock) on a connection that
\* lives on: the savepoint is rolled back, the advisory lock is kept.
StatementFails(r) ==
  /\ pc[r] \in BlockPcs
  /\ AbortRun(r)
  /\ Goto(r, "audit")
  /\ UNCHANGED advisory

\* CREATE TABLE finds the copy another transaction committed meanwhile.
CopyCollides(r) ==
  /\ \E n \in Names : RunRequest(r) = CopyRequest(n) /\ View(r, Previous(n)) # Absent
  /\ Grantable(r, RunRequest(r))
  /\ StatementFails(r)

\* The server drops the session, and with it the transaction and the lock.
\* Only inside the block is the error handled; in the handler the run goes on.
ConnectionLost(r) ==
  /\ pc[r] \notin EndPcs
  /\ AbortRun(r)
  /\ FreeAdvisory(r)
  /\ Goto(r, IF pc[r] \in BlockPcs THEN "audit"
             ELSE IF pc[r] \in HandlerPcs THEN pc[r]
             ELSE "failed_outside_handler")

\* The process is killed, or interrupted: KeyboardInterrupt passes every
\* "except Exception" and only the context managers clean up.
Crash(r) ==
  /\ pc[r] \notin EndPcs \cup {"idle"}
  /\ AbortRun(r)
  /\ FreeAdvisory(r)
  /\ Goto(r, "crashed")

\* A fresh connection records the failed attempt and commits it.
RecordFailure(r) ==
  /\ pc[r] = "audit"
  /\ audit' = audit \cup {AuditRow(r, FALSE)}
  /\ Goto(r, "alert")
  /\ UNCHANGED <<tableVars, advisory, fetched, inserted, recorded, indicators, alerted>>

\* Mutant: the alert goes out whether or not the failure was recorded.
AlertAnyway(r) ==
  /\ pc[r] = "audit"
  /\ Goto(r, "alert")
  /\ UNCHANGED <<tableVars, jobVars>>

\* That connection fails too: its error replaces the first, no alert is sent.
RecordFailureFails(r) ==
  /\ pc[r] = "audit"
  /\ Goto(r, "unlock_after_failure")
  /\ UNCHANGED <<tableVars, jobVars>>

\* send_ingestion_failure_alert never raises, delivered or not.
SendAlert(r) ==
  /\ pc[r] = "alert"
  /\ alerted' = alerted \cup {r}
  /\ Goto(r, "unlock_after_failure")
  /\ UNCHANGED <<tableVars, advisory, fetched, inserted, recorded, indicators, audit>>

\* The error leaves both context managers: unlock, rollback, close.
UnlockAfterFailure(r) ==
  /\ pc[r] = "unlock_after_failure"
  /\ FreeAdvisory(r)
  /\ Goto(r, "failed")
  /\ UNCHANGED <<tableVars, fetched, inserted, recorded, indicators, audit, alerted>>

HandleFailure(r) ==
  RecordFailure(r) \/ RecordFailureFails(r) \/ SendAlert(r) \/ UnlockAfterFailure(r)

\* What the running program does, faults apart.
RunProgress(r) ==
  \/ TryLock(r) \/ Decline(r) \/ FetchAndJudge(r)
  \/ WriteStep(r) \/ CopyCollides(r)
  \/ Unlock(r) \/ Succeed(r)
  \/ HandleFailure(r)

RunFault(r) ==
  StatementFails(r) \/ ConnectionLost(r) \/ CommitUnheard(r) \/ Crash(r)

RunStep(r) == Connect(r) \/ RunProgress(r) \/ RunFault(r)

JobInit ==
  /\ advisory = NoRun
  /\ fetched = [r \in Runs |-> NoExport]
  /\ inserted = [r \in Runs |-> {}]
  /\ recorded = {}
  /\ indicators \in [Keys -> {Seed, NoRow}]
  /\ audit = {}
  /\ alerted = {}

JobTypeOK ==
  /\ advisory \in Runs \cup {NoRun}
  /\ fetched \in [Runs -> Exports \cup {NoExport}]
  /\ inserted \in [Runs -> SUBSET Keys]
  /\ recorded \subseteq Runs
  /\ indicators \in [Keys -> Runs \cup {Seed, NoRow}]
  /\ audit \subseteq [run : Runs, succeeded : BOOLEAN]
  /\ alerted \subseteq Runs
=============================================================================
