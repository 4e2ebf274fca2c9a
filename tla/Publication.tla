---------------------------- MODULE Publication -----------------------------
(***************************************************************************)
(* The data store's writers together: loads (IngestionJob) and the CLI's   *)
(* --rollback (ingestion/__main__.py with the restore_previous methods of  *)
(* persistence/repositories.py).  A rollback takes no advisory lock: what  *)
(* keeps it and a load apart is the table locks alone, and PostgreSQL's    *)
(* deadlock detector when the two lock tables in opposite orders.          *)
(***************************************************************************)
EXTENDS IngestionJob

CONSTANT Rollbacks   \* invocations of --rollback

ASSUME RollbacksAssumption ==
  Rollbacks \subseteq Sessions /\ Rollbacks \cap Runs = {}

vars == <<tableVars, pc, jobVars>>

RestorePcs == {
  "check_establishments", "truncate_establishments",
  "restore_establishments", "restore_sites",
  "check_communes", "truncate_communes", "restore_communes",
  "check_sources", "truncate_sources", "restore_sources", "commit" }

RollbackPcs == {"idle", "succeeded", "failed", "crashed"} \cup RestorePcs

-----------------------------------------------------------------------------
(* main(["--rollback"]): one real transaction around three restores.       *)

StartRollback(b) ==
  /\ pc[b] = "idle"
  /\ Goto(b, "check_establishments")
  /\ UNCHANGED <<tableVars, jobVars>>

\* SELECT to_regclass(...): committed tables only, no lock, no wait.
CheckPrevious(b, names, at, after) ==
  /\ pc[b] = at
  /\ \A n \in names : db[Previous(n)] # Absent
  /\ Goto(b, after)
  /\ UNCHANGED <<tableVars, jobVars>>

TruncateLive(b, names, at, after) ==
  /\ Statement(b, at, after, Request({Live(n) : n \in names}, {}))
  /\ Write(b, [x \in {Live(n) : n \in names} |-> Empty])
  /\ rewrites' = [rewrites EXCEPT ![b] = @ \cup names]
  /\ UNCHANGED <<inserted, recorded>>

\* INSERT INTO n SELECT ... FROM n_previous
RestoreLive(b, n, at, after) ==
  /\ Statement(b, at, after, Request({}, {Previous(n)}))
  /\ Write(b, [x \in {Live(n)} |-> View(b, Previous(n))])
  /\ UNCHANGED <<rewrites, inserted, recorded>>

RestoreStep(b) ==
  \/ CheckPrevious(b, {"establishment", "site"}, "check_establishments", "truncate_establishments")
  \/ TruncateLive(b, {"establishment", "site"}, "truncate_establishments", "restore_establishments")
  \/ RestoreLive(b, "establishment", "restore_establishments", "restore_sites")
  \/ RestoreLive(b, "site", "restore_sites", "check_communes")
  \/ CheckPrevious(b, {"commune"}, "check_communes", "truncate_communes")
  \/ TruncateLive(b, {"commune"}, "truncate_communes", "restore_communes")
  \/ RestoreLive(b, "commune", "restore_communes", "check_sources")
  \/ CheckPrevious(b, {"source_reference"}, "check_sources", "truncate_sources")
  \/ TruncateLive(b, {"source_reference"}, "truncate_sources", "restore_sources")
  \/ RestoreLive(b, "source_reference", "restore_sources", "commit")

\* Mutant: a rollback is recorded in ingestion_run as if it were a load.
RecordRollback(b) ==
  /\ pc[b] = "commit"
  /\ Commit(b)
  /\ Goto(b, "succeeded")
  /\ audit' = audit \cup {AuditRow(b, TRUE)}
  /\ UNCHANGED <<advisory, fetched, inserted, recorded, indicators, alerted>>

CommitRollback(b) ==
  /\ pc[b] = "commit"
  /\ Commit(b)
  /\ Goto(b, "succeeded")
  /\ UNCHANGED jobVars

\* Mutant: the failed rollback's connection is never closed.
LeakedRollback(b, at) ==
  /\ pc[b] \in RestorePcs
  /\ Goto(b, at)
  /\ UNCHANGED <<tableVars, jobVars>>

EndRollback(b, at) ==
  /\ pc[b] \in RestorePcs
  /\ Abort(b)
  /\ Goto(b, at)
  /\ UNCHANGED jobVars

\* Mutant: what has no copy is skipped and the rest is restored.
RestoreTheRest(b) ==
  /\ pc[b] = "check_communes" /\ db[Previous("commune")] = Absent
  /\ Goto(b, "commit")
  /\ UNCHANGED <<tableVars, jobVars>>

\* RuntimeError: a copy to restore from does not exist.
NothingToRestore(b) ==
  /\ \/ pc[b] = "check_establishments" /\
          \E n \in {"establishment", "site"} : db[Previous(n)] = Absent
     \/ pc[b] = "check_communes" /\ db[Previous("commune")] = Absent
     \/ pc[b] = "check_sources" /\ db[Previous("source_reference")] = Absent
  /\ EndRollback(b, "failed")

\* A failed statement, a lost connection or a killed process.
RollbackFails(b) == EndRollback(b, "failed")
RollbackCrashes(b) == EndRollback(b, "crashed")

RollbackCommitUnheard(b) ==
  /\ pc[b] = "commit"
  /\ Commit(b)
  /\ Goto(b, "failed")
  /\ UNCHANGED jobVars

RollbackRequest(b) ==
  CASE pc[b] = "truncate_establishments" ->
         Request({Live("establishment"), Live("site")}, {})
    [] pc[b] = "restore_establishments" -> Request({}, {Previous("establishment")})
    [] pc[b] = "restore_sites"          -> Request({}, {Previous("site")})
    [] pc[b] = "truncate_communes"      -> Request({Live("commune")}, {})
    [] pc[b] = "restore_communes"       -> Request({}, {Previous("commune")})
    [] pc[b] = "truncate_sources"       -> Request({Live("source_reference")}, {})
    [] pc[b] = "restore_sources"        -> Request({}, {Previous("source_reference")})
    [] OTHER                            -> NoRequest

RollbackProgress(b) == RestoreStep(b) \/ CommitRollback(b) \/ NothingToRestore(b)

RollbackFault(b) ==
  RollbackFails(b) \/ RollbackCrashes(b) \/ RollbackCommitUnheard(b)

RollbackStep(b) == StartRollback(b) \/ RollbackProgress(b) \/ RollbackFault(b)

-----------------------------------------------------------------------------
(* Lock waits.                                                             *)

Writers == Runs \cup Rollbacks

Wanted(s) == IF s \in Runs THEN RunRequest(s) ELSE RollbackRequest(s)

WaitsFor(s, q) == WaitsOn(s, Wanted(s), q)

Deadlocked(s) == InWaitRing(s, Writers, WaitsFor)

\* PostgreSQL's deadlock detector fails the statement of one of them.
BreakDeadlock(s) ==
  /\ Deadlocked(s)
  /\ \/ s \in Runs /\ StatementFails(s)
     \/ s \in Rollbacks /\ RollbackFails(s)

-----------------------------------------------------------------------------
\* The copies that can be found at the start: none on a new database, those
\* of establishment and site where loads ran before the other copies existed,
\* or all of them.
Init ==
  /\ \E kept \in {{}, {"establishment", "site"}, Names} :
       db = [x \in Tables |->
               IF x[2] = "live" THEN Seed
               ELSE IF x[1] \in kept THEN Older ELSE Absent]
  /\ filenode = [n \in Names |-> NoSession]
  /\ dirty = [s \in Sessions |-> NothingDirty]
  /\ rewrites = [s \in Sessions |-> {}]
  /\ held = [s \in Sessions |-> NoLocks]
  /\ pc = [s \in Sessions |-> "idle"]
  /\ JobInit

Next ==
  \/ \E r \in Runs : RunStep(r)
  \/ \E b \in Rollbacks : RollbackStep(b)
  \/ \E s \in Writers : BreakDeadlock(s)

\* What started programs do, and the deadlock detector.
Progress ==
  \/ \E r \in Runs : RunProgress(r)
  \/ \E b \in Rollbacks : RollbackProgress(b)
  \/ \E s \in Writers : BreakDeadlock(s)

\* While somebody who has started can go on, somebody does; nobody is obliged
\* to start, and faults are never obliged to happen.
Fairness == WF_vars(Progress)

Spec == Init /\ [][Next]_vars

FairSpec == Spec /\ Fairness

-----------------------------------------------------------------------------
(* Properties.                                                             *)

\* Every variable holds a value of its type.
TypeOK ==
  /\ TablesTypeOK
  /\ JobTypeOK
  /\ pc \in [Sessions -> RunPcs \cup RollbackPcs]

Shown(r) ==
  \/ \E x \in Tables : db[x] = r
  \/ \E k \in Keys : indicators[k] = r

\* No load is visible, live or in a copy or through a single indicator row,
\* without a successful ingestion_run row (job.py:86-95).
ShownLoadsAreOnRecord ==
  \A r \in Runs : Shown(r) => AuditRow(r, TRUE) \in audit

\* A run is never recorded both as a success and as a failure, although the
\* two rows are written by different connections (job.py:93-107).
OneVerdictPerRun ==
  \A r \in Runs : ~({AuditRow(r, TRUE), AuditRow(r, FALSE)} \subseteq audit)

\* The notice says "No data was published": it is only ever sent by a run
\* that published nothing, then or later, and whose failure is already on
\* record (alerts.py:62, job.py:106-115).
AlertsAreTruthful ==
  \A r \in alerted : AuditRow(r, FALSE) \in audit /\ ~Shown(r)

\* Whatever loads and rollbacks interleave, fail or die, the four live tables
\* always show one and the same load, and the copies that exist another.
GenerationsAgree ==
  /\ \A m, n \in Names : db[Live(m)] = db[Live(n)]
  /\ \A m, n \in Names : \/ Absent \in {db[Previous(m)], db[Previous(n)]}
                         \/ db[Previous(m)] = db[Previous(n)]

\* Between the moment an open load copies a table and its commit nobody can
\* change the table, and so for what an open rollback restores: the table
\* locks keep "previous" exact even where the advisory lock does not.
CopiesStayExact ==
  /\ \A r \in Runs, n \in Names :
       dirty[r][Previous(n)] \in Contents =>
         dirty[r][Previous(n)] = db[Live(n)]
  /\ \A b \in Rollbacks, n \in Names :
       dirty[b][Live(n)] \in Contents \ {Empty} =>
         dirty[b][Live(n)] = db[Previous(n)]

\* What the floors ask of an export, whatever the program makes of them; one
\* without indicators matches none ("if indicators else 0.0").
ReachesEveryFloor(e) ==
  /\ e.establishments >= MinEstablishments
  /\ e.indicators >= MinIndicators
  /\ e.communes >= MinCommunes
  /\ 100 * e.matched >= MinMatchPercent * e.indicators
  /\ e.indicators = 0 => MinMatchPercent <= 0

\* "A genuinely broken export cannot pass" (ingest_public_data.py:42-43): a
\* load that shows, live or in a copy, came from an export which reaches every
\* floor, at the floor itself too.
ShownLoadsPassedGates ==
  \A r \in Runs : Shown(r) => fetched[r] # NoExport /\ ReachesEveryFloor(fetched[r])

\* The ingestion lock never outlives the run that took it, however it ends
\* (locking.py:27-30, 53-57).
LockDiesWithItsRun == advisory # NoRun => pc[advisory] \notin EndPcs

\* A published indicator row is never rewritten or removed (repositories.py:
\* 171-174), by a later load or by a rollback.
IndicatorRowsAreFinal ==
  [][\A k \in Keys : indicators[k] # NoRow => indicators'[k] = indicators[k]]_vars

\* The promise the four repositories, the job and the rollback keep together.
Promise ==
  INSTANCE AtomicPublication WITH
    live <- [n \in Names |-> db[Live(n)]],
    previous <- [n \in Names |-> db[Previous(n)]],
    succeeded <- {r \in Runs : AuditRow(r, TRUE) \in audit}

\* Every load is published, and every rollback applied, at one instant or not
\* at all: statements, locks, savepoints and failures implement the promise.
KeepsPromise == Promise!Spec

\* A program that has started ends: what a load and a rollback, or two open
\* loads, wait for each other is finite, and the deadlock of a load, which
\* holds the copies, with a rollback, which holds the live tables, is broken.
EveryProgramEnds ==
  \A s \in Writers : pc[s] # "idle" ~>
    pc[s] \in {"succeeded", "declined", "failed", "failed_outside_handler", "crashed"}

-----------------------------------------------------------------------------
(* What the documentation says and the code does not do.                   *)

Underway(r) == pc[r] \in BlockPcs \cup {"unlock", "commit"}

\* "Overlapping runs are refused" (job.py:49, deployment-notes.md:111-115):
\* no load starts while another still has its data uncommitted.
OverlappingRunsAreRefused ==
  \A r, q \in Runs : Underway(r) /\ Underway(q) => r = q
=============================================================================
