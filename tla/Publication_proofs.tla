------------------------- MODULE Publication_proofs -------------------------
(* Theorems about the writers of the data store, for any set of loads and  *)
(* rollbacks, any export and any floors.                                   *)
EXTENDS Publication, PostgresTables_proofs

-----------------------------------------------------------------------------
(* Type correctness.                                                       *)

\* Moving a session to a place in some program keeps pc well typed.
LEMMA GotoType ==
  ASSUME pc \in [Sessions -> RunPcs \cup RollbackPcs],
         NEW s \in Sessions, NEW at \in RunPcs \cup RollbackPcs, Goto(s, at)
  PROVE  pc' \in [Sessions -> RunPcs \cup RollbackPcs]
BY DEF Goto

\* What a statement does apart from its effect on the rows.
LEMMA StatementType ==
  ASSUME TypeOK, NEW s \in Sessions, NEW at, NEW after \in RunPcs \cup RollbackPcs,
         NEW req, Statement(s, at, after, req)
  PROVE  /\ db' \in [Tables -> Contents \cup {Absent}]
         /\ filenode' \in [Names -> Sessions \cup {NoSession}]
         /\ held' \in [Sessions -> [Tables -> Modes]]
         /\ pc' \in [Sessions -> RunPcs \cup RollbackPcs]
         /\ UNCHANGED <<advisory, fetched, indicators, audit, alerted>>
<1>1. held' \in [Sessions -> [Tables -> Modes]]
  BY GrantType DEF TypeOK, Statement
<1>2. pc' \in [Sessions -> RunPcs \cup RollbackPcs]
  BY GotoType DEF TypeOK, Statement
<1> QED
  BY <1>1, <1>2 DEF TypeOK, TablesTypeOK, Statement

\* A statement that writes rows and, for TRUNCATE, replaces files.
LEMMA WritingStatementType ==
  ASSUME TypeOK, NEW s \in Sessions, NEW at, NEW after \in RunPcs \cup RollbackPcs,
         NEW req, Statement(s, at, after, req),
         NEW changes, Write(s, changes),
         \A x \in DOMAIN changes : changes[x] \in Contents \cup {Untouched, Absent},
         NEW names \in SUBSET Names,
         rewrites' = rewrites \/ rewrites' = [rewrites EXCEPT ![s] = @ \cup names],
         UNCHANGED <<inserted, recorded>>
  PROVE  TypeOK'
<1>1. dirty' \in [Sessions -> [Tables -> Contents \cup {Untouched, Absent}]]
  BY WriteType DEF TypeOK
<1>2. rewrites' \in [Sessions -> SUBSET Names]
  BY DEF TypeOK, TablesTypeOK
<1>3. TablesTypeOK'
  BY <1>1, <1>2, StatementType DEF TablesTypeOK
<1>4. JobTypeOK'
  BY StatementType DEF TypeOK, JobTypeOK
<1> QED
  BY <1>3, <1>4, StatementType DEF TypeOK

\* Dropping a copy keeps every type.
LEMMA DropPreviousType ==
  ASSUME TypeOK, NEW r \in Runs, NEW n \in Names, NEW at,
         NEW after \in RunPcs, DropPrevious(r, n, at, after)
  PROVE  TypeOK'
BY RunsAssumption, WritingStatementType DEF DropPrevious

\* Copying a live table keeps every type.
LEMMA CopyToPreviousType ==
  ASSUME TypeOK, NEW r \in Runs, NEW n \in Names, NEW at,
         NEW after \in RunPcs, CopyToPrevious(r, n, at, after)
  PROVE  TypeOK'
<1>1. View(r, Live(n)) \in Contents \cup {Absent}
  BY RunsAssumption, ViewType DEF TypeOK, Live, Tables
<1> QED
  BY <1>1, RunsAssumption, WritingStatementType DEF CopyToPrevious

\* Truncating and refilling live tables keeps every type.
LEMMA ReplaceLiveType ==
  ASSUME TypeOK, NEW r \in Runs, NEW names \in SUBSET Names, NEW at,
         NEW after \in RunPcs, ReplaceLive(r, names, at, after)
  PROVE  TypeOK'
BY RunsAssumption, WritingStatementType DEF ReplaceLive

\* A rollback's TRUNCATE keeps every type.
LEMMA TruncateLiveType ==
  ASSUME TypeOK, NEW b \in Rollbacks, NEW names \in SUBSET Names, NEW at,
         NEW after \in RollbackPcs, TruncateLive(b, names, at, after)
  PROVE  TypeOK'
BY RollbacksAssumption, ContentsAssumption, WritingStatementType DEF TruncateLive

\* Refilling a live table from its copy keeps every type.
LEMMA RestoreLiveType ==
  ASSUME TypeOK, NEW b \in Rollbacks, NEW n \in Names, NEW at,
         NEW after \in RollbackPcs, RestoreLive(b, n, at, after)
  PROVE  TypeOK'
<1>1. View(b, Previous(n)) \in Contents \cup {Absent}
  BY RollbacksAssumption, ViewType DEF TypeOK, Previous, Tables
<1> QED
  BY <1>1, RollbacksAssumption, WritingStatementType DEF RestoreLive

\* Every statement of a load keeps every type.
LEMMA WriteStepType ==
  ASSUME TypeOK, NEW r \in Runs, WriteStep(r)
  PROVE  TypeOK'
<1>1. /\ {"drop_sources", "copy_sources", "drop_establishments", "copy_establishments",
          "drop_sites", "copy_sites", "replace_establishments",
          "append_indicators", "drop_communes", "copy_communes",
          "replace_communes", "upsert_sources", "record_run",
          "release_savepoint", "unlock"} \subseteq RunPcs
      /\ r \in Sessions /\ r \in Contents
  BY RunsAssumption DEF RunPcs, BlockPcs, WritePcs
<1>2. CASE \E n \in Names, at, after \in RunPcs : DropPrevious(r, n, at, after)
  BY <1>2, DropPreviousType
<1>3. CASE \E n \in Names, at, after \in RunPcs : CopyToPrevious(r, n, at, after)
  BY <1>3, CopyToPreviousType
<1>4. CASE \E names \in SUBSET Names, at, after \in RunPcs :
             ReplaceLive(r, names, at, after)
  BY <1>4, ReplaceLiveType
<1>5. CASE AppendIndicators(r)
  <2>1. TablesTypeOK'
    BY <1>1, <1>5, StatementType DEF AppendIndicators, TypeOK, TablesTypeOK
  <2>2. inserted' \in [Runs -> SUBSET Keys]
    BY <1>5, RunsAssumption DEF AppendIndicators, TypeOK, JobTypeOK
  <2>3. JobTypeOK'
    BY <1>1, <1>5, <2>2, StatementType DEF AppendIndicators, TypeOK, JobTypeOK
  <2> QED
    BY <1>1, <1>5, <2>1, <2>3, StatementType DEF AppendIndicators, TypeOK
<1>6. CASE UpsertSources(r)
  BY <1>1, <1>6, WritingStatementType DEF UpsertSources
<1>7. CASE RecordRun(r) \/ ReleaseSavepoint(r)
  <2>1. \E after \in RunPcs : \E at : Statement(r, at, after, NoRequest)
    BY <1>1, <1>7 DEF RecordRun, ReleaseSavepoint
  <2>2. TablesTypeOK'
    BY <1>1, <1>7, <2>1, StatementType
       DEF RecordRun, ReleaseSavepoint, TypeOK, TablesTypeOK
  <2>3. JobTypeOK'
    BY <1>1, <1>7, <2>1, StatementType
       DEF RecordRun, ReleaseSavepoint, TypeOK, JobTypeOK
  <2> QED
    BY <1>1, <2>1, <2>2, <2>3, StatementType DEF TypeOK
<1>8. "establishment" \in Names /\ "site" \in Names /\ "commune" \in Names
      /\ "source_reference" \in Names
  BY DEF Names
<1>9. {"establishment", "site"} \in SUBSET Names /\ {"commune"} \in SUBSET Names
  BY <1>8
<1> QED
  BY <1>1, <1>2, <1>3, <1>4, <1>5, <1>6, <1>7, <1>8, <1>9, Zenon DEF WriteStep

\* Losing a load's transaction, wherever the program goes next.
LEMMA AbortRunType ==
  ASSUME TypeOK, NEW r \in Runs, AbortRun(r),
         advisory' = advisory \/ FreeAdvisory(r),
         NEW at \in RunPcs, Goto(r, at)
  PROVE  TypeOK'
<1>1. r \in Sessions
  BY RunsAssumption
<1>2. TablesTypeOK'
  BY <1>1, AbortType DEF TypeOK, AbortRun
<1>3. JobTypeOK'
  BY DEF TypeOK, JobTypeOK, AbortRun, FreeAdvisory
<1> QED
  BY <1>1, <1>2, <1>3, GotoType DEF TypeOK

\* Committing it, heard or not.
LEMMA CommitRunType ==
  ASSUME TypeOK, NEW r \in Runs, CommitRun(r), NEW at \in RunPcs, Goto(r, at)
  PROVE  TypeOK'
<1>1. r \in Sessions
  BY RunsAssumption
<1>2. TablesTypeOK'
  BY <1>1, CommitType DEF TypeOK, CommitRun
<1>3. AuditRow(r, TRUE) \in [run : Runs, succeeded : BOOLEAN]
  BY DEF AuditRow
<1>4. audit' \subseteq [run : Runs, succeeded : BOOLEAN]
  BY <1>3 DEF TypeOK, JobTypeOK, CommitRun
<1>5. indicators' \in [Keys -> Runs \cup {Seed, NoRow}]
  BY DEF TypeOK, JobTypeOK, CommitRun
<1>6. JobTypeOK'
  BY <1>4, <1>5 DEF TypeOK, JobTypeOK, CommitRun
<1> QED
  BY <1>1, <1>2, <1>6, GotoType DEF TypeOK

\* The steps of a load that neither write a table nor end its transaction.
QuietStep(r) ==
  \/ Connect(r) \/ TryLock(r) \/ Decline(r) \/ FetchAndJudge(r)
  \/ Unlock(r) \/ HandleFailure(r)

\* The steps of a load that end its transaction, or lose it.
EndingStep(r) ==
  \/ Succeed(r) \/ CommitUnheard(r)
  \/ StatementFails(r) \/ ConnectionLost(r) \/ Crash(r)

\* A load's step is a statement, a quiet step or an end: a collision of
\* copies is one more failed statement.
LEMMA RunStepKinds ==
  ASSUME NEW r \in Runs, RunStep(r)
  PROVE  WriteStep(r) \/ QuietStep(r) \/ EndingStep(r)
BY DEF RunStep, RunProgress, RunFault, QuietStep, EndingStep, CopyCollides

\* The steps of a load that write no table keep every type.
LEMMA QuietStepType ==
  ASSUME TypeOK, NEW r \in Runs, QuietStep(r)
  PROVE  TypeOK'
<1>1. r \in Sessions
  BY RunsAssumption
<1>2. TablesTypeOK'
  <2>1. UNCHANGED tableVars
    BY DEF QuietStep, Connect, TryLock, Decline, FetchAndJudge, Unlock,
           HandleFailure, RecordFailure, RecordFailureFails, SendAlert,
           UnlockAfterFailure
  <2> QED
    BY <2>1 DEF TypeOK, TablesTypeOK, tableVars
<1>3. \E at \in RunPcs : Goto(r, at)
  BY DEF QuietStep, Connect, TryLock, Decline, FetchAndJudge, Unlock,
         HandleFailure, RecordFailure, RecordFailureFails, SendAlert,
         UnlockAfterFailure, RunPcs, BlockPcs, WritePcs, HandlerPcs, EndPcs
<1>4. pc' \in [Sessions -> RunPcs \cup RollbackPcs]
  BY <1>1, <1>3, GotoType DEF TypeOK
<1>5. JobTypeOK'
  <2>1. CASE FetchAndJudge(r)
    BY <2>1 DEF FetchAndJudge, TypeOK, JobTypeOK
  <2>2. CASE RecordFailure(r)
    <3>1. AuditRow(r, FALSE) \in [run : Runs, succeeded : BOOLEAN]
      BY DEF AuditRow
    <3> QED
      BY <2>2, <3>1 DEF RecordFailure, TypeOK, JobTypeOK
  <2>3. CASE Connect(r) \/ Decline(r) \/ RecordFailureFails(r)
    BY <2>3 DEF Connect, Decline, RecordFailureFails, TypeOK, JobTypeOK, jobVars
  <2>4. CASE TryLock(r) \/ Unlock(r) \/ UnlockAfterFailure(r)
    BY <2>4 DEF TryLock, Unlock, UnlockAfterFailure, FreeAdvisory, TypeOK, JobTypeOK
  <2>5. CASE SendAlert(r)
    BY <2>5 DEF SendAlert, TypeOK, JobTypeOK
  <2> QED
    BY <2>1, <2>2, <2>3, <2>4, <2>5 DEF QuietStep, HandleFailure
<1> QED
  BY <1>2, <1>4, <1>5 DEF TypeOK

\* The steps that end a load's transaction keep every type.
LEMMA EndingStepType ==
  ASSUME TypeOK, NEW r \in Runs, EndingStep(r)
  PROVE  TypeOK'
<1>1. pc[r] \in HandlerPcs => pc[r] \in RunPcs
  BY DEF RunPcs
<1>2. {"succeeded", "failed_outside_handler", "audit", "crashed"} \subseteq RunPcs
  BY DEF RunPcs, HandlerPcs, EndPcs
<1>3. CASE Succeed(r) \/ CommitUnheard(r)
  BY <1>2, <1>3, CommitRunType DEF Succeed, CommitUnheard
<1>4. CASE StatementFails(r) \/ ConnectionLost(r) \/ Crash(r)
  BY <1>1, <1>2, <1>4, AbortRunType DEF StatementFails, ConnectionLost, Crash
<1> QED
  BY <1>3, <1>4 DEF EndingStep

\* Every step of a rollback keeps every type.
LEMMA RollbackStepType ==
  ASSUME TypeOK, NEW b \in Rollbacks, RollbackStep(b)
  PROVE  TypeOK'
<1>1. b \in Sessions
  BY RollbacksAssumption
<1>2. RestorePcs \cup {"succeeded", "failed", "crashed"} \subseteq RollbackPcs
  BY DEF RollbackPcs
<1>3. "establishment" \in Names /\ "site" \in Names /\ "commune" \in Names
      /\ "source_reference" \in Names
  BY DEF Names
<1>4. {"establishment", "site"} \in SUBSET Names /\ {"commune"} \in SUBSET Names
      /\ {"source_reference"} \in SUBSET Names
  BY <1>3
<1>5. CASE StartRollback(b) \/ \E names, at : \E after \in RollbackPcs :
             CheckPrevious(b, names, at, after)
  <2>1. \E at \in RollbackPcs : Goto(b, at)
    BY <1>2, <1>5 DEF StartRollback, CheckPrevious, RestorePcs
  <2>2. pc' \in [Sessions -> RunPcs \cup RollbackPcs]
    BY <1>1, <2>1, GotoType DEF TypeOK
  <2> QED
    BY <1>5, <2>2 DEF StartRollback, CheckPrevious, TypeOK, TablesTypeOK,
                      JobTypeOK, tableVars, jobVars
<1>6. CASE \E names \in SUBSET Names, after \in RollbackPcs : \E at :
             TruncateLive(b, names, at, after)
  BY <1>6, TruncateLiveType
<1>7. CASE \E n \in Names, after \in RollbackPcs : \E at :
             RestoreLive(b, n, at, after)
  BY <1>7, RestoreLiveType
<1>8. CASE CommitRollback(b) \/ RollbackCommitUnheard(b)
  <2>1. TablesTypeOK'
    BY <1>1, <1>8, CommitType DEF CommitRollback, RollbackCommitUnheard, TypeOK
  <2>2. pc' \in [Sessions -> RunPcs \cup RollbackPcs]
    BY <1>1, <1>2, <1>8, GotoType DEF CommitRollback, RollbackCommitUnheard, TypeOK
  <2> QED
    BY <1>8, <2>1, <2>2
       DEF CommitRollback, RollbackCommitUnheard, TypeOK, JobTypeOK, jobVars
<1>9. CASE \E at \in {"failed", "crashed"} : EndRollback(b, at)
  <2>1. TablesTypeOK'
    BY <1>1, <1>9, AbortType DEF EndRollback, TypeOK
  <2>2. pc' \in [Sessions -> RunPcs \cup RollbackPcs]
    BY <1>1, <1>2, <1>9, GotoType DEF EndRollback, TypeOK
  <2> QED
    BY <1>9, <2>1, <2>2 DEF EndRollback, TypeOK, JobTypeOK, jobVars
<1>10. {"restore_establishments", "restore_sites", "check_communes",
        "truncate_establishments", "truncate_communes", "restore_communes",
        "check_sources", "truncate_sources", "restore_sources", "commit"}
         \subseteq RollbackPcs
  BY DEF RollbackPcs, RestorePcs
<1>11. RestoreStep(b) => TypeOK'
  BY <1>3, <1>4, <1>5, <1>6, <1>7, <1>10, Zenon DEF RestoreStep
<1>12. NothingToRestore(b) \/ RollbackFails(b) \/ RollbackCrashes(b) => TypeOK'
  BY <1>9 DEF NothingToRestore, RollbackFails, RollbackCrashes
<1> QED
  BY <1>5, <1>8, <1>11, <1>12 DEF RollbackStep, RollbackProgress, RollbackFault

\* A broken deadlock is a failed statement of its victim.
LEMMA NextKinds ==
  ASSUME Next
  PROVE  \/ \E r \in Runs : WriteStep(r) \/ QuietStep(r) \/ EndingStep(r)
         \/ \E b \in Rollbacks : RollbackStep(b)
<1>1. ASSUME NEW s \in Writers, BreakDeadlock(s)
      PROVE  \/ s \in Runs /\ EndingStep(s)
             \/ s \in Rollbacks /\ RollbackStep(s)
  BY <1>1 DEF BreakDeadlock, EndingStep, RollbackStep, RollbackFault
<1> QED
  BY <1>1, RunStepKinds DEF Next, Writers

\* The initial states are well typed.
LEMMA InitType ==
  ASSUME Init
  PROVE  TypeOK
<1>1. db \in [Tables -> Contents \cup {Absent}]
  BY RunsAssumption DEF Init
<1>2. NothingDirty \in [Tables -> Contents \cup {Untouched, Absent}]
  BY DEF NothingDirty
<1>3. NoLocks \in [Tables -> Modes]
  BY DEF NoLocks, Modes
<1>4. TablesTypeOK
  BY <1>1, <1>2, <1>3 DEF Init, TablesTypeOK
<1>5. JobTypeOK
  BY DEF Init, JobInit, JobTypeOK
<1> QED
  BY <1>4, <1>5 DEF Init, TypeOK, RunPcs

\* Every step keeps every type.
LEMMA NextType ==
  ASSUME TypeOK, [Next]_vars
  PROVE  TypeOK'
<1>1. CASE UNCHANGED vars
  BY <1>1 DEF vars, tableVars, jobVars, TypeOK, TablesTypeOK, JobTypeOK
<1>2. CASE Next
  BY <1>2, NextKinds, WriteStepType, QuietStepType, EndingStepType,
     RollbackStepType
<1> QED
  BY <1>1, <1>2

\* Every variable keeps to its type, whatever the number of loads and
\* rollbacks and whatever the exports.
THEOREM TypeCorrect == Spec => []TypeOK
BY InitType, NextType, PTL DEF Spec

-----------------------------------------------------------------------------
(* Records: which loads show, and what the ingestion_run table says of     *)
(* them.  None of the properties is inductive alone.  A load's rows reach  *)
(* the tables through its own uncommitted writes, or through a copy some   *)
(* other session made of rows already committed; and a commit is only      *)
(* reached with the success row among what it commits.                     *)

OnRecord(r) == AuditRow(r, TRUE) \in audit
FailureOnRecord(r) == AuditRow(r, FALSE) \in audit

\* Between its success row and its commit, a load carries the row with it.
CarriesItsRecord ==
  \A r \in Runs :
    r \in recorded <=> pc[r] \in {"release_savepoint", "unlock", "commit"}

\* A success is on record only of a load past its commit, a failure only of
\* one in its handler or past it.
RecordsMatchPrograms ==
  \A r \in Runs :
    /\ OnRecord(r) => pc[r] \in {"succeeded", "failed_outside_handler"}
    /\ FailureOnRecord(r) =>
         pc[r] \in {"alert", "unlock_after_failure", "failed", "crashed"}
    /\ pc[r] = "alert" \/ r \in alerted => FailureOnRecord(r)

\* A load that writes, or has committed, works from an export that passed.
WritersPassedGates ==
  \A r \in Runs :
    \/ pc[r] \in WritePcs \cup {"release_savepoint", "unlock", "commit"}
    \/ OnRecord(r)
    => fetched[r] # NoExport /\ PassesGates(fetched[r])

\* Only the load itself writes its rows before they are committed.
OthersCopyCommittedLoads ==
  \A s \in Sessions, x \in Tables, r \in Runs :
    dirty[s][x] = r => s = r \/ OnRecord(r)

LockIsHeldWithinTheRun ==
  \A r \in Runs :
    advisory = r => pc[r] \in BlockPcs \cup HandlerPcs \cup {"unlock"}

RecordInv ==
  /\ CarriesItsRecord
  /\ RecordsMatchPrograms
  /\ WritersPassedGates
  /\ OthersCopyCommittedLoads
  /\ LockIsHeldWithinTheRun
  /\ ShownLoadsAreOnRecord

\* The two kinds of rows are different rows, and rows of different loads are.
LEMMA AuditRows ==
  ASSUME NEW r, NEW q, NEW a, NEW b, AuditRow(r, a) = AuditRow(q, b)
  PROVE  r = q /\ a = b
<1>1. AuditRow(r, a).run = r /\ AuditRow(r, a).succeeded = a
  BY DEF AuditRow
<1>2. AuditRow(q, b).run = q /\ AuditRow(q, b).succeeded = b
  BY DEF AuditRow
<1> QED
  BY <1>1, <1>2

\* The writes of one statement of s: nobody else's rows, and in its own only
\* nothing, an emptied table, the load it publishes, or what it reads.
WritesItsRows(s) ==
  /\ \A q \in Sessions \ {s} : dirty'[q] = dirty[q]
  /\ \A x \in Tables :
       dirty'[s][x] \in {dirty[s][x], Absent, Empty, s}
                        \cup {View(s, y) : y \in Tables}

\* The step of a statement at "at", all that RecordInv needs to know of it.
Advances(s, at, after) ==
  /\ pc[s] = at
  /\ Goto(s, after)
  /\ WritesItsRows(s)
  /\ UNCHANGED <<db, filenode, advisory, fetched, indicators, audit, alerted>>

\* A write whose rows are the writer's own, or copied from what it sees.
LEMMA WriteIsOwn ==
  ASSUME TypeOK, NEW s \in Sessions, NEW changes, Write(s, changes),
         \A x \in DOMAIN changes :
           changes[x] \in {Absent, Empty, s} \cup {View(s, y) : y \in Tables}
  PROVE  WritesItsRows(s)
BY DEF WritesItsRows, Write, TypeOK, TablesTypeOK

\* A step that leaves dirty alone writes no foreign row.
LEMMA NoWriteIsOwn ==
  ASSUME UNCHANGED dirty, NEW s
  PROVE  WritesItsRows(s)
BY DEF WritesItsRows

\* What all statements of a load have in common, besides the audit row.
LEMMA WriteStepShape ==
  ASSUME TypeOK, NEW r \in Runs, WriteStep(r)
  PROVE  \/ /\ \E at \in WritePcs \ {"record_run"}, after \in WritePcs :
                 Advances(r, at, after)
            /\ UNCHANGED recorded
         \/ /\ Advances(r, "record_run", "release_savepoint")
            /\ recorded' = recorded \cup {r}
         \/ /\ Advances(r, "release_savepoint", "unlock")
            /\ UNCHANGED recorded
<1>1. r \in Sessions
  BY RunsAssumption
<1>2. ASSUME NEW n \in Names, NEW at, NEW after, DropPrevious(r, n, at, after)
      PROVE  Advances(r, at, after) /\ UNCHANGED recorded
  BY <1>1, <1>2, WriteIsOwn DEF DropPrevious, Statement, Advances
<1>3. ASSUME NEW n \in Names, NEW at, NEW after, CopyToPrevious(r, n, at, after)
      PROVE  Advances(r, at, after) /\ UNCHANGED recorded
  <2>1. Live(n) \in Tables
    BY DEF Live, Tables
  <2> QED
    BY <1>1, <1>3, <2>1, WriteIsOwn DEF CopyToPrevious, Statement, Advances
<1>4. ASSUME NEW names, NEW at, NEW after, ReplaceLive(r, names, at, after)
      PROVE  Advances(r, at, after) /\ UNCHANGED recorded
  BY <1>1, <1>4, WriteIsOwn DEF ReplaceLive, Statement, Advances
<1>5. ASSUME AppendIndicators(r)
      PROVE  Advances(r, "append_indicators", "drop_communes") /\ UNCHANGED recorded
  BY <1>5, NoWriteIsOwn DEF AppendIndicators, Statement, Advances
<1>6. ASSUME UpsertSources(r)
      PROVE  Advances(r, "upsert_sources", "record_run") /\ UNCHANGED recorded
  BY <1>1, <1>6, WriteIsOwn DEF UpsertSources, Statement, Advances
<1>7. ASSUME RecordRun(r)
      PROVE  /\ Advances(r, "record_run", "release_savepoint")
             /\ recorded' = recorded \cup {r}
  BY <1>7, NoWriteIsOwn DEF RecordRun, Statement, Advances
<1>8. ASSUME ReleaseSavepoint(r)
      PROVE  Advances(r, "release_savepoint", "unlock") /\ UNCHANGED recorded
  BY <1>8, NoWriteIsOwn DEF ReleaseSavepoint, Statement, Advances
<1>9. "establishment" \in Names /\ "site" \in Names /\ "commune" \in Names
      /\ "source_reference" \in Names
  BY DEF Names
<1>10. ASSUME NEW at \in WritePcs \ {"record_run"}, NEW after \in WritePcs,
              \/ \E n \in Names : DropPrevious(r, n, at, after)
              \/ \E n \in Names : CopyToPrevious(r, n, at, after)
              \/ \E names : ReplaceLive(r, names, at, after)
       PROVE  /\ \E a \in WritePcs \ {"record_run"}, b \in WritePcs :
                   Advances(r, a, b)
              /\ UNCHANGED recorded
  BY <1>2, <1>3, <1>4, <1>10
<1>11. /\ "drop_sources" \in WritePcs \ {"record_run"}
       /\ "copy_sources" \in WritePcs \ {"record_run"}
       /\ "drop_establishments" \in WritePcs \ {"record_run"}
       /\ "copy_establishments" \in WritePcs \ {"record_run"}
       /\ "drop_sites" \in WritePcs \ {"record_run"}
       /\ "copy_sites" \in WritePcs \ {"record_run"}
       /\ "replace_establishments" \in WritePcs \ {"record_run"}
       /\ "append_indicators" \in WritePcs \ {"record_run"}
       /\ "drop_communes" \in WritePcs \ {"record_run"}
       /\ "copy_communes" \in WritePcs \ {"record_run"}
       /\ "replace_communes" \in WritePcs \ {"record_run"}
       /\ "upsert_sources" \in WritePcs \ {"record_run"}
       /\ "record_run" \in WritePcs
       /\ \A at \in WritePcs \ {"record_run"} : at \in WritePcs
  BY DEF WritePcs
<1>12. CASE AppendIndicators(r) \/ UpsertSources(r)
  BY <1>5, <1>6, <1>11, <1>12
<1>13. CASE RecordRun(r) \/ ReleaseSavepoint(r)
  BY <1>7, <1>8, <1>13
<1> QED
  BY <1>9, <1>10, <1>11, <1>12, <1>13, Zenon DEF WriteStep

\* A commit is the only way to the committed rows.
LEMMA AdvancesRecordInv ==
  ASSUME TypeOK, RecordInv, NEW r \in Runs, WriteStep(r)
  PROVE  RecordInv'
<1>1. r \in Sessions /\ r \in Contents /\ Runs \subseteq Sessions
  BY RunsAssumption
<1>2. PICK at \in WritePcs \cup {"release_savepoint"},
           after \in WritePcs \cup {"release_savepoint", "unlock"} :
        /\ Advances(r, at, after)
        /\ recorded' = IF at = "record_run" THEN recorded \cup {r} ELSE recorded
        /\ at = "record_run" <=> after = "release_savepoint"
        /\ at = "release_savepoint" <=> after = "unlock"
  BY WriteStepShape DEF WritePcs
<1>3. pc[r] = at /\ pc' = [pc EXCEPT ![r] = after]
  BY <1>2 DEF Advances, Goto
<1>4. UNCHANGED <<db, advisory, fetched, indicators, audit, alerted>>
  BY <1>2 DEF Advances
<1>5. /\ at \notin {"unlock", "commit"} \cup HandlerPcs \cup EndPcs
      /\ after \notin {"commit"} \cup HandlerPcs \cup EndPcs
      /\ after \in BlockPcs \cup {"unlock"}
  BY DEF WritePcs, HandlerPcs, EndPcs, BlockPcs
<1>6. CarriesItsRecord'
  BY <1>1, <1>2, <1>3, <1>5 DEF RecordInv, CarriesItsRecord, TypeOK
<1>7. RecordsMatchPrograms'
  BY <1>1, <1>3, <1>4, <1>5
     DEF RecordInv, RecordsMatchPrograms, OnRecord, FailureOnRecord, TypeOK,
         HandlerPcs, EndPcs
<1>8. WritersPassedGates'
  BY <1>1, <1>3, <1>4, <1>5
     DEF RecordInv, WritersPassedGates, OnRecord, TypeOK
<1>9. OthersCopyCommittedLoads'
  <2> SUFFICES ASSUME NEW s \in Sessions, NEW x \in Tables, NEW q \in Runs,
                      dirty'[s][x] = q
               PROVE  s = q \/ OnRecord(q)
    BY <1>4 DEF OthersCopyCommittedLoads, OnRecord
  <2>1. CASE s # r
    BY <1>2, <2>1 DEF Advances, WritesItsRows, RecordInv, OthersCopyCommittedLoads
  <2>2. CASE s = r
    <3>1. q # Absent /\ q # Empty
      BY RunsAssumption, ContentsAssumption
    <3>2. q \in {dirty[r][x], r} \cup {View(r, y) : y \in Tables}
      BY <1>1, <1>2, <2>2, <3>1 DEF Advances, WritesItsRows
    <3>3. \A y \in Tables : View(r, y) = q => db[y] = q \/ dirty[r][y] = q
      BY DEF View
    <3> QED
      BY <1>1, <2>2, <3>2, <3>3
         DEF RecordInv, OthersCopyCommittedLoads, ShownLoadsAreOnRecord, Shown,
             OnRecord
  <2> QED
    BY <2>1, <2>2
<1>10. LockIsHeldWithinTheRun'
  BY <1>1, <1>3, <1>4, <1>5 DEF RecordInv, LockIsHeldWithinTheRun, TypeOK
<1>11. ShownLoadsAreOnRecord'
  BY <1>4 DEF RecordInv, ShownLoadsAreOnRecord, Shown
<1> QED
  BY <1>6, <1>7, <1>8, <1>9, <1>10, <1>11 DEF RecordInv

\* A quiet step writes no table; its guard says where the load stands.
LEMMA QuietStepRecordInv ==
  ASSUME TypeOK, RecordInv, NEW r \in Runs, QuietStep(r)
  PROVE  RecordInv'
<1>1. r \in Sessions /\ Runs \subseteq Sessions
  BY RunsAssumption
<1>2. UNCHANGED <<db, dirty, recorded, indicators>>
  BY DEF QuietStep, Connect, TryLock, Decline, FetchAndJudge, Unlock,
         HandleFailure, RecordFailure, RecordFailureFails, SendAlert,
         UnlockAfterFailure, tableVars, jobVars
<1>3. ShownLoadsAreOnRecord' /\ OthersCopyCommittedLoads'
  <2>1. audit \subseteq audit'
    BY DEF QuietStep, Connect, TryLock, Decline, FetchAndJudge, Unlock,
           HandleFailure, RecordFailure, RecordFailureFails, SendAlert,
           UnlockAfterFailure, tableVars, jobVars
  <2>2. ShownLoadsAreOnRecord'
    BY <1>2, <2>1 DEF RecordInv, ShownLoadsAreOnRecord, Shown
  <2>3. OthersCopyCommittedLoads'
    BY <1>2, <2>1 DEF RecordInv, OthersCopyCommittedLoads, OnRecord
  <2> QED
    BY <2>2, <2>3
<1>4. CASE Connect(r) \/ TryLock(r) \/ Decline(r)
  BY <1>1, <1>2, <1>3, <1>4
     DEF Connect, TryLock, Decline, Goto, TypeOK, JobTypeOK, jobVars,
         RecordInv, CarriesItsRecord, RecordsMatchPrograms, WritersPassedGates,
         LockIsHeldWithinTheRun, OnRecord, FailureOnRecord, BlockPcs,
         WritePcs, HandlerPcs
<1>5. CASE FetchAndJudge(r)
  <2>1. PICK e \in Exports :
          /\ fetched' = [fetched EXCEPT ![r] = e]
          /\ Goto(r, IF PassesGates(e) THEN "drop_sources" ELSE "audit")
    BY <1>5 DEF FetchAndJudge
  <2>2. pc[r] = "fetch" /\ UNCHANGED <<advisory, audit, alerted>>
    BY <1>5 DEF FetchAndJudge
  <2>3. CarriesItsRecord' /\ RecordsMatchPrograms' /\ LockIsHeldWithinTheRun'
    BY <1>1, <1>2, <2>1, <2>2
       DEF Goto, TypeOK, RecordInv, CarriesItsRecord, RecordsMatchPrograms,
           LockIsHeldWithinTheRun, OnRecord, FailureOnRecord, BlockPcs,
           WritePcs, HandlerPcs
  <2>4. WritersPassedGates'
    <3> SUFFICES ASSUME NEW q \in Runs,
                        \/ pc'[q] \in WritePcs \cup {"release_savepoint", "unlock", "commit"}
                        \/ OnRecord(q)
                 PROVE  fetched'[q] # NoExport /\ PassesGates(fetched'[q])
      BY <2>2 DEF WritersPassedGates, OnRecord, PassesGates
    <3>1. CASE q = r
      BY <1>1, <2>1, <2>2, <3>1, RunsAssumption
         DEF Goto, TypeOK, JobTypeOK, RecordInv, RecordsMatchPrograms, WritePcs
    <3>2. CASE q # r
      BY <1>1, <2>1, <3>2
         DEF Goto, TypeOK, JobTypeOK, RecordInv, WritersPassedGates
    <3> QED
      BY <3>1, <3>2
  <2> QED
    BY <1>3, <2>3, <2>4 DEF RecordInv
<1>10. CASE Unlock(r)
  BY <1>1, <1>2, <1>3, <1>10, RunsAssumption
     DEF Unlock, FreeAdvisory, Goto, TypeOK, JobTypeOK, RecordInv,
         CarriesItsRecord, RecordsMatchPrograms, WritersPassedGates,
         LockIsHeldWithinTheRun, OnRecord, FailureOnRecord, BlockPcs,
         WritePcs, HandlerPcs
<1>6. CASE RecordFailure(r)
  <2>1. \A q \in Runs : OnRecord(q)' <=> OnRecord(q)
    BY <1>6, AuditRows DEF RecordFailure, OnRecord
  <2>2. \A q \in Runs : FailureOnRecord(q)' <=> FailureOnRecord(q) \/ q = r
    BY <1>6, AuditRows DEF RecordFailure, FailureOnRecord
  <2> QED
    BY <1>1, <1>2, <1>3, <1>6, <2>1, <2>2
       DEF RecordFailure, Goto, TypeOK, JobTypeOK, RecordInv, CarriesItsRecord,
           RecordsMatchPrograms, WritersPassedGates, LockIsHeldWithinTheRun,
           BlockPcs, WritePcs, HandlerPcs
<1>7. CASE RecordFailureFails(r)
  BY <1>1, <1>2, <1>3, <1>7
     DEF RecordFailureFails, Goto, TypeOK, jobVars, RecordInv,
         CarriesItsRecord, RecordsMatchPrograms, WritersPassedGates,
         LockIsHeldWithinTheRun, OnRecord, FailureOnRecord, BlockPcs,
         WritePcs, HandlerPcs
<1>8. CASE SendAlert(r)
  BY <1>1, <1>2, <1>3, <1>8
     DEF SendAlert, Goto, TypeOK, JobTypeOK, RecordInv, CarriesItsRecord,
         RecordsMatchPrograms, WritersPassedGates, LockIsHeldWithinTheRun,
         OnRecord, FailureOnRecord, BlockPcs, WritePcs, HandlerPcs
<1>9. CASE UnlockAfterFailure(r)
  BY <1>1, <1>2, <1>3, <1>9, RunsAssumption
     DEF UnlockAfterFailure, FreeAdvisory, Goto, TypeOK, JobTypeOK, RecordInv,
         CarriesItsRecord, RecordsMatchPrograms, WritersPassedGates,
         LockIsHeldWithinTheRun, OnRecord, FailureOnRecord, BlockPcs,
         WritePcs, HandlerPcs
<1> QED
  BY <1>4, <1>5, <1>6, <1>7, <1>8, <1>9, <1>10 DEF QuietStep, HandleFailure

\* The uncommitted writes once a transaction is over.
LEMMA EndedTransaction ==
  ASSUME TypeOK, OthersCopyCommittedLoads, NEW s \in Sessions,
         EndTransaction(s), audit \subseteq audit'
  PROVE  OthersCopyCommittedLoads'
<1> SUFFICES ASSUME NEW q \in Sessions, NEW x \in Tables, NEW r \in Runs,
                    dirty'[q][x] = r
             PROVE  q = r \/ AuditRow(r, TRUE) \in audit'
  BY DEF OthersCopyCommittedLoads, OnRecord, AuditRow
<1>1. CASE q = s
  <2>1. dirty'[s][x] = Untouched
    BY DEF EndTransaction, NothingDirty, TypeOK, TablesTypeOK
  <2> QED
    BY <1>1, <2>1, RunsAssumption, ContentsAssumption
<1>2. CASE q # s
  <2>1. dirty[q][x] = r
    BY <1>2 DEF EndTransaction, TypeOK, TablesTypeOK
  <2> QED
    BY <2>1 DEF OthersCopyCommittedLoads, OnRecord
<1> QED
  BY <1>1, <1>2

\* Losing a load's transaction loses its rows with it.
LEMMA AbortRunRecordInv ==
  ASSUME TypeOK, RecordInv, NEW r \in Runs, AbortRun(r),
         \/ pc[r] \in BlockPcs /\ UNCHANGED advisory /\ Goto(r, "audit")
         \/ /\ pc[r] \notin EndPcs
            /\ FreeAdvisory(r)
            /\ \/ pc[r] \in BlockPcs /\ Goto(r, "audit")
               \/ pc[r] \in HandlerPcs /\ Goto(r, pc[r])
               \/ pc[r] \notin BlockPcs \cup HandlerPcs /\ Goto(r, "failed_outside_handler")
               \/ Goto(r, "crashed")
  PROVE  RecordInv'
<1>1. r \in Sessions /\ Runs \subseteq Sessions
  BY RunsAssumption
<1>2. /\ UNCHANGED <<db, fetched, indicators, audit, alerted>>
      /\ recorded' = recorded \ {r}
      /\ EndTransaction(r)
  BY DEF AbortRun, Abort
<1>3. PICK at \in {"audit", "failed_outside_handler", "crashed"} \cup HandlerPcs :
        /\ pc' = [pc EXCEPT ![r] = at]
        /\ pc[r] \notin EndPcs
        /\ pc[r] \in HandlerPcs => at \in {pc[r], "crashed"}
        /\ pc[r] \notin HandlerPcs => at \in {"audit", "failed_outside_handler", "crashed"}
        /\ \/ at = "audit" /\ UNCHANGED advisory
           \/ FreeAdvisory(r)
  BY DEF Goto, BlockPcs, HandlerPcs, EndPcs, WritePcs
<1>4. CarriesItsRecord'
  BY <1>1, <1>2, <1>3 DEF RecordInv, CarriesItsRecord, TypeOK, HandlerPcs
<1>5. RecordsMatchPrograms'
  BY <1>1, <1>2, <1>3
     DEF RecordInv, RecordsMatchPrograms, OnRecord, FailureOnRecord, TypeOK,
         HandlerPcs, EndPcs
<1>6. WritersPassedGates'
  BY <1>1, <1>2, <1>3
     DEF RecordInv, WritersPassedGates, OnRecord, TypeOK, HandlerPcs, WritePcs
<1>7. OthersCopyCommittedLoads'
  BY <1>1, <1>2, EndedTransaction DEF RecordInv
<1>8. LockIsHeldWithinTheRun'
  BY <1>1, <1>3, RunsAssumption
     DEF RecordInv, LockIsHeldWithinTheRun, FreeAdvisory, TypeOK, HandlerPcs
<1>9. ShownLoadsAreOnRecord'
  BY <1>2 DEF RecordInv, ShownLoadsAreOnRecord, Shown
<1> QED
  BY <1>4, <1>5, <1>6, <1>7, <1>8, <1>9 DEF RecordInv

\* What a commit of s publishes, s a load with its success row or a rollback.
LEMMA CommittedLoads ==
  ASSUME TypeOK, RecordInv, NEW s \in Sessions, Commit(s),
         audit \subseteq audit',
         s \in Runs => AuditRow(s, TRUE) \in audit'
  PROVE  /\ OthersCopyCommittedLoads'
         /\ \A r \in Runs, x \in Tables : db'[x] = r => OnRecord(r)'
<1>1. EndTransaction(s)
  BY DEF Commit
<1>2. OthersCopyCommittedLoads'
  BY <1>1, EndedTransaction DEF RecordInv
<1>3. ASSUME NEW r \in Runs, NEW x \in Tables, db'[x] = r
      PROVE  OnRecord(r)'
  <2>1. db[x] = r \/ dirty[s][x] = r
    BY <1>3 DEF Commit, View
  <2>2. CASE db[x] = r
    BY <2>2 DEF RecordInv, ShownLoadsAreOnRecord, Shown, OnRecord
  <2>3. CASE dirty[s][x] = r
    BY <2>3 DEF RecordInv, OthersCopyCommittedLoads, OnRecord
  <2> QED
    BY <2>1, <2>2, <2>3
<1> QED
  BY <1>2, <1>3

\* A load's commit, heard or not, puts its success on record with its rows.
LEMMA CommitRunRecordInv ==
  ASSUME TypeOK, RecordInv, NEW r \in Runs, pc[r] = "commit", CommitRun(r),
         NEW at \in {"succeeded", "failed_outside_handler"}, Goto(r, at)
  PROVE  RecordInv'
<1>1. r \in Sessions /\ Runs \subseteq Sessions
  BY RunsAssumption
<1>2. r \in recorded
  BY DEF RecordInv, CarriesItsRecord
<1>3. /\ Commit(r)
      /\ audit' = audit \cup {AuditRow(r, TRUE)}
      /\ recorded' = recorded \ {r}
      /\ UNCHANGED <<advisory, fetched, alerted>>
  BY <1>2 DEF CommitRun
<1>4. \A q \in Runs : /\ OnRecord(q)' <=> OnRecord(q) \/ q = r
                      /\ FailureOnRecord(q)' <=> FailureOnRecord(q)
  BY <1>3, AuditRows DEF OnRecord, FailureOnRecord
<1>5. OthersCopyCommittedLoads'
  BY <1>1, <1>3, CommittedLoads
<1>6. ShownLoadsAreOnRecord'
  <2>1. \A q \in Runs, x \in Tables : db'[x] = q => OnRecord(q)'
    BY <1>1, <1>3, CommittedLoads
  <2>2. \A q \in Runs, k \in Keys : indicators'[k] = q => OnRecord(q)'
    BY <1>3, <1>4 DEF CommitRun, RecordInv, ShownLoadsAreOnRecord, Shown, OnRecord
  <2> QED
    BY <2>1, <2>2 DEF ShownLoadsAreOnRecord, Shown, OnRecord
<1>7. pc' = [pc EXCEPT ![r] = at]
  BY DEF Goto
<1>8. CarriesItsRecord'
  BY <1>1, <1>3, <1>7 DEF RecordInv, CarriesItsRecord, TypeOK
<1>9. RecordsMatchPrograms'
  BY <1>1, <1>3, <1>4, <1>7 DEF RecordInv, RecordsMatchPrograms, TypeOK
<1>10. WritersPassedGates'
  BY <1>1, <1>3, <1>4, <1>7 DEF RecordInv, WritersPassedGates, TypeOK, WritePcs
<1>11. LockIsHeldWithinTheRun'
  BY <1>1, <1>3, <1>7
     DEF RecordInv, LockIsHeldWithinTheRun, TypeOK, BlockPcs, WritePcs, HandlerPcs
<1> QED
  BY <1>5, <1>6, <1>8, <1>9, <1>10, <1>11 DEF RecordInv

\* However a load's transaction ends, the record stays true to what shows.
LEMMA EndingStepRecordInv ==
  ASSUME TypeOK, RecordInv, NEW r \in Runs, EndingStep(r)
  PROVE  RecordInv'
<1>1. CASE Succeed(r) \/ CommitUnheard(r)
  BY <1>1, CommitRunRecordInv DEF Succeed, CommitUnheard
<1>2. CASE StatementFails(r)
  BY <1>2, AbortRunRecordInv DEF StatementFails
<1>3. CASE ConnectionLost(r) \/ Crash(r)
  BY <1>3, AbortRunRecordInv DEF ConnectionLost, Crash
<1> QED
  BY <1>1, <1>2, <1>3 DEF EndingStep

\* A rollback moves no load and writes no record; what it writes and commits
\* it has read.
LEMMA RollbackStepShape ==
  ASSUME TypeOK, NEW b \in Rollbacks, RollbackStep(b)
  PROVE  /\ \E at : Goto(b, at)
         /\ UNCHANGED <<advisory, fetched, recorded, indicators, audit, alerted>>
         /\ \/ UNCHANGED db /\ WritesItsRows(b)
            \/ UNCHANGED db /\ EndTransaction(b)
            \/ Commit(b)
<1>1. b \in Sessions
  BY RollbacksAssumption
<1> DEFINE Shape ==
      /\ \E at : Goto(b, at)
      /\ UNCHANGED <<advisory, fetched, recorded, indicators, audit, alerted>>
      /\ \/ UNCHANGED db /\ WritesItsRows(b)
         \/ UNCHANGED db /\ EndTransaction(b)
         \/ Commit(b)
<1>2. ASSUME NEW names, NEW at, NEW after, TruncateLive(b, names, at, after)
      PROVE  Shape
  BY <1>1, <1>2, WriteIsOwn DEF TruncateLive, Statement
<1>3. ASSUME NEW n \in Names, NEW at, NEW after, RestoreLive(b, n, at, after)
      PROVE  Shape
  <2>1. Previous(n) \in Tables
    BY DEF Previous, Tables
  <2> QED
    BY <1>1, <1>3, <2>1, WriteIsOwn DEF RestoreLive, Statement
<1>4. ASSUME NEW names, NEW at, NEW after, CheckPrevious(b, names, at, after)
      PROVE  Shape
  BY <1>4, NoWriteIsOwn DEF CheckPrevious, tableVars, jobVars
<1>5. CASE StartRollback(b)
  BY <1>5, NoWriteIsOwn DEF StartRollback, tableVars, jobVars
<1>6. CASE CommitRollback(b) \/ RollbackCommitUnheard(b)
  BY <1>6 DEF CommitRollback, RollbackCommitUnheard, jobVars
<1>7. CASE NothingToRestore(b) \/ RollbackFails(b) \/ RollbackCrashes(b)
  BY <1>7 DEF NothingToRestore, RollbackFails, RollbackCrashes, EndRollback,
              Abort, jobVars
<1>8. "establishment" \in Names /\ "site" \in Names /\ "commune" \in Names
      /\ "source_reference" \in Names
  BY DEF Names
<1>9. RestoreStep(b) => Shape
  BY <1>2, <1>3, <1>4, <1>8, Zenon DEF RestoreStep
<1> QED
  BY <1>5, <1>6, <1>7, <1>9 DEF RollbackStep, RollbackProgress, RollbackFault

\* A rollback only brings back loads already on record.
LEMMA RollbackStepRecordInv ==
  ASSUME TypeOK, RecordInv, NEW b \in Rollbacks, RollbackStep(b)
  PROVE  RecordInv'
<1>1. b \in Sessions /\ b \notin Runs /\ Runs \subseteq Sessions
  BY RunsAssumption, RollbacksAssumption
<1>2. /\ \A r \in Runs : pc'[r] = pc[r]
      /\ UNCHANGED <<advisory, fetched, recorded, indicators, audit, alerted>>
  BY <1>1, RollbackStepShape DEF Goto, TypeOK
<1>3. CarriesItsRecord' /\ RecordsMatchPrograms'
  BY <1>2 DEF RecordInv, CarriesItsRecord, RecordsMatchPrograms, OnRecord,
              FailureOnRecord
<1>4. WritersPassedGates' /\ LockIsHeldWithinTheRun'
  BY <1>2 DEF RecordInv, WritersPassedGates, LockIsHeldWithinTheRun, OnRecord
<1>5. OthersCopyCommittedLoads' /\ ShownLoadsAreOnRecord'
  <2>1. CASE UNCHANGED db /\ WritesItsRows(b)
    <3>1. ShownLoadsAreOnRecord'
      BY <1>2, <2>1 DEF RecordInv, ShownLoadsAreOnRecord, Shown
    <3>2. ASSUME NEW s \in Sessions, NEW x \in Tables, NEW r \in Runs,
                 dirty'[s][x] = r
          PROVE  s = r \/ OnRecord(r)
      <4>1. CASE s # b
        BY <2>1, <3>2, <4>1
           DEF WritesItsRows, RecordInv, OthersCopyCommittedLoads
      <4>2. CASE s = b
        <5>1. r # Absent /\ r # Empty /\ r # b
          BY <1>1, RunsAssumption, ContentsAssumption
        <5>2. r \in {dirty[b][x]} \cup {View(b, y) : y \in Tables}
          BY <2>1, <3>2, <4>2, <5>1 DEF WritesItsRows
        <5>3. \A y \in Tables : View(b, y) = r => db[y] = r \/ dirty[b][y] = r
          BY DEF View
        <5> QED
          BY <1>1, <4>2, <5>1, <5>2, <5>3
             DEF RecordInv, OthersCopyCommittedLoads, ShownLoadsAreOnRecord,
                 Shown, OnRecord
      <4> QED
        BY <4>1, <4>2
    <3> QED
      BY <1>2, <3>1, <3>2 DEF OthersCopyCommittedLoads, OnRecord
  <2>2. CASE UNCHANGED db /\ EndTransaction(b)
    <3>1. OthersCopyCommittedLoads'
      BY <1>1, <1>2, <2>2, EndedTransaction DEF RecordInv
    <3> QED
      BY <1>2, <2>2, <3>1 DEF RecordInv, ShownLoadsAreOnRecord, Shown
  <2>3. CASE Commit(b)
    <3>1. /\ OthersCopyCommittedLoads'
          /\ \A r \in Runs, x \in Tables : db'[x] = r => OnRecord(r)'
      BY <1>1, <1>2, <2>3, CommittedLoads
    <3> QED
      BY <1>2, <3>1 DEF RecordInv, ShownLoadsAreOnRecord, Shown, OnRecord
  <2> QED
    BY <2>1, <2>2, <2>3, RollbackStepShape
<1> QED
  BY <1>3, <1>4, <1>5 DEF RecordInv

\* Before any load runs nothing shows and nothing is on record.
LEMMA InitRecordInv ==
  ASSUME Init
  PROVE  RecordInv
<1>1. \A r \in Runs : pc[r] = "idle" /\ advisory # r
  BY RunsAssumption DEF Init, JobInit
<1>2. recorded = {} /\ audit = {} /\ alerted = {}
  BY DEF Init, JobInit
<1>3. \A r \in Runs : ~Shown(r)
  <2>1. \A x \in Tables : db[x] \in {Seed, Older, Absent}
    BY DEF Init
  <2>2. \A k \in Keys : indicators[k] \in {Seed, NoRow}
    BY DEF Init, JobInit
  <2> QED
    BY <2>1, <2>2, RunsAssumption, ContentsAssumption DEF Shown
<1>4. \A s \in Sessions, x \in Tables : dirty[s][x] = Untouched
  BY DEF Init, NothingDirty
<1>5. OthersCopyCommittedLoads
  BY <1>4, RunsAssumption, ContentsAssumption DEF OthersCopyCommittedLoads
<1> QED
  BY <1>1, <1>2, <1>3, <1>5
     DEF RecordInv, CarriesItsRecord, RecordsMatchPrograms, WritersPassedGates,
         LockIsHeldWithinTheRun, ShownLoadsAreOnRecord, OnRecord,
         FailureOnRecord, WritePcs

\* Every step of every program keeps RecordInv.
LEMMA NextRecordInv ==
  ASSUME TypeOK, RecordInv, [Next]_vars
  PROVE  RecordInv'
<1>1. CASE UNCHANGED vars
  BY <1>1 DEF vars, tableVars, jobVars, RecordInv, CarriesItsRecord,
              RecordsMatchPrograms, WritersPassedGates, PassesGates,
              OthersCopyCommittedLoads, LockIsHeldWithinTheRun,
              ShownLoadsAreOnRecord, Shown, OnRecord, FailureOnRecord
<1>2. CASE Next
  BY <1>2, NextKinds, AdvancesRecordInv, QuietStepRecordInv,
     EndingStepRecordInv, RollbackStepRecordInv
<1> QED
  BY <1>1, <1>2

\* RecordInv is inductive: what shows and what is on record agree in every
\* reachable state, together with what each open transaction may still commit.
THEOREM RecordsAreKept == Spec => [](TypeOK /\ RecordInv)
BY InitType, NextType, InitRecordInv, NextRecordInv, PTL DEF Spec

\* No load shows, live or in a copy or through one indicator row, unless the
\* commit that published it put its success on record.
THEOREM LoadsThatShowAreOnRecord == Spec => []ShownLoadsAreOnRecord
<1>1. RecordInv => ShownLoadsAreOnRecord
  BY DEF RecordInv
<1> QED
  BY <1>1, RecordsAreKept, PTL

\* The success row and the failure row of a load, written by different
\* connections, never both stand.
THEOREM NoRunHasTwoVerdicts == Spec => []OneVerdictPerRun
<1>1. RecordInv => OneVerdictPerRun
  BY DEF RecordInv, RecordsMatchPrograms, OneVerdictPerRun, OnRecord,
         FailureOnRecord
<1> QED
  BY <1>1, RecordsAreKept, PTL

\* "No data was published" is true when the notice is posted and stays true.
THEOREM AlertsTellTheTruth == Spec => []AlertsAreTruthful
<1>1. TypeOK /\ RecordInv => AlertsAreTruthful
  <2> SUFFICES ASSUME TypeOK, RecordInv, NEW r \in alerted
               PROVE  FailureOnRecord(r) /\ ~Shown(r)
    BY DEF AlertsAreTruthful, FailureOnRecord
  <2>1. r \in Runs
    BY DEF TypeOK, JobTypeOK
  <2>2. FailureOnRecord(r)
    BY <2>1 DEF RecordInv, RecordsMatchPrograms
  <2>3. ~OnRecord(r)
    BY <2>1, <2>2 DEF RecordInv, RecordsMatchPrograms
  <2> QED
    BY <2>1, <2>2, <2>3 DEF RecordInv, ShownLoadsAreOnRecord, OnRecord
<1> QED
  BY <1>1, RecordsAreKept, PTL

\* Whatever the floors, nothing shows of an export below one of them.
THEOREM NothingBelowTheFloorsShows == Spec => []ShownLoadsPassedGates
<1>1. \A e : PassesGates(e) => ReachesEveryFloor(e)
  BY DEF PassesGates, ReachesEveryFloor
<1>2. RecordInv => ShownLoadsPassedGates
  BY <1>1 DEF RecordInv, WritersPassedGates, ShownLoadsPassedGates,
              ShownLoadsAreOnRecord, OnRecord
<1> QED
  BY <1>2, RecordsAreKept, PTL

\* A run that has ended, even by a crash, does not hold the ingestion lock.
THEOREM EndedRunsHoldNoLock == Spec => []LockDiesWithItsRun
<1>1. TypeOK /\ RecordInv => LockDiesWithItsRun
  BY DEF TypeOK, JobTypeOK, RecordInv, LockIsHeldWithinTheRun,
         LockDiesWithItsRun, BlockPcs, WritePcs, HandlerPcs, EndPcs
<1> QED
  BY <1>1, RecordsAreKept, PTL
=============================================================================
