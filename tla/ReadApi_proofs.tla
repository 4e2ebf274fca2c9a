--------------------------- MODULE ReadApi_proofs ---------------------------
(***************************************************************************)
(* Theorems about requests that run beside the writers, for any number of  *)
(* them, any pool and any endpoints.                                       *)
(*                                                                         *)
(* A request takes locks and writes nothing.  Seen without the requests    *)
(* and their locks, the system is therefore the writers' alone: ApiSpec    *)
(* implements Spec, and what is proved of the writers holds beside any     *)
(* number of readers.                                                      *)
(***************************************************************************)
EXTENDS ReadApi, TableLocks_proofs

\* The writers as they would stand with nobody reading.
WritersPc == [s \in Sessions |-> IF s \in Requests THEN "idle" ELSE pc[s]]
WritersHeld == [s \in Sessions |-> IF s \in Requests THEN NoLocks ELSE held[s]]

W == INSTANCE TableLocks_proofs WITH pc <- WritersPc, held <- WritersHeld

\* The assumptions on the constants are the same.
LEMMA SameAssumptions ==
  W!ContentsAssumption /\ W!RunsAssumption /\ W!RollbacksAssumption
BY ContentsAssumption, RunsAssumption, RollbacksAssumption
   DEF W!ContentsAssumption, W!RunsAssumption, W!RollbacksAssumption

\* Writers are sessions and make no request.
LEMMA WritersMakeNoRequests ==
  ASSUME NEW s \in Writers
  PROVE  s \in Sessions /\ s \notin Requests
BY RunsAssumption, RollbacksAssumption, RequestsAssumption DEF Writers

-----------------------------------------------------------------------------
(* Operators that mean the same on both sides.                             *)

\* Tables and what a statement sees of them.
LEMMA SameTables ==
  /\ W!Names = Names /\ W!Tables = Tables
  /\ W!NothingDirty = NothingDirty /\ W!NoLocks = NoLocks
  /\ \A n : W!Live(n) = Live(n) /\ W!Previous(n) = Previous(n)
  /\ \A s, x : W!View(s, x) = View(s, x)
  /\ \A e, h : W!Request(e, h) = Request(e, h)
  /\ W!NoRequest = NoRequest
  /\ \A n : W!CopyRequest(n) = CopyRequest(n)
  /\ \A r, n : W!DropRequest(r, n) = DropRequest(r, n)
  /\ \A r, v : W!AuditRow(r, v) = AuditRow(r, v)
  /\ \A e : W!PassesGates(e) <=> PassesGates(e)
<1>1. W!Names = Names /\ W!Tables = Tables
  BY DEF W!Names, Names, W!Tables, Tables
<1>2. W!NothingDirty = NothingDirty /\ W!NoLocks = NoLocks
  BY <1>1 DEF W!NothingDirty, NothingDirty, W!NoLocks, NoLocks
<1>3. \A n : W!Live(n) = Live(n) /\ W!Previous(n) = Previous(n)
  BY DEF W!Live, Live, W!Previous, Previous
<1>4. \A s, x : W!View(s, x) = View(s, x)
  BY DEF W!View, View
<1>5. \A e, h : W!Request(e, h) = Request(e, h)
  BY DEF W!Request, Request
<1>6. W!NoRequest = NoRequest
  BY <1>5 DEF W!NoRequest, NoRequest
<1>7. \A n : W!CopyRequest(n) = CopyRequest(n)
  BY <1>3, <1>5 DEF W!CopyRequest, CopyRequest
<1>8. \A r, n : W!DropRequest(r, n) = DropRequest(r, n)
  BY <1>3, <1>4, <1>5 DEF W!DropRequest, DropRequest
<1>9. \A r, v : W!AuditRow(r, v) = AuditRow(r, v)
  BY DEF W!AuditRow, AuditRow
<1>10. \A e : W!PassesGates(e) <=> PassesGates(e)
  BY DEF W!PassesGates, PassesGates
<1> QED
  BY <1>1, <1>2, <1>3, <1>4, <1>5, <1>6, <1>7, <1>8, <1>9, <1>10

\* The places of the programs.
LEMMA SamePlaces ==
  /\ W!BlockPcs = BlockPcs /\ W!HandlerPcs = HandlerPcs /\ W!EndPcs = EndPcs
  /\ W!RestorePcs = RestorePcs
BY DEF W!BlockPcs, BlockPcs, W!WritePcs, WritePcs, W!HandlerPcs, HandlerPcs,
       W!EndPcs, EndPcs, W!RestorePcs, RestorePcs

\* Every session has a place and locks.
ApiDomains == DOMAIN pc = Sessions /\ DOMAIN held = Sessions

\* A writer stands where it stood and holds what it held.
LEMMA SameProgram ==
  ASSUME NEW s \in Writers
  PROVE  WritersPc[s] = pc[s] /\ WritersHeld[s] = held[s]
BY WritersMakeNoRequests DEF WritersPc, WritersHeld

\* It goes where it went.
LEMMA SameGoto ==
  ASSUME ApiDomains, NEW s \in Writers, NEW at, Goto(s, at)
  PROVE  W!Goto(s, at)
BY WritersMakeNoRequests DEF ApiDomains, Goto, W!Goto, WritersPc

\* It is granted what it was granted: there are only fewer to wait for.
LEMMA SameGrant ==
  ASSUME ApiDomains, NEW s \in Writers, NEW req, Grantable(s, req), Grant(s, req)
  PROVE  W!Grantable(s, req) /\ W!Grant(s, req)
<1>1. s \in Sessions /\ s \notin Requests
  BY WritersMakeNoRequests
<1>2. W!Grant(s, req)
  BY <1>1, SameTables DEF ApiDomains, Grant, W!Grant, WritersHeld
<1>3. ASSUME NEW q \in Sessions, NEW x \in Tables,
             q # s, W!Conflicts(WritersHeld[q][x], req, x)
      PROVE  FALSE
  <2>1. CASE q \in Requests
    BY <1>3, <2>1 DEF W!Conflicts, WritersHeld, NoLocks
  <2>2. CASE q \notin Requests
    BY <1>3, <2>2 DEF Grantable, WaitsOn, Conflicts, W!Conflicts, WritersHeld
  <2> QED
    BY <2>1, <2>2
<1> QED
  BY <1>2, <1>3, SameTables DEF W!Grantable, W!WaitsOn

\* What does not touch the places or the locks does not touch the writers'.
LEMMA SameUnchanged ==
  /\ UNCHANGED pc => UNCHANGED WritersPc
  /\ UNCHANGED held => UNCHANGED WritersHeld
  /\ UNCHANGED tableVars => UNCHANGED W!tableVars
  /\ UNCHANGED jobVars => UNCHANGED W!jobVars
BY DEF WritersPc, WritersHeld, tableVars, W!tableVars, jobVars, W!jobVars

\* One statement, whatever it does to the rows.
LEMMA SameStatement ==
  ASSUME ApiDomains, NEW s \in Writers, NEW at, NEW after, NEW req,
         Statement(s, at, after, req)
  PROVE  W!Statement(s, at, after, req)
BY SameProgram, SameGoto, SameGrant DEF Statement, W!Statement

\* A write.
LEMMA SameWrite ==
  ASSUME NEW s, NEW changes, Write(s, changes)
  PROVE  W!Write(s, changes)
BY SameTables DEF Write, W!Write

\* The end of a transaction.
LEMMA SameEnd ==
  ASSUME ApiDomains, NEW s \in Writers, EndTransaction(s)
  PROVE  W!EndTransaction(s)
BY WritersMakeNoRequests, SameTables
   DEF ApiDomains, EndTransaction, W!EndTransaction, WritersHeld

\* An abort.
LEMMA SameAbort ==
  ASSUME ApiDomains, NEW s \in Writers, Abort(s)
  PROVE  W!Abort(s)
BY SameEnd DEF Abort, W!Abort

\* A commit.
LEMMA SameCommit ==
  ASSUME ApiDomains, NEW s \in Writers, Commit(s)
  PROVE  W!Commit(s)
BY SameEnd, SameTables DEF Commit, W!Commit

-----------------------------------------------------------------------------
(* The steps of a load are the same steps.                                 *)

\* Its statements.
LEMMA SameWriteStep ==
  ASSUME ApiDomains, NEW r \in Runs, WriteStep(r)
  PROVE  W!WriteStep(r)
<1>1. r \in Writers
  BY DEF Writers
<1>2. ASSUME NEW n, NEW at, NEW after, DropPrevious(r, n, at, after)
      PROVE  W!DropPrevious(r, n, at, after)
  BY <1>1, <1>2, SameStatement, SameWrite, SameTables
     DEF DropPrevious, W!DropPrevious
<1>3. ASSUME NEW n, NEW at, NEW after, CopyToPrevious(r, n, at, after)
      PROVE  W!CopyToPrevious(r, n, at, after)
  BY <1>1, <1>3, SameStatement, SameWrite, SameTables
     DEF CopyToPrevious, W!CopyToPrevious
<1>4. ASSUME NEW names, NEW at, NEW after, ReplaceLive(r, names, at, after)
      PROVE  W!ReplaceLive(r, names, at, after)
  <2>1. {W!Live(n) : n \in names} = {Live(n) : n \in names}
    BY SameTables
  <2>2. W!Statement(r, at, after, W!Request({Live(n) : n \in names}, {}))
    BY <1>1, <1>4, SameStatement, SameTables DEF ReplaceLive
  <2>3. W!Write(r, [x \in {Live(n) : n \in names} |-> r])
    BY <1>4, SameWrite DEF ReplaceLive
  <2> QED
    BY <1>4, <2>1, <2>2, <2>3 DEF ReplaceLive, W!ReplaceLive
<1>5. ASSUME AppendIndicators(r)
      PROVE  W!AppendIndicators(r)
  BY <1>1, <1>5, SameStatement, SameTables DEF AppendIndicators, W!AppendIndicators
<1>6. ASSUME UpsertSources(r)
      PROVE  W!UpsertSources(r)
  BY <1>1, <1>6, SameStatement, SameWrite, SameTables
     DEF UpsertSources, W!UpsertSources
<1>7. ASSUME RecordRun(r)
      PROVE  W!RecordRun(r)
  BY <1>1, <1>7, SameStatement, SameTables DEF RecordRun, W!RecordRun
<1>8. ASSUME ReleaseSavepoint(r)
      PROVE  W!ReleaseSavepoint(r)
  BY <1>1, <1>8, SameStatement, SameTables DEF ReleaseSavepoint, W!ReleaseSavepoint
<1> QED
  BY <1>2, <1>3, <1>4, <1>5, <1>6, <1>7, <1>8, Zenon DEF WriteStep, W!WriteStep

\* Its quiet steps.
LEMMA SameQuietStep ==
  ASSUME ApiDomains, NEW r \in Runs, QuietStep(r)
  PROVE  W!RunStep(r)
<1>1. r \in Writers
  BY DEF Writers
<1>2. WritersPc[r] = pc[r]
  BY <1>1, SameProgram
<1>3. Connect(r) => W!Connect(r)
  BY <1>1, <1>2, SameGoto, SameUnchanged DEF Connect, W!Connect
<1>4. TryLock(r) => W!TryLock(r)
  BY <1>1, <1>2, SameGoto, SameUnchanged DEF TryLock, W!TryLock
<1>5. Decline(r) => W!Decline(r)
  BY <1>1, <1>2, SameGoto, SameUnchanged DEF Decline, W!Decline
<1>6. FetchAndJudge(r) => W!FetchAndJudge(r)
  <2> SUFFICES ASSUME FetchAndJudge(r)
               PROVE  W!FetchAndJudge(r)
    OBVIOUS
  <2>1. PICK e \in Exports :
          /\ fetched' = [fetched EXCEPT ![r] = e]
          /\ Goto(r, IF PassesGates(e) THEN "drop_sources" ELSE "audit")
    BY DEF FetchAndJudge
  <2>2. W!Goto(r, IF W!PassesGates(e) THEN "drop_sources" ELSE "audit")
    <3>1. (IF W!PassesGates(e) THEN "drop_sources" ELSE "audit")
            = IF PassesGates(e) THEN "drop_sources" ELSE "audit"
      BY SameTables
    <3> QED
      BY <1>1, <2>1, <3>1, SameGoto
  <2> QED
    BY <1>2, <2>1, <2>2, SameUnchanged DEF FetchAndJudge, W!FetchAndJudge
<1>7. Unlock(r) => W!Unlock(r)
  BY <1>1, <1>2, SameGoto, SameUnchanged
     DEF Unlock, W!Unlock, FreeAdvisory, W!FreeAdvisory
<1>8. RecordFailure(r) => W!RecordFailure(r)
  BY <1>1, <1>2, SameGoto, SameUnchanged, SameTables DEF RecordFailure, W!RecordFailure
<1>9. RecordFailureFails(r) => W!RecordFailureFails(r)
  BY <1>1, <1>2, SameGoto, SameUnchanged
     DEF RecordFailureFails, W!RecordFailureFails
<1>10. SendAlert(r) => W!SendAlert(r)
  BY <1>1, <1>2, SameGoto, SameUnchanged DEF SendAlert, W!SendAlert
<1>11. UnlockAfterFailure(r) => W!UnlockAfterFailure(r)
  BY <1>1, <1>2, SameGoto, SameUnchanged
     DEF UnlockAfterFailure, W!UnlockAfterFailure, FreeAdvisory, W!FreeAdvisory
<1> QED
  BY <1>3, <1>4, <1>5, <1>6, <1>7, <1>8, <1>9, <1>10, <1>11
     DEF QuietStep, HandleFailure, W!RunStep, W!RunProgress, W!HandleFailure

\* The ends of its transaction.
LEMMA SameEndingStep ==
  ASSUME ApiDomains, NEW r \in Runs, EndingStep(r)
  PROVE  W!RunStep(r)
<1>1. r \in Writers
  BY DEF Writers
<1>2. WritersPc[r] = pc[r]
  BY <1>1, SameProgram
<1>3. AbortRun(r) => W!AbortRun(r)
  BY <1>1, SameAbort DEF AbortRun, W!AbortRun
<1>4. CommitRun(r) => W!CommitRun(r)
  BY <1>1, SameCommit, SameTables DEF CommitRun, W!CommitRun
<1>5. FreeAdvisory(r) => W!FreeAdvisory(r)
  BY DEF FreeAdvisory, W!FreeAdvisory
<1>6. Succeed(r) => W!Succeed(r)
  BY <1>1, <1>2, <1>4, SameGoto DEF Succeed, W!Succeed
<1>7. CommitUnheard(r) => W!CommitUnheard(r)
  BY <1>1, <1>2, <1>4, SameGoto DEF CommitUnheard, W!CommitUnheard
<1>8. StatementFails(r) => W!StatementFails(r)
  BY <1>1, <1>2, <1>3, SameGoto, SamePlaces DEF StatementFails, W!StatementFails
<1>9. ConnectionLost(r) => W!ConnectionLost(r)
  <2> DEFINE at == IF pc[r] \in BlockPcs THEN "audit"
                   ELSE IF pc[r] \in HandlerPcs THEN pc[r]
                   ELSE "failed_outside_handler"
  <2>1. ConnectionLost(r) => W!Goto(r, at)
    BY <1>1, SameGoto DEF ConnectionLost
  <2> QED
    BY <1>2, <1>3, <1>5, <2>1, SamePlaces DEF ConnectionLost, W!ConnectionLost
<1>10. Crash(r) => W!Crash(r)
  BY <1>1, <1>2, <1>3, <1>5, SameGoto, SamePlaces DEF Crash, W!Crash
<1> QED
  BY <1>6, <1>7, <1>8, <1>9, <1>10
     DEF EndingStep, W!RunStep, W!RunProgress, W!RunFault

\* A rollback's steps are the same steps.
LEMMA SameRollbackStep ==
  ASSUME ApiDomains, NEW b \in Rollbacks, RollbackStep(b)
  PROVE  W!RollbackStep(b)
<1>1. b \in Writers
  BY DEF Writers
<1>2. WritersPc[b] = pc[b]
  BY <1>1, SameProgram
<1>3. ASSUME NEW names, NEW at, NEW after, CheckPrevious(b, names, at, after)
      PROVE  W!CheckPrevious(b, names, at, after)
  BY <1>1, <1>2, <1>3, SameGoto, SameUnchanged, SameTables
     DEF CheckPrevious, W!CheckPrevious
<1>4. ASSUME NEW names, NEW at, NEW after, TruncateLive(b, names, at, after)
      PROVE  W!TruncateLive(b, names, at, after)
  <2>1. {W!Live(n) : n \in names} = {Live(n) : n \in names}
    BY SameTables
  <2>2. W!Statement(b, at, after, W!Request({Live(n) : n \in names}, {}))
    BY <1>1, <1>4, SameStatement, SameTables DEF TruncateLive
  <2>3. W!Write(b, [x \in {Live(n) : n \in names} |-> Empty])
    BY <1>4, SameWrite DEF TruncateLive
  <2> QED
    BY <1>4, <2>1, <2>2, <2>3 DEF TruncateLive, W!TruncateLive
<1>5. ASSUME NEW n, NEW at, NEW after, RestoreLive(b, n, at, after)
      PROVE  W!RestoreLive(b, n, at, after)
  BY <1>1, <1>5, SameStatement, SameWrite, SameTables
     DEF RestoreLive, W!RestoreLive
<1>6. RestoreStep(b) => W!RestoreStep(b)
  BY <1>3, <1>4, <1>5, Zenon DEF RestoreStep, W!RestoreStep
<1>7. StartRollback(b) => W!StartRollback(b)
  BY <1>1, <1>2, SameGoto, SameUnchanged DEF StartRollback, W!StartRollback
<1>8. CommitRollback(b) => W!CommitRollback(b)
  BY <1>1, <1>2, SameGoto, SameCommit, SameUnchanged DEF CommitRollback, W!CommitRollback
<1>9. RollbackCommitUnheard(b) => W!RollbackCommitUnheard(b)
  BY <1>1, <1>2, SameGoto, SameCommit, SameUnchanged
     DEF RollbackCommitUnheard, W!RollbackCommitUnheard
<1>10. \A at : EndRollback(b, at) => W!EndRollback(b, at)
  BY <1>1, <1>2, SameGoto, SameAbort, SameUnchanged, SamePlaces
     DEF EndRollback, W!EndRollback
<1>11. NothingToRestore(b) => W!NothingToRestore(b)
  BY <1>2, <1>10, SameTables DEF NothingToRestore, W!NothingToRestore
<1>12. /\ RollbackFails(b) => W!RollbackFails(b)
       /\ RollbackCrashes(b) => W!RollbackCrashes(b)
  BY <1>10 DEF RollbackFails, W!RollbackFails, RollbackCrashes, W!RollbackCrashes
<1> QED
  BY <1>6, <1>7, <1>8, <1>9, <1>11, <1>12
     DEF RollbackStep, RollbackProgress, RollbackFault, W!RollbackStep,
         W!RollbackProgress, W!RollbackFault

-----------------------------------------------------------------------------
(* A request's steps are no steps of the writers.                          *)

\* No request has an uncommitted write.
ReadersWriteNothing ==
  \A q \in Requests : dirty[q] = NothingDirty /\ rewrites[q] = {}

\* The variables the writers share with nobody else.
LEMMA WritersTypes ==
  ASSUME W!TypeOK
  PROVE  /\ dirty \in [Sessions -> [Tables -> Contents \cup {Untouched, Absent}]]
         /\ rewrites \in [Sessions -> SUBSET Names]
         /\ db \in [Tables -> Contents \cup {Absent}]
BY SameTables DEF W!TypeOK, W!TablesTypeOK

\* Any step of one session, as far as places, locks, other sessions' writes
\* and the record go.
StaysWithin(s) ==
  /\ audit \subseteq audit'
  /\ UNCHANGED pc \/ \E at : Goto(s, at)
  /\ \/ UNCHANGED held
     \/ \E req : Grant(s, req)
     \/ EndTransaction(s)
  /\ UNCHANGED dirty \/ (\E changes : Write(s, changes)) \/ EndTransaction(s)
  /\ \/ UNCHANGED rewrites
     \/ \E names : rewrites' = [rewrites EXCEPT ![s] = @ \cup names]
     \/ EndTransaction(s)

\* A writer's step stays within its session.
LEMMA WritersStayWithin ==
  /\ \A r \in Runs : WriteStep(r) \/ QuietStep(r) \/ EndingStep(r) => StaysWithin(r)
  /\ \A b \in Rollbacks : RollbackStep(b) => StaysWithin(b)
<1>1. ASSUME NEW s, NEW n, NEW at, NEW after, DropPrevious(s, n, at, after)
      PROVE  StaysWithin(s)
  BY <1>1 DEF DropPrevious, Statement, StaysWithin
<1>2. ASSUME NEW s, NEW n, NEW at, NEW after, CopyToPrevious(s, n, at, after)
      PROVE  StaysWithin(s)
  BY <1>2 DEF CopyToPrevious, Statement, StaysWithin
<1>3. ASSUME NEW s, NEW names, NEW at, NEW after, ReplaceLive(s, names, at, after)
      PROVE  StaysWithin(s)
  BY <1>3 DEF ReplaceLive, Statement, StaysWithin
<1>4. ASSUME NEW s, AppendIndicators(s) \/ UpsertSources(s) \/ RecordRun(s)
                    \/ ReleaseSavepoint(s)
      PROVE  StaysWithin(s)
  BY <1>4 DEF AppendIndicators, UpsertSources, RecordRun, ReleaseSavepoint,
              Statement, StaysWithin
<1>5. \A r : WriteStep(r) => StaysWithin(r)
  BY <1>1, <1>2, <1>3, <1>4, Zenon DEF WriteStep
<1>6. \A r : QuietStep(r) => StaysWithin(r)
  BY DEF QuietStep, Connect, TryLock, Decline, FetchAndJudge, Unlock,
         HandleFailure, RecordFailure, RecordFailureFails, SendAlert,
         UnlockAfterFailure, StaysWithin, tableVars, jobVars
<1>7. \A r : EndingStep(r) => StaysWithin(r)
  BY DEF EndingStep, Succeed, CommitUnheard, CommitRun, Commit, StatementFails,
         ConnectionLost, Crash, AbortRun, Abort, StaysWithin
<1>8. ASSUME NEW s, NEW names, NEW at, NEW after,
             TruncateLive(s, names, at, after) \/ CheckPrevious(s, names, at, after)
      PROVE  StaysWithin(s)
  BY <1>8 DEF TruncateLive, CheckPrevious, Statement, StaysWithin, tableVars,
              jobVars
<1>9. ASSUME NEW s, NEW n, NEW at, NEW after, RestoreLive(s, n, at, after)
      PROVE  StaysWithin(s)
  BY <1>9 DEF RestoreLive, Statement, StaysWithin
<1>10. \A b : RestoreStep(b) => StaysWithin(b)
  BY <1>8, <1>9, Zenon DEF RestoreStep
<1>11. \A b : RollbackStep(b) => RestoreStep(b) \/ StaysWithin(b)
  BY DEF RollbackStep, RollbackProgress, RollbackFault, StartRollback,
         CommitRollback, RollbackCommitUnheard, NothingToRestore, RollbackFails,
         RollbackCrashes, EndRollback, Commit, Abort, StaysWithin, tableVars,
         jobVars
<1> QED
  BY <1>5, <1>6, <1>7, <1>10, <1>11

\* A step within one session leaves the others as they are.
LEMMA WithinKeeps ==
  ASSUME W!TypeOK, ApiDomains, NEW s \in Sessions, StaysWithin(s)
  PROVE  /\ ApiDomains'
         /\ \A q \in Sessions \ {s} : /\ dirty'[q] = dirty[q]
                                      /\ rewrites'[q] = rewrites[q]
<1>1. /\ dirty \in [Sessions -> [Tables -> Contents \cup {Untouched, Absent}]]
      /\ rewrites \in [Sessions -> SUBSET Names]
  BY WritersTypes
<1>2. DOMAIN pc' = Sessions
  BY DEF StaysWithin, ApiDomains, Goto
<1>3. DOMAIN held' = Sessions
  BY DEF StaysWithin, ApiDomains, Grant, EndTransaction
<1>4. \A q \in Sessions \ {s} : dirty'[q] = dirty[q]
  BY <1>1 DEF StaysWithin, Write, EndTransaction
<1>5. \A q \in Sessions \ {s} : rewrites'[q] = rewrites[q]
  BY <1>1 DEF StaysWithin, EndTransaction
<1> QED
  BY <1>2, <1>3, <1>4, <1>5 DEF ApiDomains

\* A request's step changes neither what the writers have nor what they see.
LEMMA RequestsAreSilent ==
  ASSUME W!TypeOK, ApiDomains, ReadersWriteNothing, NEW q \in Requests, RequestStep(q)
  PROVE  /\ UNCHANGED <<db, filenode, dirty, rewrites, jobVars>>
         /\ UNCHANGED <<WritersPc, WritersHeld>>
         /\ ApiDomains'
<1>1. q \in Sessions
  BY RequestsAssumption
<1>2. /\ dirty \in [Sessions -> [Tables -> Contents \cup {Untouched, Absent}]]
      /\ rewrites \in [Sessions -> SUBSET Names]
  BY WritersTypes
<1>3. /\ UNCHANGED pc \/ \E at : Goto(q, at)
      /\ \/ UNCHANGED <<held, dirty, rewrites>>
         \/ EndTransaction(q)
         \/ UNCHANGED <<dirty, rewrites>> /\ \E req : Grant(q, req)
      /\ UNCHANGED <<db, filenode, jobVars>>
  <2>1. CASE Receive(q) \/ Borrow(q) \/ PoolTimeout(q) \/ TakeSnapshot(q)
    BY <2>1 DEF Receive, Borrow, PoolTimeout, TakeSnapshot, tableVars
  <2>2. CASE ReadTable(q)
    BY <2>2 DEF ReadTable
  <2>3. CASE \E outcome : EndRequest(q, outcome)
    BY <2>3 DEF EndRequest
  <2> QED
    BY <2>1, <2>2, <2>3
       DEF RequestStep, RequestProgress, AnswerUnavailable, AnswerNotFound,
           AnswerUnknownPlace, Answer, RequestFails
<1>4. UNCHANGED WritersPc
  BY <1>1, <1>3 DEF Goto, WritersPc, ApiDomains
<1>5. UNCHANGED WritersHeld
  BY <1>1, <1>3 DEF Grant, EndTransaction, WritersHeld, ApiDomains
<1>6. UNCHANGED <<dirty, rewrites>>
  BY <1>1, <1>2, <1>3 DEF EndTransaction, ReadersWriteNothing
<1>7. ApiDomains'
  BY <1>3 DEF ApiDomains, Goto, Grant, EndTransaction
<1> QED
  BY <1>3, <1>4, <1>5, <1>6, <1>7

-----------------------------------------------------------------------------
(* ApiSpec implements Spec.                                                *)

ReadersInv == W!TypeOK /\ ApiDomains /\ ReadersWriteNothing

\* The kinds of steps of the whole system: a broken deadlock is a failure of
\* its victim.
LEMMA ApiNextKinds ==
  ASSUME ApiNext
  PROVE  \/ \E r \in Runs : /\ WriteStep(r) \/ QuietStep(r) \/ EndingStep(r)
                            /\ UNCHANGED readVars
         \/ \E b \in Rollbacks : RollbackStep(b) /\ UNCHANGED readVars
         \/ \E q \in Requests : RequestStep(q)
<1>1. ASSUME NEW s \in Writers \cup Requests, BreakAnyDeadlock(s)
      PROVE  \/ s \in Runs /\ EndingStep(s) /\ UNCHANGED readVars
             \/ s \in Rollbacks /\ RollbackStep(s) /\ UNCHANGED readVars
             \/ s \in Requests /\ RequestStep(s)
  BY <1>1 DEF BreakAnyDeadlock, EndingStep, RollbackStep, RollbackFault, RequestStep
<1> QED
  BY <1>1, RunStepKinds DEF ApiNext, Writers

\* Every step of the whole system is a step of the writers or none of theirs.
LEMMA ApiNextRefines ==
  ASSUME ReadersInv, [ApiNext]_apiVars
  PROVE  [W!Next]_(W!vars)
<1>1. ASSUME NEW r \in Runs, WriteStep(r) \/ QuietStep(r) \/ EndingStep(r)
      PROVE  W!Next
  BY <1>1, SameWriteStep, SameQuietStep, SameEndingStep
     DEF ReadersInv, W!Next, W!RunStep, W!RunProgress
<1>2. ASSUME NEW b \in Rollbacks, RollbackStep(b)
      PROVE  W!Next
  BY <1>2, SameRollbackStep DEF ReadersInv, W!Next
<1>3. ASSUME NEW q \in Requests, RequestStep(q)
      PROVE  UNCHANGED W!vars
  <2>1. /\ UNCHANGED <<db, filenode, dirty, rewrites, jobVars>>
        /\ UNCHANGED <<WritersPc, WritersHeld>>
    BY <1>3, RequestsAreSilent DEF ReadersInv
  <2> QED
    BY <2>1 DEF W!vars, W!tableVars, W!jobVars, jobVars
<1>4. CASE UNCHANGED apiVars
  <2>1. UNCHANGED <<db, filenode, dirty, rewrites, jobVars>> /\ UNCHANGED <<pc, held>>
    BY <1>4 DEF apiVars, vars, tableVars
  <2> QED
    BY <2>1, SameUnchanged DEF W!vars, W!tableVars, W!jobVars, jobVars
<1> QED
  BY <1>1, <1>2, <1>3, <1>4, ApiNextKinds

\* The requests write nothing and every step keeps the types.
LEMMA ApiNextInv ==
  ASSUME ReadersInv, [ApiNext]_apiVars
  PROVE  ReadersInv'
<1>1. W!TypeOK'
  BY ApiNextRefines, SameAssumptions, W!NextType DEF ReadersInv
<1>2. ASSUME NEW s \in Writers, StaysWithin(s)
      PROVE  ApiDomains' /\ ReadersWriteNothing'
  BY <1>2, WritersMakeNoRequests, WithinKeeps, RequestsAssumption
     DEF ReadersInv, ReadersWriteNothing
<1>3. ASSUME NEW q \in Requests, RequestStep(q)
      PROVE  ApiDomains' /\ ReadersWriteNothing'
  BY <1>3, RequestsAreSilent DEF ReadersInv, ReadersWriteNothing
<1>4. ASSUME UNCHANGED apiVars
      PROVE  ApiDomains' /\ ReadersWriteNothing'
  BY <1>4 DEF apiVars, vars, tableVars, ReadersInv, ApiDomains, ReadersWriteNothing
<1>5. ApiDomains' /\ ReadersWriteNothing'
  BY <1>2, <1>3, <1>4, ApiNextKinds, WritersStayWithin DEF Writers
<1> QED
  BY <1>1, <1>5 DEF ReadersInv

\* The writers start as they would alone.
LEMMA ApiInitRefines ==
  ASSUME ApiInit
  PROVE  W!Init /\ ReadersInv
<1>1. Init
  BY DEF ApiInit
<1>2. ApiDomains /\ ReadersWriteNothing
  BY <1>1, RequestsAssumption DEF Init, ApiDomains, ReadersWriteNothing
<1>3. WritersPc = [s \in Sessions |-> "idle"] /\ WritersHeld = [s \in Sessions |-> NoLocks]
  BY <1>1 DEF Init, WritersPc, WritersHeld
<1>4. W!Init
  BY <1>1, <1>3, SameTables DEF Init, JobInit, W!Init, W!JobInit
<1>5. W!TypeOK
  BY <1>4, SameAssumptions, W!InitType
<1> QED
  BY <1>2, <1>4, <1>5 DEF ReadersInv

\* Whatever requests do, the writers behave as they might with nobody reading.
THEOREM ReadersOnlyDelayWriters == ApiSpec => W!Spec
<1>1. ApiInit => W!Init /\ ReadersInv
  BY ApiInitRefines
<1>2. ReadersInv /\ [ApiNext]_apiVars => ReadersInv' /\ [W!Next]_(W!vars)
  BY ApiNextInv, ApiNextRefines
<1> QED
  BY <1>1, <1>2, PTL DEF ApiSpec, W!Spec

-----------------------------------------------------------------------------
(* What the readers may rely on.                                           *)

\* Everything proved of the writers alone holds beside readers.
LEMMA WhatShowsBesideReaders ==
  /\ W!GenerationsAgree => GenerationsAgree
  /\ W!ShownLoadsAreOnRecord => ShownLoadsAreOnRecord
<1>1. W!GenerationsAgree => GenerationsAgree
  BY SameTables DEF W!GenerationsAgree, GenerationsAgree
<1>2. W!ShownLoadsAreOnRecord => ShownLoadsAreOnRecord
  BY SameTables DEF W!ShownLoadsAreOnRecord, ShownLoadsAreOnRecord, W!Shown, Shown
<1> QED
  BY <1>1, <1>2

\* Beside readers too the live tables always show one load, and every load
\* that shows is on record.
THEOREM ReadersSeeGoodTables ==
  ApiSpec => [](ReadersInv /\ GenerationsAgree /\ ShownLoadsAreOnRecord)
<1>1. ApiInit => ReadersInv
  BY ApiInitRefines
<1>2. ReadersInv /\ [ApiNext]_apiVars => ReadersInv'
  BY ApiNextInv
<1>3. W!Spec => []W!GenerationsAgree
  BY SameAssumptions, W!GenerationsAlwaysAgree
<1>4. W!Spec => []W!ShownLoadsAreOnRecord
  BY SameAssumptions, W!LoadsThatShowAreOnRecord
<1> QED
  BY <1>1, <1>2, <1>3, <1>4, ReadersOnlyDelayWriters, WhatShowsBesideReaders, PTL
     DEF ApiSpec

\* A request has, from the tables it has read, the rows of its snapshot or
\* none, and the snapshot is of one load on record.
OneLoadOnRecord(content) ==
  /\ \A m, n \in Names : content[m] = content[n]
  /\ \A n \in Names, r \in Runs : content[n] = r => AuditRow(r, TRUE) \in audit

SnapshotsShowOneLoad ==
  \A q \in Requests : snap[q] # NoSnapshot => OneLoadOnRecord(snap[q].content)

RowsAreOfTheSnapshot ==
  \A q \in Requests, n \in Names :
    \/ seen[q][n] \in {Empty, Unread}
    \/ snap[q] # NoSnapshot /\ seen[q][n] = snap[q].content[n]

ResponseInv ==
  /\ DOMAIN snap = Requests /\ DOMAIN seen = Requests
  /\ SnapshotsShowOneLoad
  /\ RowsAreOfTheSnapshot

\* The steps of a request other than its reads.
LEMMA OtherRequestSteps ==
  ASSUME NEW q \in Requests, RequestStep(q)
  PROVE  /\ UNCHANGED audit
         /\ \/ ReadTable(q) /\ UNCHANGED snap
            \/ TakeSnapshot(q) /\ UNCHANGED seen
            \/ UNCHANGED <<snap, seen>>
BY DEF RequestStep, RequestProgress, Receive, Borrow, PoolTimeout, TakeSnapshot,
       ReadTable, AnswerUnavailable, AnswerNotFound, AnswerUnknownPlace, Answer,
       RequestFails, EndRequest, readVars, jobVars

\* Taking the snapshot: one load, on record.
LEMMA SnapshotResponseInv ==
  ASSUME GenerationsAgree, ShownLoadsAreOnRecord, ResponseInv,
         NEW q \in Requests, TakeSnapshot(q), UNCHANGED <<seen, audit>>
  PROVE  ResponseInv'
<1>1. /\ snap[q] = NoSnapshot
      /\ snap' = [snap EXCEPT ![q] = [content |-> [n \in Names |-> db[Live(n)]],
                                      file |-> filenode]]
  BY DEF TakeSnapshot
<1> DEFINE live == [n \in Names |-> db[Live(n)]]
<1>2. /\ DOMAIN snap' = Requests
      /\ \A p \in Requests \ {q} : snap'[p] = snap[p]
      /\ snap'[q].content = live
  BY <1>1 DEF ResponseInv
<1>3. SnapshotsShowOneLoad'
  <2>1. OneLoadOnRecord(live)
    BY TableNames DEF OneLoadOnRecord, GenerationsAgree, ShownLoadsAreOnRecord, Shown
  <2> HIDE DEF live
  <2>2. ASSUME NEW p \in Requests, snap'[p] # NoSnapshot
        PROVE  OneLoadOnRecord(snap'[p].content)
    BY <1>2, <2>1, <2>2 DEF ResponseInv, SnapshotsShowOneLoad
  <2>3. \A c : OneLoadOnRecord(c)' <=> OneLoadOnRecord(c)
    BY DEF OneLoadOnRecord, AuditRow
  <2> QED
    BY <2>2, <2>3 DEF SnapshotsShowOneLoad
<1>4. RowsAreOfTheSnapshot'
  BY <1>1, <1>2 DEF ResponseInv, RowsAreOfTheSnapshot
<1> QED
  BY <1>2, <1>3, <1>4 DEF ResponseInv

\* Reading a table: the snapshot's rows, or none where a TRUNCATE took them.
LEMMA ReadResponseInv ==
  ASSUME ResponseInv, NEW q \in Requests, ReadTable(q), UNCHANGED <<snap, audit>>
  PROVE  ResponseInv'
<1> DEFINE t == Head(todo[q])
<1>1. snap[q] # NoSnapshot
  BY DEF ReadTable, RequestWanted
<1>2. seen' = [seen EXCEPT ![q][t] = Visible(q, t)]
  BY DEF ReadTable
<1>3. Visible(q, t) \in {Empty, snap[q].content[t]}
  BY DEF Visible
<1> HIDE DEF t
<1>4. SnapshotsShowOneLoad'
  BY DEF ResponseInv, SnapshotsShowOneLoad, OneLoadOnRecord, AuditRow
<1>5. ASSUME NEW p \in Requests, NEW n \in Names
      PROVE  \/ seen'[p][n] = seen[p][n]
             \/ p = q /\ n = t /\ seen'[p][n] = Visible(q, t)
  BY <1>2 DEF ResponseInv
<1>6. RowsAreOfTheSnapshot'
  BY <1>1, <1>3, <1>5 DEF ResponseInv, RowsAreOfTheSnapshot
<1> QED
  BY <1>2, <1>4, <1>6 DEF ResponseInv

\* A writer's step leaves the requests' memory alone, and the record grows.
LEMMA WriterResponseInv ==
  ASSUME ResponseInv, UNCHANGED <<snap, seen>>, audit \subseteq audit'
  PROVE  ResponseInv'
BY DEF ResponseInv, SnapshotsShowOneLoad, OneLoadOnRecord, RowsAreOfTheSnapshot,
       AuditRow

\* Every step keeps ResponseInv.
LEMMA ApiNextResponseInv ==
  ASSUME GenerationsAgree, ShownLoadsAreOnRecord, ResponseInv, [ApiNext]_apiVars
  PROVE  ResponseInv'
<1>1. ASSUME NEW s, StaysWithin(s), UNCHANGED readVars
      PROVE  ResponseInv'
  BY <1>1, WriterResponseInv DEF StaysWithin, readVars
<1>2. ASSUME NEW q \in Requests, RequestStep(q)
      PROVE  ResponseInv'
  BY <1>2, OtherRequestSteps, SnapshotResponseInv, ReadResponseInv, WriterResponseInv
<1>3. ASSUME UNCHANGED apiVars
      PROVE  ResponseInv'
  BY <1>3, WriterResponseInv DEF apiVars, vars, jobVars, readVars
<1> QED
  BY <1>1, <1>2, <1>3, ApiNextKinds, WritersStayWithin

\* No request has read anything at the start.
LEMMA ApiInitResponseInv ==
  ASSUME ApiInit
  PROVE  ResponseInv
BY DEF ApiInit, ResponseInv, SnapshotsShowOneLoad, RowsAreOfTheSnapshot

\* In every reachable state what a request has read is of its snapshot.
THEOREM ResponsesAreOfTheirSnapshot == ApiSpec => []ResponseInv
BY ApiInitResponseInv, ApiNextResponseInv, ReadersSeeGoodTables, PTL DEF ApiSpec

\* The rows of one response never mix two loads, whatever commits while it is
\* assembled.
THEOREM NoResponseMixesLoads == ApiSpec => []ResponsesShowOneLoad
<1>1. ResponseInv => ResponsesShowOneLoad
  <2> SUFFICES ASSUME ResponseInv, NEW q \in Requests, NEW m \in Names, NEW n \in Names,
                      {seen[q][m], seen[q][n]} \cap {Empty, Unread} = {}
               PROVE  seen[q][m] = seen[q][n]
    BY DEF ResponsesShowOneLoad
  <2>1. /\ snap[q] # NoSnapshot
        /\ seen[q][m] = snap[q].content[m] /\ seen[q][n] = snap[q].content[n]
    BY DEF ResponseInv, RowsAreOfTheSnapshot
  <2>2. OneLoadOnRecord(snap[q].content)
    BY <2>1 DEF ResponseInv, SnapshotsShowOneLoad
  <2> QED
    BY <2>1, <2>2 DEF OneLoadOnRecord
<1> QED
  BY <1>1, ResponsesAreOfTheirSnapshot, PTL

\* Nobody is shown a row of a load that is not on record as a success.
THEOREM NothingUnrecordedIsServed == ApiSpec => []ResponsesAreOnRecord
<1>1. ResponseInv => ResponsesAreOnRecord
  <2> SUFFICES ASSUME ResponseInv, NEW q \in Requests, NEW n \in Names,
                      seen[q][n] \in Runs
               PROVE  AuditRow(seen[q][n], TRUE) \in audit
    BY DEF ResponsesAreOnRecord
  <2>1. seen[q][n] \notin {Empty, Unread}
    BY RunsAssumption, RequestsAssumption
  <2>2. snap[q] # NoSnapshot /\ seen[q][n] = snap[q].content[n]
    BY <2>1 DEF ResponseInv, RowsAreOfTheSnapshot
  <2> QED
    BY <2>2 DEF ResponseInv, SnapshotsShowOneLoad, OneLoadOnRecord
<1> QED
  BY <1>1, ResponsesAreOfTheirSnapshot, PTL

=============================================================================
