------------------------- MODULE TableLocks_proofs --------------------------
(***************************************************************************)
(* What the table locks buy, for any set of loads and rollbacks: the       *)
(* copies stay exact, the generations agree, indicator rows are final, and *)
(* the writers implement AtomicPublication.  Loads are kept apart by the   *)
(* locks alone: the ingestion lock is released before the COMMIT.          *)
(***************************************************************************)
EXTENDS Publication_proofs

-----------------------------------------------------------------------------
(* Where each program stands: what it has written at each place.           *)

AllWritten == {"record_run", "release_savepoint", "unlock", "commit"}

CommunesReplaced == {"upsert_sources"} \cup AllWritten
CommunesCopied == {"replace_communes"} \cup CommunesReplaced
IndicatorsAppended == {"drop_communes", "copy_communes"} \cup CommunesCopied
DirectoryReplaced == {"append_indicators"} \cup IndicatorsAppended
SitesCopied == {"replace_establishments"} \cup DirectoryReplaced
EstablishmentsCopied == {"drop_sites", "copy_sites"} \cup SitesCopied
SourcesCopied ==
  {"drop_establishments", "copy_establishments"} \cup EstablishmentsCopied

\* The tables a load at this place has copied, and those it has replaced.
CopiedAt(at) ==
  {n \in Names :
     \/ n = "source_reference" /\ at \in SourcesCopied
     \/ n = "establishment" /\ at \in EstablishmentsCopied
     \/ n = "site" /\ at \in SitesCopied
     \/ n = "commune" /\ at \in CommunesCopied}

ReplacedAt(at) ==
  {n \in Names :
     \/ n \in {"establishment", "site"} /\ at \in DirectoryReplaced
     \/ n = "commune" /\ at \in CommunesReplaced
     \/ n = "source_reference" /\ at \in AllWritten}

SourcesChecked == {"truncate_sources", "restore_sources", "commit"}
CommunesChecked ==
  {"truncate_communes", "restore_communes", "check_sources"} \cup SourcesChecked

\* The tables a rollback at this place has found a copy of, has truncated and
\* not refilled, and has refilled.
CheckedAt(at) ==
  {n \in Names :
     \/ n \in {"establishment", "site"} /\ at \in RestorePcs \ {"check_establishments"}
     \/ n = "commune" /\ at \in CommunesChecked
     \/ n = "source_reference" /\ at \in SourcesChecked}

EmptiedAt(at) ==
  {n \in Names :
     \/ n = "establishment" /\ at = "restore_establishments"
     \/ n = "site" /\ at \in {"restore_establishments", "restore_sites"}
     \/ n = "commune" /\ at = "restore_communes"
     \/ n = "source_reference" /\ at = "restore_sources"}

RestoredAt(at) ==
  {n \in Names :
     \/ n = "establishment" /\ at \in {"restore_sites", "check_communes"} \cup CommunesChecked
     \/ n = "site" /\ at \in {"check_communes"} \cup CommunesChecked
     \/ n = "commune" /\ at \in {"check_sources"} \cup SourcesChecked
     \/ n = "source_reference" /\ at = "commit"}

-----------------------------------------------------------------------------
(* The inductive invariant.                                                *)

\* Two transactions never hold conflicting locks on one table.
LocksExclude ==
  \A s, q \in Sessions, x \in Tables :
    s # q /\ held[s][x] = "exclusive" => held[q][x] = "none"

\* A load's writes, by its place.  A copy is of what shows now, under locks
\* that keep both its ends as they are.
LoadPlace(r) ==
  \A n \in Names :
    /\ dirty[r][Live(n)] = IF n \in ReplacedAt(pc[r]) THEN r ELSE Untouched
    /\ IF n \in CopiedAt(pc[r])
       THEN /\ dirty[r][Previous(n)] = db[Live(n)]
            /\ held[r][Previous(n)] = "exclusive"
            /\ held[r][Live(n)] # "none"
       ELSE dirty[r][Previous(n)] \in {Untouched, Absent}

\* A rollback's writes, by its place.
RollbackPlace(b) ==
  \A n \in Names :
    /\ dirty[b][Previous(n)] = Untouched
    /\ dirty[b][Live(n)] = IF n \in RestoredAt(pc[b]) THEN db[Previous(n)]
                           ELSE IF n \in EmptiedAt(pc[b]) THEN Empty
                           ELSE Untouched
    /\ n \in EmptiedAt(pc[b]) \cup RestoredAt(pc[b]) =>
         held[b][Live(n)] = "exclusive"
    /\ n \in RestoredAt(pc[b]) => held[b][Previous(n)] # "none"
    /\ n \in CheckedAt(pc[b]) => db[Previous(n)] # Absent

\* The indicator rows a load is about to add are the rows it offers whose
\* keys are free.
AppendsWhatIsFree(r) ==
  inserted[r] = IF pc[r] \in IndicatorsAppended
                THEN {k \in Offers[r] : indicators[k] = NoRow} ELSE {}

LiveTablesExist == \A n \in Names : db[Live(n)] # Absent

TablesInv ==
  /\ LocksExclude
  /\ \A r \in Runs : LoadPlace(r) /\ AppendsWhatIsFree(r)
  /\ \A b \in Rollbacks : RollbackPlace(b)
  /\ LiveTablesExist
  /\ GenerationsAgree

-----------------------------------------------------------------------------
(* Tables and locks.                                                       *)

\* A live table and a copy are different tables, and those of different names.
LEMMA TableNames ==
  ASSUME NEW m \in Names, NEW n \in Names
  PROVE  /\ Live(m) \in Tables /\ Previous(m) \in Tables
         /\ Live(m) # Previous(n)
         /\ Live(m) = Live(n) <=> m = n
         /\ Previous(m) = Previous(n) <=> m = n
BY DEF Live, Previous, Tables

\* A granted request gives its session what it asks for and takes nothing
\* from it, nor from anybody else.
LEMMA GrantedLocks ==
  ASSUME TablesTypeOK, NEW s \in Sessions, NEW req, Grant(s, req)
  PROVE  /\ \A q \in Sessions \ {s} : held'[q] = held[q]
         /\ \A x \in Tables : /\ x \in req.exclusive => held'[s][x] = "exclusive"
                              /\ x \in req.shared => held'[s][x] # "none"
                              /\ held[s][x] # "none" => held'[s][x] # "none"
                              /\ held[s][x] = "exclusive" => held'[s][x] = "exclusive"
BY DEF TablesTypeOK, Grant

\* A request is granted only where nobody holds a conflicting lock.
LEMMA GrantKeepsLocksApart ==
  ASSUME TablesTypeOK, LocksExclude, NEW s \in Sessions, NEW req,
         Grantable(s, req), Grant(s, req)
  PROVE  LocksExclude'
<1> SUFFICES ASSUME NEW p \in Sessions, NEW q \in Sessions, NEW x \in Tables,
                    p # q, held'[p][x] = "exclusive"
             PROVE  held'[q][x] = "none"
  BY DEF LocksExclude
<1>1. \A z \in Sessions \ {s} : ~Conflicts(held[z][x], req, x)
  BY DEF Grantable, WaitsOn, Conflicts
<1>2. held' = [held EXCEPT ![s] = [y \in Tables |->
                 IF y \in req.exclusive THEN "exclusive"
                 ELSE IF y \in req.shared /\ held[s][y] = "none" THEN "shared"
                 ELSE held[s][y]]]
  BY DEF Grant
<1>3. CASE p = s
  BY <1>1, <1>2, <1>3 DEF TablesTypeOK, LocksExclude, Conflicts
<1>4. CASE q = s
  BY <1>1, <1>2, <1>4 DEF TablesTypeOK, LocksExclude, Conflicts
<1>5. CASE p # s /\ q # s
  BY <1>2, <1>5 DEF TablesTypeOK, LocksExclude
<1> QED
  BY <1>3, <1>4, <1>5

\* A transaction that ends only gives locks back.
LEMMA EndKeepsLocksApart ==
  ASSUME TablesTypeOK, LocksExclude, NEW s \in Sessions, EndTransaction(s)
  PROVE  LocksExclude'
BY DEF TablesTypeOK, LocksExclude, EndTransaction, NoLocks

\* What is left of a transaction that has ended, and of the others.
LEMMA EndedWrites ==
  ASSUME TablesTypeOK, NEW s \in Sessions, EndTransaction(s)
  PROVE  /\ \A q \in Sessions \ {s} : dirty'[q] = dirty[q] /\ held'[q] = held[q]
         /\ \A x \in Tables : dirty'[s][x] = Untouched
BY DEF TablesTypeOK, EndTransaction, NothingDirty

-----------------------------------------------------------------------------
(* A statement.                                                            *)

\* A step of s that commits nothing leaves every other program at its place.
LEMMA OthersKeepTheirPlace ==
  ASSUME TypeOK, TablesInv, NEW s \in Sessions,
         UNCHANGED <<db, indicators>>,
         \A q \in Sessions \ {s} : /\ dirty'[q] = dirty[q]
                                   /\ held'[q] = held[q]
                                   /\ pc'[q] = pc[q],
         \A q \in Runs \ {s} : inserted'[q] = inserted[q]
  PROVE  /\ \A r \in Runs \ {s} : LoadPlace(r)' /\ AppendsWhatIsFree(r)'
         /\ \A b \in Rollbacks \ {s} : RollbackPlace(b)'
         /\ LiveTablesExist' /\ GenerationsAgree'
<1>1. Runs \subseteq Sessions /\ Rollbacks \subseteq Sessions
  BY RunsAssumption, RollbacksAssumption
<1>2. ASSUME NEW r \in Runs \ {s}
      PROVE  LoadPlace(r)' /\ AppendsWhatIsFree(r)'
  BY <1>1, <1>2 DEF TablesInv, LoadPlace, AppendsWhatIsFree
<1>3. ASSUME NEW b \in Rollbacks \ {s}
      PROVE  RollbackPlace(b)'
  BY <1>1, <1>3 DEF TablesInv, RollbackPlace
<1> QED
  BY <1>2, <1>3 DEF TablesInv, LiveTablesExist, GenerationsAgree

\* The same of a statement of s.
LEMMA StatementFrame ==
  ASSUME TypeOK, TablesInv, NEW s \in Sessions, NEW at, NEW after, NEW req,
         Statement(s, at, after, req),
         \A q \in Sessions \ {s} : dirty'[q] = dirty[q],
         \A q \in Runs \ {s} : inserted'[q] = inserted[q]
  PROVE  /\ LocksExclude' /\ LiveTablesExist' /\ GenerationsAgree'
         /\ \A r \in Runs \ {s} : LoadPlace(r)' /\ AppendsWhatIsFree(r)'
         /\ \A b \in Rollbacks \ {s} : RollbackPlace(b)'
         /\ pc[s] = at /\ pc'[s] = after
         /\ UNCHANGED <<db, indicators>>
<1>1. /\ \A q \in Sessions \ {s} : held'[q] = held[q] /\ pc'[q] = pc[q]
      /\ pc[s] = at /\ pc'[s] = after
      /\ UNCHANGED <<db, indicators>>
  BY GrantedLocks DEF Statement, Goto, TypeOK
<1>2. LocksExclude'
  BY GrantKeepsLocksApart DEF Statement, TypeOK, TablesInv
<1> QED
  BY <1>1, <1>2, OthersKeepTheirPlace

\* A write puts its rows where it says, and nothing elsewhere.
LEMMA WrittenRows ==
  ASSUME TablesTypeOK, NEW s \in Sessions, NEW changes, Write(s, changes)
  PROVE  /\ \A q \in Sessions \ {s} : dirty'[q] = dirty[q]
         /\ \A x \in Tables : dirty'[s][x] = IF x \in DOMAIN changes
                                             THEN changes[x] ELSE dirty[s][x]
BY DEF TablesTypeOK, Write

-----------------------------------------------------------------------------
(* The statements of a load.                                               *)

\* What a load's statement leaves to show: its own program at its place.
LEMMA LoadStatement ==
  ASSUME TypeOK, TablesInv, NEW r \in Runs, NEW at, NEW after, NEW req,
         Statement(r, at, after, req),
         \A q \in Sessions \ {r} : dirty'[q] = dirty[q],
         \A q \in Runs \ {r} : inserted'[q] = inserted[q],
         LoadPlace(r)', AppendsWhatIsFree(r)'
  PROVE  TablesInv'
<1>1. r \in Sessions /\ r \notin Rollbacks
  BY RunsAssumption, RollbacksAssumption
<1>2. /\ LocksExclude' /\ LiveTablesExist' /\ GenerationsAgree'
      /\ \A q \in Runs \ {r} : LoadPlace(q)' /\ AppendsWhatIsFree(q)'
      /\ \A b \in Rollbacks \ {r} : RollbackPlace(b)'
  BY <1>1, StatementFrame
<1> QED
  BY <1>1, <1>2 DEF TablesInv

\* A statement that inserts no indicator row, at a place before or after the
\* one that does.
LEMMA NothingAppended ==
  ASSUME TypeOK, TablesInv, NEW r \in Runs, NEW at, NEW after, NEW req,
         Statement(r, at, after, req), UNCHANGED inserted,
         at \in IndicatorsAppended <=> after \in IndicatorsAppended
  PROVE  AppendsWhatIsFree(r)'
<1>1. /\ pc[r] = at /\ pc'[r] = after
      /\ UNCHANGED indicators
  BY RunsAssumption DEF Statement, Goto, TypeOK
<1> QED
  BY <1>1 DEF TablesInv, AppendsWhatIsFree

\* A statement that writes no table.
LEMMA NothingWritten ==
  ASSUME TypeOK, TablesInv, NEW r \in Runs, NEW at, NEW after, NEW req,
         Statement(r, at, after, req), UNCHANGED dirty,
         CopiedAt(after) = CopiedAt(at), ReplacedAt(after) = ReplacedAt(at)
  PROVE  LoadPlace(r)'
<1>1. r \in Sessions
  BY RunsAssumption
<1>2. pc[r] = at /\ pc'[r] = after /\ UNCHANGED db /\ Grant(r, req)
  BY <1>1 DEF Statement, Goto, TypeOK
<1>3. \A n \in Names : Live(n) \in Tables /\ Previous(n) \in Tables
  BY TableNames
<1> QED
  BY <1>1, <1>2, <1>3, GrantedLocks DEF TablesInv, LoadPlace, TypeOK

\* What the lemmas below need of two consecutive places of the program: the
\* table copied between them, the tables replaced between them.
Consecutive(at, after, copied, replaced) ==
  /\ CopiedAt(after) = CopiedAt(at) \cup copied
  /\ ReplacedAt(after) = ReplacedAt(at) \cup replaced
  /\ copied \cap ReplacedAt(at) = {}
  /\ at \in IndicatorsAppended <=> after \in IndicatorsAppended

\* A statement that writes neither a table nor an indicator row.
LEMMA QuietStatement ==
  ASSUME TypeOK, TablesInv, NEW r \in Runs, NEW at, NEW after, NEW req,
         Statement(r, at, after, req), UNCHANGED <<dirty, inserted>>,
         Consecutive(at, after, {}, {})
  PROVE  TablesInv'
<1>1. LoadPlace(r)'
  BY NothingWritten DEF Consecutive
<1> QED
  BY <1>1, NothingAppended, LoadStatement DEF Consecutive

\* DROP TABLE IF EXISTS: the copy is gone for this load, or was not there.
LEMMA DropKeepsPlace ==
  ASSUME TypeOK, TablesInv, NEW r \in Runs, NEW m \in Names, NEW at, NEW after,
         DropPrevious(r, m, at, after),
         m \notin CopiedAt(at), Consecutive(at, after, {}, {})
  PROVE  TablesInv'
<1>1. r \in Sessions
  BY RunsAssumption
<1> DEFINE req == DropRequest(r, m)
<1>2. Statement(r, at, after, req) /\ UNCHANGED inserted
  BY DEF DropPrevious
<1>3. pc[r] = at /\ pc'[r] = after /\ UNCHANGED db /\ Grant(r, req)
  BY <1>1, <1>2 DEF Statement, Goto, TypeOK
<1>4. req.exclusive \subseteq {Previous(m)}
  BY DEF DropRequest, Request
<1>5. /\ \A q \in Sessions \ {r} : dirty'[q] = dirty[q]
      /\ \A x \in Tables : dirty'[r][x] = IF x \in req.exclusive
                                          THEN Absent ELSE dirty[r][x]
  BY <1>1, WrittenRows DEF DropPrevious, TypeOK
<1>6. \A n \in Names : /\ dirty'[r][Live(n)] = dirty[r][Live(n)]
                       /\ n # m => dirty'[r][Previous(n)] = dirty[r][Previous(n)]
                       /\ dirty'[r][Previous(n)] \in {dirty[r][Previous(n)], Absent}
  BY <1>4, <1>5, TableNames
<1>7. LoadPlace(r)'
  BY <1>1, <1>3, <1>6, TableNames, GrantedLocks
     DEF TablesInv, LoadPlace, TypeOK, Consecutive
<1> QED
  BY <1>2, <1>5, <1>7, NothingAppended, LoadStatement DEF Consecutive

\* CREATE TABLE AS SELECT: from now on the copy is of what shows.
LEMMA CopyKeepsPlace ==
  ASSUME TypeOK, TablesInv, NEW r \in Runs, NEW m \in Names, NEW at, NEW after,
         CopyToPrevious(r, m, at, after),
         Consecutive(at, after, {m}, {})
  PROVE  TablesInv'
<1>1. r \in Sessions
  BY RunsAssumption
<1>2. Statement(r, at, after, CopyRequest(m)) /\ UNCHANGED inserted
  BY DEF CopyToPrevious
<1>3. pc[r] = at /\ pc'[r] = after /\ UNCHANGED db /\ Grant(r, CopyRequest(m))
  BY <1>1, <1>2 DEF Statement, Goto, TypeOK
<1>4. View(r, Live(m)) = db[Live(m)]
  BY <1>3 DEF TablesInv, LoadPlace, View, Consecutive
<1>5. /\ \A q \in Sessions \ {r} : dirty'[q] = dirty[q]
      /\ \A x \in Tables : dirty'[r][x] = IF x = Previous(m)
                                          THEN db[Live(m)] ELSE dirty[r][x]
  BY <1>1, <1>4, WrittenRows DEF CopyToPrevious, TypeOK
<1>6. \A n \in Names : /\ dirty'[r][Live(n)] = dirty[r][Live(n)]
                       /\ n # m => dirty'[r][Previous(n)] = dirty[r][Previous(n)]
                       /\ dirty'[r][Previous(m)] = db[Live(m)]
  BY <1>5, TableNames
<1>7. held'[r][Previous(m)] = "exclusive" /\ held'[r][Live(m)] # "none"
  BY <1>1, <1>3, TableNames, GrantedLocks DEF CopyRequest, Request, TypeOK
<1>8. LoadPlace(r)'
  BY <1>1, <1>3, <1>6, <1>7, TableNames, GrantedLocks
     DEF TablesInv, LoadPlace, TypeOK, Consecutive
<1> QED
  BY <1>2, <1>5, <1>8, NothingAppended, LoadStatement DEF Consecutive

\* A statement that writes load r into live tables, whatever locks it takes:
\* TRUNCATE and COPY, or the upserts.
LEMMA ReplaceKeepsPlace ==
  ASSUME TypeOK, TablesInv, NEW r \in Runs, NEW names \in SUBSET Names,
         NEW at, NEW after, NEW req, Statement(r, at, after, req),
         Write(r, [x \in {Live(n) : n \in names} |-> r]), UNCHANGED inserted,
         Consecutive(at, after, {}, names)
  PROVE  TablesInv'
<1>1. r \in Sessions
  BY RunsAssumption
<1>2. pc[r] = at /\ pc'[r] = after /\ UNCHANGED db /\ Grant(r, req)
  BY <1>1 DEF Statement, Goto, TypeOK
<1>3. /\ \A q \in Sessions \ {r} : dirty'[q] = dirty[q]
      /\ \A x \in Tables : dirty'[r][x] = IF x \in {Live(n) : n \in names}
                                          THEN r ELSE dirty[r][x]
  BY <1>1, WrittenRows DEF TypeOK
<1>4. \A n \in Names : /\ dirty'[r][Previous(n)] = dirty[r][Previous(n)]
                       /\ dirty'[r][Live(n)] = IF n \in names THEN r ELSE dirty[r][Live(n)]
  BY <1>3, TableNames
<1>5. LoadPlace(r)'
  BY <1>1, <1>2, <1>4, TableNames, GrantedLocks
     DEF TablesInv, LoadPlace, TypeOK, Consecutive
<1> QED
  BY <1>3, <1>5, NothingAppended, LoadStatement DEF Consecutive

\* The places of a load in its program's order.
LEMMA LoadEdges ==
  /\ "source_reference" \notin CopiedAt("drop_sources")
  /\ Consecutive("drop_sources", "copy_sources", {}, {})
  /\ Consecutive("copy_sources", "drop_establishments", {"source_reference"}, {})
  /\ "establishment" \notin CopiedAt("drop_establishments")
  /\ Consecutive("drop_establishments", "copy_establishments", {}, {})
  /\ Consecutive("copy_establishments", "drop_sites", {"establishment"}, {})
  /\ "site" \notin CopiedAt("drop_sites")
  /\ Consecutive("drop_sites", "copy_sites", {}, {})
  /\ Consecutive("copy_sites", "replace_establishments", {"site"}, {})
  /\ Consecutive("replace_establishments", "append_indicators",
                 {}, {"establishment", "site"})
  /\ CopiedAt("drop_communes") = CopiedAt("append_indicators")
  /\ ReplacedAt("drop_communes") = ReplacedAt("append_indicators")
  /\ "commune" \notin CopiedAt("drop_communes")
  /\ Consecutive("drop_communes", "copy_communes", {}, {})
  /\ Consecutive("copy_communes", "replace_communes", {"commune"}, {})
  /\ Consecutive("replace_communes", "upsert_sources", {}, {"commune"})
  /\ Consecutive("upsert_sources", "record_run", {}, {"source_reference"})
  /\ Consecutive("record_run", "release_savepoint", {}, {})
  /\ Consecutive("release_savepoint", "unlock", {}, {})
  /\ Consecutive("unlock", "commit", {}, {})
BY DEF Consecutive, CopiedAt, ReplacedAt, SourcesCopied, EstablishmentsCopied,
       SitesCopied, DirectoryReplaced, IndicatorsAppended, CommunesCopied,
       CommunesReplaced, AllWritten, Names

\* Every statement of a load keeps the invariant.
LEMMA WriteStepTablesInv ==
  ASSUME TypeOK, TablesInv, NEW r \in Runs, WriteStep(r)
  PROVE  TablesInv'
<1>1. r \in Sessions
  BY RunsAssumption
<1>3. /\ "establishment" \in Names /\ "site" \in Names /\ "commune" \in Names
      /\ "source_reference" \in Names
  BY DEF Names
<1>4. CASE DropPrevious(r, "source_reference", "drop_sources", "copy_sources")
  BY <1>3, <1>4, DropKeepsPlace, LoadEdges
<1>5. CASE CopyToPrevious(r, "source_reference", "copy_sources", "drop_establishments")
  BY <1>3, <1>5, CopyKeepsPlace, LoadEdges
<1>6. CASE DropPrevious(r, "establishment", "drop_establishments", "copy_establishments")
  BY <1>3, <1>6, DropKeepsPlace, LoadEdges
<1>7. CASE CopyToPrevious(r, "establishment", "copy_establishments", "drop_sites")
  BY <1>3, <1>7, CopyKeepsPlace, LoadEdges
<1>8. CASE DropPrevious(r, "site", "drop_sites", "copy_sites")
  BY <1>3, <1>8, DropKeepsPlace, LoadEdges
<1>9. CASE CopyToPrevious(r, "site", "copy_sites", "replace_establishments")
  BY <1>3, <1>9, CopyKeepsPlace, LoadEdges
<1>10. CASE ReplaceLive(r, {"establishment", "site"}, "replace_establishments", "append_indicators")
  BY <1>3, <1>10, ReplaceKeepsPlace, LoadEdges DEF ReplaceLive
<1>11. CASE AppendIndicators(r)
  <2>1. /\ Statement(r, "append_indicators", "drop_communes", NoRequest)
        /\ inserted' = [inserted EXCEPT ![r] = {k \in Offers[r] : indicators[k] = NoRow}]
        /\ UNCHANGED dirty
    BY <1>11 DEF AppendIndicators
  <2>2. LoadPlace(r)'
    BY <2>1, NothingWritten, LoadEdges
  <2>3. pc'[r] = "drop_communes" /\ UNCHANGED indicators
    BY <1>1, <2>1 DEF Statement, Goto, TypeOK
  <2>4. AppendsWhatIsFree(r)'
    BY <2>1, <2>3 DEF AppendsWhatIsFree, TypeOK, JobTypeOK, IndicatorsAppended
  <2>5. \A q \in Runs \ {r} : inserted'[q] = inserted[q]
    BY <2>1 DEF TypeOK, JobTypeOK
  <2> QED
    BY <2>1, <2>2, <2>4, <2>5, LoadStatement
<1>12. CASE DropPrevious(r, "commune", "drop_communes", "copy_communes")
  BY <1>3, <1>12, DropKeepsPlace, LoadEdges
<1>13. CASE CopyToPrevious(r, "commune", "copy_communes", "replace_communes")
  BY <1>3, <1>13, CopyKeepsPlace, LoadEdges
<1>14. CASE ReplaceLive(r, {"commune"}, "replace_communes", "upsert_sources")
  BY <1>3, <1>14, ReplaceKeepsPlace, LoadEdges DEF ReplaceLive
<1>15. CASE UpsertSources(r)
  <2> DEFINE req == Request({}, {Live("source_reference")})
  <2>1. \A x : x \in {Live("source_reference")} <=>
               x \in {Live(n) : n \in {"source_reference"}}
    BY Zenon
  <2>2. [x \in {Live("source_reference")} |-> r]
          = [x \in {Live(n) : n \in {"source_reference"}} |-> r]
    BY <2>1
  <2>3. /\ Statement(r, "upsert_sources", "record_run", req)
        /\ Write(r, [x \in {Live(n) : n \in {"source_reference"}} |-> r])
        /\ UNCHANGED inserted
    BY <1>15, <2>2 DEF UpsertSources
  <2>4. {"source_reference"} \in SUBSET Names
    BY <1>3
  <2> HIDE DEF req
  <2> QED
    BY <2>3, <2>4, ReplaceKeepsPlace, LoadEdges
<1>16. CASE RecordRun(r)
  BY <1>16, QuietStatement, LoadEdges DEF RecordRun
<1>17. CASE ReleaseSavepoint(r)
  BY <1>17, QuietStatement, LoadEdges DEF ReleaseSavepoint
<1> QED
  BY <1>4, <1>5, <1>6, <1>7, <1>8, <1>9, <1>10, <1>11, <1>12, <1>13, <1>14,
     <1>15, <1>16, <1>17 DEF WriteStep

-----------------------------------------------------------------------------
(* The statements of a rollback.                                           *)

\* What a rollback's statement leaves to show: its own program at its place.
LEMMA RollbackStatement ==
  ASSUME TypeOK, TablesInv, NEW b \in Rollbacks, NEW at, NEW after, NEW req,
         Statement(b, at, after, req),
         \A q \in Sessions \ {b} : dirty'[q] = dirty[q], UNCHANGED inserted,
         RollbackPlace(b)'
  PROVE  TablesInv'
<1>1. b \in Sessions /\ b \notin Runs
  BY RollbacksAssumption
<1>2. /\ LocksExclude' /\ LiveTablesExist' /\ GenerationsAgree'
      /\ \A r \in Runs \ {b} : LoadPlace(r)' /\ AppendsWhatIsFree(r)'
      /\ \A q \in Rollbacks \ {b} : RollbackPlace(q)'
  BY <1>1, StatementFrame
<1> QED
  BY <1>1, <1>2 DEF TablesInv

\* What the lemmas below need of two consecutive places of the program: the
\* tables truncated and those refilled between them.
Restoring(at, after, emptied, restored) ==
  /\ EmptiedAt(after) = (EmptiedAt(at) \cup emptied) \ restored
  /\ RestoredAt(after) = RestoredAt(at) \cup restored
  /\ emptied \cap RestoredAt(at) = {}

\* TRUNCATE of live tables.
LEMMA TruncateKeepsPlace ==
  ASSUME TypeOK, TablesInv, NEW b \in Rollbacks, NEW names \in SUBSET Names,
         NEW at, NEW after, TruncateLive(b, names, at, after),
         Restoring(at, after, names, {}), CheckedAt(after) = CheckedAt(at)
  PROVE  TablesInv'
<1>1. b \in Sessions
  BY RollbacksAssumption
<1> DEFINE req == Request({Live(n) : n \in names}, {})
<1>2. Statement(b, at, after, req) /\ UNCHANGED inserted
  BY DEF TruncateLive
<1>3. pc[b] = at /\ pc'[b] = after /\ UNCHANGED db /\ Grant(b, req)
  BY <1>1, <1>2 DEF Statement, Goto, TypeOK
<1>4. /\ \A q \in Sessions \ {b} : dirty'[q] = dirty[q]
      /\ \A x \in Tables : dirty'[b][x] = IF x \in {Live(n) : n \in names}
                                          THEN Empty ELSE dirty[b][x]
  BY <1>1, WrittenRows DEF TruncateLive, TypeOK
<1>5. \A n \in Names : /\ dirty'[b][Previous(n)] = dirty[b][Previous(n)]
                       /\ dirty'[b][Live(n)] = IF n \in names THEN Empty
                                               ELSE dirty[b][Live(n)]
                       /\ n \in names => held'[b][Live(n)] = "exclusive"
  BY <1>1, <1>3, <1>4, TableNames, GrantedLocks DEF Request, TypeOK
<1>6. RollbackPlace(b)'
  BY <1>1, <1>3, <1>5, TableNames, GrantedLocks
     DEF TablesInv, RollbackPlace, TypeOK, Restoring
<1> QED
  BY <1>2, <1>4, <1>6, RollbackStatement

\* INSERT ... SELECT: a table already emptied is filled from a copy that is
\* there, as the check before found.
LEMMA RestoreKeepsPlace ==
  ASSUME TypeOK, TablesInv, NEW b \in Rollbacks, NEW m \in Names,
         NEW at, NEW after, RestoreLive(b, m, at, after),
         m \in EmptiedAt(at),
         Restoring(at, after, {}, {m}), CheckedAt(after) = CheckedAt(at)
  PROVE  TablesInv'
<1>1. b \in Sessions
  BY RollbacksAssumption
<1> DEFINE req == Request({}, {Previous(m)})
<1>2. Statement(b, at, after, req) /\ UNCHANGED inserted
  BY DEF RestoreLive
<1>3. pc[b] = at /\ pc'[b] = after /\ UNCHANGED db /\ Grant(b, req)
  BY <1>1, <1>2 DEF Statement, Goto, TypeOK
<1>4. View(b, Previous(m)) = db[Previous(m)]
  BY DEF TablesInv, RollbackPlace, View
<1>5. /\ \A q \in Sessions \ {b} : dirty'[q] = dirty[q]
      /\ \A x \in Tables : dirty'[b][x] = IF x = Live(m) THEN db[Previous(m)]
                                          ELSE dirty[b][x]
  BY <1>1, <1>4, WrittenRows DEF RestoreLive, TypeOK
<1>6. \A n \in Names : /\ dirty'[b][Previous(n)] = dirty[b][Previous(n)]
                       /\ dirty'[b][Live(n)] = IF n = m THEN db[Previous(m)]
                                               ELSE dirty[b][Live(n)]
  BY <1>5, TableNames
<1>7. held'[b][Previous(m)] # "none"
  BY <1>1, <1>3, TableNames, GrantedLocks DEF Request, TypeOK
<1>8. RollbackPlace(b)'
  BY <1>1, <1>3, <1>6, <1>7, TableNames, GrantedLocks
     DEF TablesInv, RollbackPlace, TypeOK, Restoring
<1> QED
  BY <1>2, <1>5, <1>8, RollbackStatement

\* to_regclass: no lock, but a copy once found stays until the transaction
\* ends, since what replaces it is another copy.
LEMMA CheckKeepsPlace ==
  ASSUME TypeOK, TablesInv, NEW b \in Rollbacks, NEW names \in SUBSET Names,
         NEW at, NEW after, CheckPrevious(b, names, at, after),
         Restoring(at, after, {}, {}),
         CheckedAt(after) = CheckedAt(at) \cup names
  PROVE  TablesInv'
<1>1. b \in Sessions /\ b \notin Runs
  BY RollbacksAssumption
<1>2. /\ pc[b] = at /\ pc' = [pc EXCEPT ![b] = after]
      /\ UNCHANGED <<db, dirty, held, inserted, indicators>>
      /\ \A n \in names : db[Previous(n)] # Absent
  BY DEF CheckPrevious, Goto, tableVars, jobVars
<1>3. /\ \A r \in Runs \ {b} : LoadPlace(r)' /\ AppendsWhatIsFree(r)'
      /\ \A q \in Rollbacks \ {b} : RollbackPlace(q)'
      /\ LiveTablesExist' /\ GenerationsAgree'
  BY <1>1, <1>2, OthersKeepTheirPlace DEF TypeOK
<1>4. RollbackPlace(b)'
  BY <1>1, <1>2 DEF TablesInv, RollbackPlace, TypeOK, Restoring
<1>5. LocksExclude'
  BY <1>2 DEF TablesInv, LocksExclude
<1> QED
  BY <1>1, <1>3, <1>4, <1>5 DEF TablesInv

\* The places of a rollback in its program's order.
LEMMA RollbackEdges ==
  /\ Restoring("check_establishments", "truncate_establishments", {}, {})
  /\ Restoring("truncate_establishments", "restore_establishments",
               {"establishment", "site"}, {})
  /\ "establishment" \in EmptiedAt("restore_establishments")
  /\ Restoring("restore_establishments", "restore_sites", {}, {"establishment"})
  /\ "site" \in EmptiedAt("restore_sites")
  /\ Restoring("restore_sites", "check_communes", {}, {"site"})
  /\ Restoring("check_communes", "truncate_communes", {}, {})
  /\ Restoring("truncate_communes", "restore_communes", {"commune"}, {})
  /\ "commune" \in EmptiedAt("restore_communes")
  /\ Restoring("restore_communes", "check_sources", {}, {"commune"})
  /\ Restoring("check_sources", "truncate_sources", {}, {})
  /\ Restoring("truncate_sources", "restore_sources", {"source_reference"}, {})
  /\ "source_reference" \in EmptiedAt("restore_sources")
  /\ Restoring("restore_sources", "commit", {}, {"source_reference"})
BY DEF Restoring, EmptiedAt, RestoredAt, CommunesChecked, SourcesChecked, Names

\* And the tables it has found a copy of.
LEMMA CheckedEdges ==
  /\ CheckedAt("truncate_establishments") =
       CheckedAt("check_establishments") \cup {"establishment", "site"}
  /\ CheckedAt("restore_establishments") = CheckedAt("truncate_establishments")
  /\ CheckedAt("restore_sites") = CheckedAt("restore_establishments")
  /\ CheckedAt("check_communes") = CheckedAt("restore_sites")
  /\ CheckedAt("truncate_communes") = CheckedAt("check_communes") \cup {"commune"}
  /\ CheckedAt("restore_communes") = CheckedAt("truncate_communes")
  /\ CheckedAt("check_sources") = CheckedAt("restore_communes")
  /\ CheckedAt("truncate_sources") = CheckedAt("check_sources") \cup {"source_reference"}
  /\ CheckedAt("restore_sources") = CheckedAt("truncate_sources")
  /\ CheckedAt("commit") = CheckedAt("restore_sources")
BY DEF CheckedAt, CommunesChecked, SourcesChecked, RestorePcs, Names

\* Every statement of a rollback keeps the invariant.
LEMMA RestoreStepTablesInv ==
  ASSUME TypeOK, TablesInv, NEW b \in Rollbacks, RestoreStep(b)
  PROVE  TablesInv'
<1>1. /\ "establishment" \in Names /\ "site" \in Names /\ "commune" \in Names
      /\ "source_reference" \in Names
  BY DEF Names
<1>2. /\ {"establishment", "site"} \in SUBSET Names /\ {"commune"} \in SUBSET Names
      /\ {"source_reference"} \in SUBSET Names
  BY <1>1
<1>3. CASE CheckPrevious(b, {"establishment", "site"}, "check_establishments",
                         "truncate_establishments")
  BY <1>2, <1>3, CheckKeepsPlace, RollbackEdges, CheckedEdges, Zenon
<1>4. CASE TruncateLive(b, {"establishment", "site"}, "truncate_establishments",
                        "restore_establishments")
  BY <1>2, <1>4, TruncateKeepsPlace, RollbackEdges, CheckedEdges, Zenon
<1>5. CASE RestoreLive(b, "establishment", "restore_establishments", "restore_sites")
  BY <1>1, <1>5, RestoreKeepsPlace, RollbackEdges, CheckedEdges, Zenon
<1>6. CASE RestoreLive(b, "site", "restore_sites", "check_communes")
  BY <1>1, <1>6, RestoreKeepsPlace, RollbackEdges, CheckedEdges, Zenon
<1>7. CASE CheckPrevious(b, {"commune"}, "check_communes", "truncate_communes")
  BY <1>2, <1>7, CheckKeepsPlace, RollbackEdges, CheckedEdges, Zenon
<1>8. CASE TruncateLive(b, {"commune"}, "truncate_communes", "restore_communes")
  BY <1>2, <1>8, TruncateKeepsPlace, RollbackEdges, CheckedEdges, Zenon
<1>9. CASE RestoreLive(b, "commune", "restore_communes", "check_sources")
  BY <1>1, <1>9, RestoreKeepsPlace, RollbackEdges, CheckedEdges, Zenon
<1>10. CASE CheckPrevious(b, {"source_reference"}, "check_sources", "truncate_sources")
  BY <1>2, <1>10, CheckKeepsPlace, RollbackEdges, CheckedEdges, Zenon
<1>11. CASE TruncateLive(b, {"source_reference"}, "truncate_sources", "restore_sources")
  BY <1>2, <1>11, TruncateKeepsPlace, RollbackEdges, CheckedEdges, Zenon
<1>12. CASE RestoreLive(b, "source_reference", "restore_sources", "commit")
  BY <1>1, <1>12, RestoreKeepsPlace, RollbackEdges, CheckedEdges, Zenon
<1> QED
  BY <1>3, <1>4, <1>5, <1>6, <1>7, <1>8, <1>9, <1>10, <1>11, <1>12
     DEF RestoreStep

-----------------------------------------------------------------------------
(* The end of a transaction.                                               *)

\* Places where nothing is written, or nothing any longer.
Blank(at) ==
  /\ CopiedAt(at) = {} /\ ReplacedAt(at) = {} /\ at \notin IndicatorsAppended
  /\ CheckedAt(at) = {} /\ EmptiedAt(at) = {} /\ RestoredAt(at) = {}

\* The places before the first write and after the end.
LEMMA BlankPlaces ==
  \A at \in {"idle", "try_lock", "fetch", "drop_sources", "check_establishments"}
            \cup HandlerPcs \cup EndPcs : Blank(at)
BY DEF Blank, CopiedAt, ReplacedAt, CheckedAt, EmptiedAt, RestoredAt,
       SourcesCopied, EstablishmentsCopied, SitesCopied, DirectoryReplaced,
       IndicatorsAppended, CommunesCopied, CommunesReplaced, AllWritten,
       CommunesChecked, SourcesChecked, RestorePcs, HandlerPcs, EndPcs, Names

\* Once its transaction is over a program is at its place wherever nothing is
\* supposed to be written.
LEMMA EndedProgram ==
  ASSUME TypeOK, NEW s \in Sessions, EndTransaction(s), Blank(pc'[s])
  PROVE  /\ LoadPlace(s)' /\ RollbackPlace(s)'
         /\ inserted'[s] = {} => AppendsWhatIsFree(s)'
<1>1. \A n \in Names : /\ dirty'[s][Live(n)] = Untouched
                       /\ dirty'[s][Previous(n)] = Untouched
  BY TableNames, EndedWrites DEF TypeOK
<1> QED
  BY <1>1 DEF Blank, LoadPlace, RollbackPlace, AppendsWhatIsFree

\* An aborted transaction.
LEMMA AbortKeepsPlaces ==
  ASSUME TypeOK, TablesInv, NEW s \in Sessions, Abort(s), UNCHANGED indicators,
         NEW at, Goto(s, at), Blank(at),
         \A q \in Runs \ {s} : inserted'[q] = inserted[q],
         s \in Runs => inserted'[s] = {}
  PROVE  TablesInv'
<1>1. /\ EndTransaction(s) /\ UNCHANGED db
      /\ pc'[s] = at /\ \A q \in Sessions \ {s} : pc'[q] = pc[q]
  BY DEF Abort, Goto, TypeOK
<1>2. LocksExclude'
  BY <1>1, EndKeepsLocksApart DEF TypeOK, TablesInv
<1>3. \A q \in Sessions \ {s} : dirty'[q] = dirty[q] /\ held'[q] = held[q]
  BY <1>1, EndedWrites DEF TypeOK
<1>4. /\ \A r \in Runs \ {s} : LoadPlace(r)' /\ AppendsWhatIsFree(r)'
      /\ \A b \in Rollbacks \ {s} : RollbackPlace(b)'
      /\ LiveTablesExist' /\ GenerationsAgree'
  BY <1>1, <1>3, OthersKeepTheirPlace
<1>5. /\ s \in Runs => LoadPlace(s)' /\ AppendsWhatIsFree(s)'
      /\ s \in Rollbacks => RollbackPlace(s)'
  BY <1>1, EndedProgram
<1> QED
  BY <1>2, <1>4, <1>5 DEF TablesInv

\* At its commit a load has copied and replaced every table, and a rollback
\* restored every table from a copy that is there.
LEMMA CommitPlaces ==
  /\ CopiedAt("commit") = Names /\ ReplacedAt("commit") = Names
  /\ "commit" \in IndicatorsAppended
  /\ CheckedAt("commit") = Names /\ RestoredAt("commit") = Names
  /\ \A at \in IndicatorsAppended : "establishment" \in CopiedAt(at)
BY DEF CopiedAt, ReplacedAt, CheckedAt, RestoredAt, SourcesCopied,
       EstablishmentsCopied, SitesCopied, DirectoryReplaced, IndicatorsAppended,
       CommunesCopied, CommunesReplaced, AllWritten, CommunesChecked,
       SourcesChecked, RestorePcs, Names

\* What a load's commit does to the tables: every live table shows it, and
\* every copy what the live table showed.
LEMMA LoadCommits ==
  ASSUME TypeOK, TablesInv, NEW r \in Runs, pc[r] = "commit", Commit(r)
  PROVE  \A n \in Names : /\ db'[Live(n)] = r
                          /\ db'[Previous(n)] = db[Live(n)]
<1>1. \A n \in Names : /\ dirty[r][Live(n)] = r
                       /\ dirty[r][Previous(n)] = db[Live(n)]
                       /\ db[Live(n)] \in Contents
  BY CommitPlaces, TableNames
     DEF TablesInv, LoadPlace, LiveTablesExist, TypeOK, TablesTypeOK
<1>2. \A n \in Names : /\ dirty[r][Live(n)] # Untouched
                       /\ dirty[r][Previous(n)] # Untouched
  BY <1>1, RunsAssumption, ContentsAssumption
<1> QED
  BY <1>1, <1>2, TableNames DEF Commit, View

\* What a rollback's commit does: every live table shows what its copy holds,
\* and every copy exists and stays.
LEMMA RollbackCommits ==
  ASSUME TypeOK, TablesInv, NEW b \in Rollbacks, pc[b] = "commit", Commit(b)
  PROVE  \A n \in Names : /\ db[Previous(n)] # Absent
                          /\ db'[Live(n)] = db[Previous(n)]
                          /\ db'[Previous(n)] = db[Previous(n)]
<1>1. \A n \in Names : /\ dirty[b][Live(n)] = db[Previous(n)]
                       /\ dirty[b][Previous(n)] = Untouched
                       /\ db[Previous(n)] # Absent
                       /\ db[Previous(n)] \in Contents \cup {Absent}
  BY CommitPlaces, TableNames DEF TablesInv, RollbackPlace, TypeOK, TablesTypeOK
<1>2. \A n \in Names : dirty[b][Live(n)] # Untouched
  BY <1>1, ContentsAssumption
<1> QED
  BY <1>1, <1>2, TableNames DEF Commit, View

\* While a load commits, no other has copied a table and no rollback has
\* restored one; while a rollback commits, no load has copied one.
LEMMA CommitsAreAlone ==
  ASSUME TypeOK, TablesInv, NEW s \in Sessions, pc[s] = "commit"
  PROVE  /\ s \in Runs =>
              /\ \A r \in Runs \ {s} : /\ CopiedAt(pc[r]) = {}
                                       /\ pc[r] \notin IndicatorsAppended
              /\ \A b \in Rollbacks : RestoredAt(pc[b]) = {}
         /\ s \in Rollbacks => \A r \in Runs : CopiedAt(pc[r]) = {}
<1>1. Runs \subseteq Sessions /\ Rollbacks \subseteq Sessions /\ Runs \cap Rollbacks = {}
  BY RunsAssumption, RollbacksAssumption
<1>2. ASSUME s \in Runs, NEW r \in Runs \ {s}, NEW n \in CopiedAt(pc[r])
      PROVE  FALSE
  <2>1. n \in Names
    BY DEF CopiedAt
  <2>2. held[s][Previous(n)] = "exclusive" /\ held[r][Previous(n)] = "exclusive"
    BY <1>2, <2>1, CommitPlaces DEF TablesInv, LoadPlace
  <2> QED
    BY <1>1, <1>2, <2>1, <2>2, TableNames DEF TablesInv, LocksExclude
<1>3. ASSUME s \in Runs, NEW b \in Rollbacks, NEW n \in RestoredAt(pc[b])
      PROVE  FALSE
  <2>1. n \in Names
    BY DEF RestoredAt
  <2>2. held[s][Previous(n)] = "exclusive" /\ held[b][Previous(n)] # "none"
    BY <1>3, <2>1, CommitPlaces DEF TablesInv, LoadPlace, RollbackPlace
  <2> QED
    BY <1>1, <1>3, <2>1, <2>2, TableNames DEF TablesInv, LocksExclude
<1>4. ASSUME s \in Rollbacks, NEW r \in Runs, NEW n \in CopiedAt(pc[r])
      PROVE  FALSE
  <2>1. n \in Names
    BY DEF CopiedAt
  <2>2. held[s][Live(n)] = "exclusive" /\ held[r][Live(n)] # "none"
    BY <1>4, <2>1, CommitPlaces DEF TablesInv, LoadPlace, RollbackPlace
  <2> QED
    BY <1>1, <1>4, <2>1, <2>2, TableNames DEF TablesInv, LocksExclude
<1>5. \A r \in Runs : CopiedAt(pc[r]) = {} => pc[r] \notin IndicatorsAppended
  BY CommitPlaces
<1> QED
  BY <1>2, <1>3, <1>4, <1>5

\* A load's commit keeps the invariant.
LEMMA CommitRunTablesInv ==
  ASSUME TypeOK, TablesInv, NEW r \in Runs, pc[r] = "commit", CommitRun(r),
         NEW at \in EndPcs, Goto(r, at)
  PROVE  TablesInv'
<1>1. /\ r \in Sessions /\ r # Absent
      /\ Runs \subseteq Sessions /\ Rollbacks \subseteq Sessions /\ r \notin Rollbacks
  BY RunsAssumption, RollbacksAssumption, ContentsAssumption
<1>2. /\ Commit(r) /\ EndTransaction(r)
      /\ inserted' = [inserted EXCEPT ![r] = {}]
      /\ pc'[r] = at /\ \A q \in Sessions \ {r} : pc'[q] = pc[q]
  BY <1>1 DEF CommitRun, Commit, Goto, TypeOK
<1>3. \A n \in Names : db'[Live(n)] = r /\ db'[Previous(n)] = db[Live(n)]
  BY <1>2, LoadCommits
<1>4. \A q \in Sessions \ {r} : dirty'[q] = dirty[q] /\ held'[q] = held[q]
  BY <1>1, <1>2, EndedWrites DEF TypeOK
<1>5. LocksExclude'
  BY <1>1, <1>2, EndKeepsLocksApart DEF TypeOK, TablesInv
<1>6. LoadPlace(r)' /\ AppendsWhatIsFree(r)'
  BY <1>1, <1>2, EndedProgram, BlankPlaces DEF TypeOK, JobTypeOK
<1>7. ASSUME NEW q \in Runs \ {r}
      PROVE  LoadPlace(q)' /\ AppendsWhatIsFree(q)'
  <2>1. CopiedAt(pc[q]) = {} /\ pc[q] \notin IndicatorsAppended
    BY <1>1, CommitsAreAlone
  <2>2. pc'[q] = pc[q] /\ dirty'[q] = dirty[q] /\ inserted'[q] = inserted[q]
    BY <1>1, <1>2, <1>4 DEF TypeOK, JobTypeOK
  <2>3. LoadPlace(q) /\ AppendsWhatIsFree(q)
    BY DEF TablesInv
  <2>4. LoadPlace(q)'
    BY <2>1, <2>2, <2>3 DEF LoadPlace
  <2>5. AppendsWhatIsFree(q)'
    BY <2>1, <2>2, <2>3 DEF AppendsWhatIsFree
  <2> QED
    BY <2>4, <2>5
<1>8. ASSUME NEW b \in Rollbacks
      PROVE  RollbackPlace(b)'
  <2>1. RestoredAt(pc[b]) = {}
    BY <1>1, CommitsAreAlone
  <2>2. pc'[b] = pc[b] /\ dirty'[b] = dirty[b] /\ held'[b] = held[b]
    BY <1>1, <1>2, <1>4
  <2>3. \A n \in Names : db'[Previous(n)] # Absent
    BY <1>3 DEF TablesInv, LiveTablesExist
  <2> QED
    BY <2>1, <2>2, <2>3 DEF TablesInv, RollbackPlace
<1>9. LiveTablesExist' /\ GenerationsAgree'
  BY <1>1, <1>3 DEF TablesInv, LiveTablesExist, GenerationsAgree
<1> QED
  BY <1>5, <1>6, <1>7, <1>8, <1>9 DEF TablesInv

\* A rollback's commit keeps the invariant.
LEMMA CommitRollbackTablesInv ==
  ASSUME TypeOK, TablesInv, NEW b \in Rollbacks, pc[b] = "commit", Commit(b),
         UNCHANGED jobVars, NEW at \in EndPcs, Goto(b, at)
  PROVE  TablesInv'
<1>1. /\ b \in Sessions /\ b \notin Runs
      /\ Runs \subseteq Sessions /\ Rollbacks \subseteq Sessions
  BY RunsAssumption, RollbacksAssumption
<1>2. /\ EndTransaction(b) /\ UNCHANGED <<inserted, indicators>>
      /\ pc'[b] = at /\ \A q \in Sessions \ {b} : pc'[q] = pc[q]
  BY <1>1 DEF Commit, Goto, TypeOK, jobVars
<1>3. \A n \in Names : /\ db[Previous(n)] # Absent
                       /\ db'[Live(n)] = db[Previous(n)]
                       /\ db'[Previous(n)] = db[Previous(n)]
  BY RollbackCommits
<1>4. \A q \in Sessions \ {b} : dirty'[q] = dirty[q] /\ held'[q] = held[q]
  BY <1>1, <1>2, EndedWrites DEF TypeOK
<1>5. LocksExclude'
  BY <1>1, <1>2, EndKeepsLocksApart DEF TypeOK, TablesInv
<1>6. RollbackPlace(b)'
  BY <1>1, <1>2, EndedProgram, BlankPlaces
<1>7. ASSUME NEW r \in Runs
      PROVE  LoadPlace(r)' /\ AppendsWhatIsFree(r)'
  <2>1. CopiedAt(pc[r]) = {}
    BY <1>1, CommitsAreAlone
  <2>2. pc'[r] = pc[r] /\ dirty'[r] = dirty[r]
    BY <1>1, <1>2, <1>4
  <2>3. LoadPlace(r) /\ AppendsWhatIsFree(r)
    BY DEF TablesInv
  <2>4. LoadPlace(r)'
    BY <2>1, <2>2, <2>3 DEF LoadPlace
  <2>5. AppendsWhatIsFree(r)'
    BY <1>2, <2>2, <2>3 DEF AppendsWhatIsFree
  <2> QED
    BY <2>4, <2>5
<1>8. ASSUME NEW c \in Rollbacks \ {b}
      PROVE  RollbackPlace(c)'
  BY <1>1, <1>2, <1>3, <1>4, <1>8 DEF TablesInv, RollbackPlace
<1>9. LiveTablesExist' /\ GenerationsAgree'
  BY <1>3 DEF TablesInv, LiveTablesExist, GenerationsAgree
<1> QED
  BY <1>5, <1>6, <1>7, <1>8, <1>9 DEF TablesInv

-----------------------------------------------------------------------------
(* Every step.                                                             *)

\* A step of a load that writes nothing and ends nothing.
LEMMA QuietStepTablesInv ==
  ASSUME TypeOK, TablesInv, NEW r \in Runs, QuietStep(r)
  PROVE  TablesInv'
<1>1. r \in Sessions /\ r \notin Rollbacks
  BY RunsAssumption, RollbacksAssumption
<1>2. UNCHANGED <<db, dirty, held, inserted, indicators>>
  BY DEF QuietStep, Connect, TryLock, Decline, FetchAndJudge, Unlock,
         HandleFailure, RecordFailure, RecordFailureFails, SendAlert,
         UnlockAfterFailure, tableVars, jobVars
<1>3. PICK at : /\ Goto(r, at)
                /\ \/ Blank(pc[r]) /\ Blank(at)
                   \/ pc[r] = "unlock" /\ at = "commit"
  <2>1. CASE Unlock(r)
    BY <2>1 DEF Unlock
  <2>2. CASE Connect(r) \/ TryLock(r) \/ Decline(r) \/ FetchAndJudge(r)
             \/ HandleFailure(r)
    <3>1. \E at \in {"try_lock", "fetch", "drop_sources"} \cup HandlerPcs \cup EndPcs :
            Goto(r, at)
      BY <2>2 DEF Connect, TryLock, Decline, FetchAndJudge, HandleFailure,
                  RecordFailure, RecordFailureFails, SendAlert,
                  UnlockAfterFailure, HandlerPcs, EndPcs
    <3>2. pc[r] \in {"idle", "try_lock", "fetch"} \cup HandlerPcs
      BY <2>2 DEF Connect, TryLock, Decline, FetchAndJudge, HandleFailure,
                  RecordFailure, RecordFailureFails, SendAlert,
                  UnlockAfterFailure, HandlerPcs
    <3> QED
      BY <3>1, <3>2, BlankPlaces
  <2> QED
    BY <2>1, <2>2 DEF QuietStep
<1>4. pc'[r] = at /\ \A q \in Sessions \ {r} : pc'[q] = pc[q]
  BY <1>1, <1>3 DEF Goto, TypeOK
<1>5. Consecutive(pc[r], at, {}, {})
  <2>1. Blank(pc[r]) /\ Blank(at) => Consecutive(pc[r], at, {}, {})
    BY DEF Blank, Consecutive
  <2> QED
    BY <1>3, <2>1, LoadEdges
<1>6. LoadPlace(r)' /\ AppendsWhatIsFree(r)'
  BY <1>2, <1>4, <1>5 DEF Consecutive, TablesInv, LoadPlace, AppendsWhatIsFree
<1>7. /\ \A q \in Runs \ {r} : LoadPlace(q)' /\ AppendsWhatIsFree(q)'
      /\ \A b \in Rollbacks \ {r} : RollbackPlace(b)'
      /\ LiveTablesExist' /\ GenerationsAgree'
  BY <1>1, <1>2, <1>4, OthersKeepTheirPlace
<1>8. LocksExclude'
  BY <1>2 DEF TablesInv, LocksExclude
<1> QED
  BY <1>1, <1>6, <1>7, <1>8 DEF TablesInv

\* However a load's transaction ends.
LEMMA EndingStepTablesInv ==
  ASSUME TypeOK, TablesInv, NEW r \in Runs, EndingStep(r)
  PROVE  TablesInv'
<1>1. r \in Sessions
  BY RunsAssumption
<1>2. CASE Succeed(r) \/ CommitUnheard(r)
  <2>1. {"succeeded", "failed_outside_handler"} \subseteq EndPcs
    BY DEF EndPcs
  <2> QED
    BY <1>2, <2>1, CommitRunTablesInv DEF Succeed, CommitUnheard
<1>3. CASE StatementFails(r) \/ ConnectionLost(r) \/ Crash(r)
  <2>1. AbortRun(r) /\ \E at \in HandlerPcs \cup EndPcs : Goto(r, at)
    BY <1>3 DEF StatementFails, ConnectionLost, Crash, HandlerPcs, EndPcs
  <2>2. /\ Abort(r) /\ UNCHANGED indicators
        /\ \A q \in Runs \ {r} : inserted'[q] = inserted[q]
        /\ inserted'[r] = {}
    BY <2>1 DEF AbortRun, TypeOK, JobTypeOK
  <2> QED
    BY <1>1, <2>1, <2>2, BlankPlaces, AbortKeepsPlaces
<1> QED
  BY <1>2, <1>3 DEF EndingStep

\* Every step of a rollback.
LEMMA RollbackStepTablesInv ==
  ASSUME TypeOK, TablesInv, NEW b \in Rollbacks, RollbackStep(b)
  PROVE  TablesInv'
<1>1. b \in Sessions /\ b \notin Runs
  BY RollbacksAssumption
<1>2. CASE StartRollback(b)
  <2>1. /\ pc[b] = "idle" /\ pc'[b] = "check_establishments"
        /\ \A q \in Sessions \ {b} : pc'[q] = pc[q]
        /\ UNCHANGED <<db, dirty, held, inserted, indicators>>
    BY <1>1, <1>2 DEF StartRollback, Goto, TypeOK, tableVars, jobVars
  <2>2. RollbackPlace(b)'
    BY <2>1, BlankPlaces DEF Blank, TablesInv, RollbackPlace
  <2>3. /\ \A r \in Runs \ {b} : LoadPlace(r)' /\ AppendsWhatIsFree(r)'
        /\ \A q \in Rollbacks \ {b} : RollbackPlace(q)'
        /\ LiveTablesExist' /\ GenerationsAgree'
    BY <1>1, <2>1, OthersKeepTheirPlace
  <2>4. LocksExclude'
    BY <2>1 DEF TablesInv, LocksExclude
  <2> QED
    BY <1>1, <2>2, <2>3, <2>4 DEF TablesInv
<1>3. CASE RestoreStep(b)
  BY <1>3, RestoreStepTablesInv
<1>4. CASE CommitRollback(b) \/ RollbackCommitUnheard(b)
  <2>1. {"succeeded", "failed"} \subseteq EndPcs
    BY DEF EndPcs
  <2> QED
    BY <1>4, <2>1, CommitRollbackTablesInv DEF CommitRollback, RollbackCommitUnheard
<1>5. CASE NothingToRestore(b) \/ RollbackFails(b) \/ RollbackCrashes(b)
  <2>1. /\ Abort(b) /\ UNCHANGED <<inserted, indicators>>
        /\ \E at \in EndPcs : Goto(b, at)
    BY <1>5 DEF NothingToRestore, RollbackFails, RollbackCrashes, EndRollback,
                jobVars, EndPcs
  <2> QED
    BY <1>1, <2>1, BlankPlaces, AbortKeepsPlaces
<1> QED
  BY <1>2, <1>3, <1>4, <1>5 DEF RollbackStep, RollbackProgress, RollbackFault

\* Nothing is written or locked at the start, every live table shows Seed and
\* the copies that exist show Older.
LEMMA InitTablesInv ==
  ASSUME Init
  PROVE  TablesInv
<1>1. Runs \subseteq Sessions /\ Rollbacks \subseteq Sessions
  BY RunsAssumption, RollbacksAssumption
<1>2. \A s \in Sessions : /\ pc[s] = "idle"
                          /\ \A x \in Tables : dirty[s][x] = Untouched /\ held[s][x] = "none"
  BY DEF Init, NothingDirty, NoLocks
<1>3. Blank("idle")
  BY BlankPlaces
<1>4. \A n \in Names : /\ db[Live(n)] = Seed
                       /\ db[Previous(n)] \in {Older, Absent}
  <2>1. \A x \in Tables : /\ x[2] = "live" => db[x] = Seed
                          /\ x[2] # "live" => db[x] \in {Older, Absent}
    BY DEF Init
  <2>2. \A n \in Names : Live(n)[2] = "live" /\ Previous(n)[2] # "live"
    BY DEF Live, Previous
  <2> QED
    BY <2>1, <2>2, TableNames
<1>5. LiveTablesExist /\ GenerationsAgree
  BY <1>4, RunsAssumption, ContentsAssumption DEF LiveTablesExist, GenerationsAgree
<1>6. \A r \in Runs : LoadPlace(r) /\ AppendsWhatIsFree(r)
  <2>1. \A r \in Runs : inserted[r] = {}
    BY DEF Init, JobInit
  <2> QED
    BY <1>1, <1>2, <1>3, <2>1, TableNames DEF Blank, LoadPlace, AppendsWhatIsFree
<1>7. \A b \in Rollbacks : RollbackPlace(b)
  BY <1>1, <1>2, <1>3, TableNames DEF Blank, RollbackPlace
<1>8. LocksExclude
  BY <1>2 DEF LocksExclude
<1> QED
  BY <1>5, <1>6, <1>7, <1>8 DEF TablesInv

\* Every step of every program keeps the invariant.
LEMMA NextTablesInv ==
  ASSUME TypeOK, TablesInv, [Next]_vars
  PROVE  TablesInv'
<1>1. CASE UNCHANGED vars
  BY <1>1 DEF vars, tableVars, jobVars, TablesInv, LocksExclude, LoadPlace,
              AppendsWhatIsFree, RollbackPlace, LiveTablesExist, GenerationsAgree
<1>2. CASE Next
  BY <1>2, NextKinds, WriteStepTablesInv, QuietStepTablesInv,
     EndingStepTablesInv, RollbackStepTablesInv
<1> QED
  BY <1>1, <1>2

\* In every reachable state each program has written what its place says, on
\* locks nobody else's conflict with, and the generations agree.
THEOREM TablesAreKept == Spec => []TablesInv
BY InitType, NextType, InitTablesInv, NextTablesInv, PTL DEF Spec

\* However loads and rollbacks interleave, fail or die, the live tables show
\* one load and the copies that exist another.
THEOREM GenerationsAlwaysAgree == Spec => []GenerationsAgree
<1>1. TablesInv => GenerationsAgree
  BY DEF TablesInv
<1> QED
  BY <1>1, TablesAreKept, PTL

\* What an open load has copied, and an open rollback restored, is exact until
\* it commits: table locks do what the ingestion lock, released too early,
\* does not.
THEOREM CopiesAreExact == Spec => []CopiesStayExact
<1>1. TypeOK /\ TablesInv => CopiesStayExact
  <2> SUFFICES ASSUME TypeOK, TablesInv
               PROVE  CopiesStayExact
    OBVIOUS
  <2>1. \A r \in Runs, n \in Names :
          dirty[r][Previous(n)] \in Contents =>
            dirty[r][Previous(n)] = db[Live(n)]
    BY ContentsAssumption DEF TablesInv, LoadPlace
  <2>2. \A b \in Rollbacks, n \in Names :
          dirty[b][Live(n)] \in Contents \ {Empty} =>
            dirty[b][Live(n)] = db[Previous(n)]
    BY ContentsAssumption DEF TablesInv, RollbackPlace
  <2> QED
    BY <2>1, <2>2 DEF CopiesStayExact
<1> QED
  BY <1>1, TypeCorrect, TablesAreKept, PTL

-----------------------------------------------------------------------------
(* The refinement of AtomicPublication: its three variables on the tables  *)
(* and its record on the audit rows.                                       *)

\* The loads on record, as the promise knows them.
Succeeded == {r \in Runs : AuditRow(r, TRUE) \in audit}

\* A step that leaves the tables, the indicator rows and the successes alone
\* is no step of the promise.
LEMMA SilentStep ==
  ASSUME UNCHANGED <<db, indicators>>, UNCHANGED Succeeded
  PROVE  UNCHANGED Promise!vars
BY DEF Promise!vars, Succeeded

\* A load's commit is the promise's Publish.
LEMMA CommitPublishes ==
  ASSUME TypeOK, RecordInv, TablesInv, NEW r \in Runs, pc[r] = "commit", CommitRun(r)
  PROVE  Promise!Publish(r)
<1>1. r \notin Succeeded
  BY DEF RecordInv, RecordsMatchPrograms, OnRecord, Succeeded
<1>2. Succeeded' = Succeeded \cup {r}
  <2>1. audit' = audit \cup {AuditRow(r, TRUE)}
    BY DEF CommitRun, RecordInv, CarriesItsRecord
  <2>2. \A q \in Runs : AuditRow(q, TRUE) \in audit' <=>
                        AuditRow(q, TRUE) \in audit \/ q = r
    BY <2>1, AuditRows
  <2> QED
    BY <2>2 DEF Succeeded
<1>3. \A n \in Names : db'[Live(n)] = r /\ db'[Previous(n)] = db[Live(n)]
  BY LoadCommits DEF CommitRun
<1>4. indicators' = [k \in Keys |-> IF k \in Offers[r] /\ indicators[k] = NoRow
                                    THEN r ELSE indicators[k]]
  <2>1. inserted[r] = {k \in Offers[r] : indicators[k] = NoRow}
    BY CommitPlaces DEF TablesInv, AppendsWhatIsFree
  <2>2. indicators' = [k \in Keys |-> IF k \in inserted[r] THEN r ELSE indicators[k]]
    BY DEF CommitRun
  <2> QED
    BY <2>1, <2>2
<1>5. /\ [n \in Names |-> db'[Live(n)]] = [n \in Names |-> r]
      /\ [n \in Names |-> db'[Previous(n)]] = [n \in Names |-> db[Live(n)]]
  BY <1>3
<1> QED
  BY <1>1, <1>2, <1>4, <1>5 DEF Promise!Publish, Succeeded

\* A rollback's commit is the promise's Restore.
LEMMA CommitRestores ==
  ASSUME TypeOK, TablesInv, NEW b \in Rollbacks, pc[b] = "commit", Commit(b),
         UNCHANGED jobVars
  PROVE  Promise!Restore
<1>1. \A n \in Names : /\ db[Previous(n)] # Absent
                       /\ db'[Live(n)] = db[Previous(n)]
                       /\ db'[Previous(n)] = db[Previous(n)]
  BY RollbackCommits
<1>2. /\ [n \in Names |-> db'[Live(n)]] = [n \in Names |-> db[Previous(n)]]
      /\ [n \in Names |-> db'[Previous(n)]] = [n \in Names |-> db[Previous(n)]]
  BY <1>1
<1> QED
  BY <1>1, <1>2 DEF Promise!Restore, jobVars

\* Nothing but a commit changes what is published.
LEMMA OnlyCommitsPublish ==
  ASSUME TypeOK, RecordInv, [Next]_vars
  PROVE  \/ \E r \in Runs : pc[r] = "commit" /\ CommitRun(r)
         \/ \E b \in Rollbacks : /\ pc[b] = "commit" /\ Commit(b)
                                 /\ UNCHANGED jobVars
         \/ UNCHANGED <<db, indicators>> /\ UNCHANGED Succeeded
<1>1. CASE UNCHANGED vars
  BY <1>1 DEF vars, tableVars, jobVars, Succeeded
<1>2. ASSUME NEW r \in Runs, WriteStep(r)
      PROVE  UNCHANGED <<db, indicators>> /\ UNCHANGED Succeeded
  BY <1>2, WriteStepShape DEF Advances, Succeeded
<1>3. ASSUME NEW r \in Runs, QuietStep(r)
      PROVE  UNCHANGED <<db, indicators>> /\ UNCHANGED Succeeded
  <2>1. UNCHANGED <<db, indicators>>
    BY <1>3 DEF QuietStep, Connect, TryLock, Decline, FetchAndJudge, Unlock,
                HandleFailure, RecordFailure, RecordFailureFails, SendAlert,
                UnlockAfterFailure, tableVars, jobVars
  <2>2. UNCHANGED audit \/ audit' = audit \cup {AuditRow(r, FALSE)}
    BY <1>3 DEF QuietStep, Connect, TryLock, Decline, FetchAndJudge, Unlock,
                HandleFailure, RecordFailure, RecordFailureFails, SendAlert,
                UnlockAfterFailure, tableVars, jobVars
  <2>3. \A q \in Runs : AuditRow(q, TRUE) # AuditRow(r, FALSE)
    BY AuditRows
  <2>4. UNCHANGED Succeeded
    BY <2>2, <2>3 DEF Succeeded
  <2> QED
    BY <2>1, <2>4
<1>4. ASSUME NEW r \in Runs, EndingStep(r)
      PROVE  \/ pc[r] = "commit" /\ CommitRun(r)
             \/ UNCHANGED <<db, indicators>> /\ UNCHANGED Succeeded
  BY <1>4 DEF EndingStep, Succeed, CommitUnheard, StatementFails,
              ConnectionLost, Crash, AbortRun, Abort, Succeeded
<1>5. ASSUME NEW b \in Rollbacks, RollbackStep(b)
      PROVE  \/ /\ pc[b] = "commit" /\ Commit(b)
                /\ UNCHANGED jobVars
             \/ UNCHANGED <<db, indicators>> /\ UNCHANGED Succeeded
  <2>1. UNCHANGED <<indicators, audit>>
    BY <1>5, RollbackStepShape
  <2>2. CASE CommitRollback(b) \/ RollbackCommitUnheard(b)
    BY <2>2 DEF CommitRollback, RollbackCommitUnheard
  <2>3. CASE ~(CommitRollback(b) \/ RollbackCommitUnheard(b))
    <3>1. UNCHANGED db
      BY <1>5, <2>3, Zenon
         DEF RollbackStep, RollbackProgress, RollbackFault, StartRollback,
             RestoreStep, CheckPrevious, TruncateLive, RestoreLive, Statement,
             NothingToRestore, RollbackFails, RollbackCrashes, EndRollback,
             Abort, tableVars
    <3> QED
      BY <2>1, <3>1 DEF Succeeded
  <2> QED
    BY <2>2, <2>3
<1> QED
  BY <1>1, <1>2, <1>3, <1>4, <1>5, NextKinds

\* The promise holds where the writers start.
LEMMA InitRefines ==
  ASSUME Init
  PROVE  Promise!Init
<1>1. \A n \in Names : db[Live(n)] = Seed /\ db[Previous(n)] \in {Older, Absent}
  <2>1. \A x \in Tables : /\ x[2] = "live" => db[x] = Seed
                          /\ x[2] # "live" => db[x] \in {Older, Absent}
    BY DEF Init
  <2>2. \A n \in Names : Live(n)[2] = "live" /\ Previous(n)[2] # "live"
    BY DEF Live, Previous
  <2> QED
    BY <2>1, <2>2, TableNames
<1>2. {r \in Runs : AuditRow(r, TRUE) \in audit} = {}
  BY DEF Init, JobInit
<1>3. indicators \in [Keys -> {Seed, NoRow}]
  BY DEF Init, JobInit
<1> QED
  BY <1>1, <1>2, <1>3 DEF Promise!Init

\* A step of any program is Publish, Restore or nothing to the promise.
LEMMA NextRefines ==
  ASSUME TypeOK, RecordInv, TablesInv, [Next]_vars
  PROVE  [Promise!Next]_(Promise!vars)
<1>1. ASSUME NEW r \in Runs, pc[r] = "commit", CommitRun(r)
      PROVE  Promise!Next
  BY <1>1, CommitPublishes DEF Promise!Next
<1>2. ASSUME NEW b \in Rollbacks, pc[b] = "commit", Commit(b), UNCHANGED jobVars
      PROVE  Promise!Next
  BY <1>2, CommitRestores DEF Promise!Next
<1> QED
  BY <1>1, <1>2, SilentStep, OnlyCommitsPublish

\* Statements, locks, savepoints, faults and both kinds of programs implement
\* the promise: a load is published, and a rollback applied, at one instant or
\* not at all.
THEOREM WritersKeepThePromise == Spec => KeepsPromise
<1>1. Init => Promise!Init
  BY InitRefines
<1>2. TypeOK /\ RecordInv /\ TablesInv /\ [Next]_vars => [Promise!Next]_(Promise!vars)
  BY NextRefines
<1> QED
  BY <1>1, <1>2, RecordsAreKept, TablesAreKept, PTL
     DEF Spec, KeepsPromise, Promise!Spec

\* Only a free key is ever written, so a published indicator row is final.
THEOREM PublishedIndicatorsAreFinal == Spec => IndicatorRowsAreFinal
<1>1. ASSUME TypeOK, RecordInv, TablesInv, [Next]_vars
      PROVE  [\A k \in Keys : indicators[k] # NoRow => indicators'[k] = indicators[k]]_vars
  <2>1. ASSUME NEW r \in Runs, pc[r] = "commit", CommitRun(r)
        PROVE  \A k \in Keys : indicators[k] # NoRow => indicators'[k] = indicators[k]
    BY <1>1, <2>1, CommitPlaces DEF CommitRun, TablesInv, AppendsWhatIsFree
  <2>2. CASE UNCHANGED indicators
    BY <2>2
  <2> QED
    BY <1>1, <2>1, <2>2, OnlyCommitsPublish DEF jobVars
<1> QED
  BY <1>1, RecordsAreKept, TablesAreKept, PTL DEF Spec, IndicatorRowsAreFinal

=============================================================================
