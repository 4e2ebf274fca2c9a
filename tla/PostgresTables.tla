--------------------------- MODULE PostgresTables ---------------------------
(***************************************************************************)
(* The part of PostgreSQL that back/src relies on: the four full-reload    *)
(* tables and their "_previous" copies, table locks held to the end of the *)
(* transaction, private uncommitted writes, commit and abort.  PostgreSQL  *)
(* is not under src/: every definition here is external, written from the  *)
(* statements repositories.py and queries.py send.                         *)
(*                                                                         *)
(* A session is one client invocation and runs one transaction.  A table's *)
(* content is the name of the load that produced it, not its rows.         *)
(***************************************************************************)
CONSTANTS
  Sessions,    \* every client invocation: loads, rollbacks, requests
  Contents,    \* what a table may hold
  Empty,       \* a table after TRUNCATE
  Absent,      \* a table that does not exist
  Untouched,   \* "this transaction has not written the table"
  NoSession    \* a table file written before the behaviour starts

ASSUME ContentsAssumption ==
  /\ Empty \in Contents
  /\ Absent \notin Contents
  /\ Untouched \notin Contents
  /\ Absent # Untouched
  /\ NoSession \notin Sessions

Names == {"establishment", "site", "commune", "source_reference"}

Tables == Names \X {"live", "previous"}

Live(n) == <<n, "live">>
Previous(n) == <<n, "previous">>

\* AccessShare and RowExclusive, the only modes used besides AccessExclusive,
\* never conflict with each other: both are "shared" here.
Modes == {"none", "shared", "exclusive"}

VARIABLES
  db,         \* committed content of each table
  filenode,   \* the session whose TRUNCATE last replaced a live table's file
  dirty,      \* what each open transaction has written, per table
  rewrites,   \* live tables each open transaction has truncated
  held        \* the table locks of each open transaction

tableVars == <<db, filenode, dirty, rewrites, held>>

NothingDirty == [x \in Tables |-> Untouched]
NoLocks == [x \in Tables |-> "none"]

TablesTypeOK ==
  /\ db \in [Tables -> Contents \cup {Absent}]
  /\ filenode \in [Names -> Sessions \cup {NoSession}]
  /\ dirty \in [Sessions -> [Tables -> Contents \cup {Untouched, Absent}]]
  /\ rewrites \in [Sessions -> SUBSET Names]
  /\ held \in [Sessions -> [Tables -> Modes]]

\* What a READ COMMITTED statement of s sees once its locks are granted.
View(s, x) == IF dirty[s][x] = Untouched THEN db[x] ELSE dirty[s][x]

\* A lock request: the tables wanted in each mode.
Request(exclusive, shared) == [exclusive |-> exclusive, shared |-> shared]

Conflicts(mode, req, x) ==
  /\ mode # "none"
  /\ x \in req.exclusive \/ (x \in req.shared /\ mode = "exclusive")

WaitsOn(s, req, q) ==
  q # s /\ \E x \in Tables : Conflicts(held[q][x], req, x)

\* s is in a ring of members, each waiting for one and waited for by another.
InWaitRing(s, members, Waits(_, _)) ==
  /\ \E q \in members : Waits(s, q)
  /\ \E ring \in SUBSET {p \in members : \E q \in members : Waits(p, q)} :
       /\ s \in ring
       /\ \A p \in ring : /\ \E q \in ring : Waits(p, q)
                          /\ \E q \in ring : Waits(q, p)

Grantable(s, req) == \A q \in Sessions : ~WaitsOn(s, req, q)

\* Locks are never downgraded, and are kept until the transaction ends.
Grant(s, req) ==
  held' = [held EXCEPT ![s] = [x \in Tables |->
             IF x \in req.exclusive THEN "exclusive"
             ELSE IF x \in req.shared /\ held[s][x] = "none" THEN "shared"
             ELSE held[s][x]]]

Write(s, changes) ==
  dirty' = [dirty EXCEPT ![s] = [x \in Tables |->
              IF x \in DOMAIN changes THEN changes[x] ELSE dirty[s][x]]]

EndTransaction(s) ==
  /\ dirty' = [dirty EXCEPT ![s] = NothingDirty]
  /\ rewrites' = [rewrites EXCEPT ![s] = {}]
  /\ held' = [held EXCEPT ![s] = NoLocks]

\* ROLLBACK, ROLLBACK TO a savepoint older than every write, or a lost session.
Abort(s) ==
  /\ EndTransaction(s)
  /\ UNCHANGED <<db, filenode>>

Commit(s) ==
  /\ db' = [x \in Tables |-> View(s, x)]
  /\ filenode' = [n \in Names |-> IF n \in rewrites[s] THEN s ELSE filenode[n]]
  /\ EndTransaction(s)
=============================================================================
