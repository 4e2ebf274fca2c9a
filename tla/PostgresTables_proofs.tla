----------------------- MODULE PostgresTables_proofs ------------------------
(* What the operators of PostgresTables preserve, for any sessions and     *)
(* contents: the facts the proofs about the writers cite.                  *)
EXTENDS PostgresTables, TLAPS

-----------------------------------------------------------------------------
(* Where the variables live.                                               *)

\* A granted request leaves the lock table a lock table.
LEMMA GrantType ==
  ASSUME TablesTypeOK, NEW s \in Sessions, NEW req, Grant(s, req)
  PROVE  held' \in [Sessions -> [Tables -> Modes]]
BY DEF TablesTypeOK, Grant, Modes

\* Writing contents, or Absent, keeps uncommitted writes well typed.
LEMMA WriteType ==
  ASSUME TablesTypeOK, NEW s \in Sessions, NEW changes, Write(s, changes),
         \A x \in DOMAIN changes : changes[x] \in Contents \cup {Untouched, Absent}
  PROVE  dirty' \in [Sessions -> [Tables -> Contents \cup {Untouched, Absent}]]
BY DEF TablesTypeOK, Write

\* A statement sees contents or finds the table missing.
LEMMA ViewType ==
  ASSUME TablesTypeOK, NEW s \in Sessions, NEW x \in Tables
  PROVE  View(s, x) \in Contents \cup {Absent}
BY ContentsAssumption DEF TablesTypeOK, View

\* So do the locks and the writes of a transaction that ends.
LEMMA EndTransactionType ==
  ASSUME TablesTypeOK, NEW s \in Sessions, EndTransaction(s)
  PROVE  /\ dirty' \in [Sessions -> [Tables -> Contents \cup {Untouched, Absent}]]
         /\ rewrites' \in [Sessions -> SUBSET Names]
         /\ held' \in [Sessions -> [Tables -> Modes]]
<1>1. NothingDirty \in [Tables -> Contents \cup {Untouched, Absent}]
  BY DEF NothingDirty
<1>2. NoLocks \in [Tables -> Modes]
  BY DEF NoLocks, Modes
<1> QED
  BY <1>1, <1>2 DEF TablesTypeOK, EndTransaction

\* An aborted transaction leaves well typed tables.
LEMMA AbortType ==
  ASSUME TablesTypeOK, NEW s \in Sessions, Abort(s)
  PROVE  TablesTypeOK'
BY EndTransactionType DEF TablesTypeOK, Abort

\* So does a committed one.
LEMMA CommitType ==
  ASSUME TablesTypeOK, NEW s \in Sessions, Commit(s)
  PROVE  TablesTypeOK'
<1>1. db' \in [Tables -> Contents \cup {Absent}]
  BY ViewType DEF Commit
<1>2. filenode' \in [Names -> Sessions \cup {NoSession}]
  BY DEF TablesTypeOK, Commit
<1> QED
  BY <1>1, <1>2, EndTransactionType DEF TablesTypeOK, Commit
=============================================================================
