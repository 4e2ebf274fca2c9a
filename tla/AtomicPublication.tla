------------------------- MODULE AtomicPublication -------------------------
(***************************************************************************)
(* What the data store promises its readers and its operator, with no      *)
(* transaction, lock or failure in sight: a load replaces the four tables  *)
(* at once and keeps what it replaced; a rollback puts that back at once;  *)
(* indicator rows are written once; every load that shows is on record.    *)
(***************************************************************************)
CONSTANTS Names, Runs, Keys, Offers, Seed, Older, Absent, NoRow

VARIABLES
  live,        \* the load each table shows
  previous,    \* the load each table can be rolled back to, or Absent
  indicators,  \* the load that published each indicator row, or NoRow
  succeeded    \* the loads recorded as successful

vars == <<live, previous, indicators, succeeded>>

Init ==
  /\ live = [n \in Names |-> Seed]
  /\ previous \in [Names -> {Older, Absent}]
  /\ indicators \in [Keys -> {Seed, NoRow}]
  /\ succeeded = {}

Publish(r) ==
  /\ r \notin succeeded
  /\ live' = [n \in Names |-> r]
  /\ previous' = live
  /\ indicators' = [k \in Keys |-> IF k \in Offers[r] /\ indicators[k] = NoRow
                                   THEN r ELSE indicators[k]]
  /\ succeeded' = succeeded \cup {r}

Restore ==
  /\ \A n \in Names : previous[n] # Absent
  /\ live' = previous
  /\ UNCHANGED <<previous, indicators, succeeded>>

Next == (\E r \in Runs : Publish(r)) \/ Restore

Spec == Init /\ [][Next]_vars
=============================================================================
