---------------------------- MODULE RetainedLog ----------------------------
(***************************************************************************)
(* What the event tables promise to everything that reads them: a log that *)
(* grows by one row at a time, never holds the same keyed event twice,     *)
(* never changes a row it holds, and gives up a row only once that row is  *)
(* older than the retention window.  How rows get in (concurrent handler   *)
(* coroutines, redelivery, rollback) and out (batched prune passes) is the *)
(* business of EventLog, which implements this specification.              *)
(***************************************************************************)
EXTENDS Integers

CONSTANTS
  Row,             \* rows a table can hold: records with a table, an id and a ts
  Conflicts(_, _), \* two rows carry the same non-NULL dedupe key
  Retention        \* length of the retention window, in ticks

VARIABLES log, now
vars == <<log, now>>

Init ==
  /\ log = {}
  /\ now = 0

Record(row) ==
  /\ row \in Row \ log
  /\ \A other \in log :
       /\ ~ Conflicts(row, other)
       /\ row.table = other.table => row.id # other.id
  /\ log' = log \cup {row}
  /\ UNCHANGED now

Expire(old) ==
  /\ \A row \in old : row.ts < now - Retention
  /\ log' = log \ old
  /\ UNCHANGED now

Tick ==
  /\ now' = now + 1
  /\ UNCHANGED log

Next ==
  \/ \E row \in log' : Record(row)
  \/ \E old \in SUBSET log : Expire(old)
  \/ Tick

Spec == Init /\ [][Next]_vars
=============================================================================
