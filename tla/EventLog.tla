------------------------------ MODULE EventLog ------------------------------
(***************************************************************************)
(* The append-only event tables task_events and worker_events: the event   *)
(* handlers of consumer/handlers.py that fill them, run as interleaved     *)
(* coroutines of the consumer, and the prune passes of maintenance.py that *)
(* empty them (the consumer's daily loop and the taskowl-prune command).   *)
(*                                                                         *)
(* A handler is one database transaction: an INSERT ... ON CONFLICT DO     *)
(* NOTHING followed by a commit.  Until the commit its row is visible to   *)
(* nobody else, yet its key already excludes every other insert of the     *)
(* same key: PostgreSQL makes those wait for the first one to end.         *)
(***************************************************************************)
EXTENDS Integers, FiniteSets

CONSTANTS
  Event,          \* the distinct events that workers emit
  Handlers,       \* handler coroutines that can be in flight at once
  Pruners,        \* prune passes that can run at once
  Retention,      \* EVENT_RETENTION_DAYS, in ticks
  BatchSize,      \* RETENTION_BATCH_SIZE
  NoTime,         \* the timestamp of an event that has none
  NoEvent,        \* what an idle coroutine is handling
  MaxDeliveries,  \* bound: deliveries by the broker, redeliveries included
  MaxTime,        \* bound: the clock stops here
  MaxFaults       \* bound: failed transactions and consumer crashes

Tables == {"task_events", "worker_events"}
Time == Nat

ASSUME EventAssumption ==
  \A e \in Event : e.table \in Tables /\ e.ts \in Time \cup {NoTime}
ASSUME NoTimeAssumption == NoTime \notin Time
ASSUME NoEventAssumption == NoEvent \notin Event
ASSUME RetentionAssumption == Retention \in Nat \ {0}
ASSUME BatchAssumption == BatchSize \in Nat \ {0}
ASSUME BoundAssumption ==
  MaxDeliveries \in Nat /\ MaxTime \in Nat /\ MaxFaults \in Nat

VARIABLES
  rows,       \* committed rows of both tables
  handler,    \* per coroutine: where it is, its event and what it has written
  pruner,     \* per prune pass: where it is, its cutoff, table and batch
  due,        \* history: per pass, the rows already expired when it started
  nextId,     \* next value of the id sequence
  now,        \* wall clock
  delivered, faults

vars == <<rows, handler, pruner, due, nextId, now, delivered, faults>>

-----------------------------------------------------------------------------
(* Rows and their idempotency key. *)

Row == [table : Tables, id : Nat, event : Event, ts : Time]

\* An event without a timestamp has a NULL key, and NULLs never conflict.
Keyed(e) == e.ts # NoTime

DedupeKey(e) == <<e.table, e.type, e.subject, e.host, e.ts>>

SameKey(e, f) == Keyed(e) /\ Keyed(f) /\ DedupeKey(e) = DedupeKey(f)

Conflicts(r, q) == SameKey(r.event, q.event)

-----------------------------------------------------------------------------
(* The consumer's handlers. *)

IdleHandler == [pc |-> "idle", event |-> NoEvent, ts |-> 0, wrote |-> {}]
IdlePruner == [pc |-> "idle", cutoff |-> 0, table |-> "task_events", batch |-> {}]

Init ==
  /\ rows = {}
  /\ handler = [h \in Handlers |-> IdleHandler]
  /\ pruner = [p \in Pruners |-> IdlePruner]
  /\ due = [p \in Pruners |-> {}]
  /\ nextId = 1
  /\ now = 0
  /\ delivered = 0
  /\ faults = 0

\* The capture thread schedules a coroutine for a delivered event.  The same
\* event may be delivered any number of times, and events in any order.
Deliver(h, e) ==
  /\ handler[h].pc = "idle"
  /\ delivered < MaxDeliveries
  /\ delivered' = delivered + 1
  /\ handler' = [handler EXCEPT ![h] =
       [pc |-> "insert", event |-> e, ts |-> IF Keyed(e) THEN e.ts ELSE now,
        wrote |-> {}]]
  /\ UNCHANGED <<rows, pruner, due, nextId, now, faults>>

\* Another open transaction has inserted the key of event e.
KeyLocked(h, e) ==
  \E g \in Handlers \ {h} : \E q \in handler[g].wrote : SameKey(e, q.event)

KeyStored(e) == \E q \in rows : SameKey(e, q.event)

NewRow(h) ==
  [table |-> handler[h].event.table, id |-> nextId,
   event |-> handler[h].event, ts |-> handler[h].ts]

\* Mutant: the row goes in whatever is there, as if its key were NULL.
InsertUnkeyed(h) ==
  /\ handler[h].pc = "insert"
  /\ handler' = [handler EXCEPT ![h].pc = "commit", ![h].wrote = {NewRow(h)}]
  /\ nextId' = nextId + 1
  /\ UNCHANGED <<rows, pruner, due, now, delivered, faults>>

\* Mutant: an insert gives way to a row that may yet be rolled back.
InsertWithoutWaiting(h) ==
  /\ handler[h].pc = "insert"
  /\ handler' = [handler EXCEPT ![h].pc = "commit",
       ![h].wrote = IF \/ KeyStored(handler[h].event)
                       \/ KeyLocked(h, handler[h].event)
                      THEN {} ELSE {NewRow(h)}]
  /\ nextId' = nextId + 1
  /\ UNCHANGED <<rows, pruner, due, now, delivered, faults>>

\* session.execute(INSERT ... ON CONFLICT (dedupe_key) DO NOTHING).  The id
\* sequence advances whether or not the row goes in.
Insert(h) ==
  /\ handler[h].pc = "insert"
  /\ ~ KeyLocked(h, handler[h].event)
  /\ handler' = [handler EXCEPT ![h].pc = "commit",
       ![h].wrote = IF KeyStored(handler[h].event) THEN {} ELSE {NewRow(h)}]
  /\ nextId' = nextId + 1
  /\ UNCHANGED <<rows, pruner, due, now, delivered, faults>>

Commit(h) ==
  /\ handler[h].pc = "commit"
  /\ rows' = rows \cup handler[h].wrote
  /\ handler' = [handler EXCEPT ![h] = IdleHandler]
  /\ UNCHANGED <<pruner, due, nextId, now, delivered, faults>>

\* Mutant: the session is not closed, the transaction keeps its row and key.
FailWithoutRollback(h) ==
  /\ handler[h].pc # "idle"
  /\ faults < MaxFaults
  /\ faults' = faults + 1
  /\ handler' = [handler EXCEPT ![h].pc = "idle"]
  /\ UNCHANGED <<rows, pruner, due, nextId, now, delivered>>

\* The transaction raises; _handle_event logs the exception and goes on.
Fail(h) ==
  /\ handler[h].pc # "idle"
  /\ faults < MaxFaults
  /\ faults' = faults + 1
  /\ handler' = [handler EXCEPT ![h] = IdleHandler]
  /\ UNCHANGED <<rows, pruner, due, nextId, now, delivered>>

-----------------------------------------------------------------------------
(* Retention. *)

\* Mutants: a window of zero, a cutoff that takes its own instant with it.
CutoffNow == now
ExpiredInclusive(table, cutoff) ==
  {r \in rows : r.table = table /\ r.ts <= cutoff}

\* Rows older than this are outside the retention window.
Cutoff == now - Retention

Expired(table, cutoff) == {r \in rows : r.table = table /\ r.ts < cutoff}

\* The first BatchSize rows of S in the order of their ids.
FirstBatch(S) ==
  {r \in S : Cardinality({q \in S : q.id < r.id}) < BatchSize}

StartPrune(p) ==
  /\ pruner[p].pc = "idle"
  /\ pruner' = [pruner EXCEPT ![p] =
       [pc |-> "select", cutoff |-> Cutoff, table |-> "task_events",
        batch |-> {}]]
  /\ due' = [due EXCEPT ![p] = {r \in rows : r.ts < Cutoff}]
  /\ UNCHANGED <<rows, handler, nextId, now, delivered, faults>>

\* The subquery of the DELETE: the snapshot the statement works from.
SelectBatch(p) ==
  /\ pruner[p].pc = "select"
  /\ pruner' = [pruner EXCEPT ![p].pc = "delete",
       ![p].batch = FirstBatch(Expired(pruner[p].table, pruner[p].cutoff))]
  /\ UNCHANGED <<rows, handler, due, nextId, now, delivered, faults>>

\* Mutant: a full last batch is taken for a partial one.
MoreThanBatch(deleted) == Cardinality(deleted) > BatchSize

\* Fewer than BatchSize deleted rows end the table.
TableGoesOn(deleted) == Cardinality(deleted) >= BatchSize

NextBatch(pass, table) ==
  [pc |-> "select", cutoff |-> pass.cutoff, table |-> table, batch |-> {}]

\* Mutant: the pass forgets worker_events.
AfterBatchTasksOnly(pass, deleted) ==
  IF TableGoesOn(deleted) THEN NextBatch(pass, pass.table) ELSE IdlePruner

\* task_events is followed by worker_events, and that ends the pass.
AfterBatch(pass, deleted) ==
  CASE TableGoesOn(deleted) -> NextBatch(pass, pass.table)
    [] ~ TableGoesOn(deleted) /\ pass.table = "task_events" ->
         NextBatch(pass, "worker_events")
    [] OTHER -> IdlePruner

\* The DELETE takes effect and commits.  Rows of the batch that another pass
\* deleted meanwhile do not count as deleted.
DeleteBatch(p) ==
  LET deleted == pruner[p].batch \cap rows
  IN  /\ pruner[p].pc = "delete"
      /\ rows' = rows \ deleted
      /\ pruner' = [pruner EXCEPT ![p] = AfterBatch(pruner[p], deleted)]
      /\ UNCHANGED <<handler, due, nextId, now, delivered, faults>>

-----------------------------------------------------------------------------
(* The consumer process dies: open transactions roll back, the pass stops. *)

Crash ==
  /\ faults < MaxFaults
  /\ faults' = faults + 1
  /\ handler' = [h \in Handlers |-> IdleHandler]
  /\ pruner' = [p \in Pruners |-> IdlePruner]
  /\ due' = [p \in Pruners |-> {}]
  /\ UNCHANGED <<rows, nextId, now, delivered>>

Tick ==
  /\ now < MaxTime
  /\ now' = now + 1
  /\ UNCHANGED <<rows, handler, pruner, due, nextId, delivered, faults>>

HandlerStep(h) == Insert(h) \/ Commit(h)
PruneStep(p) == StartPrune(p) \/ SelectBatch(p) \/ DeleteBatch(p)

Next ==
  \/ \E h \in Handlers, e \in Event : Deliver(h, e)
  \/ \E h \in Handlers : Insert(h)
  \/ \E h \in Handlers : Commit(h)
  \/ \E h \in Handlers : Fail(h)
  \/ \E p \in Pruners : StartPrune(p)
  \/ \E p \in Pruners : SelectBatch(p)
  \/ \E p \in Pruners : DeleteBatch(p)
  \/ Crash
  \/ Tick

Spec == Init /\ [][Next]_vars

\* The event loop keeps running a coroutine that is not waiting for a lock,
\* and the retention loop starts a pass again and again.
Fairness ==
  /\ \A h \in Handlers : WF_vars(HandlerStep(h))
  /\ \A p \in Pruners : WF_vars(PruneStep(p))

FairSpec == Spec /\ Fairness

-----------------------------------------------------------------------------
(* Properties. *)

Written == UNION {handler[h].wrote : h \in Handlers}

HandlerState ==
  [pc : {"idle", "insert", "commit"}, event : Event \cup {NoEvent},
   ts : Time, wrote : SUBSET Row]

PassState ==
  [pc : {"idle", "select", "delete"}, cutoff : Int, table : Tables,
   batch : SUBSET Row]

\* A coroutine has an event unless idle, and holds a row only when it may
\* still commit it.
HandlerOK(c) ==
  /\ c \in HandlerState
  /\ c.pc # "idle" => c.event \in Event
  /\ c.pc # "commit" => c.wrote = {}

\* Type invariant of insert_event and _prune_table: what each variable holds,
\* and that no idle coroutine keeps a row (or its key) to itself.
TypeOK ==
  /\ rows \in SUBSET Row
  /\ handler \in [Handlers -> HandlerState]
  /\ \A h \in Handlers : HandlerOK(handler[h])
  /\ pruner \in [Pruners -> PassState]
  /\ due \in [Pruners -> SUBSET Row]
  /\ nextId \in Nat /\ now \in Nat /\ delivered \in Nat /\ faults \in Nat

\* handlers.py insert_event, docs/usage/retention.md: however deliveries are
\* repeated, interleaved and rolled back, no two rows, committed or about to
\* be, carry the same key.
OneRowPerKey ==
  \A r, q \in rows \cup Written : Conflicts(r, q) => r = q

\* handlers.py insert_event: a handler that found its key taken, and so wrote
\* nothing, has not lost the event: the row it deferred to is really stored,
\* or old enough for retention to have removed it.
NoSilentDrop ==
  \A h \in Handlers :
    (handler[h].pc = "commit" /\ handler[h].wrote = {}) =>
      \/ KeyStored(handler[h].event)
      \/ handler[h].ts < now - Retention

\* maintenance.py prune_events: once no pass is running, nothing is left of
\* the rows that had expired before the last pass of each pruner started.
PassIsComplete ==
  (\A p \in Pruners : pruner[p].pc = "idle") =>
    \A p \in Pruners : due[p] \cap rows = {}

\* docs/usage/retention.md: only one prune should be needed per window, and
\* overlapping runs are safe but redundant.  Once no pass is running, nothing is
\* left of the rows that had expired before either of them started, and that
\* either alone would have deleted.
OverlapIsRedundant ==
  (\A p \in Pruners : pruner[p].pc = "idle") =>
    ~ \E r \in rows : \A p \in Pruners : r \in due[p]

\* queries.py list_tasks: the latest event of a subject, by (timestamp, id).
RowsOf(subject) == {r \in rows : r.event.subject = subject}
Later(r, q) == r.ts > q.ts \/ (r.ts = q.ts /\ r.id > q.id)
Current(subject) ==
  {r \in RowsOf(subject) : \A q \in RowsOf(subject) \ {r} : Later(r, q)}

Subjects == {e.subject : e \in Event}

\* maintenance.py _prune_table: a prune batch never changes the current state
\* of a task or worker that has an event inside the retention window.
PruneKeepsCurrent ==
  [][(\E p \in Pruners : DeleteBatch(p)) =>
       \A s \in Subjects :
         (\E r \in RowsOf(s) : r.ts >= now - Retention) =>
           Current(s)' = Current(s)]_vars

\* The tables implement the retained log.
Retained == INSTANCE RetainedLog WITH log <- rows, now <- now
RetainedSpec == Retained!Spec

\* receiver.py _handle_event: every coroutine ends, whatever keys it has to
\* wait for.
HandlersFinish ==
  \A h \in Handlers : handler[h].pc # "idle" ~> handler[h].pc = "idle"

\* maintenance.py: every row that outlives the retention window is deleted.
ExpiredRowsGo ==
  \A i \in 1 .. MaxDeliveries :
    (\E r \in rows : r.id = i /\ r.ts < now - Retention)
      ~> ~ \E r \in rows : r.id = i
=============================================================================
