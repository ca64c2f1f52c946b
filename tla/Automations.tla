----------------------------- MODULE Automations -----------------------------
(***************************************************************************)
(* The automations table and its writers (automations.py): operators who   *)
(* create, update, toggle and delete definitions through the HTTP API or   *)
(* the MCP server, each request a session of its own, and consumers that   *)
(* seed the built-in alert automations when they start.                    *)
(*                                                                         *)
(* Every request first reads and later writes; between the two others may  *)
(* commit.  An update writes the columns whose requested value differs     *)
(* from the one it has read, and no others (SQLAlchemy's unit of work).  A *)
(* flushed row of a seeding transaction is visible to nobody else, yet its *)
(* name already excludes every other insert of that name.                  *)
(***************************************************************************)
EXTENDS Integers, Sequences

CONSTANTS
  Clients,        \* requests of operators in flight at once
  Consumers,      \* consumer processes
  Creates,        \* bodies of create requests
  Updates,        \* bodies of update requests: columns and their values
  Existing,       \* the table at the start, a function from ids
  FirstId,        \* the value the id sequence stands at
  None,           \* a column or a field without value
  OnTaskFailed,   \* ALERT_ON_TASK_FAILED
  OnSlowTask,     \* ALERT_SLOW_TASK_SECONDS is set
  OnOffline,      \* ALERT_ON_WORKER_OFFLINE
  CheckSeconds,   \* ALERT_WORKER_CHECK_SECONDS
  MaxRequests,    \* bound: requests of operators
  MaxStarts       \* bound: starts of consumers

Triggers == {"event", "periodic"}
EventTypes == {"task-failed", "task-succeeded", "worker-offline"}
Fields == {"name", "enabled", "trigger_type", "event_type", "schedule_seconds",
           "cooldown_seconds", "max_runs_per_window", "window_seconds"}

\* The columns _validate_automation looks at.
Checked == Fields \ {"name", "enabled"}

\* What a row may hold: each column by itself is as the validation wants it,
\* except those it only looks at together with another; names and event types
\* are any strings.
IsRow(d) ==
  /\ DOMAIN d = Fields
  /\ d.name # None
  /\ d.enabled \in BOOLEAN
  /\ d.trigger_type \in Triggers
  /\ d.schedule_seconds \in Int \cup {None}
  /\ d.cooldown_seconds \in Nat \cup {None}
  /\ d.max_runs_per_window \in (Nat \ {0}) \cup {None}
  /\ d.window_seconds \in Int \cup {None}

\* What a request may carry.
IsBody(d) ==
  /\ DOMAIN d = Fields
  /\ d.enabled \in BOOLEAN \cup {None}
  /\ d.schedule_seconds \in Int \cup {None}
  /\ d.cooldown_seconds \in Int \cup {None}
  /\ d.max_runs_per_window \in Int \cup {None}
  /\ d.window_seconds \in Int \cup {None}

Positive(v) == v # None /\ v > 0

\* Mutant of Valid: the cooldown is not looked at.
ValidAnyCooldown(d) ==
  /\ d.trigger_type \in Triggers
  /\ d.trigger_type = "event" => d.event_type \in EventTypes
  /\ d.trigger_type = "periodic" => Positive(d.schedule_seconds)
  /\ d.max_runs_per_window # None =>
       Positive(d.max_runs_per_window) /\ Positive(d.window_seconds)

\* _validate_automation returns no error.
Valid(d) ==
  /\ d.trigger_type \in Triggers
  /\ d.trigger_type = "event" => d.event_type \in EventTypes
  /\ d.trigger_type = "periodic" => Positive(d.schedule_seconds)
  /\ d.cooldown_seconds # None => d.cooldown_seconds >= 0
  /\ d.max_runs_per_window # None =>
       Positive(d.max_runs_per_window) /\ Positive(d.window_seconds)

\* The fields of an update that are set, and a definition with them.
NonNull(body) == {f \in Fields : body[f] # None}

\* Mutant of Merge: a window of zero counts as not set.
MergeTruthy(d, body) ==
  [f \in Fields |->
    IF f \in NonNull(body) /\ (f = "window_seconds" => body[f] # 0)
      THEN body[f] ELSE d[f]]

Merge(d, body) == [f \in Fields |-> IF f \in NonNull(body) THEN body[f] ELSE d[f]]

\* The built-in automations, in the order in which they are seeded.
EventAlert(name, type) ==
  [name |-> name, enabled |-> TRUE, trigger_type |-> "event",
   event_type |-> type, schedule_seconds |-> None, cooldown_seconds |-> None,
   max_runs_per_window |-> None, window_seconds |-> None]

Sweep ==
  [EventAlert("alert-worker-offline-sweep", None) EXCEPT
     !.trigger_type = "periodic", !.schedule_seconds = CheckSeconds]

Builtins ==
  (IF OnTaskFailed THEN <<EventAlert("alert-task-failed", "task-failed")>> ELSE <<>>)
  \o (IF OnSlowTask THEN <<EventAlert("alert-slow-task", "task-succeeded")>> ELSE <<>>)
  \o (IF OnOffline
        THEN <<EventAlert("alert-worker-offline", "worker-offline"), Sweep>>
        ELSE <<>>)

BuiltinNames == {Builtins[i].name : i \in 1 .. Len(Builtins)}

ASSUME NoneAssumption ==
  /\ None \notin Int /\ None \notin BOOLEAN
  /\ None \notin Triggers \cup EventTypes \cup BuiltinNames
ASSUME RequestAssumption ==
  /\ \A d \in Creates : IsBody(d) /\ d.name # None /\ d.enabled # None
  /\ \A d \in Updates : IsBody(d)
ASSUME SettingsAssumption ==
  /\ OnTaskFailed \in BOOLEAN /\ OnSlowTask \in BOOLEAN /\ OnOffline \in BOOLEAN
  /\ CheckSeconds \in Int
ASSUME ExistingAssumption ==
  /\ DOMAIN Existing \subseteq Nat \ {0}
  /\ \A i \in DOMAIN Existing : IsRow(Existing[i])
  /\ \A i, j \in DOMAIN Existing : Existing[i].name = Existing[j].name => i = j
  /\ FirstId \in Nat /\ \A i \in DOMAIN Existing : i < FirstId
ASSUME BoundAssumption == MaxRequests \in Nat /\ MaxStarts \in Nat

VARIABLES
  table,     \* committed rows of automations, by id
  client,    \* per request: its step, operation, target, body and what it read
  seeder,    \* per consumer: its step, the built-in at hand, the flushed rows
  nextId,    \* next value of the id sequence
  ever,      \* history: ids that have been in the table
  raced,     \* history: rows updated on the strength of outdated columns
  removed,   \* history: built-in names that operators renamed or deleted
  taken,     \* history: an operator gave a row a built-in name
  requests, starts

history == <<ever, raced, removed, taken>>
bounds == <<requests, starts>>
vars == <<table, client, seeder, nextId, history, bounds>>
-----------------------------------------------------------------------------
NoBody == [f \in Fields |-> None]
Waiting == [pc |-> "idle", op |-> "none", id |-> 0, data |-> NoBody, seen |-> NoBody]
NoRows == [i \in {} |-> NoBody]
Down == [pc |-> "down", next |-> 1, rows |-> NoRows]

\* Rows together with others, and with one more.
Joined(rows, more) ==
  [i \in DOMAIN rows \cup DOMAIN more |->
    IF i \in DOMAIN rows THEN rows[i] ELSE more[i]]
With(rows, i, d) == Joined(rows, [j \in {i} |-> d])

NamesOf(rows) == {rows[i].name : i \in DOMAIN rows}

\* Mutant of HeldBy: no unique index, the lookup of the name has to do.
HeldByNobody(consumers) == {}

\* Names other sessions have inserted and not yet committed: an insert or a
\* rename to such a name waits for the end of that transaction.
HeldBy(consumers) == UNION {NamesOf(seeder[s].rows) : s \in consumers}

Init ==
  /\ table = Existing
  /\ client = [c \in Clients |-> Waiting]
  /\ seeder = [s \in Consumers |-> Down]
  /\ nextId = FirstId
  /\ ever = DOMAIN Existing /\ raced = {} /\ removed = {} /\ taken = FALSE
  /\ requests = 0 /\ starts = 0
-----------------------------------------------------------------------------
(* Requests.  A request that is refused, or has been answered, is gone.     *)

Ask(c, op, i, d, pc) ==
  /\ client[c].pc = "idle"
  /\ requests < MaxRequests
  /\ requests' = requests + 1
  /\ client' = [client EXCEPT ![c] =
                  [pc |-> pc, op |-> op, id |-> i, data |-> d, seen |-> NoBody]]
  /\ UNCHANGED <<table, seeder, nextId, history, starts>>

AskCreate(c, d) == Valid(d) /\ Ask(c, "create", 0, d, "check")
AskUpdate(c, i, d) == NonNull(d) # {} /\ Ask(c, "update", i, d, "read")
AskToggle(c, i) == Ask(c, "toggle", i, NoBody, "read")
AskDelete(c, i) == Ask(c, "delete", i, NoBody, "read")

Answer(c) == client' = [client EXCEPT ![c] = Waiting]

\* create: the name is looked up ...
CheckName(c) ==
  /\ client[c].pc = "check"
  /\ \/ client[c].data.name \in NamesOf(table) /\ Answer(c)
     \/ client[c].data.name \notin NamesOf(table)
        /\ client' = [client EXCEPT ![c].pc = "insert"]
  /\ UNCHANGED <<table, seeder, nextId, history, bounds>>

\* ... and the row inserted, unless the name has been taken since.
Insert(c) ==
  LET d == client[c].data IN
  /\ client[c].pc = "insert"
  /\ d.name \notin HeldBy(Consumers)
  /\ nextId' = nextId + 1
  /\ Answer(c)
  /\ \/ d.name \in NamesOf(table) /\ UNCHANGED <<table, ever, taken>>
     \/ /\ d.name \notin NamesOf(table)
        /\ table' = With(table, nextId, d)
        /\ ever' = ever \cup {nextId}
        /\ taken' = (taken \/ d.name \in BuiltinNames)
  /\ UNCHANGED <<seeder, raced, removed, bounds>>

\* update, toggle and delete read the row first; an update validates what it
\* read merged with the request, a toggle settles on the value it will write.
Read(c) ==
  LET i == client[c].id IN
  /\ client[c].pc = "read"
  /\ \/ i \notin DOMAIN table /\ Answer(c)
     \/ /\ i \in DOMAIN table
        /\ client[c].op = "update"
        /\ ~Valid(Merge(table[i], client[c].data))
        /\ Answer(c)
     \/ /\ i \in DOMAIN table
        /\ client[c].op = "update" => Valid(Merge(table[i], client[c].data))
        /\ client' = [client EXCEPT
             ![c].pc = "write",
             ![c].seen = table[i],
             ![c].data = IF client[c].op = "toggle"
                           THEN [NoBody EXCEPT !.enabled = ~table[i].enabled] ELSE @]
  /\ UNCHANGED <<table, seeder, nextId, history, bounds>>

\* The columns the unit of work finds changed.
Dirty(c) == {f \in NonNull(client[c].data) : client[c].data[f] # client[c].seen[f]}
Assign(row, data, columns) ==
  [f \in Fields |-> IF f \in columns THEN data[f] ELSE row[f]]

\* Mutant of Target: the whole row is written back as it was read.
TargetAsRead(c) == client[c].seen

\* The row the UPDATE statement changes.
Target(c) == table[client[c].id]

\* update and toggle: nothing is written when no column changes, when the row
\* is gone, or when the new name is another row's.
Write(c) ==
  LET i == client[c].id
      d == client[c].data
      columns == Dirty(c)
  IN
  /\ client[c].pc = "write"
  /\ client[c].op \in {"update", "toggle"}
  /\ Answer(c)
  /\ \/ /\ columns = {} \/ i \notin DOMAIN table
        /\ UNCHANGED <<table, history>>
     \/ /\ columns # {} /\ i \in DOMAIN table /\ "name" \in columns
        /\ d.name \in NamesOf([j \in DOMAIN table \ {i} |-> table[j]])
        /\ UNCHANGED <<table, history>>
     \/ /\ columns # {} /\ i \in DOMAIN table
        /\ "name" \in columns =>
             d.name \notin NamesOf([j \in DOMAIN table \ {i} |-> table[j]])
                           \cup HeldBy(Consumers)
        /\ table' = [table EXCEPT ![i] = Assign(Target(c), d, columns)]
        /\ raced' = IF \E f \in Checked : table[i][f] # client[c].seen[f]
                      THEN raced \cup {i} ELSE raced
        /\ removed' = IF "name" \in columns THEN removed \cup {table[i].name} ELSE removed
        /\ taken' = (taken \/ ("name" \in columns /\ d.name \in BuiltinNames))
        /\ UNCHANGED ever
  /\ UNCHANGED <<seeder, nextId, bounds>>

\* delete: deleting a row that is already gone succeeds as well.
Delete(c) ==
  LET i == client[c].id IN
  /\ client[c].pc = "write"
  /\ client[c].op = "delete"
  /\ \/ i \notin DOMAIN table /\ UNCHANGED <<table, removed>>
     \/ /\ i \in DOMAIN table
        /\ table' = [j \in DOMAIN table \ {i} |-> table[j]]
        /\ removed' = removed \cup {table[i].name}
  /\ Answer(c)
  /\ UNCHANGED <<seeder, nextId, ever, raced, taken, bounds>>
-----------------------------------------------------------------------------
(* Seeding, one transaction of a starting consumer.                         *)

\* A consumer starts, or has seeded, stops and starts again.
Start(s) ==
  /\ seeder[s].pc \in {"down", "done"}
  /\ starts < MaxStarts
  /\ starts' = starts + 1
  /\ seeder' = [seeder EXCEPT ![s] = [Down EXCEPT !.pc = "check"]]
  /\ UNCHANGED <<table, client, nextId, history, requests>>

Wanted(s) == Builtins[seeder[s].next]

\* The select of _ensure sees committed rows and those of its own transaction;
\* a name that is there is skipped.
CheckBuiltin(s) ==
  /\ seeder[s].pc = "check"
  /\ seeder[s].next <= Len(Builtins)
  /\ seeder' = IF Wanted(s).name \in NamesOf(table) \cup NamesOf(seeder[s].rows)
                 THEN [seeder EXCEPT ![s].next = @ + 1]
                 ELSE [seeder EXCEPT ![s].pc = "flush"]
  /\ UNCHANGED <<table, client, nextId, history, bounds>>

\* Mutant of Flush: the failed transaction is not rolled back.
FlushWithoutRollback(s) ==
  /\ seeder[s].pc = "flush"
  /\ Wanted(s).name \notin HeldBy(Consumers \ {s})
  /\ nextId' = nextId + 1
  /\ \/ /\ Wanted(s).name \in NamesOf(table)
        /\ seeder' = [seeder EXCEPT ![s].pc = "done"]
     \/ /\ Wanted(s).name \notin NamesOf(table)
        /\ seeder' = [seeder EXCEPT ![s].pc = "check", ![s].next = @ + 1,
                                     ![s].rows = With(@, nextId, Wanted(s))]
  /\ UNCHANGED <<table, client, history, bounds>>

\* The flush: a name that has been committed since fails the transaction,
\* which undoes every row of it, and the error is logged by the consumer.
Flush(s) ==
  /\ seeder[s].pc = "flush"
  /\ Wanted(s).name \notin HeldBy(Consumers \ {s})
  /\ nextId' = nextId + 1
  /\ \/ /\ Wanted(s).name \in NamesOf(table)
        /\ seeder' = [seeder EXCEPT ![s].pc = "done", ![s].rows = NoRows]
     \/ /\ Wanted(s).name \notin NamesOf(table)
        /\ seeder' = [seeder EXCEPT ![s].pc = "check", ![s].next = @ + 1,
                                     ![s].rows = With(@, nextId, Wanted(s))]
  /\ UNCHANGED <<table, client, history, bounds>>

\* Mutant of CommitSeed: _seed ends without a commit.
EndSeed(s) ==
  /\ seeder[s].pc = "check"
  /\ seeder[s].next > Len(Builtins)
  /\ seeder' = [seeder EXCEPT ![s].pc = "done", ![s].rows = NoRows]
  /\ UNCHANGED <<table, client, nextId, history, bounds>>

\* The commit that ends _seed.
CommitSeed(s) ==
  /\ seeder[s].pc = "check"
  /\ seeder[s].next > Len(Builtins)
  /\ table' = Joined(table, seeder[s].rows)
  /\ ever' = ever \cup DOMAIN seeder[s].rows
  /\ seeder' = [seeder EXCEPT ![s].pc = "done", ![s].rows = NoRows]
  /\ UNCHANGED <<client, nextId, raced, removed, taken, bounds>>

\* The consumer dies while it seeds: its transaction is rolled back.
Crash(s) ==
  /\ seeder[s].pc \in {"check", "flush"}
  /\ seeder' = [seeder EXCEPT ![s] = Down]
  /\ UNCHANGED <<table, client, nextId, history, bounds>>
-----------------------------------------------------------------------------
Serve(c) == CheckName(c) \/ Insert(c) \/ Read(c) \/ Write(c) \/ Delete(c)
Seed(s) == CheckBuiltin(s) \/ Flush(s) \/ CommitSeed(s)

Next ==
  \/ \E c \in Clients :
       \/ \E d \in Creates : AskCreate(c, d)
       \/ \E i \in ever \cup {nextId}, d \in Updates : AskUpdate(c, i, d)
       \/ \E i \in ever \cup {nextId} : AskToggle(c, i) \/ AskDelete(c, i)
       \/ Serve(c)
  \/ \E s \in Consumers : Start(s) \/ Seed(s) \/ Crash(s)

\* A request that has been read is served, a transaction that is open goes on.
Fairness ==
  /\ \A c \in Clients : WF_vars(Serve(c))
  /\ \A s \in Consumers : WF_vars(Seed(s))

Spec == Init /\ [][Next]_vars /\ Fairness
-----------------------------------------------------------------------------
RowsOK ==
  /\ nextId \in Nat /\ ever \subseteq Nat /\ \A i \in ever : i < nextId
  /\ DOMAIN table \subseteq ever /\ \A i \in DOMAIN table : IsRow(table[i])

ClientOK(k) ==
  /\ DOMAIN k = {"pc", "op", "id", "data", "seen"}
  /\ k.pc \in {"idle", "check", "insert", "read", "write"}
  /\ k.op \in {"none", "create", "update", "toggle", "delete"}
  /\ k.id \in Nat
  /\ IsBody(k.data) /\ IsBody(k.seen)
  /\ k.pc = "write" => IsRow(k.seen)

SeederOK(k) ==
  /\ DOMAIN k = {"pc", "next", "rows"}
  /\ k.pc \in {"down", "check", "flush", "done"}
  /\ k.next \in 1 .. Len(Builtins) + 1
  /\ k.pc = "flush" => k.next <= Len(Builtins)
  /\ \A i \in DOMAIN k.rows : k.rows[i] \in {Builtins[b] : b \in 1 .. k.next - 1}

\* Every column of a row holds by itself what the validation asks of it, even
\* after updates that have raced; ids stem from the sequence and are never
\* reused; a request holds a read row only while it is about to write.
TypeOK ==
  /\ RowsOK
  /\ DOMAIN client = Clients /\ \A c \in Clients : ClientOK(client[c])
  /\ DOMAIN seeder = Consumers /\ \A s \in Consumers : SeederOK(seeder[s])
  /\ \A s \in Consumers : DOMAIN seeder[s].rows \subseteq (0 .. nextId - 1) \ ever
  /\ raced \subseteq ever /\ None \notin removed /\ taken \in BOOLEAN
  /\ requests \in 0 .. MaxRequests /\ starts \in 0 .. MaxStarts

\* What nobody has validated: the row of the sweep, seeded with whatever
\* ALERT_WORKER_CHECK_SECONDS is (line 508), and the rows found at the start.
Unvalidated == {Sweep} \cup {Existing[i] : i \in DOMAIN Existing}

\* A row passes the validation, or is still, but for toggles, what was never
\* validated.
Sound(d) ==
  Valid(d) \/ \E e \in Unvalidated : \A f \in Fields \ {"enabled"} : d[f] = e[f]

\* Requests of operators store nothing that fails the validation, unless an
\* update was validated against columns another update has changed meanwhile
\* (update_automation reads at line 222 and writes at 238): a definition that
\* fails it has raced, or is as it was seeded or found.
ValidUnlessRaced == \A i \in DOMAIN table \ raced : Sound(table[i])

\* No update is lost: a row changes only by a request that names the changed
\* columns, and to the values it asks for, whatever else was committed since
\* that request read the row; a toggle writes enabled alone, seeding nothing.
OnlyRequested ==
  [][\A i \in DOMAIN table \cap DOMAIN table' :
       table'[i] = table[i] \/
         \E c \in Clients :
           /\ client[c].pc = "write" /\ client[c].id = i
           /\ \A f \in Fields : table'[i][f] # table[i][f] =>
                f \in NonNull(client[c].data) /\ table'[i][f] = client[c].data[f]]_vars

\* Once a consumer has seeded, every built-in automation exists, also when
\* another consumer seeded at the same time or died while seeding, unless an
\* operator renamed or deleted one or gave its name to another row.
SeedComplete ==
  \A s \in Consumers : seeder[s].pc = "done" =>
    taken \/ BuiltinNames \subseteq NamesOf(table) \cup removed

\* The table is what its readers rely on: names are unique, rows change one at
\* a time, and the id of a deleted automation never denotes another one.
Table == INSTANCE AutomationTable
ImplementsTable == Table!Spec

\* Every request is answered: none waits for ever on a name that a seeding
\* consumer has flushed, because that transaction commits, fails or dies.
RequestsEnd == \A c \in Clients : client[c].pc # "idle" ~> client[c].pc = "idle"
=============================================================================
