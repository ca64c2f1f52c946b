------------------------------ MODULE TaskViews ------------------------------
(***************************************************************************)
(* The views on the event tables (queries.py, metrics.py) and the task      *)
(* actions that act on them (actions.py).  Several views compute the same   *)
(* thing by queries of their own: the state of a task, whether a worker is  *)
(* offline, whether a task is orphaned.  Some of them take more than one    *)
(* statement, each with a snapshot of its own, while events arrive late and *)
(* in any order and retention deletes old rows.                             *)
(*                                                                         *)
(* Workers and the broker are the environment.  A retry sends a new task    *)
(* that names the retried one as its parent; only its received event (and   *)
(* a sent event, which is alike) carries name, root and parent.             *)
(***************************************************************************)
EXTENDS Integers, FiniteSets, FiniteSetsExt

CONSTANTS
  Tasks,           \* ids of tasks
  Originals,       \* those sent by applications, the others are retries
  Workers,         \* hostnames
  RunsOn,          \* the worker of each task
  Nobody,          \* no task
  Grace,           \* ORPHAN_GRACE_SECONDS
  OfflineTimeout,  \* WORKER_OFFLINE_TIMEOUT_SECONDS
  MetricsTimeout,  \* the 30 seconds of metrics.py
  Retention,       \* EVENT_RETENTION_DAYS
  Readers,         \* requests being answered
  MaxTime, MaxEvents, MaxBeats, MaxAsks  \* bounds: clock, events of all kinds, those
                                         \* of workers, requests but retries

Final == {"succeeded", "failed"}
TaskTypes == {"received", "started"} \cup Final
WorkerTypes == {"heartbeat", "offline"}

ASSUME TasksAssumption ==
  /\ Originals \subseteq Tasks /\ Nobody \notin Tasks
  /\ RunsOn \in [Tasks -> Workers]
ASSUME TimesAssumption ==
  /\ Grace \in Nat /\ OfflineTimeout \in Nat /\ MetricsTimeout \in Nat
  /\ Retention \in Nat /\ Grace < Retention
ASSUME BoundsAssumption ==
  MaxTime \in Nat /\ MaxEvents \in Nat /\ MaxBeats \in Nat /\ MaxAsks \in Nat

VARIABLES
  log,      \* rows of task_events
  beats,    \* rows of worker_events
  link,     \* per sent task: its root and parent
  phase,    \* per task: what its worker last did with it
  wire,     \* events sent and not yet stored
  reader,   \* per request: its step, and what it has read
  now, worked, heard, asked

tables == <<log, beats>>
cluster == <<link, phase, wire>>
bounds == <<worked, heard, asked>>
vars == <<tables, cluster, reader, now, bounds>>
-----------------------------------------------------------------------------
(* Views that are one statement, as functions of the tables' rows.          *)

\* Mutant of Later: rows count in the order in which they came.
LaterById(r, q) == r.id > q.id

\* ROW_NUMBER() = 1 over (timestamp DESC, id DESC).
Later(r, q) == r.ts > q.ts \/ (r.ts = q.ts /\ r.id > q.id)
Newest(S) == {r \in S : \A q \in S : ~Later(q, r)}

\* ORDER BY timestamp: on a tie, any of the latest rows may be last.
Last(S) == {r \in S : \A q \in S : q.ts <= r.ts}

EventsOf(rows, t) == {r \in rows : r.task = t}
BeatsOf(rows, w) == {r \in rows : r.worker = w}

\* list_tasks: the newest row of each task, filtered by state and since.
ListTasks(rows) == UNION {Newest(EventsOf(rows, t)) : t \in Tasks}
Listed(rows, state, since) ==
  {r \in ListTasks(rows) : r.type = state /\ r.ts >= since}

\* get_task and _get_task_info: the state is that of the last row.
GetTaskStates(rows, t) == {r.type : r \in Last(EventsOf(rows, t))}

\* Mutant of ActiveTasks: the window without its start.
ActiveTasksAfter(rows, since) == {r.task : r \in {q \in rows : q.ts > since}}

\* get_task_summary: the newest rows of the tasks with an event in the window.
ActiveTasks(rows, since) == {r.task : r \in {q \in rows : q.ts >= since}}
Summary(rows, state, since) ==
  Cardinality({r \in UNION {Newest(EventsOf(rows, t)) : t \in ActiveTasks(rows, since)} :
                 r.type = state})

\* The name, which only the received event carries.
Named(rows, t) == \E r \in EventsOf(rows, t) : r.type = "received"

\* get_worker_status: from the newest row.
WorkerStatus(rows, w, t) ==
  {IF b.type = "offline" \/ t - b.ts > OfflineTimeout THEN "offline" ELSE "online" :
     b \in Newest(BeatsOf(rows, w))}

\* _worker_is_offline (and the same lines of actions.py): from a last row, and
\* a worker without rows is offline.
OfflineAnswers(rows, w, t) ==
  IF BeatsOf(rows, w) = {} THEN {TRUE}
  ELSE {b.type = "offline" \/ t - b.ts > OfflineTimeout : b \in Last(BeatsOf(rows, w))}

\* Mutant of OfflineMap: a worker that is not in the map counts as online.
OfflineMapOnline(rows, t) ==
  [w \in Workers |->
     \E b \in Newest(BeatsOf(rows, w)) : b.type = "offline" \/ t - b.ts > OfflineTimeout]

\* _workers_offline_map, read with .get(hostname, True).
OfflineMap(rows, t) ==
  [w \in Workers |->
     \A b \in Newest(BeatsOf(rows, w)) : b.type = "offline" \/ t - b.ts > OfflineTimeout]

\* metrics._populate_worker_metrics: the gauge is set from each of the last
\* rows in turn.
MetricsGauge(rows, w, t) ==
  {b.type # "offline" /\ t - b.ts <= MetricsTimeout : b \in Last(BeatsOf(rows, w))}

\* _task_is_orphaned, in both files, and the loop of list_orphaned_tasks: the
\* first two rules.
Stuck(r, t) == r.type = "started" /\ t - r.ts > Grace
-----------------------------------------------------------------------------
NoRequest ==
  [pc |-> "idle", query |-> "none", task |-> Nobody, at |-> 0, seen |-> {},
   named |-> FALSE, root |-> Nobody, finished |-> {}, known |-> {}, answer |-> {}]

Init ==
  /\ log = {} /\ beats = {}
  /\ link = [t \in {} |-> [root |-> Nobody, parent |-> Nobody]]
  /\ phase = [t \in Tasks |-> "unsent"]
  /\ wire = {}
  /\ reader = [r \in Readers |-> NoRequest]
  /\ now = 0 /\ worked = 0 /\ heard = 0 /\ asked = 0
-----------------------------------------------------------------------------
(* The cluster, and what the consumer and retention do to the tables.       *)

\* The message that sends a task carries its root and its parent.
Linked(t, root, parent) ==
  link' = [x \in DOMAIN link \cup {t} |->
            IF x = t THEN [root |-> root, parent |-> parent] ELSE link[x]]

\* Mutant of Execute: the message does not carry a root.
ExecuteRootless(t) ==
  /\ t \in Originals \ DOMAIN link
  /\ Linked(t, Nobody, Nobody)
  /\ phase' = [phase EXCEPT ![t] = "sent"]
  /\ UNCHANGED <<tables, wire, reader, now, bounds>>

\* execute_task, or an application: a task without parent is its own root.
Execute(t) ==
  /\ t \in Originals \ DOMAIN link
  /\ Linked(t, t, Nobody)
  /\ phase' = [phase EXCEPT ![t] = "sent"]
  /\ UNCHANGED <<tables, wire, reader, now, bounds>>

\* A worker goes on with a task and sends an event; a failure may also be the
\* effect of revoke_task.  A worker may stop at any point.
After(p) ==
  CASE p = "sent" -> {"received"} [] p = "received" -> {"started"}
    [] p = "started" -> Final [] OTHER -> {}

Work(t, type) ==
  /\ type \in After(phase[t])
  /\ worked + heard < MaxEvents
  /\ worked' = worked + 1
  /\ phase' = [phase EXCEPT ![t] = type]
  /\ wire' = wire \cup {[task |-> t, type |-> type, ts |-> now]}
  /\ UNCHANGED <<tables, link, reader, now, heard, asked>>

\* Ids stand for the order in which the rows of one task or worker came; that
\* between rows of different ones is left open.
NextId(rows) == IF rows = {} THEN 1 ELSE 1 + Max({r.id : r \in rows})

\* A handler commits; events overtake each other on the way.
Store(e) ==
  /\ wire' = wire \ {e}
  /\ log' = log \cup {[id |-> NextId(EventsOf(log, e.task)), task |-> e.task,
                       type |-> e.type, ts |-> e.ts]}
  /\ UNCHANGED <<beats, link, phase, reader, now, bounds>>

StoreBeat(w, type, ts) ==
  /\ heard < MaxBeats /\ worked + heard < MaxEvents
  /\ heard' = heard + 1
  /\ beats' = beats \cup {[id |-> NextId(BeatsOf(beats, w)), worker |-> w,
                           type |-> type, ts |-> ts]}
  /\ UNCHANGED <<log, cluster, reader, now, worked, asked>>

\* _prune_table: expired rows go in the order of their ids; a batch may end
\* after any of them.
Expired(e, at) == e.ts < at - Retention
MayGo(rows, r) == Expired(r, now) /\ \A q \in rows : Expired(q, now) => r.id <= q.id

PruneTask(r) ==
  /\ MayGo(EventsOf(log, r.task), r)
  /\ log' = log \ {r}
  /\ UNCHANGED <<beats, cluster, reader, now, bounds>>

PruneWorker(r) ==
  /\ MayGo(BeatsOf(beats, r.worker), r)
  /\ beats' = beats \ {r}
  /\ UNCHANGED <<log, cluster, reader, now, bounds>>

Tick ==
  /\ now < MaxTime
  /\ now' = now + 1
  /\ UNCHANGED <<tables, cluster, reader, bounds>>
-----------------------------------------------------------------------------
(* Requests of more than one statement.                                     *)

Ask(r, request) ==
  /\ reader[r].pc = "idle"
  /\ asked' = IF request.query = "retry" THEN asked ELSE asked + 1
  /\ asked' <= MaxAsks
  /\ reader' = [reader EXCEPT ![r] = request]
  /\ UNCHANGED <<tables, cluster, now, worked, heard>>

\* History: the tasks whose end, or whose received event, is on record when a
\* request is made, and neither expired nor of the same time as another event.
Finished(rows) ==
  {e.task : e \in {e \in rows : e.type \in Final /\ ~Expired(e, now)
                     /\ \A q \in EventsOf(rows, e.task) \ {e} : q.ts # e.ts}}
Known(rows) == {e.task : e \in {e \in rows : e.type = "received" /\ ~Expired(e, now)}}

Request(query, t, pc) ==
  [NoRequest EXCEPT !.query = query, !.task = t, !.pc = pc, !.at = now,
                    !.finished = Finished(log), !.known = Known(log)]

\* list_orphaned_tasks: the newest row of every task; those that are not stuck
\* are dropped later, and without a stuck one the answer is empty.
AskOrphans(r) ==
  LET stuck == {q \in ListTasks(log) : Stuck(q, now)} IN
  /\ stuck # {}
  /\ Ask(r, [Request("orphans", Nobody, "workers") EXCEPT !.seen = stuck])

\* The root_id found in the rows of a task.
RootRead(rows, t) == IF Named(rows, t) THEN link[t].root ELSE Nobody

\* retry_task reads all rows of the task in one statement, as get_task does;
\* unless the last one says it is stuck, no worker is asked about.
AskRetry(r, t) ==
  \E last \in Last(EventsOf(log, t)) :
    LET request(pc) == [Request("retry", t, pc) EXCEPT
                          !.seen = {last}, !.named = Named(log, t), !.root = RootRead(log, t)]
    IN \/ Stuck(last, now) /\ Ask(r, request("workers"))
       \/ /\ last.type = "failed" /\ Named(log, t)
          /\ Ask(r, request("send"))

\* The second statement of list_orphaned_tasks: all workers.
ListOrphans(r) ==
  /\ reader[r].pc = "workers" /\ reader[r].query = "orphans"
  /\ reader' = [reader EXCEPT
       ![r].pc = "answer",
       ![r].answer = {q \in reader[r].seen :
                       OfflineMap(beats, reader[r].at)[RunsOn[q.task]]}]
  /\ UNCHANGED <<tables, cluster, now, bounds>>

\* Mutant of ReadWorker: an orphan is retried without a look at its name.
ReadWorkerUnnamed(r) ==
  /\ reader[r].pc = "workers" /\ reader[r].query = "retry"
  /\ \E offline \in OfflineAnswers(beats, RunsOn[reader[r].task], reader[r].at) :
       reader' = [reader EXCEPT ![r] =
         IF offline THEN [@ EXCEPT !.pc = "send", !.answer = reader[r].seen]
         ELSE NoRequest]
  /\ UNCHANGED <<tables, cluster, now, bounds>>

\* retry_task, then: the worker of the task.
ReadWorker(r) ==
  /\ reader[r].pc = "workers" /\ reader[r].query = "retry"
  /\ \E offline \in OfflineAnswers(beats, RunsOn[reader[r].task], reader[r].at) :
       reader' = [reader EXCEPT ![r] =
         IF offline /\ @.named THEN [@ EXCEPT !.pc = "send", !.answer = reader[r].seen]
         ELSE NoRequest]
  /\ UNCHANGED <<tables, cluster, now, bounds>>

\* retry_task sends a task of the same root; the broker may refuse.
Send(r) ==
  /\ reader[r].pc = "send"
  /\ reader' = [reader EXCEPT ![r] = NoRequest]
  /\ \/ \E x \in Tasks \ (Originals \cup DOMAIN link) :
          /\ Linked(x, IF reader[r].root # Nobody THEN reader[r].root ELSE reader[r].task,
                    reader[r].task)
          /\ phase' = [phase EXCEPT ![x] = "sent"]
          /\ UNCHANGED wire
     \/ UNCHANGED cluster
  /\ UNCHANGED <<tables, now, bounds>>

\* get_task_chain: the root, then the newest row per task of the family, then
\* the order of the family; a task is in the chain when both have it.
AskChain(r, t) ==
  Ask(r, [Request("chain", t, "family") EXCEPT
            !.root = IF Named(log, t) THEN RootRead(log, t) ELSE t])

\* Mutant of Family: the children of the root instead of its family.
FamilyByParent(rows, root, t) ==
  {q \in rows : q.task = t \/ (q.type = "received" /\ link[q.task].parent = root)}

Family(rows, root, t) ==
  {q \in rows : q.task = t \/ (q.type = "received" /\ link[q.task].root = root)}

ReadFamily(r) ==
  LET family == Family(log, reader[r].root, reader[r].task) IN
  /\ reader[r].pc = "family"
  /\ reader' = [reader EXCEPT ![r].pc = "order", ![r].seen = ListTasks(family)]
  /\ UNCHANGED <<tables, cluster, now, bounds>>

ReadOrder(r) ==
  LET family == Family(log, reader[r].root, reader[r].task) IN
  /\ reader[r].pc = "order"
  /\ reader' = [reader EXCEPT
       ![r].pc = "answer",
       ![r].answer = {q \in reader[r].seen : \E f \in family : f.task = q.task}]
  /\ UNCHANGED <<tables, cluster, now, bounds>>

Answered(r) ==
  /\ reader[r].pc = "answer"
  /\ reader' = [reader EXCEPT ![r] = NoRequest]
  /\ UNCHANGED <<tables, cluster, now, bounds>>

Next ==
  \/ \E t \in Tasks : Execute(t) \/ \E type \in TaskTypes : Work(t, type)
  \/ \E e \in wire : Store(e)
  \/ \E w \in Workers, type \in WorkerTypes, ts \in 0 .. now : StoreBeat(w, type, ts)
  \/ \E r \in log : PruneTask(r)
  \/ \E r \in beats : PruneWorker(r)
  \/ Tick
  \/ \E r \in Readers :
       \/ AskOrphans(r)
       \/ \E t \in DOMAIN link : AskRetry(r, t) \/ AskChain(r, t)
       \/ ListOrphans(r) \/ ReadWorker(r) \/ Send(r)
       \/ ReadFamily(r) \/ ReadOrder(r) \/ Answered(r)

Spec == Init /\ [][Next]_vars
-----------------------------------------------------------------------------
TypeOK ==
  /\ log \subseteq [id : Nat \ {0}, task : DOMAIN link, type : TaskTypes, ts : 0 .. now]
  /\ beats \subseteq [id : Nat \ {0}, worker : Workers, type : WorkerTypes, ts : 0 .. now]
  /\ DOMAIN link \subseteq Tasks
  /\ \A t \in DOMAIN link : link[t] \in [root : Tasks, parent : Tasks \cup {Nobody}]
  /\ phase \in [Tasks -> TaskTypes \cup {"unsent", "sent"}]
  /\ wire \subseteq [task : DOMAIN link, type : TaskTypes, ts : 0 .. now]
  /\ \A r \in Readers :
       /\ reader[r].pc \in {"idle", "workers", "send", "family", "order", "answer"}
       /\ reader[r].answer \subseteq reader[r].seen
       /\ reader[r].pc = "send" => reader[r].task \in DOMAIN link
  /\ now \in 0 .. MaxTime /\ worked \in 0 .. MaxEvents /\ heard \in 0 .. MaxBeats /\ asked \in 0 .. MaxAsks

\* list_tasks, get_task and the summary compute the state of a task by three
\* queries: they name the same one unless two events carry the same timestamp,
\* and the summary counts exactly the tasks list_tasks returns for a window.
TaskViewsAgree ==
  /\ \A q \in ListTasks(log) :
       \/ GetTaskStates(log, q.task) = {q.type}
       \/ q.type \in GetTaskStates(log, q.task)
          /\ \E p \in log : p # q /\ p.task = q.task /\ p.ts = q.ts
  /\ \A state \in TaskTypes, since \in 0 .. now :
       Summary(log, state, since) = Cardinality(Listed(log, state, since))

\* Whether a worker is offline is decided in five places: the worker view, the
\* orphan list, get_task and retry_task, and the metrics gauge agree unless
\* two events carry the same timestamp, and the metrics also need the timeout
\* to be the one they assume.
WorkerViewsAgree ==
  \A w \in Workers :
    /\ OfflineMap(beats, now)[w] \in OfflineAnswers(beats, w, now)
    /\ WorkerStatus(beats, w, now) =
         IF BeatsOf(beats, w) = {} THEN {}
         ELSE {IF OfflineMap(beats, now)[w] THEN "offline" ELSE "online"}
    /\ Cardinality(OfflineAnswers(beats, w, now)) > 1 =>
         Cardinality(Last(BeatsOf(beats, w))) > 1
    /\ OfflineTimeout = MetricsTimeout =>
         MetricsGauge(beats, w, now) =
           IF BeatsOf(beats, w) = {} THEN {}
           ELSE {~a : a \in OfflineAnswers(beats, w, now)}

\* A task whose end was stored before the request was made is not reported as
\* orphaned, nor retried as such, although its worker is looked up later and
\* events are stored in any order; only retention, which may delete the end
\* of a task before its start, and equal timestamps make it look unfinished.
NoFinishedOrphans ==
  \A r \in Readers : reader[r].query \in {"orphans", "retry"} =>
    \A q \in reader[r].answer : q.task \notin reader[r].finished

\* Retries of retries stay in one family: the root of a retry is an original
\* task and that of its parent, whichever events of the parent are missing
\* when it is retried (actions.py takes name and root from the same event).
RootsAreOriginal ==
  \A t \in DOMAIN link :
    /\ link[t].root \in Originals
    /\ link[t].parent # Nobody => link[link[t].parent].root = link[t].root

\* A chain misses nobody: each member of the family whose received event was
\* stored when the chain was asked for, and is still there, is in it, once,
\* though root, members and order are read one after the other.
ChainComplete ==
  \A r \in Readers : reader[r].query = "chain" /\ reader[r].pc = "answer" =>
    /\ \A p, q \in reader[r].answer : p.task = q.task => p = q
    /\ reader[r].task \in reader[r].known =>
         \A t \in reader[r].known :
           link[t].root = link[reader[r].task].root /\ Named(log, t) =>
             t \in {q.task : q \in reader[r].answer}
=============================================================================
