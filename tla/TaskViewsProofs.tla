--------------------------- MODULE TaskViewsProofs ---------------------------
(***************************************************************************)
(* TaskViews for every set of tasks, workers, readers and timeouts: types, *)
(* the views that compute the state of a task, of a worker and of an       *)
(* orphan agree, requests of several statements answer correctly, and      *)
(* retries stay in the family of the task they retry.                      *)
(***************************************************************************)
EXTENDS TaskViews, FiniteSetTheorems, WellFoundedInduction, TLAPS

\* Events, stored or on the way, are of sent tasks and not of the future, and
\* a worker has received sent tasks only.
EventsOK ==
  /\ now \in Nat
  /\ \A e \in log \cup wire : e.task \in DOMAIN link /\ e.ts \in 0 .. now
  /\ DOMAIN phase = Tasks
  /\ \A t \in Tasks : phase[t] # "unsent" => t \in DOMAIN link

LinksOK ==
  /\ DOMAIN link \subseteq Tasks
  /\ \A t \in DOMAIN link :
       /\ link[t].root \in Originals
       /\ link[t].parent # Nobody =>
            link[t].parent \in DOMAIN link /\ link[link[t].parent].root = link[t].root

RequestFields ==
  {"pc", "query", "task", "at", "seen", "named", "root", "finished", "known", "answer"}

\* A retry on its way to the broker knows the root, if it has read the name.
RetryOK(k) ==
  /\ DOMAIN k = RequestFields
  /\ k.query = "retry" =>
       k.task \in DOMAIN link /\ (k.named => k.root = link[k.task].root)
  /\ k.pc = "send" => k.query = "retry" /\ k.named

IInv ==
  /\ EventsOK /\ LinksOK
  /\ DOMAIN reader = Readers /\ \A r \in Readers : RetryOK(reader[r])

-----------------------------------------------------------------------------
(* The invariant.  Tasks that have been sent stay as they are.              *)

LinkGrows ==
  DOMAIN link \subseteq DOMAIN link' /\ \A t \in DOMAIN link : link'[t] = link[t]

LEMMA RetryKept ==
  ASSUME NEW k, RetryOK(k), LinkGrows
  PROVE  /\ k.query = "retry" =>
              k.task \in DOMAIN link' /\ (k.named => k.root = link'[k.task].root)
         /\ k.pc = "send" => k.query = "retry" /\ k.named
BY DEF RetryOK, LinkGrows

LEMMA ReadersKept ==
  ASSUME IInv, LinkGrows, UNCHANGED reader
  PROVE  (\A r \in Readers : RetryOK(reader[r]))'
<1>1. ASSUME NEW r \in Readers PROVE RetryOK(reader[r])'
  <2>1. RetryOK(reader[r]) /\ reader'[r] = reader[r]
    BY DEF IInv
  <2> QED BY <2>1, RetryKept DEF RetryOK
<1> QED BY <1>1

\* A step of one request that leaves the tables and the cluster alone.
LEMMA ReaderMoves ==
  ASSUME IInv, NEW r \in Readers, NEW k, RetryOK(k),
         reader' = [reader EXCEPT ![r] = k], UNCHANGED <<tables, cluster, now>>
  PROVE  IInv'
<1> USE DEF tables, cluster
<1>1. EventsOK' /\ LinksOK'
  BY DEF IInv, EventsOK, LinksOK
<1>2. ASSUME NEW q \in Readers PROVE RetryOK(reader[q])'
  <2>1. reader'[q] = k \/ reader'[q] = reader[q]
    BY DEF IInv
  <2>2. RetryOK(reader'[q])
    BY <2>1 DEF IInv
  <2> QED BY <2>2 DEF RetryOK
<1>3. DOMAIN reader' = Readers
  BY DEF IInv
<1> QED BY <1>1, <1>2, <1>3 DEF IInv

LEMMA NoRequestOK == RetryOK(NoRequest)
BY DEF NoRequest, RetryOK, RequestFields

LEMMA InitIInv == Init => IInv
<1> SUFFICES ASSUME Init PROVE IInv
  OBVIOUS
<1>1. EventsOK /\ LinksOK
  BY DEF Init, EventsOK, LinksOK
<1>2. DOMAIN reader = Readers /\ \A r \in Readers : RetryOK(reader[r])
  BY NoRequestOK DEF Init
<1> QED BY <1>1, <1>2 DEF IInv

\* A task that is sent, as its own root or into the family of its parent.
LEMMA LinkedOK ==
  ASSUME IInv, NEW t \in Tasks \ DOMAIN link, NEW root \in Originals, NEW parent,
         parent # Nobody => parent \in DOMAIN link /\ link[parent].root = root,
         Linked(t, root, parent), phase' = [phase EXCEPT ![t] = "sent"],
         UNCHANGED <<tables, wire, now>>
  PROVE  LinkGrows /\ EventsOK' /\ LinksOK'
<1> USE DEF tables
<1>1. /\ DOMAIN link' = DOMAIN link \cup {t}
      /\ link'[t].root = root /\ link'[t].parent = parent
      /\ \A x \in DOMAIN link : link'[x] = link[x]
  BY DEF Linked
<1>2. LinkGrows
  BY <1>1 DEF LinkGrows
<1>3. EventsOK'
  BY <1>1 DEF IInv, EventsOK
<1>4. LinksOK'
  <2>1. ASSUME NEW x \in DOMAIN link
        PROVE  /\ link'[x].root \in Originals
               /\ link'[x].parent # Nobody =>
                    /\ link'[x].parent \in DOMAIN link'
                    /\ link'[link'[x].parent].root = link'[x].root
    BY <1>1 DEF IInv, LinksOK
  <2>2. /\ link'[t].root \in Originals
        /\ link'[t].parent # Nobody =>
             /\ link'[t].parent \in DOMAIN link'
             /\ link'[link'[t].parent].root = link'[t].root
    BY <1>1
  <2> QED BY <1>1, <2>1, <2>2 DEF IInv, LinksOK
<1> QED BY <1>2, <1>3, <1>4

LEMMA ExecuteStep ==
  ASSUME IInv, NEW t \in Tasks, Execute(t)
  PROVE  IInv'
<1>1. LinkGrows /\ EventsOK' /\ LinksOK'
  BY LinkedOK DEF Execute
<1> QED BY <1>1, ReadersKept DEF Execute, IInv

LEMMA EventStep ==
  ASSUME IInv,
         \/ \E t \in Tasks, type \in TaskTypes : Work(t, type)
         \/ \E e \in wire : Store(e)
         \/ \E w \in Workers, type \in WorkerTypes, ts \in 0 .. now : StoreBeat(w, type, ts)
         \/ \E r \in log : PruneTask(r)
         \/ \E r \in beats : PruneWorker(r)
         \/ Tick
  PROVE  IInv'
<1> USE DEF tables, cluster
<1>1. UNCHANGED <<link, reader>>
  BY DEF Work, Store, StoreBeat, PruneTask, PruneWorker, Tick
<1>2. EventsOK'
  <2>1. ASSUME NEW t \in Tasks, NEW type \in TaskTypes, Work(t, type) PROVE EventsOK'
    <3> DEFINE e == [task |-> t, type |-> type, ts |-> now]
    <3>1. /\ log' = log /\ wire' = wire \cup {e} /\ now' = now /\ link' = link
          /\ phase' = [phase EXCEPT ![t] = type] /\ type \in After(phase[t])
      BY <2>1 DEF Work
    <3>2. phase[t] # "unsent"
      BY <3>1 DEF After
    <3>3. t \in DOMAIN link /\ now \in Nat
      BY <3>2 DEF IInv, EventsOK
    <3>4. e.task \in DOMAIN link' /\ e.ts \in 0 .. now'
      BY <3>1, <3>3
    <3> HIDE DEF e
    <3>5. \A q \in log' \cup wire' : q.task \in DOMAIN link' /\ q.ts \in 0 .. now'
      BY <3>1, <3>4 DEF IInv, EventsOK
    <3> QED BY <3>1, <3>3, <3>5 DEF IInv, EventsOK
  <2>2. ASSUME NEW e \in wire, Store(e) PROVE EventsOK'
    <3>1. PICK q : /\ q.task = e.task /\ q.ts = e.ts /\ log' = log \cup {q}
                   /\ wire' = wire \ {e} /\ UNCHANGED <<now, link, phase>>
      BY <2>2 DEF Store
    <3> QED BY <3>1 DEF IInv, EventsOK
  <2>3. ASSUME NEW r \in log, PruneTask(r) PROVE EventsOK'
    BY <2>3 DEF PruneTask, IInv, EventsOK
  <2>4. CASE Tick
    <3>1. UNCHANGED <<log, wire, phase, link>> /\ now' = now + 1
      BY <2>4 DEF Tick
    <3>2. now \in Nat /\ \A n \in 0 .. now : n \in 0 .. now'
      BY <3>1 DEF IInv, EventsOK
    <3> QED BY <3>1, <3>2 DEF IInv, EventsOK
  <2>5. CASE \/ \E w \in Workers, type \in WorkerTypes, ts \in 0 .. now : StoreBeat(w, type, ts)
             \/ \E r \in beats : PruneWorker(r)
    BY <2>5 DEF StoreBeat, PruneWorker, IInv, EventsOK
  <2> QED BY <2>1, <2>2, <2>3, <2>4, <2>5
<1>3. LinksOK'
  BY <1>1 DEF IInv, LinksOK
<1>4. LinkGrows
  BY <1>1 DEF LinkGrows
<1> QED BY <1>1, <1>2, <1>3, <1>4, ReadersKept DEF IInv

\* A request is made: only retries must agree with the links.
LEMMA AskStep ==
  ASSUME IInv, NEW r \in Readers,
         AskOrphans(r) \/ \E t \in DOMAIN link : AskRetry(r, t) \/ AskChain(r, t)
  PROVE  IInv'
<1>1. ASSUME NEW k, RetryOK(k), Ask(r, k) PROVE IInv'
  BY <1>1, ReaderMoves DEF Ask
<1>0. ASSUME NEW query, NEW t, NEW pc
      PROVE  LET k == Request(query, t, pc) IN
             DOMAIN k = RequestFields /\ k.query = query /\ k.task = t /\ k.pc = pc
  BY DEF Request, NoRequest, RequestFields
<1>2. ASSUME AskOrphans(r) PROVE IInv'
  <2>1. PICK seen : Ask(r, [Request("orphans", Nobody, "workers") EXCEPT !.seen = seen])
    BY <1>2 DEF AskOrphans
  <2> DEFINE k == [Request("orphans", Nobody, "workers") EXCEPT !.seen = seen]
  <2>2. DOMAIN k = RequestFields /\ k.query = "orphans" /\ k.pc = "workers"
    BY <1>0 DEF RequestFields
  <2>3. Ask(r, k)
    BY <2>1
  <2> HIDE DEF k
  <2>4. RetryOK(k)
    BY <2>2 DEF RetryOK
  <2> QED BY <1>1, <2>3, <2>4
<1>3. ASSUME NEW t \in DOMAIN link, AskChain(r, t) PROVE IInv'
  <2>1. PICK root : Ask(r, [Request("chain", t, "family") EXCEPT !.root = root])
    BY <1>3 DEF AskChain
  <2> DEFINE k == [Request("chain", t, "family") EXCEPT !.root = root]
  <2>2. DOMAIN k = RequestFields /\ k.query = "chain" /\ k.pc = "family"
    BY <1>0 DEF RequestFields
  <2>3. Ask(r, k)
    BY <2>1
  <2> HIDE DEF k
  <2>4. RetryOK(k)
    BY <2>2 DEF RetryOK
  <2> QED BY <1>1, <2>3, <2>4
<1>4. ASSUME NEW t \in DOMAIN link, AskRetry(r, t) PROVE IInv'
  <2> DEFINE request(last, pc) ==
               [Request("retry", t, pc) EXCEPT
                  !.seen = {last}, !.named = Named(log, t), !.root = RootRead(log, t)]
  <2>1. PICK last : \/ Ask(r, request(last, "workers"))
                    \/ Named(log, t) /\ Ask(r, request(last, "send"))
    BY <1>4, Zenon DEF AskRetry
  <2>2. \A pc : LET k == request(last, pc) IN
          /\ DOMAIN k = RequestFields /\ k.query = "retry" /\ k.task = t /\ k.pc = pc
          /\ k.named = Named(log, t) /\ k.root = RootRead(log, t)
    BY <1>0 DEF RequestFields
  <2> HIDE DEF request
  <2>3. Named(log, t) => RootRead(log, t) = link[t].root
    BY DEF RootRead
  <2>4. RetryOK(request(last, "workers"))
    BY <2>2, <2>3 DEF RetryOK
  <2>5. Named(log, t) => RetryOK(request(last, "send"))
    BY <2>2, <2>3 DEF RetryOK
  <2> QED BY <1>1, <2>1, <2>4, <2>5
<1> QED BY <1>2, <1>3, <1>4

\* The later statements of a request.
LEMMA ReadStep ==
  ASSUME IInv, NEW r \in Readers,
         ListOrphans(r) \/ ReadWorker(r) \/ ReadFamily(r) \/ ReadOrder(r) \/ Answered(r)
  PROVE  IInv'
<1> DEFINE o == reader[r]
<1>1. RetryOK(o)
  BY DEF IInv
<1>2. UNCHANGED <<tables, cluster, now>>
  BY DEF ListOrphans, ReadWorker, ReadFamily, ReadOrder, Answered
<1>3. CASE reader' = [reader EXCEPT ![r] = NoRequest]
  BY <1>2, <1>3, NoRequestOK, ReaderMoves
<1>4. ASSUME NEW k, DOMAIN k = RequestFields, k.query = o.query, k.task = o.task,
             k.named = o.named, k.root = o.root, k.pc # "send",
             reader' = [reader EXCEPT ![r] = k]
      PROVE  IInv'
  <2>1. RetryOK(k)
    BY <1>1, <1>4 DEF RetryOK
  <2> QED BY <1>2, <1>4, <2>1, ReaderMoves
<1>5. CASE ListOrphans(r) \/ ReadOrder(r)
  <2>1. PICK answer : reader' = [reader EXCEPT ![r].pc = "answer", ![r].answer = answer]
    BY <1>5 DEF ListOrphans, ReadOrder
  <2> DEFINE k == [o EXCEPT !.pc = "answer", !.answer = answer]
  <2>2. /\ DOMAIN k = RequestFields /\ k.query = o.query /\ k.task = o.task
        /\ k.named = o.named /\ k.root = o.root /\ k.pc # "send"
    BY <1>1 DEF RetryOK, RequestFields
  <2>3. reader' = [reader EXCEPT ![r] = k]
    BY <2>1
  <2> HIDE DEF k
  <2> QED BY <1>4, <2>2, <2>3
<1>6. CASE ReadFamily(r)
  <2>1. PICK seen : reader' = [reader EXCEPT ![r].pc = "order", ![r].seen = seen]
    BY <1>6 DEF ReadFamily
  <2> DEFINE k == [o EXCEPT !.pc = "order", !.seen = seen]
  <2>2. /\ DOMAIN k = RequestFields /\ k.query = o.query /\ k.task = o.task
        /\ k.named = o.named /\ k.root = o.root /\ k.pc # "send"
    BY <1>1 DEF RetryOK, RequestFields
  <2>3. reader' = [reader EXCEPT ![r] = k]
    BY <2>1
  <2> HIDE DEF k
  <2> QED BY <1>4, <2>2, <2>3
<1>7. CASE ReadWorker(r)
  <2> DEFINE k == [o EXCEPT !.pc = "send", !.answer = o.seen]
  <2>1. \/ reader' = [reader EXCEPT ![r] = NoRequest]
        \/ reader' = [reader EXCEPT ![r] = k] /\ o.named /\ o.query = "retry"
    BY <1>7 DEF ReadWorker
  <2>2. /\ DOMAIN k = RequestFields /\ k.query = o.query /\ k.task = o.task
        /\ k.named = o.named /\ k.root = o.root
    BY <1>1 DEF RetryOK, RequestFields
  <2> HIDE DEF k
  <2>3. o.named /\ o.query = "retry" => RetryOK(k)
    BY <1>1, <2>2 DEF RetryOK
  <2> QED BY <1>2, <1>3, <2>1, <2>3, ReaderMoves
<1> QED BY <1>3, <1>5, <1>6, <1>7 DEF Answered

LEMMA SendStep ==
  ASSUME IInv, NEW r \in Readers, Send(r)
  PROVE  IInv'
<1> USE DEF cluster
<1> DEFINE o == reader[r]
<1>1. /\ reader' = [reader EXCEPT ![r] = NoRequest] /\ UNCHANGED <<tables, now>>
      /\ o.pc = "send" /\ RetryOK(o) /\ LinksOK
  BY DEF Send, IInv
<1>2. o.task \in DOMAIN link /\ o.root = link[o.task].root /\ o.root \in Originals
  BY <1>1 DEF RetryOK, LinksOK
<1>3. o.root # Nobody
  BY <1>2, TasksAssumption
<1>4. CASE UNCHANGED cluster
  BY <1>1, <1>4, NoRequestOK, ReaderMoves
<1>5. ASSUME NEW x \in Tasks \ (Originals \cup DOMAIN link), Linked(x, o.root, o.task),
             phase' = [phase EXCEPT ![x] = "sent"], UNCHANGED wire
      PROVE  IInv'
  <2>1. LinkGrows /\ EventsOK' /\ LinksOK'
    BY <1>1, <1>2, <1>5, LinkedOK
  <2>2. ASSUME NEW q \in Readers PROVE RetryOK(reader[q])'
    <3>1. reader'[q] = NoRequest \/ reader'[q] = reader[q]
      BY <1>1 DEF IInv
    <3>2. RetryOK(NoRequest) /\ RetryOK(reader[q])
      BY NoRequestOK DEF IInv
    <3> QED BY <2>1, <3>1, <3>2, RetryKept DEF RetryOK
  <2>3. DOMAIN reader' = Readers
    BY <1>1 DEF IInv
  <2> QED BY <2>1, <2>2, <2>3 DEF IInv
<1> QED BY <1>3, <1>4, <1>5 DEF Send

LEMMA StutterStep ==
  ASSUME IInv, UNCHANGED vars
  PROVE  IInv'
BY ReadersKept DEF IInv, EventsOK, LinksOK, LinkGrows, vars, tables, cluster

LEMMA NextIInv == IInv /\ [Next]_vars => IInv'
BY ExecuteStep, EventStep, AskStep, ReadStep, SendStep, StutterStep DEF Next

LEMMA Invariance == Spec => []IInv
BY InitIInv, NextIInv, PTL DEF Spec

\* actions.py retry_task: retries of retries belong to the family of the
\* original task, whatever events are missing when they are sent.
THEOREM OneFamily == Spec => []RootsAreOriginal
<1>1. IInv => RootsAreOriginal
  BY DEF IInv, LinksOK, RootsAreOriginal
<1> QED BY <1>1, Invariance, PTL

-----------------------------------------------------------------------------
(* The state of a task, computed in three ways.                             *)

\* The newest row is a last one.
LEMMA NewestIsLast ==
  ASSUME NEW S, \A q \in S : q.ts \in Nat, NEW r \in Newest(S)
  PROVE  r \in Last(S)
<1>1. r \in S /\ \A q \in S : ~ (q.ts > r.ts)
  BY DEF Newest, Later
<1>2. \A q \in S : q.ts <= r.ts
  BY <1>1
<1> QED BY <1>1, <1>2 DEF Last

LEMMA LastTie ==
  ASSUME NEW S, \A q \in S : q.ts \in Nat, NEW p \in Last(S), NEW r \in Last(S)
  PROVE  p.ts = r.ts
BY DEF Last

\* queries.py: list_tasks and get_task disagree on a tie only, and the summary
\* of a window counts the tasks that list_tasks returns for it.
THEOREM StatesAgree == Spec => []TaskViewsAgree
<1>1. ASSUME IInv PROVE TaskViewsAgree
  <2>1. \A r \in log : r.task \in Tasks /\ r.ts \in Nat
    BY <1>1 DEF IInv, EventsOK, LinksOK
  <2>2. ASSUME NEW q \in ListTasks(log)
        PROVE  /\ q \in Newest(EventsOf(log, q.task)) /\ q \in log
               /\ \A r \in EventsOf(log, q.task) : r.ts <= q.ts
    <3>1. PICK t \in Tasks : q \in Newest(EventsOf(log, t))
      BY DEF ListTasks
    <3>2. q.task = t /\ q \in log
      BY <3>1 DEF Newest, EventsOf
    <3>3. q \in Last(EventsOf(log, t))
      BY <2>1, <3>1, NewestIsLast DEF EventsOf
    <3> QED BY <3>1, <3>2, <3>3 DEF Last
  <2>3. ASSUME NEW q \in ListTasks(log)
        PROVE  \/ GetTaskStates(log, q.task) = {q.type}
               \/ q.type \in GetTaskStates(log, q.task)
                  /\ \E p \in log : p # q /\ p.task = q.task /\ p.ts = q.ts
    <3> DEFINE S == EventsOf(log, q.task)
    <3>1. /\ q \in Newest(S) /\ \A r \in S : r.ts \in Nat /\ r \in log /\ r.task = q.task
      BY <2>1, <2>2 DEF EventsOf
    <3>2. GetTaskStates(log, q.task) = {r.type : r \in Last(S)}
      BY DEF GetTaskStates
    <3> HIDE DEF S
    <3>3. q \in Last(S)
      BY <3>1, NewestIsLast
    <3>4. CASE \A p \in Last(S) : p.type = q.type
      BY <3>2, <3>3, <3>4
    <3>5. ASSUME NEW p \in Last(S), p.type # q.type
          PROVE  \E x \in log : x # q /\ x.task = q.task /\ x.ts = q.ts
      <4>1. p \in S /\ p # q /\ p.ts = q.ts
        BY <3>1, <3>3, <3>5, LastTie DEF Last
      <4> QED BY <3>1, <4>1
    <3> QED BY <3>2, <3>3, <3>4, <3>5
  <2>4. ASSUME NEW state \in TaskTypes, NEW since \in 0 .. now
        PROVE  Summary(log, state, since) = Cardinality(Listed(log, state, since))
    <3> DEFINE counted == {r \in UNION {Newest(EventsOf(log, t)) : t \in ActiveTasks(log, since)} :
                             r.type = state}
    <3>1. ASSUME NEW r \in counted PROVE r \in Listed(log, state, since)
      <4>1. PICK t \in ActiveTasks(log, since) : r \in Newest(EventsOf(log, t))
        OBVIOUS
      <4>2. PICK e \in log : e.task = t /\ e.ts >= since
        BY <4>1 DEF ActiveTasks
      <4>3. t \in Tasks
        BY <2>1, <4>2
      <4>4. r \in ListTasks(log)
        BY <4>1, <4>3 DEF ListTasks
      <4>5. r.task = t /\ r \in log /\ e \in EventsOf(log, r.task)
        BY <4>1, <4>2 DEF Newest, EventsOf
      <4>6. e.ts <= r.ts /\ e.ts \in Nat /\ r.ts \in Nat /\ since \in Int
        BY <2>1, <2>2, <4>4, <4>5
      <4>7. r.ts >= since
        BY <4>2, <4>6
      <4> QED BY <4>4, <4>7 DEF Listed
    <3>2. ASSUME NEW r \in Listed(log, state, since) PROVE r \in counted
      <4>1. r \in ListTasks(log) /\ r.type = state /\ r.ts >= since
        BY DEF Listed
      <4>2. r \in log /\ r \in Newest(EventsOf(log, r.task))
        BY <2>2, <4>1
      <4>3. r.task \in ActiveTasks(log, since)
        BY <4>1, <4>2 DEF ActiveTasks
      <4> QED BY <4>1, <4>2, <4>3
    <3>3. counted = Listed(log, state, since)
      BY <3>1, <3>2
    <3> QED BY <3>3 DEF Summary
  <2> QED BY <2>3, <2>4 DEF TaskViewsAgree
<1> QED BY <1>1, Invariance, PTL

-----------------------------------------------------------------------------
(* The rows: what is stored of a task and of a worker, and in which order.  *)

LogRow == [id : Nat \ {0}, task : DOMAIN link, type : TaskTypes, ts : 0 .. now]
BeatRow == [id : Nat \ {0}, worker : Workers, type : WorkerTypes, ts : 0 .. now]
WireEvent == [task : DOMAIN link, type : TaskTypes, ts : 0 .. now]

RowsOK ==
  /\ IsFiniteSet(log) /\ log \subseteq LogRow
  /\ \A p, q \in log : p.task = q.task /\ p.id = q.id => p = q
  /\ IsFiniteSet(beats) /\ beats \subseteq BeatRow
  /\ \A p, q \in beats : p.worker = q.worker /\ p.id = q.id => p = q
  /\ wire \subseteq WireEvent

\* A worker receives a task once, and a final event is the last of its task.
WorkOK ==
  /\ \A e \in log \cup wire : e.type = "received" => phase[e.task] # "sent"
  /\ \A e \in wire, f \in log \cup wire :
       e.type = "received" /\ f.type = "received" /\ e.task = f.task => e = f /\ f \notin log
  /\ \A e \in log \cup wire : e.type \in Final =>
       /\ phase[e.task] \in Final
       /\ \A f \in log \cup wire : f.task = e.task => f.ts <= e.ts

\* The tasks of some rows.
TasksOf(rows) == {q.task : q \in rows}

\* A search for orphans drops what had ended before it saw anything.
OrphansOK(k) ==
  k.query \in {"orphans", "retry"} =>
    /\ k.pc \in {"workers", "send", "answer"}
    /\ k.pc = "workers" => \A q \in k.seen : q.task \notin k.finished
    /\ \A q \in k.answer : q.task \notin k.finished

\* The members of the family that were known when a chain was asked for, and
\* whose received event is still there.
StillKnown(k, rows, lk) ==
  {t \in k.known : k.task \in k.known /\ lk[t].root = lk[k.task].root /\ Named(rows, t)}

\* A chain has the known members, and one row of each.
ChainOK(k, rows, lk, ph, sent) ==
  k.query = "chain" =>
    /\ k.pc \in {"family", "order", "answer"} /\ k.task \in DOMAIN lk
    /\ k.task \in k.known => k.root = lk[k.task].root
    /\ \A t \in k.known :
         /\ t \in DOMAIN lk /\ ph[t] # "sent"
         /\ \A e \in sent : e.task = t => e.type # "received"
    /\ k.pc # "family" => \A p, q \in k.seen : p.task = q.task => p = q
    /\ k.pc = "order" => StillKnown(k, rows, lk) \subseteq TasksOf(k.seen)
    /\ k.pc = "answer" => StillKnown(k, rows, lk) \subseteq TasksOf(k.answer)

StepOK(k) ==
  /\ k.pc \in {"idle", "workers", "send", "family", "order", "answer"}
  /\ k.answer \subseteq k.seen
  /\ k.pc = "family" => k.answer = {}

ClusterOK ==
  /\ \A t \in DOMAIN link : link[t] \in [root : Tasks, parent : Tasks \cup {Nobody}]
  /\ phase \in [Tasks -> TaskTypes \cup {"unsent", "sent"}]

BoundsOK ==
  /\ now \in 0 .. MaxTime /\ worked \in 0 .. MaxEvents
  /\ heard \in 0 .. MaxBeats /\ asked \in 0 .. MaxAsks

ReaderOK(k, rows, lk, ph, sent) ==
  StepOK(k) /\ OrphansOK(k) /\ ChainOK(k, rows, lk, ph, sent)

VInv ==
  /\ IInv /\ RowsOK /\ WorkOK /\ ClusterOK /\ BoundsOK
  /\ \A r \in Readers : ReaderOK(reader[r], log, link, phase, wire)

-----------------------------------------------------------------------------
(* Finite sets of rows have a newest one.                                   *)

LEMMA SmallestNumber ==
  ASSUME NEW T \in SUBSET Nat, T # {}
  PROVE  \E n \in T : \A m \in T : ~ (m < n)
<1> DEFINE R == {pair \in Nat \X Nat : pair[1] < pair[2]}
<1>1. IsWellFoundedOn(R, Nat)
  BY NatLessThanWellFounded, Zenon DEF OpToRel
<1>2. \A m, n \in Nat : m < n => <<m, n>> \in R
  OBVIOUS
<1> HIDE DEF R
<1>3. \E n \in T : \A m \in T : ~ (<<m, n>> \in R)
  BY <1>1, WFMin
<1> QED BY <1>2, <1>3

\* Of the elements of a finite set, the one with fewest above it has none.
LEMMA FiniteHasTop ==
  ASSUME NEW S, IsFiniteSet(S), S # {}, NEW R,
         \A x \in S : <<x, x>> \notin R,
         \A x, y, z \in S : <<x, y>> \in R /\ <<y, z>> \in R => <<x, z>> \in R
  PROVE  \E x \in S : \A y \in S : <<y, x>> \notin R
<1> DEFINE Above(x) == {y \in S : <<y, x>> \in R}
           Counts == {Cardinality(Above(x)) : x \in S}
<1>1. \A x \in S : IsFiniteSet(Above(x)) /\ Cardinality(Above(x)) \in Nat
  BY FS_Subset, FS_CardinalityType
<1>2. Counts \in SUBSET Nat /\ Counts # {}
  <2> HIDE DEF Above
  <2> QED BY <1>1
<1>3. PICK n \in Counts : \A m \in Counts : ~ (m < n)
  <2> HIDE DEF Counts
  <2> QED BY <1>2, SmallestNumber
<1>4. PICK x \in S : n = Cardinality(Above(x))
  BY <1>3
<1>5. ASSUME NEW y \in S, <<y, x>> \in R PROVE FALSE
  <2>1. Above(y) \subseteq Above(x) /\ y \in Above(x) /\ y \notin Above(y)
    BY <1>5
  <2>2. IsFiniteSet(Above(x)) /\ Cardinality(Above(x)) \in Nat /\ Cardinality(Above(y)) \in Nat
    BY <1>1
  <2>3. Cardinality(Above(y)) \in Counts
    OBVIOUS
  <2>4. ~ (Cardinality(Above(y)) < Cardinality(Above(x)))
    BY <2>3, <1>3, <1>4
  <2> HIDE DEF Above
  <2>5. /\ Cardinality(Above(y)) <= Cardinality(Above(x))
        /\ Cardinality(Above(x)) = Cardinality(Above(y)) => Above(x) = Above(y)
    BY <2>1, <2>2, FS_Subset
  <2> QED BY <2>1, <2>2, <2>4, <2>5
<1> QED BY <1>5

LEMMA NewestExists ==
  ASSUME NEW S, IsFiniteSet(S), S # {}, \A r \in S : r.ts \in Nat /\ r.id \in Nat
  PROVE  Newest(S) # {}
<1> DEFINE R == {pair \in S \X S : Later(pair[1], pair[2])}
<1>1. \A x, y \in S : <<x, y>> \in R <=> Later(x, y)
  OBVIOUS
<1>2. \A x \in S : ~ Later(x, x)
  BY DEF Later
<1>3. \A x, y, z \in S : Later(x, y) /\ Later(y, z) => Later(x, z)
  BY DEF Later
<1> HIDE DEF R
<1>4. \E x \in S : \A y \in S : <<y, x>> \notin R
  BY <1>1, <1>2, <1>3, FiniteHasTop
<1> QED BY <1>1, <1>4 DEF Newest

LEMMA NewestUnique ==
  ASSUME NEW S, \A r \in S : r.ts \in Nat /\ r.id \in Nat,
         \A p, q \in S : p.id = q.id => p = q,
         NEW p \in Newest(S), NEW q \in Newest(S)
  PROVE  p = q
<1>1. p \in S /\ q \in S /\ ~ Later(p, q) /\ ~ Later(q, p)
  BY DEF Newest
<1>2. p.id = q.id
  BY <1>1 DEF Later
<1> QED BY <1>1, <1>2

LEMMA NextIdIsNew ==
  ASSUME NEW S, IsFiniteSet(S), \A r \in S : r.id \in Nat \ {0}
  PROVE  NextId(S) \in Nat \ {0} /\ \A r \in S : r.id # NextId(S)
<1>1. CASE S = {}
  BY <1>1 DEF NextId
<1>2. CASE S # {}
  <2> DEFINE R == {pair \in S \X S : pair[1].id > pair[2].id}
             Ids == {r.id : r \in S}
  <2>1. \A x, y \in S : <<x, y>> \in R <=> x.id > y.id
    OBVIOUS
  <2> HIDE DEF R
  <2>7. /\ \A x \in S : <<x, x>> \notin R
        /\ \A x, y, z \in S : <<x, y>> \in R /\ <<y, z>> \in R => <<x, z>> \in R
    BY <2>1
  <2>2. PICK x \in S : \A y \in S : <<y, x>> \notin R
    BY <1>2, <2>7, FiniteHasTop
  <2>9. \A y \in S : ~ (y.id > x.id)
    BY <2>1, <2>2, Zenon
  <2>8. \A y \in S : y.id \in Nat /\ x.id >= y.id
    BY <2>9
  <2>3. x.id \in Ids /\ \A i \in Ids : i \in Nat /\ x.id >= i
    BY <2>8
  <2> HIDE DEF Ids
  <2>4. Max(Ids) \in Ids /\ \A i \in Ids : Max(Ids) >= i
    BY <2>3 DEF Max
  <2>5. NextId(S) = 1 + Max(Ids)
    BY <1>2 DEF NextId, Ids
  <2>6. NextId(S) \in Nat \ {0} /\ \A i \in Ids : i # NextId(S)
    BY <2>3, <2>4, <2>5
  <2> QED BY <2>6 DEF Ids
<1> QED BY <1>1, <1>2

-----------------------------------------------------------------------------
(* The second invariant.  First what a step does to the tables and tasks.   *)

LEMMA TypesFollow ==
  ASSUME VInv
  PROVE  TypeOK
<1>1. /\ log \subseteq LogRow /\ beats \subseteq BeatRow /\ wire \subseteq WireEvent
      /\ DOMAIN link \subseteq Tasks
  BY DEF VInv, RowsOK, IInv, LinksOK
<1>2. ASSUME NEW r \in Readers
      PROVE  /\ reader[r].pc \in {"idle", "workers", "send", "family", "order", "answer"}
             /\ reader[r].answer \subseteq reader[r].seen
             /\ reader[r].pc = "send" => reader[r].task \in DOMAIN link
  <2>1. StepOK(reader[r]) /\ RetryOK(reader[r])
    BY DEF VInv, ReaderOK, IInv
  <2> QED BY <2>1 DEF StepOK, RetryOK
<1> QED BY <1>1, <1>2 DEF TypeOK, LogRow, BeatRow, WireEvent, VInv, ClusterOK, BoundsOK

\* What a chain relies on: a known task is not received again.
LEMMA ChainKept ==
  ASSUME NEW k, ReaderOK(k, log, link, phase, wire), LinkGrows,
         \A t \in DOMAIN link : phase[t] # "sent" => phase'[t] # "sent",
         \A e \in wire' : e.type = "received" => e \in wire \/ phase[e.task] = "sent",
         \A t \in DOMAIN link : Named(log', t) =>
           Named(log, t) \/ \E e \in wire : e.task = t /\ e.type = "received"
  PROVE  ReaderOK(k, log', link', phase', wire')
<1>1. StepOK(k) /\ OrphansOK(k) /\ ChainOK(k, log, link, phase, wire)
  BY DEF ReaderOK
<1>2. ASSUME k.query = "chain" PROVE ChainOK(k, log', link', phase', wire')
  <2>1. /\ k.pc \in {"family", "order", "answer"} /\ k.task \in DOMAIN link
        /\ k.task \in k.known => k.root = link[k.task].root
        /\ \A t \in k.known :
             /\ t \in DOMAIN link /\ phase[t] # "sent"
             /\ \A e \in wire : e.task = t => e.type # "received"
        /\ k.pc # "family" => \A p, q \in k.seen : p.task = q.task => p = q
    BY <1>1, <1>2 DEF ChainOK
  <2>2. \A t \in k.known :
          /\ t \in DOMAIN link' /\ phase'[t] # "sent"
          /\ \A e \in wire' : e.task = t => e.type # "received"
    BY <2>1 DEF LinkGrows
  <2>3. \A t \in k.known : Named(log', t) => Named(log, t)
    BY <2>1
  <2>4. StillKnown(k, log', link') \subseteq StillKnown(k, log, link)
    BY <2>1, <2>3 DEF StillKnown, LinkGrows
  <2>5. /\ k.pc = "order" => StillKnown(k, log, link) \subseteq TasksOf(k.seen)
        /\ k.pc = "answer" => StillKnown(k, log, link) \subseteq TasksOf(k.answer)
    BY <1>1, <1>2 DEF ChainOK
  <2>6. k.task \in DOMAIN link' /\ (k.task \in k.known => k.root = link'[k.task].root)
    BY <2>1 DEF LinkGrows
  <2> QED BY <2>1, <2>2, <2>4, <2>5, <2>6 DEF ChainOK
<1> QED BY <1>1, <1>2 DEF ReaderOK, ChainOK

LEMMA NoRequestReads ==
  ASSUME NEW rows, NEW lk, NEW ph, NEW sent
  PROVE  ReaderOK(NoRequest, rows, lk, ph, sent)
BY DEF ReaderOK, StepOK, OrphansOK, ChainOK, NoRequest

LEMMA InitVInv == Init => VInv
<1> SUFFICES ASSUME Init PROVE VInv
  OBVIOUS
<1>1. IInv
  BY InitIInv
<1>2. RowsOK /\ WorkOK
  BY FS_EmptySet DEF Init, RowsOK, WorkOK
<1>3. ClusterOK /\ BoundsOK
  BY BoundsAssumption DEF Init, ClusterOK, BoundsOK
<1>4. \A r \in Readers : ReaderOK(reader[r], log, link, phase, wire)
  BY NoRequestReads DEF Init
<1> QED BY <1>1, <1>2, <1>3, <1>4 DEF VInv

\* A task is sent.
LEMMA SentKeeps ==
  ASSUME VInv, NEW t \in Tasks \ DOMAIN link, NEW root \in Originals,
         NEW parent \in DOMAIN link \cup {Nobody},
         Linked(t, root, parent), phase' = [phase EXCEPT ![t] = "sent"],
         UNCHANGED <<tables, wire, now>>
  PROVE  /\ LinkGrows /\ RowsOK' /\ WorkOK' /\ ClusterOK'
         /\ \A k : ReaderOK(k, log, link, phase, wire) =>
                     ReaderOK(k, log', link', phase', wire')
<1> USE DEF tables
<1>1. /\ DOMAIN link' = DOMAIN link \cup {t}
      /\ link'[t] = [root |-> root, parent |-> parent]
      /\ \A x \in DOMAIN link : link'[x] = link[x]
      /\ DOMAIN link \subseteq Tasks
  BY DEF Linked, VInv, IInv, LinksOK
<1>2. LinkGrows
  BY <1>1 DEF LinkGrows
<1>3. phase \in [Tasks -> TaskTypes \cup {"unsent", "sent"}]
  BY DEF VInv, ClusterOK
<1>4. \A x \in DOMAIN link : phase'[x] = phase[x]
  BY <1>1, <1>3
<1>5. RowsOK'
  BY <1>1 DEF VInv, RowsOK, LogRow, BeatRow, WireEvent
<1>6. WorkOK'
  <2>1. \A e \in log \cup wire : e.task \in DOMAIN link
    BY DEF VInv, IInv, EventsOK
  <2> QED BY <1>4, <2>1 DEF VInv, WorkOK
<1>7. ClusterOK'
  <2>1. link'[t] \in [root : Tasks, parent : Tasks \cup {Nobody}]
    BY <1>1, TasksAssumption
  <2>2. phase' \in [Tasks -> TaskTypes \cup {"unsent", "sent"}]
    BY <1>3
  <2> QED BY <1>1, <2>1, <2>2 DEF VInv, ClusterOK
<1>8. \A k : ReaderOK(k, log, link, phase, wire) => ReaderOK(k, log', link', phase', wire')
  BY <1>2, <1>4, ChainKept
<1> QED BY <1>2, <1>5, <1>6, <1>7, <1>8

LEMMA WorkKeeps ==
  ASSUME VInv, NEW t \in Tasks, NEW type \in TaskTypes, Work(t, type)
  PROVE  /\ RowsOK' /\ WorkOK' /\ ClusterOK'
         /\ \A k : ReaderOK(k, log, link, phase, wire) =>
                     ReaderOK(k, log', link', phase', wire')
<1> DEFINE e == [task |-> t, type |-> type, ts |-> now]
<1>1. /\ type \in After(phase[t]) /\ phase' = [phase EXCEPT ![t] = type]
      /\ wire' = wire \cup {e}
      /\ log' = log /\ beats' = beats /\ link' = link /\ now' = now
  BY DEF Work, tables
<1>2. /\ phase \in [Tasks -> TaskTypes \cup {"unsent", "sent"}]
      /\ phase[t] # "unsent" /\ phase[t] \notin Final /\ type # "sent"
      /\ type = "received" => phase[t] = "sent"
  <2>1. phase \in [Tasks -> TaskTypes \cup {"unsent", "sent"}]
    BY DEF VInv, ClusterOK
  <2> QED BY <1>1, <2>1 DEF After, Final, TaskTypes
<1>3. t \in DOMAIN link /\ now \in Nat /\ DOMAIN link \subseteq Tasks
  BY <1>2 DEF VInv, IInv, EventsOK, LinksOK
<1>4. \A f \in log \cup wire : f.task \in DOMAIN link /\ f.ts \in 0 .. now
  BY DEF VInv, IInv, EventsOK
<1>5. /\ \A x \in Tasks : phase'[x] = IF x = t THEN type ELSE phase[x]
      /\ e.task = t /\ e.type = type /\ e.ts = now
  BY <1>1, <1>2
<1>6. RowsOK'
  <2>1. e \in WireEvent
    BY <1>3 DEF WireEvent
  <2> HIDE DEF e
  <2> QED BY <1>1, <2>1 DEF VInv, RowsOK, LogRow, BeatRow, WireEvent
<1> HIDE DEF e
<1>7. WorkOK'
  <2>1. \A f \in log' \cup wire' : f.type = "received" => phase'[f.task] # "sent"
    BY <1>1, <1>2, <1>3, <1>4, <1>5 DEF VInv, WorkOK
  <2>2. type = "received" => \A f \in log \cup wire : f.task = t => f.type # "received"
    BY <1>2 DEF VInv, WorkOK
  <2>3. ASSUME NEW f \in wire', NEW g \in log' \cup wire',
               f.type = "received", g.type = "received", f.task = g.task
        PROVE  f = g /\ g \notin log'
    <3>1. CASE f \in wire /\ g \in log \cup wire
      BY <1>1, <2>3, <3>1 DEF VInv, WorkOK
    <3>2. CASE f = e /\ g \in log \cup wire
      BY <1>5, <2>2, <2>3, <3>2
    <3>3. CASE f \in wire /\ g = e
      BY <1>5, <2>2, <2>3, <3>3
    <3>4. CASE f = e /\ g = e
      <4>1. type = "received" => e \notin log
        BY <1>5, <2>2
      <4> QED BY <1>1, <1>5, <2>3, <3>4, <4>1
    <3> QED BY <1>1, <3>1, <3>2, <3>3, <3>4
  <2>4. \A f \in log \cup wire : f.type \in Final => f.task # t
    BY <1>2 DEF VInv, WorkOK
  <2>5. ASSUME NEW f \in log' \cup wire', f.type \in Final
        PROVE  /\ phase'[f.task] \in Final
               /\ \A g \in log' \cup wire' : g.task = f.task => g.ts <= f.ts
    <3>1. CASE f = e
      BY <1>1, <1>3, <1>4, <1>5, <2>5, <3>1
    <3>2. CASE f \in log \cup wire
      <4>1. /\ phase[f.task] \in Final /\ f.task # t /\ f.task \in Tasks
            /\ \A g \in log \cup wire : g.task = f.task => g.ts <= f.ts
        BY <1>3, <1>4, <2>4, <2>5, <3>2 DEF VInv, WorkOK
      <4> QED BY <1>1, <1>5, <4>1
    <3> QED BY <1>1, <3>1, <3>2
  <2> QED BY <2>1, <2>3, <2>5 DEF WorkOK
<1>8. ClusterOK'
  BY <1>1, <1>2 DEF VInv, ClusterOK
<1>9. \A k : ReaderOK(k, log, link, phase, wire) => ReaderOK(k, log', link', phase', wire')
  <2>1. LinkGrows
    BY <1>1 DEF LinkGrows
  <2>2. \A x \in DOMAIN link : phase[x] # "sent" => phase'[x] # "sent"
    BY <1>2, <1>3, <1>5
  <2>3. \A f \in wire' : f.type = "received" => f \in wire \/ phase[f.task] = "sent"
    BY <1>1, <1>2, <1>5
  <2> QED BY <1>1, <2>1, <2>2, <2>3, ChainKept
<1> QED BY <1>6, <1>7, <1>8, <1>9

\* A handler commits: the event leaves the wire and gets the next id.
LEMMA StoreKeeps ==
  ASSUME VInv, NEW e \in wire, Store(e)
  PROVE  /\ RowsOK' /\ WorkOK' /\ ClusterOK'
         /\ \A k : ReaderOK(k, log, link, phase, wire) =>
                     ReaderOK(k, log', link', phase', wire')
<1> DEFINE S == EventsOf(log, e.task)
           q == [id |-> NextId(S), task |-> e.task, type |-> e.type, ts |-> e.ts]
<1>1. /\ wire' = wire \ {e} /\ log' = log \cup {q}
      /\ beats' = beats /\ link' = link /\ phase' = phase /\ now' = now
  BY DEF Store
<1>2. /\ IsFiniteSet(log) /\ log \subseteq LogRow /\ wire \subseteq WireEvent
      /\ \A x, y \in log : x.task = y.task /\ x.id = y.id => x = y
  BY DEF VInv, RowsOK
<1>3. IsFiniteSet(S) /\ \A r \in S : r.id \in Nat \ {0}
  <2>1. IsFiniteSet(S)
    BY <1>2, FS_Subset DEF EventsOf
  <2> QED BY <1>2, <2>1 DEF EventsOf, LogRow
<1>4. NextId(S) \in Nat \ {0} /\ \A r \in S : r.id # NextId(S)
  <2> HIDE DEF S
  <2> QED BY <1>3, NextIdIsNew
<1>5. \A r \in log : r.task = e.task => r \in S
  BY DEF EventsOf
<1> HIDE DEF S
<1>6. /\ q.task = e.task /\ q.type = e.type /\ q.ts = e.ts /\ q.id = NextId(S)
      /\ q \in LogRow
  BY <1>2, <1>4 DEF LogRow, WireEvent
<1> HIDE DEF q
<1>7. RowsOK'
  <2>1. IsFiniteSet(log')
    BY <1>1, <1>2, FS_AddElement
  <2>2. \A x, y \in log' : x.task = y.task /\ x.id = y.id => x = y
    BY <1>1, <1>2, <1>4, <1>5, <1>6
  <2>3. log' \subseteq LogRow' /\ wire' \subseteq WireEvent' /\ BeatRow' = BeatRow
    BY <1>1, <1>2, <1>6 DEF LogRow, WireEvent, BeatRow
  <2> QED BY <1>1, <2>1, <2>2, <2>3 DEF VInv, RowsOK
<1>8. WorkOK'
  <2>1. \A f \in log' \cup wire' :
          f.type = "received" => phase'[f.task] # "sent"
    BY <1>1, <1>6 DEF VInv, WorkOK
  <2>2. ASSUME NEW f \in wire', NEW g \in log' \cup wire',
               f.type = "received", g.type = "received", f.task = g.task
        PROVE  f = g /\ g \notin log'
    <3>1. f # e /\ f \in wire /\ f \notin log
      BY <1>1, <2>2 DEF VInv, WorkOK
    <3>2. ~ (e.type = "received" /\ e.task = f.task)
      BY <2>2, <3>1 DEF VInv, WorkOK
    <3>3. g # q /\ f # q
      BY <1>6, <2>2, <3>2
    <3>4. f = g /\ g \notin log
      BY <1>1, <2>2, <3>1, <3>3 DEF VInv, WorkOK
    <3> QED BY <1>1, <3>3, <3>4
  <2>3. ASSUME NEW f \in log' \cup wire', f.type \in Final
        PROVE  /\ phase'[f.task] \in Final
               /\ \A g \in log' \cup wire' : g.task = f.task => g.ts <= f.ts
    <3>1. PICK h \in log \cup wire : h.task = f.task /\ h.type = f.type /\ h.ts = f.ts
      BY <1>1, <1>6
    <3>2. ASSUME NEW g \in log' \cup wire', g.task = f.task PROVE g.ts <= f.ts
      <4>1. PICK i \in log \cup wire : i.task = g.task /\ i.ts = g.ts
        BY <1>1, <1>6
      <4> QED BY <2>3, <3>1, <3>2, <4>1 DEF VInv, WorkOK
    <3>3. phase'[f.task] \in Final
      BY <1>1, <2>3, <3>1 DEF VInv, WorkOK
    <3> QED BY <3>2, <3>3
  <2> QED BY <2>1, <2>2, <2>3 DEF WorkOK
<1>9. ClusterOK'
  BY <1>1 DEF VInv, ClusterOK
<1>10. \A k : ReaderOK(k, log, link, phase, wire) => ReaderOK(k, log', link', phase', wire')
  <2>1. LinkGrows
    BY <1>1 DEF LinkGrows
  <2>2. \A t \in DOMAIN link : Named(log', t) =>
          Named(log, t) \/ \E f \in wire : f.task = t /\ f.type = "received"
    BY <1>1, <1>6 DEF Named, EventsOf
  <2> QED BY <1>1, <2>1, <2>2, ChainKept
<1> QED BY <1>7, <1>8, <1>9, <1>10

LEMMA PruneKeeps ==
  ASSUME VInv, NEW r \in log, PruneTask(r)
  PROVE  /\ RowsOK' /\ WorkOK' /\ ClusterOK'
         /\ \A k : ReaderOK(k, log, link, phase, wire) =>
                     ReaderOK(k, log', link', phase', wire')
<1>1. /\ log' = log \ {r}
      /\ beats' = beats /\ link' = link /\ phase' = phase /\ wire' = wire /\ now' = now
  BY DEF PruneTask, cluster
<1>2. RowsOK'
  <2>1. IsFiniteSet(log')
    BY <1>1, FS_Subset DEF VInv, RowsOK
  <2> QED BY <1>1, <2>1 DEF VInv, RowsOK, LogRow, BeatRow, WireEvent
<1>3. WorkOK'
  BY <1>1 DEF VInv, WorkOK
<1>4. ClusterOK'
  BY <1>1 DEF VInv, ClusterOK
<1>5. \A k : ReaderOK(k, log, link, phase, wire) => ReaderOK(k, log', link', phase', wire')
  <2>1. LinkGrows
    BY <1>1 DEF LinkGrows
  <2>2. \A t \in DOMAIN link : Named(log', t) => Named(log, t)
    BY <1>1 DEF Named, EventsOf
  <2> QED BY <1>1, <2>1, <2>2, ChainKept
<1> QED BY <1>2, <1>3, <1>4, <1>5

\* Steps that touch neither tasks nor their events.
LEMMA OthersKeep ==
  ASSUME VInv, log' = log, link' = link, phase' = phase, wire' = wire, now' \in {now, now + 1},
         IsFiniteSet(beats'), beats' \subseteq BeatRow',
         \A p, q \in beats' : p.worker = q.worker /\ p.id = q.id => p = q
  PROVE  /\ RowsOK' /\ WorkOK' /\ ClusterOK'
         /\ \A k : ReaderOK(k, log, link, phase, wire) =>
                     ReaderOK(k, log', link', phase', wire')
<1>1. now \in Nat
  BY DEF VInv, IInv, EventsOK
<1>2. 0 .. now \subseteq 0 .. now'
  BY <1>1
<1>3. log' \subseteq LogRow' /\ wire' \subseteq WireEvent'
  <2>1. log \subseteq LogRow /\ wire \subseteq WireEvent
    BY DEF VInv, RowsOK
  <2> QED BY <1>2, <2>1 DEF LogRow, WireEvent
<1>4. RowsOK'
  BY <1>3 DEF VInv, RowsOK
<1>5. WorkOK' /\ ClusterOK'
  BY DEF VInv, WorkOK, ClusterOK
<1> QED BY <1>4, <1>5

LEMMA BeatKeeps ==
  ASSUME VInv, NEW w \in Workers, NEW type \in WorkerTypes, NEW ts \in 0 .. now,
         StoreBeat(w, type, ts)
  PROVE  /\ IsFiniteSet(beats') /\ beats' \subseteq BeatRow'
         /\ \A p, q \in beats' : p.worker = q.worker /\ p.id = q.id => p = q
<1> DEFINE S == BeatsOf(beats, w)
           b == [id |-> NextId(S), worker |-> w, type |-> type, ts |-> ts]
<1>1. beats' = beats \cup {b} /\ now' = now
  BY DEF StoreBeat
<1>2. /\ IsFiniteSet(beats) /\ beats \subseteq BeatRow
      /\ \A p, q \in beats : p.worker = q.worker /\ p.id = q.id => p = q
  BY DEF VInv, RowsOK
<1>3. IsFiniteSet(S) /\ \A r \in S : r.id \in Nat \ {0}
  <2>1. IsFiniteSet(S)
    BY <1>2, FS_Subset DEF BeatsOf
  <2> QED BY <1>2, <2>1 DEF BeatsOf, BeatRow
<1>4. NextId(S) \in Nat \ {0} /\ \A r \in S : r.id # NextId(S)
  <2> HIDE DEF S
  <2> QED BY <1>3, NextIdIsNew
<1>5. \A r \in beats : r.worker = w => r \in S
  BY DEF BeatsOf
<1> HIDE DEF S
<1>6. b.worker = w /\ b.id = NextId(S) /\ b \in BeatRow
  BY <1>4 DEF BeatRow
<1> HIDE DEF b
<1>7. IsFiniteSet(beats')
  BY <1>1, <1>2, FS_AddElement
<1>8. beats' \subseteq BeatRow'
  BY <1>1, <1>2, <1>6 DEF BeatRow
<1>9. \A p, q \in beats' : p.worker = q.worker /\ p.id = q.id => p = q
  BY <1>1, <1>2, <1>4, <1>5, <1>6
<1> QED BY <1>7, <1>8, <1>9

-----------------------------------------------------------------------------
(* Then what a request does: an answer only holds what its checks allow.    *)

\* A stuck row that is a last one of its task: the task has not ended, unless
\* its end has expired or shares its time.
LEMMA StuckNotFinished ==
  ASSUME VInv, NEW t, NEW q \in Last(EventsOf(log, t)), Stuck(q, now)
  PROVE  q.task \notin Finished(log)
<1> SUFFICES ASSUME q.task \in Finished(log) PROVE FALSE
  OBVIOUS
<1>1. q \in log /\ q.task = t /\ q.type = "started" /\ \A x \in EventsOf(log, t) : x.ts <= q.ts
  BY DEF Last, EventsOf, Stuck
<1>2. PICK e \in log : /\ e.task = t /\ e.type \in Final
                       /\ \A x \in EventsOf(log, t) \ {e} : x.ts # e.ts
  BY <1>1 DEF Finished
<1>3. q # e /\ q \in EventsOf(log, t) /\ e \in EventsOf(log, t)
  BY <1>1, <1>2 DEF Final, EventsOf
<1>4. e.ts <= q.ts /\ q.ts <= e.ts /\ q.ts # e.ts
  BY <1>1, <1>2, <1>3 DEF VInv, WorkOK
<1>5. e.ts \in Nat /\ q.ts \in Nat
  BY <1>1, <1>2 DEF VInv, RowsOK, LogRow
<1> QED BY <1>4, <1>5

\* A request is made.
LEMMA AskReads ==
  ASSUME VInv, NEW r \in Readers,
         AskOrphans(r) \/ \E t \in DOMAIN link : AskRetry(r, t) \/ AskChain(r, t)
  PROVE  \E k : Ask(r, k) /\ ReaderOK(k, log, link, phase, wire)
<1>0. ASSUME NEW query, NEW t, NEW pc
      PROVE  LET k == Request(query, t, pc) IN
             /\ DOMAIN k = RequestFields /\ k.query = query /\ k.task = t /\ k.pc = pc
             /\ k.answer = {} /\ k.seen = {}
             /\ k.finished = Finished(log) /\ k.known = Known(log)
  BY DEF Request, NoRequest, RequestFields
<1>1. CASE AskOrphans(r)
  <2> DEFINE stuck == {q \in ListTasks(log) : Stuck(q, now)}
             k == [Request("orphans", Nobody, "workers") EXCEPT !.seen = stuck]
  <2>1. Ask(r, k)
    BY <1>1 DEF AskOrphans
  <2>2. ASSUME NEW q \in stuck PROVE q.task \notin Finished(log)
    <3>1. PICK t \in Tasks : q \in Newest(EventsOf(log, t))
      BY DEF ListTasks
    <3>2. \A x \in EventsOf(log, t) : x.ts \in Nat
      BY DEF EventsOf, VInv, RowsOK, LogRow
    <3>3. q \in Last(EventsOf(log, t))
      BY <3>1, <3>2, NewestIsLast
    <3> QED BY <3>3, StuckNotFinished
  <2> HIDE DEF stuck
  <2>3. /\ k.query = "orphans" /\ k.pc = "workers" /\ k.seen = stuck
        /\ k.answer = {} /\ k.finished = Finished(log)
    BY <1>0 DEF RequestFields
  <2> HIDE DEF k
  <2>4. ReaderOK(k, log, link, phase, wire)
    BY <2>2, <2>3 DEF ReaderOK, StepOK, OrphansOK, ChainOK
  <2> QED BY <2>1, <2>4
<1>2. ASSUME NEW t \in DOMAIN link, AskRetry(r, t)
      PROVE  \E k : Ask(r, k) /\ ReaderOK(k, log, link, phase, wire)
  <2> DEFINE request(last, pc) ==
               [Request("retry", t, pc) EXCEPT
                  !.seen = {last}, !.named = Named(log, t), !.root = RootRead(log, t)]
  <2>1. PICK last \in Last(EventsOf(log, t)) :
          \/ Stuck(last, now) /\ Ask(r, request(last, "workers"))
          \/ Ask(r, request(last, "send"))
    BY <1>2, Zenon DEF AskRetry
  <2>2. \A pc : LET k == request(last, pc) IN
          /\ k.query = "retry" /\ k.pc = pc /\ k.seen = {last}
          /\ k.answer = {} /\ k.finished = Finished(log)
    BY <1>0 DEF RequestFields
  <2> HIDE DEF request
  <2>3. Stuck(last, now) => ReaderOK(request(last, "workers"), log, link, phase, wire)
    BY <2>2, StuckNotFinished DEF ReaderOK, StepOK, OrphansOK, ChainOK
  <2>4. ReaderOK(request(last, "send"), log, link, phase, wire)
    BY <2>2 DEF ReaderOK, StepOK, OrphansOK, ChainOK
  <2> QED BY <2>1, <2>3, <2>4
<1>3. ASSUME NEW t \in DOMAIN link, AskChain(r, t)
      PROVE  \E k : Ask(r, k) /\ ReaderOK(k, log, link, phase, wire)
  <2> DEFINE root == IF Named(log, t) THEN RootRead(log, t) ELSE t
             k == [Request("chain", t, "family") EXCEPT !.root = root]
  <2>1. Ask(r, k)
    BY <1>3 DEF AskChain
  <2>2. Named(log, t) => root = link[t].root
    BY DEF RootRead
  <2> HIDE DEF root
  <2>3. /\ k.query = "chain" /\ k.pc = "family" /\ k.task = t /\ k.root = root
        /\ k.seen = {} /\ k.answer = {} /\ k.known = Known(log)
    BY <1>0 DEF RequestFields
  <2> HIDE DEF k
  <2>4. ASSUME NEW x \in Known(log)
        PROVE  /\ Named(log, x) /\ x \in DOMAIN link /\ phase[x] # "sent"
               /\ \A e \in wire : e.task = x => e.type # "received"
    <3>1. PICK f \in log : f.task = x /\ f.type = "received"
      BY DEF Known
    <3>2. f.task \in DOMAIN link
      BY DEF VInv, IInv, EventsOK
    <3>3. phase[x] # "sent" /\ \A e \in wire : e.task = x => e.type # "received"
      BY <3>1 DEF VInv, WorkOK
    <3> QED BY <3>1, <3>2, <3>3 DEF Named, EventsOf
  <2>5. ChainOK(k, log, link, phase, wire)
    BY <2>2, <2>3, <2>4 DEF ChainOK
  <2> QED BY <2>1, <2>3, <2>5 DEF ReaderOK, StepOK, OrphansOK
<1> QED BY <1>1, <1>2, <1>3

\* The members of a chain: one newest row for each known task of the family.
LEMMA FamilyReads ==
  ASSUME VInv, NEW k, ReaderOK(k, log, link, phase, wire), k.pc = "family",
         NEW s, s.query = k.query, s.task = k.task, s.root = k.root, s.known = k.known,
         s.pc = "order", s.answer = k.answer,
         s.seen = ListTasks(Family(log, k.root, k.task))
  PROVE  ReaderOK(s, log, link, phase, wire)
<1> DEFINE F == Family(log, k.root, k.task)
<1>1. F \subseteq log /\ \A e \in F : e.task \in Tasks /\ e.ts \in Nat /\ e.id \in Nat
  BY DEF Family, VInv, RowsOK, LogRow, IInv, LinksOK
<1>2. StepOK(k) /\ OrphansOK(k) /\ ChainOK(k, log, link, phase, wire)
  BY DEF ReaderOK
<1>3. StepOK(s) /\ OrphansOK(s)
  BY <1>2 DEF StepOK, OrphansOK
<1>4. ASSUME k.query = "chain" PROVE ChainOK(s, log, link, phase, wire)
  <2>1. /\ k.task \in DOMAIN link
        /\ k.task \in k.known => k.root = link[k.task].root
        /\ \A t \in k.known :
             /\ t \in DOMAIN link /\ phase[t] # "sent"
             /\ \A e \in wire : e.task = t => e.type # "received"
    BY <1>2, <1>4 DEF ChainOK
  <2>2. ASSUME NEW p \in ListTasks(F), NEW q \in ListTasks(F), p.task = q.task
        PROVE  p = q
    <3>1. p \in Newest(EventsOf(F, p.task)) /\ q \in Newest(EventsOf(F, p.task))
      BY <2>2 DEF ListTasks, Newest, EventsOf
    <3>2. \A x, y \in EventsOf(F, p.task) : x.id = y.id => x = y
      BY <1>1 DEF EventsOf, VInv, RowsOK
    <3>3. \A x \in EventsOf(F, p.task) : x.ts \in Nat /\ x.id \in Nat
      BY <1>1 DEF EventsOf
    <3> QED BY <3>1, <3>2, <3>3, NewestUnique
  <2>3. ASSUME NEW t \in StillKnown(s, log, link) PROVE t \in TasksOf(ListTasks(F))
    <3>1. /\ t \in DOMAIN link /\ link[t].root = k.root /\ Named(log, t)
      BY <2>1 DEF StillKnown
    <3>2. PICK e \in log : e.task = t /\ e.type = "received"
      BY <3>1 DEF Named, EventsOf
    <3>3. e \in EventsOf(F, t) /\ t \in Tasks
      BY <1>1, <3>1, <3>2 DEF Family, EventsOf
    <3>4. IsFiniteSet(EventsOf(F, t)) /\ \A x \in EventsOf(F, t) : x.ts \in Nat /\ x.id \in Nat
      <4>1. EventsOf(F, t) \in SUBSET log
        BY <1>1 DEF EventsOf
      <4>2. IsFiniteSet(EventsOf(F, t))
        BY <4>1, FS_Subset DEF VInv, RowsOK
      <4> QED BY <1>1, <4>2 DEF EventsOf
    <3>5. PICK q : q \in Newest(EventsOf(F, t))
      BY <3>3, <3>4, NewestExists
    <3>6. q \in ListTasks(F) /\ q.task = t
      BY <3>3, <3>5 DEF ListTasks, Newest, EventsOf
    <3> QED BY <3>6 DEF TasksOf
  <2> HIDE DEF F
  <2>4. s.seen = ListTasks(F)
    BY DEF F
  <2> QED BY <2>1, <2>2, <2>3, <2>4 DEF ChainOK
<1>5. k.query # "chain" => ChainOK(s, log, link, phase, wire)
  BY DEF ChainOK
<1> QED BY <1>3, <1>4, <1>5 DEF ReaderOK

LEMMA OrderReads ==
  ASSUME VInv, NEW k, ReaderOK(k, log, link, phase, wire), k.pc = "order",
         NEW s, s.query = k.query, s.task = k.task, s.root = k.root, s.known = k.known,
         s.pc = "answer", s.seen = k.seen,
         s.answer = {q \in k.seen : \E f \in Family(log, k.root, k.task) : f.task = q.task}
  PROVE  ReaderOK(s, log, link, phase, wire)
<1>1. OrphansOK(k) /\ ChainOK(k, log, link, phase, wire)
  BY DEF ReaderOK
<1>2. StepOK(s) /\ OrphansOK(s)
  BY <1>1 DEF StepOK, OrphansOK
<1>3. ASSUME k.query = "chain" PROVE ChainOK(s, log, link, phase, wire)
  <2>1. /\ k.task \in DOMAIN link
        /\ k.task \in k.known => k.root = link[k.task].root
        /\ \A t \in k.known :
             /\ t \in DOMAIN link /\ phase[t] # "sent"
             /\ \A e \in wire : e.task = t => e.type # "received"
        /\ \A p, q \in k.seen : p.task = q.task => p = q
        /\ StillKnown(k, log, link) \subseteq TasksOf(k.seen)
    BY <1>1, <1>3 DEF ChainOK
  <2>2. ASSUME NEW t \in StillKnown(s, log, link) PROVE t \in TasksOf(s.answer)
    <3>1. /\ t \in StillKnown(k, log, link)
          /\ link[t].root = k.root /\ Named(log, t)
      BY <2>1 DEF StillKnown
    <3>2. PICK q \in k.seen : q.task = t
      BY <2>1, <3>1 DEF TasksOf
    <3>3. PICK e \in log : e.task = t /\ e.type = "received"
      BY <3>1 DEF Named, EventsOf
    <3>4. e \in Family(log, k.root, k.task)
      BY <3>1, <3>3 DEF Family
    <3>5. q \in s.answer
      BY <3>2, <3>3, <3>4
    <3> QED BY <3>2, <3>5 DEF TasksOf
  <2> QED BY <2>1, <2>2 DEF ChainOK
<1>4. k.query # "chain" => ChainOK(s, log, link, phase, wire)
  BY DEF ChainOK
<1> QED BY <1>2, <1>3, <1>4 DEF ReaderOK

\* The later statements of a request.
LEMMA ReadReads ==
  ASSUME VInv, NEW r \in Readers,
         ListOrphans(r) \/ ReadWorker(r) \/ ReadFamily(r) \/ ReadOrder(r) \/ Answered(r)
  PROVE  \E k : reader' = [reader EXCEPT ![r] = k] /\ ReaderOK(k, log, link, phase, wire)
<1> DEFINE o == reader[r]
<1>1. ReaderOK(o, log, link, phase, wire) /\ DOMAIN o = RequestFields /\ DOMAIN reader = Readers
  BY DEF VInv, IInv, RetryOK
<1>2. CASE reader' = [reader EXCEPT ![r] = NoRequest]
  BY <1>2, NoRequestReads
<1>3. CASE ListOrphans(r)
  <2>1. PICK answer : /\ answer \subseteq o.seen /\ o.pc = "workers" /\ o.query = "orphans"
                      /\ reader' = [reader EXCEPT ![r].pc = "answer", ![r].answer = answer]
    BY <1>3 DEF ListOrphans
  <2> DEFINE k == [o EXCEPT !.pc = "answer", !.answer = answer]
  <2>2. reader' = [reader EXCEPT ![r] = k]
    BY <2>1
  <2>3. /\ k.pc = "answer" /\ k.query = "orphans" /\ k.answer = answer
        /\ k.seen = o.seen /\ k.finished = o.finished
    BY <1>1, <2>1 DEF RequestFields
  <2> HIDE DEF k
  <2>4. ReaderOK(k, log, link, phase, wire)
    BY <1>1, <2>1, <2>3 DEF ReaderOK, StepOK, OrphansOK, ChainOK
  <2> QED BY <2>2, <2>4
<1>4. CASE ReadWorker(r)
  <2> DEFINE k == [o EXCEPT !.pc = "send", !.answer = o.seen]
  <2>1. /\ o.pc = "workers" /\ o.query = "retry"
        /\ \/ reader' = [reader EXCEPT ![r] = NoRequest]
           \/ reader' = [reader EXCEPT ![r] = k]
    BY <1>4 DEF ReadWorker
  <2>2. /\ k.pc = "send" /\ k.query = "retry" /\ k.answer = o.seen
        /\ k.seen = o.seen /\ k.finished = o.finished
    BY <1>1, <2>1 DEF RequestFields
  <2> HIDE DEF k
  <2>3. ReaderOK(k, log, link, phase, wire)
    BY <1>1, <2>1, <2>2 DEF ReaderOK, StepOK, OrphansOK, ChainOK
  <2> QED BY <1>2, <2>1, <2>3
<1>5. CASE ReadFamily(r)
  <2> DEFINE seen == ListTasks(Family(log, o.root, o.task))
             k == [o EXCEPT !.pc = "order", !.seen = seen]
  <2>1. o.pc = "family" /\ reader' = [reader EXCEPT ![r] = k]
    BY <1>5 DEF ReadFamily
  <2> HIDE DEF seen
  <2>2. /\ k.pc = "order" /\ k.query = o.query /\ k.answer = o.answer /\ k.seen = seen
        /\ k.task = o.task /\ k.root = o.root /\ k.known = o.known
    BY <1>1 DEF RequestFields
  <2> HIDE DEF k
  <2>3. ReaderOK(k, log, link, phase, wire)
    BY <1>1, <2>1, <2>2, FamilyReads DEF seen
  <2> QED BY <2>1, <2>3
<1>6. CASE ReadOrder(r)
  <2> DEFINE answer == {q \in o.seen : \E f \in Family(log, o.root, o.task) : f.task = q.task}
             k == [o EXCEPT !.pc = "answer", !.answer = answer]
  <2>1. o.pc = "order" /\ reader' = [reader EXCEPT ![r] = k]
    BY <1>6 DEF ReadOrder
  <2> HIDE DEF answer
  <2>2. /\ k.pc = "answer" /\ k.query = o.query /\ k.answer = answer /\ k.seen = o.seen
        /\ k.task = o.task /\ k.root = o.root /\ k.known = o.known
    BY <1>1 DEF RequestFields
  <2> HIDE DEF k
  <2>3. ReaderOK(k, log, link, phase, wire)
    BY <1>1, <2>1, <2>2, OrderReads DEF answer
  <2> QED BY <2>1, <2>3
<1> QED BY <1>2, <1>3, <1>4, <1>5, <1>6 DEF Answered

\* A step that keeps the requests' conditions, and replaces at most one request.
LEMMA RequestsKept ==
  ASSUME VInv, NEW r \in Readers, NEW k, ReaderOK(k, log', link', phase', wire'),
         reader' = [reader EXCEPT ![r] = k] \/ reader' = reader,
         \A o : ReaderOK(o, log, link, phase, wire) => ReaderOK(o, log', link', phase', wire')
  PROVE  (\A q \in Readers : ReaderOK(reader[q], log, link, phase, wire))'
<1> SUFFICES ASSUME NEW q \in Readers
             PROVE  ReaderOK(reader'[q], log', link', phase', wire')
  OBVIOUS
<1>1. DOMAIN reader = Readers /\ ReaderOK(reader[q], log, link, phase, wire)
  BY DEF VInv, IInv
<1>2. reader'[q] = k \/ reader'[q] = reader[q]
  BY <1>1
<1> QED BY <1>1, <1>2

LEMMA NextVInv == VInv /\ [Next]_vars => VInv'
<1> SUFFICES ASSUME VInv, [Next]_vars PROVE VInv'
  OBVIOUS
<1> DEFINE Rest == RowsOK' /\ WorkOK' /\ ClusterOK'
           Kept == \A k : ReaderOK(k, log, link, phase, wire) =>
                            ReaderOK(k, log', link', phase', wire')
<1>1. IInv'
  BY NextIInv DEF VInv
<1>2. /\ now \in 0 .. MaxTime /\ worked \in 0 .. MaxEvents
      /\ heard \in 0 .. MaxBeats /\ asked \in 0 .. MaxAsks
      /\ MaxTime \in Nat /\ MaxEvents \in Nat /\ MaxBeats \in Nat /\ MaxAsks \in Nat
  BY BoundsAssumption DEF VInv, BoundsOK
<1>3. /\ IsFiniteSet(beats) /\ beats \subseteq BeatRow
      /\ \A p, q \in beats : p.worker = q.worker /\ p.id = q.id => p = q
  BY DEF VInv, RowsOK
<1>4. ASSUME Rest, Kept, BoundsOK', reader' = reader PROVE VInv'
  <2>1. ASSUME NEW r \in Readers PROVE ReaderOK(reader[r], log, link, phase, wire)'
    <3>1. ReaderOK(reader[r], log, link, phase, wire)
      BY DEF VInv
    <3> HIDE DEF Rest
    <3> QED BY <1>4, <3>1
  <2> QED BY <1>1, <1>4, <2>1 DEF VInv
<1>5. ASSUME Rest, Kept, BoundsOK', NEW r \in Readers, NEW k,
             reader' = [reader EXCEPT ![r] = k],
             ReaderOK(k, log', link', phase', wire')
      PROVE  VInv'
  <2>1. (\A q \in Readers : ReaderOK(reader[q], log, link, phase, wire))'
    BY <1>5, RequestsKept
  <2> QED BY <1>1, <1>5, <2>1 DEF VInv
<1> HIDE DEF Rest, Kept
\* A step of a request that leaves tables and tasks alone.
<1>6. ASSUME NEW r \in Readers, NEW k, reader' = [reader EXCEPT ![r] = k],
             ReaderOK(k, log, link, phase, wire), BoundsOK',
             UNCHANGED <<tables, cluster, now>>
      PROVE  VInv'
  <2>1. log' = log /\ beats' = beats /\ link' = link /\ phase' = phase /\ wire' = wire /\ now' = now
    BY <1>6 DEF tables, cluster
  <2>2. BeatRow' = BeatRow
    BY <2>1 DEF BeatRow
  <2>3. Rest /\ Kept
    BY <2>1, <2>2, <1>3, OthersKeep DEF Rest, Kept
  <2> QED BY <1>5, <1>6, <2>1, <2>3
<1>7. ASSUME NEW t \in Tasks, Execute(t) PROVE VInv'
  <2>1. /\ t \in Originals /\ t \notin DOMAIN link /\ Linked(t, t, Nobody)
        /\ phase' = [phase EXCEPT ![t] = "sent"]
        /\ UNCHANGED <<tables, wire, now>> /\ UNCHANGED <<reader, bounds>>
    BY <1>7 DEF Execute
  <2>2. Rest /\ Kept
    BY <2>1, SentKeeps DEF Rest, Kept
  <2>3. BoundsOK'
    BY <2>1 DEF VInv, BoundsOK, bounds
  <2> QED BY <1>4, <2>1, <2>2, <2>3
<1>8. ASSUME NEW t \in Tasks, NEW type \in TaskTypes, Work(t, type) PROVE VInv'
  <2>1. Rest /\ Kept
    BY <1>8, WorkKeeps DEF Rest, Kept
  <2>2. BoundsOK' /\ reader' = reader
    BY <1>2, <1>8 DEF Work, BoundsOK
  <2> QED BY <1>4, <2>1, <2>2
<1>9. ASSUME NEW e \in wire, Store(e) PROVE VInv'
  <2>1. Rest /\ Kept
    BY <1>9, StoreKeeps DEF Rest, Kept
  <2>2. BoundsOK' /\ reader' = reader
    BY <1>2, <1>9 DEF Store, BoundsOK, bounds
  <2> QED BY <1>4, <2>1, <2>2
<1>10. ASSUME NEW w \in Workers, NEW type \in WorkerTypes, NEW ts \in 0 .. now,
              StoreBeat(w, type, ts)
       PROVE  VInv'
  <2>1. /\ log' = log /\ link' = link /\ phase' = phase /\ wire' = wire /\ now' = now
        /\ reader' = reader
    BY <1>10 DEF StoreBeat, cluster
  <2>2. Rest /\ Kept
    BY <1>10, <2>1, BeatKeeps, OthersKeep DEF Rest, Kept
  <2>3. BoundsOK'
    BY <1>2, <1>10 DEF StoreBeat, BoundsOK
  <2> QED BY <1>4, <2>1, <2>2, <2>3
<1>11. ASSUME NEW r \in log, PruneTask(r) PROVE VInv'
  <2>1. Rest /\ Kept
    BY <1>11, PruneKeeps DEF Rest, Kept
  <2>2. BoundsOK' /\ reader' = reader
    BY <1>2, <1>11 DEF PruneTask, BoundsOK, bounds
  <2> QED BY <1>4, <2>1, <2>2
<1>12. ASSUME NEW r \in beats, PruneWorker(r) PROVE VInv'
  <2>1. /\ log' = log /\ link' = link /\ phase' = phase /\ wire' = wire /\ now' = now
        /\ reader' = reader /\ beats' = beats \ {r}
    BY <1>12 DEF PruneWorker, cluster
  <2>2. IsFiniteSet(beats') /\ BeatRow' = BeatRow
    BY <1>3, <2>1, FS_Subset DEF BeatRow
  <2>3. Rest /\ Kept
    BY <1>3, <2>1, <2>2, OthersKeep DEF Rest, Kept
  <2>4. BoundsOK'
    BY <1>2, <1>12 DEF PruneWorker, BoundsOK, bounds
  <2> QED BY <1>4, <2>1, <2>3, <2>4
<1>13. CASE Tick
  <2>1. /\ log' = log /\ link' = link /\ phase' = phase /\ wire' = wire /\ now' = now + 1
        /\ reader' = reader /\ beats' = beats
    BY <1>13 DEF Tick, tables, cluster
  <2>2. BeatRow \subseteq BeatRow'
    BY <1>2, <2>1 DEF BeatRow
  <2>3. Rest /\ Kept
    BY <1>3, <2>1, <2>2, OthersKeep DEF Rest, Kept
  <2>4. BoundsOK'
    BY <1>2, <1>13 DEF Tick, BoundsOK, bounds
  <2> QED BY <1>4, <2>1, <2>3, <2>4
<1>14. ASSUME NEW r \in Readers,
              AskOrphans(r) \/ \E t \in DOMAIN link : AskRetry(r, t) \/ AskChain(r, t)
       PROVE  VInv'
  <2>1. PICK k : Ask(r, k) /\ ReaderOK(k, log, link, phase, wire)
    BY <1>14, AskReads
  <2>2. BoundsOK'
    BY <1>2, <2>1 DEF Ask, BoundsOK
  <2> QED BY <1>6, <2>1, <2>2 DEF Ask
<1>15. ASSUME NEW r \in Readers,
              ListOrphans(r) \/ ReadWorker(r) \/ ReadFamily(r) \/ ReadOrder(r) \/ Answered(r)
       PROVE  VInv'
  <2>1. PICK k : reader' = [reader EXCEPT ![r] = k] /\ ReaderOK(k, log, link, phase, wire)
    BY <1>15, ReadReads
  <2>2. UNCHANGED <<tables, cluster, now>> /\ UNCHANGED bounds
    BY <1>15 DEF ListOrphans, ReadWorker, ReadFamily, ReadOrder, Answered
  <2>3. BoundsOK'
    BY <2>2 DEF VInv, BoundsOK, bounds
  <2> QED BY <1>6, <2>1, <2>2, <2>3
<1>16. ASSUME NEW r \in Readers, Send(r) PROVE VInv'
  <2> DEFINE o == reader[r]
  <2>1. /\ reader' = [reader EXCEPT ![r] = NoRequest]
        /\ UNCHANGED tables /\ UNCHANGED now /\ UNCHANGED bounds
        /\ o.pc = "send" /\ RetryOK(o) /\ LinksOK
    BY <1>16 DEF Send, VInv, IInv
  <2>2. BoundsOK'
    BY <2>1 DEF VInv, BoundsOK, bounds
  <2>3. CASE UNCHANGED cluster
    BY <1>6, <2>1, <2>2, <2>3, NoRequestReads
  <2>4. o.task \in DOMAIN link /\ o.root = link[o.task].root /\ o.root \in Originals
    BY <2>1 DEF RetryOK, LinksOK
  <2>5. o.root # Nobody
    BY <2>4, TasksAssumption
  <2>6. ASSUME NEW x \in Tasks \ (Originals \cup DOMAIN link), Linked(x, o.root, o.task),
               phase' = [phase EXCEPT ![x] = "sent"], UNCHANGED wire
        PROVE  VInv'
    <3>1. Rest /\ Kept
      BY <2>1, <2>4, <2>6, SentKeeps DEF Rest, Kept
    <3> QED BY <1>5, <2>1, <2>2, <3>1, NoRequestReads
  <2> QED BY <1>16, <2>3, <2>5, <2>6 DEF Send
<1>17. CASE UNCHANGED vars
  <2>1. /\ log' = log /\ beats' = beats /\ link' = link /\ phase' = phase /\ wire' = wire
        /\ now' = now /\ reader' = reader /\ UNCHANGED bounds
    BY <1>17 DEF vars, tables, cluster
  <2>2. BeatRow' = BeatRow
    BY <2>1 DEF BeatRow
  <2>3. Rest /\ Kept
    BY <1>3, <2>1, <2>2, OthersKeep DEF Rest, Kept
  <2>4. BoundsOK'
    BY <2>1 DEF VInv, BoundsOK, bounds
  <2> QED BY <1>4, <2>1, <2>3, <2>4
<1> QED
  BY <1>7, <1>8, <1>9, <1>10, <1>11, <1>12, <1>13, <1>14, <1>15, <1>16, <1>17 DEF Next

LEMMA ViewsInvariance == Spec => []VInv
BY InitVInv, NextVInv, PTL DEF Spec

-----------------------------------------------------------------------------
(* What follows from it.                                                    *)

\* The tables, messages and requests keep their types, for any tasks, workers
\* and bounds (models.py, queries.py, actions.py).
THEOREM TypeCorrect == Spec => []TypeOK
BY ViewsInvariance, TypesFollow, PTL

\* queries.py list_orphaned_tasks, actions.py retry_task: a task that ended
\* before the request is never taken for an orphan, although its worker is
\* looked up by a later statement.
THEOREM OrphansUnfinished == Spec => []NoFinishedOrphans
<1>1. VInv => NoFinishedOrphans
  BY DEF VInv, ReaderOK, OrphansOK, NoFinishedOrphans
<1> QED BY <1>1, ViewsInvariance, PTL

\* queries.py get_task_chain: three statements with a snapshot each give every
\* known member of the family, once.
THEOREM ChainsComplete == Spec => []ChainComplete
<1>1. ASSUME VInv PROVE ChainComplete
  <2> SUFFICES ASSUME NEW r \in Readers, reader[r].query = "chain", reader[r].pc = "answer"
               PROVE  /\ \A p, q \in reader[r].answer : p.task = q.task => p = q
                      /\ reader[r].task \in reader[r].known =>
                           \A t \in reader[r].known :
                             link[t].root = link[reader[r].task].root /\ Named(log, t) =>
                               t \in {q.task : q \in reader[r].answer}
    BY DEF ChainComplete
  <2>1. StepOK(reader[r]) /\ ChainOK(reader[r], log, link, phase, wire)
    BY <1>1 DEF VInv, ReaderOK
  <2>2. /\ \A p, q \in reader[r].seen : p.task = q.task => p = q
        /\ reader[r].answer \subseteq reader[r].seen
        /\ StillKnown(reader[r], log, link) \subseteq TasksOf(reader[r].answer)
    BY <2>1 DEF ChainOK, StepOK
  <2> QED BY <2>2 DEF StillKnown, TasksOf
<1> QED BY <1>1, ViewsInvariance, PTL

-----------------------------------------------------------------------------
(* Whether a worker is offline, decided in five places.                     *)

\* One row says that its worker is offline.
SaysOffline(b) == b.type = "offline" \/ now - b.ts > OfflineTimeout

\* A worker with rows: one newest row, which is a last one, decides the worker
\* view and the map; the others read all last rows.
LEMMA WorkerWithRows ==
  ASSUME VInv, NEW w \in Workers, BeatsOf(beats, w) # {}
  PROVE  \E b \in Last(BeatsOf(beats, w)) :
           /\ OfflineMap(beats, now)[w] = SaysOffline(b)
           /\ WorkerStatus(beats, w, now) = {IF SaysOffline(b) THEN "offline" ELSE "online"}
<1> DEFINE S == BeatsOf(beats, w)
<1>1. /\ IsFiniteSet(S)
      /\ \A b \in S : b.ts \in Nat /\ b.id \in Nat
      /\ \A p, q \in S : p.id = q.id => p = q
  <2>1. S \in SUBSET beats /\ IsFiniteSet(beats) /\ beats \subseteq BeatRow
    BY DEF BeatsOf, VInv, RowsOK
  <2>2. IsFiniteSet(S)
    BY <2>1, FS_Subset
  <2>3. \A b \in S : b.ts \in Nat /\ b.id \in Nat
    BY <2>1 DEF BeatRow
  <2>4. \A p, q \in S : p.id = q.id => p = q
    BY DEF BeatsOf, VInv, RowsOK
  <2> QED BY <2>2, <2>3, <2>4
<1>2. OfflineMap(beats, now)[w] = \A b \in Newest(S) : SaysOffline(b)
  BY DEF OfflineMap, SaysOffline
<1>3. WorkerStatus(beats, w, now) =
        {IF SaysOffline(b) THEN "offline" ELSE "online" : b \in Newest(S)}
  BY DEF WorkerStatus, SaysOffline
<1> HIDE DEF S
<1>4. PICK b : b \in Newest(S)
  BY <1>1, NewestExists DEF S
<1>5. Newest(S) = {b}
  BY <1>1, <1>4, NewestUnique
<1>6. b \in Last(S)
  BY <1>1, <1>4, NewestIsLast
<1>7. SaysOffline(b) \in BOOLEAN
  BY DEF SaysOffline
<1> HIDE DEF SaysOffline
<1>8. OfflineMap(beats, now)[w] = SaysOffline(b)
  BY <1>2, <1>5, <1>7
<1>9. WorkerStatus(beats, w, now) = {IF SaysOffline(b) THEN "offline" ELSE "online"}
  BY <1>3, <1>5
<1> QED BY <1>6, <1>8, <1>9 DEF S

\* queries.py, actions.py, metrics.py: worker view, orphan list, get_task,
\* retry_task and the metrics agree on who is offline, except on a tie of
\* timestamps, and for the metrics also with a timeout other than theirs.
THEOREM WorkersAgree == Spec => []WorkerViewsAgree
<1>1. ASSUME VInv, NEW w \in Workers
      PROVE  /\ OfflineMap(beats, now)[w] \in OfflineAnswers(beats, w, now)
             /\ WorkerStatus(beats, w, now) =
                  IF BeatsOf(beats, w) = {} THEN {}
                  ELSE {IF OfflineMap(beats, now)[w] THEN "offline" ELSE "online"}
             /\ Cardinality(OfflineAnswers(beats, w, now)) > 1 =>
                  Cardinality(Last(BeatsOf(beats, w))) > 1
             /\ OfflineTimeout = MetricsTimeout =>
                  MetricsGauge(beats, w, now) =
                    IF BeatsOf(beats, w) = {} THEN {}
                    ELSE {~a : a \in OfflineAnswers(beats, w, now)}
  <2>1. CASE BeatsOf(beats, w) = {}
    <3>1. OfflineAnswers(beats, w, now) = {TRUE} /\ Newest(BeatsOf(beats, w)) = {}
          /\ Last(BeatsOf(beats, w)) = {}
      BY <2>1 DEF OfflineAnswers, Newest, Last
    <3>2. OfflineMap(beats, now)[w] = TRUE /\ WorkerStatus(beats, w, now) = {}
          /\ MetricsGauge(beats, w, now) = {}
      BY <3>1 DEF OfflineMap, WorkerStatus, MetricsGauge
    <3>3. Cardinality({TRUE}) = 1
      BY FS_Singleton
    <3>4. OfflineMap(beats, now)[w] \in OfflineAnswers(beats, w, now)
      BY <3>1, <3>2
    <3>5. Cardinality(OfflineAnswers(beats, w, now)) = 1
      BY <3>1, <3>3
    <3> QED BY <2>1, <3>2, <3>4, <3>5
  <2>2. CASE BeatsOf(beats, w) # {}
    <3> DEFINE L == Last(BeatsOf(beats, w))
               A == {SaysOffline(b) : b \in L}
    <3>1. OfflineAnswers(beats, w, now) = A
      BY <2>2 DEF OfflineAnswers, SaysOffline
    <3>2. PICK b \in L : /\ OfflineMap(beats, now)[w] = SaysOffline(b)
                         /\ WorkerStatus(beats, w, now) =
                              {IF SaysOffline(b) THEN "offline" ELSE "online"}
      BY <1>1, <2>2, WorkerWithRows
    <3>3. IsFiniteSet(L)
      <4>1. L \in SUBSET beats /\ IsFiniteSet(beats)
        BY <1>1 DEF Last, BeatsOf, VInv, RowsOK
      <4> QED BY <4>1, FS_Subset
    <3>4. Cardinality(A) > 1 => Cardinality(L) > 1
      <4> SUFFICES ASSUME ~ (Cardinality(L) > 1) PROVE ~ (Cardinality(A) > 1)
        OBVIOUS
      <4> HIDE DEF L
      <4>1. Cardinality(L) \in Nat
        BY <3>3, FS_CardinalityType
      <4>2. Cardinality({b}) = 1
        BY FS_Singleton
      <4>3. /\ Cardinality({b}) <= Cardinality(L)
            /\ Cardinality(L) = Cardinality({b}) => L = {b}
        BY <3>3, FS_Subset
      <4>4. L = {b}
        BY <4>1, <4>2, <4>3
      <4>5. A = {SaysOffline(b)}
        BY <4>4
      <4>6. Cardinality({SaysOffline(b)}) = 1
        BY FS_Singleton
      <4> QED BY <4>5, <4>6
    <3>5. ASSUME OfflineTimeout = MetricsTimeout
          PROVE  MetricsGauge(beats, w, now) = {~a : a \in A}
      <4>1. ASSUME NEW c \in L
            PROVE  (c.type # "offline" /\ now - c.ts <= MetricsTimeout) = ~ SaysOffline(c)
        <5>1. c.ts \in Nat /\ now \in Nat /\ OfflineTimeout \in Nat
          BY <1>1, TimesAssumption DEF Last, BeatsOf, VInv, RowsOK, BeatRow, IInv, EventsOK
        <5>2. now - c.ts <= MetricsTimeout <=> ~ (now - c.ts > OfflineTimeout)
          BY <3>5, <5>1
        <5> QED BY <5>2 DEF SaysOffline
      <4>2. MetricsGauge(beats, w, now) =
              {c.type # "offline" /\ now - c.ts <= MetricsTimeout : c \in L}
        BY DEF MetricsGauge
      <4> DEFINE Online == {~a : a \in A}
                 Gauge == {~ SaysOffline(c) : c \in L}
      <4>3. Online = Gauge
        <5>1. ASSUME NEW x \in Online PROVE x \in Gauge
          <6>1. PICK a \in A : x = ~a
            BY Zenon
          <6>2. PICK c \in L : a = SaysOffline(c)
            BY Zenon
          <6> QED BY <6>1, <6>2, Zenon
        <5>2. ASSUME NEW x \in Gauge PROVE x \in Online
          <6>1. PICK c \in L : x = ~ SaysOffline(c)
            BY Zenon
          <6> DEFINE a == SaysOffline(c)
          <6>2. a \in A
            BY Zenon
          <6>3. x = ~a
            BY <6>1
          <6> HIDE DEF A, L, a
          <6> QED BY <6>2, <6>3
        <5> HIDE DEF Online, Gauge
        <5> QED BY <5>1, <5>2
      <4> HIDE DEF L, A
      <4> QED BY <4>1, <4>2, <4>3
    <3> HIDE DEF L
    <3> QED BY <2>2, <3>1, <3>2, <3>4, <3>5 DEF L
  <2> QED BY <2>1, <2>2
<1>2. VInv => WorkerViewsAgree
  BY <1>1 DEF WorkerViewsAgree
<1> QED BY <1>2, ViewsInvariance, PTL

-----------------------------------------------------------------------------
(* Whether a task is orphaned, decided by the list and by the retry.        *)

\* list_orphaned_tasks, all of it at one time.
OrphanListed(t) ==
  \E q \in Newest(EventsOf(log, t)) : Stuck(q, now) /\ OfflineMap(beats, now)[RunsOn[t]]

\* get_task and retry_task, whichever row comes last among equals.
MayBeOrphan(t) ==
  /\ \E q \in Last(EventsOf(log, t)) : Stuck(q, now)
  /\ TRUE \in OfflineAnswers(beats, RunsOn[t], now)
IsOrphan(t) ==
  /\ \A q \in Last(EventsOf(log, t)) : Stuck(q, now)
  /\ FALSE \notin OfflineAnswers(beats, RunsOn[t], now)

\* No two rows carry the same timestamp.
NoTie(rows) == \A p, q \in rows : p.ts = q.ts => p = q

OrphanViewsAgree ==
  \A t \in Tasks : EventsOf(log, t) # {} =>
    /\ IsOrphan(t) => OrphanListed(t)
    /\ OrphanListed(t) => MayBeOrphan(t)
    /\ NoTie(EventsOf(log, t)) /\ NoTie(BeatsOf(beats, RunsOn[t])) =>
         (MayBeOrphan(t) <=> IsOrphan(t))

LEMMA MapIsAnAnswer ==
  ASSUME VInv, NEW w \in Workers
  PROVE  IF OfflineMap(beats, now)[w]
           THEN TRUE \in OfflineAnswers(beats, w, now)
           ELSE FALSE \in OfflineAnswers(beats, w, now)
<1>1. CASE BeatsOf(beats, w) = {}
  <2>1. OfflineAnswers(beats, w, now) = {TRUE} /\ Newest(BeatsOf(beats, w)) = {}
    BY <1>1 DEF OfflineAnswers, Newest
  <2>2. OfflineMap(beats, now)[w]
    BY <2>1 DEF OfflineMap
  <2> QED BY <2>1, <2>2
<1>2. CASE BeatsOf(beats, w) # {}
  <2>1. OfflineAnswers(beats, w, now) = {SaysOffline(b) : b \in Last(BeatsOf(beats, w))}
    BY <1>2 DEF OfflineAnswers, SaysOffline
  <2>2. PICK b \in Last(BeatsOf(beats, w)) : OfflineMap(beats, now)[w] = SaysOffline(b)
    BY <1>2, WorkerWithRows
  <2>3. SaysOffline(b) \in BOOLEAN
    BY Zenon DEF SaysOffline
  <2> HIDE DEF SaysOffline
  <2> QED BY <2>1, <2>2, <2>3
<1> QED BY <1>1, <1>2

\* Of rows without a tie one is the last.
LEMMA OneLast ==
  ASSUME NEW S, \A r \in S : r.ts \in Nat, NoTie(S), NEW p \in Last(S), NEW q \in Last(S)
  PROVE  p = q
<1>1. p \in S /\ q \in S
  BY DEF Last
<1> QED BY <1>1, LastTie DEF NoTie

\* And then there is one answer.
LEMMA OneAnswer ==
  ASSUME VInv, NEW w \in Workers, NoTie(BeatsOf(beats, w)),
         TRUE \in OfflineAnswers(beats, w, now)
  PROVE  FALSE \notin OfflineAnswers(beats, w, now)
<1>1. CASE BeatsOf(beats, w) = {}
  BY <1>1 DEF OfflineAnswers
<1>2. CASE BeatsOf(beats, w) # {}
  <2>1. OfflineAnswers(beats, w, now) = {SaysOffline(b) : b \in Last(BeatsOf(beats, w))}
    BY <1>2 DEF OfflineAnswers, SaysOffline
  <2>2. \A b \in BeatsOf(beats, w) : b.ts \in Nat
    BY DEF BeatsOf, VInv, RowsOK, BeatRow
  <2>3. \A b, c \in Last(BeatsOf(beats, w)) : b = c
    BY <2>2, OneLast
  <2> HIDE DEF SaysOffline
  <2> QED BY <2>1, <2>3
<1> QED BY <1>1, <1>2

\* queries.py list_orphaned_tasks, get_task, actions.py retry_task: a task is
\* listed as orphaned when the others take it for one, and the other way round
\* but for a tie of timestamps.
THEOREM OrphansAgree == Spec => []OrphanViewsAgree
<1>1. VInv => OrphanViewsAgree
  <2> SUFFICES ASSUME VInv, NEW t \in Tasks, EventsOf(log, t) # {}
               PROVE  /\ IsOrphan(t) => OrphanListed(t)
                      /\ OrphanListed(t) => MayBeOrphan(t)
                      /\ NoTie(EventsOf(log, t)) /\ NoTie(BeatsOf(beats, RunsOn[t])) =>
                           (MayBeOrphan(t) <=> IsOrphan(t))
    BY DEF OrphanViewsAgree
  <2> DEFINE S == EventsOf(log, t)
             w == RunsOn[t]
  <2>1. w \in Workers
    BY TasksAssumption
  <2>2. IsFiniteSet(S) /\ \A r \in S : r.ts \in Nat /\ r.id \in Nat
    <3>1. S \in SUBSET log /\ IsFiniteSet(log) /\ log \subseteq LogRow
      BY DEF EventsOf, VInv, RowsOK
    <3>2. IsFiniteSet(S)
      BY <3>1, FS_Subset
    <3> QED BY <3>1, <3>2 DEF LogRow
  <2>3. PICK q : q \in Newest(S)
    BY <2>2, NewestExists
  <2>4. q \in Last(S)
    BY <2>2, <2>3, NewestIsLast
  <2>5. IsOrphan(t) => OrphanListed(t)
    <3> SUFFICES ASSUME IsOrphan(t) PROVE OrphanListed(t)
      OBVIOUS
    <3>1. Stuck(q, now) /\ FALSE \notin OfflineAnswers(beats, w, now)
      BY <2>4 DEF IsOrphan
    <3>2. OfflineMap(beats, now)[w]
      BY <2>1, <3>1, MapIsAnAnswer
    <3> QED BY <2>3, <3>1, <3>2 DEF OrphanListed
  <2>6. OrphanListed(t) => MayBeOrphan(t)
    <3> SUFFICES ASSUME OrphanListed(t) PROVE MayBeOrphan(t)
      OBVIOUS
    <3>1. PICK n \in Newest(S) : Stuck(n, now) /\ OfflineMap(beats, now)[w]
      BY DEF OrphanListed
    <3>2. n \in Last(S)
      BY <2>2, <3>1, NewestIsLast
    <3>3. TRUE \in OfflineAnswers(beats, w, now)
      BY <2>1, <3>1, MapIsAnAnswer
    <3> QED BY <3>1, <3>2, <3>3 DEF MayBeOrphan
  <2>7. ASSUME NoTie(S), NoTie(BeatsOf(beats, w)), MayBeOrphan(t)
        PROVE  IsOrphan(t)
    <3>1. PICK l \in Last(S) : Stuck(l, now)
      BY <2>7 DEF MayBeOrphan
    <3>2. \A r \in Last(S) : r = l
      BY <2>2, <2>7, <3>1, OneLast
    <3>3. FALSE \notin OfflineAnswers(beats, w, now)
      BY <2>1, <2>7, OneAnswer DEF MayBeOrphan
    <3> QED BY <3>1, <3>2, <3>3 DEF IsOrphan
  <2> QED BY <2>5, <2>6, <2>7
<1> QED BY <1>1, ViewsInvariance, PTL
=============================================================================
