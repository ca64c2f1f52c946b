------------------------- MODULE AutomationsProofs -------------------------
(***************************************************************************)
(* Automations for every table, every set of clients, consumers and         *)
(* request bodies and every choice of settings: type correctness,           *)
(* ValidUnlessRaced, SeedComplete, OnlyRequested, that the table implements *)
(* AutomationTable, and that seeding transactions never wait in a circle.   *)
(***************************************************************************)
EXTENDS Automations, SequenceTheorems, WellFoundedInduction, TLAPS

\* What a request carries on its way is fit to be written.
RequestOK(k) ==
  /\ k.pc \in {"check", "insert"} => IsRow(k.data) /\ Valid(k.data)
  /\ k.pc = "write" /\ k.op = "update" => Valid(Merge(k.seen, k.data))
  /\ k.pc = "write" /\ k.op = "toggle" => NonNull(k.data) \subseteq {"enabled"}

\* The flushed rows of a seeding transaction: their names are nobody else's.
FlushedOK(k) ==
  /\ k.pc \in {"down", "done"} => DOMAIN k.rows = {}
  /\ \A i, j \in DOMAIN k.rows : k.rows[i].name = k.rows[j].name => i = j
  /\ NamesOf(k.rows) \cap NamesOf(table) = {}
  /\ k.pc = "flush" => Builtins[k.next].name \notin NamesOf(k.rows)

Apart(k, l) ==
  /\ NamesOf(k.rows) \cap NamesOf(l.rows) = {}
  /\ DOMAIN k.rows \cap DOMAIN l.rows = {}

\* The built-in automations are all there, or operators are the reason.
Seeded == taken \/ BuiltinNames \subseteq NamesOf(table) \cup removed

\* A transaction has dealt with the built-ins before the one at hand, and a
\* name that appears between its select and its flush was brought by an
\* operator or by a transaction that seeded all of them.
ProgressOK(k) ==
  /\ \A b \in 1 .. k.next - 1 :
       k.pc \in {"check", "flush"} =>
         taken \/ Builtins[b].name \in NamesOf(table) \cup NamesOf(k.rows) \cup removed
  /\ k.pc = "flush" /\ Builtins[k.next].name \in NamesOf(table) => Seeded
  /\ k.pc = "done" => Seeded

SeedersOK ==
  /\ \A s \in Consumers : FlushedOK(seeder[s]) /\ ProgressOK(seeder[s])
  /\ \A s, t \in Consumers : s # t => Apart(seeder[s], seeder[t])

IInv ==
  /\ TypeOK
  /\ \A c \in Clients : RequestOK(client[c])
  /\ ValidUnlessRaced
  /\ Table!NamesDiffer
  /\ SeedersOK

-----------------------------------------------------------------------------
(* Definitions. *)

\* Only the checked columns decide whether a definition is valid.
LEMMA ValidByColumns ==
  ASSUME NEW d, NEW e, Valid(d), \A f \in Checked : d[f] = e[f]
  PROVE  Valid(e)
BY DEF Valid, Checked, Fields, Positive

\* A change of the enabled flag does not matter to what a row is worth.
LEMMA SoundByColumns ==
  ASSUME NEW d, NEW e, Sound(d), \A f \in Fields \ {"enabled"} : d[f] = e[f]
  PROVE  Sound(e)
<1>1. Checked \subseteq Fields \ {"enabled"}
  BY DEF Checked
<1>2. CASE Valid(d)
  BY <1>1, <1>2, ValidByColumns DEF Sound
<1>3. CASE \E u \in Unvalidated : \A f \in Fields \ {"enabled"} : d[f] = u[f]
  BY <1>3 DEF Sound
<1> QED BY <1>2, <1>3 DEF Sound

LEMMA UnvalidatedSound ==
  ASSUME NEW d \in Unvalidated
  PROVE  Sound(d)
BY DEF Sound

\* A create request that passes the validation is a row.
LEMMA BodyIsRow ==
  ASSUME NEW d, IsBody(d), d.name # None, d.enabled # None, Valid(d)
  PROVE  IsRow(d)
BY NoneAssumption DEF IsBody, IsRow, Valid, Positive, Triggers

LEMMA RowIsBody ==
  ASSUME NEW d, IsRow(d)
  PROVE  IsBody(d)
BY NoneAssumption DEF IsBody, IsRow, Triggers

LEMMA NoBodyType == IsBody(NoBody) /\ NonNull(NoBody) = {}
<1>1. DOMAIN NoBody = Fields /\ \A f \in Fields : NoBody[f] = None
  BY DEF NoBody
<1> HIDE DEF NoBody
<1>2. NonNull(NoBody) = {}
  BY <1>1 DEF NonNull
<1>3. IsBody(NoBody)
  BY <1>1 DEF IsBody, Fields
<1> QED BY <1>2, <1>3

\* What a validated request writes over a row is a row.
LEMMA AssignIsRow ==
  ASSUME NEW row, NEW seen, NEW data, NEW columns \in SUBSET NonNull(data),
         IsRow(row), IsBody(data), IsRow(seen), Valid(Merge(seen, data))
  PROVE  IsRow(Assign(row, data, columns))
<1> DEFINE new == Assign(row, data, columns)
           merged == Merge(seen, data)
<1>1. \A f \in columns : f \in Fields /\ data[f] # None /\ merged[f] = data[f]
  BY DEF NonNull, Merge
<1>2. \A f \in Fields : new[f] = IF f \in columns THEN data[f] ELSE row[f]
  BY DEF Assign
<1>3. DOMAIN new = Fields
  BY DEF Assign
<1>4. "trigger_type" \in columns => data.trigger_type \in Triggers
  BY <1>1 DEF Valid
<1>5. "cooldown_seconds" \in columns => data.cooldown_seconds \in Nat
  BY <1>1, NoneAssumption DEF Valid, IsBody
<1>6. "max_runs_per_window" \in columns => data.max_runs_per_window \in Nat \ {0}
  BY <1>1, NoneAssumption DEF Valid, IsBody, Positive
<1> HIDE DEF new, merged
<1>7. IsRow(new)
  BY <1>1, <1>2, <1>3, <1>4, <1>5, <1>6 DEF IsRow, IsBody, Fields
<1> QED BY <1>7 DEF new

\* An update writes its validated merge, as far as it is checked, if the row
\* has in its checked columns what the request has read.
LEMMA AssignMerges ==
  ASSUME NEW row, NEW seen, NEW data, \A f \in Checked : row[f] = seen[f],
         Valid(Merge(seen, data))
  PROVE  Valid(Assign(row, data, {f \in NonNull(data) : data[f] # seen[f]}))
<1> DEFINE new == Assign(row, data, {f \in NonNull(data) : data[f] # seen[f]})
<1>1. \A f \in Checked : Merge(seen, data)[f] = new[f]
  BY DEF Checked, Merge, Assign
<1> HIDE DEF new
<1>2. Valid(new)
  BY <1>1, ValidByColumns
<1> QED BY <1>2 DEF new

-----------------------------------------------------------------------------
(* The built-in automations. *)

Alerts ==
  {EventAlert("alert-task-failed", "task-failed"),
   EventAlert("alert-slow-task", "task-succeeded"),
   EventAlert("alert-worker-offline", "worker-offline"), Sweep}

LEMMA EventAlertValid ==
  ASSUME NEW name, name # None, NEW type \in EventTypes
  PROVE  IsRow(EventAlert(name, type)) /\ Valid(EventAlert(name, type))
<1> DEFINE d == EventAlert(name, type)
<1>1. DOMAIN d = Fields
  BY DEF EventAlert, Fields
<1>2. /\ d.name = name /\ d.enabled \in BOOLEAN /\ d.trigger_type = "event"
      /\ d.event_type = type /\ d.schedule_seconds = None /\ d.cooldown_seconds = None
      /\ d.max_runs_per_window = None /\ d.window_seconds = None
  BY DEF EventAlert
<1> HIDE DEF d
<1>4. IsRow(d)
  BY <1>1, <1>2 DEF IsRow, Triggers
<1>5. Valid(d)
  BY <1>2 DEF Valid, Triggers
<1> QED BY <1>4, <1>5 DEF d

LEMMA SweepSound ==
  ASSUME Sweep.name # None
  PROVE  IsRow(Sweep) /\ Sound(Sweep)
<1>1. DOMAIN Sweep = Fields
  BY DEF Sweep, EventAlert, Fields
<1>2. /\ Sweep.name = "alert-worker-offline-sweep" /\ Sweep.enabled \in BOOLEAN
      /\ Sweep.trigger_type = "periodic" /\ Sweep.event_type = None
      /\ Sweep.schedule_seconds = CheckSeconds /\ Sweep.cooldown_seconds = None
      /\ Sweep.max_runs_per_window = None /\ Sweep.window_seconds = None
  BY DEF Sweep, EventAlert
<1>3. IsRow(Sweep)
  BY <1>1, <1>2, SettingsAssumption DEF IsRow, Triggers
<1>4. Sound(Sweep)
  BY UnvalidatedSound DEF Unvalidated
<1> QED BY <1>3, <1>4

LEMMA BuiltinsType == Builtins \in Seq(Alerts) /\ Len(Builtins) \in Nat
<1> DEFINE t == EventAlert("alert-task-failed", "task-failed")
           o == EventAlert("alert-slow-task", "task-succeeded")
           w == EventAlert("alert-worker-offline", "worker-offline")
           p == Sweep
           first == IF OnTaskFailed THEN <<t>> ELSE <<>>
           second == IF OnSlowTask THEN <<o>> ELSE <<>>
           third == IF OnOffline THEN <<w, p>> ELSE <<>>
<1>1. t \in Alerts /\ o \in Alerts /\ w \in Alerts /\ p \in Alerts
  BY DEF Alerts
<1>2. Builtins = (first \o second) \o third
  BY DEF Builtins
<1> HIDE DEF t, o, w, p
<1>3. first \in Seq(Alerts) /\ second \in Seq(Alerts) /\ third \in Seq(Alerts)
  BY <1>1
<1> HIDE DEF first, second, third
<1> QED BY <1>2, <1>3, ConcatProperties, LenProperties

LEMMA BuiltinsSound ==
  ASSUME NEW b \in 1 .. Len(Builtins)
  PROVE  /\ IsRow(Builtins[b]) /\ Sound(Builtins[b])
         /\ Builtins[b].name \in BuiltinNames
<1>1. Builtins[b] \in Alerts
  BY BuiltinsType, ElementOfSeq
<1>2. Builtins[b].name \in BuiltinNames /\ Builtins[b].name # None
  BY NoneAssumption DEF BuiltinNames
<1>3. CASE Builtins[b] = Sweep
  BY <1>2, <1>3, SweepSound
<1>4. ASSUME NEW name, NEW type \in EventTypes, Builtins[b] = EventAlert(name, type)
      PROVE  IsRow(Builtins[b]) /\ Sound(Builtins[b])
  <2>1. name # None
    BY <1>2, <1>4 DEF EventAlert
  <2> QED BY <1>4, <2>1, EventAlertValid DEF Sound
<1> QED BY <1>1, <1>2, <1>3, <1>4 DEF Alerts, EventTypes

-----------------------------------------------------------------------------
(* Sets of rows and their names. *)

LEMMA JoinedDomain ==
  ASSUME NEW rows, NEW more
  PROVE  DOMAIN Joined(rows, more) = DOMAIN rows \cup DOMAIN more
BY DEF Joined

LEMMA JoinedOld ==
  ASSUME NEW rows, NEW more, NEW i \in DOMAIN rows
  PROVE  Joined(rows, more)[i] = rows[i]
BY DEF Joined

LEMMA JoinedNew ==
  ASSUME NEW rows, NEW more, DOMAIN rows \cap DOMAIN more = {}, NEW i \in DOMAIN more
  PROVE  Joined(rows, more)[i] = more[i]
BY DEF Joined

LEMMA JoinedNames ==
  ASSUME NEW rows, NEW more, DOMAIN rows \cap DOMAIN more = {}
  PROVE  NamesOf(Joined(rows, more)) = NamesOf(rows) \cup NamesOf(more)
<1>1. /\ DOMAIN Joined(rows, more) = DOMAIN rows \cup DOMAIN more
      /\ \A i \in DOMAIN rows : Joined(rows, more)[i] = rows[i]
      /\ \A i \in DOMAIN more : Joined(rows, more)[i] = more[i]
  BY DEF Joined
<1> QED BY <1>1 DEF NamesOf

LEMMA WithDomain ==
  ASSUME NEW rows, NEW n, NEW d
  PROVE  DOMAIN With(rows, n, d) = DOMAIN rows \cup {n}
BY DEF With, Joined

LEMMA WithOld ==
  ASSUME NEW rows, NEW n, NEW d, NEW i \in DOMAIN rows
  PROVE  With(rows, n, d)[i] = rows[i]
BY DEF With, Joined

LEMMA WithNew ==
  ASSUME NEW rows, NEW n, NEW d, n \notin DOMAIN rows
  PROVE  With(rows, n, d)[n] = d
BY DEF With, Joined

LEMMA WithNames ==
  ASSUME NEW rows, NEW n, NEW d, n \notin DOMAIN rows
  PROVE  NamesOf(With(rows, n, d)) = NamesOf(rows) \cup {d.name}
<1>1. /\ DOMAIN With(rows, n, d) = DOMAIN rows \cup {n}
      /\ \A i \in DOMAIN rows : With(rows, n, d)[i] = rows[i]
      /\ With(rows, n, d)[n] = d
  BY DEF With, Joined
<1> QED BY <1>1 DEF NamesOf

LEMMA NoRowsNames == DOMAIN NoRows = {} /\ NamesOf(NoRows) = {}
BY DEF NoRows, NamesOf

LEMMA BuiltinNamesWanted ==
  ASSUME NEW k, SeederOK(k), k.pc = "flush" \/ k.next <= Len(Builtins)
  PROVE  k.next \in 1 .. Len(Builtins) /\ Builtins[k.next].name \in BuiltinNames
<1>1. k.next \in 1 .. Len(Builtins)
  BY BuiltinsType DEF SeederOK
<1> QED BY <1>1, BuiltinsSound

-----------------------------------------------------------------------------
(* The invariant. *)

LEMMA InitIInv == Init => IInv
<1> SUFFICES ASSUME Init PROVE IInv
  OBVIOUS
<1>1. ClientOK(Waiting) /\ RequestOK(Waiting)
  BY NoBodyType DEF Waiting, ClientOK, RequestOK
<1>2. SeederOK(Down) /\ FlushedOK(Down) /\ ProgressOK(Down) /\ Apart(Down, Down)
  BY NoRowsNames, BuiltinsType DEF Down, SeederOK, FlushedOK, ProgressOK, Apart
<1>3. RowsOK
  BY ExistingAssumption DEF Init, RowsOK
<1>4. \A s \in Consumers : DOMAIN seeder[s].rows = {}
  BY NoRowsNames DEF Init, Down
<1>5. TypeOK
  <2>1. taken \in BOOLEAN
    BY Zenon DEF Init
  <2>2. /\ DOMAIN client = Clients /\ DOMAIN seeder = Consumers
        /\ \A c \in Clients : ClientOK(client[c])
        /\ \A s \in Consumers : SeederOK(seeder[s])
    BY <1>1, <1>2 DEF Init
  <2>3. raced = {} /\ removed = {} /\ requests \in 0 .. MaxRequests /\ starts \in 0 .. MaxStarts
    BY BoundAssumption DEF Init
  <2> QED BY <1>3, <1>4, <2>1, <2>2, <2>3 DEF TypeOK
<1>6. ValidUnlessRaced /\ Table!NamesDiffer
  BY ExistingAssumption, UnvalidatedSound
  DEF Init, Unvalidated, ValidUnlessRaced, Table!NamesDiffer
<1>7. SeedersOK
  BY <1>2 DEF Init, SeedersOK
<1> QED BY <1>1, <1>5, <1>6, <1>7 DEF Init, IInv

\* A step that changes one request only.
LEMMA ClientMoves ==
  ASSUME IInv, NEW c \in Clients, NEW k, ClientOK(k), RequestOK(k),
         client' = [client EXCEPT ![c] = k],
         UNCHANGED <<table, seeder, nextId, history, starts>>,
         requests' \in 0 .. MaxRequests
  PROVE  IInv'
<1> USE DEF IInv, history
<1>1. /\ DOMAIN client' = Clients
      /\ \A d \in Clients : ClientOK(client'[d]) /\ RequestOK(client'[d])
  BY DEF TypeOK
<1>2. RowsOK'
  BY DEF TypeOK, RowsOK
<1>3. TypeOK'
  BY <1>1, <1>2 DEF TypeOK
<1>4. (\A d \in Clients : RequestOK(client[d]))'
  BY <1>1
<1>5. ValidUnlessRaced' /\ Table!NamesDiffer'
  BY DEF ValidUnlessRaced, Table!NamesDiffer
<1>6. SeedersOK'
  BY DEF SeedersOK, FlushedOK, ProgressOK, Apart, Seeded
<1> QED BY <1>3, <1>4, <1>5, <1>6

LEMMA WaitingOK == ClientOK(Waiting) /\ RequestOK(Waiting)
BY NoBodyType DEF Waiting, ClientOK, RequestOK

LEMMA AskStep ==
  ASSUME IInv, NEW c \in Clients,
         \/ \E d \in Creates : AskCreate(c, d)
         \/ \E i \in ever \cup {nextId}, d \in Updates : AskUpdate(c, i, d)
         \/ \E i \in ever \cup {nextId} : AskToggle(c, i) \/ AskDelete(c, i)
  PROVE  IInv'
<1>1. PICK k : /\ client' = [client EXCEPT ![c] = k]
               /\ ClientOK(k) /\ RequestOK(k)
  <2>1. ASSUME NEW d \in Creates, AskCreate(c, d)
        PROVE  \E k : /\ client' = [client EXCEPT ![c] = k]
                      /\ ClientOK(k) /\ RequestOK(k)
    <3>1. IsBody(d) /\ IsRow(d) /\ Valid(d)
      BY <2>1, RequestAssumption, BodyIsRow DEF AskCreate
    <3> DEFINE k == [pc |-> "check", op |-> "create", id |-> 0, data |-> d, seen |-> NoBody]
    <3>2. ClientOK(k) /\ RequestOK(k)
      BY <3>1, NoBodyType DEF ClientOK, RequestOK
    <3>3. client' = [client EXCEPT ![c] = k]
      BY <2>1 DEF AskCreate, Ask
    <3> QED BY <3>2, <3>3
  <2>2. ASSUME NEW i \in ever \cup {nextId}, NEW op \in {"update", "toggle", "delete"},
               NEW d, IsBody(d), Ask(c, op, i, d, "read")
        PROVE  \E k : /\ client' = [client EXCEPT ![c] = k]
                      /\ ClientOK(k) /\ RequestOK(k)
    <3>1. i \in Nat
      BY DEF IInv, TypeOK, RowsOK
    <3> DEFINE k == [pc |-> "read", op |-> op, id |-> i, data |-> d, seen |-> NoBody]
    <3>2. ClientOK(k) /\ RequestOK(k)
      BY <2>2, <3>1, NoBodyType DEF ClientOK, RequestOK
    <3>3. client' = [client EXCEPT ![c] = k]
      BY <2>2 DEF Ask
    <3> QED BY <3>2, <3>3
  <2> QED BY <2>1, <2>2, RequestAssumption, NoBodyType
          DEF AskUpdate, AskToggle, AskDelete
<1>2. /\ UNCHANGED <<table, seeder, nextId, history, starts>>
      /\ requests' \in 0 .. MaxRequests
  BY BoundAssumption DEF AskCreate, AskUpdate, AskToggle, AskDelete, Ask, IInv, TypeOK
<1> QED BY <1>1, <1>2, ClientMoves

LEMMA CheckNameStep ==
  ASSUME IInv, NEW c \in Clients, CheckName(c)
  PROVE  IInv'
<1>1. /\ UNCHANGED <<table, seeder, nextId, history, starts>>
      /\ requests' \in 0 .. MaxRequests
  BY DEF CheckName, bounds, IInv, TypeOK
<1>2. ClientOK(client[c]) /\ RequestOK(client[c]) /\ client[c].pc = "check"
  BY DEF IInv, TypeOK, CheckName
<1>3. CASE client' = [client EXCEPT ![c] = Waiting]
  BY <1>1, <1>3, WaitingOK, ClientMoves
<1>4. CASE client' = [client EXCEPT ![c].pc = "insert"]
  <2> DEFINE k == [client[c] EXCEPT !.pc = "insert"]
  <2>1. ClientOK(k) /\ RequestOK(k)
    BY <1>2 DEF ClientOK, RequestOK
  <2>2. client' = [client EXCEPT ![c] = k]
    BY <1>4
  <2> HIDE DEF k
  <2> QED BY <1>1, <2>1, <2>2, ClientMoves
<1> QED BY <1>3, <1>4 DEF CheckName, Answer

\* A toggle writes the negation of the enabled column it has read.
LEMMA ToggleType ==
  ASSUME NEW row, IsRow(row)
  PROVE  /\ IsBody([NoBody EXCEPT !.enabled = ~row.enabled])
         /\ NonNull([NoBody EXCEPT !.enabled = ~row.enabled]) \subseteq {"enabled"}
<1> DEFINE d == [NoBody EXCEPT !.enabled = ~row.enabled]
<1>1. DOMAIN d = Fields /\ \A f \in Fields \ {"enabled"} : d[f] = None
  BY DEF NoBody
<1>2. d.enabled = ~row.enabled
  BY DEF NoBody, Fields
<1> HIDE DEF d
<1>3. d.enabled \in BOOLEAN
  BY <1>2, Zenon
<1>4. IsBody(d)
  BY <1>1, <1>3 DEF IsBody, Fields
<1>5. NonNull(d) \subseteq {"enabled"}
  BY <1>1 DEF NonNull
<1> QED BY <1>4, <1>5 DEF d

LEMMA ReadStep ==
  ASSUME IInv, NEW c \in Clients, Read(c)
  PROVE  IInv'
<1> DEFINE i == client[c].id
<1>1. /\ UNCHANGED <<table, seeder, nextId, history, starts>>
      /\ requests' \in 0 .. MaxRequests
  BY DEF Read, bounds, IInv, TypeOK
<1>2. ClientOK(client[c]) /\ client[c].pc = "read"
  BY DEF IInv, TypeOK, Read
<1>3. CASE client' = [client EXCEPT ![c] = Waiting]
  BY <1>1, <1>3, WaitingOK, ClientMoves
<1>4. CASE /\ i \in DOMAIN table
           /\ client[c].op = "update" => Valid(Merge(table[i], client[c].data))
           /\ client' = [client EXCEPT
                ![c].pc = "write",
                ![c].seen = table[i],
                ![c].data = IF client[c].op = "toggle"
                              THEN [NoBody EXCEPT !.enabled = ~table[i].enabled] ELSE @]
  <2> DEFINE d == IF client[c].op = "toggle"
                    THEN [NoBody EXCEPT !.enabled = ~table[i].enabled] ELSE client[c].data
             k == [client[c] EXCEPT !.pc = "write", !.seen = table[i], !.data = d]
  <2>1. IsRow(table[i]) /\ IsBody(table[i])
    BY <1>4, RowIsBody DEF IInv, TypeOK, RowsOK
  <2>2. IsBody(d) /\ (client[c].op = "toggle" => NonNull(d) \subseteq {"enabled"})
    BY <1>2, <2>1, ToggleType DEF ClientOK
  <2>3. client[c].op = "update" => d = client[c].data
    OBVIOUS
  <2>4. client' = [client EXCEPT ![c] = k]
    BY <1>4
  <2> HIDE DEF d
  <2>5. /\ DOMAIN k = DOMAIN client[c] /\ k.pc = "write" /\ k.op = client[c].op
        /\ k.id = client[c].id /\ k.data = d /\ k.seen = table[i]
    BY <1>2 DEF ClientOK
  <2> HIDE DEF k
  <2>6. ClientOK(k)
    BY <1>2, <2>1, <2>2, <2>5 DEF ClientOK
  <2>7. RequestOK(k)
    BY <1>4, <2>2, <2>3, <2>5 DEF RequestOK
  <2> QED BY <1>1, <2>4, <2>6, <2>7, ClientMoves
<1> QED BY <1>3, <1>4 DEF Read, Answer

-----------------------------------------------------------------------------
(* Requests that change the table. *)

\* Seeding does not notice a change of the table that adds no held name, loses
\* no built-in one, and brings one only with an operator to blame.
LEMMA SeedersUndisturbed ==
  ASSUME IInv, UNCHANGED seeder, taken => taken',
         NamesOf(table') \cap HeldBy(Consumers) = {},
         \A n \in BuiltinNames : n \in NamesOf(table) \cup removed =>
                                   n \in NamesOf(table') \cup removed',
         \A n \in BuiltinNames : n \in NamesOf(table') => n \in NamesOf(table) \/ taken'
  PROVE  SeedersOK'
<1>1. \A s \in Consumers :
        /\ SeederOK(seeder[s]) /\ FlushedOK(seeder[s]) /\ ProgressOK(seeder[s])
        /\ NamesOf(seeder[s].rows) \subseteq HeldBy(Consumers)
  BY DEF IInv, TypeOK, SeedersOK, HeldBy
<1>2. Seeded => Seeded'
  BY DEF Seeded
<1>3. ASSUME NEW s \in Consumers PROVE FlushedOK(seeder[s])'
  BY <1>1 DEF FlushedOK
<1>4. ASSUME NEW s \in Consumers PROVE ProgressOK(seeder[s])'
  <2> DEFINE k == seeder[s]
  <2>1. \A b \in 1 .. k.next - 1 : b \in 1 .. Len(Builtins)
    BY <1>1, BuiltinsType DEF SeederOK
  <2>2. \A b \in 1 .. k.next - 1 : Builtins[b].name \in BuiltinNames
    BY <2>1, BuiltinsSound
  <2>3. k.pc = "flush" => Builtins[k.next].name \in BuiltinNames
    BY <1>1, BuiltinNamesWanted
  <2>4. k' = k /\ ProgressOK(k)
    BY <1>1
  <2> HIDE DEF k
  <2>5. ProgressOK(k)'
    BY <1>2, <2>2, <2>3, <2>4 DEF ProgressOK, Seeded
  <2> QED BY <2>5 DEF k
<1>5. \A s, t \in Consumers : s # t => Apart(seeder'[s], seeder'[t])
  BY DEF IInv, SeedersOK, Apart
<1> QED BY <1>3, <1>4, <1>5 DEF SeedersOK, Apart

\* A request that is answered leaves the others as they are.
LEMMA Answered ==
  ASSUME IInv, NEW c \in Clients, Answer(c)
  PROVE  /\ DOMAIN client' = Clients
         /\ \A d \in Clients : ClientOK(client'[d]) /\ RequestOK(client'[d])
BY WaitingOK DEF Answer, IInv, TypeOK

LEMMA InsertStep ==
  ASSUME IInv, NEW c \in Clients, Insert(c)
  PROVE  IInv'
<1> DEFINE d == client[c].data
<1>1. CASE UNCHANGED <<table, ever, taken>>
  <2>1. /\ nextId' = nextId + 1 /\ nextId \in Nat
        /\ UNCHANGED <<seeder, raced, removed, bounds>>
    BY DEF Insert, IInv, TypeOK, RowsOK
  <2>2. TypeOK'
    BY <1>1, <2>1, Answered DEF Insert, IInv, TypeOK, RowsOK, bounds
  <2>3. ValidUnlessRaced' /\ Table!NamesDiffer' /\ SeedersOK'
    BY <1>1, <2>1 DEF IInv, ValidUnlessRaced, Table!NamesDiffer, SeedersOK, FlushedOK,
                      ProgressOK, Apart, Seeded
  <2> QED BY <2>2, <2>3, Answered DEF Insert, IInv
<1>2. CASE /\ d.name \notin NamesOf(table)
           /\ table' = With(table, nextId, d)
           /\ ever' = ever \cup {nextId}
           /\ taken' = (taken \/ d.name \in BuiltinNames)
  <2>1. /\ nextId' = nextId + 1 /\ nextId \in Nat /\ nextId \notin ever
        /\ nextId \notin DOMAIN table
        /\ UNCHANGED <<seeder, raced, removed, bounds>>
    BY DEF Insert, IInv, TypeOK, RowsOK
  <2>2. IsRow(d) /\ Valid(d)
    BY DEF Insert, IInv, RequestOK
  <2>3. /\ DOMAIN table' = DOMAIN table \cup {nextId}
        /\ \A i \in DOMAIN table : table'[i] = table[i]
        /\ table'[nextId] = d
        /\ NamesOf(table') = NamesOf(table) \cup {d.name}
    <3>1. DOMAIN table' = DOMAIN table \cup {nextId}
      BY <1>2, WithDomain
    <3>2. \A i \in DOMAIN table : table'[i] = table[i]
      BY <1>2, WithOld
    <3>3. table'[nextId] = d
      BY <1>2, <2>1, WithNew
    <3>4. NamesOf(table') = NamesOf(table) \cup {d.name}
      BY <1>2, <2>1, WithNames
    <3> QED BY <3>1, <3>2, <3>3, <3>4
  <2>4. RowsOK'
    <3> HIDE DEF d
    <3>0. RowsOK
      BY DEF IInv, TypeOK
    <3>1. nextId' \in Nat /\ ever' \subseteq Nat /\ \A i \in ever' : i < nextId'
      BY <1>2, <2>1, <3>0 DEF RowsOK
    <3>2. DOMAIN table' \subseteq ever'
      BY <1>2, <2>3, <3>0 DEF RowsOK
    <3>3. \A i \in DOMAIN table' : IsRow(table'[i])
      BY <2>2, <2>3, <3>0 DEF RowsOK
    <3> QED BY <3>1, <3>2, <3>3 DEF RowsOK
  <2>5. \A s \in Consumers : DOMAIN seeder'[s].rows \subseteq (0 .. nextId' - 1) \ ever'
    BY <1>2, <2>1 DEF IInv, TypeOK
  <2>6. taken' \in BOOLEAN
    BY <1>2, Zenon
  <2>7. TypeOK'
    BY <2>1, <2>4, <2>5, <2>6, <1>2, Answered DEF Insert, IInv, TypeOK, bounds
  <2>8. ValidUnlessRaced'
    BY <2>1, <2>2, <2>3 DEF IInv, ValidUnlessRaced, Sound
  <2>9. Table!NamesDiffer'
    BY <1>2, <2>3 DEF IInv, Table!NamesDiffer, NamesOf
  <2>10. NamesOf(table) \cap HeldBy(Consumers) = {} /\ d.name \notin HeldBy(Consumers)
    BY DEF IInv, SeedersOK, FlushedOK, HeldBy, Insert
  <2>11. SeedersOK'
    BY <1>2, <2>1, <2>3, <2>10, SeedersUndisturbed
  <2> QED BY <2>7, <2>8, <2>9, <2>11, Answered DEF Insert, IInv
<1> QED BY <1>1, <1>2 DEF Insert

\* The rows besides i.
Others(i) == [j \in DOMAIN table \ {i} |-> table[j]]

LEMMA OtherNames ==
  ASSUME NEW i \in DOMAIN table
  PROVE  NamesOf(table) = NamesOf(Others(i)) \cup {table[i].name}
BY DEF NamesOf, Others

LEMMA ReplacedNames ==
  ASSUME NEW i \in DOMAIN table, NEW e, table' = [table EXCEPT ![i] = e]
  PROVE  NamesOf(table') = NamesOf(Others(i)) \cup {e.name}
<1>1. /\ DOMAIN table' = DOMAIN table /\ table'[i] = e
      /\ \A j \in DOMAIN table \ {i} : table'[j] = table[j]
  OBVIOUS
<1>2. /\ DOMAIN Others(i) = DOMAIN table \ {i}
      /\ \A j \in DOMAIN table \ {i} : Others(i)[j] = table[j]
  BY DEF Others
<1> QED BY <1>1, <1>2 DEF NamesOf

\* The effect of an update or a toggle that changes its row.
Written(c) ==
  LET i == client[c].id
      d == client[c].data
      columns == Dirty(c)
  IN
  /\ i \in DOMAIN table
  /\ "name" \in columns => d.name \notin NamesOf(Others(i)) \cup HeldBy(Consumers)
  /\ table' = [table EXCEPT ![i] = Assign(table[i], d, columns)]
  /\ raced' = IF \E f \in Checked : table[i][f] # client[c].seen[f]
                THEN raced \cup {i} ELSE raced
  /\ removed' = IF "name" \in columns THEN removed \cup {table[i].name} ELSE removed
  /\ taken' = (taken \/ ("name" \in columns /\ d.name \in BuiltinNames))
  /\ UNCHANGED ever

LEMMA WriteCases ==
  ASSUME NEW c \in Clients, Write(c)
  PROVE  /\ client[c].pc = "write" /\ client[c].op \in {"update", "toggle"}
         /\ Answer(c) /\ UNCHANGED <<seeder, nextId, bounds>>
         /\ UNCHANGED <<table, history>> \/ Written(c)
BY DEF Write, Written, Others, Target

\* The new row: of the right type, sound unless it has raced, under its old
\* name or a name of its own.
LEMMA WrittenRow ==
  ASSUME IInv, NEW c \in Clients, client[c].pc = "write",
         client[c].op \in {"update", "toggle"}, client[c].id \in DOMAIN table,
         NEW e, e = Assign(table[client[c].id], client[c].data, Dirty(c))
  PROVE  /\ IsRow(e)
         /\ client[c].id \notin raced
              /\ (\A f \in Checked : table[client[c].id][f] = client[c].seen[f]) => Sound(e)
         /\ e.name = IF "name" \in Dirty(c) THEN client[c].data.name
                                           ELSE table[client[c].id].name
<1> DEFINE i == client[c].id
           d == client[c].data
           row == table[i]
           seen == client[c].seen
<1>1. IsRow(row) /\ IsBody(d) /\ IsRow(seen)
  BY DEF IInv, TypeOK, RowsOK, ClientOK
<1>2. RequestOK(client[c])
  BY DEF IInv
<1>3. Dirty(c) \in SUBSET NonNull(d) /\ Dirty(c) = {f \in NonNull(d) : d[f] # seen[f]}
  BY DEF Dirty
<1>4. /\ DOMAIN e = Fields
      /\ \A f \in Fields : e[f] = IF f \in Dirty(c) THEN d[f] ELSE row[f]
  BY DEF Assign
<1>5. e.name = IF "name" \in Dirty(c) THEN d.name ELSE row.name
  BY <1>4 DEF Fields
<1>6. CASE client[c].op = "update"
  <2>1. Valid(Merge(seen, d))
    BY <1>2, <1>6 DEF RequestOK
  <2> HIDE DEF row, seen, d
  <2>2. IsRow(Assign(row, d, Dirty(c)))
    BY <1>1, <1>3, <2>1, AssignIsRow
  <2>3. (\A f \in Checked : row[f] = seen[f]) => Valid(Assign(row, d, Dirty(c)))
    BY <1>3, <2>1, AssignMerges
  <2>4. e = Assign(row, d, Dirty(c))
    BY DEF row, d
  <2> QED BY <1>5, <2>2, <2>3, <2>4 DEF row, seen, d, Sound
<1>7. CASE client[c].op = "toggle"
  <2>1. Dirty(c) \subseteq {"enabled"}
    BY <1>2, <1>3, <1>7 DEF RequestOK
  <2>2. \A f \in Fields \ {"enabled"} : e[f] = row[f]
    BY <1>4, <2>1
  <2>3. "enabled" \in Dirty(c) => d.enabled \in BOOLEAN
    BY <1>1, <1>3 DEF NonNull, IsBody
  <2>4. e.enabled \in BOOLEAN
    BY <1>1, <1>4, <2>3 DEF IsRow, Fields
  <2>5. IsRow(e)
    BY <1>1, <1>4, <2>2, <2>4 DEF IsRow, Fields
  <2>6. i \notin raced => Sound(row)
    BY DEF IInv, ValidUnlessRaced
  <2>7. i \notin raced => Sound(e)
    BY <2>2, <2>6, SoundByColumns
  <2> QED BY <1>5, <2>5, <2>7
<1> QED BY <1>6, <1>7

LEMMA WriteStep ==
  ASSUME IInv, NEW c \in Clients, Write(c)
  PROVE  IInv'
<1> DEFINE i == client[c].id
<1>1. /\ client[c].pc = "write" /\ client[c].op \in {"update", "toggle"}
      /\ Answer(c) /\ UNCHANGED <<seeder, nextId, bounds>>
  BY WriteCases
<1>2. CASE UNCHANGED <<table, history>>
  BY <1>1, <1>2, WaitingOK, ClientMoves DEF Answer, IInv, TypeOK, bounds
<1>3. CASE Written(c)
  <2>1. i \in DOMAIN table
    BY <1>3 DEF Written
  <2>2. PICK e : e = Assign(table[i], client[c].data, Dirty(c))
    OBVIOUS
  <2>3. /\ IsRow(e)
        /\ i \notin raced /\ (\A f \in Checked : table[i][f] = client[c].seen[f]) => Sound(e)
        /\ e.name = IF "name" \in Dirty(c) THEN client[c].data.name ELSE table[i].name
    BY <1>1, <2>1, <2>2, WrittenRow
  <2>4. table' = [table EXCEPT ![i] = e]
    BY <1>3, <2>2 DEF Written
  <2>5. /\ DOMAIN table' = DOMAIN table /\ table'[i] = e
        /\ \A j \in DOMAIN table \ {i} : table'[j] = table[j]
    BY <2>1, <2>4
  <2>6. RowsOK'
    BY <1>1, <1>3, <2>3, <2>5 DEF Written, RowsOK, IInv, TypeOK
  <2>7. taken' \in BOOLEAN /\ (taken => taken')
    <3>1. taken \in BOOLEAN /\ taken' = (taken \/ ("name" \in Dirty(c) /\ client[c].data.name \in BuiltinNames))
      BY <1>3 DEF Written, IInv, TypeOK
    <3> QED BY <3>1
  <2>8. raced' \subseteq ever' /\ None \notin removed'
    <3>1. table[i].name # None /\ i \in ever
      BY <2>1 DEF IInv, TypeOK, RowsOK, IsRow
    <3> QED BY <1>3, <3>1 DEF Written, IInv, TypeOK
  <2>9. TypeOK'
    BY <1>1, <1>3, <2>6, <2>7, <2>8, Answered DEF Written, IInv, TypeOK, bounds
  <2>10. ValidUnlessRaced'
    BY <1>3, <2>3, <2>5 DEF Written, IInv, ValidUnlessRaced
  <2>11. NamesOf(table) = NamesOf(Others(i)) \cup {table[i].name}
    BY <2>1, OtherNames
  <2>12. NamesOf(table') = NamesOf(Others(i)) \cup {e.name}
    BY <2>1, <2>4, ReplacedNames
  <2>13. e.name \notin NamesOf(Others(i))
    <3>1. CASE "name" \in Dirty(c)
      BY <1>3, <2>3, <3>1 DEF Written
    <3>2. CASE "name" \notin Dirty(c)
      BY <2>1, <2>3, <3>2 DEF IInv, Table!NamesDiffer, NamesOf, Others
    <3> QED BY <3>1, <3>2
  <2>14. Table!NamesDiffer'
    <3>1. \A j \in DOMAIN table \ {i} : table'[j].name # e.name
      BY <2>5, <2>13 DEF NamesOf, Others
    <3> QED BY <2>5, <3>1 DEF IInv, Table!NamesDiffer
  <2>15. NamesOf(table) \cap HeldBy(Consumers) = {}
    BY DEF IInv, SeedersOK, FlushedOK, HeldBy
  <2>16. NamesOf(table') \cap HeldBy(Consumers) = {}
    BY <1>3, <2>3, <2>11, <2>12, <2>15 DEF Written
  <2>17. \A n \in BuiltinNames : n \in NamesOf(table) \cup removed =>
                                  n \in NamesOf(table') \cup removed'
    BY <1>3, <2>3, <2>11, <2>12 DEF Written
  <2>18. \A n \in BuiltinNames : n \in NamesOf(table') => n \in NamesOf(table) \/ taken'
    BY <1>3, <2>3, <2>11, <2>12 DEF Written
  <2>19. SeedersOK'
    BY <1>1, <2>7, <2>16, <2>17, <2>18, SeedersUndisturbed
  <2> QED BY <1>1, <2>9, <2>10, <2>14, <2>19, Answered DEF IInv
<1> QED BY <1>2, <1>3, WriteCases

LEMMA DeleteStep ==
  ASSUME IInv, NEW c \in Clients, Delete(c)
  PROVE  IInv'
<1> DEFINE i == client[c].id
<1>1. /\ Answer(c) /\ UNCHANGED <<seeder, nextId, ever, raced, taken, bounds>>
      /\ removed' = IF i \in DOMAIN table THEN removed \cup {table[i].name} ELSE removed
  BY DEF Delete
<1>2. /\ DOMAIN table' = DOMAIN table \ {i}
      /\ \A j \in DOMAIN table' : table'[j] = table[j]
  BY DEF Delete
<1>3. RowsOK'
  BY <1>1, <1>2 DEF IInv, TypeOK, RowsOK
<1>4. None \notin removed'
  BY <1>1 DEF IInv, TypeOK, RowsOK, IsRow
<1>5. TypeOK'
  BY <1>1, <1>3, <1>4, Answered DEF IInv, TypeOK, bounds
<1>6. ValidUnlessRaced' /\ Table!NamesDiffer'
  BY <1>1, <1>2 DEF IInv, ValidUnlessRaced, Table!NamesDiffer
<1>7. NamesOf(table') \subseteq NamesOf(table)
  BY <1>2 DEF NamesOf
<1>8. NamesOf(table) \subseteq NamesOf(table') \cup removed'
  BY <1>1, <1>2 DEF NamesOf
<1>9. NamesOf(table) \cap HeldBy(Consumers) = {}
  BY DEF IInv, SeedersOK, FlushedOK, HeldBy
<1>10. removed \subseteq removed'
  BY <1>1
<1>11. SeedersOK'
  BY <1>1, <1>7, <1>8, <1>9, <1>10, SeedersUndisturbed
<1> QED BY <1>1, <1>5, <1>6, <1>11, Answered DEF IInv

-----------------------------------------------------------------------------
(* Seeding. *)

LEMMA Wider ==
  ASSUME NEW m \in Nat, NEW n \in Nat, n >= m
  PROVE  0 .. m - 1 \subseteq 0 .. n - 1
OBVIOUS

\* A step of one transaction that leaves the table as it is.
LEMMA SeederMoves ==
  ASSUME IInv, NEW s \in Consumers, NEW k, SeederOK(k), FlushedOK(k), ProgressOK(k),
         \A t \in Consumers \ {s} : Apart(k, seeder[t]),
         DOMAIN k.rows \subseteq (0 .. nextId' - 1) \ ever,
         nextId' \in Nat, nextId' >= nextId,
         seeder' = [seeder EXCEPT ![s] = k],
         UNCHANGED <<table, client, history, requests>>,
         starts' \in 0 .. MaxStarts
  PROVE  IInv'
<1> USE DEF history
<1>1. /\ DOMAIN seeder' = Consumers /\ seeder'[s] = k
      /\ \A t \in Consumers \ {s} : seeder'[t] = seeder[t]
  BY DEF IInv, TypeOK
<1>2. RowsOK'
  BY DEF IInv, TypeOK, RowsOK
<1>3. \A t \in Consumers : SeederOK(seeder'[t])
  BY <1>1 DEF IInv, TypeOK
<1>4. \A t \in Consumers : DOMAIN seeder'[t].rows \subseteq (0 .. nextId' - 1) \ ever'
  <2>1. nextId \in Nat /\ ever' = ever
    BY DEF IInv, TypeOK, RowsOK
  <2>2. 0 .. nextId - 1 \subseteq 0 .. nextId' - 1
    BY <2>1, Wider
  <2>3. \A t \in Consumers : DOMAIN seeder[t].rows \subseteq (0 .. nextId - 1) \ ever
    BY DEF IInv, TypeOK
  <2> QED BY <1>1, <2>1, <2>2, <2>3
<1>5. TypeOK'
  BY <1>1, <1>2, <1>3, <1>4 DEF IInv, TypeOK
<1>6. /\ (\A c \in Clients : RequestOK(client[c]))'
      /\ ValidUnlessRaced' /\ Table!NamesDiffer'
  BY DEF IInv, ValidUnlessRaced, Table!NamesDiffer
<1>7. \A t \in Consumers : FlushedOK(seeder[t])' /\ ProgressOK(seeder[t])'
  <2>1. FlushedOK(k)' /\ ProgressOK(k)'
    BY DEF FlushedOK, ProgressOK, Seeded
  <2>2. ASSUME NEW t \in Consumers \ {s}
        PROVE  FlushedOK(seeder[t])' /\ ProgressOK(seeder[t])'
    BY <1>1 DEF IInv, SeedersOK, FlushedOK, ProgressOK, Seeded
  <2>3. FlushedOK(seeder[s])' /\ ProgressOK(seeder[s])'
    BY <1>1, <2>1 DEF FlushedOK, ProgressOK, Seeded
  <2> QED BY <2>2, <2>3
<1>8. \A t, u \in Consumers : t # u => Apart(seeder'[t], seeder'[u])
  <2>1. \A t \in Consumers \ {s} : Apart(seeder[t], k)
    BY DEF Apart
  <2>2. \A t, u \in Consumers : t # u => Apart(seeder[t], seeder[u])
    BY DEF IInv, SeedersOK
  <2> QED BY <1>1, <2>1, <2>2
<1>9. SeedersOK'
  BY <1>7, <1>8 DEF SeedersOK, Apart
<1> QED BY <1>5, <1>6, <1>9 DEF IInv

\* What the invariant says of one transaction.
LEMMA OneSeeder ==
  ASSUME IInv, NEW s \in Consumers
  PROVE  /\ SeederOK(seeder[s]) /\ FlushedOK(seeder[s]) /\ ProgressOK(seeder[s])
         /\ DOMAIN seeder[s].rows \subseteq (0 .. nextId - 1) \ ever
         /\ \A t \in Consumers \ {s} : Apart(seeder[s], seeder[t])
         /\ nextId \in Nat /\ starts \in 0 .. MaxStarts
BY DEF IInv, TypeOK, SeedersOK, RowsOK

LEMMA EmptyApart ==
  ASSUME NEW k, NEW l, k.rows = NoRows
  PROVE  Apart(k, l) /\ DOMAIN k.rows = {} /\ NamesOf(k.rows) = {}
BY NoRowsNames DEF Apart

LEMMA StartStep ==
  ASSUME IInv, NEW s \in Consumers, Start(s)
  PROVE  IInv'
<1> DEFINE k == [Down EXCEPT !.pc = "check"]
<1>1. DOMAIN k = {"pc", "next", "rows"} /\ k.pc = "check" /\ k.next = 1 /\ k.rows = NoRows
  BY DEF Down
<1>2. /\ seeder' = [seeder EXCEPT ![s] = k]
      /\ UNCHANGED <<table, client, nextId, history, requests>>
      /\ starts' = starts + 1 /\ starts < MaxStarts
  BY DEF Start
<1> HIDE DEF k
<1>3. SeederOK(k) /\ FlushedOK(k) /\ ProgressOK(k)
  BY <1>1, EmptyApart, BuiltinsType DEF SeederOK, FlushedOK, ProgressOK
<1>4. \A t \in Consumers \ {s} : Apart(k, seeder[t])
  BY <1>1, EmptyApart
<1>5. DOMAIN k.rows = {}
  BY <1>1, EmptyApart
<1>6. starts' \in 0 .. MaxStarts /\ nextId' \in Nat /\ nextId' >= nextId
  BY <1>2, OneSeeder, BoundAssumption
<1> QED BY <1>2, <1>3, <1>4, <1>5, <1>6, SeederMoves

LEMMA CrashStep ==
  ASSUME IInv, NEW s \in Consumers, Crash(s)
  PROVE  IInv'
<1>1. DOMAIN Down = {"pc", "next", "rows"} /\ Down.pc = "down" /\ Down.next = 1 /\ Down.rows = NoRows
  BY DEF Down
<1>2. /\ seeder' = [seeder EXCEPT ![s] = Down]
      /\ UNCHANGED <<table, client, nextId, history, requests, starts>>
  BY DEF Crash, bounds
<1>3. SeederOK(Down) /\ FlushedOK(Down) /\ ProgressOK(Down)
  BY <1>1, NoRowsNames, BuiltinsType DEF SeederOK, FlushedOK, ProgressOK
<1>4. \A t \in Consumers \ {s} : Apart(Down, seeder[t])
  BY <1>1, EmptyApart
<1>5. DOMAIN Down.rows = {}
  BY <1>1, EmptyApart
<1>6. starts' \in 0 .. MaxStarts /\ nextId' \in Nat /\ nextId' >= nextId
  BY <1>2, OneSeeder
<1> QED BY <1>2, <1>3, <1>4, <1>5, <1>6, SeederMoves

LEMMA CheckBuiltinStep ==
  ASSUME IInv, NEW s \in Consumers, CheckBuiltin(s)
  PROVE  IInv'
<1> DEFINE o == seeder[s]
<1>1. /\ SeederOK(o) /\ FlushedOK(o) /\ ProgressOK(o)
      /\ DOMAIN o.rows \subseteq (0 .. nextId - 1) \ ever
      /\ \A t \in Consumers \ {s} : Apart(o, seeder[t])
      /\ nextId \in Nat /\ starts \in 0 .. MaxStarts
  BY OneSeeder
<1>2. /\ o.pc = "check" /\ o.next <= Len(Builtins)
      /\ UNCHANGED <<table, client, nextId, history, requests, starts>>
  BY DEF CheckBuiltin, bounds
<1>3. DOMAIN o = {"pc", "next", "rows"} /\ o.next \in 1 .. Len(Builtins)
  BY <1>1, <1>2, BuiltinsType DEF SeederOK
<1>4. CASE /\ Builtins[o.next].name \in NamesOf(table) \cup NamesOf(o.rows)
           /\ seeder' = [seeder EXCEPT ![s].next = @ + 1]
  <2> DEFINE k == [o EXCEPT !.next = @ + 1]
  <2>1. seeder' = [seeder EXCEPT ![s] = k]
    BY <1>4
  <2>2. DOMAIN k = DOMAIN o /\ k.pc = o.pc /\ k.rows = o.rows /\ k.next = o.next + 1
    BY <1>3
  <2> HIDE DEF k, o
  <2>3. SeederOK(k)
    BY <1>1, <1>2, <1>3, <2>2, BuiltinsType DEF SeederOK
  <2>4. FlushedOK(k)
    BY <1>1, <1>2, <2>2 DEF FlushedOK
  <2>5. ProgressOK(k)
    <3>1. \A b \in 1 .. k.next - 1 : b \in 1 .. o.next - 1 \/ b = o.next
      BY <1>3, <2>2
    <3> QED BY <1>1, <1>2, <1>4, <2>2, <3>1 DEF ProgressOK
  <2>6. \A t \in Consumers \ {s} : Apart(k, seeder[t])
    BY <1>1, <2>2 DEF Apart
  <2>7. /\ DOMAIN k.rows \subseteq (0 .. nextId' - 1) \ ever
        /\ nextId' \in Nat /\ nextId' >= nextId /\ starts' \in 0 .. MaxStarts
    BY <1>1, <1>2, <2>2
  <2> QED BY <1>2, <2>1, <2>3, <2>4, <2>5, <2>6, <2>7, SeederMoves
<1>5. CASE /\ Builtins[o.next].name \notin NamesOf(table) \cup NamesOf(o.rows)
           /\ seeder' = [seeder EXCEPT ![s].pc = "flush"]
  <2> DEFINE k == [o EXCEPT !.pc = "flush"]
  <2>1. seeder' = [seeder EXCEPT ![s] = k]
    BY <1>5
  <2>2. DOMAIN k = DOMAIN o /\ k.pc = "flush" /\ k.rows = o.rows /\ k.next = o.next
    BY <1>3
  <2> HIDE DEF k, o
  <2>3. SeederOK(k)
    BY <1>1, <1>2, <1>3, <2>2 DEF SeederOK
  <2>4. FlushedOK(k)
    BY <1>1, <1>5, <2>2 DEF FlushedOK
  <2>5. ProgressOK(k)
    BY <1>1, <1>2, <1>5, <2>2 DEF ProgressOK
  <2>6. \A t \in Consumers \ {s} : Apart(k, seeder[t])
    BY <1>1, <2>2 DEF Apart
  <2>7. /\ DOMAIN k.rows \subseteq (0 .. nextId' - 1) \ ever
        /\ nextId' \in Nat /\ nextId' >= nextId /\ starts' \in 0 .. MaxStarts
    BY <1>1, <1>2, <2>2
  <2> QED BY <1>2, <2>1, <2>3, <2>4, <2>5, <2>6, <2>7, SeederMoves
<1> QED BY <1>4, <1>5 DEF CheckBuiltin, Wanted

LEMMA FlushStep ==
  ASSUME IInv, NEW s \in Consumers, Flush(s)
  PROVE  IInv'
<1> DEFINE o == seeder[s]
           w == Builtins[o.next]
<1>1. /\ SeederOK(o) /\ FlushedOK(o) /\ ProgressOK(o)
      /\ DOMAIN o.rows \subseteq (0 .. nextId - 1) \ ever
      /\ \A t \in Consumers \ {s} : Apart(o, seeder[t])
      /\ nextId \in Nat /\ starts \in 0 .. MaxStarts
  BY OneSeeder
<1>2. /\ o.pc = "flush" /\ w.name \notin HeldBy(Consumers \ {s}) /\ nextId' = nextId + 1
      /\ UNCHANGED <<table, client, history, requests, starts>>
  BY DEF Flush, bounds, Wanted
<1>3. DOMAIN o = {"pc", "next", "rows"} /\ o.next \in 1 .. Len(Builtins)
  BY <1>1, <1>2, BuiltinsType DEF SeederOK
<1>4. nextId' \in Nat /\ nextId' >= nextId
  BY <1>1, <1>2
<1>5. CASE /\ w.name \in NamesOf(table)
           /\ seeder' = [seeder EXCEPT ![s].pc = "done", ![s].rows = NoRows]
  <2> DEFINE k == [o EXCEPT !.pc = "done", !.rows = NoRows]
  <2>1. seeder' = [seeder EXCEPT ![s] = k]
    BY <1>5
  <2>2. DOMAIN k = DOMAIN o /\ k.pc = "done" /\ k.rows = NoRows /\ k.next = o.next
    BY <1>3
  <2>3. Seeded
    BY <1>1, <1>2, <1>5 DEF ProgressOK
  <2> HIDE DEF k, o
  <2>4. DOMAIN k.rows = {} /\ NamesOf(k.rows) = {}
    BY <2>2, NoRowsNames
  <2>5. SeederOK(k) /\ FlushedOK(k) /\ ProgressOK(k)
    BY <1>1, <2>2, <2>3, <2>4 DEF SeederOK, FlushedOK, ProgressOK
  <2>6. \A t \in Consumers \ {s} : Apart(k, seeder[t])
    BY <2>2, EmptyApart
  <2> QED BY <1>1, <1>2, <1>4, <2>1, <2>4, <2>5, <2>6, SeederMoves
<1>6. CASE /\ w.name \notin NamesOf(table)
           /\ seeder' = [seeder EXCEPT ![s].pc = "check", ![s].next = @ + 1,
                                        ![s].rows = With(@, nextId, w)]
  <2> DEFINE rows == With(o.rows, nextId, w)
             k == [o EXCEPT !.pc = "check", !.next = @ + 1, !.rows = rows]
  <2>1. seeder' = [seeder EXCEPT ![s] = k]
    BY <1>6
  <2>2. DOMAIN k = DOMAIN o /\ k.pc = "check" /\ k.rows = rows /\ k.next = o.next + 1
    BY <1>3
  <2>3. nextId \notin DOMAIN o.rows
    BY <1>1
  <2>4. DOMAIN rows = DOMAIN o.rows \cup {nextId}
    BY WithDomain
  <2>5. \A i \in DOMAIN o.rows : rows[i] = o.rows[i]
    BY WithOld
  <2>6. rows[nextId] = w
    BY <2>3, WithNew
  <2>7. NamesOf(rows) = NamesOf(o.rows) \cup {w.name}
    BY <2>3, WithNames
  <2> HIDE DEF k, rows
  <2>8. SeederOK(k)
    <3>1. o.next \in 1 .. k.next - 1 /\ \A b \in 1 .. o.next - 1 : b \in 1 .. k.next - 1
      BY <1>3, <2>2, BuiltinsType
    <3>2. \A i \in DOMAIN o.rows : o.rows[i] \in {Builtins[b] : b \in 1 .. o.next - 1}
      BY <1>1 DEF SeederOK
    <3>3. \A i \in DOMAIN rows : rows[i] \in {Builtins[b] : b \in 1 .. k.next - 1}
      BY <2>4, <2>5, <2>6, <3>1, <3>2
    <3>4. k.next \in 1 .. Len(Builtins) + 1
      BY <1>3, <2>2, BuiltinsType
    <3> HIDE DEF o
    <3> QED BY <1>3, <2>2, <3>3, <3>4 DEF SeederOK
  <2>9. FlushedOK(k)
    <3>1. \A i \in DOMAIN o.rows : o.rows[i].name # w.name
      BY <1>1, <1>2 DEF FlushedOK, NamesOf
    <3>2. \A i, j \in DOMAIN rows : rows[i].name = rows[j].name => i = j
      BY <1>1, <2>4, <2>5, <2>6, <3>1 DEF FlushedOK
    <3> QED BY <1>1, <1>6, <2>2, <2>7, <3>2 DEF FlushedOK
  <2>10. ProgressOK(k)
    <3>1. \A b \in 1 .. k.next - 1 : b \in 1 .. o.next - 1 \/ b = o.next
      BY <1>3, <2>2
    <3> QED BY <1>1, <1>2, <2>2, <2>7, <3>1 DEF ProgressOK
  <2>11. ASSUME NEW t \in Consumers \ {s} PROVE Apart(k, seeder[t])
    <3>1. w.name \notin NamesOf(seeder[t].rows)
      BY <1>2 DEF HeldBy
    <3>2. nextId \notin DOMAIN seeder[t].rows
      BY OneSeeder, <1>1
    <3> QED BY <1>1, <2>2, <2>4, <2>7, <3>1, <3>2 DEF Apart
  <2>12. DOMAIN k.rows \subseteq (0 .. nextId' - 1) \ ever
    <3>1. nextId \notin ever
      BY <1>1 DEF IInv, TypeOK, RowsOK
    <3> QED BY <1>1, <1>2, <2>2, <2>4, <3>1
  <2> QED BY <1>1, <1>2, <1>4, <2>1, <2>8, <2>9, <2>10, <2>11, <2>12, SeederMoves
<1> QED BY <1>5, <1>6 DEF Flush, Wanted

LEMMA CommitSeedStep ==
  ASSUME IInv, NEW s \in Consumers, CommitSeed(s)
  PROVE  IInv'
<1> DEFINE o == seeder[s]
           k == [o EXCEPT !.pc = "done", !.rows = NoRows]
<1>1. /\ SeederOK(o) /\ FlushedOK(o) /\ ProgressOK(o)
      /\ DOMAIN o.rows \subseteq (0 .. nextId - 1) \ ever
      /\ \A t \in Consumers \ {s} : Apart(o, seeder[t])
      /\ nextId \in Nat
  BY OneSeeder
<1>2. /\ o.pc = "check" /\ o.next > Len(Builtins)
      /\ table' = Joined(table, o.rows) /\ ever' = ever \cup DOMAIN o.rows
      /\ seeder' = [seeder EXCEPT ![s] = k]
      /\ UNCHANGED <<client, nextId, raced, removed, taken, requests, starts>>
  BY DEF CommitSeed, bounds
<1>3. DOMAIN k = {"pc", "next", "rows"} /\ k.pc = "done" /\ k.rows = NoRows /\ k.next = o.next
  BY <1>1 DEF SeederOK
<1>4. /\ DOMAIN seeder' = Consumers /\ seeder'[s] = k
      /\ \A t \in Consumers \ {s} : seeder'[t] = seeder[t]
  BY <1>2 DEF IInv, TypeOK
<1> HIDE DEF k, o
<1>5. DOMAIN k.rows = {} /\ NamesOf(k.rows) = {}
  BY <1>3, NoRowsNames
<1>6. RowsOK
  BY DEF IInv, TypeOK
<1>7. DOMAIN table \cap DOMAIN o.rows = {}
  BY <1>1, <1>6 DEF RowsOK
<1>8. DOMAIN table' = DOMAIN table \cup DOMAIN o.rows
  BY <1>2, JoinedDomain
<1>9. \A i \in DOMAIN table : table'[i] = table[i]
  BY <1>2, JoinedOld
<1>10. \A i \in DOMAIN o.rows : table'[i] = o.rows[i]
  BY <1>2, <1>7, JoinedNew
<1>11. NamesOf(table') = NamesOf(table) \cup NamesOf(o.rows)
  BY <1>2, <1>7, JoinedNames
<1>12. ASSUME NEW i \in DOMAIN o.rows PROVE IsRow(o.rows[i]) /\ Sound(o.rows[i])
  <2>1. PICK b \in 1 .. o.next - 1 : o.rows[i] = Builtins[b]
    BY <1>1 DEF SeederOK
  <2>2. b \in 1 .. Len(Builtins)
    BY <1>1, BuiltinsType DEF SeederOK
  <2> QED BY <2>1, <2>2, BuiltinsSound
<1>13. RowsOK'
  <2>1. ever' \subseteq Nat /\ \A i \in ever' : i < nextId'
    <3>1. \A i \in 0 .. nextId - 1 : i \in Nat /\ i < nextId
      BY <1>1
    <3>2. \A i \in ever : i \in Nat /\ i < nextId
      BY <1>6 DEF RowsOK
    <3> QED BY <1>1, <1>2, <3>1, <3>2
  <2>2. DOMAIN table' \subseteq ever'
    BY <1>2, <1>6, <1>8 DEF RowsOK
  <2>3. \A i \in DOMAIN table' : IsRow(table'[i])
    BY <1>6, <1>8, <1>9, <1>10, <1>12 DEF RowsOK
  <2> QED BY <1>1, <1>2, <2>1, <2>2, <2>3 DEF RowsOK
<1>14. Seeded'
  <2>1. CASE taken
    BY <1>2, <2>1 DEF Seeded
  <2>2. CASE ~taken
    <3>1. \A b \in 1 .. Len(Builtins) : b \in 1 .. o.next - 1
      BY <1>1, <1>2, BuiltinsType DEF SeederOK
    <3>2. \A b \in 1 .. Len(Builtins) : Builtins[b].name \in NamesOf(table') \cup removed'
      BY <1>1, <1>2, <1>11, <2>2, <3>1 DEF ProgressOK
    <3> QED BY <3>2 DEF Seeded, BuiltinNames
  <2> QED BY <2>1, <2>2
<1>15. SeederOK(k)
  BY <1>1, <1>3, <1>5 DEF SeederOK
<1>16. FlushedOK(seeder[s])' /\ ProgressOK(seeder[s])'
  BY <1>3, <1>4, <1>5, <1>14 DEF FlushedOK, ProgressOK
<1>17. ASSUME NEW t \in Consumers \ {s}
       PROVE  FlushedOK(seeder[t])' /\ ProgressOK(seeder[t])'
  <2> DEFINE l == seeder[t]
  <2>1. FlushedOK(l) /\ ProgressOK(l) /\ Apart(o, l)
    BY <1>1, OneSeeder
  <2>2. l' = l
    BY <1>4
  <2> HIDE DEF l
  <2>3. FlushedOK(l)'
    BY <1>11, <2>1, <2>2 DEF FlushedOK, Apart
  <2>4. ProgressOK(l)'
    BY <1>2, <1>11, <1>14, <2>1, <2>2 DEF ProgressOK
  <2> QED BY <2>3, <2>4 DEF l
<1>18. SeedersOK'
  <2>1. \A t, u \in Consumers : t # u => Apart(seeder[t], seeder[u])
    BY DEF IInv, SeedersOK
  <2>2. \A t \in Consumers : Apart(k, seeder[t]) /\ Apart(seeder[t], k)
    BY <1>5 DEF Apart
  <2>3. \A t, u \in Consumers : t # u => Apart(seeder'[t], seeder'[u])
    BY <1>4, <2>1, <2>2
  <2> QED BY <1>16, <1>17, <2>3 DEF SeedersOK, Apart
<1>19. \A t \in Consumers : DOMAIN seeder'[t].rows \subseteq (0 .. nextId' - 1) \ ever'
  <2>1. ASSUME NEW t \in Consumers \ {s}
        PROVE  DOMAIN seeder[t].rows \subseteq (0 .. nextId - 1) \ ever'
    BY <1>1, <1>2, OneSeeder DEF Apart
  <2> QED BY <1>2, <1>4, <1>5, <2>1
<1>20. TypeOK'
  <2>1. \A t \in Consumers : SeederOK(seeder'[t])
    BY <1>4, <1>15 DEF IInv, TypeOK
  <2> QED BY <1>2, <1>4, <1>13, <1>19, <2>1 DEF IInv, TypeOK
<1>21. ValidUnlessRaced'
  BY <1>2, <1>8, <1>9, <1>10, <1>12 DEF IInv, ValidUnlessRaced
<1>22. Table!NamesDiffer'
  <2>1. \A i \in DOMAIN table, j \in DOMAIN o.rows : table[i].name # o.rows[j].name
    BY <1>1 DEF FlushedOK, NamesOf
  <2>2. \A i, j \in DOMAIN o.rows : o.rows[i].name = o.rows[j].name => i = j
    BY <1>1 DEF FlushedOK
  <2>3. \A i, j \in DOMAIN table : table[i].name = table[j].name => i = j
    BY DEF IInv, Table!NamesDiffer
  <2>4. \A i, j \in DOMAIN table' : table'[i].name = table'[j].name => i = j
    BY <1>8, <1>9, <1>10, <2>1, <2>2, <2>3
  <2> QED BY <2>4 DEF Table!NamesDiffer
<1>23. (\A c \in Clients : RequestOK(client[c]))'
  BY <1>2 DEF IInv
<1> QED BY <1>18, <1>20, <1>21, <1>22, <1>23 DEF IInv

-----------------------------------------------------------------------------
(* The theorems. *)

LEMMA StutterStep ==
  ASSUME IInv, UNCHANGED vars
  PROVE  IInv'
<1> USE DEF vars, history, bounds
<1>1. TypeOK'
  BY DEF IInv, TypeOK, RowsOK
<1>2. ValidUnlessRaced' /\ Table!NamesDiffer' /\ (\A c \in Clients : RequestOK(client[c]))'
  BY DEF IInv, ValidUnlessRaced, Table!NamesDiffer
<1>3. SeedersOK'
  BY DEF IInv, SeedersOK, FlushedOK, ProgressOK, Apart, Seeded
<1> QED BY <1>1, <1>2, <1>3 DEF IInv

LEMMA NextIInv == IInv /\ [Next]_vars => IInv'
<1> SUFFICES ASSUME IInv, [Next]_vars PROVE IInv'
  OBVIOUS
<1>1. ASSUME NEW c \in Clients, Serve(c) PROVE IInv'
  BY <1>1, CheckNameStep, InsertStep, ReadStep, WriteStep, DeleteStep DEF Serve
<1>2. ASSUME NEW s \in Consumers, Start(s) \/ Seed(s) \/ Crash(s) PROVE IInv'
  BY <1>2, StartStep, CheckBuiltinStep, FlushStep, CommitSeedStep, CrashStep DEF Seed
<1> QED BY <1>1, <1>2, AskStep, StutterStep DEF Next

THEOREM Invariance == Spec => []IInv
BY InitIInv, NextIInv, PTL DEF Spec

\* automations.py, models.py: rows and requests have the types of their
\* columns, ids stem from the sequence and are never reused.
THEOREM TypeCorrect == Spec => []TypeOK
BY Invariance, PTL DEF IInv

\* update_automation: a definition the validation rejects is one that an update
\* validated against outdated columns has left, or one that was seeded or found
\* like that, whatever the settings and the table at the start.
THEOREM InvalidOnlyByRace == Spec => []ValidUnlessRaced
BY Invariance, PTL DEF IInv

\* seed_builtin_automations: whatever other consumers and operators do, a
\* consumer that has seeded leaves no built-in automation out.
THEOREM Seeding == Spec => []SeedComplete
<1>1. IInv => SeedComplete
  BY DEF IInv, SeedersOK, ProgressOK, Seeded, SeedComplete
<1> QED BY <1>1, Invariance, PTL

-----------------------------------------------------------------------------
(* No update is lost, and the table implements AutomationTable. *)

\* A step adds rows, changes one, removes one or leaves the table alone.
LEMMA TableCases ==
  ASSUME IInv, IInv', [Next]_vars
  PROVE  \/ UNCHANGED <<table, ever>>
         \/ Table!Add
         \/ \E c \in Clients : /\ client[c].pc = "write" /\ Written(c)
                               /\ Table!Change(client[c].id)
         \/ \E i \in DOMAIN table : Table!Remove(i)
<1> USE DEF history
<1>0. /\ Table!NamesDiffer' /\ nextId \in Nat /\ DOMAIN table \subseteq ever
      /\ \A i \in ever : i < nextId
  BY DEF IInv, TypeOK, RowsOK
<1>1. ASSUME NEW c \in Clients, Insert(c)
      PROVE  UNCHANGED <<table, ever>> \/ Table!Add
  <2> DEFINE d == client[c].data
  <2>1. CASE table' = With(table, nextId, d) /\ ever' = ever \cup {nextId}
    <3>1. DOMAIN table' = DOMAIN table \cup {nextId}
      BY <2>1, WithDomain
    <3>2. \A i \in DOMAIN table : table'[i] = table[i]
      BY <2>1, WithOld
    <3>3. nextId \notin ever
      BY <1>0
    <3> QED BY <1>0, <2>1, <3>1, <3>2, <3>3 DEF Table!Add
  <2> QED BY <1>1, <2>1 DEF Insert
<1>2. ASSUME NEW s \in Consumers, CommitSeed(s)
      PROVE  Table!Add
  <2> DEFINE new == seeder[s].rows
  <2>1. table' = Joined(table, new) /\ ever' = ever \cup DOMAIN new
    BY <1>2 DEF CommitSeed
  <2>2. DOMAIN new \cap ever = {}
    BY OneSeeder
  <2> HIDE DEF new
  <2>3. DOMAIN table' = DOMAIN table \cup DOMAIN new
    BY <2>1, JoinedDomain
  <2>4. \A i \in DOMAIN table : table'[i] = table[i]
    BY <2>1, JoinedOld
  <2> QED BY <1>0, <2>1, <2>2, <2>3, <2>4 DEF Table!Add
<1>3. ASSUME NEW c \in Clients, Write(c)
      PROVE  \/ UNCHANGED <<table, ever>>
             \/ client[c].pc = "write" /\ Written(c) /\ Table!Change(client[c].id)
  <2>1. CASE Written(c)
    <3>1. Table!Change(client[c].id)
      BY <1>0, <2>1 DEF Written, Table!Change
    <3> QED BY <1>3, <2>1, <3>1, WriteCases
  <2> QED BY <1>3, <2>1, WriteCases
<1>4. ASSUME NEW c \in Clients, Delete(c)
      PROVE  UNCHANGED <<table, ever>> \/ \E i \in DOMAIN table : Table!Remove(i)
  <2> DEFINE i == client[c].id
  <2>1. CASE i \in DOMAIN table
    BY <1>4, <2>1 DEF Delete, Table!Remove
  <2>2. CASE i \notin DOMAIN table
    BY <1>4, <2>2 DEF Delete
  <2> QED BY <2>1, <2>2
<1>5. ASSUME NEW c \in Clients, CheckName(c) \/ Read(c)
      PROVE  UNCHANGED <<table, ever>>
  BY <1>5 DEF CheckName, Read
<1>6. ASSUME NEW c \in Clients,
             \/ \E d \in Creates : AskCreate(c, d)
             \/ \E i \in ever \cup {nextId}, d \in Updates : AskUpdate(c, i, d)
             \/ \E i \in ever \cup {nextId} : AskToggle(c, i) \/ AskDelete(c, i)
      PROVE  UNCHANGED <<table, ever>>
  BY <1>6 DEF AskCreate, AskUpdate, AskToggle, AskDelete, Ask
<1>7. ASSUME NEW s \in Consumers, Start(s) \/ CheckBuiltin(s) \/ Flush(s) \/ Crash(s)
      PROVE  UNCHANGED <<table, ever>>
  BY <1>7 DEF Start, CheckBuiltin, Flush, Crash
<1>8. CASE UNCHANGED vars
  BY <1>8 DEF vars
<1> QED BY <1>1, <1>2, <1>3, <1>4, <1>5, <1>6, <1>7, <1>8 DEF Next, Serve, Seed

\* update_automation, toggle_automation: a row changes only to the values a
\* request asked for, in the columns it named.
THEOREM NoLostUpdate == Spec => OnlyRequested
<1> DEFINE A == \A i \in DOMAIN table \cap DOMAIN table' :
                  table'[i] = table[i] \/
                    \E c \in Clients :
                      /\ client[c].pc = "write" /\ client[c].id = i
                      /\ \A f \in Fields : table'[i][f] # table[i][f] =>
                           f \in NonNull(client[c].data) /\ table'[i][f] = client[c].data[f]
<1>1. ASSUME NEW c \in Clients, client[c].pc = "write", Written(c) PROVE A
  <2> DEFINE i == client[c].id
             e == Assign(table[i], client[c].data, Dirty(c))
  <2>1. i \in DOMAIN table /\ table' = [table EXCEPT ![i] = e]
    BY <1>1 DEF Written
  <2>2. \A f \in Fields : e[f] # table[i][f] =>
          f \in NonNull(client[c].data) /\ e[f] = client[c].data[f]
    BY DEF Assign, Dirty
  <2> HIDE DEF e
  <2>3. table'[i] = e /\ \A j \in DOMAIN table \ {i} : table'[j] = table[j]
    BY <2>1
  <2>4. \A f \in Fields : table'[i][f] # table[i][f] =>
          f \in NonNull(client[c].data) /\ table'[i][f] = client[c].data[f]
    BY <2>2, <2>3
  <2>5. \A j \in DOMAIN table : table'[j] = table[j] \/ j = client[c].id
    BY <2>3
  <2> DEFINE Asked(j) ==
               \E x \in Clients :
                 /\ client[x].pc = "write" /\ client[x].id = j
                 /\ \A f \in Fields : table'[j][f] # table[j][f] =>
                      f \in NonNull(client[x].data) /\ table'[j][f] = client[x].data[f]
  <2>6. Asked(client[c].id)
    BY <1>1, <2>4
  <2> HIDE DEF Asked
  <2>7. \A j \in DOMAIN table : table'[j] = table[j] \/ Asked(j)
    BY <2>5, <2>6
  <2> QED BY <2>7 DEF Asked
<1>2. ASSUME Table!Add PROVE A
  BY <1>2 DEF Table!Add
<1>3. ASSUME NEW i \in DOMAIN table, Table!Remove(i) PROVE A
  BY <1>3 DEF Table!Remove
<1>4. ASSUME UNCHANGED table PROVE A
  BY <1>4
<1>5. IInv /\ IInv' /\ [Next]_vars => A
  BY <1>1, <1>2, <1>3, <1>4, TableCases
<1> HIDE DEF A
<1>6. IInv /\ IInv' /\ [Next]_vars => [A]_vars
  BY <1>5
<1>7. Spec => [][A]_vars
  BY <1>6, Invariance, PTL DEF Spec
<1> QED BY <1>7 DEF OnlyRequested, A

LEMMA RefinedInit == Init => Table!Init
BY DEF Init, Table!Init

LEMMA RefinedStep == IInv /\ IInv' /\ [Next]_vars => [Table!Next]_(Table!vars)
<1> SUFFICES ASSUME IInv, IInv', [Next]_vars
             PROVE  Table!Next \/ UNCHANGED Table!vars
  OBVIOUS
<1>1. ASSUME NEW c \in Clients, Written(c), Table!Change(client[c].id)
      PROVE  Table!Next
  BY <1>1 DEF Written, Table!Next
<1> QED BY <1>1, TableCases DEF Table!Next, Table!vars

\* The automations table, with concurrent requests and seeding transactions
\* that commit, fail or die, is what its readers rely on.
THEOREM ImplementsAutomationTable == Spec => ImplementsTable
BY RefinedInit, RefinedStep, Invariance, PTL DEF Spec, ImplementsTable, Table!Spec

-----------------------------------------------------------------------------
(* Seeding transactions that wait for each other's names. *)

\* The flush of s waits for the transaction of t.
SeederWaits(s, t) ==
  /\ seeder[s].pc = "flush" /\ t # s
  /\ Wanted(s).name \in NamesOf(seeder[t].rows)

Open(s) == seeder[s].pc \in {"check", "flush"}

\* Whoever is waited for is further down the list of built-ins.
SeedersWaitInOrder ==
  \A s, t \in Consumers :
    SeederWaits(s, t) => Open(t) /\ seeder[s].next < seeder[t].next

\* Of the open transactions, one that is as far as any waits for none.
SomeSeederMoves ==
  \A s \in Consumers : Open(s) =>
    \E t \in Consumers :
      /\ Open(t) /\ seeder[s].next <= seeder[t].next
      /\ \A u \in Consumers : ~ SeederWaits(t, u)

DifferByName(list) ==
  \A a, b \in 1 .. Len(list) : list[a].name = list[b].name => a = b

LEMMA ConcatDiffers ==
  ASSUME NEW S, NEW l \in Seq(S), NEW m \in Seq(S), DifferByName(l), DifferByName(m),
         \A a \in 1 .. Len(l) : \A b \in 1 .. Len(m) : l[a].name # m[b].name
  PROVE  l \o m \in Seq(S) /\ DifferByName(l \o m)
<1>1. /\ l \o m \in Seq(S) /\ Len(l) \in Nat /\ Len(m) \in Nat
      /\ Len(l \o m) = Len(l) + Len(m)
      /\ \A i \in 1 .. Len(l) : (l \o m)[i] = l[i]
      /\ \A i \in 1 .. Len(m) : (l \o m)[Len(l) + i] = m[i]
  BY ConcatProperties, LenProperties
<1> DEFINE c == l \o m
<1> HIDE DEF c
<1>2. \A i \in 1 .. Len(l) + Len(m) :
        \/ i \in 1 .. Len(l) /\ c[i] = l[i]
        \/ \E j \in 1 .. Len(m) : i = Len(l) + j /\ c[i] = m[j]
  <2> SUFFICES ASSUME NEW i \in 1 .. Len(l) + Len(m), i \notin 1 .. Len(l)
               PROVE  \E j \in 1 .. Len(m) : i = Len(l) + j /\ c[i] = m[j]
    BY <1>1 DEF c
  <2>1. i - Len(l) \in 1 .. Len(m) /\ i = Len(l) + (i - Len(l))
    BY <1>1
  <2> QED BY <1>1, <2>1 DEF c
<1>3. DifferByName(c)
  <2> SUFFICES ASSUME NEW i \in 1 .. Len(l) + Len(m), NEW j \in 1 .. Len(l) + Len(m),
                      c[i].name = c[j].name
               PROVE  i = j
    BY <1>1 DEF DifferByName, c
  <2>1. CASE i \in 1 .. Len(l) /\ c[i] = l[i] /\ j \in 1 .. Len(l) /\ c[j] = l[j]
    BY <2>1 DEF DifferByName
  <2>2. ASSUME NEW x \in 1 .. Len(m), i = Len(l) + x, c[i] = m[x],
               NEW y \in 1 .. Len(m), j = Len(l) + y, c[j] = m[y]
        PROVE  i = j
    BY <2>2 DEF DifferByName
  <2>3. ASSUME NEW x \in 1 .. Len(m), c[i] = m[x], j \in 1 .. Len(l), c[j] = l[j]
        PROVE  FALSE
    BY <2>3
  <2>4. ASSUME NEW y \in 1 .. Len(m), c[j] = m[y], i \in 1 .. Len(l), c[i] = l[i]
        PROVE  FALSE
    BY <2>4
  <2> QED BY <1>2, <2>1, <2>2, <2>3, <2>4
<1> QED BY <1>1, <1>3 DEF c

\* alerting_automations: no two built-ins have the same name.
LEMMA BuiltinsDiffer == DifferByName(Builtins)
<1> DEFINE t == EventAlert("alert-task-failed", "task-failed")
           o == EventAlert("alert-slow-task", "task-succeeded")
           w == EventAlert("alert-worker-offline", "worker-offline")
           p == Sweep
           S == {t, o, w, p}
           first == IF OnTaskFailed THEN <<t>> ELSE <<>>
           second == IF OnSlowTask THEN <<o>> ELSE <<>>
           third == IF OnOffline THEN <<w, p>> ELSE <<>>
<1>1. /\ t.name = "alert-task-failed" /\ o.name = "alert-slow-task"
      /\ w.name = "alert-worker-offline" /\ p.name = "alert-worker-offline-sweep"
  BY DEF EventAlert, Sweep
<1>2. Builtins = (first \o second) \o third
  BY DEF Builtins
<1>3. t \in S /\ o \in S /\ w \in S /\ p \in S
  OBVIOUS
<1> HIDE DEF t, o, w, p, S
<1>4. /\ first \in Seq(S) /\ DifferByName(first)
      /\ \A a \in 1 .. Len(first) : first[a].name = "alert-task-failed"
  BY <1>1, <1>3, SettingsAssumption DEF DifferByName
<1>5. /\ second \in Seq(S) /\ DifferByName(second)
      /\ \A a \in 1 .. Len(second) : second[a].name = "alert-slow-task"
  BY <1>1, <1>3, SettingsAssumption DEF DifferByName
<1>6. /\ third \in Seq(S) /\ DifferByName(third)
      /\ \A a \in 1 .. Len(third) :
           third[a].name \in {"alert-worker-offline", "alert-worker-offline-sweep"}
  <2>1. CASE ~ OnOffline
    BY <2>1 DEF DifferByName
  <2>2. CASE OnOffline
    <3>1. third = <<w, p>>
      BY <2>2
    <3> HIDE DEF third
    <3>2. Len(third) = 2 /\ third[1] = w /\ third[2] = p /\ third \in Seq(S)
      BY <1>3, <3>1
    <3>3. \A a \in 1 .. Len(third) : a = 1 \/ a = 2
      BY <3>2
    <3>4. w.name # p.name
      BY <1>1
    <3>5. DifferByName(third)
      BY <3>2, <3>3, <3>4 DEF DifferByName
    <3> QED BY <1>1, <3>2, <3>3, <3>5
  <2> QED BY <2>1, <2>2, SettingsAssumption
<1> HIDE DEF first, second, third
<1>7. first \o second \in Seq(S) /\ DifferByName(first \o second)
  BY <1>4, <1>5, ConcatDiffers
<1>8. \A a \in 1 .. Len(first \o second) :
        (first \o second)[a].name \in {"alert-task-failed", "alert-slow-task"}
  <2>1. /\ Len(first) \in Nat /\ Len(second) \in Nat
        /\ Len(first \o second) = Len(first) + Len(second)
        /\ \A i \in 1 .. Len(first) : (first \o second)[i] = first[i]
        /\ \A i \in 1 .. Len(second) : (first \o second)[Len(first) + i] = second[i]
    BY <1>4, <1>5, ConcatProperties, LenProperties
  <2> SUFFICES ASSUME NEW a \in 1 .. Len(first) + Len(second), a \notin 1 .. Len(first)
               PROVE  (first \o second)[a].name = "alert-slow-task"
    BY <1>4, <2>1
  <2>2. a - Len(first) \in 1 .. Len(second) /\ a = Len(first) + (a - Len(first))
    BY <2>1
  <2> QED BY <1>5, <2>1, <2>2
<1> QED BY <1>2, <1>6, <1>7, <1>8, ConcatDiffers

LEMMA WaitInOrder == IInv => SeedersWaitInOrder
<1> SUFFICES ASSUME IInv, NEW s \in Consumers, NEW t \in Consumers, SeederWaits(s, t)
             PROVE  Open(t) /\ seeder[s].next < seeder[t].next
  BY DEF SeedersWaitInOrder
<1>1. PICK i \in DOMAIN seeder[t].rows : seeder[t].rows[i].name = Wanted(s).name
  BY DEF SeederWaits, NamesOf
<1>2. SeederOK(seeder[s]) /\ SeederOK(seeder[t]) /\ FlushedOK(seeder[t])
  BY DEF IInv, TypeOK, SeedersOK
<1>3. Open(t)
  BY <1>1, <1>2 DEF SeederOK, FlushedOK, Open
<1>4. PICK b \in 1 .. seeder[t].next - 1 : seeder[t].rows[i] = Builtins[b]
  BY <1>1, <1>2 DEF SeederOK
<1>5. /\ seeder[s].next \in 1 .. Len(Builtins) /\ seeder[t].next \in Nat
      /\ b \in 1 .. Len(Builtins) /\ b < seeder[t].next
  BY <1>2, BuiltinsType DEF SeederOK, SeederWaits
<1>6. b = seeder[s].next
  BY <1>1, <1>4, <1>5, BuiltinsDiffer DEF DifferByName, Wanted
<1> QED BY <1>3, <1>5, <1>6

\* automations.py seed_alert_automations: consumers that start together insert
\* the built-ins in one order, so that their waits never close a circle.
THEOREM SeedersWaitUphill == Spec => []SeedersWaitInOrder
BY WaitInOrder, Invariance, PTL

LEMMA SmallestNumber ==
  ASSUME NEW T \in SUBSET Nat, T # {}
  PROVE  \E n \in T : \A m \in T : ~ (m < n)
<1> DEFINE R == {pair \in Nat \X Nat : pair[1] < pair[2]}
<1>1. IsWellFoundedOn(R, Nat)
  BY NatLessThanWellFounded, Zenon DEF OpToRel
<1>2. \A m, n \in Nat : m < n => <<m, n>> \in R
  OBVIOUS
<1> HIDE DEF R
<1>3. \E n \in T : \A m \in T : ~ (<<m, n>> \in R)
  BY <1>1, WFMin
<1> QED BY <1>2, <1>3

\* Of however many consumers that seed, one can always go on.
THEOREM SeedersNeverDeadlock == Spec => []SomeSeederMoves
<1>1. IInv => SomeSeederMoves
  <2> SUFFICES ASSUME IInv, NEW s \in Consumers, Open(s)
               PROVE  \E t \in Consumers :
                        /\ Open(t) /\ seeder[s].next <= seeder[t].next
                        /\ \A u \in Consumers : ~ SeederWaits(t, u)
    BY DEF SomeSeederMoves
  <2> DEFINE Left(t) == Len(Builtins) + 1 - seeder[t].next
             T == {Left(t) : t \in {u \in Consumers : Open(u)}}
  <2>1. \A t \in Consumers : seeder[t].next \in 1 .. Len(Builtins) + 1
    BY DEF IInv, TypeOK, SeederOK
  <2>2. T \in SUBSET Nat /\ T # {}
    BY <2>1, BuiltinsType
  <2> HIDE DEF T
  <2>3. PICK n \in T : \A m \in T : ~ (m < n)
    BY <2>2, SmallestNumber
  <2>4. PICK t \in Consumers : Open(t) /\ n = Left(t)
    BY DEF T
  <2>5. \A u \in Consumers : Open(u) => seeder[u].next <= seeder[t].next
    <3> SUFFICES ASSUME NEW u \in Consumers, Open(u)
                 PROVE  seeder[u].next <= seeder[t].next
      OBVIOUS
    <3>1. ~ (Left(u) < Left(t))
      BY <2>3, <2>4 DEF T
    <3> QED BY <2>1, <3>1, BuiltinsType
  <2>6. ASSUME NEW u \in Consumers, SeederWaits(t, u) PROVE FALSE
    <3>1. Open(u) /\ seeder[t].next < seeder[u].next
      BY <2>6, WaitInOrder DEF SeedersWaitInOrder
    <3> QED BY <2>1, <2>5, <3>1
  <2> QED BY <2>4, <2>5, <2>6
<1> QED BY <1>1, Invariance, PTL
=============================================================================
