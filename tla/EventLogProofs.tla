--------------------------- MODULE EventLogProofs ---------------------------
(***************************************************************************)
(* EventLog for every set of events, handlers and pruners and every bound: *)
(* type correctness, OneRowPerKey, NoSilentDrop, PruneKeepsCurrent, and    *)
(* the refinement of RetainedLog.  All rest on the inductive invariant     *)
(* IInv below.  PassIsComplete, which needs that passes do not overlap, is *)
(* proved by an invariant of its own, PruneInv.  The last section is about *)
(* the handlers that wait for each other's keys: how long a wait can be,   *)
(* what ends it, and what a handler that has ended leaves behind.          *)
(***************************************************************************)
EXTENDS EventLog, FiniteSetTheorems, WellFoundedInduction, TLAPS

Held == rows \cup Written

\* Ids come from one sequence and are never given twice.
UniqueIds ==
  /\ \A r \in Held : r.id < nextId
  /\ \A r, q \in Held : r.id = q.id => r = q

\* A transaction writes at most one row.
OneRowEach == \A h \in Handlers : \A r, q \in handler[h].wrote : r = q

\* A row takes the time of a keyed event from the event, as its handler did.
RowTimes == \A r \in Held : Keyed(r.event) => r.ts = r.event.ts
HandlerTimes ==
  \A h \in Handlers :
    handler[h].pc # "idle" /\ Keyed(handler[h].event)
      => handler[h].ts = handler[h].event.ts

\* What a pass is about to delete is outside the retention window.
PassesAreOld ==
  \A p \in Pruners :
    /\ pruner[p].pc # "idle" => pruner[p].cutoff <= now - Retention
    /\ pruner[p].pc # "idle" => \A r \in pruner[p].batch : r.ts < pruner[p].cutoff
    /\ pruner[p].pc = "idle" => pruner[p].batch = {}

IInv ==
  /\ TypeOK
  /\ OneRowPerKey
  /\ UniqueIds
  /\ OneRowEach
  /\ RowTimes
  /\ HandlerTimes
  /\ PassesAreOld
  /\ NoSilentDrop

-----------------------------------------------------------------------------
(* Facts about the operators. *)

\* Two keyed events with the same key have the same timestamp.
LEMMA SameKeyTime ==
  ASSUME NEW e, NEW f, SameKey(e, f)
  PROVE  e.ts = f.ts /\ Keyed(e) /\ Keyed(f)
BY DEF SameKey, DedupeKey, Keyed

LEMMA SameKeySym ==
  ASSUME NEW e, NEW f, SameKey(e, f)
  PROVE  SameKey(f, e)
BY DEF SameKey, DedupeKey, Keyed

LEMMA SameKeyTrans ==
  ASSUME NEW e, NEW f, NEW g, SameKey(e, f), SameKey(f, g)
  PROVE  SameKey(e, g)
BY DEF SameKey, DedupeKey, Keyed

\* What the type invariant says of one handler, one pass and one row.
LEMMA HandlerType ==
  ASSUME TypeOK, NEW h \in Handlers
  PROVE  /\ handler[h].wrote \in SUBSET Row
         /\ handler[h].ts \in Int
         /\ handler[h].pc # "idle" => handler[h].event \in Event
         /\ handler[h].pc # "commit" => handler[h].wrote = {}
BY DEF TypeOK, HandlerOK, HandlerState, Time

LEMMA PassType ==
  ASSUME TypeOK, NEW p \in Pruners
  PROVE  pruner[p].cutoff \in Int /\ pruner[p].table \in Tables
BY DEF TypeOK, PassState

LEMMA HeldType ==
  ASSUME TypeOK
  PROVE  /\ Held \subseteq Row
         /\ \A r \in Held : r.ts \in Int /\ r.id \in Nat
         /\ rows \subseteq Held
<1>1. Written \subseteq Row
  BY HandlerType DEF Written
<1>2. Held \subseteq Row
  BY <1>1 DEF Held, TypeOK
<1> QED BY <1>2 DEF Held, Row, Time

LEMMA ClockType ==
  ASSUME TypeOK
  PROVE  now \in Int /\ nextId \in Nat /\ Retention \in Int
BY RetentionAssumption DEF TypeOK

\* A new row is a row.
LEMMA NewRowType ==
  ASSUME TypeOK, NEW h \in Handlers, handler[h].pc = "insert"
  PROVE  NewRow(h) \in Row
<1>1. handler[h].event \in Event
  BY HandlerType
<1>2. handler[h].event.table \in Tables
  BY <1>1, EventAssumption
<1>3. handler[h].ts \in Time /\ nextId \in Nat
  BY DEF TypeOK, HandlerState
<1> QED BY <1>1, <1>2, <1>3 DEF NewRow, Row

LEMMA IdleStates == HandlerOK(IdleHandler) /\ IdlePruner \in PassState
BY DEF HandlerOK, HandlerState, PassState, IdleHandler, IdlePruner, Tables, Time

LEMMA AfterBatchType ==
  ASSUME TypeOK, NEW p \in Pruners, NEW deleted
  PROVE  /\ AfterBatch(pruner[p], deleted) \in PassState
         /\ AfterBatch(pruner[p], deleted).batch = {}
         /\ \/ AfterBatch(pruner[p], deleted).pc = "idle"
            \/ AfterBatch(pruner[p], deleted).cutoff = pruner[p].cutoff
<1>1. /\ pruner[p].cutoff \in Int
      /\ pruner[p].table \in Tables
  BY DEF TypeOK, PassState
<1>2. TableGoesOn(deleted) \in BOOLEAN
  BY DEF TableGoesOn
<1> HIDE DEF TableGoesOn
<1>3. \/ AfterBatch(pruner[p], deleted) =
           NextBatch(pruner[p], pruner[p].table)
      \/ AfterBatch(pruner[p], deleted) =
           NextBatch(pruner[p], "worker_events")
      \/ AfterBatch(pruner[p], deleted) = IdlePruner
  BY <1>2 DEF AfterBatch
<1> QED BY <1>1, <1>3 DEF NextBatch, IdlePruner, Tables, PassState

-----------------------------------------------------------------------------
(* Type correctness: one coroutine, or one pass, moves at a time. *)

LEMMA InitTypeOK == Init => TypeOK
BY IdleStates DEF Init, TypeOK, HandlerOK

LEMMA HandlerMoves ==
  ASSUME TypeOK, NEW h \in Handlers, NEW new,
         HandlerOK(new), handler' = [handler EXCEPT ![h] = new],
         rows' \in SUBSET Row, pruner' = pruner, due' = due,
         nextId' \in Nat, now' = now, delivered' \in Nat, faults' \in Nat
  PROVE  TypeOK'
<1>1. /\ new \in HandlerState
      /\ handler \in [Handlers -> HandlerState]
      /\ \A g \in Handlers : HandlerOK(handler[g])
  BY DEF TypeOK, HandlerOK
<1>2. /\ handler' \in [Handlers -> HandlerState]
      /\ \A g \in Handlers : handler'[g] = IF g = h THEN new ELSE handler[g]
  BY <1>1
<1>3. \A g \in Handlers : HandlerOK(handler'[g])
  BY <1>1, <1>2
<1> QED BY <1>2, <1>3 DEF TypeOK

LEMMA PassMoves ==
  ASSUME TypeOK, NEW p \in Pruners, NEW new \in PassState,
         pruner' = [pruner EXCEPT ![p] = new],
         rows' \in SUBSET Row, handler' = handler, due' \in [Pruners -> SUBSET Row],
         nextId' = nextId, now' = now, delivered' = delivered, faults' = faults
  PROVE  TypeOK'
<1>1. pruner' \in [Pruners -> PassState]
  BY DEF TypeOK
<1> QED BY <1>1 DEF TypeOK

LEMMA StepTypeOK == TypeOK /\ [Next]_vars => TypeOK'
<1> SUFFICES ASSUME TypeOK, [Next]_vars PROVE TypeOK'
  OBVIOUS
<1>1. ASSUME NEW h \in Handlers, NEW e \in Event, Deliver(h, e)
      PROVE  TypeOK'
  <2> DEFINE new == [pc |-> "insert", event |-> e,
                     ts |-> IF Keyed(e) THEN e.ts ELSE now, wrote |-> {}]
  <2>1. now \in Time /\ (Keyed(e) => e.ts \in Time)
    BY EventAssumption DEF TypeOK, Time, Keyed
  <2>2. HandlerOK(new)
    BY <2>1 DEF HandlerOK, HandlerState
  <2>3. /\ handler' = [handler EXCEPT ![h] = new]
        /\ delivered' \in Nat /\ rows' \in SUBSET Row
        /\ nextId' \in Nat /\ faults' \in Nat
        /\ pruner' = pruner /\ due' = due /\ now' = now
    BY <1>1 DEF Deliver, TypeOK
  <2> HIDE DEF new
  <2> QED BY <2>2, <2>3, HandlerMoves
<1>2. ASSUME NEW h \in Handlers, Insert(h)
      PROVE  TypeOK'
  <2> DEFINE W == IF KeyStored(handler[h].event) THEN {} ELSE {NewRow(h)}
             new == [handler[h] EXCEPT !.pc = "commit", !.wrote = W]
  <2>1. W \in SUBSET Row
    BY <1>2, NewRowType DEF Insert
  <2>2. /\ handler' = [handler EXCEPT ![h] = new]
        /\ handler[h].pc = "insert"
        /\ pruner' = pruner /\ due' = due /\ now' = now
    BY <1>2 DEF Insert
  <2>5. /\ rows' = rows /\ nextId' = nextId + 1
        /\ delivered' = delivered /\ faults' = faults
    BY <1>2 DEF Insert
  <2>6. /\ delivered' \in Nat /\ rows' \in SUBSET Row
        /\ nextId' \in Nat /\ faults' \in Nat
    BY <2>5 DEF TypeOK
  <2> HIDE DEF W
  <2>3. HandlerOK(handler[h])
    BY DEF TypeOK
  <2>4. HandlerOK(new)
    BY <2>1, <2>2, <2>3 DEF HandlerOK, HandlerState
  <2> HIDE DEF new
  <2> QED BY <2>2, <2>4, <2>6, HandlerMoves
<1>3. ASSUME NEW h \in Handlers, Commit(h)
      PROVE  TypeOK'
  <2>1. handler[h].wrote \in SUBSET Row
    BY DEF TypeOK, HandlerState
  <2>2. /\ handler' = [handler EXCEPT ![h] = IdleHandler]
        /\ rows' \in SUBSET Row
        /\ delivered' \in Nat /\ nextId' \in Nat /\ faults' \in Nat
        /\ pruner' = pruner /\ due' = due /\ now' = now
    BY <1>3, <2>1 DEF Commit, TypeOK
  <2> QED BY <2>2, IdleStates, HandlerMoves
<1>4. ASSUME NEW h \in Handlers, Fail(h)
      PROVE  TypeOK'
  <2>1. /\ handler' = [handler EXCEPT ![h] = IdleHandler]
        /\ rows' \in SUBSET Row
        /\ delivered' \in Nat /\ nextId' \in Nat /\ faults' \in Nat
        /\ pruner' = pruner /\ due' = due /\ now' = now
    BY <1>4 DEF Fail, TypeOK
  <2> QED BY <2>1, IdleStates, HandlerMoves
<1>5. ASSUME NEW p \in Pruners, StartPrune(p)
      PROVE  TypeOK'
  <2> DEFINE new == [pc |-> "select", cutoff |-> Cutoff,
                     table |-> "task_events", batch |-> {}]
  <2>1. new \in PassState
    BY RetentionAssumption DEF TypeOK, PassState, Cutoff, Tables
  <2>2. due' \in [Pruners -> SUBSET Row]
    BY <1>5 DEF StartPrune, TypeOK
  <2>3. /\ pruner' = [pruner EXCEPT ![p] = new]
        /\ rows' = rows /\ handler' = handler /\ nextId' = nextId
        /\ now' = now /\ delivered' = delivered /\ faults' = faults
    BY <1>5 DEF StartPrune
  <2>4. rows' \in SUBSET Row
    BY <2>3 DEF TypeOK
  <2> HIDE DEF new
  <2> QED BY <2>1, <2>2, <2>3, <2>4, PassMoves
<1>6. ASSUME NEW p \in Pruners, SelectBatch(p)
      PROVE  TypeOK'
  <2> DEFINE B == FirstBatch(Expired(pruner[p].table, pruner[p].cutoff))
             new == [pruner[p] EXCEPT !.pc = "delete", !.batch = B]
  <2>1. B \in SUBSET Row
    BY DEF FirstBatch, Expired, TypeOK
  <2>2. /\ pruner' = [pruner EXCEPT ![p] = new]
        /\ rows' \in SUBSET Row /\ due' \in [Pruners -> SUBSET Row]
        /\ handler' = handler /\ nextId' = nextId
        /\ now' = now /\ delivered' = delivered /\ faults' = faults
    BY <1>6 DEF SelectBatch, TypeOK
  <2> HIDE DEF B
  <2>3. new \in PassState
    BY <2>1 DEF TypeOK, PassState
  <2> HIDE DEF new
  <2> QED BY <2>2, <2>3, PassMoves
<1>7. ASSUME NEW p \in Pruners, DeleteBatch(p)
      PROVE  TypeOK'
  <2> DEFINE gone == pruner[p].batch \cap rows
  <2>1. AfterBatch(pruner[p], gone) \in PassState
    BY AfterBatchType
  <2>2. /\ pruner' = [pruner EXCEPT ![p] = AfterBatch(pruner[p], gone)]
        /\ rows' \in SUBSET Row /\ due' \in [Pruners -> SUBSET Row]
        /\ handler' = handler /\ nextId' = nextId
        /\ now' = now /\ delivered' = delivered /\ faults' = faults
    BY <1>7 DEF DeleteBatch, TypeOK
  <2> QED BY <2>1, <2>2, PassMoves
<1>8. CASE Crash
  <2>1. /\ handler' \in [Handlers -> HandlerState]
        /\ \A h \in Handlers : HandlerOK(handler'[h])
        /\ pruner' \in [Pruners -> PassState]
    BY <1>8, IdleStates DEF Crash, HandlerOK
  <2> QED BY <1>8, <2>1 DEF Crash, TypeOK
<1>9. CASE Tick
  BY <1>9 DEF TypeOK, Tick
<1>10. CASE UNCHANGED vars
  BY <1>10 DEF TypeOK, vars
<1> QED
  BY <1>1, <1>2, <1>3, <1>4, <1>5, <1>6, <1>7, <1>8, <1>9, <1>10 DEF Next

\* EventLog is well typed, and an open transaction holds a row only between
\* its INSERT and its commit (handlers.py insert_event).
THEOREM TypeCorrect == Spec => []TypeOK
BY InitTypeOK, StepTypeOK, PTL DEF Spec

-----------------------------------------------------------------------------
(* The inductive invariant. *)

\* What holds of the rows of any set of rows holds of fewer rows.
LEMMA FewerRows ==
  ASSUME OneRowPerKey, UniqueIds, RowTimes,
         Held' \subseteq Held, nextId' = nextId
  PROVE  OneRowPerKey' /\ UniqueIds' /\ RowTimes'
<1>1. OneRowPerKey'
  BY DEF OneRowPerKey, Held
<1>2. UniqueIds'
  BY DEF UniqueIds
<1>3. RowTimes'
  BY DEF RowTimes
<1> QED BY <1>1, <1>2, <1>3

LEMMA InitIInv == Init => IInv
<1> SUFFICES ASSUME Init PROVE IInv
  OBVIOUS
<1>1. TypeOK
  BY InitTypeOK
<1>2. Held = {}
  BY DEF Init, Held, Written, IdleHandler
<1>3. OneRowPerKey /\ UniqueIds /\ RowTimes
  BY <1>2 DEF OneRowPerKey, UniqueIds, RowTimes, Held
<1>4. OneRowEach /\ HandlerTimes /\ NoSilentDrop
  BY DEF Init, OneRowEach, HandlerTimes, NoSilentDrop, IdleHandler
<1>5. PassesAreOld
  BY DEF Init, PassesAreOld, IdlePruner
<1> QED BY <1>1, <1>3, <1>4, <1>5 DEF IInv

LEMMA DeliverStep ==
  ASSUME IInv, TypeOK', NEW h \in Handlers, NEW e \in Event, Deliver(h, e)
  PROVE  IInv'
<1> USE DEF IInv
<1> DEFINE new == [pc |-> "insert", event |-> e,
                   ts |-> IF Keyed(e) THEN e.ts ELSE now, wrote |-> {}]
<1>1. /\ handler' = [handler EXCEPT ![h] = new]
      /\ handler[h].pc = "idle"
      /\ rows' = rows /\ pruner' = pruner /\ nextId' = nextId /\ now' = now
  BY DEF Deliver
<1>2. /\ handler'[h] = new
      /\ \A g \in Handlers \ {h} : handler'[g] = handler[g]
  BY <1>1 DEF TypeOK
<1>3. Held' \subseteq Held
  BY <1>1, <1>2 DEF Held, Written
<1>4. OneRowPerKey' /\ UniqueIds' /\ RowTimes'
  BY <1>1, <1>3, FewerRows
<1>5. OneRowEach' /\ HandlerTimes'
  BY <1>2 DEF OneRowEach, HandlerTimes
<1>6. NoSilentDrop'
  BY <1>1, <1>2 DEF NoSilentDrop, KeyStored
<1>7. PassesAreOld'
  BY <1>1 DEF PassesAreOld
<1> QED BY <1>4, <1>5, <1>6, <1>7

LEMMA InsertStep ==
  ASSUME IInv, TypeOK', NEW h \in Handlers, Insert(h)
  PROVE  IInv'
<1> USE DEF IInv
<1> DEFINE ev == handler[h].event
           W == IF KeyStored(ev) THEN {} ELSE {NewRow(h)}
<1>1. /\ handler' = [handler EXCEPT ![h].pc = "commit", ![h].wrote = W]
      /\ handler[h].pc = "insert" /\ ~ KeyLocked(h, ev)
      /\ rows' = rows /\ pruner' = pruner /\ nextId' = nextId + 1 /\ now' = now
  BY DEF Insert
<1>2. /\ handler'[h].pc = "commit" /\ handler'[h].wrote = W
      /\ handler'[h].event = ev /\ handler'[h].ts = handler[h].ts
      /\ \A g \in Handlers \ {h} : handler'[g] = handler[g]
  BY <1>1 DEF TypeOK
<1>3. handler[h].wrote = {}
  BY <1>1, HandlerType
<1>5. \A w \in W : w = NewRow(h) /\ ~ KeyStored(ev)
  OBVIOUS
<1>4. Held' = Held \cup W
  <2> HIDE DEF W
  <2>1. Written' \subseteq Written \cup W
    BY <1>2 DEF Written
  <2>2. W \subseteq Written'
    BY <1>2 DEF Written
  <2>3. Written \subseteq Written'
    BY <1>2, <1>3 DEF Written
  <2> QED BY <1>1, <2>1, <2>2, <2>3 DEF Held
<1>6. /\ NewRow(h).event = ev /\ NewRow(h).id = nextId
      /\ NewRow(h).ts = handler[h].ts
  BY DEF NewRow
<1>7. nextId \in Nat /\ \A r \in Held : r.id \in Nat
  BY ClockType, HeldType
<1>8. ASSUME ~ KeyStored(ev), NEW q \in Held
      PROVE  ~ SameKey(ev, q.event)
  <2>1. CASE q \in rows
    BY <1>8, <2>1 DEF KeyStored
  <2>2. CASE q \in Written
    <3>1. PICK g \in Handlers : q \in handler[g].wrote
      BY <2>2 DEF Written
    <3>2. g # h
      BY <3>1, <1>3
    <3> QED BY <1>1, <3>1, <3>2 DEF KeyLocked
  <2> QED BY <2>1, <2>2 DEF Held
<1> HIDE DEF W
<1>9. OneRowPerKey'
  <2> SUFFICES ASSUME NEW r \in Held', NEW q \in Held', Conflicts(r, q)
               PROVE  r = q
    BY DEF OneRowPerKey, Held
  <2>1. CASE r \in Held /\ q \in Held
    BY <2>1 DEF OneRowPerKey, Held
  <2>2. CASE r \in W /\ q \in Held
    BY <2>2, <1>5, <1>6, <1>8 DEF Conflicts
  <2>3. CASE r \in Held /\ q \in W
    BY <2>3, <1>5, <1>6, <1>8, SameKeySym DEF Conflicts
  <2>4. CASE r \in W /\ q \in W
    BY <2>4, <1>5
  <2> QED BY <1>4, <2>1, <2>2, <2>3, <2>4
<1>10. UniqueIds'
  BY <1>1, <1>4, <1>5, <1>6, <1>7 DEF UniqueIds
<1>11. RowTimes'
  <2>1. Keyed(ev) => handler[h].ts = ev.ts
    BY <1>1 DEF HandlerTimes
  <2> QED BY <2>1, <1>4, <1>5, <1>6 DEF RowTimes
<1>12. OneRowEach' /\ HandlerTimes'
  <2>1. OneRowEach'
    BY <1>2, <1>5 DEF OneRowEach
  <2>2. HandlerTimes'
    BY <1>1, <1>2 DEF HandlerTimes
  <2> QED BY <2>1, <2>2
<1>13. NoSilentDrop'
  <2>1. W = {} => KeyStored(ev)
    BY DEF W
  <2> QED BY <1>1, <1>2, <2>1 DEF NoSilentDrop, KeyStored
<1>14. PassesAreOld'
  BY <1>1 DEF PassesAreOld
<1> QED BY <1>9, <1>10, <1>11, <1>12, <1>13, <1>14

\* A handler that goes idle, whether it commits or rolls back.
LEMMA CommitStep ==
  ASSUME IInv, TypeOK', NEW h \in Handlers, Commit(h)
  PROVE  IInv'
<1> USE DEF IInv
<1>1. /\ handler' = [handler EXCEPT ![h] = IdleHandler]
      /\ rows' = rows \cup handler[h].wrote
      /\ pruner' = pruner /\ nextId' = nextId /\ now' = now
  BY DEF Commit
<1>2. /\ handler'[h].pc = "idle" /\ handler'[h].wrote = {}
      /\ \A g \in Handlers \ {h} : handler'[g] = handler[g]
  BY <1>1 DEF TypeOK, IdleHandler
<1>3. Held' \subseteq Held
  BY <1>1, <1>2 DEF Held, Written
<1>4. OneRowPerKey' /\ UniqueIds' /\ RowTimes'
  BY <1>1, <1>3, FewerRows
<1>5. OneRowEach' /\ HandlerTimes'
  BY <1>2 DEF OneRowEach, HandlerTimes
<1>6. NoSilentDrop'
  BY <1>1, <1>2 DEF NoSilentDrop, KeyStored
<1>7. PassesAreOld'
  BY <1>1 DEF PassesAreOld
<1> QED BY <1>4, <1>5, <1>6, <1>7

LEMMA FailStep ==
  ASSUME IInv, TypeOK', NEW h \in Handlers, Fail(h)
  PROVE  IInv'
<1> USE DEF IInv
<1>1. /\ handler' = [handler EXCEPT ![h] = IdleHandler]
      /\ rows' = rows /\ pruner' = pruner /\ nextId' = nextId /\ now' = now
  BY DEF Fail
<1>2. /\ handler'[h].pc = "idle" /\ handler'[h].wrote = {}
      /\ \A g \in Handlers \ {h} : handler'[g] = handler[g]
  BY <1>1 DEF TypeOK, IdleHandler
<1>3. Held' \subseteq Held
  BY <1>1, <1>2 DEF Held, Written
<1>4. OneRowPerKey' /\ UniqueIds' /\ RowTimes'
  BY <1>1, <1>3, FewerRows
<1>5. OneRowEach' /\ HandlerTimes'
  BY <1>2 DEF OneRowEach, HandlerTimes
<1>6. NoSilentDrop'
  BY <1>1, <1>2 DEF NoSilentDrop, KeyStored
<1>7. PassesAreOld'
  BY <1>1 DEF PassesAreOld
<1> QED BY <1>4, <1>5, <1>6, <1>7

LEMMA StartPruneStep ==
  ASSUME IInv, TypeOK', NEW p \in Pruners, StartPrune(p)
  PROVE  IInv'
<1> USE DEF IInv
<1>1. /\ pruner' = [pruner EXCEPT ![p] = [pc |-> "select", cutoff |-> Cutoff,
                                         table |-> "task_events", batch |-> {}]]
      /\ rows' = rows /\ handler' = handler /\ nextId' = nextId /\ now' = now
  BY DEF StartPrune
<1>2. PassesAreOld'
  BY <1>1, RetentionAssumption DEF PassesAreOld, TypeOK, Cutoff
<1>3. Held' = Held
  BY <1>1 DEF Held, Written
<1>4. OneRowPerKey' /\ UniqueIds' /\ RowTimes'
  BY <1>1, <1>3, FewerRows
<1>5. OneRowEach' /\ HandlerTimes' /\ NoSilentDrop'
  BY <1>1 DEF OneRowEach, HandlerTimes, NoSilentDrop, KeyStored
<1> QED BY <1>2, <1>4, <1>5

LEMMA SelectBatchStep ==
  ASSUME IInv, TypeOK', NEW p \in Pruners, SelectBatch(p)
  PROVE  IInv'
<1> USE DEF IInv
<1> DEFINE B == FirstBatch(Expired(pruner[p].table, pruner[p].cutoff))
<1>1. /\ pruner' = [pruner EXCEPT ![p].pc = "delete", ![p].batch = B]
      /\ pruner[p].pc = "select"
      /\ rows' = rows /\ handler' = handler /\ nextId' = nextId /\ now' = now
  BY DEF SelectBatch
<1>2. \A r \in B : r.ts < pruner[p].cutoff
  BY DEF FirstBatch, Expired
<1> HIDE DEF B
<1>3. /\ pruner'[p].pc = "delete" /\ pruner'[p].batch = B
      /\ pruner'[p].cutoff = pruner[p].cutoff
      /\ \A o \in Pruners \ {p} : pruner'[o] = pruner[o]
  BY <1>1 DEF TypeOK
<1>4. PassesAreOld'
  BY <1>1, <1>2, <1>3 DEF PassesAreOld
<1>5. Held' = Held
  BY <1>1 DEF Held, Written
<1>6. OneRowPerKey' /\ UniqueIds' /\ RowTimes'
  BY <1>1, <1>5, FewerRows
<1>7. OneRowEach' /\ HandlerTimes' /\ NoSilentDrop'
  BY <1>1 DEF OneRowEach, HandlerTimes, NoSilentDrop, KeyStored
<1> QED BY <1>4, <1>6, <1>7

\* A deleted row is outside the retention window.
LEMMA DeletedIsOld ==
  ASSUME TypeOK, PassesAreOld, NEW p \in Pruners, DeleteBatch(p),
         NEW r \in rows \ rows'
  PROVE  r.ts < now - Retention
<1>1. r \in pruner[p].batch /\ pruner[p].pc = "delete" /\ r \in Row
  BY DEF DeleteBatch, TypeOK
<1>2. r.ts < pruner[p].cutoff /\ pruner[p].cutoff <= now - Retention
  BY <1>1 DEF PassesAreOld
<1>3. r.ts \in Int /\ pruner[p].cutoff \in Int /\ now \in Int /\ Retention \in Int
  BY ClockType, PassType, HeldType
<1> QED BY <1>2, <1>3

LEMMA DeleteBatchStep ==
  ASSUME IInv, TypeOK', NEW p \in Pruners, DeleteBatch(p)
  PROVE  IInv'
<1> USE DEF IInv
<1> DEFINE gone == pruner[p].batch \cap rows
           after == AfterBatch(pruner[p], gone)
<1>1. /\ pruner' = [pruner EXCEPT ![p] = after]
      /\ pruner[p].pc = "delete"
      /\ rows' = rows \ gone
      /\ handler' = handler /\ nextId' = nextId /\ now' = now
  BY DEF DeleteBatch
<1>2. after.batch = {} /\ (after.pc = "idle" \/ after.cutoff = pruner[p].cutoff)
  BY AfterBatchType
<1> HIDE DEF after
<1>3. /\ pruner'[p] = after
      /\ \A o \in Pruners \ {p} : pruner'[o] = pruner[o]
  BY <1>1 DEF TypeOK
<1>4. PassesAreOld'
  BY <1>1, <1>2, <1>3 DEF PassesAreOld
<1>5. Held' \subseteq Held
  BY <1>1 DEF Held, Written
<1>6. OneRowPerKey' /\ UniqueIds' /\ RowTimes'
  BY <1>1, <1>5, FewerRows
<1>7. OneRowEach' /\ HandlerTimes'
  BY <1>1 DEF OneRowEach, HandlerTimes
<1>8. NoSilentDrop'
  <2> SUFFICES ASSUME NEW h \in Handlers,
                      handler[h].pc = "commit", handler[h].wrote = {},
                      ~ KeyStored(handler[h].event)'
               PROVE  handler[h].ts < now - Retention
    BY <1>1 DEF NoSilentDrop
  <2>1. CASE ~ KeyStored(handler[h].event)
    BY <2>1 DEF NoSilentDrop
  <2>2. CASE KeyStored(handler[h].event)
    <3>1. PICK q \in rows : SameKey(handler[h].event, q.event)
      BY <2>2 DEF KeyStored
    <3>2. q \notin rows'
      BY <3>1, <1>1 DEF KeyStored
    <3>3. q.ts < now - Retention
      BY <3>1, <3>2, DeletedIsOld
    <3>4. q.ts = q.event.ts /\ handler[h].ts = handler[h].event.ts
      BY <3>1, SameKeyTime DEF RowTimes, HandlerTimes, Held
    <3>5. handler[h].event.ts = q.event.ts
      BY <3>1, SameKeyTime
    <3> QED BY <3>3, <3>4, <3>5
  <2> QED BY <2>1, <2>2
<1> QED BY <1>4, <1>6, <1>7, <1>8

LEMMA CrashStep ==
  ASSUME IInv, TypeOK', Crash
  PROVE  IInv'
<1> USE DEF IInv
<1>1. /\ \A h \in Handlers : handler'[h] = IdleHandler
      /\ \A p \in Pruners : pruner'[p] = IdlePruner
      /\ rows' = rows /\ nextId' = nextId /\ now' = now
  BY DEF Crash
<1>2. Held' \subseteq Held
  BY <1>1 DEF Held, Written, IdleHandler
<1>3. OneRowPerKey' /\ UniqueIds' /\ RowTimes'
  BY <1>1, <1>2, FewerRows
<1>4. OneRowEach' /\ HandlerTimes' /\ NoSilentDrop'
  BY <1>1 DEF OneRowEach, HandlerTimes, NoSilentDrop, IdleHandler
<1>5. PassesAreOld'
  BY <1>1 DEF PassesAreOld, IdlePruner
<1> QED BY <1>3, <1>4, <1>5

LEMMA TickStep ==
  ASSUME IInv, TypeOK', Tick
  PROVE  IInv'
<1> USE DEF IInv
<1>1. /\ rows' = rows /\ handler' = handler /\ pruner' = pruner
      /\ nextId' = nextId /\ now' = now + 1
  BY DEF Tick
<1>2. Held' = Held
  BY <1>1 DEF Held, Written
<1>3. OneRowPerKey' /\ UniqueIds' /\ RowTimes'
  BY <1>1, <1>2, FewerRows
<1>4. OneRowEach' /\ HandlerTimes'
  BY <1>1 DEF OneRowEach, HandlerTimes
<1>5. NoSilentDrop'
  BY <1>1, ClockType, HandlerType DEF NoSilentDrop, KeyStored
<1>6. PassesAreOld'
  BY <1>1, ClockType, PassType DEF PassesAreOld
<1> QED BY <1>3, <1>4, <1>5, <1>6

LEMMA StepIInv == IInv /\ [Next]_vars => IInv'
<1> SUFFICES ASSUME IInv, [Next]_vars PROVE IInv'
  OBVIOUS
<1>1. TypeOK'
  BY StepTypeOK DEF IInv
<1>2. CASE UNCHANGED vars
  <2>1. /\ rows' = rows /\ handler' = handler /\ pruner' = pruner
        /\ nextId' = nextId /\ now' = now
    BY <1>2 DEF vars
  <2> QED BY <1>1, <2>1 DEF IInv, OneRowPerKey, UniqueIds, OneRowEach, RowTimes,
             HandlerTimes, PassesAreOld, NoSilentDrop, KeyStored, Held, Written
<1> QED
  BY <1>1, <1>2, DeliverStep, InsertStep, CommitStep, FailStep, StartPruneStep,
     SelectBatchStep, DeleteBatchStep, CrashStep, TickStep DEF Next

LEMMA Invariance == Spec => []IInv
BY InitIInv, StepIInv, PTL DEF Spec

-----------------------------------------------------------------------------
(* Main results. *)

\* handlers.py insert_event: redelivery, interleaving and rollback never give
\* one keyed event two rows.
THEOREM UniqueKeys == Spec => []OneRowPerKey
<1>1. IInv => OneRowPerKey
  BY DEF IInv
<1> QED BY <1>1, Invariance, PTL

\* handlers.py insert_event: ON CONFLICT DO NOTHING never drops an event that
\* is stored nowhere, even when the transaction it waited for rolls back.
THEOREM NothingDropped == Spec => []NoSilentDrop
<1>1. IInv => NoSilentDrop
  BY DEF IInv
<1> QED BY <1>1, Invariance, PTL

\* A batch that deletes no live row leaves the latest row of a subject with a
\* live row where it is.
LEMMA LiveRowDecides ==
  ASSUME TypeOK, NEW p \in Pruners, DeleteBatch(p), PassesAreOld,
         NEW s, NEW live \in RowsOf(s), live.ts >= now - Retention
  PROVE  Current(s)' = Current(s)
<1> DEFINE gone(r) == r \in RowsOf(s) /\ r \notin RowsOf(s)'
<1>1. RowsOf(s)' \subseteq RowsOf(s)
  BY DEF RowsOf, DeleteBatch
<1>2. \A r \in RowsOf(s) :
        r.ts \in Int /\ r.id \in Int /\ now \in Int /\ Retention \in Int
  BY ClockType, HeldType DEF RowsOf
<1>3. ASSUME NEW r \in RowsOf(s), r \notin RowsOf(s)'
      PROVE  r.ts < now - Retention
  BY <1>3, DeletedIsOld DEF RowsOf
<1>4. live \in RowsOf(s)'
  BY <1>2, <1>3
<1>5. ASSUME NEW r \in Current(s) PROVE r \in Current(s)'
  <2>1. r \in RowsOf(s) /\ \A q \in RowsOf(s) \ {r} : Later(r, q)
    BY <1>5 DEF Current
  <2>2. r = live \/ r.ts >= live.ts
    BY <2>1, <1>2 DEF Later
  <2>3. r \in RowsOf(s)'
    BY <2>1, <2>2, <1>2, <1>3
  <2> QED BY <2>1, <2>3, <1>1 DEF Current, Later
<1>6. ASSUME NEW r \in Current(s)' PROVE r \in Current(s)
  <2>1. r \in RowsOf(s)' /\ \A q \in RowsOf(s)' \ {r} : Later(r, q)
    BY <1>6 DEF Current, Later
  <2>2. r = live \/ r.ts >= live.ts
    BY <2>1, <1>1, <1>2, <1>4 DEF Later
  <2>3. ASSUME NEW q \in RowsOf(s) \ {r} PROVE Later(r, q)
    <3>1. CASE q \in RowsOf(s)'
      BY <3>1, <2>1
    <3>2. CASE q \notin RowsOf(s)'
      <4>1. q.ts < now - Retention
        BY <3>2, <1>3
      <4>2. r \in RowsOf(s)
        BY <2>1, <1>1
      <4> QED BY <4>1, <4>2, <2>2, <1>2 DEF Later
    <3> QED BY <3>1, <3>2
  <2> QED BY <2>1, <2>3, <1>1 DEF Current
<1> QED BY <1>5, <1>6 DEF Current

\* maintenance.py _prune_table: whatever its batches and whatever else runs,
\* a prune pass never changes the state of a task or worker with a live event.
THEOREM PruningIsInvisible == Spec => PruneKeepsCurrent
<1> DEFINE A == (\E p \in Pruners : DeleteBatch(p)) =>
                  \A s \in Subjects :
                    (\E r \in RowsOf(s) : r.ts >= now - Retention) =>
                      Current(s)' = Current(s)
<1>1. IInv => A
  BY LiveRowDecides DEF IInv
<1>2. IInv /\ [Next]_vars => [A]_vars
  BY <1>1
<1>3. Spec => [][A]_vars
  BY <1>2, Invariance, PTL DEF Spec
<1> QED BY <1>3 DEF PruneKeepsCurrent

-----------------------------------------------------------------------------
(* EventLog implements RetainedLog. *)

LEMMA RefinedInit == Init => Retained!Init
BY DEF Init, Retained!Init

LEMMA RefinedCommit ==
  ASSUME IInv, NEW h \in Handlers, Commit(h)
  PROVE  Retained!Next \/ UNCHANGED Retained!vars
<1> USE DEF IInv
<1>1. rows' = rows \cup handler[h].wrote /\ now' = now
  BY DEF Commit
<1>2. CASE rows' = rows
  BY <1>1, <1>2 DEF Retained!vars
<1>3. CASE rows' # rows
  <2>1. PICK w \in handler[h].wrote : w \notin rows
    BY <1>1, <1>3
  <2>2. rows' = rows \cup {w}
    BY <1>1, <2>1 DEF OneRowEach
  <2>3. w \in Held /\ rows \subseteq Held
    BY <2>1 DEF Held, Written
  <2>4. w \in Row \ rows
    BY <2>1, HandlerType
  <2>5. \A r \in rows : ~ Conflicts(w, r) /\ w.id # r.id
    BY <2>1, <2>3 DEF OneRowPerKey, UniqueIds, Held
  <2>6. Retained!Record(w)
    BY <1>1, <2>2, <2>4, <2>5 DEF Retained!Record
  <2> QED BY <2>2, <2>6 DEF Retained!Next
<1> QED BY <1>2, <1>3

LEMMA RefinedDelete ==
  ASSUME IInv, NEW p \in Pruners, DeleteBatch(p)
  PROVE  Retained!Next
<1> USE DEF IInv
<1> DEFINE old == rows \ rows'
<1>1. rows' = rows \ old /\ now' = now
  BY DEF DeleteBatch
<1>2. \A r \in old : r.ts < now - Retention
  BY DeletedIsOld
<1>3. Retained!Expire(old)
  BY <1>1, <1>2 DEF Retained!Expire
<1>4. old \in SUBSET rows
  OBVIOUS
<1> QED BY <1>3, <1>4 DEF Retained!Next

LEMMA RefinedStep == IInv /\ [Next]_vars => [Retained!Next]_(Retained!vars)
<1> SUFFICES ASSUME IInv, [Next]_vars
             PROVE  Retained!Next \/ UNCHANGED Retained!vars
  OBVIOUS
<1>1. ASSUME NEW h \in Handlers, NEW e \in Event, Deliver(h, e)
      PROVE  UNCHANGED Retained!vars
  BY <1>1 DEF Deliver, Retained!vars
<1>2. ASSUME NEW h \in Handlers, Insert(h) \/ Fail(h)
      PROVE  UNCHANGED Retained!vars
  BY <1>2 DEF Insert, Fail, Retained!vars
<1>3. ASSUME NEW p \in Pruners, StartPrune(p) \/ SelectBatch(p)
      PROVE  UNCHANGED Retained!vars
  BY <1>3 DEF StartPrune, SelectBatch, Retained!vars
<1>4. CASE Crash
  BY <1>4 DEF Crash, Retained!vars
<1>5. CASE Tick
  BY <1>5 DEF Tick, Retained!Tick, Retained!Next
<1>6. CASE UNCHANGED vars
  BY <1>6 DEF vars, Retained!vars
<1> QED
  BY <1>1, <1>2, <1>3, <1>4, <1>5, <1>6, RefinedCommit, RefinedDelete DEF Next

\* The event tables, with concurrent handlers, rollback, crashes and pruning,
\* are a log that grows by one fresh row at a time and only forgets the old.
THEOREM ImplementsRetainedLog == Spec => RetainedSpec
BY RefinedInit, RefinedStep, Invariance, PTL DEF Spec, RetainedSpec, Retained!Spec

-----------------------------------------------------------------------------
(* A pass that runs alone is complete. *)

\* The smallest natural number of a set, from the library's theorem about
\* well-founded relations.
LEMMA SmallestId ==
  ASSUME NEW T \in SUBSET Nat, T # {}
  PROVE  \E n \in T : \A m \in T : ~ (m < n)
<1> DEFINE R == {pair \in Nat \X Nat : pair[1] < pair[2]}
<1>1. IsWellFoundedOn(R, Nat)
  BY NatLessThanWellFounded, Zenon DEF OpToRel
<1>2. \A m, n \in Nat : m < n => <<m, n>> \in R
  OBVIOUS
<1> HIDE DEF R
<1>3. \E n \in T : \A m \in T : ~ (<<m, n>> \in R)
  BY <1>1, WFMin
<1> QED BY <1>2, <1>3

\* The LIMIT of _prune_table's subquery: a batch that leaves a row out is full.
LEMMA BatchFullOrAll ==
  ASSUME NEW S, IsFiniteSet(S), \A r \in S : r.id \in Nat,
         NEW x \in S, x \notin FirstBatch(S)
  PROVE  Cardinality(FirstBatch(S)) >= BatchSize
<1> DEFINE Before(r) == {q \in S : q.id < r.id}
           Out == S \ FirstBatch(S)
           Ids == {r.id : r \in Out}
<1>1. Ids \in SUBSET Nat /\ Ids # {}
  OBVIOUS
<1> HIDE DEF Ids
<1>2. PICK n \in Ids : \A m \in Ids : ~ (m < n)
  BY <1>1, SmallestId
<1>3. PICK r \in Out : r.id = n
  BY DEF Ids
<1>4. \A q \in Out : ~ (q.id < r.id)
  BY <1>2, <1>3 DEF Ids
<1>5. Before(r) \subseteq FirstBatch(S)
  BY <1>4
<1>6. IsFiniteSet(FirstBatch(S))
  BY FS_Subset DEF FirstBatch
<1>7. /\ IsFiniteSet(Before(r))
      /\ Cardinality(Before(r)) <= Cardinality(FirstBatch(S))
  BY <1>5, <1>6, FS_Subset
<1>8. ~ (Cardinality(Before(r)) < BatchSize)
  BY <1>3 DEF FirstBatch
<1>9. Cardinality(Before(r)) \in Nat /\ Cardinality(FirstBatch(S)) \in Nat
  BY <1>6, <1>7, FS_CardinalityType
<1> HIDE DEF Before
<1> QED BY <1>7, <1>8, <1>9, BatchAssumption

\* No two passes: the consumer's daily loop without a taskowl-prune beside it.
Alone == \A p, q \in Pruners : p = q

\* A row is committed or in one open transaction, not both.
Apart ==
  \A h \in Handlers :
    /\ handler[h].wrote \cap rows = {}
    /\ \A g \in Handlers \ {h} : handler[g].wrote \cap handler[h].wrote = {}

\* What was due stays gone: its ids are taken and no transaction holds it.
DueIsOld ==
  \A p \in Pruners : \A r \in due[p] :
    r.id < nextId /\ r \in Row /\ \A h \in Handlers : r \notin handler[h].wrote

\* The due rows a pass has still to delete.
Left(p) == due[p] \cap rows

\* The batch in hand is full, or it has all due rows of the pass's table.
BatchDecides(p) ==
  \/ \A r \in Left(p) : r.table = pruner[p].table => r \in pruner[p].batch
  \/ pruner[p].batch \subseteq rows /\ Cardinality(pruner[p].batch) >= BatchSize

\* How far a pass has come.
PassOK(p) ==
  /\ pruner[p].pc = "idle" => Left(p) = {}
  /\ pruner[p].pc # "idle" => \A r \in due[p] : r.ts < pruner[p].cutoff
  /\ (pruner[p].pc # "idle" /\ pruner[p].table # "task_events") =>
       \A r \in Left(p) : r.table # "task_events"
  /\ pruner[p].pc = "delete" => BatchDecides(p)

PruneInv ==
  /\ IInv
  /\ IsFiniteSet(rows)
  /\ Apart
  /\ DueIsOld
  /\ \A p \in Pruners : PassOK(p)

\* A step that leaves pass p, its due rows and all committed rows alone.
LEMMA PassKept ==
  ASSUME NEW p \in Pruners, PassOK(p),
         pruner'[p] = pruner[p], due'[p] = due[p],
         rows \subseteq rows', Left(p)' = Left(p)
  PROVE  PassOK(p)'
<1>1. BatchDecides(p) => BatchDecides(p)'
  BY DEF BatchDecides
<1> QED BY <1>1 DEF PassOK

LEMMA InitPruneInv == Init => PruneInv
<1> SUFFICES ASSUME Init PROVE PruneInv
  OBVIOUS
<1>1. IInv
  BY InitIInv
<1>2. IsFiniteSet(rows)
  BY FS_EmptySet DEF Init
<1>3. Apart
  BY DEF Init, Apart, IdleHandler
<1>4. DueIsOld
  BY DEF Init, DueIsOld
<1>5. \A p \in Pruners : PassOK(p)
  BY DEF Init, PassOK, IdlePruner, Left
<1> QED BY <1>1, <1>2, <1>3, <1>4, <1>5 DEF PruneInv

\* A handler step that commits nothing and adds at most a row with a new id.
LEMMA HandlerWrites ==
  ASSUME PruneInv, IInv', NEW h \in Handlers, NEW W,
         handler'[h].wrote = W,
         \A g \in Handlers \ {h} : handler'[g] = handler[g],
         \A w \in W : w.id = nextId,
         rows' = rows, pruner' = pruner, due' = due,
         nextId' \in {nextId, nextId + 1}
  PROVE  PruneInv'
<1> USE DEF PruneInv
<1>1. nextId \in Nat /\ \A r \in Held : r.id \in Nat /\ r.id < nextId
  BY ClockType, HeldType DEF IInv, UniqueIds
<1>2. \A r \in rows : r \notin W
  BY <1>1 DEF Held
<1>3. \A g \in Handlers : \A r \in handler[g].wrote : r \notin W
  BY <1>1 DEF Held, Written
<1>4. Apart'
  BY <1>2, <1>3 DEF Apart
<1>5. DueIsOld'
  <2> SUFFICES ASSUME NEW p \in Pruners, NEW r \in due[p]
               PROVE  /\ r.id < nextId' /\ r \in Row
                      /\ \A g \in Handlers : r \notin handler'[g].wrote
    BY DEF DueIsOld
  <2>1. /\ r.id < nextId /\ r \in Row
        /\ \A g \in Handlers : r \notin handler[g].wrote
    BY DEF DueIsOld
  <2>2. r.id \in Nat
    BY <2>1 DEF Row
  <2>3. r \notin W
    BY <1>1, <2>1, <2>2
  <2> QED BY <1>1, <2>1, <2>2, <2>3
<1>6. \A p \in Pruners : PassOK(p)'
  <2> TAKE p \in Pruners
  <2>1. Left(p)' = Left(p)
    BY DEF Left
  <2> QED BY <2>1, PassKept
<1> QED BY <1>4, <1>5, <1>6

LEMMA CommitKeepsPasses ==
  ASSUME PruneInv, IInv', NEW h \in Handlers, Commit(h)
  PROVE  PruneInv'
<1> USE DEF PruneInv
<1> DEFINE W == handler[h].wrote
<1>1. /\ handler' = [handler EXCEPT ![h] = IdleHandler]
      /\ rows' = rows \cup W
      /\ pruner' = pruner /\ due' = due /\ nextId' = nextId
  BY DEF Commit
<1>2. /\ handler'[h].wrote = {}
      /\ \A g \in Handlers \ {h} : handler'[g] = handler[g]
  BY <1>1 DEF IInv, TypeOK, IdleHandler
<1>3. IsFiniteSet(rows')
  <2>1. CASE W = {}
    BY <1>1, <2>1
  <2>2. CASE W # {}
    <3>1. PICK w \in W : W = {w}
      BY <2>2 DEF IInv, OneRowEach
    <3>2. IsFiniteSet(rows \cup {w})
      BY FS_AddElement
    <3> QED BY <1>1, <3>1, <3>2
  <2> QED BY <2>1, <2>2
<1>4. Apart'
  BY <1>1, <1>2 DEF Apart
<1>5. DueIsOld'
  BY <1>1, <1>2 DEF DueIsOld
<1>6. \A p \in Pruners : PassOK(p)'
  <2> TAKE p \in Pruners
  <2>1. Left(p)' = Left(p)
    BY <1>1 DEF Left, DueIsOld
  <2> QED BY <1>1, <2>1, PassKept
<1> QED BY <1>3, <1>4, <1>5, <1>6

LEMMA StartKeepsPasses ==
  ASSUME PruneInv, IInv', NEW p \in Pruners, StartPrune(p)
  PROVE  PruneInv'
<1> USE DEF PruneInv
<1> DEFINE D == {r \in rows : r.ts < Cutoff}
<1>1. /\ pruner' = [pruner EXCEPT ![p] = [pc |-> "select", cutoff |-> Cutoff,
                                         table |-> "task_events", batch |-> {}]]
      /\ due' = [due EXCEPT ![p] = D]
      /\ rows' = rows /\ handler' = handler /\ nextId' = nextId
  BY DEF StartPrune
<1>2. /\ pruner'[p].pc = "select" /\ pruner'[p].cutoff = Cutoff
      /\ pruner'[p].table = "task_events" /\ due'[p] = D
      /\ \A o \in Pruners \ {p} : pruner'[o] = pruner[o] /\ due'[o] = due[o]
  BY <1>1 DEF IInv, TypeOK
<1>3. Apart'
  BY <1>1 DEF Apart
<1>4. DueIsOld'
  <2>1. \A r \in D : r.id < nextId /\ r \in Row
    BY HeldType DEF IInv, UniqueIds, Held
  <2>2. \A r \in D : \A g \in Handlers : r \notin handler[g].wrote
    BY DEF Apart
  <2> HIDE DEF D
  <2> QED BY <1>1, <1>2, <2>1, <2>2 DEF DueIsOld
<1>5. \A o \in Pruners : PassOK(o)'
  <2> TAKE o \in Pruners
  <2>1. CASE o = p
    BY <2>1, <1>2 DEF PassOK
  <2>2. CASE o # p
    <3>1. Left(o)' = Left(o)
      BY <1>1, <1>2, <2>2 DEF Left
    <3> QED BY <3>1, <2>2, <1>1, <1>2, PassKept
  <2> QED BY <2>1, <2>2
<1> QED BY <1>1, <1>3, <1>4, <1>5

LEMMA SelectKeepsPasses ==
  ASSUME PruneInv, IInv', NEW p \in Pruners, SelectBatch(p)
  PROVE  PruneInv'
<1> USE DEF PruneInv
<1> DEFINE S == Expired(pruner[p].table, pruner[p].cutoff)
           B == FirstBatch(S)
<1>1. /\ pruner' = [pruner EXCEPT ![p].pc = "delete", ![p].batch = B]
      /\ pruner[p].pc = "select"
      /\ rows' = rows /\ handler' = handler /\ due' = due /\ nextId' = nextId
  BY DEF SelectBatch
<1>2. /\ S \subseteq rows /\ B \subseteq S
      /\ \A r \in rows : r.table = pruner[p].table /\ r.ts < pruner[p].cutoff
                           => r \in S
  BY DEF Expired, FirstBatch
<1>3. IsFiniteSet(S) /\ \A r \in S : r.id \in Nat
  <2>1. IsFiniteSet(S)
    BY <1>2, FS_Subset
  <2>2. \A r \in S : r.id \in Nat
    BY <1>2, HeldType DEF IInv
  <2> QED BY <2>1, <2>2
<1>4. S \subseteq B \/ Cardinality(B) >= BatchSize
  <2> HIDE DEF S
  <2> QED BY <1>3, BatchFullOrAll
<1> HIDE DEF S, B
<1>5. /\ pruner'[p].pc = "delete" /\ pruner'[p].batch = B
      /\ pruner'[p].table = pruner[p].table
      /\ pruner'[p].cutoff = pruner[p].cutoff
      /\ \A o \in Pruners \ {p} : pruner'[o] = pruner[o]
  BY <1>1 DEF IInv, TypeOK
<1>6. Apart' /\ DueIsOld'
  BY <1>1 DEF Apart, DueIsOld
<1>7. \A o \in Pruners : PassOK(o)'
  <2> TAKE o \in Pruners
  <2>1. Left(o)' = Left(o)
    BY <1>1 DEF Left
  <2>2. CASE o = p
    <3>1. \A r \in Left(p) : r \in rows /\ r.ts < pruner[p].cutoff
      BY <1>1 DEF PassOK, Left
    <3>2. BatchDecides(p)'
      BY <1>1, <1>2, <1>4, <1>5, <2>1, <2>2, <3>1 DEF BatchDecides
    <3> QED BY <1>1, <1>5, <2>1, <2>2, <3>2 DEF PassOK
  <2>3. CASE o # p
    BY <2>1, <2>3, <1>1, <1>5, PassKept
  <2> QED BY <2>2, <2>3
<1> QED BY <1>1, <1>6, <1>7

\* Alone, a pass moves on from a table only when nothing due is left in it.
LEMMA DeleteKeepsPasses ==
  ASSUME Alone, PruneInv, IInv', NEW p \in Pruners, DeleteBatch(p)
  PROVE  PruneInv'
<1> USE DEF PruneInv
<1> DEFINE gone == pruner[p].batch \cap rows
           after == AfterBatch(pruner[p], gone)
<1>1. /\ pruner' = [pruner EXCEPT ![p] = after]
      /\ pruner[p].pc = "delete" /\ rows' = rows \ gone
      /\ handler' = handler /\ due' = due /\ nextId' = nextId
  BY DEF DeleteBatch
<1>2. pruner'[p] = after
  BY <1>1 DEF IInv, TypeOK
<1>3. IsFiniteSet(rows')
  BY <1>1, FS_Subset
<1>4. Apart' /\ DueIsOld'
  BY <1>1 DEF Apart, DueIsOld
<1>5. Left(p)' = Left(p) \ gone
  BY <1>1 DEF Left
<1>6. \A r \in Left(p) : r.table \in Tables
  BY DEF Left, DueIsOld, Row
<1>7. pruner[p].table \in Tables
  BY PassType DEF IInv
<1>8. TableGoesOn(gone) \/ \A r \in Left(p)' : r.table # pruner[p].table
  <2> SUFFICES ASSUME ~ TableGoesOn(gone), NEW r \in Left(p)',
                      r.table = pruner[p].table
               PROVE  FALSE
    OBVIOUS
  <2>1. r \in Left(p) /\ r \notin gone /\ r \in rows
    BY <1>1, <1>5 DEF Left
  <2>2. r \notin pruner[p].batch
    BY <2>1
  <2>3. pruner[p].batch \subseteq rows /\ Cardinality(pruner[p].batch) >= BatchSize
    BY <1>1, <2>1, <2>2 DEF PassOK, BatchDecides
  <2>4. gone = pruner[p].batch
    BY <2>3
  <2> QED BY <2>3, <2>4 DEF TableGoesOn
<1>9. PassOK(p)'
  <2>1. TableGoesOn(gone) \in BOOLEAN
    BY DEF TableGoesOn
  <2>2. /\ \A r \in due[p] : r.ts < pruner[p].cutoff
        /\ pruner[p].table # "task_events" =>
             \A r \in Left(p)' : r.table # "task_events"
    BY <1>1, <1>5 DEF PassOK
  <2> HIDE DEF gone
  <2>3. CASE TableGoesOn(gone)
    <3>1. after = NextBatch(pruner[p], pruner[p].table)
      BY <2>3 DEF AfterBatch
    <3> QED BY <1>1, <1>2, <2>2, <3>1 DEF PassOK, NextBatch
  <2>4. CASE ~ TableGoesOn(gone) /\ pruner[p].table = "task_events"
    <3>1. after = NextBatch(pruner[p], "worker_events")
      BY <2>4 DEF AfterBatch
    <3> QED BY <1>1, <1>2, <1>8, <2>2, <2>4, <3>1 DEF PassOK, NextBatch
  <2>5. CASE ~ TableGoesOn(gone) /\ pruner[p].table # "task_events"
    <3>1. after = IdlePruner
      BY <2>5 DEF AfterBatch
    <3>2. Left(p)' = {}
      BY <1>5, <1>6, <1>7, <1>8, <2>2, <2>5 DEF Tables
    <3> QED BY <1>2, <3>1, <3>2 DEF PassOK, IdlePruner
  <2> QED BY <2>1, <2>3, <2>4, <2>5
<1>10. \A o \in Pruners : PassOK(o)'
  BY <1>9 DEF Alone
<1> QED BY <1>3, <1>4, <1>10

LEMMA CrashKeepsPasses ==
  ASSUME PruneInv, IInv', Crash
  PROVE  PruneInv'
<1> USE DEF PruneInv
<1>1. /\ \A h \in Handlers : handler'[h] = IdleHandler
      /\ \A p \in Pruners : pruner'[p] = IdlePruner /\ due'[p] = {}
      /\ rows' = rows
  BY DEF Crash
<1>2. Apart' /\ DueIsOld'
  BY <1>1 DEF Apart, DueIsOld, IdleHandler
<1>3. \A p \in Pruners : PassOK(p)'
  BY <1>1 DEF PassOK, Left, IdlePruner
<1> QED BY <1>1, <1>2, <1>3

LEMMA StepPruneInv == Alone /\ PruneInv /\ [Next]_vars => PruneInv'
<1> SUFFICES ASSUME Alone, PruneInv, [Next]_vars PROVE PruneInv'
  OBVIOUS
<1>1. IInv'
  BY StepIInv DEF PruneInv
<1>2. handler \in [Handlers -> HandlerState] /\ nextId \in Nat
  BY DEF PruneInv, IInv, TypeOK
<1>3. ASSUME NEW h \in Handlers, NEW e \in Event, Deliver(h, e)
      PROVE  PruneInv'
  <2>1. /\ handler'[h].wrote = {}
        /\ \A g \in Handlers \ {h} : handler'[g] = handler[g]
        /\ rows' = rows /\ pruner' = pruner /\ due' = due /\ nextId' = nextId
    BY <1>2, <1>3 DEF Deliver
  <2> QED BY <1>1, <2>1, HandlerWrites
<1>4. ASSUME NEW h \in Handlers, Insert(h)
      PROVE  PruneInv'
  <2> DEFINE W == IF KeyStored(handler[h].event) THEN {} ELSE {NewRow(h)}
  <2>1. /\ handler' = [handler EXCEPT ![h].pc = "commit", ![h].wrote = W]
        /\ rows' = rows /\ pruner' = pruner /\ due' = due
        /\ nextId' = nextId + 1
    BY <1>4 DEF Insert
  <2>2. \A w \in W : w.id = nextId
    BY DEF NewRow
  <2> HIDE DEF W
  <2>3. /\ handler'[h].wrote = W
        /\ \A g \in Handlers \ {h} : handler'[g] = handler[g]
    BY <1>2, <2>1
  <2> QED BY <1>1, <2>1, <2>2, <2>3, HandlerWrites
<1>5. ASSUME NEW h \in Handlers, Fail(h)
      PROVE  PruneInv'
  <2>1. /\ handler'[h].wrote = {}
        /\ \A g \in Handlers \ {h} : handler'[g] = handler[g]
        /\ rows' = rows /\ pruner' = pruner /\ due' = due /\ nextId' = nextId
    BY <1>2, <1>5 DEF Fail, IdleHandler
  <2> QED BY <1>1, <2>1, HandlerWrites
<1>6. CASE Tick \/ UNCHANGED vars
  <2>1. /\ rows' = rows /\ handler' = handler /\ pruner' = pruner
        /\ due' = due /\ nextId' = nextId
    BY <1>6 DEF Tick, vars
  <2>2. Apart' /\ DueIsOld'
    BY <2>1 DEF PruneInv, Apart, DueIsOld
  <2>3. \A p \in Pruners : PassOK(p)'
    BY <2>1 DEF PruneInv, PassOK, Left, BatchDecides
  <2> QED BY <1>1, <2>1, <2>2, <2>3 DEF PruneInv
<1> QED
  BY <1>1, <1>3, <1>4, <1>5, <1>6, CommitKeepsPasses, StartKeepsPasses,
     SelectKeepsPasses, DeleteKeepsPasses, CrashKeepsPasses DEF Next

\* maintenance.py prune_events: whatever the batch size, the backlog and the
\* events that arrive meanwhile, a pass that no other overlaps leaves nothing
\* of what had expired when it started.  Alone is what the run overlap breaks.
THEOREM LonePassIsComplete ==
  ASSUME Alone
  PROVE  Spec => []PassIsComplete
<1>1. Init => PruneInv
  BY InitPruneInv
<1>2. PruneInv /\ [Next]_vars => PruneInv'
  BY StepPruneInv
<1>3. PruneInv => PassIsComplete
  BY DEF PruneInv, PassOK, Left, PassIsComplete
<1> QED BY <1>1, <1>2, <1>3, PTL DEF Spec

-----------------------------------------------------------------------------
(* Handlers that wait for each other's keys.                               *)

OwnRows == \A h \in Handlers : \A r \in handler[h].wrote : r.event = handler[h].event

WaitInv == IInv /\ Apart /\ OwnRows

\* The insert of h waits for the transaction of g.
WaitsFor(h, g) ==
  /\ handler[h].pc = "insert" /\ g # h
  /\ \E r \in handler[g].wrote : SameKey(handler[h].event, r.event)

\* Whoever is waited for waits for nobody and has only its commit to do; there
\* is one of it; and nobody waits for a key that is stored.
WaitsAreShort ==
  \A h, g \in Handlers : WaitsFor(h, g) =>
    /\ handler[g].pc = "commit"
    /\ ~ KeyStored(handler[h].event)
    /\ \A k \in Handlers : WaitsFor(h, k) => k = g

\* A wait ends with the event stored, or by an exception or a crash.
WaitsEnd ==
  \A h, g \in Handlers :
    WaitsFor(h, g) /\ ~ WaitsFor(h, g)' =>
      KeyStored(handler[h].event)' \/ faults' = faults + 1

\* A handler that commits leaves its event stored, by itself or by another, or
\* gone with its retention.
HandledIsStored ==
  \A h \in Handlers : Commit(h) =>
    \/ \E r \in rows' : r.event = handler[h].event \/ SameKey(handler[h].event, r.event)
    \/ handler[h].ts < now - Retention

\* A handler writes its row.
LEMMA InsertKeepsApart ==
  ASSUME WaitInv, IInv', NEW h \in Handlers, Insert(h)
  PROVE  WaitInv'
<1> DEFINE W == IF KeyStored(handler[h].event) THEN {} ELSE {NewRow(h)}
<1>1. handler' = [handler EXCEPT ![h].pc = "commit", ![h].wrote = W] /\ rows' = rows
  BY DEF Insert
<1>2. \A r \in W : r.id = nextId /\ r.event = handler[h].event
  BY DEF NewRow
<1> HIDE DEF W
<1>3. handler \in [Handlers -> HandlerState]
  BY DEF WaitInv, IInv, TypeOK
<1>4. /\ handler'[h].wrote = W /\ handler'[h].event = handler[h].event
      /\ \A g \in Handlers \ {h} : handler'[g] = handler[g]
  BY <1>1, <1>3
<1>5. nextId \in Nat /\ \A r \in Held : r.id \in Nat /\ r.id < nextId
  BY ClockType, HeldType DEF WaitInv, IInv, UniqueIds
<1>6. \A r \in W : r \notin Held
  BY <1>2, <1>5
<1>7. Apart'
  <2>1. \A g \in Handlers : \A r \in W : r \notin handler[g].wrote /\ r \notin rows
    BY <1>6 DEF Held, Written
  <2>2. ASSUME NEW g \in Handlers PROVE handler'[g].wrote \cap rows' = {}
    <3>1. handler[g].wrote \cap rows = {}
      BY DEF WaitInv, Apart
    <3> QED BY <1>1, <1>4, <2>1, <3>1
  <2>3. ASSUME NEW g \in Handlers, NEW k \in Handlers \ {g}
        PROVE  handler'[k].wrote \cap handler'[g].wrote = {}
    <3>1. handler[k].wrote \cap handler[g].wrote = {}
      BY DEF WaitInv, Apart
    <3> QED BY <1>4, <2>1, <3>1
  <2> QED BY <2>2, <2>3 DEF Apart
<1>8. OwnRows'
  BY <1>2, <1>4 DEF WaitInv, OwnRows
<1> QED BY <1>7, <1>8 DEF WaitInv

\* Rows only move from a transaction to the table, or go.
LEMMA OthersKeepApart ==
  ASSUME WaitInv, IInv',
         \A h \in Handlers : handler'[h] = handler[h] \/ handler'[h].wrote = {},
         \A r \in rows' : r \in rows \/ \E h \in Handlers :
                            r \in handler[h].wrote /\ handler'[h].wrote = {}
  PROVE  WaitInv'
<1>1. ASSUME NEW h \in Handlers, NEW r \in handler'[h].wrote
      PROVE  /\ handler'[h] = handler[h] /\ r \in handler[h].wrote /\ r \notin rows
             /\ \A g \in Handlers \ {h} : r \notin handler[g].wrote
  BY <1>1 DEF WaitInv, Apart
<1>2. ASSUME NEW h \in Handlers, NEW r \in handler'[h].wrote
      PROVE  r \notin rows'
  BY <1>1, <1>2
<1>3. ASSUME NEW h \in Handlers, NEW g \in Handlers \ {h}, NEW r \in handler'[h].wrote
      PROVE  r \notin handler'[g].wrote
  BY <1>1, <1>3
<1>4. Apart'
  BY <1>2, <1>3 DEF Apart
<1>5. OwnRows'
  BY <1>1 DEF WaitInv, OwnRows
<1> QED BY <1>4, <1>5 DEF WaitInv

LEMMA StepWaitInv == WaitInv /\ [Next]_vars => WaitInv'
<1> SUFFICES ASSUME WaitInv, [Next]_vars PROVE WaitInv'
  OBVIOUS
<1>1. IInv' /\ handler \in [Handlers -> HandlerState]
  BY StepIInv DEF WaitInv, IInv, TypeOK
<1>2. ASSUME NEW h \in Handlers, NEW e \in Event, Deliver(h, e) PROVE WaitInv'
  BY <1>1, <1>2, OthersKeepApart DEF Deliver
<1>3. ASSUME NEW h \in Handlers, Insert(h) PROVE WaitInv'
  BY <1>1, <1>3, InsertKeepsApart
<1>4. ASSUME NEW h \in Handlers, Commit(h) \/ Fail(h) PROVE WaitInv'
  BY <1>1, <1>4, OthersKeepApart DEF Commit, Fail, IdleHandler
<1>5. ASSUME NEW p \in Pruners, StartPrune(p) \/ SelectBatch(p) \/ DeleteBatch(p)
      PROVE  WaitInv'
  BY <1>1, <1>5, OthersKeepApart DEF StartPrune, SelectBatch, DeleteBatch
<1>6. CASE Crash
  BY <1>1, <1>6, OthersKeepApart DEF Crash, IdleHandler
<1>7. CASE Tick \/ UNCHANGED vars
  BY <1>1, <1>7, OthersKeepApart DEF Tick, vars
<1> QED BY <1>2, <1>3, <1>4, <1>5, <1>6, <1>7 DEF Next

LEMMA InitWaitInv == Init => WaitInv
BY InitIInv DEF Init, WaitInv, Apart, OwnRows, IdleHandler

LEMMA WaitInvariance == Spec => []WaitInv
BY InitWaitInv, StepWaitInv, PTL DEF Spec

\* handlers.py insert_event, under PostgreSQL's unique index: concurrent inserts
\* of one key never wait in a circle, nor behind a queue.
THEOREM NoCircularWait == Spec => []WaitsAreShort
<1>1. WaitInv => WaitsAreShort
  <2> SUFFICES ASSUME WaitInv, NEW h \in Handlers, NEW g \in Handlers, WaitsFor(h, g)
               PROVE  /\ handler[g].pc = "commit"
                      /\ ~ KeyStored(handler[h].event)
                      /\ \A k \in Handlers : WaitsFor(h, k) => k = g
    BY DEF WaitsAreShort
  <2>1. PICK r \in handler[g].wrote : SameKey(handler[h].event, r.event)
    BY DEF WaitsFor
  <2>2. ASSUME NEW q \in Held, SameKey(handler[h].event, q.event)
        PROVE  q = r
    <3>1. SameKey(q.event, r.event)
      BY <2>1, <2>2, SameKeySym, SameKeyTrans
    <3> QED BY <2>1, <3>1 DEF WaitInv, IInv, OneRowPerKey, Conflicts, Held, Written
  <2>3. handler[g].pc = "commit"
    BY <2>1, HandlerType DEF WaitInv, IInv
  <2>4. ~ KeyStored(handler[h].event)
    BY <2>1, <2>2 DEF KeyStored, WaitInv, Apart, Held
  <2>5. ASSUME NEW k \in Handlers, WaitsFor(h, k) PROVE k = g
    <3>1. r \in handler[k].wrote
      BY <2>2, <2>5 DEF WaitsFor, Held, Written
    <3> QED BY <2>1, <3>1 DEF WaitInv, Apart
  <2> QED BY <2>3, <2>4, <2>5
<1> QED BY <1>1, WaitInvariance, PTL

\* handlers.py insert_event: a wait for a key ends by the commit that stores it,
\* unless an exception or a crash ends one of the two transactions.
THEOREM WaitsEndStored == Spec => [][WaitsEnd]_vars
<1>1. WaitInv /\ [Next]_vars => [WaitsEnd]_vars
  <2> SUFFICES ASSUME WaitInv, Next, NEW h \in Handlers, NEW g \in Handlers,
                      WaitsFor(h, g), ~ WaitsFor(h, g)'
               PROVE  KeyStored(handler[h].event)' \/ faults' = faults + 1
    BY DEF WaitsEnd
  <2>1. PICK r \in handler[g].wrote : SameKey(handler[h].event, r.event)
    BY DEF WaitsFor
  <2>2. /\ handler[h].pc = "insert" /\ handler[g].pc = "commit" /\ h # g
        /\ handler \in [Handlers -> HandlerState] /\ KeyLocked(h, handler[h].event)
    BY <2>1, HandlerType DEF WaitsFor, WaitInv, IInv, TypeOK, KeyLocked
  <2>3. ASSUME handler'[h] = handler[h], handler'[g] = handler[g]
        PROVE  FALSE
    BY <2>3 DEF WaitsFor
  <2>4. ASSUME NEW k \in Handlers, NEW e \in Event, Deliver(k, e) PROVE FALSE
    BY <2>2, <2>3, <2>4 DEF Deliver
  <2>5. ASSUME NEW k \in Handlers, Insert(k) PROVE FALSE
    BY <2>2, <2>3, <2>5 DEF Insert
  <2>6. ASSUME NEW k \in Handlers, Commit(k)
        PROVE  KeyStored(handler[h].event)'
    <3>1. k = g
      BY <2>2, <2>3, <2>6 DEF Commit
    <3>2. r \in rows' /\ handler'[h] = handler[h]
      BY <2>1, <2>2, <2>6, <3>1 DEF Commit
    <3> QED BY <2>1, <3>2 DEF KeyStored
  <2>7. ASSUME NEW k \in Handlers, Fail(k) PROVE faults' = faults + 1
    BY <2>7 DEF Fail
  <2>8. CASE Crash
    BY <2>8 DEF Crash
  <2>9. ASSUME \/ \E p \in Pruners : StartPrune(p) \/ SelectBatch(p) \/ DeleteBatch(p)
               \/ Tick
        PROVE  FALSE
    BY <2>3, <2>9 DEF StartPrune, SelectBatch, DeleteBatch, Tick
  <2> QED BY <2>4, <2>5, <2>6, <2>7, <2>8, <2>9 DEF Next
<1> QED BY <1>1, WaitInvariance, PTL DEF Spec

\* receiver.py _handle_event: when a handler has ended without an error, its
\* event is stored, whoever wrote the row, or was too old to keep.
THEOREM HandledEventsStored == Spec => [][HandledIsStored]_vars
<1>1. WaitInv /\ [Next]_vars => [HandledIsStored]_vars
  <2> SUFFICES ASSUME WaitInv, NEW h \in Handlers, Commit(h)
               PROVE  \/ \E r \in rows' : \/ r.event = handler[h].event
                                         \/ SameKey(handler[h].event, r.event)
                      \/ handler[h].ts < now - Retention
    BY DEF HandledIsStored
  <2>1. handler[h].pc = "commit" /\ rows' = rows \cup handler[h].wrote
    BY DEF Commit
  <2>2. CASE handler[h].wrote = {}
    BY <2>1, <2>2 DEF WaitInv, IInv, NoSilentDrop, KeyStored
  <2>3. CASE handler[h].wrote # {}
    BY <2>1, <2>3 DEF WaitInv, OwnRows
  <2> QED BY <2>2, <2>3
<1> QED BY <1>1, WaitInvariance, PTL DEF Spec
=============================================================================
