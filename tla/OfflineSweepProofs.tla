------------------------- MODULE OfflineSweepProofs -------------------------
(***************************************************************************)
(* OfflineSweep for every set of workers, handlers and sweeps and every    *)
(* bound: type correctness, NoOutageSwallowed, the number of alerts that   *)
(* racing sweeps can send about one worker (AlertsBounded), what a sweep   *)
(* that works with an old clock may decide, and that it comes to its end.  *)
(***************************************************************************)
EXTENDS OfflineSweep, FunctionTheorems, FiniteSetTheorems, TLAPS

\* The sweeps that found worker w not yet alerted about, and may still alert.
Busy(w) == {s \in Sweeps : sweep[s].pc \in {"query", "alert"} /\ sweep[s].worker = w}

\* Each sweep that has alerted about w had found it not alerted about, so none
\* of them is busy with it any more.
Counted(w) ==
  /\ w \notin notified => repeats[w] = 0
  /\ repeats[w] + Cardinality(Busy(w)) <= Cardinality(Sweeps)

IInv ==
  /\ TypeOK
  /\ NoOutageSwallowed
  /\ \A w \in Workers : Counted(w)

-----------------------------------------------------------------------------
(* Types. *)

LEMMA InitTypeOK == Init => TypeOK
BY DEF Init, TypeOK, IdleHandler, IdleSweep, HandlerOK, HandlerState, SweepOK,
       SweepState, Time

\* A handler step replaces the state of one handler by a good one.
LEMMA HandlerMoves ==
  ASSUME TypeOK, NEW h \in Handlers, NEW c, HandlerOK(c),
         handler' = [handler EXCEPT ![h] = c]
  PROVE  /\ handler' \in [Handlers -> HandlerState]
         /\ \A g \in Handlers : HandlerOK(handler'[g])
BY DEF TypeOK, HandlerOK

LEMMA SweepMoves ==
  ASSUME TypeOK, NEW s \in Sweeps, NEW c, SweepOK(c),
         sweep' = [sweep EXCEPT ![s] = c]
  PROVE  /\ sweep' \in [Sweeps -> SweepState]
         /\ \A g \in Sweeps : SweepOK(sweep'[g])
BY DEF TypeOK, SweepOK

LEMMA IdleTypes == HandlerOK(IdleHandler) /\ SweepOK(IdleSweep)
BY DEF HandlerOK, SweepOK, IdleHandler, IdleSweep, HandlerState, SweepState, Time

LEMMA DeliverType ==
  ASSUME TypeOK, NEW h \in Handlers, NEW w \in Workers,
         NEW type \in {"alive", "offline"}, NEW ts \in 0 .. now,
         Deliver(h, w, type, ts)
  PROVE  TypeOK'
<1> DEFINE c == [pc |-> "store", worker |-> w, type |-> type, ts |-> ts]
<1>1. HandlerOK(c)
  BY DEF HandlerOK, HandlerState, Time, TypeOK
<1>2. handler' = [handler EXCEPT ![h] = c]
  BY DEF Deliver
<1> HIDE DEF c
<1>3. /\ handler' \in [Handlers -> HandlerState]
      /\ \A g \in Handlers : HandlerOK(handler'[g])
  BY <1>1, <1>2, HandlerMoves
<1> QED BY <1>3 DEF Deliver, TypeOK, SweepOK, HandlerOK

LEMMA StoreType ==
  ASSUME TypeOK, NEW h \in Handlers, Store(h)
  PROVE  TypeOK'
<1>1. HandlerOK(handler[h]) /\ handler[h].worker \in Workers
  BY DEF TypeOK, HandlerOK, Store
<1>2. EventOf(handler[h]) \in Event
  BY <1>1 DEF HandlerOK, HandlerState, EventOf, Event
<1>3. /\ handler' \in [Handlers -> HandlerState]
      /\ \A g \in Handlers : HandlerOK(handler'[g])
  <2>1. CASE handler[h].type = "alive"
    <3> DEFINE c == [handler[h] EXCEPT !.pc = "mark"]
    <3>1. HandlerOK(c)
      BY <1>1, <2>1 DEF HandlerOK, HandlerState
    <3>2. handler' = [handler EXCEPT ![h] = c]
      BY <2>1 DEF Store
    <3> HIDE DEF c
    <3> QED BY <3>1, <3>2, HandlerMoves
  <2>2. CASE handler[h].type # "alive"
    BY <2>2, IdleTypes, HandlerMoves DEF Store
  <2> QED BY <2>1, <2>2
<1>4. stored' \subseteq Event /\ told' \subseteq Workers
  BY <1>2 DEF Store, TypeOK
<1> QED BY <1>3, <1>4 DEF Store, TypeOK, SweepOK, HandlerOK

LEMMA MarkOnlineType ==
  ASSUME TypeOK, NEW h \in Handlers, MarkOnline(h)
  PROVE  TypeOK'
<1>1. /\ handler' \in [Handlers -> HandlerState]
      /\ \A g \in Handlers : HandlerOK(handler'[g])
  BY IdleTypes, HandlerMoves DEF MarkOnline
<1> QED BY <1>1 DEF MarkOnline, TypeOK, SweepOK, HandlerOK

\* The steps of a sweep, but for what they say of the other variables.
LEMMA SweepStepType ==
  ASSUME TypeOK, NEW s \in Sweeps, SweepStep(s)
  PROVE  /\ sweep' \in [Sweeps -> SweepState]
         /\ \A g \in Sweeps : SweepOK(sweep'[g])
<1> USE SweepMoves
<1>0. SweepOK(sweep[s]) /\ sweep[s] \in SweepState /\ now \in Time
  BY DEF TypeOK, SweepOK, Time
<1>1. CASE StartSweep(s)
  <2> DEFINE c == [pc |-> "hosts", at |-> now, todo |-> {}, worker |-> None]
  <2>1. SweepOK(c)
    BY <1>0 DEF SweepOK, SweepState
  <2>2. sweep' = [sweep EXCEPT ![s] = c]
    BY <1>1 DEF StartSweep
  <2> HIDE DEF c
  <2> QED BY <2>1, <2>2
<1>2. CASE LoadHosts(s)
  <2> DEFINE c == [sweep[s] EXCEPT !.pc = "pick", !.todo = Hostnames]
  <2>1. Hostnames \subseteq Workers
    BY DEF Hostnames, TypeOK, Event
  <2>2. SweepOK(c)
    BY <1>0, <2>1 DEF SweepOK, SweepState
  <2>3. sweep' = [sweep EXCEPT ![s] = c]
    BY <1>2 DEF LoadHosts
  <2> HIDE DEF c
  <2> QED BY <2>2, <2>3
<1>3. ASSUME NEW w \in Workers, Pick(s, w)
      PROVE  /\ sweep' \in [Sweeps -> SweepState]
             /\ \A g \in Sweeps : SweepOK(sweep'[g])
  <2> DEFINE c == [sweep[s] EXCEPT !.todo = @ \ {w},
                     !.pc = IF w \in notified THEN "pick" ELSE "query",
                     !.worker = IF w \in notified THEN None ELSE w]
  <2>1. SweepOK(c)
    BY <1>0 DEF SweepOK, SweepState
  <2>2. sweep' = [sweep EXCEPT ![s] = c]
    BY <1>3 DEF Pick
  <2> HIDE DEF c
  <2> QED BY <2>1, <2>2
<1>4. CASE Query(s)
  <2>1. SweepOK([sweep[s] EXCEPT !.pc = "alert"])
    BY <1>0, <1>4 DEF SweepOK, SweepState, Query
  <2>2. SweepOK([sweep[s] EXCEPT !.pc = "pick", !.worker = None])
    BY <1>0 DEF SweepOK, SweepState
  <2>3. \/ sweep' = [sweep EXCEPT ![s] = [sweep[s] EXCEPT !.pc = "alert"]]
        \/ sweep' = [sweep EXCEPT ![s] =
                       [sweep[s] EXCEPT !.pc = "pick", !.worker = None]]
    BY <1>4 DEF Query
  <2> QED BY <2>1, <2>2, <2>3
<1>5. CASE Alert(s)
  <2> DEFINE c == [sweep[s] EXCEPT !.pc = "pick", !.worker = None]
  <2>1. SweepOK(c)
    BY <1>0 DEF SweepOK, SweepState
  <2>2. sweep' = [sweep EXCEPT ![s] = c]
    BY <1>5 DEF Alert
  <2> HIDE DEF c
  <2> QED BY <2>1, <2>2
<1>6. CASE EndSweep(s)
  BY <1>6, IdleTypes DEF EndSweep
<1> QED BY <1>1, <1>2, <1>3, <1>4, <1>5, <1>6 DEF SweepStep

LEMMA StepTypeOK == TypeOK /\ [Next]_vars => TypeOK'
<1> SUFFICES ASSUME TypeOK, [Next]_vars PROVE TypeOK'
  OBVIOUS
<1>1. ASSUME NEW s \in Sweeps, SweepStep(s) PROVE TypeOK'
  <2>1. /\ sweep' \in [Sweeps -> SweepState]
        /\ \A g \in Sweeps : SweepOK(sweep'[g])
    BY <1>1, SweepStepType
  <2>2. CASE Alert(s)
    <3>1. sweep[s].worker \in Workers
      BY <2>2 DEF Alert, TypeOK, SweepOK
    <3>2. notified' \subseteq Workers /\ told' \subseteq Workers
      BY <2>2, <3>1 DEF Alert, TypeOK
    <3>3. repeats' \in [Workers -> Nat]
      BY <2>2, <3>1 DEF Alert, TypeOK
    <3> QED BY <2>1, <2>2, <3>2, <3>3 DEF Alert, TypeOK, SweepOK, HandlerOK
  <2>3. CASE ~ Alert(s)
    <3>1. UNCHANGED <<stored, notified, handler, told, repeats, now, events, faults>>
      BY <1>1, <2>3 DEF SweepStep, StartSweep, LoadHosts, Pick, Query, EndSweep
    <3> QED BY <2>1, <3>1 DEF TypeOK, HandlerOK
  <2> QED BY <2>2, <2>3
<1>2. ASSUME NEW e \in stored, Prune(e) PROVE TypeOK'
  BY <1>2 DEF Prune, TypeOK, HandlerOK, SweepOK
<1>3. CASE Crash
  <2>1. /\ handler' = [h \in Handlers |-> IdleHandler]
        /\ sweep' = [s \in Sweeps |-> IdleSweep]
    BY <1>3 DEF Crash
  <2>2. /\ handler' \in [Handlers -> HandlerState]
        /\ \A h \in Handlers : HandlerOK(handler'[h])
        /\ sweep' \in [Sweeps -> SweepState]
        /\ \A s \in Sweeps : SweepOK(sweep'[s])
    BY <2>1, IdleTypes DEF HandlerOK, SweepOK
  <2> QED BY <1>3, <2>2 DEF Crash, TypeOK
<1>4. CASE Tick
  BY <1>4 DEF Tick, TypeOK, HandlerOK, SweepOK
<1>5. CASE UNCHANGED vars
  BY <1>5 DEF vars, TypeOK, HandlerOK, SweepOK
<1> QED
  BY <1>1, <1>2, <1>3, <1>4, <1>5, DeliverType, StoreType, MarkOnlineType
  DEF Next, HandlerStep

\* Type correctness of the sweep and the handlers, for all constants.
THEOREM TypeCorrect == Spec => []TypeOK
BY InitTypeOK, StepTypeOK, PTL DEF Spec

-----------------------------------------------------------------------------
(* No outage is swallowed. *)

LEMMA StepNoOutage ==
  TypeOK /\ NoOutageSwallowed /\ [Next]_vars => NoOutageSwallowed'
<1> SUFFICES ASSUME TypeOK, NoOutageSwallowed, [Next]_vars,
                    NEW w \in notified'
             PROVE  \/ w \in told'
                    \/ \E h \in Handlers : handler'[h].pc = "mark" /\ handler'[h].worker = w
  BY DEF NoOutageSwallowed
<1> DEFINE Goal == \/ w \in told'
                   \/ \E h \in Handlers : handler'[h].pc = "mark" /\ handler'[h].worker = w
<1>1. ASSUME NEW h \in Handlers, NEW v \in Workers, NEW type \in {"alive", "offline"},
             NEW ts \in 0 .. now, Deliver(h, v, type, ts)
      PROVE  Goal
  <2>1. w \in told \/ \E g \in Handlers : handler[g].pc = "mark" /\ handler[g].worker = w
    BY <1>1 DEF Deliver, NoOutageSwallowed
  <2>2. \A g \in Handlers : handler[g].pc = "mark" => handler'[g] = handler[g]
    BY <1>1 DEF Deliver, TypeOK
  <2> QED BY <1>1, <2>1, <2>2 DEF Deliver
<1>2. ASSUME NEW h \in Handlers, Store(h) PROVE Goal
  <2>1. w \in told \/ \E g \in Handlers : handler[g].pc = "mark" /\ handler[g].worker = w
    BY <1>2 DEF Store, NoOutageSwallowed
  <2>2. \A g \in Handlers : handler[g].pc = "mark" => handler'[g] = handler[g]
    BY <1>2 DEF Store, TypeOK
  <2>3. CASE w \in told /\ w \notin told'
    <3>1. handler[h].type = "alive" /\ handler[h].worker = w
      BY <1>2, <2>3 DEF Store
    <3>2. handler'[h].pc = "mark" /\ handler'[h].worker = w
      BY <1>2, <3>1 DEF Store, TypeOK, HandlerState
    <3> QED BY <3>2
  <2> QED BY <2>1, <2>2, <2>3
<1>3. ASSUME NEW h \in Handlers, MarkOnline(h) PROVE Goal
  <2>1. w \in notified /\ w # handler[h].worker
    BY <1>3 DEF MarkOnline
  <2>2. w \in told \/ \E g \in Handlers : handler[g].pc = "mark" /\ handler[g].worker = w
    BY <2>1 DEF NoOutageSwallowed
  <2>3. \A g \in Handlers : g # h => handler'[g] = handler[g]
    BY <1>3 DEF MarkOnline, TypeOK
  <2> QED BY <1>3, <2>1, <2>2, <2>3 DEF MarkOnline
<1>4. ASSUME NEW s \in Sweeps, SweepStep(s) PROVE Goal
  <2>1. CASE Alert(s)
    BY <2>1 DEF Alert, NoOutageSwallowed
  <2>2. CASE ~ Alert(s)
    BY <1>4, <2>2
    DEF SweepStep, StartSweep, LoadHosts, Pick, Query, EndSweep, NoOutageSwallowed
  <2> QED BY <2>1, <2>2
<1>5. ASSUME NEW e \in stored, Prune(e) PROVE Goal
  BY <1>5 DEF Prune, NoOutageSwallowed
<1>6. CASE Crash
  BY <1>6 DEF Crash
<1>7. CASE Tick \/ UNCHANGED vars
  BY <1>7 DEF Tick, vars, NoOutageSwallowed
<1> QED
  BY <1>1, <1>2, <1>3, <1>4, <1>5, <1>6, <1>7 DEF Next, HandlerStep

-----------------------------------------------------------------------------
(* Racing sweeps. *)

LEMMA SweepCount ==
  ASSUME NEW S \in SUBSET Sweeps
  PROVE  /\ IsFiniteSet(S) /\ Cardinality(S) \in Nat
         /\ Cardinality(S) <= Cardinality(Sweeps)
         /\ Cardinality(Sweeps) \in Nat
BY SweepsAssumption, FS_Subset, FS_CardinalityType

LEMMA BusySweeps == \A w : Busy(w) \in SUBSET Sweeps /\ Busy(w)' \in SUBSET Sweeps
BY DEF Busy

\* A step that makes no sweep busy about w leaves its count in bounds.
LEMMA FewerBusy ==
  ASSUME TypeOK, NEW w \in Workers, Counted(w),
         Busy(w)' \subseteq Busy(w), repeats'[w] = repeats[w],
         w \in notified' <=> w \in notified
  PROVE  Counted(w)'
<1>1. Cardinality(Busy(w)') <= Cardinality(Busy(w))
  BY SweepCount, BusySweeps, FS_Subset
<1>2. /\ Cardinality(Busy(w)') \in Nat /\ Cardinality(Busy(w)) \in Nat
      /\ Cardinality(Sweeps) \in Nat /\ repeats[w] \in Nat
  BY SweepCount, BusySweeps DEF TypeOK
<1>3. repeats'[w] + Cardinality(Busy(w)') <= Cardinality(Sweeps)
  BY <1>1, <1>2 DEF Counted
<1> QED BY <1>3 DEF Counted

\* A step that leaves w without alerts since it was last online does so too.
LEMMA NoRepeats ==
  ASSUME NEW w \in Workers, repeats'[w] = 0
  PROVE  Counted(w)'
<1>1. Cardinality(Busy(w)') \in Nat /\ Cardinality(Busy(w)') <= Cardinality(Sweeps)
  BY SweepCount, BusySweeps
<1> QED BY <1>1 DEF Counted

LEMMA AlertCounted ==
  ASSUME TypeOK, NEW s \in Sweeps, Alert(s), NEW w \in Workers, Counted(w)
  PROVE  Counted(w)'
<1>1. CASE w = sweep[s].worker
  <2>1. s \in Busy(w) /\ Busy(w)' \subseteq Busy(w) \ {s}
    BY <1>1, NoneAssumption DEF Alert, Busy, TypeOK
  <2>2. /\ IsFiniteSet(Busy(w)) /\ Cardinality(Busy(w)) \in Nat
        /\ Cardinality(Busy(w) \ {s}) \in Nat /\ Cardinality(Busy(w)') \in Nat
        /\ Cardinality(Sweeps) \in Nat /\ repeats[w] \in Nat
    BY <2>1, SweepCount, BusySweeps DEF TypeOK
  <2>3. Cardinality(Busy(w) \ {s}) = Cardinality(Busy(w)) - 1
    BY <2>1, <2>2, FS_RemoveElement
  <2>4. Cardinality(Busy(w)') <= Cardinality(Busy(w) \ {s})
    BY <2>1, <2>2, FS_Subset, FS_RemoveElement
  <2>5. repeats'[w] = repeats[w] + 1 /\ w \in notified'
    BY <1>1 DEF Alert, TypeOK
  <2>6. repeats'[w] + Cardinality(Busy(w)') <= Cardinality(Sweeps)
    BY <2>2, <2>3, <2>4, <2>5 DEF Counted
  <2> QED BY <2>5, <2>6 DEF Counted
<1>2. CASE w # sweep[s].worker
  <2>1. Busy(w)' \subseteq Busy(w)
    BY <1>2, NoneAssumption DEF Alert, Busy, TypeOK
  <2>2. repeats'[w] = repeats[w] /\ (w \in notified' <=> w \in notified)
    BY <1>2 DEF Alert, TypeOK
  <2> QED BY <2>1, <2>2, FewerBusy
<1> QED BY <1>1, <1>2

LEMMA PickCounted ==
  ASSUME TypeOK, NEW s \in Sweeps, NEW v \in Workers, Pick(s, v),
         NEW w \in Workers, Counted(w)
  PROVE  Counted(w)'
<1>1. repeats' = repeats /\ notified' = notified
  BY DEF Pick
<1>2. CASE w = v /\ v \notin notified
  <2>1. repeats'[w] = 0
    BY <1>1, <1>2 DEF Counted
  <2> QED BY <2>1, NoRepeats
<1>3. CASE ~ (w = v /\ v \notin notified)
  <2>1. Busy(w)' \subseteq Busy(w)
    BY <1>3, NoneAssumption DEF Pick, Busy, TypeOK
  <2> QED BY <1>1, <2>1, FewerBusy
<1> QED BY <1>2, <1>3

LEMMA StepCounted ==
  ASSUME TypeOK, [Next]_vars, NEW w \in Workers, Counted(w)
  PROVE  Counted(w)'
<1>1. ASSUME NEW s \in Sweeps, SweepStep(s) PROVE Counted(w)'
  <2>1. CASE StartSweep(s) \/ LoadHosts(s) \/ Query(s) \/ EndSweep(s)
    <3>1. repeats' = repeats /\ notified' = notified
      BY <2>1 DEF StartSweep, LoadHosts, Query, EndSweep
    <3>2. \A g \in Sweeps : g # s => sweep'[g] = sweep[g]
      BY <2>1 DEF StartSweep, LoadHosts, Query, EndSweep, TypeOK
    <3>3. sweep'[s].pc \in {"query", "alert"} =>
            sweep[s].pc = "query" /\ sweep'[s].worker = sweep[s].worker
      <4>1. CASE StartSweep(s) \/ LoadHosts(s) \/ EndSweep(s)
        BY <4>1 DEF StartSweep, LoadHosts, EndSweep, IdleSweep, TypeOK, SweepState
      <4>2. CASE Query(s)
        BY <4>2 DEF Query, TypeOK, SweepState
      <4> QED BY <2>1, <4>1, <4>2
    <3>4. Busy(w)' \subseteq Busy(w)
      BY <3>2, <3>3 DEF Busy
    <3> QED BY <3>1, <3>4, FewerBusy
  <2> QED BY <1>1, <2>1, AlertCounted, PickCounted DEF SweepStep
<1>2. ASSUME NEW h \in Handlers, MarkOnline(h) PROVE Counted(w)'
  <2>1. CASE w = handler[h].worker
    <3>1. repeats'[w] = 0
      BY <1>2, <2>1 DEF MarkOnline, TypeOK
    <3> QED BY <3>1, NoRepeats
  <2>2. CASE w # handler[h].worker
    <3>1. /\ Busy(w)' \subseteq Busy(w) /\ repeats'[w] = repeats[w]
          /\ w \in notified' <=> w \in notified
      BY <1>2, <2>2 DEF MarkOnline, Busy, TypeOK
    <3> QED BY <3>1, FewerBusy
  <2> QED BY <2>1, <2>2
<1>3. CASE Crash
  <2>1. repeats'[w] = 0
    BY <1>3 DEF Crash
  <2> QED BY <2>1, NoRepeats
<1>4. CASE UNCHANGED <<sweep, repeats, notified>>
  <2>1. Busy(w)' \subseteq Busy(w)
    BY <1>4 DEF Busy
  <2> QED BY <1>4, <2>1, FewerBusy
<1> QED
  BY <1>1, <1>2, <1>3, <1>4
  DEF Next, HandlerStep, Deliver, Store, Prune, Tick, vars

-----------------------------------------------------------------------------
(* The invariant and what follows from it. *)

LEMMA InitIInv == Init => IInv
<1> SUFFICES ASSUME Init PROVE IInv
  OBVIOUS
<1>1. NoOutageSwallowed
  BY DEF Init, NoOutageSwallowed
<1>2. ASSUME NEW w \in Workers PROVE Counted(w)
  <2>1. repeats[w] = 0
    BY DEF Init
  <2>2. Cardinality(Busy(w)) \in Nat /\ Cardinality(Busy(w)) <= Cardinality(Sweeps)
    BY SweepCount, BusySweeps
  <2> QED BY <2>1, <2>2 DEF Counted
<1> QED BY <1>1, <1>2, InitTypeOK DEF IInv

LEMMA StepIInv == IInv /\ [Next]_vars => IInv'
BY StepTypeOK, StepNoOutage, StepCounted DEF IInv

LEMMA Invariance == Spec => []IInv
BY InitIInv, StepIInv, PTL DEF Spec

\* mark_online against the sweep, for all constants: alerts about a worker are
\* held back only after one was sent since its last sign of life.
THEOREM OutagesAreTold == Spec => []NoOutageSwallowed
<1>1. IInv => NoOutageSwallowed
  BY DEF IInv
<1> QED BY <1>1, Invariance, PTL

\* _fire_check_workers_offline, for all constants: a worker that is not marked
\* online is alerted about at most once per sweep that can run at the same time.
THEOREM RepeatsBounded == Spec => []AlertsBounded
<1>1. IInv => AlertsBounded
  <2> SUFFICES ASSUME IInv, NEW w \in Workers
               PROVE  repeats[w] <= Cardinality(Sweeps)
    BY DEF AlertsBounded
  <2>1. /\ Cardinality(Busy(w)) \in Nat /\ Cardinality(Sweeps) \in Nat
        /\ repeats[w] \in Nat
    BY SweepCount, BusySweeps DEF IInv, TypeOK
  <2> QED BY <2>1 DEF IInv, Counted
<1> QED BY <1>1, Invariance, PTL

-----------------------------------------------------------------------------
(* The clock and the work of a sweep. *)

\* A sweep that runs works with the time of its start and with hostnames it
\* has read from a finite table.
SweepWork ==
  /\ IsFiniteSet(stored)
  /\ \A s \in Sweeps : sweep[s].at <= now /\ IsFiniteSet(sweep[s].todo)

\* The last events of w are signs of life within the timeout.
SeenLately(w) ==
  /\ EventsOf(w) # {}
  /\ \A e \in Latest(w) : e.type = "alive" /\ now - e.ts <= Timeout

\* A sweep never finds such a worker stale, however long it has been running.
NoFalseAlarm ==
  \A s \in Sweeps :
    Query(s) /\ SeenLately(sweep[s].worker) => sweep'[s].pc = "pick"

\* What is left to do of a sweep that has its hostnames.
StepsLeft(c) ==
  3 * Cardinality(c.todo) + CASE c.pc = "query" -> 2 [] c.pc = "alert" -> 1 [] OTHER -> 0

SweepsAdvance ==
  \A s \in Sweeps :
    \/ sweep'[s] = sweep[s]
    \/ sweep'[s].pc = "idle"
    \/ sweep[s].pc = "idle" /\ sweep'[s].pc = "hosts"
    \/ sweep[s].pc = "hosts" /\ sweep'[s].pc = "pick"
    \/ /\ sweep[s].pc \in {"pick", "query", "alert"}
       /\ sweep'[s].pc \in {"pick", "query", "alert"}
       /\ StepsLeft(sweep'[s]) < StepsLeft(sweep[s])

\* The hostnames are as many as the stored events at most.
LEMMA FiniteHostnames ==
  ASSUME IsFiniteSet(stored)
  PROVE  IsFiniteSet(Hostnames)
<1> DEFINE host == [e \in stored |-> e.worker]
<1>1. host \in [stored -> Hostnames] /\ \A w \in Hostnames : \E e \in stored : host[e] = w
  BY DEF Hostnames
<1> HIDE DEF host
<1>2. host \in Surjection(stored, Hostnames)
  BY <1>1, Fun_IsSurj
<1> QED BY <1>2, FS_Surjection

LEMMA QueryAlertKeep ==
  ASSUME NEW s \in Sweeps, sweep \in [Sweeps -> SweepState], Query(s) \/ Alert(s)
  PROVE  /\ sweep'[s].at = sweep[s].at /\ sweep'[s].todo = sweep[s].todo
         /\ \/ sweep[s].pc = "query" /\ sweep'[s].pc \in {"alert", "pick"}
            \/ sweep[s].pc = "alert" /\ sweep'[s].pc = "pick"
<1>1. CASE Query(s)
  <2>1. \/ sweep' = [sweep EXCEPT ![s] = [@ EXCEPT !.pc = "alert"]]
        \/ sweep' = [sweep EXCEPT ![s] = [@ EXCEPT !.pc = "pick", !.worker = None]]
    BY <1>1 DEF Query
  <2> QED BY <1>1, <2>1 DEF Query, SweepState
<1>2. CASE Alert(s)
  BY <1>2 DEF Alert, SweepState
<1> QED BY <1>1, <1>2

LEMMA InitSweepWork == Init => SweepWork
BY FS_EmptySet DEF Init, SweepWork, IdleSweep

LEMMA StepSweepWork == TypeOK /\ SweepWork /\ [Next]_vars => SweepWork'
<1> SUFFICES ASSUME TypeOK, SweepWork, [Next]_vars PROVE SweepWork'
  OBVIOUS
<1> USE DEF SweepWork
<1>0. /\ now \in Nat /\ sweep \in [Sweeps -> SweepState]
      /\ \A s \in Sweeps : sweep[s].at \in Nat
  BY DEF TypeOK, SweepState, Time
<1>1. ASSUME NEW h \in Handlers, Store(h) PROVE SweepWork'
  BY <1>1, FS_AddElement DEF Store
<1>2. ASSUME NEW s \in Sweeps, SweepStep(s) PROVE SweepWork'
  <2>1. stored' = stored /\ now' = now
    BY <1>2 DEF SweepStep, StartSweep, LoadHosts, Pick, Query, Alert, EndSweep
  <2>2. \A g \in Sweeps \ {s} : sweep'[g] = sweep[g]
    BY <1>0, <1>2 DEF SweepStep, StartSweep, LoadHosts, Pick, Query, Alert, EndSweep
  <2>3. /\ sweep'[s].at \in {sweep[s].at, now, 0}
        /\ sweep'[s].todo \in {{}, Hostnames, sweep[s].todo}
             \cup {sweep[s].todo \ {w} : w \in Workers}
    <3>1. CASE StartSweep(s)
      BY <1>0, <3>1 DEF StartSweep
    <3>2. CASE LoadHosts(s)
      BY <1>0, <3>2 DEF LoadHosts, SweepState
    <3>3. ASSUME NEW w \in Workers, Pick(s, w)
          PROVE  sweep'[s].at = sweep[s].at /\ sweep'[s].todo = sweep[s].todo \ {w}
      BY <1>0, <3>3 DEF Pick, SweepState
    <3>4. CASE Query(s) \/ Alert(s)
      <4>1. sweep'[s].at = sweep[s].at /\ sweep'[s].todo = sweep[s].todo
        BY <1>0, <3>4, QueryAlertKeep
      <4> QED BY <4>1
    <3>5. CASE EndSweep(s)
      BY <1>0, <3>5 DEF EndSweep, IdleSweep
    <3> QED BY <1>2, <3>1, <3>2, <3>3, <3>4, <3>5 DEF SweepStep
  <2>4. IsFiniteSet(sweep'[s].todo)
    <3>1. IsFiniteSet({}) /\ IsFiniteSet(Hostnames) /\ IsFiniteSet(sweep[s].todo)
      BY FiniteHostnames, FS_EmptySet
    <3>2. \A w \in Workers : IsFiniteSet(sweep[s].todo \ {w})
      BY <3>1, FS_RemoveElement
    <3> HIDE DEF SweepWork
    <3> QED BY <2>3, <3>1, <3>2
  <2> QED BY <1>0, <2>1, <2>2, <2>3, <2>4
<1>3. ASSUME NEW e \in stored, Prune(e) PROVE SweepWork'
  BY <1>3, FS_RemoveElement DEF Prune
<1>4. CASE Crash
  <2>1. /\ stored' = stored /\ now' = now
        /\ \A s \in Sweeps : sweep'[s].at = 0 /\ sweep'[s].todo = {}
    BY <1>4 DEF Crash, IdleSweep
  <2>2. IsFiniteSet({}) /\ IsFiniteSet(stored) /\ 0 <= now
    BY <1>0, FS_EmptySet
  <2>3. \A s \in Sweeps : sweep'[s].at <= now' /\ IsFiniteSet(sweep'[s].todo)
    BY <2>1, <2>2
  <2> QED BY <2>1, <2>2, <2>3
<1>5. CASE Tick
  BY <1>0, <1>5 DEF Tick
<1>6. CASE UNCHANGED <<stored, sweep, now>>
  BY <1>6
<1> QED
  BY <1>1, <1>2, <1>3, <1>4, <1>5, <1>6 DEF Next, HandlerStep, Deliver, MarkOnline, vars

LEMMA SweepWorkInvariance == Spec => []SweepWork
BY InitSweepWork, StepSweepWork, TypeCorrect, PTL DEF Spec

\* _fire_check_workers_offline takes the time once and asks about each worker
\* later: that errs towards silence, never towards a false alarm.
THEOREM SweepsRaiseNoFalseAlarm == Spec => [][NoFalseAlarm]_vars
<1>1. TypeOK /\ SweepWork => NoFalseAlarm
  <2> SUFFICES ASSUME TypeOK, SweepWork, NEW s \in Sweeps, Query(s),
                      SeenLately(sweep[s].worker)
               PROVE  sweep'[s].pc = "pick"
    BY DEF NoFalseAlarm
  <2> DEFINE w == sweep[s].worker
  <2>1. PICK stale \in StaleAnswers(w, sweep[s].at) :
          sweep' = [sweep EXCEPT ![s] =
            IF stale THEN [@ EXCEPT !.pc = "alert"]
                     ELSE [@ EXCEPT !.pc = "pick", !.worker = None]]
    BY DEF Query
  <2>2. PICK e \in Latest(w) : stale = (e.type = "offline" \/ sweep[s].at - e.ts > Timeout)
    BY <2>1 DEF StaleAnswers, SeenLately
  <2>3. e \in Event
    BY <2>2 DEF Latest, EventsOf, TypeOK
  <2>4. /\ e.type = "alive" /\ now - e.ts <= Timeout /\ sweep[s].at <= now
        /\ now \in Nat /\ e.ts \in Nat /\ sweep[s].at \in Nat /\ Timeout \in Nat
    BY <2>2, <2>3, TimeoutAssumption DEF SeenLately, SweepWork, TypeOK, SweepState, Time, Event
  <2>5. ~ (e.type = "offline" \/ sweep[s].at - e.ts > Timeout)
    BY <2>4
  <2>6. sweep' = [sweep EXCEPT ![s] = [@ EXCEPT !.pc = "pick", !.worker = None]]
    BY <2>1, <2>2, <2>5
  <2> QED BY <2>6 DEF TypeOK, SweepState
<1> QED BY <1>1, TypeCorrect, SweepWorkInvariance, PTL

LEMMA StepsLeftType ==
  ASSUME TypeOK, SweepWork, NEW s \in Sweeps
  PROVE  Cardinality(sweep[s].todo) \in Nat /\ StepsLeft(sweep[s]) \in Nat
<1>1. Cardinality(sweep[s].todo) \in Nat
  BY FS_CardinalityType DEF SweepWork
<1> DEFINE n == Cardinality(sweep[s].todo)
<1> HIDE DEF n
<1>2. StepsLeft(sweep[s]) \in {3 * n, 3 * n + 1, 3 * n + 2}
  <2>1. StepsLeft(sweep[s]) =
          3 * n + CASE sweep[s].pc = "query" -> 2 [] sweep[s].pc = "alert" -> 1 [] OTHER -> 0
    BY DEF StepsLeft, n
  <2> QED BY <1>1, <2>1 DEF n
<1> QED BY <1>1, <1>2 DEF n

\* The safe part of SilentWorkersAlerted: a sweep that has begun goes through
\* its hostnames once, whatever happens to them meanwhile, and ends.
THEOREM SweepsOnlyAdvance == Spec => [][SweepsAdvance]_vars
<1>1. TypeOK /\ SweepWork /\ [Next]_vars => [SweepsAdvance]_vars
  <2> SUFFICES ASSUME TypeOK, SweepWork, [Next]_vars, NEW g \in Sweeps,
                      sweep'[g] # sweep[g], sweep'[g].pc # "idle"
               PROVE  \/ sweep[g].pc = "idle" /\ sweep'[g].pc = "hosts"
                      \/ sweep[g].pc = "hosts" /\ sweep'[g].pc = "pick"
                      \/ /\ sweep[g].pc \in {"pick", "query", "alert"}
                         /\ sweep'[g].pc \in {"pick", "query", "alert"}
                         /\ StepsLeft(sweep'[g]) < StepsLeft(sweep[g])
    BY DEF SweepsAdvance
  <2>1. ~ Crash /\ sweep' # sweep
    BY DEF Crash, IdleSweep
  <2>2. PICK s \in Sweeps : SweepStep(s)
    BY <2>1 DEF Next, HandlerStep, Deliver, Store, MarkOnline, Prune, Tick, vars
  <2>3. sweep \in [Sweeps -> SweepState] /\ sweep[s] \in SweepState
    BY DEF TypeOK
  <2>4. g = s
    BY <2>2, <2>3 DEF SweepStep, StartSweep, LoadHosts, Pick, Query, Alert, EndSweep
  <2>5. CASE StartSweep(s)
    BY <2>3, <2>4, <2>5 DEF StartSweep
  <2>6. CASE LoadHosts(s)
    BY <2>3, <2>4, <2>6 DEF LoadHosts, SweepState
  <2>7. CASE EndSweep(s)
    BY <2>3, <2>4, <2>7 DEF EndSweep, IdleSweep
  <2>8. CASE Query(s) \/ Alert(s)
    <3> DEFINE n == Cardinality(sweep[s].todo)
    <3>1. n \in Nat
      BY StepsLeftType
    <3>2. sweep'[s].todo = sweep[s].todo
      BY <2>3, <2>8, QueryAlertKeep
    <3>3. \/ sweep[s].pc = "query" /\ sweep'[s].pc \in {"alert", "pick"}
          \/ sweep[s].pc = "alert" /\ sweep'[s].pc = "pick"
      BY <2>3, <2>8, QueryAlertKeep
    <3>4. Cardinality(sweep'[s].todo) = n
      BY <3>2
    <3> HIDE DEF n
    <3>5. StepsLeft(sweep'[s]) < StepsLeft(sweep[s])
      BY <3>1, <3>3, <3>4 DEF StepsLeft, n
    <3> QED BY <2>4, <3>3, <3>5
  <2>9. ASSUME NEW w \in Workers, Pick(s, w)
        PROVE  /\ sweep[s].pc = "pick" /\ sweep'[s].pc \in {"pick", "query"}
               /\ StepsLeft(sweep'[s]) < StepsLeft(sweep[s])
    <3> DEFINE n == Cardinality(sweep[s].todo)
               m == Cardinality(sweep'[s].todo)
    <3>1. /\ sweep[s].pc = "pick" /\ sweep'[s].pc \in {"pick", "query"}
          /\ w \in sweep[s].todo /\ sweep'[s].todo = sweep[s].todo \ {w}
      BY <2>3, <2>9 DEF Pick, SweepState
    <3>2. n \in Nat /\ m = n - 1
      BY <3>1, FS_RemoveElement, FS_CardinalityType DEF SweepWork
    <3> HIDE DEF n, m
    <3>3. StepsLeft(sweep[s]) = 3 * n
      BY <3>1, <3>2 DEF StepsLeft, n
    <3>4. StepsLeft(sweep'[s]) \in {3 * m, 3 * m + 2}
      BY <3>1, <3>2 DEF StepsLeft, m
    <3>5. StepsLeft(sweep'[s]) < StepsLeft(sweep[s])
      BY <3>2, <3>3, <3>4
    <3> QED BY <3>1, <3>5
  <2> QED BY <2>2, <2>4, <2>5, <2>6, <2>7, <2>8, <2>9 DEF SweepStep
<1> QED BY <1>1, TypeCorrect, SweepWorkInvariance, PTL DEF Spec
=============================================================================
