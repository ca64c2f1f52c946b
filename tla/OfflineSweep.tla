---------------------------- MODULE OfflineSweep ----------------------------
(***************************************************************************)
(* The check_workers_offline action of workflow.py: sweeps that look for   *)
(* workers gone silent and alert about each of them once, while the        *)
(* consumer's handlers store worker events and mark their workers online   *)
(* again.                                                                  *)
(*                                                                         *)
(* What a sweep must not repeat it keeps in memory (_offline_notified), and*)
(* what it decides on it reads from worker_events.  Handlers write the two *)
(* in two steps, and a sweep reads them in two steps.                      *)
(***************************************************************************)
EXTENDS Integers, FiniteSets

CONSTANTS
  Workers,    \* hostnames
  Handlers,   \* coroutines that handle worker events
  Sweeps,     \* sweeps that can run at once: the periodic automation, and any
              \* event automation with the same action
  Timeout,    \* WORKER_OFFLINE_TIMEOUT_SECONDS, in ticks
  Retention,  \* EVENT_RETENTION_DAYS, in ticks
  None,       \* no worker, no event
  MaxEvents,  \* bound: events handled
  MaxTime,    \* bound: the clock stops here
  MaxFaults   \* bound: consumer crashes

Time == Nat

ASSUME TimeoutAssumption == Timeout \in Nat /\ Retention \in Nat
ASSUME NoneAssumption == None \notin Workers
ASSUME SweepsAssumption == IsFiniteSet(Sweeps)
ASSUME BoundAssumption == {MaxEvents, MaxTime, MaxFaults} \subseteq Nat

\* worker-online and worker-heartbeat differ in nothing that matters here.
Event == [worker : Workers, type : {"alive", "offline"}, ts : Time]

VARIABLES
  stored,     \* committed worker_events
  notified,   \* _offline_notified
  handler,    \* per coroutine: its event and how far it is
  sweep,      \* per sweep: its time, the hostnames left and the one at hand
  told,       \* history: workers alerted about since their last sign of life
  repeats,    \* history: per worker, alerts since it was last marked online
  now, events, faults

vars == <<stored, notified, handler, sweep, told, repeats, now, events, faults>>

-----------------------------------------------------------------------------
IdleHandler == [pc |-> "idle", worker |-> None, type |-> "alive", ts |-> 0]
IdleSweep == [pc |-> "idle", at |-> 0, todo |-> {}, worker |-> None]

Init ==
  /\ stored = {}
  /\ notified = {}
  /\ handler = [h \in Handlers |-> IdleHandler]
  /\ sweep = [s \in Sweeps |-> IdleSweep]
  /\ told = {}
  /\ repeats = [w \in Workers |-> 0]
  /\ now = 0
  /\ events = 0 /\ faults = 0

\* An event is handled at any time after it was emitted.
Deliver(h, w, type, ts) ==
  /\ handler[h].pc = "idle"
  /\ events < MaxEvents
  /\ ts <= now
  /\ events' = events + 1
  /\ handler' = [handler EXCEPT ![h] =
       [pc |-> "store", worker |-> w, type |-> type, ts |-> ts]]
  /\ UNCHANGED <<stored, notified, sweep, told, repeats, now, faults>>

EventOf(c) == [worker |-> c.worker, type |-> c.type, ts |-> c.ts]

\* Mutant: a worker that goes offline is marked online as well.
StoreMarksAny(h) ==
  /\ handler[h].pc = "store"
  /\ stored' = stored \cup {EventOf(handler[h])}
  /\ told' = told \ {handler[h].worker}
  /\ handler' = [handler EXCEPT ![h].pc = "mark"]
  /\ UNCHANGED <<notified, sweep, repeats, now, events, faults>>

\* insert_event commits the event.
Store(h) ==
  /\ handler[h].pc = "store"
  /\ stored' = stored \cup {EventOf(handler[h])}
  /\ IF handler[h].type = "alive"
       THEN /\ told' = told \ {handler[h].worker}
            /\ handler' = [handler EXCEPT ![h].pc = "mark"]
       ELSE /\ told' = told
            /\ handler' = [handler EXCEPT ![h] = IdleHandler]
  /\ UNCHANGED <<notified, sweep, repeats, now, events, faults>>

\* Mutant: the hostname is not the one the sweep remembers.
MarkNothing(h) ==
  /\ handler[h].pc = "mark"
  /\ handler' = [handler EXCEPT ![h] = IdleHandler]
  /\ UNCHANGED <<stored, notified, sweep, told, repeats, now, events, faults>>

\* _handle_event calls mark_online.
MarkOnline(h) ==
  /\ handler[h].pc = "mark"
  /\ notified' = notified \ {handler[h].worker}
  /\ repeats' = [repeats EXCEPT ![handler[h].worker] = 0]
  /\ handler' = [handler EXCEPT ![h] = IdleHandler]
  /\ UNCHANGED <<stored, sweep, told, now, events, faults>>

-----------------------------------------------------------------------------
Hostnames == {e.worker : e \in stored}
EventsOf(w) == {e \in stored : e.worker = w}

\* The query orders by timestamp only: a tie goes either way.
Latest(w) == {e \in EventsOf(w) : \A f \in EventsOf(w) : f.ts <= e.ts}

\* What _worker_stale may answer at time at.
StaleAnswers(w, at) ==
  IF EventsOf(w) = {}
    THEN {TRUE}
    ELSE {e.type = "offline" \/ at - e.ts > Timeout : e \in Latest(w)}

StartSweep(s) ==
  /\ sweep[s].pc = "idle"
  /\ sweep' = [sweep EXCEPT ![s] =
       [pc |-> "hosts", at |-> now, todo |-> {}, worker |-> None]]
  /\ UNCHANGED <<stored, notified, handler, told, repeats, now, events, faults>>

LoadHosts(s) ==
  /\ sweep[s].pc = "hosts"
  /\ sweep' = [sweep EXCEPT ![s].pc = "pick", ![s].todo = Hostnames]
  /\ UNCHANGED <<stored, notified, handler, told, repeats, now, events, faults>>

\* Mutants: workers already alerted about are looked at again; a worker is noted
\* before it is known to be stale.
PickAny(s, w) ==
  /\ sweep[s].pc = "pick" /\ w \in sweep[s].todo
  /\ sweep' = [sweep EXCEPT ![s].todo = @ \ {w}, ![s].pc = "query", ![s].worker = w]
  /\ UNCHANGED <<stored, notified, handler, told, repeats, now, events, faults>>

PickNotifies(s, w) ==
  /\ sweep[s].pc = "pick" /\ w \in sweep[s].todo
  /\ notified' = notified \cup {w}
  /\ sweep' = [sweep EXCEPT ![s].todo = @ \ {w},
       ![s].pc = IF w \in notified THEN "pick" ELSE "query",
       ![s].worker = IF w \in notified THEN None ELSE w]
  /\ UNCHANGED <<stored, handler, told, repeats, now, events, faults>>

\* The next hostname: passed over, or asked about.
Pick(s, w) ==
  /\ sweep[s].pc = "pick" /\ w \in sweep[s].todo
  /\ sweep' = [sweep EXCEPT ![s].todo = @ \ {w},
       ![s].pc = IF w \in notified THEN "pick" ELSE "query",
       ![s].worker = IF w \in notified THEN None ELSE w]
  /\ UNCHANGED <<stored, notified, handler, told, repeats, now, events, faults>>

Query(s) ==
  /\ sweep[s].pc = "query"
  /\ \E stale \in StaleAnswers(sweep[s].worker, sweep[s].at) :
       sweep' = [sweep EXCEPT ![s] =
         IF stale THEN [@ EXCEPT !.pc = "alert"]
                  ELSE [@ EXCEPT !.pc = "pick", !.worker = None]]
  /\ UNCHANGED <<stored, notified, handler, told, repeats, now, events, faults>>

\* The webhook is posted; a failure to post is logged and nothing more.
Alert(s) ==
  /\ sweep[s].pc = "alert"
  /\ notified' = notified \cup {sweep[s].worker}
  /\ told' = told \cup {sweep[s].worker}
  /\ repeats' = [repeats EXCEPT ![sweep[s].worker] = @ + 1]
  /\ sweep' = [sweep EXCEPT ![s].pc = "pick", ![s].worker = None]
  /\ UNCHANGED <<stored, handler, now, events, faults>>

EndSweep(s) ==
  /\ sweep[s].pc = "pick" /\ sweep[s].todo = {}
  /\ sweep' = [sweep EXCEPT ![s] = IdleSweep]
  /\ UNCHANGED <<stored, notified, handler, told, repeats, now, events, faults>>

-----------------------------------------------------------------------------
\* Retention takes any expired events: a prune pass works in batches.
Prune(e) ==
  /\ e.ts < now - Retention
  /\ stored' = stored \ {e}
  /\ UNCHANGED <<notified, handler, sweep, told, repeats, now, events, faults>>

\* The consumer restarts: its memory is gone.
Crash ==
  /\ faults < MaxFaults
  /\ faults' = faults + 1
  /\ notified' = {}
  /\ repeats' = [w \in Workers |-> 0]
  /\ handler' = [h \in Handlers |-> IdleHandler]
  /\ sweep' = [s \in Sweeps |-> IdleSweep]
  /\ UNCHANGED <<stored, told, now, events>>

Tick ==
  /\ now < MaxTime
  /\ now' = now + 1
  /\ UNCHANGED <<stored, notified, handler, sweep, told, repeats, events, faults>>

HandlerStep(h) == Store(h) \/ MarkOnline(h)

SweepStep(s) ==
  \/ StartSweep(s)
  \/ LoadHosts(s)
  \/ \E w \in Workers : Pick(s, w)
  \/ Query(s)
  \/ Alert(s)
  \/ EndSweep(s)

Next ==
  \/ \E h \in Handlers, w \in Workers, type \in {"alive", "offline"}, ts \in 0 .. now :
       Deliver(h, w, type, ts)
  \/ \E h \in Handlers : HandlerStep(h)
  \/ \E s \in Sweeps : SweepStep(s)
  \/ \E e \in stored : Prune(e)
  \/ Crash
  \/ Tick

Spec == Init /\ [][Next]_vars

\* The event loop runs every coroutine to its end; sweeps come again and again.
Fairness ==
  /\ \A h \in Handlers : WF_vars(HandlerStep(h))
  /\ \A s \in Sweeps : WF_vars(SweepStep(s))

FairSpec == Spec /\ Fairness

-----------------------------------------------------------------------------
(* Properties. *)

HandlerState ==
  [pc : {"idle", "store", "mark"}, worker : Workers \cup {None},
   type : {"alive", "offline"}, ts : Time]

SweepState ==
  [pc : {"idle", "hosts", "pick", "query", "alert"}, at : Time,
   todo : SUBSET Workers, worker : Workers \cup {None}]

\* A coroutine has an event unless idle, and only signs of life mark a worker.
HandlerOK(c) ==
  /\ c \in HandlerState
  /\ c.pc # "idle" => c.worker \in Workers
  /\ c.pc = "mark" => c.type = "alive"

SweepOK(c) ==
  /\ c \in SweepState
  /\ c.pc \in {"query", "alert"} => c.worker \in Workers

\* Type invariant of the sweep: what each variable holds.
TypeOK ==
  /\ stored \subseteq Event
  /\ notified \subseteq Workers /\ told \subseteq Workers
  /\ handler \in [Handlers -> HandlerState]
  /\ \A h \in Handlers : HandlerOK(handler[h])
  /\ sweep \in [Sweeps -> SweepState]
  /\ \A s \in Sweeps : SweepOK(sweep[s])
  /\ repeats \in [Workers -> Nat]
  /\ now \in Nat /\ events \in Nat /\ faults \in Nat

\* mark_online against _fire_check_workers_offline: alerts about a worker are
\* held back only when one was sent since its last sign of life, or when the
\* handler of that sign of life is just about to let them through again.
NoOutageSwallowed ==
  \A w \in notified :
    w \in told \/ \E h \in Handlers : handler[h].pc = "mark" /\ handler[h].worker = w

\* _fire_check_workers_offline: until a worker is marked online again it is
\* alerted about no more often than there are sweeps that can run at once; with
\* the periodic sweep alone, once.
AlertsBounded == \A w \in Workers : repeats[w] <= Cardinality(Sweeps)

\* _fire_check_workers_offline: a worker that stays silent is alerted about,
\* unless retention removes the last trace of it first.
Silent(w) == w \in Hostnames /\ FALSE \notin StaleAnswers(w, now)

SilentWorkersAlerted ==
  \A w \in Workers : Silent(w) ~> (w \in told \/ ~ Silent(w))
=============================================================================
