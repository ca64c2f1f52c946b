--------------------------- MODULE WorkflowEngine ---------------------------
(***************************************************************************)
(* The workflow engine of workflow.py: automations evaluated by interleaved*)
(* coroutines, one per handled event, and by the loop that evaluates the   *)
(* periodic automations, while operators toggle and delete automations.    *)
(*                                                                         *)
(* An evaluation loads the enabled automations once, considers them one by *)
(* one, asks the run log whether the circuit breaker, the cooldown or the  *)
(* rate limit forbids firing, fires, and adds a run to its transaction.    *)
(* The runs of an evaluation become visible together, at its commit.       *)
(* Evaluations interleave at every await, that is, between any two of the  *)
(* steps below.                                                            *)
(***************************************************************************)
EXTENDS Integers, FiniteSets

CONSTANTS
  Autos,      \* the automations: those triggered by the modelled event type,
              \* and the periodic ones
  AtStart,    \* the sets of them that the table may hold at the start
  Config,     \* their definitions (a function on Autos)
  Handlers,   \* coroutines of _handle_event
  Loops,      \* periodic loops: one per consumer process
  Deleters,   \* requests in flight that delete an automation
  None,       \* SQL NULL
  MaxEvents,  \* bound: events handled
  MaxTime,    \* bound: the clock stops here
  MaxEdits,   \* bound: operator calls
  MaxFaults   \* bound: consumer crashes and evaluations that fail

Procs == Handlers \cup Loops
Time == Nat

(***************************************************************************)
(* An automation's conditions hold for every event ("none"), test the      *)
(* event ("field"), or raise when evaluated ("broken": a matches whose     *)
(* pattern is not a regular expression, say).  A threshold, breaker window *)
(* or schedule of 0 is an absent one, as in the code's truth tests.        *)
(***************************************************************************)
Definition ==
  [trigger : {"event", "periodic"}, conditions : {"none", "field", "broken"},
   cooldown : Nat \cup {None}, maxRuns : Nat \cup {None}, window : Nat \cup {None},
   threshold : Nat, breakerWindow : Nat, schedule : Nat]

ASSUME ConfigAssumption == Config \in [Autos -> Definition]
ASSUME AtStartAssumption == AtStart \subseteq SUBSET Autos
ASSUME NoneAssumption == None \notin Nat /\ None \notin Autos
ASSUME ProcsAssumption == IsFiniteSet(Procs) /\ Handlers \cap Loops = {}
ASSUME BoundAssumption ==
  {MaxEvents, MaxTime, MaxEdits, MaxFaults} \subseteq Nat

VARIABLES
  exists,    \* automations in the table
  enabled,   \* those of them that are enabled
  runs,      \* committed automation_runs
  proc,      \* per coroutine or loop: the evaluation it is in
  del,       \* per deleting request: how far its transaction has come
  fired,     \* history: the evaluations that dispatched, with automation and time
  late,      \* history: runs that were committed after their automation had gone
  now, events, edits, faults

bounds == <<events, edits, faults>>
histories == <<fired, late>>
vars == <<exists, enabled, runs, proc, del, fired, late, now, events, edits, faults>>

-----------------------------------------------------------------------------
(* The run log. *)

Columns == {"sql_null", "json_null", "list"}
Reasons == {"conditions", "circuit_open", "cooldown", "rate_limited", "fired"}

\* An AutomationRun: n tells evaluations of one process apart.
Run == [auto : Autos, by : Procs, n : Nat, at : Time,
        actions : Columns, reason : Reasons]

\* What a JSON column stores for an explicit Python None is a JSON null.
ActionsColumn(list) == IF list THEN "list" ELSE "json_null"

\* AutomationRun.actions_fired.isnot(None) tests for SQL NULL.
CountedRuns(a) == {r \in runs : r.auto = a /\ r.actions # "sql_null"}

CountSince(a, since) == Cardinality({r \in CountedRuns(a) : r.at >= since})

\* Mutant: the breaker looks back over half of its window only.
CircuitOpenHalf(a, at) ==
  /\ Config[a].threshold # 0 /\ Config[a].breakerWindow # 0
  /\ CountSince(a, at - Config[a].breakerWindow \div 2) >= Config[a].threshold

CircuitOpen(a, at) ==
  /\ Config[a].threshold # 0 /\ Config[a].breakerWindow # 0
  /\ CountSince(a, at - Config[a].breakerWindow) >= Config[a].threshold

\* Mutants: the cooldown is a tick short; the query returns the oldest counted
\* run, not the latest.
CoolingDownShort(a, at) ==
  /\ Config[a].cooldown # None
  /\ \E r \in CountedRuns(a) : at - r.at < Config[a].cooldown - 1

CoolingDownSinceOldest(a, at) ==
  /\ Config[a].cooldown # None
  /\ CountedRuns(a) # {}
  /\ \A r \in CountedRuns(a) : at - r.at < Config[a].cooldown

\* The latest counted run is too recent exactly when some counted run is.
CoolingDown(a, at) ==
  /\ Config[a].cooldown # None
  /\ \E r \in CountedRuns(a) : at - r.at < Config[a].cooldown

\* Mutant: the limit is compared before this run is counted in.
RateLimitedLate(a, at) ==
  /\ Config[a].maxRuns # None /\ Config[a].window # None
  /\ CountSince(a, at - Config[a].window) > Config[a].maxRuns

RateLimited(a, at) ==
  /\ Config[a].maxRuns # None /\ Config[a].window # None
  /\ CountSince(a, at - Config[a].window) >= Config[a].maxRuns

\* Mutant: only runs that fired delay the next one.
DueAfterFiring(a, at) ==
  /\ Config[a].schedule # 0
  /\ \A r \in runs :
       r.auto = a /\ r.reason = "fired" => at - r.at >= Config[a].schedule

\* The latest run of any outcome is at least a schedule old.
Due(a, at) ==
  /\ Config[a].schedule # 0
  /\ \A r \in runs : r.auto = a => at - r.at >= Config[a].schedule

-----------------------------------------------------------------------------
(* Evaluations. *)

Idle(n) == [pc |-> "idle", payload |-> "empty", at |-> 0, todo |-> {},
            auto |-> None, pending |-> {}, n |-> n]

NoDelete == [pc |-> "idle", auto |-> None, doomed |-> {}]

Init ==
  /\ exists \in AtStart
  /\ enabled = exists
  /\ runs = {}
  /\ proc = [p \in Procs |-> Idle(0)]
  /\ del = [d \in Deleters |-> NoDelete]
  /\ fired = {} /\ late = {}
  /\ now = 0
  /\ events = 0 /\ edits = 0 /\ faults = 0

\* _handle_event has stored the event and calls evaluate_event.
HandleEvent(h, payload) ==
  /\ proc[h].pc = "idle"
  /\ events < MaxEvents
  /\ events' = events + 1
  /\ proc' = [proc EXCEPT ![h] =
       [Idle(@.n + 1) EXCEPT !.pc = "load", !.payload = payload]]
  /\ UNCHANGED <<exists, enabled, runs, del, histories, now, edits, faults>>

\* The periodic loop wakes up.  Its passes need no numbers: their times tell
\* the runs of one automation apart.
StartPass(l) ==
  /\ proc[l].pc = "idle"
  /\ proc' = [proc EXCEPT ![l] = [Idle(0) EXCEPT !.pc = "load"]]
  /\ UNCHANGED <<exists, enabled, runs, del, histories, now, bounds>>

\* evaluate_event selects the automations of one kind, evaluate_periodic those
\* of the other.
Kind(p) == IF p \in Loops THEN "periodic" ELSE "event"

\* The automations and the time all decisions of the evaluation are based on.
Load(p) ==
  /\ proc[p].pc = "load"
  /\ proc' = [proc EXCEPT ![p].pc = "pick", ![p].at = now,
       ![p].todo = {a \in enabled : Config[a].trigger = Kind(p)}]
  /\ UNCHANGED <<exists, enabled, runs, del, histories, now, bounds>>

\* Process p is done with automation a and adds its run to the transaction.
AddRun(p, a, reason) ==
  proc' = [proc EXCEPT ![p].pc = "pick", ![p].todo = @ \ {a}, ![p].auto = None,
    ![p].pending = @ \cup
      {[auto |-> a, by |-> p, n |-> proc[p].n, at |-> proc[p].at,
        actions |-> ActionsColumn(reason = "fired"), reason |-> reason]}]

\* The query has no ORDER BY: the next automation may be any of the rest.
Picks(p, a) == proc[p].pc = "pick" /\ a \in proc[p].todo

\* Mutant: the loop never gets past an automation that is not due.
NotDueForever(l, a) ==
  /\ Picks(l, a)
  /\ ~ Due(a, proc[l].at)
  /\ UNCHANGED vars

NotDue(l, a) ==
  /\ Picks(l, a)
  /\ ~ Due(a, proc[l].at)
  /\ proc' = [proc EXCEPT ![l].todo = @ \ {a}]
  /\ UNCHANGED <<exists, enabled, runs, del, histories, now, bounds>>

Considers(p, a) == Picks(p, a) /\ (p \in Loops => Due(a, proc[p].at))

ConditionsPass(p, a) ==
  /\ Considers(p, a)
  /\ \/ Config[a].conditions = "none"
     \/ Config[a].conditions = "field" /\ proc[p].payload = "match"
  /\ proc' = [proc EXCEPT ![p].pc = "breaker", ![p].auto = a]
  /\ UNCHANGED <<exists, enabled, runs, del, histories, now, bounds>>

\* Mutant: an evaluation whose conditions fail is not recorded.
ConditionsFailUnrecorded(p, a) ==
  /\ Considers(p, a)
  /\ Config[a].conditions = "field" /\ proc[p].payload # "match"
  /\ proc' = [proc EXCEPT ![p].todo = @ \ {a}]
  /\ UNCHANGED <<exists, enabled, runs, del, histories, now, bounds>>

ConditionsFail(p, a) ==
  /\ Considers(p, a)
  /\ Config[a].conditions = "field" /\ proc[p].payload # "match"
  /\ AddRun(p, a, "conditions")
  /\ UNCHANGED <<exists, enabled, runs, del, histories, now, bounds>>

\* The exception leaves the engine: the session rolls back and the caller
\* logs the error.
ConditionsRaise(p, a) ==
  /\ Considers(p, a)
  /\ Config[a].conditions = "broken"
  /\ proc' = [proc EXCEPT ![p] = Idle(@.n)]
  /\ UNCHANGED <<exists, enabled, runs, del, histories, now, bounds>>

CheckBreaker(p) ==
  /\ proc[p].pc = "breaker"
  /\ IF CircuitOpen(proc[p].auto, proc[p].at)
       THEN AddRun(p, proc[p].auto, "circuit_open")
       ELSE proc' = [proc EXCEPT ![p].pc = "cooldown"]
  /\ UNCHANGED <<exists, enabled, runs, del, histories, now, bounds>>

CheckCooldown(p) ==
  /\ proc[p].pc = "cooldown"
  /\ IF CoolingDown(proc[p].auto, proc[p].at)
       THEN AddRun(p, proc[p].auto, "cooldown")
       ELSE proc' = [proc EXCEPT ![p].pc = "rate"]
  /\ UNCHANGED <<exists, enabled, runs, del, histories, now, bounds>>

CheckRate(p) ==
  /\ proc[p].pc = "rate"
  /\ IF RateLimited(proc[p].auto, proc[p].at)
       THEN AddRun(p, proc[p].auto, "rate_limited")
       ELSE proc' = [proc EXCEPT ![p].pc = "dispatch"]
  /\ UNCHANGED <<exists, enabled, runs, del, histories, now, bounds>>

\* The effects reach the outside world here; an action that raises is caught
\* and still counts as fired.
Dispatch(p) ==
  /\ proc[p].pc = "dispatch"
  /\ fired' = fired \cup {<<proc[p].auto, p, proc[p].n, proc[p].at>>}
  /\ AddRun(p, proc[p].auto, "fired")
  /\ UNCHANGED <<exists, enabled, runs, del, late, now, bounds>>

\* Mutant: an evaluation of several automations keeps only one of its runs.
CommitOneRun(p) ==
  /\ proc[p].pc = "pick" /\ proc[p].todo = {}
  /\ runs' = runs \cup
       {r \in proc[p].pending : r = CHOOSE q \in proc[p].pending : TRUE}
  /\ late' = late \cup {r \in proc[p].pending : r.auto \notin exists}
  /\ proc' = [proc EXCEPT ![p] = Idle(@.n)]
  /\ UNCHANGED <<exists, enabled, del, fired, now, bounds>>

CommitRuns(p) ==
  /\ proc[p].pc = "pick" /\ proc[p].todo = {}
  /\ runs' = runs \cup proc[p].pending
  /\ late' = late \cup {r \in proc[p].pending : r.auto \notin exists}
  /\ proc' = [proc EXCEPT ![p] = Idle(@.n)]
  /\ UNCHANGED <<exists, enabled, del, fired, now, bounds>>

\* A query or the commit fails, or an action that was caught has left the
\* transaction aborted: the session rolls back and the caller logs the error.
Fail(p) ==
  /\ proc[p].pc # "idle"
  /\ faults < MaxFaults
  /\ faults' = faults + 1
  /\ proc' = [proc EXCEPT ![p] = Idle(@.n)]
  /\ UNCHANGED <<exists, enabled, runs, del, histories, now, events, edits>>

-----------------------------------------------------------------------------
(* Operators and the environment. *)

\* A request that deletes automation a holds its row until it commits.
Locked(a) ==
  a \in exists /\ \E d \in Deleters : del[d].pc = "commit" /\ del[d].auto = a

\* An update or a toggle commits a value for the enabled flag.  Concurrent
\* read-modify-writes may commit either value, so both are always possible.
SetEnabled(a, on) ==
  /\ a \in exists /\ ~ Locked(a)
  /\ edits < MaxEdits
  /\ edits' = edits + 1
  /\ enabled' = IF on THEN enabled \cup {a} ELSE enabled \ {a}
  /\ UNCHANGED <<exists, runs, proc, del, histories, now, events, faults>>

\* delete_automation finds the automation.
AskDelete(d, a) ==
  /\ del[d].pc = "idle"
  /\ a \in exists
  /\ edits < MaxEdits
  /\ edits' = edits + 1
  /\ del' = [del EXCEPT ![d] = [NoDelete EXCEPT !.pc = "delete", !.auto = a]]
  /\ UNCHANGED <<exists, enabled, runs, proc, histories, now, events, faults>>

\* The two DELETEs: the first waits for the row, which another request may have
\* deleted meanwhile; the second takes the runs that are committed by then.
\* Until the commit everyone else still sees the automation and its runs.
DeleteRows(d) ==
  /\ del[d].pc = "delete" /\ ~ Locked(del[d].auto)
  /\ del' = [del EXCEPT ![d].pc = "commit",
                        ![d].doomed = {r \in runs : r.auto = del[d].auto}]
  /\ UNCHANGED <<exists, enabled, runs, proc, histories, now, bounds>>

\* Mutant: evaluations work from a list of automations that outlives the row.
CommitDeleteBehindCache(d) ==
  /\ del[d].pc = "commit"
  /\ exists' = exists \ {del[d].auto}
  /\ runs' = runs \ del[d].doomed
  /\ del' = [del EXCEPT ![d] = NoDelete]
  /\ UNCHANGED <<enabled, proc, histories, now, bounds>>

CommitDelete(d) ==
  /\ del[d].pc = "commit"
  /\ exists' = exists \ {del[d].auto}
  /\ enabled' = enabled \ {del[d].auto}
  /\ runs' = runs \ del[d].doomed
  /\ del' = [del EXCEPT ![d] = NoDelete]
  /\ UNCHANGED <<proc, histories, now, bounds>>

\* The request, or its process, dies before its commit.
FailDelete(d) ==
  /\ del[d].pc # "idle"
  /\ del' = [del EXCEPT ![d] = NoDelete]
  /\ UNCHANGED <<exists, enabled, runs, proc, histories, now, bounds>>

\* The consumer dies, or is stopped with coroutines in flight.
Crash ==
  /\ faults < MaxFaults
  /\ faults' = faults + 1
  /\ proc' = [p \in Procs |-> Idle(proc[p].n)]
  /\ UNCHANGED <<exists, enabled, runs, del, histories, now, events, edits>>

Tick ==
  /\ now < MaxTime
  /\ now' = now + 1
  /\ UNCHANGED <<exists, enabled, runs, proc, del, histories, bounds>>

Payloads == {"match", "other"}

Step(p) ==
  \/ Load(p)
  \/ \E a \in Autos :
       \/ p \in Loops /\ NotDue(p, a)
       \/ ConditionsPass(p, a)
       \/ ConditionsFail(p, a)
       \/ ConditionsRaise(p, a)
  \/ CheckBreaker(p)
  \/ CheckCooldown(p)
  \/ CheckRate(p)
  \/ Dispatch(p)
  \/ CommitRuns(p)

Next ==
  \/ \E h \in Handlers, payload \in Payloads : HandleEvent(h, payload)
  \/ \E l \in Loops : StartPass(l)
  \/ \E p \in Procs : Step(p) \/ Fail(p)
  \/ \E a \in Autos, on \in BOOLEAN : SetEnabled(a, on)
  \/ \E d \in Deleters :
       \/ \E a \in Autos : AskDelete(d, a)
       \/ DeleteRows(d)
       \/ CommitDelete(d)
       \/ FailDelete(d)
  \/ Crash
  \/ Tick

Spec == Init /\ [][Next]_vars

\* The event loop runs every coroutine to its end, and the periodic loop
\* starts a pass again and again.
Fairness ==
  /\ \A p \in Procs : WF_vars(Step(p))
  /\ \A l \in Loops : WF_vars(StartPass(l))

FairSpec == Spec /\ Fairness

-----------------------------------------------------------------------------
(* Properties. *)

ProcState ==
  [pc : {"idle", "load", "pick", "breaker", "cooldown", "rate", "dispatch"},
   payload : {"match", "other", "empty"}, at : Time, todo : SUBSET Autos,
   auto : Autos \cup {None}, pending : SUBSET Run, n : Nat]

DeleteState ==
  [pc : {"idle", "delete", "commit"}, auto : Autos \cup {None}, doomed : SUBSET Run]

Deciding == {"breaker", "cooldown", "rate", "dispatch"}

\* An evaluation decides about an automation that it has loaded and has not
\* yet recorded a run of.
ProcOK(c) ==
  /\ c \in ProcState
  /\ c.pc \in Deciding => c.auto \in c.todo

\* Type invariant of the engine: what each variable holds, that only automations
\* that exist are enabled, and that a deletion takes only its automation's runs.
TypeOK ==
  /\ enabled \subseteq exists /\ exists \subseteq Autos
  /\ runs \subseteq Run
  /\ proc \in [Procs -> ProcState]
  /\ \A p \in Procs : ProcOK(proc[p])
  /\ del \in [Deleters -> DeleteState]
  /\ \A d \in Deleters : \A r \in del[d].doomed : r.auto = del[d].auto
  /\ fired \subseteq Autos \X Procs \X Nat \X Time /\ late \subseteq Run
  /\ now \in Nat /\ events \in Nat /\ edits \in Nat /\ faults \in Nat

FiringRuns(a) == {r \in runs : r.auto = a /\ r.reason = "fired"}

Between(a, first, last) == {r \in FiringRuns(a) : first <= r.at /\ r.at <= last}

\* _check_rate_limits, cooldown: an evaluation never fires within the cooldown
\* of a firing recorded by the same process, whatever the others do meanwhile.
StreamCooldown ==
  \A a \in Autos : Config[a].cooldown # None =>
    \A r, q \in FiringRuns(a) :
      r.by = q.by /\ r # q =>
        \/ r.at - q.at >= Config[a].cooldown
        \/ q.at - r.at >= Config[a].cooldown

\* The processes that evaluate an automation: the loops a periodic one, the
\* handlers any other.
Evaluators(a) == {p \in Procs : Kind(p) = Config[a].trigger}

\* _check_rate_limits, cooldown: how far concurrent evaluations can overshoot.
\* Within one cooldown no more firings of an automation are recorded than there
\* are processes that evaluate it; with one, this is the documented cooldown.
CooldownOvershoot ==
  \A a \in Autos : Config[a].cooldown # None =>
    \A r \in FiringRuns(a) :
      Cardinality({q \in FiringRuns(a) :
                     r.at <= q.at /\ q.at - r.at < Config[a].cooldown})
        <= Cardinality(Evaluators(a))

\* _check_rate_limits, max_runs_per_window: concurrent evaluations overshoot
\* the limit by at most one firing for each other process that evaluates the
\* automation.
RateOvershoot ==
  \A a \in Autos : Config[a].maxRuns # None /\ Config[a].window # None =>
    \A r \in FiringRuns(a) :
      Cardinality(Between(a, r.at, r.at + Config[a].window))
        <= Config[a].maxRuns + Cardinality(Evaluators(a)) - 1

\* _check_circuit_breaker: likewise for the breaker's threshold and window.
BreakerOvershoot ==
  \A a \in Autos : Config[a].threshold # 0 /\ Config[a].breakerWindow # 0 =>
    \A r \in FiringRuns(a) :
      Cardinality(Between(a, r.at, r.at + Config[a].breakerWindow))
        <= Config[a].threshold + Cardinality(Evaluators(a)) - 1

\* _evaluate_event, _evaluate_periodic: as long as no consumer has crashed and
\* no query or commit of an evaluation has failed, every dispatch is in the run
\* log, or in the transaction that is about to record it, or gone with its
\* automation.
DispatchesRecorded ==
  \A f \in fired :
    faults = 0 /\ f[1] \in exists =>
      \E r \in runs \cup UNION {proc[p].pending : p \in Procs} :
        r.reason = "fired" /\ <<r.auto, r.by, r.n, r.at>> = f

\* delete_automation against evaluations in flight: once the deletion of an
\* automation has committed, each process adds at most the one run it had
\* already begun.  (Runs committed between the DELETEs and their commit are in
\* neither: they stay in the log, as many as there are.)
OneLateRunEach ==
  \A r, q \in late : r.auto = q.auto /\ r.by = q.by => r = q

\* _evaluate_periodic: a periodic loop leaves at least a schedule between two
\* runs of an automation, across crashes and whatever the runs' outcomes.
PeriodicSpacing ==
  \A r, q \in runs :
    r.auto = q.auto /\ Config[r.auto].trigger = "periodic" /\ r.by = q.by /\ r # q =>
      \/ r.at - q.at >= Config[r.auto].schedule
      \/ q.at - r.at >= Config[r.auto].schedule

\* receiver.py _handle_event, _periodic_automation_check: no evaluation is
\* stuck, whatever is edited or deleted under it.
EvaluationsFinish ==
  \A p \in Procs : proc[p].pc # "idle" ~> proc[p].pc = "idle"

\* _evaluate_periodic: an enabled periodic automation whose schedule is due is
\* run, unless it is disabled or deleted first, or one that raises stands in its
\* way: that one ends every pass that comes to it first.
Obstructs(b) ==
  /\ b \in enabled
  /\ Config[b].trigger = "periodic" /\ Config[b].conditions = "broken"

PeriodicServed ==
  \A a \in Autos :
    (a \in enabled /\ Config[a].trigger = "periodic" /\ Due(a, now))
      ~> (a \notin enabled \/ ~ Due(a, now) \/ \E b \in Autos : Obstructs(b))

-----------------------------------------------------------------------------
(* What the documentation says. *)

\* docs/usage/automations.md, cooldown_seconds: after firing, wait at least
\* this long before firing again.
CooldownRespected ==
  \A a \in Autos : Config[a].cooldown # None =>
    \A r, q \in FiringRuns(a) :
      r # q => \/ r.at - q.at >= Config[a].cooldown
               \/ q.at - r.at >= Config[a].cooldown

\* workflow.py _last_fire_time: only a run that fired starts a cooldown.
CooldownFollowsFiring ==
  \A r \in runs :
    r.reason = "cooldown" =>
      \E q \in FiringRuns(r.auto) : r.at - q.at < Config[r.auto].cooldown
=============================================================================
