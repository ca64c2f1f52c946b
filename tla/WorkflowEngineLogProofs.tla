----------------------- MODULE WorkflowEngineLogProofs -----------------------
(***************************************************************************)
(* WorkflowEngine, continued: what the run log tells.  A periodic loop     *)
(* keeps to the schedule (PeriodicSpacing), an automation that is gone     *)
(* gets at most one more run per process (OneLateRunEach), and, where no   *)
(* automation raises, every dispatch is recorded (DispatchesRecorded).     *)
(***************************************************************************)
EXTENDS WorkflowEngineProofs

\* The automations an evaluation has begun with, and those of them it has
\* decided to record a run of.
Recorded(c) == {r.auto : r \in c.pending}
Begun(c) == c.todo \cup Recorded(c)
Decided(c) == Recorded(c) \cup (IF c.pc \in Deciding THEN {c.auto} ELSE {})

NoLateRunBy(a, p) == \A r \in late : ~ (r.auto = a /\ r.by = p)

Spaced(a, p, t) ==
  \A r \in runs : r.auto = a /\ r.by = p => t - r.at >= Config[a].schedule

\* What the run log has of process p while c is its evaluation.  Only p adds
\* runs of its own, so what its query told it stays true until its commit.
LogOK(p, c) ==
  /\ \A a \in Begun(c) : Config[a].trigger = Kind(p)
  /\ \A a \in Begun(c) : a \notin exists => NoLateRunBy(a, p)
  /\ \A a \in Decided(c) : Config[a].trigger = "periodic" => Spaced(a, p, c.at)

\* A run was recorded by a process of the kind that evaluates its automation.
KindsOK == \A r \in runs : Config[r.auto].trigger = Kind(r.by)

\* Only runs of automations that are gone, and gone for good, are late.
LateGone == \A r \in late : r.auto \notin exists

LogInv ==
  /\ IInv
  /\ KindsOK
  /\ LateGone
  /\ OneLateRunEach
  /\ PeriodicSpacing
  /\ \A p \in Procs : LogOK(p, proc[p])

-----------------------------------------------------------------------------
(* Steps of one evaluation. *)

LEMMA NothingBegun ==
  ASSUME NEW p, NEW c, c.todo = {}, c.pending = {}, c.pc \notin Deciding
  PROVE  LogOK(p, c)
BY DEF LogOK, Begun, Decided, Recorded

\* A step of p that adds no run to the log and deletes no automation.
LEMMA LogKept ==
  ASSUME LogInv, IInv', NEW p \in Procs, NEW new, LogOK(p, new),
         proc' = [proc EXCEPT ![p] = new], UNCHANGED <<exists, runs, late>>
  PROVE  LogInv'
<1>1. KindsOK' /\ LateGone' /\ OneLateRunEach' /\ PeriodicSpacing'
  BY DEF LogInv, KindsOK, LateGone, OneLateRunEach, PeriodicSpacing
<1>2. ASSUME NEW o \in Procs PROVE LogOK(o, proc[o])'
  <2>1. proc'[o] = IF o = p THEN new ELSE proc[o]
    BY DEF LogInv, IInv, TypeOK
  <2>2. LogOK(o, proc'[o])
    BY <2>1 DEF LogInv
  <2> QED BY <2>2 DEF LogOK, NoLateRunBy, Spaced
<1> QED BY <1>1, <1>2 DEF LogInv

\* An evaluation goes on: what it decides on now is due if it is periodic.
LEMMA GoesOn ==
  ASSUME LogInv, NEW p \in Procs, NEW new, new.at = proc[p].at,
         Begun(new) \subseteq Begun(proc[p]),
         \A a \in Decided(new) :
           \/ a \in Decided(proc[p])
           \/ a \in proc[p].todo /\ (p \in Loops => Due(a, proc[p].at))
  PROVE  LogOK(p, new)
<1>1. LogOK(p, proc[p])
  BY DEF LogInv
<1>2. ASSUME NEW a \in Decided(new), Config[a].trigger = "periodic"
      PROVE  Spaced(a, p, new.at)
  <2>1. CASE a \in Decided(proc[p])
    BY <1>1, <1>2, <2>1 DEF LogOK
  <2>2. CASE a \in proc[p].todo /\ (p \in Loops => Due(a, proc[p].at))
    <3>1. Config[a].trigger = Kind(p)
      BY <1>1, <2>2 DEF LogOK, Begun
    <3>2. p \in Loops
      BY <1>2, <3>1 DEF Kind
    <3> QED BY <2>2, <3>2 DEF Due, Spaced
  <2> QED BY <2>1, <2>2
<1> QED BY <1>1, <1>2 DEF LogOK

\* An evaluation begins, or is given up.
LEMMA AnewLog ==
  ASSUME LogInv, IInv', NEW p \in Procs, NEW new,
         proc' = [proc EXCEPT ![p] = new], UNCHANGED <<exists, runs, late>>,
         new.todo = {}, new.pending = {}, new.pc \in {"idle", "load"}
  PROVE  LogInv'
<1>1. LogOK(p, new)
  BY NothingBegun DEF Deciding
<1> QED BY <1>1, LogKept

LEMMA HandleEventLog ==
  ASSUME LogInv, IInv', NEW h \in Handlers, NEW payload \in Payloads,
         HandleEvent(h, payload)
  PROVE  LogInv'
<1> DEFINE new == [Idle(proc[h].n + 1) EXCEPT !.pc = "load", !.payload = payload]
<1>1. new.todo = {} /\ new.pending = {} /\ new.pc \in {"idle", "load"}
  BY DEF Idle
<1>2. proc' = [proc EXCEPT ![h] = new] /\ UNCHANGED <<exists, runs, late>> /\ h \in Procs
  BY DEF HandleEvent, Procs, histories
<1> HIDE DEF new
<1> QED BY <1>1, <1>2, AnewLog

LEMMA StartPassLog ==
  ASSUME LogInv, IInv', NEW l \in Loops, StartPass(l)
  PROVE  LogInv'
<1> DEFINE new == [Idle(0) EXCEPT !.pc = "load"]
<1>1. new.todo = {} /\ new.pending = {} /\ new.pc \in {"idle", "load"}
  BY DEF Idle
<1>2. proc' = [proc EXCEPT ![l] = new] /\ UNCHANGED <<exists, runs, late>> /\ l \in Procs
  BY DEF StartPass, Procs, histories
<1> HIDE DEF new
<1> QED BY <1>1, <1>2, AnewLog

LEMMA ConditionsRaiseLog ==
  ASSUME LogInv, IInv', NEW p \in Procs, NEW a \in Autos, ConditionsRaise(p, a)
  PROVE  LogInv'
<1> DEFINE new == Idle(proc[p].n)
<1>1. new.todo = {} /\ new.pending = {} /\ new.pc \in {"idle", "load"}
  BY DEF Idle
<1>2. proc' = [proc EXCEPT ![p] = new] /\ UNCHANGED <<exists, runs, late>>
  BY DEF ConditionsRaise, histories
<1> HIDE DEF new
<1> QED BY <1>1, <1>2, AnewLog

LEMMA FailLog ==
  ASSUME LogInv, IInv', NEW p \in Procs, Fail(p)
  PROVE  LogInv'
<1> DEFINE new == Idle(proc[p].n)
<1>1. new.todo = {} /\ new.pending = {} /\ new.pc \in {"idle", "load"}
  BY DEF Idle
<1>2. proc' = [proc EXCEPT ![p] = new] /\ UNCHANGED <<exists, runs, late>>
  BY DEF Fail, histories
<1> HIDE DEF new
<1> QED BY <1>1, <1>2, AnewLog

LEMMA LoadLog ==
  ASSUME LogInv, IInv', NEW p \in Procs, Load(p)
  PROVE  LogInv'
<1> DEFINE loaded == {a \in enabled : Config[a].trigger = Kind(p)}
           new == [proc[p] EXCEPT !.pc = "pick", !.at = now, !.todo = loaded]
<1>1. proc[p].pending = {} /\ proc[p] \in ProcState
  BY ProcType DEF LogInv, IInv, StreamOK, Load
<1>2. proc' = [proc EXCEPT ![p] = new] /\ UNCHANGED <<exists, runs, late>>
  BY DEF Load, histories
<1>3. \A a \in loaded : a \in exists /\ Config[a].trigger = Kind(p)
  BY DEF LogInv, IInv, TypeOK
<1> HIDE DEF loaded
<1>4. new.pc = "pick" /\ new.todo = loaded /\ new.pending = {}
  BY <1>1 DEF ProcState
<1> HIDE DEF new
<1>5. Begun(new) = loaded /\ Decided(new) = {}
  BY <1>4 DEF Begun, Decided, Recorded, Deciding
<1>6. LogOK(p, new)
  BY <1>3, <1>5 DEF LogOK
<1> QED BY <1>2, <1>6, LogKept

LEMMA NotDueLog ==
  ASSUME LogInv, IInv', NEW p \in Procs, NEW a \in Autos, NotDue(p, a)
  PROVE  LogInv'
<1> DEFINE new == [proc[p] EXCEPT !.todo = @ \ {a}]
<1>1. proc[p] \in ProcState
  BY ProcType DEF LogInv, IInv
<1>2. proc' = [proc EXCEPT ![p] = new] /\ UNCHANGED <<exists, runs, late>>
  BY DEF NotDue, histories
<1>3. /\ new.at = proc[p].at /\ new.todo \subseteq proc[p].todo
      /\ new.pending = proc[p].pending /\ new.pc = proc[p].pc /\ new.auto = proc[p].auto
  BY <1>1 DEF ProcState
<1> HIDE DEF new
<1>4. Begun(new) \subseteq Begun(proc[p]) /\ Decided(new) = Decided(proc[p])
  BY <1>3 DEF Begun, Decided, Recorded
<1>5. LogOK(p, new)
  BY <1>3, <1>4, GoesOn
<1> QED BY <1>2, <1>5, LogKept

LEMMA ConditionsPassLog ==
  ASSUME LogInv, IInv', NEW p \in Procs, NEW a \in Autos, ConditionsPass(p, a)
  PROVE  LogInv'
<1> DEFINE new == [proc[p] EXCEPT !.pc = "breaker", !.auto = a]
<1>1. proc[p] \in ProcState
  BY ProcType DEF LogInv, IInv
<1>2. proc' = [proc EXCEPT ![p] = new] /\ UNCHANGED <<exists, runs, late>>
  BY DEF ConditionsPass, histories
<1>3. /\ new.at = proc[p].at /\ new.todo = proc[p].todo
      /\ new.pending = proc[p].pending /\ new.auto = a
  BY <1>1 DEF ProcState
<1>4. a \in proc[p].todo /\ (p \in Loops => Due(a, proc[p].at))
  BY DEF ConditionsPass, Considers, Picks
<1> HIDE DEF new
<1>5. /\ Begun(new) = Begun(proc[p])
      /\ \A b \in Decided(new) : b \in Decided(proc[p]) \/ b = a
  BY <1>3 DEF Begun, Decided, Recorded
<1>6. LogOK(p, new)
  BY <1>3, <1>4, <1>5, GoesOn
<1> QED BY <1>2, <1>6, LogKept

\* A check lets the evaluation on to the next one.
LEMMA NextCheckLog ==
  ASSUME LogInv, IInv', NEW p \in Procs, proc[p].pc \in Deciding,
         NEW pc \in Deciding, proc' = [proc EXCEPT ![p].pc = pc],
         UNCHANGED <<exists, runs, late>>
  PROVE  LogInv'
<1> DEFINE new == [proc[p] EXCEPT !.pc = pc]
<1>1. proc[p] \in ProcState
  BY ProcType DEF LogInv, IInv
<1>2. proc' = [proc EXCEPT ![p] = new]
  OBVIOUS
<1>3. /\ new.at = proc[p].at /\ new.todo = proc[p].todo
      /\ new.pending = proc[p].pending /\ new.auto = proc[p].auto
  BY <1>1 DEF ProcState
<1> HIDE DEF new
<1>4. Begun(new) = Begun(proc[p]) /\ Decided(new) \subseteq Decided(proc[p])
  BY <1>3 DEF Begun, Decided, Recorded
<1>5. LogOK(p, new)
  BY <1>3, <1>4, GoesOn
<1> QED BY <1>2, <1>5, LogKept

\* A run is added of an automation that has been decided on, or is due.
LEMMA AddRunLog ==
  ASSUME LogInv, IInv', NEW p \in Procs, NEW a \in proc[p].todo, NEW reason,
         AddRun(p, a, reason), UNCHANGED <<exists, runs, late>>,
         a \in Decided(proc[p]) \/ (p \in Loops => Due(a, proc[p].at))
  PROVE  LogInv'
<1> DEFINE run == [auto |-> a, by |-> p, n |-> proc[p].n, at |-> proc[p].at,
                   actions |-> ActionsColumn(reason = "fired"), reason |-> reason]
           new == [proc[p] EXCEPT !.pc = "pick", !.todo = @ \ {a}, !.auto = None,
                                  !.pending = @ \cup {run}]
<1>1. proc[p] \in ProcState
  BY ProcType DEF LogInv, IInv
<1>2. proc' = [proc EXCEPT ![p] = new]
  BY DEF AddRun
<1>3. run.auto = a
  OBVIOUS
<1> HIDE DEF run
<1>4. /\ new.at = proc[p].at /\ new.todo = proc[p].todo \ {a} /\ new.pc = "pick"
      /\ new.pending = proc[p].pending \cup {run}
  BY <1>1 DEF ProcState
<1> HIDE DEF new
<1>5. Recorded(new) = Recorded(proc[p]) \cup {a}
  BY <1>3, <1>4 DEF Recorded
<1>6. Begun(new) \subseteq Begun(proc[p]) /\ Decided(new) = Recorded(proc[p]) \cup {a}
  BY <1>4, <1>5 DEF Begun, Decided, Deciding
<1>7. \A b \in Decided(new) : b \in Decided(proc[p]) \/ b = a
  BY <1>6 DEF Decided
<1>8. LogOK(p, new)
  BY <1>4, <1>6, <1>7, GoesOn
<1> QED BY <1>2, <1>8, LogKept

LEMMA CheckLog ==
  ASSUME LogInv, IInv', NEW p \in Procs,
         \/ \E a \in Autos : ConditionsFail(p, a)
         \/ CheckBreaker(p) \/ CheckCooldown(p) \/ CheckRate(p) \/ Dispatch(p)
  PROVE  LogInv'
<1>1. UNCHANGED <<exists, runs, late>>
  BY DEF ConditionsFail, CheckBreaker, CheckCooldown, CheckRate, Dispatch, histories
<1>2. ASSUME NEW a \in Autos, ConditionsFail(p, a) PROVE LogInv'
  <2>1. /\ a \in proc[p].todo /\ AddRun(p, a, "conditions")
        /\ p \in Loops => Due(a, proc[p].at)
    BY <1>2 DEF ConditionsFail, Considers, Picks
  <2> QED BY <1>1, <2>1, AddRunLog
<1>3. ASSUME proc[p].pc \in Deciding,
             \/ \E reason \in Reasons : AddRun(p, proc[p].auto, reason)
             \/ \E pc \in Deciding : proc' = [proc EXCEPT ![p].pc = pc]
      PROVE  LogInv'
  <2>1. proc[p].auto \in proc[p].todo
    BY <1>3, ProcType DEF LogInv, IInv
  <2>2. proc[p].auto \in Decided(proc[p])
    BY <1>3 DEF Decided
  <2> QED BY <1>1, <1>3, <2>1, <2>2, AddRunLog, NextCheckLog
<1> QED BY <1>2, <1>3 DEF CheckBreaker, CheckCooldown, CheckRate, Dispatch, Deciding, Reasons

\* The runs of an evaluation enter the log.
LEMMA CommitRunsLog ==
  ASSUME LogInv, IInv', NEW p \in Procs, CommitRuns(p)
  PROVE  LogInv'
<1>1. /\ runs' = runs \cup proc[p].pending /\ exists' = exists
      /\ late' = late \cup {r \in proc[p].pending : r.auto \notin exists}
      /\ proc' = [proc EXCEPT ![p] = Idle(proc[p].n)]
  BY DEF CommitRuns
<1>2. StreamOK(p, proc[p]) /\ LogOK(p, proc[p])
  BY DEF LogInv, IInv
<1>3. \A r \in proc[p].pending :
        /\ r.by = p /\ r.at = proc[p].at /\ Config[r.auto].trigger = Kind(p)
        /\ r.auto \notin exists => NoLateRunBy(r.auto, p)
        /\ Config[r.auto].trigger = "periodic" => Spaced(r.auto, p, r.at)
  <2>1. \A r \in proc[p].pending :
          r.auto \in Begun(proc[p]) /\ r.auto \in Decided(proc[p])
    BY DEF Begun, Decided, Recorded
  <2> QED BY <1>2, <2>1 DEF StreamOK, LogOK
<1>4. \A r, q \in proc[p].pending : r.auto = q.auto => r = q
  BY <1>2 DEF StreamOK
<1>5. OneLateRunEach' /\ LateGone'
  <2>1. LateGone'
    BY <1>1 DEF LogInv, LateGone
  <2> SUFFICES ASSUME NEW r \in late', NEW q \in late', r.auto = q.auto, r.by = q.by
               PROVE  r = q
    BY <2>1 DEF OneLateRunEach
  <2>2. CASE r \in late /\ q \in late
    BY <2>2 DEF LogInv, OneLateRunEach
  <2>3. ASSUME NEW x \in proc[p].pending, x.auto \notin exists, NEW y \in late,
               x.auto = y.auto, x.by = y.by
        PROVE  FALSE
    BY <1>3, <2>3 DEF NoLateRunBy
  <2>4. CASE r \in proc[p].pending /\ q \in proc[p].pending
    BY <1>4, <2>4
  <2> QED BY <1>1, <2>2, <2>3, <2>4
<1>6. PeriodicSpacing'
  <2> SUFFICES ASSUME NEW r \in runs', NEW q \in runs', r.auto = q.auto,
                      Config[r.auto].trigger = "periodic", r.by = q.by, r # q
               PROVE  \/ r.at - q.at >= Config[r.auto].schedule
                      \/ q.at - r.at >= Config[r.auto].schedule
    BY DEF PeriodicSpacing
  <2>1. CASE r \in runs /\ q \in runs
    BY <2>1 DEF LogInv, PeriodicSpacing
  <2>2. CASE r \in proc[p].pending /\ q \in runs
    BY <1>3, <2>2 DEF Spaced
  <2>3. CASE r \in runs /\ q \in proc[p].pending
    BY <1>3, <2>3 DEF Spaced
  <2>4. CASE r \in proc[p].pending /\ q \in proc[p].pending
    BY <1>4, <2>4
  <2> QED BY <1>1, <2>1, <2>2, <2>3, <2>4
<1>7. ASSUME NEW o \in Procs PROVE LogOK(o, proc[o])'
  <2>1. proc'[o] = IF o = p THEN Idle(proc[p].n) ELSE proc[o]
    BY <1>1 DEF LogInv, IInv, TypeOK
  <2>2. CASE o = p
    BY <2>1, <2>2 DEF LogOK, Begun, Decided, Recorded, Idle, Deciding
  <2>3. CASE o # p
    <3>1. proc'[o] = proc[o] /\ LogOK(o, proc[o])
      BY <2>1, <2>3 DEF LogInv
    <3>2. exists' = exists
      BY <1>1
    <3>3. \A r \in runs' : r.by = o => r \in runs
      BY <1>1, <1>3, <2>3
    <3>4. \A r \in late' : r.by = o => r \in late
      BY <1>1, <1>3, <2>3
    <3>5. \A a : NoLateRunBy(a, o) => NoLateRunBy(a, o)'
      BY <3>4 DEF NoLateRunBy
    <3>6. \A a, t : Spaced(a, o, t) => Spaced(a, o, t)'
      BY <3>3 DEF Spaced
    <3> QED BY <3>1, <3>2, <3>5, <3>6 DEF LogOK
  <2> QED BY <2>2, <2>3
<1>8. KindsOK'
  BY <1>1, <1>3 DEF LogInv, KindsOK
<1> QED BY <1>5, <1>6, <1>7, <1>8 DEF LogInv

\* The environment takes runs and automations away.
LEMMA FewerLog ==
  ASSUME LogInv, IInv', runs' \subseteq runs, exists' \subseteq exists, late' = late,
         \A p \in Procs : proc'[p] = proc[p] \/ \E n \in Nat : proc'[p] = Idle(n)
  PROVE  LogInv'
<1>1. OneLateRunEach' /\ LateGone' /\ KindsOK'
  BY DEF LogInv, OneLateRunEach, LateGone, KindsOK
<1>2. PeriodicSpacing'
  BY DEF LogInv, PeriodicSpacing
<1>3. ASSUME NEW p \in Procs PROVE LogOK(p, proc[p])'
  <2>1. CASE proc'[p] = proc[p]
    <3>1. LogOK(p, proc[p])
      BY DEF LogInv
    <3>2. \A a : a \in exists => NoLateRunBy(a, p)
      BY DEF LogInv, LateGone, NoLateRunBy
    <3> QED BY <2>1, <3>1, <3>2 DEF LogOK, NoLateRunBy, Spaced
  <2>2. CASE \E n \in Nat : proc'[p] = Idle(n)
    BY <2>2 DEF LogOK, Begun, Decided, Recorded, Idle, Deciding
  <2> QED BY <2>1, <2>2
<1> QED BY <1>1, <1>2, <1>3 DEF LogInv

LEMMA InitLogInv == Init => LogInv
<1> SUFFICES ASSUME Init PROVE LogInv
  OBVIOUS
<1>1. \A p \in Procs : proc[p] = Idle(0)
  BY DEF Init
<1>2. \A p \in Procs : LogOK(p, proc[p])
  BY <1>1 DEF LogOK, Begun, Decided, Recorded, Idle, Deciding
<1>3. KindsOK /\ LateGone /\ OneLateRunEach /\ PeriodicSpacing
  BY DEF Init, KindsOK, LateGone, OneLateRunEach, PeriodicSpacing
<1> QED BY <1>2, <1>3, InitIInv DEF LogInv

LEMMA StepLogInv == LogInv /\ [Next]_vars => LogInv'
<1> SUFFICES ASSUME LogInv, [Next]_vars PROVE LogInv'
  OBVIOUS
<1>1. IInv'
  BY StepIInv DEF LogInv
<1>2. ASSUME NEW p \in Procs, Step(p) PROVE LogInv'
  BY <1>1, <1>2, LoadLog, NotDueLog, ConditionsPassLog, ConditionsRaiseLog,
     CheckLog, CommitRunsLog DEF Step
<1>3. ASSUME NEW a \in Autos, NEW on \in BOOLEAN, SetEnabled(a, on) PROVE LogInv'
  BY <1>1, <1>3, FewerLog DEF SetEnabled, histories
<1>4. ASSUME NEW d \in Deleters,
             \/ \E a \in Autos : AskDelete(d, a)
             \/ DeleteRows(d) \/ CommitDelete(d) \/ FailDelete(d)
      PROVE  LogInv'
  BY <1>1, <1>4, FewerLog DEF AskDelete, DeleteRows, CommitDelete, FailDelete, histories
<1>5. CASE Crash
  <2>1. \A p \in Procs : proc[p].n \in Nat /\ proc'[p] = Idle(proc[p].n)
    BY <1>5, ProcType DEF Crash, LogInv, IInv
  <2>2. runs' = runs /\ exists' = exists /\ late' = late
    BY <1>5 DEF Crash, histories
  <2> QED BY <1>1, <2>1, <2>2, FewerLog
<1>6. CASE Tick
  BY <1>1, <1>6, FewerLog DEF Tick, histories
<1>7. CASE UNCHANGED vars
  BY <1>1, <1>7, FewerLog DEF vars
<1> QED
  BY <1>1, <1>2, <1>3, <1>4, <1>5, <1>6, <1>7, HandleEventLog, StartPassLog, FailLog
  DEF Next

LEMMA LogInvariance == Spec => []LogInv
BY InitLogInv, StepLogInv, PTL DEF Spec

\* workflow.py _evaluate_periodic: a periodic loop leaves at least a schedule
\* between two runs of an automation, across crashes.
THEOREM LoopsKeepSchedule == Spec => []PeriodicSpacing
<1>1. LogInv => PeriodicSpacing
  BY DEF LogInv
<1> QED BY <1>1, LogInvariance, PTL

\* workflow.py against delete_automation: once a deletion has committed, a process
\* adds at most the one run it had already begun of the automation that is gone.
THEOREM LateRunsBounded == Spec => []OneLateRunEach
<1>1. LogInv => OneLateRunEach
  BY DEF LogInv
<1> QED BY <1>1, LogInvariance, PTL

-----------------------------------------------------------------------------
(* What was dispatched is recorded. *)

NoneRaises == \A a \in Autos : Config[a].conditions # "broken"

RecordOf(f, r) == r.reason = "fired" /\ <<r.auto, r.by, r.n, r.at>> = f

\* The runs in the log and those about to enter it.
Held == runs \cup UNION {proc[p].pending : p \in Procs}

DispatchInv == IInv /\ (NoneRaises => DispatchesRecorded)

\* What keeps every record of an automation that is left, and records what it
\* dispatches, keeps DispatchesRecorded.
LEMMA HeldKept ==
  ASSUME DispatchInv, IInv', NoneRaises, exists' \subseteq exists, faults' = faults,
         \A r \in Held : r.auto \in exists' => r \in Held',
         \A f \in fired' : f \in fired \/ \E r \in Held' : RecordOf(f, r)
  PROVE  DispatchInv'
BY DEF DispatchInv, DispatchesRecorded, Held, RecordOf

\* A step of one process that adds to its transaction, and dispatches nothing.
LEMMA PendingKept ==
  ASSUME DispatchInv, IInv', NoneRaises, NEW p \in Procs, NEW new,
         proc' = [proc EXCEPT ![p] = new], proc[p].pending \subseteq new.pending,
         UNCHANGED <<exists, runs, fired, faults>>
  PROVE  DispatchInv'
<1>1. \A o \in Procs : proc'[o] = IF o = p THEN new ELSE proc[o]
  BY DEF DispatchInv, IInv, TypeOK
<1>2. \A r \in Held : r \in Held'
  BY <1>1 DEF Held
<1> QED BY <1>2, HeldKept

LEMMA AddRunHeld ==
  ASSUME DispatchInv, IInv', NoneRaises, NEW p \in Procs, NEW a, NEW reason,
         AddRun(p, a, reason), UNCHANGED <<exists, runs, fired, faults>>
  PROVE  DispatchInv'
<1> DEFINE run == [auto |-> a, by |-> p, n |-> proc[p].n, at |-> proc[p].at,
                   actions |-> ActionsColumn(reason = "fired"), reason |-> reason]
           new == [proc[p] EXCEPT !.pc = "pick", !.todo = @ \ {a}, !.auto = None,
                                  !.pending = @ \cup {run}]
<1>1. proc[p] \in ProcState
  BY ProcType DEF DispatchInv, IInv
<1>2. proc' = [proc EXCEPT ![p] = new]
  BY DEF AddRun
<1> HIDE DEF run
<1>3. proc[p].pending \subseteq new.pending
  BY <1>1 DEF ProcState
<1> HIDE DEF new
<1> QED BY <1>2, <1>3, PendingKept

LEMMA NextCheckHeld ==
  ASSUME DispatchInv, IInv', NoneRaises, NEW p \in Procs, NEW pc,
         proc' = [proc EXCEPT ![p].pc = pc], UNCHANGED <<exists, runs, fired, faults>>
  PROVE  DispatchInv'
<1> DEFINE new == [proc[p] EXCEPT !.pc = pc]
<1>1. proc[p] \in ProcState
  BY ProcType DEF DispatchInv, IInv
<1>2. proc' = [proc EXCEPT ![p] = new]
  OBVIOUS
<1>3. proc[p].pending \subseteq new.pending
  BY <1>1 DEF ProcState
<1> HIDE DEF new
<1> QED BY <1>2, <1>3, PendingKept

LEMMA DispatchHeld ==
  ASSUME DispatchInv, IInv', NoneRaises, NEW p \in Procs, Dispatch(p)
  PROVE  DispatchInv'
<1> DEFINE run == [auto |-> proc[p].auto, by |-> p, n |-> proc[p].n, at |-> proc[p].at,
                   actions |-> ActionsColumn("fired" = "fired"), reason |-> "fired"]
           new == [proc[p] EXCEPT !.pc = "pick", !.todo = @ \ {proc[p].auto},
                                  !.auto = None, !.pending = @ \cup {run}]
           f == <<proc[p].auto, p, proc[p].n, proc[p].at>>
<1>1. proc[p] \in ProcState /\ proc \in [Procs -> ProcState]
  BY ProcType DEF DispatchInv, IInv, TypeOK
<1>2. /\ proc' = [proc EXCEPT ![p] = new] /\ fired' = fired \cup {f}
      /\ UNCHANGED <<exists, runs, faults>>
  BY DEF Dispatch, AddRun, bounds
<1>3. RecordOf(f, run)
  BY DEF RecordOf
<1> HIDE DEF run
<1>4. new.pending = proc[p].pending \cup {run}
  BY <1>1 DEF ProcState
<1> HIDE DEF new, f
<1>5. \A o \in Procs : proc'[o] = IF o = p THEN new ELSE proc[o]
  BY <1>1, <1>2
<1>6. \A r \in Held : r \in Held'
  BY <1>2, <1>4, <1>5 DEF Held
<1>7. run \in Held'
  BY <1>4, <1>5 DEF Held
<1>8. \A g \in fired' : g \in fired \/ \E r \in Held' : RecordOf(g, r)
  BY <1>2, <1>3, <1>7
<1>9. exists' \subseteq exists /\ faults' = faults
  BY <1>2
<1> QED BY <1>6, <1>8, <1>9, HeldKept

LEMMA StepHeld ==
  ASSUME DispatchInv, IInv', NoneRaises, NEW p \in Procs, Step(p)
  PROVE  DispatchInv'
<1>1. CASE Load(p)
  <2> DEFINE new == [proc[p] EXCEPT !.pc = "pick", !.at = now, !.todo =
           {a \in enabled : Config[a].trigger = Kind(p)}]
  <2>1. proc' = [proc EXCEPT ![p] = new] /\ UNCHANGED <<exists, runs, fired, faults>>
    BY <1>1 DEF Load, bounds, histories
  <2>2. proc[p] \in ProcState
    BY ProcType DEF DispatchInv, IInv
  <2>3. new.pending = proc[p].pending
    BY <2>2 DEF ProcState
  <2> HIDE DEF new
  <2> QED BY <2>1, <2>3, PendingKept
<1>2. ASSUME NEW a \in Autos, NotDue(p, a) PROVE DispatchInv'
  <2> DEFINE new == [proc[p] EXCEPT !.todo = @ \ {a}]
  <2>1. proc' = [proc EXCEPT ![p] = new] /\ UNCHANGED <<exists, runs, fired, faults>>
    BY <1>2 DEF NotDue, bounds, histories
  <2>2. proc[p] \in ProcState
    BY ProcType DEF DispatchInv, IInv
  <2>3. new.pending = proc[p].pending
    BY <2>2 DEF ProcState
  <2> HIDE DEF new
  <2> QED BY <2>1, <2>3, PendingKept
<1>3. ASSUME NEW a \in Autos, ConditionsPass(p, a) PROVE DispatchInv'
  <2> DEFINE new == [proc[p] EXCEPT !.pc = "breaker", !.auto = a]
  <2>1. proc' = [proc EXCEPT ![p] = new] /\ UNCHANGED <<exists, runs, fired, faults>>
    BY <1>3 DEF ConditionsPass, bounds, histories
  <2>2. proc[p] \in ProcState
    BY ProcType DEF DispatchInv, IInv
  <2>3. new.pending = proc[p].pending
    BY <2>2 DEF ProcState
  <2> HIDE DEF new
  <2> QED BY <2>1, <2>3, PendingKept
<1>4. ASSUME NEW a \in Autos, ConditionsFail(p, a) PROVE DispatchInv'
  <2>1. AddRun(p, a, "conditions") /\ UNCHANGED <<exists, runs, fired, faults>>
    BY <1>4 DEF ConditionsFail, bounds, histories
  <2> QED BY <2>1, AddRunHeld
<1>5. ASSUME NEW a \in Autos, ConditionsRaise(p, a) PROVE FALSE
  BY <1>5 DEF ConditionsRaise, NoneRaises
<1>6. CASE CheckBreaker(p) \/ CheckCooldown(p) \/ CheckRate(p)
  <2>1. UNCHANGED <<exists, runs, fired, faults>>
    BY <1>6 DEF CheckBreaker, CheckCooldown, CheckRate, bounds, histories
  <2>2. \/ \E reason \in Reasons : AddRun(p, proc[p].auto, reason)
        \/ \E pc \in Deciding : proc' = [proc EXCEPT ![p].pc = pc]
    BY <1>6 DEF CheckBreaker, CheckCooldown, CheckRate, Reasons, Deciding
  <2> QED BY <2>1, <2>2, AddRunHeld, NextCheckHeld
<1>7. CASE Dispatch(p)
  BY <1>7, DispatchHeld
<1>8. CASE CommitRuns(p)
  <2>1. /\ runs' = runs \cup proc[p].pending
        /\ proc' = [proc EXCEPT ![p] = Idle(proc[p].n)]
        /\ UNCHANGED <<exists, fired, faults>>
    BY <1>8 DEF CommitRuns, bounds
  <2>2. \A o \in Procs : o # p => proc'[o] = proc[o]
    BY <2>1
  <2>3. \A r \in Held : r \in Held'
    BY <2>1, <2>2 DEF Held
  <2> QED BY <2>1, <2>3, HeldKept
<1> QED
  BY <1>1, <1>2, <1>3, <1>4, <1>5, <1>6, <1>7, <1>8 DEF Step

\* A process that is idle has nothing pending that could be lost.
LEMMA AnewHeld ==
  ASSUME DispatchInv, IInv', NoneRaises, NEW p \in Procs, proc[p].pc = "idle",
         NEW new, proc' = [proc EXCEPT ![p] = new],
         UNCHANGED <<exists, runs, fired, faults>>
  PROVE  DispatchInv'
<1>1. proc[p].pending = {}
  BY DEF DispatchInv, IInv, StreamOK
<1> QED BY <1>1, PendingKept

LEMMA StepDispatchInv == DispatchInv /\ [Next]_vars => DispatchInv'
<1> SUFFICES ASSUME DispatchInv, [Next]_vars, NoneRaises PROVE DispatchInv'
  BY StepIInv DEF DispatchInv
<1>1. IInv'
  BY StepIInv DEF DispatchInv
<1>2. ASSUME NEW p \in Procs, Step(p) PROVE DispatchInv'
  BY <1>1, <1>2, StepHeld
<1>3. ASSUME NEW h \in Handlers, NEW payload \in Payloads, HandleEvent(h, payload)
      PROVE  DispatchInv'
  BY <1>1, <1>3, AnewHeld DEF HandleEvent, Procs, histories
<1>4. ASSUME NEW l \in Loops, StartPass(l) PROVE DispatchInv'
  BY <1>1, <1>4, AnewHeld DEF StartPass, Procs, bounds, histories
<1>5. ASSUME NEW a \in Autos, NEW on \in BOOLEAN, SetEnabled(a, on) PROVE DispatchInv'
  BY <1>1, <1>5, HeldKept DEF SetEnabled, Held, histories
<1>6. ASSUME NEW d \in Deleters,
             \/ \E a \in Autos : AskDelete(d, a)
             \/ DeleteRows(d) \/ FailDelete(d)
      PROVE  DispatchInv'
  <2>1. UNCHANGED <<exists, runs, proc, fired, faults>>
    BY <1>6 DEF AskDelete, DeleteRows, FailDelete, histories, bounds
  <2> QED BY <1>1, <2>1, HeldKept DEF Held
<1>7. ASSUME NEW d \in Deleters, CommitDelete(d) PROVE DispatchInv'
  <2>1. /\ exists' = exists \ {del[d].auto} /\ runs' = runs \ del[d].doomed
        /\ UNCHANGED <<proc, fired, faults>>
    BY <1>7 DEF CommitDelete, histories, bounds
  <2>2. \A r \in del[d].doomed : r.auto = del[d].auto
    BY DEF DispatchInv, IInv, TypeOK
  <2>3. \A r \in Held : r.auto \in exists' => r \in Held'
    BY <2>1, <2>2 DEF Held
  <2> QED BY <1>1, <2>1, <2>3, HeldKept
<1>8. ASSUME Crash \/ \E p \in Procs : Fail(p) PROVE DispatchInv'
  <2>1. faults \in Nat /\ faults' = faults + 1
    BY <1>8 DEF Crash, Fail, DispatchInv, IInv, TypeOK
  <2>2. faults' # 0
    BY <2>1
  <2> QED BY <1>1, <2>2 DEF DispatchInv, DispatchesRecorded
<1>9. CASE Tick
  BY <1>1, <1>9, HeldKept DEF Tick, Held, bounds, histories
<1>10. CASE UNCHANGED vars
  BY <1>1, <1>10, HeldKept DEF vars, Held, bounds, histories
<1> QED BY <1>2, <1>3, <1>4, <1>5, <1>6, <1>7, <1>8, <1>9, <1>10 DEF Next

LEMMA InitDispatchInv == Init => DispatchInv
BY InitIInv DEF Init, DispatchInv, DispatchesRecorded

\* workflow.py _evaluate_event, _evaluate_periodic: where no automation's
\* conditions can raise, and until a consumer crashes or a query or commit of an
\* evaluation fails, every dispatch is in the run log or in the transaction about
\* to record it.
THEOREM RecordedUnlessRaised == Spec => [](NoneRaises => DispatchesRecorded)
<1>1. DispatchInv => (NoneRaises => DispatchesRecorded)
  BY DEF DispatchInv
<1>2. Spec => []DispatchInv
  BY InitDispatchInv, StepDispatchInv, PTL DEF Spec
<1> QED BY <1>1, <1>2, PTL
=============================================================================
