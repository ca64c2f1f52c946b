------------------------ MODULE WorkflowEngineProofs ------------------------
(***************************************************************************)
(* WorkflowEngine for every set of automations, definitions, handlers and  *)
(* loops and every bound: type correctness, and the cooldown each process  *)
(* keeps (StreamCooldown).                                                 *)
(***************************************************************************)
EXTENDS WorkflowEngine, FiniteSetTheorems, TLAPS

\* Process p has recorded no firing of automation a within a cooldown of t.
Apart(a, p, t) ==
  Config[a].cooldown # None =>
    \A q \in FiringRuns(a) : q.by = p => t - q.at >= Config[a].cooldown

\* What holds of the evaluation c of process p.  Only p adds runs of its own to
\* the log, and only at its commit, so what its cooldown query told it about
\* them stays true until it commits.
StreamOK(p, c) ==
  /\ c.pc \in {"idle", "load"} => c.pending = {}
  /\ \A r \in c.pending :
       /\ r.by = p /\ r.at = c.at /\ r.auto \notin c.todo
       /\ r.actions = ActionsColumn(r.reason = "fired")
       /\ r.reason = "fired" => Apart(r.auto, p, r.at)
  /\ \A r, q \in c.pending : r.auto = q.auto => r = q
  /\ c.pc \in {"rate", "dispatch"} => Apart(c.auto, p, c.at)

\* The column tells the runs that fired from those that did not.
ColumnsOK == \A r \in runs : r.actions = ActionsColumn(r.reason = "fired")

IInv ==
  /\ TypeOK
  /\ ColumnsOK
  /\ StreamCooldown
  /\ \A p \in Procs : StreamOK(p, proc[p])

-----------------------------------------------------------------------------
(* States of one evaluation. *)

LEMMA IdleOK ==
  ASSUME NEW p \in Procs, NEW n \in Nat
  PROVE  ProcOK(Idle(n)) /\ StreamOK(p, Idle(n))
BY DEF ProcOK, StreamOK, ProcState, Deciding, Idle, Time

LEMMA ProcType ==
  ASSUME TypeOK, NEW p \in Procs
  PROVE  /\ ProcOK(proc[p]) /\ proc[p] \in ProcState
         /\ proc[p].n \in Nat /\ proc[p].at \in Nat
         /\ proc[p].todo \subseteq Autos
         /\ proc[p].pc \in Deciding => proc[p].auto \in proc[p].todo
BY DEF TypeOK, ProcOK, ProcState, Time

\* Process p goes from its state to new, and nothing else of note changes.
Moves(p, new) ==
  /\ proc' = [proc EXCEPT ![p] = new]
  /\ ProcOK(new)
  /\ UNCHANGED <<exists, enabled, runs, del, late, now>>
  /\ fired' \subseteq Autos \X Procs \X Nat \X Time
  /\ events' \in Nat /\ edits' \in Nat /\ faults' \in Nat

LEMMA MovesTypeOK ==
  ASSUME TypeOK, NEW p \in Procs, NEW new, Moves(p, new)
  PROVE  TypeOK'
<1>1. new \in ProcState
  BY DEF Moves, ProcOK
<1>2. proc \in [Procs -> ProcState] /\ \A o \in Procs : ProcOK(proc[o])
  BY DEF TypeOK
<1>3. /\ proc' \in [Procs -> ProcState]
      /\ \A o \in Procs : proc'[o] = IF o = p THEN new ELSE proc[o]
  BY <1>1, <1>2 DEF Moves
<1>4. \A o \in Procs : ProcOK(proc'[o])
  BY <1>2, <1>3 DEF Moves
<1>5. /\ exists' = exists /\ enabled' = enabled /\ runs' = runs /\ now' = now
      /\ del' = del /\ late' = late
      /\ fired' \subseteq Autos \X Procs \X Nat \X Time
      /\ events' \in Nat /\ edits' \in Nat /\ faults' \in Nat
  BY DEF Moves
<1> QED BY <1>3, <1>4, <1>5 DEF TypeOK

LEMMA MovesIInv ==
  ASSUME IInv, NEW p \in Procs, NEW new, Moves(p, new), StreamOK(p, new)
  PROVE  IInv'
<1> USE DEF IInv
<1>1. TypeOK'
  BY MovesTypeOK
<1>2. runs' = runs
  BY DEF Moves
<1>3. ColumnsOK' /\ StreamCooldown'
  BY <1>2 DEF ColumnsOK, StreamCooldown, FiringRuns
<1>4. ASSUME NEW o \in Procs PROVE StreamOK(o, proc[o])'
  <2>1. proc'[o] = IF o = p THEN new ELSE proc[o]
    BY DEF Moves, TypeOK
  <2>2. StreamOK(o, proc'[o])
    BY <2>1
  <2>3. \A a, q, t : Apart(a, q, t)' <=> Apart(a, q, t)
    BY <1>2 DEF Apart, FiringRuns
  <2> QED BY <2>2, <2>3 DEF StreamOK
<1> QED BY <1>1, <1>3, <1>4

-----------------------------------------------------------------------------
(* The steps of an evaluation. *)

\* A step that only moves p leaves the rest of the state well typed.
LEMMA OnlyProc ==
  ASSUME TypeOK, NEW p \in Procs, NEW new,
         proc' = [proc EXCEPT ![p] = new], ProcOK(new),
         UNCHANGED <<exists, enabled, runs, del, histories, now, bounds>>
  PROVE  Moves(p, new)
BY DEF Moves, TypeOK, bounds, histories

LEMMA HandleEventStep ==
  ASSUME IInv, NEW h \in Handlers, NEW payload \in Payloads, HandleEvent(h, payload)
  PROVE  IInv'
<1> DEFINE new == [Idle(proc[h].n + 1) EXCEPT !.pc = "load", !.payload = payload]
<1>1. h \in Procs /\ TypeOK
  BY DEF Procs, IInv
<1>2. proc[h].n + 1 \in Nat
  BY <1>1, ProcType
<1>3. ProcOK(new) /\ StreamOK(h, new)
  BY <1>2 DEF ProcOK, StreamOK, ProcState, Deciding, Idle, Payloads, Time
<1>4. proc' = [proc EXCEPT ![h] = new]
  BY DEF HandleEvent
<1> HIDE DEF new
<1>5. Moves(h, new)
  <2>1. /\ events' = events + 1 /\ edits' = edits /\ faults' = faults
        /\ fired' = fired /\ UNCHANGED <<exists, enabled, runs, del, late, now>>
    BY DEF HandleEvent, histories
  <2>2. /\ events' \in Nat /\ edits' \in Nat /\ faults' \in Nat
        /\ fired' \subseteq Autos \X Procs \X Nat \X Time
    BY <1>1, <2>1 DEF TypeOK
  <2> QED BY <1>3, <1>4, <2>1, <2>2 DEF Moves
<1> QED BY <1>1, <1>3, <1>5, MovesIInv

LEMMA StartPassStep ==
  ASSUME IInv, NEW l \in Loops, StartPass(l)
  PROVE  IInv'
<1> DEFINE new == [Idle(0) EXCEPT !.pc = "load"]
<1>1. l \in Procs /\ TypeOK
  BY DEF Procs, IInv
<1>2. ProcOK(new) /\ StreamOK(l, new)
  BY DEF ProcOK, StreamOK, ProcState, Deciding, Idle, Time
<1>3. proc' = [proc EXCEPT ![l] = new]
  BY DEF StartPass
<1> HIDE DEF new
<1>4. Moves(l, new)
  BY <1>1, <1>2, <1>3, OnlyProc DEF StartPass
<1> QED BY <1>1, <1>2, <1>4, MovesIInv

LEMMA LoadStep ==
  ASSUME IInv, NEW p \in Procs, Load(p)
  PROVE  IInv'
<1> DEFINE loaded == {a \in enabled : Config[a].trigger = Kind(p)}
           new == [proc[p] EXCEPT !.pc = "pick", !.at = now, !.todo = loaded]
<1>1. TypeOK /\ StreamOK(p, proc[p]) /\ proc[p] \in ProcState
  BY ProcType DEF IInv
<1>2. loaded \subseteq Autos /\ now \in Time
  BY <1>1 DEF TypeOK, Time
<1>3. proc[p].pc = "load" /\ proc' = [proc EXCEPT ![p] = new]
  BY DEF Load
<1> HIDE DEF loaded
<1>4. new \in ProcState /\ new.pc = "pick" /\ new.pending = proc[p].pending
  BY <1>1, <1>2 DEF ProcState
<1> HIDE DEF new
<1>5. ProcOK(new)
  BY <1>4 DEF ProcOK, Deciding
<1>6. StreamOK(p, new)
  BY <1>1, <1>3, <1>4 DEF StreamOK
<1>7. Moves(p, new)
  BY <1>1, <1>3, <1>5, OnlyProc DEF Load
<1> QED BY <1>6, <1>7, MovesIInv

LEMMA NotDueStep ==
  ASSUME IInv, NEW l \in Procs, NEW a \in Autos, NotDue(l, a)
  PROVE  IInv'
<1> DEFINE new == [proc[l] EXCEPT !.todo = @ \ {a}]
<1>1. TypeOK /\ StreamOK(l, proc[l]) /\ proc[l] \in ProcState
  BY ProcType DEF IInv
<1>2. proc[l].pc = "pick" /\ proc' = [proc EXCEPT ![l] = new]
  BY DEF NotDue, Picks
<1>3. /\ new \in ProcState /\ new.pc = "pick" /\ new.pending = proc[l].pending
      /\ new.at = proc[l].at /\ new.todo \subseteq proc[l].todo
  BY <1>1, <1>2 DEF ProcState
<1> HIDE DEF new
<1>4. ProcOK(new)
  BY <1>3 DEF ProcOK, Deciding
<1>5. StreamOK(l, new)
  BY <1>1, <1>3 DEF StreamOK
<1>6. Moves(l, new)
  BY <1>1, <1>2, <1>4, OnlyProc DEF NotDue
<1> QED BY <1>5, <1>6, MovesIInv

LEMMA ConditionsPassStep ==
  ASSUME IInv, NEW p \in Procs, NEW a \in Autos, ConditionsPass(p, a)
  PROVE  IInv'
<1> DEFINE new == [proc[p] EXCEPT !.pc = "breaker", !.auto = a]
<1>1. TypeOK /\ StreamOK(p, proc[p]) /\ proc[p] \in ProcState
  BY ProcType DEF IInv
<1>2. a \in proc[p].todo /\ proc' = [proc EXCEPT ![p] = new]
  BY DEF ConditionsPass, Considers, Picks
<1>3. /\ new \in ProcState /\ new.pc = "breaker" /\ new.auto = a
      /\ new.pending = proc[p].pending /\ new.at = proc[p].at
      /\ new.todo = proc[p].todo
  BY <1>1 DEF ProcState
<1> HIDE DEF new
<1>4. ProcOK(new)
  BY <1>2, <1>3 DEF ProcOK
<1>5. StreamOK(p, new)
  BY <1>1, <1>3 DEF StreamOK
<1>6. Moves(p, new)
  BY <1>1, <1>2, <1>4, OnlyProc DEF ConditionsPass
<1> QED BY <1>5, <1>6, MovesIInv

\* Going on to the next check.
LEMMA NextCheck ==
  ASSUME IInv, NEW p \in Procs, NEW pc \in {"cooldown", "rate", "dispatch"},
         proc[p].pc \in Deciding, proc' = [proc EXCEPT ![p].pc = pc],
         pc \in {"rate", "dispatch"} => Apart(proc[p].auto, p, proc[p].at),
         UNCHANGED <<exists, enabled, runs, del, histories, now, bounds>>
  PROVE  IInv'
<1> DEFINE new == [proc[p] EXCEPT !.pc = pc]
<1>1. /\ TypeOK /\ StreamOK(p, proc[p]) /\ proc[p] \in ProcState
      /\ proc[p].auto \in proc[p].todo
  BY ProcType DEF IInv
<1>2. proc' = [proc EXCEPT ![p] = new]
  OBVIOUS
<1>3. /\ new \in ProcState /\ new.pc = pc /\ new.auto = proc[p].auto
      /\ new.pending = proc[p].pending /\ new.at = proc[p].at
      /\ new.todo = proc[p].todo
  BY <1>1 DEF ProcState
<1> HIDE DEF new
<1>4. ProcOK(new)
  BY <1>1, <1>3 DEF ProcOK
<1>5. StreamOK(p, new)
  BY <1>1, <1>3 DEF StreamOK
<1>6. Moves(p, new)
  BY <1>1, <1>2, <1>4, OnlyProc
<1> QED BY <1>5, <1>6, MovesIInv

\* Recording a run of an automation that is still to be done.
LEMMA AddRunStep ==
  ASSUME IInv, NEW p \in Procs, NEW a \in proc[p].todo, NEW reason \in Reasons,
         AddRun(p, a, reason),
         reason = "fired" => Apart(a, p, proc[p].at),
         UNCHANGED <<exists, enabled, runs, del, late, now, bounds>>,
         fired' \subseteq Autos \X Procs \X Nat \X Time
  PROVE  IInv'
<1> DEFINE run == [auto |-> a, by |-> p, n |-> proc[p].n, at |-> proc[p].at,
                   actions |-> ActionsColumn(reason = "fired"), reason |-> reason]
           new == [proc[p] EXCEPT !.pc = "pick", !.todo = @ \ {a}, !.auto = None,
                                  !.pending = @ \cup {run}]
<1>1. TypeOK /\ StreamOK(p, proc[p]) /\ proc[p] \in ProcState /\ a \in Autos
  BY ProcType DEF IInv
<1>2. proc' = [proc EXCEPT ![p] = new]
  BY DEF AddRun
<1>3. ActionsColumn(reason = "fired") \in Columns
  BY DEF ActionsColumn, Columns
<1>4. run \in Run
  BY <1>1, <1>3, ProcType DEF Run, Time
<1>5. /\ run.auto = a /\ run.by = p /\ run.at = proc[p].at
      /\ run.actions = ActionsColumn(run.reason = "fired")
      /\ run.reason = "fired" => Apart(a, p, proc[p].at)
  OBVIOUS
<1> HIDE DEF run
<1>6. /\ new \in ProcState /\ new.pc = "pick"
      /\ new.pending = proc[p].pending \cup {run}
      /\ new.at = proc[p].at /\ new.todo = proc[p].todo \ {a}
  BY <1>1, <1>4 DEF ProcState
<1> HIDE DEF new
<1>7. ProcOK(new)
  BY <1>6 DEF ProcOK, Deciding
<1>8. StreamOK(p, new)
  <2>1. \A r \in proc[p].pending :
          /\ r.by = p /\ r.at = new.at /\ r.auto \notin proc[p].todo
          /\ r.actions = ActionsColumn(r.reason = "fired")
          /\ r.reason = "fired" => Apart(r.auto, p, r.at)
    BY <1>1, <1>6 DEF StreamOK
  <2>2. \A r \in new.pending :
          /\ r.by = p /\ r.at = new.at /\ r.auto \notin new.todo
          /\ r.actions = ActionsColumn(r.reason = "fired")
          /\ r.reason = "fired" => Apart(r.auto, p, r.at)
    BY <2>1, <1>5, <1>6
  <2>3. \A r, q \in new.pending : r.auto = q.auto => r = q
    BY <2>1, <1>1, <1>5, <1>6 DEF StreamOK
  <2> QED BY <2>2, <2>3, <1>6 DEF StreamOK
<1>9. Moves(p, new)
  BY <1>1, <1>2, <1>7 DEF Moves, TypeOK, bounds
<1> QED BY <1>8, <1>9, MovesIInv

LEMMA ConditionsFailStep ==
  ASSUME IInv, NEW p \in Procs, NEW a \in Autos, ConditionsFail(p, a)
  PROVE  IInv'
<1>1. a \in proc[p].todo /\ AddRun(p, a, "conditions")
  BY DEF ConditionsFail, Considers, Picks
<1>2. /\ fired' = fired /\ UNCHANGED <<exists, enabled, runs, del, late, now, bounds>>
      /\ UNCHANGED <<exists, enabled, runs, del, histories, now, bounds>>
  BY DEF ConditionsFail, histories
<1>3. fired' \subseteq Autos \X Procs \X Nat \X Time
  BY <1>2 DEF IInv, TypeOK
<1> QED BY <1>1, <1>2, <1>3, AddRunStep DEF Reasons

LEMMA ConditionsRaiseStep ==
  ASSUME IInv, NEW p \in Procs, NEW a \in Autos, ConditionsRaise(p, a)
  PROVE  IInv'
<1> DEFINE new == Idle(proc[p].n)
<1>1. TypeOK /\ proc[p].n \in Nat
  BY ProcType DEF IInv
<1>2. ProcOK(new) /\ StreamOK(p, new)
  BY <1>1, IdleOK
<1>3. proc' = [proc EXCEPT ![p] = new]
  BY DEF ConditionsRaise
<1> HIDE DEF new
<1>4. Moves(p, new)
  BY <1>1, <1>2, <1>3, OnlyProc DEF ConditionsRaise
<1> QED BY <1>2, <1>4, MovesIInv

LEMMA FailStep ==
  ASSUME IInv, NEW p \in Procs, Fail(p)
  PROVE  IInv'
<1> DEFINE new == Idle(proc[p].n)
<1>1. TypeOK /\ proc[p].n \in Nat
  BY ProcType DEF IInv
<1>2. ProcOK(new) /\ StreamOK(p, new)
  BY <1>1, IdleOK
<1>3. proc' = [proc EXCEPT ![p] = new]
  BY DEF Fail
<1> HIDE DEF new
<1>4. Moves(p, new)
  <2>1. /\ UNCHANGED <<exists, enabled, runs, del, late, fired, now, events, edits>>
        /\ faults' = faults + 1
    BY DEF Fail, histories
  <2> QED BY <1>1, <1>2, <1>3, <2>1 DEF Moves, TypeOK
<1> QED BY <1>2, <1>4, MovesIInv

LEMMA CheckBreakerStep ==
  ASSUME IInv, NEW p \in Procs, CheckBreaker(p)
  PROVE  IInv'
<1>1. proc[p].pc \in Deciding /\ proc[p].auto \in proc[p].todo
  BY ProcType DEF IInv, CheckBreaker, Deciding
<1>2. /\ fired' = fired /\ UNCHANGED <<exists, enabled, runs, del, late, now, bounds>>
      /\ UNCHANGED <<exists, enabled, runs, del, histories, now, bounds>>
  BY DEF CheckBreaker, histories
<1>3. fired' \subseteq Autos \X Procs \X Nat \X Time
  BY <1>2 DEF IInv, TypeOK
<1>4. \/ AddRun(p, proc[p].auto, "circuit_open")
      \/ proc' = [proc EXCEPT ![p].pc = "cooldown"]
  BY DEF CheckBreaker
<1>5. CASE AddRun(p, proc[p].auto, "circuit_open")
  BY <1>1, <1>2, <1>3, <1>5, AddRunStep DEF Reasons
<1>6. CASE proc' = [proc EXCEPT ![p].pc = "cooldown"]
  BY <1>1, <1>2, <1>6, NextCheck
<1> QED BY <1>4, <1>5, <1>6

\* The cooldown query: a process that goes on has no recent firing of its own.
LEMMA QueryTells ==
  ASSUME IInv, NEW p \in Procs, NEW a \in Autos, ~ CoolingDown(a, proc[p].at)
  PROVE  Apart(a, p, proc[p].at)
<1> SUFFICES ASSUME Config[a].cooldown # None, NEW q \in FiringRuns(a)
             PROVE  proc[p].at - q.at >= Config[a].cooldown
  BY DEF Apart
<1>1. q \in runs /\ q.auto = a /\ q.reason = "fired"
  BY DEF FiringRuns
<1>2. q.actions = "list"
  BY <1>1 DEF IInv, ColumnsOK, ActionsColumn
<1>3. q \in CountedRuns(a)
  BY <1>1, <1>2 DEF CountedRuns
<1>4. ~ (proc[p].at - q.at < Config[a].cooldown)
  BY <1>3 DEF CoolingDown
<1>5. proc[p].at \in Int /\ q.at \in Int
  BY <1>1, ProcType DEF IInv, TypeOK, Run, Time
<1>6. Config[a].cooldown \in Int
  BY ConfigAssumption DEF Definition
<1> QED BY <1>4, <1>5, <1>6

LEMMA CheckCooldownStep ==
  ASSUME IInv, NEW p \in Procs, CheckCooldown(p)
  PROVE  IInv'
<1>1. /\ proc[p].pc \in Deciding /\ proc[p].auto \in proc[p].todo
      /\ proc[p].auto \in Autos
  BY ProcType DEF IInv, CheckCooldown, Deciding
<1>2. /\ fired' = fired /\ UNCHANGED <<exists, enabled, runs, del, late, now, bounds>>
      /\ UNCHANGED <<exists, enabled, runs, del, histories, now, bounds>>
  BY DEF CheckCooldown, histories
<1>3. fired' \subseteq Autos \X Procs \X Nat \X Time
  BY <1>2 DEF IInv, TypeOK
<1>4. CASE CoolingDown(proc[p].auto, proc[p].at)
  <2>1. AddRun(p, proc[p].auto, "cooldown")
    BY <1>4 DEF CheckCooldown
  <2> QED BY <1>1, <1>2, <1>3, <2>1, AddRunStep DEF Reasons
<1>5. CASE ~ CoolingDown(proc[p].auto, proc[p].at)
  <2>1. proc' = [proc EXCEPT ![p].pc = "rate"]
    BY <1>5 DEF CheckCooldown
  <2>2. Apart(proc[p].auto, p, proc[p].at)
    BY <1>1, <1>5, QueryTells
  <2> QED BY <1>1, <1>2, <2>1, <2>2, NextCheck
<1> QED BY <1>4, <1>5

LEMMA CheckRateStep ==
  ASSUME IInv, NEW p \in Procs, CheckRate(p)
  PROVE  IInv'
<1>1. /\ proc[p].pc \in Deciding /\ proc[p].auto \in proc[p].todo
      /\ proc[p].pc = "rate"
  BY ProcType DEF IInv, CheckRate, Deciding
<1>2. /\ fired' = fired /\ UNCHANGED <<exists, enabled, runs, del, late, now, bounds>>
      /\ UNCHANGED <<exists, enabled, runs, del, histories, now, bounds>>
  BY DEF CheckRate, histories
<1>3. fired' \subseteq Autos \X Procs \X Nat \X Time
  BY <1>2 DEF IInv, TypeOK
<1>4. Apart(proc[p].auto, p, proc[p].at)
  BY <1>1 DEF IInv, StreamOK
<1>5. \/ AddRun(p, proc[p].auto, "rate_limited")
      \/ proc' = [proc EXCEPT ![p].pc = "dispatch"]
  BY DEF CheckRate
<1>6. CASE AddRun(p, proc[p].auto, "rate_limited")
  BY <1>1, <1>2, <1>3, <1>6, AddRunStep DEF Reasons
<1>7. CASE proc' = [proc EXCEPT ![p].pc = "dispatch"]
  BY <1>1, <1>2, <1>4, <1>7, NextCheck
<1> QED BY <1>5, <1>6, <1>7

LEMMA DispatchStep ==
  ASSUME IInv, NEW p \in Procs, Dispatch(p)
  PROVE  IInv'
<1>1. /\ proc[p].auto \in proc[p].todo /\ proc[p].pc = "dispatch"
      /\ proc[p].auto \in Autos /\ proc[p].n \in Nat /\ proc[p].at \in Time
  BY ProcType DEF IInv, Dispatch, Deciding, Time
<1>2. /\ fired' = fired \cup {<<proc[p].auto, p, proc[p].n, proc[p].at>>}
      /\ AddRun(p, proc[p].auto, "fired")
      /\ UNCHANGED <<exists, enabled, runs, del, late, now, bounds>>
  BY DEF Dispatch
<1>3. fired' \subseteq Autos \X Procs \X Nat \X Time
  BY <1>1, <1>2 DEF IInv, TypeOK
<1>4. Apart(proc[p].auto, p, proc[p].at)
  BY <1>1 DEF IInv, StreamOK
<1> QED BY <1>1, <1>2, <1>3, <1>4, AddRunStep DEF Reasons

LEMMA CommitRunsStep ==
  ASSUME IInv, NEW p \in Procs, CommitRuns(p)
  PROVE  IInv'
<1> USE DEF IInv
<1>1. /\ runs' = runs \cup proc[p].pending
      /\ proc' = [proc EXCEPT ![p] = Idle(proc[p].n)]
      /\ UNCHANGED <<exists, enabled, del, fired, now, bounds>>
      /\ late' \subseteq late \cup proc[p].pending
  BY DEF CommitRuns
<1>2. StreamOK(p, proc[p]) /\ proc[p] \in ProcState /\ proc[p].n \in Nat
  BY ProcType
<1>3. ProcOK(Idle(proc[p].n)) /\ Idle(proc[p].n) \in ProcState
  BY <1>2, IdleOK DEF ProcOK
<1>4. \A o \in Procs : proc'[o] = IF o = p THEN Idle(proc[p].n) ELSE proc[o]
  BY <1>1 DEF TypeOK
<1>5. TypeOK'
  <2>1. proc' \in [Procs -> ProcState] /\ \A o \in Procs : ProcOK(proc'[o])
    BY <1>1, <1>3, <1>4 DEF TypeOK
  <2>2. runs' \subseteq Run /\ late' \subseteq Run
    BY <1>1, <1>2 DEF TypeOK, ProcState
  <2> QED BY <1>1, <2>1, <2>2 DEF TypeOK, bounds
<1>6. ColumnsOK'
  BY <1>1, <1>2 DEF ColumnsOK, StreamOK
<1>7. StreamCooldown'
  <2> SUFFICES ASSUME NEW a \in Autos, Config[a].cooldown # None,
                      NEW r \in FiringRuns(a)', NEW q \in FiringRuns(a)',
                      r.by = q.by, r # q
               PROVE  \/ r.at - q.at >= Config[a].cooldown
                      \/ q.at - r.at >= Config[a].cooldown
    BY DEF StreamCooldown
  <2>1. /\ r.auto = a /\ r.reason = "fired" /\ (r \in runs \/ r \in proc[p].pending)
        /\ q.auto = a /\ q.reason = "fired" /\ (q \in runs \/ q \in proc[p].pending)
    BY <1>1 DEF FiringRuns
  <2>2. CASE r \in runs /\ q \in runs
    BY <2>1, <2>2 DEF StreamCooldown, FiringRuns
  <2>3. CASE r \in proc[p].pending /\ q \in runs
    <3>1. Apart(a, p, r.at) /\ r.by = p
      BY <1>2, <2>1, <2>3 DEF StreamOK
    <3>2. q \in FiringRuns(a) /\ q.by = p
      BY <2>1, <2>3, <3>1 DEF FiringRuns
    <3> QED BY <3>1, <3>2 DEF Apart
  <2>4. CASE r \in runs /\ q \in proc[p].pending
    <3>1. Apart(a, p, q.at) /\ q.by = p
      BY <1>2, <2>1, <2>4 DEF StreamOK
    <3>2. r \in FiringRuns(a) /\ r.by = p
      BY <2>1, <2>4, <3>1 DEF FiringRuns
    <3> QED BY <3>1, <3>2 DEF Apart
  <2>5. CASE r \in proc[p].pending /\ q \in proc[p].pending
    BY <1>2, <2>1, <2>5 DEF StreamOK
  <2> QED BY <2>1, <2>2, <2>3, <2>4, <2>5
<1>8. ASSUME NEW o \in Procs PROVE StreamOK(o, proc[o])'
  <2>1. CASE o = p
    <3>1. proc'[o] = Idle(proc[p].n)
      BY <1>4, <2>1
    <3> QED BY <3>1 DEF StreamOK, Idle
  <2>2. CASE o # p
    <3>1. proc'[o] = proc[o] /\ StreamOK(o, proc[o])
      BY <1>4, <2>2
    <3>2. \A r \in proc[p].pending : r.by # o
      BY <1>2, <2>2 DEF StreamOK
    <3>3. \A a, t : Apart(a, o, t) => Apart(a, o, t)'
      BY <1>1, <3>2 DEF Apart, FiringRuns
    <3> QED BY <3>1, <3>3 DEF StreamOK
  <2> QED BY <2>1, <2>2
<1> QED BY <1>5, <1>6, <1>7, <1>8

-----------------------------------------------------------------------------
(* The environment only takes runs away. *)

LEMMA FewerRuns ==
  ASSUME IInv, TypeOK', runs' \subseteq runs,
         \A p \in Procs : proc'[p] = proc[p] \/ \E n \in Nat : proc'[p] = Idle(n)
  PROVE  IInv'
<1> USE DEF IInv
<1>1. \A a : FiringRuns(a)' \subseteq FiringRuns(a)
  BY DEF FiringRuns
<1>2. ColumnsOK' /\ StreamCooldown'
  BY <1>1 DEF ColumnsOK, StreamCooldown
<1>3. \A a, p, t : Apart(a, p, t) => Apart(a, p, t)'
  BY <1>1 DEF Apart
<1>4. ASSUME NEW p \in Procs PROVE StreamOK(p, proc[p])'
  <2>1. CASE proc'[p] = proc[p]
    <3>1. StreamOK(p, proc[p])
      OBVIOUS
    <3> QED BY <2>1, <3>1, <1>3 DEF StreamOK
  <2>2. CASE \E n \in Nat : proc'[p] = Idle(n)
    BY <2>2 DEF StreamOK, Idle
  <2> QED BY <2>1, <2>2
<1> QED BY <1>2, <1>4

LEMMA SetEnabledStep ==
  ASSUME IInv, NEW a \in Autos, NEW on \in BOOLEAN, SetEnabled(a, on)
  PROVE  IInv'
<1>1. /\ UNCHANGED <<exists, runs, proc, del, fired, late, now, events, faults>>
      /\ edits' = edits + 1
      /\ enabled' \subseteq enabled \cup {a} /\ a \in exists
  BY DEF SetEnabled, histories
<1>2. TypeOK'
  BY <1>1 DEF IInv, TypeOK
<1> QED BY <1>1, <1>2, FewerRuns

\* A step of the request d that deletes an automation.
LEMMA RequestStep ==
  ASSUME IInv, NEW d \in Deleters, NEW new \in DeleteState,
         del' = [del EXCEPT ![d] = new], \A r \in new.doomed : r.auto = new.auto,
         UNCHANGED <<proc, fired, late, now, events, faults>>, edits' \in Nat,
         runs' \subseteq runs, exists' \subseteq exists, enabled' \subseteq exists'
  PROVE  IInv'
<1>1. TypeOK
  BY DEF IInv
<1>2. /\ del' \in [Deleters -> DeleteState]
      /\ \A o \in Deleters : del'[o] = IF o = d THEN new ELSE del[o]
  BY <1>1 DEF TypeOK
<1>3. \A o \in Deleters : \A r \in del'[o].doomed : r.auto = del'[o].auto
  BY <1>1, <1>2 DEF TypeOK
<1>4. TypeOK'
  BY <1>1, <1>2, <1>3 DEF TypeOK
<1> QED BY <1>4, FewerRuns

LEMMA AskDeleteStep ==
  ASSUME IInv, NEW d \in Deleters, NEW a \in Autos, AskDelete(d, a)
  PROVE  IInv'
<1> DEFINE new == [NoDelete EXCEPT !.pc = "delete", !.auto = a]
<1>1. new \in DeleteState /\ new.doomed = {}
  BY DEF NoDelete, DeleteState
<1>2. /\ UNCHANGED <<exists, enabled, runs, proc, fired, late, now, events, faults>>
      /\ del' = [del EXCEPT ![d] = new] /\ edits' = edits + 1
  BY DEF AskDelete, histories
<1> HIDE DEF new
<1>3. edits' \in Nat /\ enabled' \subseteq exists'
  BY <1>2 DEF IInv, TypeOK
<1> QED BY <1>1, <1>2, <1>3, RequestStep

LEMMA DeleteRowsStep ==
  ASSUME IInv, NEW d \in Deleters, DeleteRows(d)
  PROVE  IInv'
<1> DEFINE doomed == {r \in runs : r.auto = del[d].auto}
           new == [del[d] EXCEPT !.pc = "commit", !.doomed = doomed]
<1>1. del[d] \in DeleteState /\ doomed \subseteq Run
  BY DEF IInv, TypeOK
<1>2. /\ UNCHANGED <<exists, enabled, runs, proc, fired, late, now, bounds>>
      /\ del' = [del EXCEPT ![d] = new]
  BY DEF DeleteRows, histories
<1>3. \A r \in doomed : r.auto = del[d].auto
  OBVIOUS
<1> HIDE DEF doomed
<1>4. new \in DeleteState /\ new.doomed = doomed /\ new.auto = del[d].auto
  BY <1>1 DEF DeleteState
<1> HIDE DEF new
<1>5. edits' \in Nat /\ enabled' \subseteq exists' /\ UNCHANGED <<events, faults>>
  BY <1>2 DEF IInv, TypeOK, bounds
<1> QED BY <1>2, <1>3, <1>4, <1>5, RequestStep

LEMMA NoDeleteType == NoDelete \in DeleteState /\ NoDelete.doomed = {}
BY DEF NoDelete, DeleteState

LEMMA EndDeleteStep ==
  ASSUME IInv, NEW d \in Deleters, CommitDelete(d) \/ FailDelete(d)
  PROVE  IInv'
<1>1. /\ UNCHANGED <<proc, fired, late, now, events, edits, faults>>
      /\ del' = [del EXCEPT ![d] = NoDelete]
      /\ runs' \subseteq runs /\ exists' \subseteq exists
  BY DEF CommitDelete, FailDelete, histories, bounds
<1>2. edits' \in Nat /\ enabled' \subseteq exists'
  BY <1>1 DEF IInv, TypeOK, CommitDelete, FailDelete
<1> QED BY <1>1, <1>2, NoDeleteType, RequestStep

LEMMA CrashStep ==
  ASSUME IInv, Crash
  PROVE  IInv'
<1>1. /\ UNCHANGED <<exists, enabled, runs, del, fired, late, now, events, edits>>
      /\ faults' = faults + 1 /\ proc' = [p \in Procs |-> Idle(proc[p].n)]
  BY DEF Crash, histories
<1>2. \A p \in Procs : proc[p].n \in Nat /\ proc'[p] = Idle(proc[p].n)
  BY <1>1, ProcType DEF IInv
<1>3. proc' \in [Procs -> ProcState] /\ \A p \in Procs : ProcOK(proc'[p])
  BY <1>1, <1>2, IdleOK DEF ProcOK
<1>4. TypeOK'
  BY <1>1, <1>3 DEF IInv, TypeOK
<1> QED BY <1>1, <1>2, <1>4, FewerRuns

LEMMA TickStep ==
  ASSUME IInv, Tick
  PROVE  IInv'
<1>1. /\ UNCHANGED <<exists, enabled, runs, proc, del, fired, late, bounds>>
      /\ now' = now + 1
  BY DEF Tick, histories
<1>2. TypeOK'
  BY <1>1 DEF IInv, TypeOK, bounds
<1> QED BY <1>1, <1>2, FewerRuns

-----------------------------------------------------------------------------
(* The invariant. *)

LEMMA InitIInv == Init => IInv
<1> SUFFICES ASSUME Init PROVE IInv
  OBVIOUS
<1>1. \A p \in Procs : proc[p] = Idle(0)
  BY DEF Init
<1>2. \A p \in Procs : ProcOK(proc[p]) /\ StreamOK(p, proc[p])
  BY <1>1, IdleOK
<1>3. TypeOK
  <2>1. /\ del \in [Deleters -> DeleteState]
        /\ \A d \in Deleters : \A r \in del[d].doomed : r.auto = del[d].auto
    BY NoDeleteType DEF Init
  <2> QED BY <1>2, <2>1, AtStartAssumption DEF Init, TypeOK, ProcOK
<1>4. ColumnsOK /\ StreamCooldown
  BY DEF Init, ColumnsOK, StreamCooldown, FiringRuns
<1> QED BY <1>2, <1>3, <1>4 DEF IInv

LEMMA StepIInv == IInv /\ [Next]_vars => IInv'
<1> SUFFICES ASSUME IInv, [Next]_vars PROVE IInv'
  OBVIOUS
<1>1. ASSUME NEW p \in Procs, Step(p) PROVE IInv'
  BY <1>1, LoadStep, NotDueStep, ConditionsPassStep, ConditionsFailStep,
     ConditionsRaiseStep, CheckBreakerStep, CheckCooldownStep, CheckRateStep,
     DispatchStep, CommitRunsStep DEF Step
<1>2. CASE UNCHANGED vars
  <2>1. TypeOK'
    BY <1>2 DEF IInv, TypeOK, vars, histories
  <2>2. runs' = runs /\ proc' = proc
    BY <1>2 DEF vars
  <2> QED BY <2>1, <2>2, FewerRuns
<1> QED
  BY <1>1, <1>2, HandleEventStep, StartPassStep, FailStep, SetEnabledStep, AskDeleteStep,
     DeleteRowsStep, EndDeleteStep, CrashStep, TickStep DEF Next

LEMMA Invariance == Spec => []IInv
BY InitIInv, StepIInv, PTL DEF Spec

-----------------------------------------------------------------------------
(* Main results. *)

\* The engine is well typed, and only automations that exist are enabled.
THEOREM TypeCorrect == Spec => []TypeOK
<1>1. IInv => TypeOK
  BY DEF IInv
<1> QED BY <1>1, Invariance, PTL

\* workflow.py _check_rate_limits: two firings recorded by one process are at
\* least a cooldown apart, whatever the others do in between.
THEOREM CooldownPerStream == Spec => []StreamCooldown
<1>1. IInv => StreamCooldown
  BY DEF IInv
<1> QED BY <1>1, Invariance, PTL

\* The decisions about one automation, in their order.
Follows(pc) ==
  CASE pc = "pick" -> "breaker" [] pc = "breaker" -> "cooldown"
    [] pc = "cooldown" -> "rate" [] pc = "rate" -> "dispatch" [] OTHER -> "pick"

\* From c to d an evaluation is over, has loaded its automations, has one fewer
\* of them to do, or is one decision further with the one at hand.
Advances(c, d) ==
  \/ d.pc = "idle"
  \/ c.pc = "load" /\ d.pc = "pick"
  \/ /\ d.pc = "pick" /\ c.pc # "load"
     /\ d.todo \subseteq c.todo /\ d.todo # c.todo
  \/ d.todo = c.todo /\ c.pc # "dispatch" /\ d.pc = Follows(c.pc)

\* workflow.py _evaluate_event, _evaluate_periodic: an evaluation under way only
\* ever gets closer to its end, whatever is edited, deleted or evaluated beside
\* it.  With finitely many automations this leaves no evaluation endless; that
\* it is scheduled at all is the fairness of EvaluationsFinish.
EvaluationsAdvance ==
  \A p \in Procs :
    proc[p].pc # "idle" /\ proc'[p] # proc[p] => Advances(proc[p], proc'[p])

LEMMA StepAdvances ==
  ASSUME IInv, NEW p \in Procs, Step(p)
  PROVE  /\ proc' = [proc EXCEPT ![p] = proc'[p]]
         /\ Advances(proc[p], proc'[p])
<1>1. proc \in [Procs -> ProcState] /\ proc[p] \in ProcState
  BY DEF IInv, TypeOK
<1>2. proc[p].pc \in Deciding => proc[p].auto \in proc[p].todo
  BY DEF IInv, TypeOK, ProcOK
<1>3. CASE Load(p)
  BY <1>1, <1>3 DEF Load, Advances, ProcState
<1>4. ASSUME NEW a \in Autos, NotDue(p, a) \/ ConditionsRaise(p, a) \/ ConditionsPass(p, a)
      PROVE  proc' = [proc EXCEPT ![p] = proc'[p]] /\ Advances(proc[p], proc'[p])
  BY <1>1, <1>4
  DEF NotDue, ConditionsRaise, ConditionsPass, Considers, Picks, Idle, Advances, Follows, ProcState
<1>5. ASSUME NEW a \in proc[p].todo, NEW reason, AddRun(p, a, reason), proc[p].pc # "load"
      PROVE  proc' = [proc EXCEPT ![p] = proc'[p]] /\ Advances(proc[p], proc'[p])
  BY <1>1, <1>5 DEF AddRun, Advances, ProcState
<1>6. ASSUME NEW a \in Autos, ConditionsFail(p, a)
      PROVE  proc' = [proc EXCEPT ![p] = proc'[p]] /\ Advances(proc[p], proc'[p])
  BY <1>5, <1>6 DEF ConditionsFail, Considers, Picks
<1>7. ASSUME NEW pc, proc' = [proc EXCEPT ![p].pc = pc], pc = Follows(proc[p].pc),
             proc[p].pc # "dispatch"
      PROVE  proc' = [proc EXCEPT ![p] = proc'[p]] /\ Advances(proc[p], proc'[p])
  BY <1>1, <1>7 DEF Advances, ProcState
<1>8. CASE CheckBreaker(p) \/ CheckCooldown(p) \/ CheckRate(p) \/ Dispatch(p)
  BY <1>2, <1>5, <1>7, <1>8
  DEF CheckBreaker, CheckCooldown, CheckRate, Dispatch, Deciding, Follows
<1>9. CASE CommitRuns(p)
  BY <1>1, <1>9 DEF CommitRuns, Idle, Advances
<1> QED BY <1>3, <1>4, <1>6, <1>8, <1>9 DEF Step

THEOREM EvaluationsOnlyAdvance == Spec => [][EvaluationsAdvance]_vars
<1>1. IInv /\ [Next]_vars => [EvaluationsAdvance]_vars
  <2> SUFFICES ASSUME IInv, Next, NEW p \in Procs, proc[p].pc # "idle", proc'[p] # proc[p]
               PROVE  Advances(proc[p], proc'[p])
    BY DEF EvaluationsAdvance
  <2>1. proc \in [Procs -> ProcState]
    BY DEF IInv, TypeOK
  <2>2. ASSUME NEW q \in Procs, Step(q) PROVE Advances(proc[p], proc'[p])
    BY <2>1, <2>2, StepAdvances
  <2>3. ASSUME NEW q \in Procs, proc[q].pc = "idle", NEW new,
               proc' = [proc EXCEPT ![q] = new]
        PROVE  FALSE
    BY <2>1, <2>3
  <2>4. ASSUME Crash \/ \E q \in Procs : Fail(q) PROVE Advances(proc[p], proc'[p])
    BY <2>1, <2>4 DEF Crash, Fail, Idle, Advances
  <2>5. CASE \/ \E a \in Autos, on \in BOOLEAN : SetEnabled(a, on)
             \/ \E d \in Deleters, a \in Autos : AskDelete(d, a)
             \/ \E d \in Deleters : DeleteRows(d) \/ CommitDelete(d) \/ FailDelete(d)
             \/ Tick
    BY <2>5 DEF SetEnabled, AskDelete, DeleteRows, CommitDelete, FailDelete, Tick
  <2>6. CASE \E h \in Handlers, payload \in Payloads : HandleEvent(h, payload)
    BY <2>3, <2>6 DEF HandleEvent, Procs
  <2>7. CASE \E l \in Loops : StartPass(l)
    BY <2>3, <2>7 DEF StartPass, Procs
  <2> QED BY <2>2, <2>4, <2>5, <2>6, <2>7 DEF Next
<1> QED BY <1>1, Invariance, PTL DEF Spec
=============================================================================
