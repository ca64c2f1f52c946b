---------------------- MODULE WorkflowEngineLimitsProofs ----------------------
(***************************************************************************)
(* WorkflowEngine, continued: how far concurrent evaluations can exceed    *)
(* the cooldown (CooldownOvershoot), the rate limit (RateOvershoot) and    *)
(* the circuit breaker (BreakerOvershoot).  The queries count committed    *)
(* runs; an evaluation that has passed one is in flight until its commit.  *)
(* The firings in a window, committed and in flight together, stay below   *)
(* the limit plus the number of processes that evaluate the automation.    *)
(***************************************************************************)
EXTENDS WorkflowEngineLogProofs

AfterRate == {"dispatch"}
AfterBreaker == {"cooldown", "rate", "dispatch"}

\* Evaluation c has passed a check of automation a: it is between the check
\* and the dispatch, or holds the run of its firing.
Flying(c, a, passed) ==
  \/ c.pc \in passed /\ c.auto = a
  \/ \E r \in c.pending : r.auto = a /\ r.reason = "fired"

InFlight(a, first, last, passed) ==
  {p \in Evaluators(a) : Flying(proc[p], a, passed) /\ first <= proc[p].at /\ proc[p].at <= last}

Kept(a, limit, window, passed) ==
  \A s \in Nat : \A p \in Evaluators(a) :
    Cardinality(Between(a, s, s + window)) + Cardinality(InFlight(a, s, s + window, passed))
      <= limit + Cardinality(Evaluators(a)) - 1

RateKept ==
  \A a \in Autos : Config[a].maxRuns # None /\ Config[a].window # None =>
    Kept(a, Config[a].maxRuns, Config[a].window, AfterRate)

BreakerKept ==
  \A a \in Autos : Config[a].threshold # 0 /\ Config[a].breakerWindow # 0 =>
    Kept(a, Config[a].threshold, Config[a].breakerWindow, AfterBreaker)

Finite ==
  /\ IsFiniteSet(runs)
  /\ \A p \in Procs : IsFiniteSet(proc[p].pending)

LimitInv == LogInv /\ Finite /\ RateKept /\ BreakerKept

-----------------------------------------------------------------------------
(* Counting. *)

LEMMA EvaluatorsFinite ==
  ASSUME NEW a
  PROVE  /\ Evaluators(a) \subseteq Procs /\ IsFiniteSet(Evaluators(a))
         /\ Cardinality(Evaluators(a)) \in Nat
<1>1. Evaluators(a) \subseteq Procs
  BY DEF Evaluators
<1> QED BY <1>1, ProcsAssumption, FS_Subset, FS_CardinalityType

LEMMA Counts ==
  ASSUME TypeOK, Finite, NEW a, NEW first, NEW last, NEW passed
  PROVE  /\ IsFiniteSet(Between(a, first, last))
         /\ IsFiniteSet(InFlight(a, first, last, passed))
         /\ Cardinality(Between(a, first, last)) \in Nat
         /\ Cardinality(InFlight(a, first, last, passed)) \in Nat
         /\ Cardinality(InFlight(a, first, last, passed)) <= Cardinality(Evaluators(a))
         /\ Cardinality(Evaluators(a)) \in Nat
<1>1. Between(a, first, last) \subseteq runs
  BY DEF Between, FiringRuns
<1>2. InFlight(a, first, last, passed) \subseteq Evaluators(a)
  BY DEF InFlight
<1>3. IsFiniteSet(runs) /\ IsFiniteSet(Evaluators(a))
  BY EvaluatorsFinite DEF Finite
<1> QED BY <1>1, <1>2, <1>3, FS_Subset, FS_CardinalityType

\* No more firings in the log, and no more of them in flight.
LEMMA KeptLess ==
  ASSUME TypeOK, Finite, NEW a, NEW limit \in Nat, NEW window \in Nat, NEW passed,
         Kept(a, limit, window, passed), runs' \subseteq runs,
         \A p \in Procs : Flying(proc'[p], a, passed) =>
                            Flying(proc[p], a, passed) /\ proc'[p].at = proc[p].at
  PROVE  Kept(a, limit, window, passed)'
<1> SUFFICES ASSUME NEW s \in Nat, NEW p \in Evaluators(a)
             PROVE  Cardinality(Between(a, s, s + window)') +
                      Cardinality(InFlight(a, s, s + window, passed)')
                      <= limit + Cardinality(Evaluators(a)) - 1
  BY DEF Kept, Evaluators
<1> DEFINE B == Between(a, s, s + window)
           F == InFlight(a, s, s + window, passed)
<1>1. B' \subseteq B
  BY DEF Between, FiringRuns
<1>2. F' \subseteq F
  BY DEF InFlight, Flying, Evaluators
<1>3. IsFiniteSet(B) /\ IsFiniteSet(F) /\ Cardinality(B) \in Nat /\ Cardinality(F) \in Nat
      /\ Cardinality(Evaluators(a)) \in Nat
  BY Counts
<1>4. Cardinality(B) + Cardinality(F) <= limit + Cardinality(Evaluators(a)) - 1
  BY DEF Kept
<1> HIDE DEF B, F
<1>5. Cardinality(B') <= Cardinality(B) /\ Cardinality(B') \in Nat
  BY <1>1, <1>3, FS_Subset, FS_CardinalityType
<1>6. Cardinality(F') <= Cardinality(F) /\ Cardinality(F') \in Nat
  BY <1>2, <1>3, FS_Subset, FS_CardinalityType
<1>7. Cardinality(B') + Cardinality(F') <= limit + Cardinality(Evaluators(a)) - 1
  BY <1>3, <1>4, <1>5, <1>6
<1> QED BY <1>7 DEF B, F

\* The query finds fewer runs than the limit in the window that ends with the
\* evaluation, so any window with the evaluation in it has fewer than that.
LEMMA KeptPass ==
  ASSUME IInv, Finite, TypeOK', Finite', NEW a, NEW limit \in Nat, NEW window \in Nat,
         NEW passed, Kept(a, limit, window, passed), runs' = runs, NEW p \in Procs,
         proc'[p].at = proc[p].at, \A o \in Procs \ {p} : proc'[o] = proc[o],
         ~ CountSince(a, proc[p].at - window) >= limit
  PROVE  Kept(a, limit, window, passed)'
<1> SUFFICES ASSUME NEW s \in Nat, NEW o \in Evaluators(a)
             PROVE  Cardinality(Between(a, s, s + window)') +
                      Cardinality(InFlight(a, s, s + window, passed)')
                      <= limit + Cardinality(Evaluators(a)) - 1
  BY DEF Kept, Evaluators
<1> DEFINE B == Between(a, s, s + window)
           F == InFlight(a, s, s + window, passed)
           t == proc[p].at
           C == {r \in CountedRuns(a) : r.at >= t - window}
<1>1. TypeOK /\ t \in Nat
  BY ProcType DEF IInv
<1>2. B' = B
  BY DEF Between, FiringRuns
<1>3. IsFiniteSet(B) /\ Cardinality(B) \in Nat
      /\ IsFiniteSet(F) /\ Cardinality(F) \in Nat /\ Cardinality(Evaluators(a)) \in Nat
  BY <1>1, Counts
<1>4. Cardinality(F') \in Nat /\ Cardinality(F') <= Cardinality(Evaluators(a))
  <2>1. F' \subseteq Evaluators(a)
    BY DEF InFlight, Evaluators
  <2> QED BY <2>1, EvaluatorsFinite, FS_Subset, FS_CardinalityType
<1>5. CASE s <= t /\ t <= s + window
  <2>1. B \subseteq C
    <3> SUFFICES ASSUME NEW r \in B PROVE r \in C
      OBVIOUS
    <3>1. r \in runs /\ r.auto = a /\ r.reason = "fired" /\ s <= r.at
      BY DEF Between, FiringRuns
    <3>2. r.actions # "sql_null" /\ r.at \in Nat
      BY <3>1 DEF IInv, ColumnsOK, ActionsColumn, TypeOK, Run, Time
    <3>3. r.at >= t - window
      BY <1>1, <1>5, <3>1, <3>2
    <3> QED BY <3>1, <3>2, <3>3 DEF CountedRuns
  <2>2. IsFiniteSet(C)
    <3>1. C \subseteq runs
      BY DEF CountedRuns
    <3> QED BY <3>1, FS_Subset DEF Finite
  <2>3. Cardinality(C) \in Nat /\ Cardinality(B) <= Cardinality(C)
    BY <2>1, <2>2, FS_Subset, FS_CardinalityType
  <2>4. ~ Cardinality(C) >= limit
    BY DEF CountSince
  <2> HIDE DEF B, F, C, t
  <2>5. Cardinality(B') + Cardinality(F') <= limit + Cardinality(Evaluators(a)) - 1
    BY <1>2, <1>3, <1>4, <2>3, <2>4
  <2> QED BY <2>5 DEF B, F
<1>6. CASE ~ (s <= t /\ t <= s + window)
  <2>1. F' \subseteq F
    BY <1>6 DEF InFlight, Flying, Evaluators
  <2>2. Cardinality(B) + Cardinality(F) <= limit + Cardinality(Evaluators(a)) - 1
    BY DEF Kept
  <2> HIDE DEF B, F, t
  <2>3. Cardinality(F') <= Cardinality(F)
    BY <1>3, <2>1, FS_Subset
  <2>4. Cardinality(B') + Cardinality(F') <= limit + Cardinality(Evaluators(a)) - 1
    BY <1>2, <1>3, <1>4, <2>2, <2>3
  <2> QED BY <2>4 DEF B, F
<1> QED BY <1>5, <1>6

\* A firing lands: one more in the log, one fewer in flight.
LEMMA KeptCommit ==
  ASSUME LogInv, Finite, NEW a, NEW limit \in Nat, NEW window \in Nat, NEW passed,
         Kept(a, limit, window, passed), NEW p \in Procs, proc[p].pc = "pick",
         "pick" \notin passed, "idle" \notin passed, CommitRuns(p)
  PROVE  Kept(a, limit, window, passed)'
<1> SUFFICES ASSUME NEW s \in Nat, NEW o \in Evaluators(a)
             PROVE  Cardinality(Between(a, s, s + window)') +
                      Cardinality(InFlight(a, s, s + window, passed)')
                      <= limit + Cardinality(Evaluators(a)) - 1
  BY DEF Kept, Evaluators
<1> DEFINE B == Between(a, s, s + window)
           F == InFlight(a, s, s + window, passed)
           New == {r \in proc[p].pending : r.auto = a /\ r.reason = "fired"
                                           /\ s <= r.at /\ r.at <= s + window}
<1>1. TypeOK /\ StreamOK(p, proc[p]) /\ LogOK(p, proc[p])
  BY DEF LogInv, IInv
<1>2. /\ runs' = runs \cup proc[p].pending
      /\ proc' = [proc EXCEPT ![p] = Idle(proc[p].n)]
  BY DEF CommitRuns
<1>3. \A q \in Procs : proc'[q] = IF q = p THEN Idle(proc[p].n) ELSE proc[q]
  BY <1>1, <1>2 DEF TypeOK
<1>4. B' = B \cup New
  BY <1>2 DEF Between, FiringRuns
<1>5. F' = F \ {p}
  <2>1. ~ Flying(Idle(proc[p].n), a, passed)
    BY DEF Flying, Idle
  <2>2. \A q \in Procs : q \in F' <=> (q \in F /\ q # p)
    BY <1>3, <2>1 DEF InFlight, Flying, Evaluators
  <2>3. F \subseteq Procs /\ F' \subseteq Procs
    BY DEF InFlight, Evaluators
  <2> QED BY <2>2, <2>3
<1>6. \A x, y \in New : x = y
  BY <1>1 DEF StreamOK
<1>7. New # {} => p \in F
  <2> SUFFICES ASSUME NEW r \in New PROVE p \in F
    OBVIOUS
  <2>1. p \in Evaluators(a)
    BY <1>1 DEF LogOK, Begun, Recorded, Evaluators
  <2> QED BY <1>1, <2>1 DEF StreamOK, InFlight, Flying
<1>8. IsFiniteSet(B) /\ IsFiniteSet(F) /\ Cardinality(B) \in Nat /\ Cardinality(F) \in Nat
      /\ Cardinality(Evaluators(a)) \in Nat
  BY <1>1, Counts
<1>9. Cardinality(B) + Cardinality(F) <= limit + Cardinality(Evaluators(a)) - 1
  BY DEF Kept
<1> HIDE DEF B, F, New
<1>10. Cardinality(B') + Cardinality(F') <= limit + Cardinality(Evaluators(a)) - 1
  <2>1. CASE New = {}
    <3>1. B' = B
      BY <1>4, <2>1
    <3>2. F' \subseteq F
      BY <1>5
    <3>3. Cardinality(F') <= Cardinality(F) /\ Cardinality(F') \in Nat
      BY <1>8, <3>2, FS_Subset, FS_CardinalityType
    <3> QED BY <1>8, <1>9, <3>1, <3>3
  <2>2. CASE New # {}
    <3>1. PICK x \in New : TRUE
      BY <2>2
    <3>2. B' = B \cup {x}
      BY <1>4, <1>6, <3>1
    <3>3. Cardinality(B') <= Cardinality(B) + 1 /\ Cardinality(B') \in Nat
      <4>1. /\ IsFiniteSet(B \cup {x})
            /\ Cardinality(B \cup {x}) =
                 IF x \in B THEN Cardinality(B) ELSE Cardinality(B) + 1
        BY <1>8, FS_AddElement
      <4> QED BY <1>8, <3>2, <4>1
    <3>4. Cardinality(F') = Cardinality(F) - 1
      BY <1>5, <1>7, <1>8, <2>2, FS_RemoveElement
    <3> QED BY <1>8, <1>9, <3>3, <3>4
  <2> QED BY <2>1, <2>2
<1> QED BY <1>10 DEF B, F

-----------------------------------------------------------------------------
(* Steps. *)

Passed == {AfterRate, AfterBreaker}

\* Evaluation new is in flight only for what c was, and at the same time.
NoNewFlight(c, new) ==
  \A a \in Autos, passed \in Passed :
    Flying(new, a, passed) => Flying(c, a, passed) /\ new.at = c.at

LEMMA LimitNats ==
  ASSUME NEW a \in Autos
  PROVE  /\ Config[a].maxRuns # None => Config[a].maxRuns \in Nat
         /\ Config[a].window # None => Config[a].window \in Nat
         /\ Config[a].threshold \in Nat /\ Config[a].breakerWindow \in Nat
BY ConfigAssumption DEF Definition

LEMMA LimitLess ==
  ASSUME LimitInv, LogInv', Finite', runs' \subseteq runs,
         \A p \in Procs : NoNewFlight(proc[p], proc'[p])
  PROVE  LimitInv'
<1>1. TypeOK /\ Finite
  BY DEF LimitInv, LogInv, IInv
<1>2. ASSUME NEW a \in Autos, Config[a].maxRuns # None, Config[a].window # None
      PROVE  Kept(a, Config[a].maxRuns, Config[a].window, AfterRate)'
  <2>1. Kept(a, Config[a].maxRuns, Config[a].window, AfterRate)
    BY <1>2 DEF LimitInv, RateKept
  <2> QED BY <1>1, <1>2, <2>1, LimitNats, KeptLess DEF NoNewFlight, Passed
<1>3. ASSUME NEW a \in Autos, Config[a].threshold # 0, Config[a].breakerWindow # 0
      PROVE  Kept(a, Config[a].threshold, Config[a].breakerWindow, AfterBreaker)'
  <2>1. Kept(a, Config[a].threshold, Config[a].breakerWindow, AfterBreaker)
    BY <1>3 DEF LimitInv, BreakerKept
  <2> QED BY <1>1, <1>3, <2>1, LimitNats, KeptLess DEF NoNewFlight, Passed
<1> QED BY <1>2, <1>3 DEF LimitInv, RateKept, BreakerKept

\* Only process p moves, and the log stays as it is.
LEMMA LimitMove ==
  ASSUME LimitInv, LogInv', NEW p \in Procs, NEW new,
         proc' = [proc EXCEPT ![p] = new], runs' = runs,
         IsFiniteSet(new.pending), NoNewFlight(proc[p], new)
  PROVE  LimitInv'
<1>1. \A o \in Procs : proc'[o] = IF o = p THEN new ELSE proc[o]
  BY DEF LimitInv, LogInv, IInv, TypeOK
<1>2. Finite'
  BY <1>1 DEF LimitInv, Finite
<1>3. \A o \in Procs : NoNewFlight(proc[o], proc'[o])
  BY <1>1 DEF NoNewFlight
<1> QED BY <1>2, <1>3, LimitLess

\* An evaluation begins or is given up.
LEMMA LimitAnew ==
  ASSUME LimitInv, LogInv', NEW p \in Procs, NEW new,
         proc' = [proc EXCEPT ![p] = new], runs' = runs,
         new.pending = {}, new.pc \in {"idle", "load", "pick"}
  PROVE  LimitInv'
<1>1. NoNewFlight(proc[p], new)
  BY DEF NoNewFlight, Passed, AfterRate, AfterBreaker, Flying
<1>2. IsFiniteSet(new.pending)
  BY FS_EmptySet
<1> QED BY <1>1, <1>2, LimitMove

\* The transaction stays as it is, and no check is passed.
LEMMA LimitSame ==
  ASSUME LimitInv, LogInv', NEW p \in Procs, NEW new,
         proc' = [proc EXCEPT ![p] = new], runs' = runs,
         new.pending = proc[p].pending, new.at = proc[p].at,
         new.pc \in {"pick", "breaker"}
  PROVE  LimitInv'
<1>1. NoNewFlight(proc[p], new)
  BY DEF NoNewFlight, Passed, AfterRate, AfterBreaker, Flying
<1>2. IsFiniteSet(new.pending)
  BY DEF LimitInv, Finite
<1> QED BY <1>1, <1>2, LimitMove

\* A firing that is recorded was in flight since it passed the checks.
LEMMA LimitAddRun ==
  ASSUME LimitInv, LogInv', NEW p \in Procs, NEW a, NEW reason,
         AddRun(p, a, reason), runs' = runs,
         reason = "fired" => proc[p].pc = "dispatch" /\ proc[p].auto = a
  PROVE  LimitInv'
<1> DEFINE run == [auto |-> a, by |-> p, n |-> proc[p].n, at |-> proc[p].at,
                   actions |-> ActionsColumn(reason = "fired"), reason |-> reason]
           new == [proc[p] EXCEPT !.pc = "pick", !.todo = @ \ {a}, !.auto = None,
                                  !.pending = @ \cup {run}]
<1>1. proc[p] \in ProcState /\ IsFiniteSet(proc[p].pending)
  BY ProcType DEF LimitInv, LogInv, IInv, Finite
<1>2. proc' = [proc EXCEPT ![p] = new]
  BY DEF AddRun
<1>3. run.auto = a /\ run.reason = reason
  OBVIOUS
<1> HIDE DEF run
<1>4. /\ new.pending = proc[p].pending \cup {run} /\ new.at = proc[p].at
      /\ new.pc = "pick"
  BY <1>1 DEF ProcState
<1> HIDE DEF new
<1>5. NoNewFlight(proc[p], new)
  BY <1>3, <1>4 DEF NoNewFlight, Passed, AfterRate, AfterBreaker, Flying
<1>6. IsFiniteSet(new.pending)
  BY <1>1, <1>4, FS_AddElement
<1> QED BY <1>2, <1>5, <1>6, LimitMove

\* A check is passed: one kind of limit knows the evaluation already or not
\* yet, and the query keeps the other.
LEMMA LimitCheck ==
  ASSUME LimitInv, LogInv', NEW p \in Procs, NEW pc, runs' = runs,
         proc' = [proc EXCEPT ![p].pc = pc],
         \/ /\ proc[p].pc = "breaker" /\ pc = "cooldown"
            /\ ~ CircuitOpen(proc[p].auto, proc[p].at)
         \/ proc[p].pc = "cooldown" /\ pc = "rate"
         \/ /\ proc[p].pc = "rate" /\ pc = "dispatch"
            /\ ~ RateLimited(proc[p].auto, proc[p].at)
  PROVE  LimitInv'
<1> DEFINE new == [proc[p] EXCEPT !.pc = pc]
<1>1. /\ TypeOK /\ Finite /\ TypeOK' /\ proc[p] \in ProcState
      /\ proc \in [Procs -> ProcState]
  BY ProcType DEF LimitInv, LogInv, IInv, TypeOK
<1>2. \A o \in Procs : proc'[o] = IF o = p THEN new ELSE proc[o]
  BY <1>1
<1>3. /\ new.pending = proc[p].pending /\ new.at = proc[p].at
      /\ new.auto = proc[p].auto /\ new.pc = pc
  BY <1>1 DEF ProcState
<1> HIDE DEF new
<1>4. Finite'
  BY <1>1, <1>2, <1>3 DEF Finite
<1>5. ASSUME NEW a \in Autos, NEW passed,
             passed = AfterRate => a # proc[p].auto \/ pc # "dispatch",
             passed = AfterBreaker => a # proc[p].auto \/ pc # "cooldown",
             passed \in Passed, NEW o \in Procs, Flying(proc'[o], a, passed)
      PROVE  Flying(proc[o], a, passed) /\ proc'[o].at = proc[o].at
  BY <1>2, <1>3, <1>5 DEF Passed, AfterRate, AfterBreaker, Flying
<1>6. ASSUME NEW a \in Autos, Config[a].maxRuns # None, Config[a].window # None
      PROVE  Kept(a, Config[a].maxRuns, Config[a].window, AfterRate)'
  <2>1. Kept(a, Config[a].maxRuns, Config[a].window, AfterRate)
    BY <1>6 DEF LimitInv, RateKept
  <2>2. CASE a = proc[p].auto /\ pc = "dispatch"
    <3>1. ~ CountSince(a, proc[p].at - Config[a].window) >= Config[a].maxRuns
      BY <1>6, <2>2 DEF RateLimited
    <3> QED
      BY <1>1, <1>2, <1>3, <1>4, <1>6, <2>1, <3>1, LimitNats, KeptPass DEF LimitInv, LogInv
  <2>3. CASE ~ (a = proc[p].auto /\ pc = "dispatch")
    <3>1. AfterRate # AfterBreaker
      BY DEF AfterRate, AfterBreaker
    <3>2. \A o \in Procs : Flying(proc'[o], a, AfterRate) =>
            Flying(proc[o], a, AfterRate) /\ proc'[o].at = proc[o].at
      BY <1>5, <2>3, <3>1 DEF Passed
    <3> QED BY <1>1, <1>6, <2>1, <3>2, LimitNats, KeptLess
  <2> QED BY <2>2, <2>3
<1>7. ASSUME NEW a \in Autos, Config[a].threshold # 0, Config[a].breakerWindow # 0
      PROVE  Kept(a, Config[a].threshold, Config[a].breakerWindow, AfterBreaker)'
  <2>1. Kept(a, Config[a].threshold, Config[a].breakerWindow, AfterBreaker)
    BY <1>7 DEF LimitInv, BreakerKept
  <2>2. CASE a = proc[p].auto /\ pc = "cooldown"
    <3>1. ~ CountSince(a, proc[p].at - Config[a].breakerWindow) >= Config[a].threshold
      BY <1>7, <2>2 DEF CircuitOpen
    <3> QED
      BY <1>1, <1>2, <1>3, <1>4, <1>7, <2>1, <3>1, LimitNats, KeptPass DEF LimitInv, LogInv
  <2>3. CASE ~ (a = proc[p].auto /\ pc = "cooldown")
    <3>1. AfterRate # AfterBreaker
      BY DEF AfterRate, AfterBreaker
    <3>2. \A o \in Procs : Flying(proc'[o], a, AfterBreaker) =>
            Flying(proc[o], a, AfterBreaker) /\ proc'[o].at = proc[o].at
      BY <1>5, <2>3, <3>1 DEF Passed
    <3> QED BY <1>1, <1>7, <2>1, <3>2, LimitNats, KeptLess
  <2> QED BY <2>2, <2>3
<1> QED BY <1>4, <1>6, <1>7 DEF LimitInv, RateKept, BreakerKept

LEMMA LimitCommit ==
  ASSUME LimitInv, LogInv', NEW p \in Procs, CommitRuns(p)
  PROVE  LimitInv'
<1>1. /\ runs' = runs \cup proc[p].pending /\ proc[p].pc = "pick"
      /\ proc' = [proc EXCEPT ![p] = Idle(proc[p].n)]
  BY DEF CommitRuns
<1>2. \A o \in Procs : proc'[o] = IF o = p THEN Idle(proc[p].n) ELSE proc[o]
  BY <1>1 DEF LimitInv, LogInv, IInv, TypeOK
<1>3. Finite'
  <2>1. IsFiniteSet(runs')
    BY <1>1, FS_Union DEF LimitInv, Finite
  <2>2. Idle(proc[p].n).pending = {} /\ IsFiniteSet({})
    BY FS_EmptySet DEF Idle
  <2> QED BY <1>2, <2>1, <2>2 DEF LimitInv, Finite
<1>4. ASSUME NEW a \in Autos, Config[a].maxRuns # None, Config[a].window # None
      PROVE  Kept(a, Config[a].maxRuns, Config[a].window, AfterRate)'
  <2>1. Kept(a, Config[a].maxRuns, Config[a].window, AfterRate)
    BY <1>4 DEF LimitInv, RateKept
  <2>2. "pick" \notin AfterRate /\ "idle" \notin AfterRate
    BY DEF AfterRate
  <2> QED BY <1>1, <1>4, <2>1, <2>2, LimitNats, KeptCommit DEF LimitInv
<1>5. ASSUME NEW a \in Autos, Config[a].threshold # 0, Config[a].breakerWindow # 0
      PROVE  Kept(a, Config[a].threshold, Config[a].breakerWindow, AfterBreaker)'
  <2>1. Kept(a, Config[a].threshold, Config[a].breakerWindow, AfterBreaker)
    BY <1>5 DEF LimitInv, BreakerKept
  <2>2. "pick" \notin AfterBreaker /\ "idle" \notin AfterBreaker
    BY DEF AfterBreaker
  <2> QED BY <1>1, <1>5, <2>1, <2>2, LimitNats, KeptCommit DEF LimitInv
<1> QED BY <1>3, <1>4, <1>5 DEF LimitInv, RateKept, BreakerKept

LEMMA LimitLoad ==
  ASSUME LimitInv, LogInv', NEW p \in Procs, Load(p)
  PROVE  LimitInv'
<1> DEFINE new == [proc[p] EXCEPT !.pc = "pick", !.at = now, !.todo =
         {a \in enabled : Config[a].trigger = Kind(p)}]
<1>1. proc[p] \in ProcState /\ proc[p].pending = {}
  BY ProcType DEF LimitInv, LogInv, IInv, StreamOK, Load
<1>2. proc' = [proc EXCEPT ![p] = new] /\ runs' = runs
  BY DEF Load
<1>3. new.pending = {} /\ new.pc = "pick"
  BY <1>1 DEF ProcState
<1> HIDE DEF new
<1> QED BY <1>2, <1>3, LimitAnew

LEMMA LimitNotDue ==
  ASSUME LimitInv, LogInv', NEW p \in Procs, NEW a \in Autos, NotDue(p, a)
  PROVE  LimitInv'
<1> DEFINE new == [proc[p] EXCEPT !.todo = @ \ {a}]
<1>1. proc[p] \in ProcState /\ proc[p].pc = "pick"
  BY ProcType DEF LimitInv, LogInv, IInv, NotDue, Picks
<1>2. proc' = [proc EXCEPT ![p] = new] /\ runs' = runs
  BY DEF NotDue
<1>3. new.pending = proc[p].pending /\ new.at = proc[p].at /\ new.pc = "pick"
  BY <1>1 DEF ProcState
<1> HIDE DEF new
<1> QED BY <1>2, <1>3, LimitSame

LEMMA LimitConditionsPass ==
  ASSUME LimitInv, LogInv', NEW p \in Procs, NEW a \in Autos, ConditionsPass(p, a)
  PROVE  LimitInv'
<1> DEFINE new == [proc[p] EXCEPT !.pc = "breaker", !.auto = a]
<1>1. proc[p] \in ProcState
  BY ProcType DEF LimitInv, LogInv, IInv
<1>2. proc' = [proc EXCEPT ![p] = new] /\ runs' = runs
  BY DEF ConditionsPass
<1>3. new.pending = proc[p].pending /\ new.at = proc[p].at /\ new.pc = "breaker"
  BY <1>1 DEF ProcState
<1> HIDE DEF new
<1> QED BY <1>2, <1>3, LimitSame

LEMMA LimitGiveUp ==
  ASSUME LimitInv, LogInv', NEW p \in Procs, NEW a \in Autos, ConditionsRaise(p, a)
  PROVE  LimitInv'
<1> DEFINE new == Idle(proc[p].n)
<1>1. proc' = [proc EXCEPT ![p] = new] /\ runs' = runs
  BY DEF ConditionsRaise
<1>2. new.pending = {} /\ new.pc = "idle"
  BY DEF Idle
<1> HIDE DEF new
<1> QED BY <1>1, <1>2, LimitAnew

LEMMA LimitFail ==
  ASSUME LimitInv, LogInv', NEW p \in Procs, Fail(p)
  PROVE  LimitInv'
<1> DEFINE new == Idle(proc[p].n)
<1>1. proc' = [proc EXCEPT ![p] = new] /\ runs' = runs
  BY DEF Fail
<1>2. new.pending = {} /\ new.pc = "idle"
  BY DEF Idle
<1> HIDE DEF new
<1> QED BY <1>1, <1>2, LimitAnew

LEMMA LimitChecks ==
  ASSUME LimitInv, LogInv', NEW p \in Procs,
         CheckBreaker(p) \/ CheckCooldown(p) \/ CheckRate(p)
  PROVE  LimitInv'
<1>1. runs' = runs
  BY DEF CheckBreaker, CheckCooldown, CheckRate
<1>2. ASSUME NEW reason \in Reasons \ {"fired"}, AddRun(p, proc[p].auto, reason)
      PROVE  LimitInv'
  BY <1>1, <1>2, LimitAddRun
<1>3. CASE CheckBreaker(p)
  BY <1>1, <1>2, <1>3, LimitCheck DEF CheckBreaker, Reasons
<1>4. CASE CheckCooldown(p)
  BY <1>1, <1>2, <1>4, LimitCheck DEF CheckCooldown, Reasons
<1>5. CASE CheckRate(p)
  BY <1>1, <1>2, <1>5, LimitCheck DEF CheckRate, Reasons
<1> QED BY <1>3, <1>4, <1>5

LEMMA LimitHandleEvent ==
  ASSUME LimitInv, LogInv', NEW h \in Handlers, NEW payload, HandleEvent(h, payload)
  PROVE  LimitInv'
<1> DEFINE new == [Idle(proc[h].n + 1) EXCEPT !.pc = "load", !.payload = payload]
<1>1. proc' = [proc EXCEPT ![h] = new] /\ runs' = runs /\ h \in Procs
  BY DEF HandleEvent, Procs
<1>2. new.pending = {} /\ new.pc = "load"
  BY DEF Idle
<1> HIDE DEF new
<1> QED BY <1>1, <1>2, LimitAnew

LEMMA LimitStartPass ==
  ASSUME LimitInv, LogInv', NEW l \in Loops, StartPass(l)
  PROVE  LimitInv'
<1> DEFINE new == [Idle(0) EXCEPT !.pc = "load"]
<1>1. proc' = [proc EXCEPT ![l] = new] /\ runs' = runs /\ l \in Procs
  BY DEF StartPass, Procs
<1>2. new.pending = {} /\ new.pc = "load"
  BY DEF Idle
<1> HIDE DEF new
<1> QED BY <1>1, <1>2, LimitAnew

\* The environment only takes runs and evaluations away.
LEMMA LimitEnvironment ==
  ASSUME LimitInv, LogInv', runs' \subseteq runs,
         \A p \in Procs : proc'[p] = proc[p] \/ \E n \in Nat : proc'[p] = Idle(n)
  PROVE  LimitInv'
<1>1. Finite'
  <2>1. \A n : Idle(n).pending = {} /\ IsFiniteSet({})
    BY FS_EmptySet DEF Idle
  <2>2. IsFiniteSet(runs')
    BY FS_Subset DEF LimitInv, Finite
  <2> QED BY <2>1, <2>2 DEF LimitInv, Finite
<1>2. ASSUME NEW p \in Procs PROVE NoNewFlight(proc[p], proc'[p])
  <2>1. CASE proc'[p] = proc[p]
    BY <2>1 DEF NoNewFlight
  <2>2. CASE \E n \in Nat : proc'[p] = Idle(n)
    <3>1. proc'[p].pc = "idle" /\ proc'[p].pending = {}
      BY <2>2 DEF Idle
    <3> QED BY <3>1 DEF NoNewFlight, Passed, AfterRate, AfterBreaker, Flying
  <2> QED BY <2>1, <2>2
<1> QED BY <1>1, <1>2, LimitLess

LEMMA InitLimitInv == Init => LimitInv
<1> SUFFICES ASSUME Init PROVE LimitInv
  OBVIOUS
<1>1. \A p \in Procs : proc[p] = Idle(0)
  BY DEF Init
<1>2. Finite
  BY <1>1, FS_EmptySet DEF Init, Finite, Idle
<1>3. ASSUME NEW a, NEW limit \in Nat, NEW window, NEW passed \in Passed
      PROVE  Kept(a, limit, window, passed)
  <2> SUFFICES ASSUME NEW s \in Nat, NEW p \in Evaluators(a)
               PROVE  Cardinality(Between(a, s, s + window)) +
                        Cardinality(InFlight(a, s, s + window, passed))
                        <= limit + Cardinality(Evaluators(a)) - 1
    BY DEF Kept
  <2>1. Between(a, s, s + window) = {}
    BY DEF Init, Between, FiringRuns
  <2>2. InFlight(a, s, s + window, passed) = {}
    BY <1>1 DEF InFlight, Flying, Evaluators, Idle, Passed, AfterRate, AfterBreaker
  <2>3. Cardinality({}) = 0
    BY FS_EmptySet
  <2> DEFINE N == Cardinality(Evaluators(a))
  <2>4. N \in Nat /\ N # 0
    BY EvaluatorsFinite, FS_EmptySet
  <2> HIDE DEF N
  <2>5. 0 + 0 <= limit + N - 1
    BY <2>4
  <2> QED BY <2>1, <2>2, <2>3, <2>5 DEF N
<1>4. RateKept /\ BreakerKept
  BY <1>3, LimitNats DEF RateKept, BreakerKept, Passed
<1> QED BY <1>2, <1>4, InitLogInv DEF LimitInv

LEMMA StepLimitInv == LimitInv /\ [Next]_vars => LimitInv'
<1> SUFFICES ASSUME LimitInv, [Next]_vars PROVE LimitInv'
  OBVIOUS
<1>1. LogInv'
  BY StepLogInv DEF LimitInv
<1>2. ASSUME NEW p \in Procs, NEW a \in Autos, ConditionsFail(p, a) PROVE LimitInv'
  BY <1>1, <1>2, LimitAddRun DEF ConditionsFail
<1>3. ASSUME NEW p \in Procs, Dispatch(p) PROVE LimitInv'
  BY <1>1, <1>3, LimitAddRun DEF Dispatch
<1>4. ASSUME NEW p \in Procs, Step(p) PROVE LimitInv'
  <2>1. CASE Load(p)
    BY <1>1, <2>1, LimitLoad
  <2>2. CASE \E a \in Autos : \/ p \in Loops /\ NotDue(p, a)
                           \/ ConditionsPass(p, a)
                           \/ ConditionsFail(p, a)
                           \/ ConditionsRaise(p, a)
    BY <1>1, <1>2, <2>2, LimitNotDue, LimitConditionsPass, LimitGiveUp
  <2>3. CASE CheckBreaker(p) \/ CheckCooldown(p) \/ CheckRate(p)
    BY <1>1, <2>3, LimitChecks
  <2>4. CASE Dispatch(p)
    BY <1>3, <2>4
  <2>5. CASE CommitRuns(p)
    BY <1>1, <2>5, LimitCommit
  <2> QED BY <1>4, <2>1, <2>2, <2>3, <2>4, <2>5 DEF Step
<1>5. ASSUME NEW a \in Autos, NEW on \in BOOLEAN, SetEnabled(a, on) PROVE LimitInv'
  BY <1>1, <1>5, LimitEnvironment DEF SetEnabled
<1>6. ASSUME NEW d \in Deleters,
             \/ \E a \in Autos : AskDelete(d, a)
             \/ DeleteRows(d) \/ CommitDelete(d) \/ FailDelete(d)
      PROVE  LimitInv'
  BY <1>1, <1>6, LimitEnvironment DEF AskDelete, DeleteRows, CommitDelete, FailDelete
<1>7. CASE Crash
  <2>1. \A p \in Procs : proc[p].n \in Nat /\ proc'[p] = Idle(proc[p].n)
    BY <1>7, ProcType DEF Crash, LimitInv, LogInv, IInv
  <2>2. runs' = runs
    BY <1>7 DEF Crash
  <2> QED BY <1>1, <2>1, <2>2, LimitEnvironment
<1>8. CASE Tick
  BY <1>1, <1>8, LimitEnvironment DEF Tick
<1>9. CASE UNCHANGED vars
  BY <1>1, <1>9, LimitEnvironment DEF vars, histories
<1> QED
  BY <1>1, <1>4, <1>5, <1>6, <1>7, <1>8, <1>9, LimitHandleEvent, LimitStartPass,
     LimitFail
  DEF Next

LEMMA LimitInvariance == Spec => []LimitInv
BY InitLimitInv, StepLimitInv, PTL DEF Spec

-----------------------------------------------------------------------------
(* Main results. *)

LEMMA WindowBound ==
  ASSUME LogInv, Finite, NEW a, NEW limit \in Nat, NEW window \in Nat, NEW passed,
         Kept(a, limit, window, passed), NEW r \in FiringRuns(a)
  PROVE  Cardinality(Between(a, r.at, r.at + window))
           <= limit + Cardinality(Evaluators(a)) - 1
<1>1. TypeOK /\ r \in runs /\ r.auto = a
  BY DEF LogInv, IInv, FiringRuns
<1>2. r.at \in Nat /\ r.by \in Evaluators(a)
  BY <1>1 DEF LogInv, KindsOK, Evaluators, TypeOK, Run, Time
<1> DEFINE B == Between(a, r.at, r.at + window)
           F == InFlight(a, r.at, r.at + window, passed)
<1>3. Cardinality(B) + Cardinality(F) <= limit + Cardinality(Evaluators(a)) - 1
  BY <1>2 DEF Kept
<1>4. /\ Cardinality(B) \in Nat /\ Cardinality(F) \in Nat
      /\ Cardinality(Evaluators(a)) \in Nat
  BY <1>1, Counts
<1> HIDE DEF B, F
<1>5. Cardinality(B) <= limit + Cardinality(Evaluators(a)) - 1
  BY <1>3, <1>4
<1> QED BY <1>5 DEF B

\* workflow.py _check_rate_limits, max_runs_per_window: concurrent evaluations
\* exceed the limit by at most one firing for each other process that evaluates
\* the automation.
THEOREM RateBounded == Spec => []RateOvershoot
<1>1. LimitInv => RateOvershoot
  BY WindowBound, LimitNats DEF LimitInv, RateKept, RateOvershoot
<1> QED BY <1>1, LimitInvariance, PTL

\* workflow.py _check_circuit_breaker: likewise for the breaker's threshold.
THEOREM BreakerBounded == Spec => []BreakerOvershoot
<1>1. LimitInv => BreakerOvershoot
  BY WindowBound, LimitNats DEF LimitInv, BreakerKept, BreakerOvershoot
<1> QED BY <1>1, LimitInvariance, PTL

\* Firings within one cooldown were recorded by different processes.
LEMMA CountByProcess == LogInv => CooldownOvershoot
<1> SUFFICES ASSUME LogInv,
                    NEW a \in Autos, Config[a].cooldown # None,
                    NEW r \in FiringRuns(a)
             PROVE  Cardinality({q \in FiringRuns(a) :
                      r.at <= q.at /\ q.at - r.at < Config[a].cooldown})
                      <= Cardinality(Evaluators(a))
  BY DEF CooldownOvershoot
<1> DEFINE S == {q \in FiringRuns(a) :
                   r.at <= q.at /\ q.at - r.at < Config[a].cooldown}
           owner == [q \in S |-> q.by]
<1>1. \A q \in FiringRuns(a) : q.by \in Evaluators(a) /\ q.at \in Int
  BY DEF LogInv, IInv, KindsOK, Evaluators, FiringRuns, TypeOK, Run, Time
<1>2. Config[a].cooldown \in Nat
  BY ConfigAssumption DEF Definition
<1>3. ASSUME NEW x \in S, NEW y \in S, x.by = y.by
      PROVE  x = y
  <2>1. x \in FiringRuns(a) /\ y \in FiringRuns(a)
    OBVIOUS
  <2>2. /\ x.at - y.at < Config[a].cooldown
        /\ y.at - x.at < Config[a].cooldown
    BY <1>1, <1>2, <2>1
  <2> QED BY <1>1, <1>2, <1>3, <2>1, <2>2 DEF LogInv, IInv, StreamCooldown
<1>4. owner \in Injection(S, Evaluators(a))
  <2>1. owner \in [S -> Evaluators(a)]
    BY <1>1
  <2>2. \A x, y \in S : owner[x] = owner[y] => x = y
    BY <1>3
  <2> QED BY <2>1, <2>2 DEF Injection, IsInjective
<1>5. IsFiniteSet(Evaluators(a))
  BY EvaluatorsFinite
<1> HIDE DEF S, owner
<1>6. Cardinality(S) <= Cardinality(Evaluators(a))
  BY <1>4, <1>5, FS_Injection
<1> QED BY <1>6 DEF S

\* workflow.py _check_rate_limits: within one cooldown, each process that
\* evaluates the automation records at most one firing of it.
THEOREM OvershootBounded == Spec => []CooldownOvershoot
<1> QED BY CountByProcess, LogInvariance, PTL

-----------------------------------------------------------------------------
(* One evaluator. *)

\* At most one process evaluates any automation: events are handled one at a
\* time, or the automation is periodic and there is one consumer.
LoneEvaluators == \A a \in Autos : \A p, q \in Evaluators(a) : p = q

\* docs/usage/automations.md, cooldown_seconds: the documented cooldown holds
\* where evaluations of an automation do not overlap.
THEOREM LoneCooldown ==
  ASSUME LoneEvaluators
  PROVE  Spec => []CooldownRespected
<1>1. LogInv => CooldownRespected
  <2> SUFFICES ASSUME LogInv, NEW a \in Autos, Config[a].cooldown # None,
                      NEW r \in FiringRuns(a), NEW q \in FiringRuns(a), r # q
               PROVE  \/ r.at - q.at >= Config[a].cooldown
                      \/ q.at - r.at >= Config[a].cooldown
    BY DEF CooldownRespected
  <2>1. r.by \in Evaluators(a) /\ q.by \in Evaluators(a)
    BY DEF LogInv, IInv, KindsOK, Evaluators, FiringRuns, TypeOK, Run
  <2>2. r.by = q.by
    BY <2>1 DEF LoneEvaluators
  <2> QED BY <2>2 DEF LogInv, IInv, StreamCooldown
<1> QED BY <1>1, LogInvariance, PTL

\* max_runs_per_window and circuit_breaker_threshold, taken at their word: no
\* window holds more firings than that.
LimitsRespected ==
  \A a \in Autos : \A r \in FiringRuns(a) :
    /\ Config[a].maxRuns # None /\ Config[a].window # None =>
         Cardinality(Between(a, r.at, r.at + Config[a].window)) <= Config[a].maxRuns
    /\ Config[a].threshold # 0 /\ Config[a].breakerWindow # 0 =>
         Cardinality(Between(a, r.at, r.at + Config[a].breakerWindow))
           <= Config[a].threshold

LEMMA LoneCount ==
  ASSUME LoneEvaluators, NEW a \in Autos
  PROVE  Cardinality(Evaluators(a)) \in 0 .. 1
<1>1. CASE Evaluators(a) = {}
  BY <1>1, FS_EmptySet
<1>2. CASE Evaluators(a) # {}
  <2>1. PICK p \in Evaluators(a) : TRUE
    BY <1>2
  <2>2. Evaluators(a) = {p}
    BY <2>1 DEF LoneEvaluators
  <2> QED BY <2>2, FS_Singleton
<1> QED BY <1>1, <1>2

\* workflow.py _check_rate_limits, _check_circuit_breaker: where evaluations of
\* an automation do not overlap, the limits are exact.
THEOREM LoneLimits ==
  ASSUME LoneEvaluators
  PROVE  Spec => []LimitsRespected
<1>1. RateOvershoot /\ BreakerOvershoot /\ TypeOK /\ Finite => LimitsRespected
  <2> SUFFICES ASSUME RateOvershoot, BreakerOvershoot, TypeOK, Finite,
                      NEW a \in Autos, NEW r \in FiringRuns(a),
                      NEW limit \in Nat, NEW window \in Nat,
                      Cardinality(Between(a, r.at, r.at + window))
                        <= limit + Cardinality(Evaluators(a)) - 1
               PROVE  Cardinality(Between(a, r.at, r.at + window)) <= limit
    BY LimitNats DEF RateOvershoot, BreakerOvershoot, LimitsRespected
  <2> DEFINE B == Cardinality(Between(a, r.at, r.at + window))
             N == Cardinality(Evaluators(a))
  <2>1. B \in Nat /\ N \in 0 .. 1
    BY Counts, LoneCount
  <2>2. B <= limit + N - 1
    OBVIOUS
  <2> HIDE DEF B, N
  <2>3. B <= limit
    BY <2>1, <2>2
  <2> QED BY <2>3 DEF B
<1>2. LimitInv => TypeOK /\ Finite
  BY DEF LimitInv, LogInv, IInv
<1> QED BY <1>1, <1>2, LimitInvariance, RateBounded, BreakerBounded, PTL

-----------------------------------------------------------------------------
(* What reached the outside world.  The limits are about runs in the log;  *)
(* what they are for are the dispatches, which come before their runs.     *)

Dispatches(a, first, last) ==
  {f \in fired : f[1] = a /\ first <= f[4] /\ f[4] <= last}

DispatchesSpaced ==
  \A f, g \in fired :
    /\ f[1] \in exists /\ Config[f[1]].cooldown # None
    /\ f[1] = g[1] /\ f[2] = g[2] /\ f # g
    => \/ f[4] - g[4] >= Config[f[1]].cooldown
       \/ g[4] - f[4] >= Config[f[1]].cooldown

\* At most limit dispatches of a in any window, and one more for each other
\* process that evaluates a.
DispatchesKept(a, limit, window) ==
  \A s \in Nat : \A p \in Evaluators(a) :
    Cardinality(Dispatches(a, s, s + window)) <= limit + Cardinality(Evaluators(a)) - 1

DispatchesBounded ==
  \A a \in exists :
    /\ Config[a].maxRuns # None /\ Config[a].window # None =>
         DispatchesKept(a, Config[a].maxRuns, Config[a].window)
    /\ Config[a].threshold # 0 /\ Config[a].breakerWindow # 0 =>
         DispatchesKept(a, Config[a].threshold, Config[a].breakerWindow)

LEMMA RecordParts ==
  ASSUME NEW f, NEW r, RecordOf(f, r)
  PROVE  /\ f = <<r.auto, r.by, r.n, r.at>> /\ r.reason = "fired"
         /\ f[1] = r.auto /\ f[2] = r.by /\ f[4] = r.at
BY DEF RecordOf

\* A dispatch is in the log, or in the transaction of the process that made it.
LEMMA WhereRecorded ==
  ASSUME IInv, DispatchesRecorded, faults = 0, NEW f \in fired, f[1] \in exists
  PROVE  \/ \E r \in FiringRuns(f[1]) : RecordOf(f, r)
         \/ \E r \in proc[f[2]].pending : RecordOf(f, r) /\ f[2] \in Procs
<1>1. PICK r \in Held : RecordOf(f, r)
  BY DEF DispatchesRecorded, Held, RecordOf
<1>2. CASE r \in runs
  BY <1>1, <1>2, RecordParts DEF FiringRuns
<1>3. CASE r \notin runs
  <2>1. PICK p \in Procs : r \in proc[p].pending
    BY <1>3 DEF Held
  <2>2. p = f[2]
    BY <1>1, <2>1, RecordParts DEF IInv, StreamOK
  <2> QED BY <1>1, <2>1, <2>2
<1> QED BY <1>2, <1>3

\* workflow.py _check_rate_limits: two dispatches of an automation by one
\* process are a cooldown apart, as long as no record of one is lost: no
\* conditions can raise, and no consumer has crashed and no query or commit of
\* an evaluation has failed.
THEOREM DispatchCooldown ==
  ASSUME NoneRaises
  PROVE  Spec => [](faults = 0 => DispatchesSpaced)
<1>1. IInv /\ DispatchesRecorded /\ faults = 0 => DispatchesSpaced
  <2> SUFFICES ASSUME IInv, DispatchesRecorded, faults = 0,
                      NEW f \in fired, NEW g \in fired,
                      f[1] \in exists, Config[f[1]].cooldown # None,
                      f[1] = g[1], f[2] = g[2], f # g
               PROVE  \/ f[4] - g[4] >= Config[f[1]].cooldown
                      \/ g[4] - f[4] >= Config[f[1]].cooldown
    BY DEF DispatchesSpaced
  <2> DEFINE a == f[1]
             p == f[2]
  <2>1. a \in Autos
    BY DEF IInv, TypeOK
  <2>2. ASSUME NEW x \in fired, NEW y \in fired, x[1] = a, y[1] = a, x[2] = p, y[2] = p,
               NEW q \in proc[p].pending, RecordOf(x, q), p \in Procs,
               NEW r \in FiringRuns(a), RecordOf(y, r)
        PROVE  x[4] - y[4] >= Config[a].cooldown
    <3>1. q.at = x[4] /\ r.at = y[4] /\ r.by = p /\ q.auto = a /\ q.reason = "fired"
      BY <2>2, RecordParts
    <3>2. Apart(a, p, q.at)
      BY <2>2, <3>1 DEF IInv, StreamOK
    <3> QED BY <3>1, <3>2 DEF Apart
  <2>3. CASE \E r, q \in FiringRuns(a) : RecordOf(f, r) /\ RecordOf(g, q)
    <3>1. PICK r, q \in FiringRuns(a) : RecordOf(f, r) /\ RecordOf(g, q)
      BY <2>3
    <3>2. r # q /\ r.by = q.by /\ r.at = f[4] /\ q.at = g[4]
      BY <3>1, RecordParts
    <3> QED BY <2>1, <3>2 DEF IInv, StreamCooldown
  <2>4. CASE p \in Procs /\ \E r, q \in proc[p].pending : RecordOf(f, r) /\ RecordOf(g, q)
    <3>1. PICK r, q \in proc[p].pending : RecordOf(f, r) /\ RecordOf(g, q)
      BY <2>4
    <3>2. r.auto = q.auto
      BY <3>1, RecordParts
    <3>3. r = q
      BY <2>4, <3>1, <3>2 DEF IInv, StreamOK
    <3> QED BY <3>1, <3>3, RecordParts
  <2>5. /\ \/ \E r \in FiringRuns(a) : RecordOf(f, r)
           \/ p \in Procs /\ \E r \in proc[p].pending : RecordOf(f, r)
        /\ \/ \E r \in FiringRuns(a) : RecordOf(g, r)
           \/ p \in Procs /\ \E r \in proc[p].pending : RecordOf(g, r)
    BY WhereRecorded
  <2> QED BY <2>2, <2>3, <2>4, <2>5
<1>2. LogInv => IInv
  BY DEF LogInv
<1>3. (NoneRaises => DispatchesRecorded) => DispatchesRecorded
  OBVIOUS
<1> QED BY <1>1, <1>2, <1>3, LogInvariance, RecordedUnlessRaised, PTL

\* Each dispatch in a window is a firing in the log or an evaluation in flight.
LEMMA DispatchBound ==
  ASSUME LogInv, Finite, DispatchesRecorded, faults = 0, NEW a \in exists,
         NEW limit \in Nat, NEW window \in Nat, NEW passed, Kept(a, limit, window, passed)
  PROVE  DispatchesKept(a, limit, window)
<1> SUFFICES ASSUME NEW s \in Nat, NEW e \in Evaluators(a)
             PROVE  Cardinality(Dispatches(a, s, s + window))
                      <= limit + Cardinality(Evaluators(a)) - 1
  BY DEF DispatchesKept
<1> DEFINE D == Dispatches(a, s, s + window)
           B == Between(a, s, s + window)
           F == InFlight(a, s, s + window, passed)
           Logged == {f \in D : \E r \in B : RecordOf(f, r)}
           Pending == D \ Logged
           record == [f \in Logged |-> CHOOSE r \in B : RecordOf(f, r)]
           maker == [f \in Pending |-> f[2]]
<1>1. IInv /\ TypeOK
  BY DEF LogInv, IInv
<1>2. record \in Injection(Logged, B)
  <2>1. \A f \in Logged : record[f] \in B /\ RecordOf(f, record[f])
    OBVIOUS
  <2>2. \A f, g \in Logged : record[f] = record[g] => f = g
    BY <2>1, RecordParts
  <2> HIDE DEF D, B, F
  <2>3. record \in [Logged -> B]
    BY <2>1
  <2> QED BY <2>2, <2>3 DEF Injection, IsInjective
<1>3. \A f \in Pending : /\ f[2] \in F
                         /\ \E r \in proc[f[2]].pending : RecordOf(f, r)
  <2> SUFFICES ASSUME NEW f \in Pending
               PROVE  f[2] \in F /\ \E r \in proc[f[2]].pending : RecordOf(f, r)
    OBVIOUS
  <2>1. f \in fired /\ f[1] = a /\ s <= f[4] /\ f[4] <= s + window
    BY DEF Dispatches
  <2>2. ~ \E r \in FiringRuns(a) : RecordOf(f, r)
    <3> SUFFICES ASSUME NEW r \in FiringRuns(a), RecordOf(f, r) PROVE FALSE
      OBVIOUS
    <3>1. r \in B
      BY <2>1, RecordParts DEF Between
    <3> QED BY <3>1
  <2>3. PICK r \in proc[f[2]].pending : RecordOf(f, r) /\ f[2] \in Procs
    BY <1>1, <2>1, <2>2, WhereRecorded
  <2>4. r.auto = a /\ r.reason = "fired" /\ r.at = f[4] /\ r.at = proc[f[2]].at
    BY <1>1, <2>1, <2>3, RecordParts DEF IInv, StreamOK
  <2>5. f[2] \in Evaluators(a)
    BY <2>3, <2>4 DEF LogInv, LogOK, Begun, Recorded, Evaluators
  <2>6. f[2] \in F
    BY <2>1, <2>3, <2>4, <2>5 DEF InFlight, Flying
  <2> QED BY <2>3, <2>6
<1>4. maker \in Injection(Pending, F)
  <2>1. maker \in [Pending -> F]
    BY <1>3
  <2>2. ASSUME NEW f \in Pending, NEW g \in Pending, f[2] = g[2]
        PROVE  f = g
    <3>1. f[2] \in Procs /\ f[1] = a /\ g[1] = a
      BY <1>3 DEF InFlight, Evaluators, Dispatches
    <3>2. PICK r \in proc[f[2]].pending : RecordOf(f, r)
      BY <1>3
    <3>3. PICK q \in proc[f[2]].pending : RecordOf(g, q)
      BY <1>3, <2>2
    <3>4. r.auto = q.auto
      BY <3>1, <3>2, <3>3, RecordParts
    <3>5. r = q
      BY <1>1, <3>1, <3>2, <3>3, <3>4 DEF IInv, StreamOK
    <3> QED BY <3>2, <3>3, <3>5, RecordParts
  <2>3. \A f, g \in Pending : maker[f] = maker[g] => f = g
    BY <2>2
  <2> HIDE DEF Pending, F
  <2> QED BY <2>1, <2>3 DEF Injection, IsInjective
<1>5. /\ IsFiniteSet(B) /\ IsFiniteSet(F) /\ Cardinality(B) \in Nat
      /\ Cardinality(F) \in Nat /\ Cardinality(Evaluators(a)) \in Nat
  BY <1>1, Counts
<1>6. Cardinality(B) + Cardinality(F) <= limit + Cardinality(Evaluators(a)) - 1
  BY DEF Kept
<1>7. D = Logged \cup Pending /\ Logged \cap Pending = {}
  OBVIOUS
<1> HIDE DEF B, F, D, Logged, Pending, record, maker
<1>8. IsFiniteSet(Logged) /\ Cardinality(Logged) <= Cardinality(B)
      /\ Cardinality(Logged) \in Nat
  BY <1>2, <1>5, FS_Injection, FS_CardinalityType
<1>9. IsFiniteSet(Pending) /\ Cardinality(Pending) <= Cardinality(F)
      /\ Cardinality(Pending) \in Nat
  BY <1>4, <1>5, FS_Injection, FS_CardinalityType
<1>10. Cardinality(D) = Cardinality(Logged) + Cardinality(Pending)
  <2>1. Cardinality(D) = Cardinality(Logged) + Cardinality(Pending) - Cardinality({})
    BY <1>7, <1>8, <1>9, FS_Union
  <2> QED BY <2>1, <1>8, <1>9, FS_EmptySet
<1>11. Cardinality(D) <= limit + Cardinality(Evaluators(a)) - 1
  BY <1>5, <1>6, <1>8, <1>9, <1>10
<1> QED BY <1>11 DEF D

\* workflow.py _check_rate_limits, _check_circuit_breaker: the limits hold, up to
\* the race, of what was dispatched and not only of what the log shows, as long as
\* no record of a dispatch is lost (as in DispatchCooldown).
THEOREM DispatchLimits ==
  ASSUME NoneRaises
  PROVE  Spec => [](faults = 0 => DispatchesBounded)
<1>1. LimitInv /\ DispatchesRecorded /\ faults = 0 => DispatchesBounded
  <2> SUFFICES ASSUME LimitInv, DispatchesRecorded, faults = 0, NEW a \in exists
               PROVE  /\ Config[a].maxRuns # None /\ Config[a].window # None =>
                           DispatchesKept(a, Config[a].maxRuns, Config[a].window)
                      /\ Config[a].threshold # 0 /\ Config[a].breakerWindow # 0 =>
                           DispatchesKept(a, Config[a].threshold, Config[a].breakerWindow)
    BY DEF DispatchesBounded
  <2>1. a \in Autos
    BY DEF LimitInv, LogInv, IInv, TypeOK
  <2> QED BY <2>1, DispatchBound, LimitNats DEF LimitInv, RateKept, BreakerKept
<1>2. (NoneRaises => DispatchesRecorded) => DispatchesRecorded
  OBVIOUS
<1> QED BY <1>1, <1>2, LimitInvariance, RecordedUnlessRaised, PTL

-----------------------------------------------------------------------------
(* Retention of the run log, which the engine's model leaves out.          *)

\* The engine asks nothing of the log before time first about automation a when
\* it decides at time t.
NothingBefore(a, first, t) ==
  /\ Config[a].cooldown # None => first <= t - Config[a].cooldown
  /\ Config[a].window # None => first <= t - Config[a].window
  /\ first <= t - Config[a].breakerWindow
  /\ first <= t - Config[a].schedule

\* maintenance.py prune_events: a pass that leaves the runs since cutoff changes
\* no decision whose knobs reach back no further than that.  An evaluation
\* decides by the time it began, so the retention has to cover the longest knob
\* and the longest evaluation.
THEOREM RetentionKeepsDecisions ==
  ASSUME TypeOK, NEW cutoff \in Int, NEW a \in Autos, NEW t \in Nat,
         runs' \subseteq runs, \A r \in runs : r.at >= cutoff => r \in runs',
         NothingBefore(a, cutoff, t)
  PROVE  /\ CircuitOpen(a, t)' = CircuitOpen(a, t)
         /\ CoolingDown(a, t)' = CoolingDown(a, t)
         /\ RateLimited(a, t)' = RateLimited(a, t)
         /\ Due(a, t)' = Due(a, t)
<1>1. \A r \in runs : r.at \in Nat
  BY DEF TypeOK, Run, Time
<1>2. /\ Config[a].cooldown # None => Config[a].cooldown \in Nat
      /\ Config[a].window # None => Config[a].window \in Nat
      /\ Config[a].breakerWindow \in Nat /\ Config[a].schedule \in Nat
  BY ConfigAssumption DEF Definition
<1>3. ASSUME NEW since \in Int, cutoff <= since
      PROVE  CountSince(a, since)' = CountSince(a, since)
  <2>1. {r \in CountedRuns(a)' : r.at >= since} = {r \in CountedRuns(a) : r.at >= since}
    BY <1>1, <1>3 DEF CountedRuns
  <2> QED BY <2>1 DEF CountSince
<1>4. CircuitOpen(a, t)' = CircuitOpen(a, t)
  <2>1. t - Config[a].breakerWindow \in Int /\ cutoff <= t - Config[a].breakerWindow
    BY <1>2 DEF NothingBefore
  <2> QED BY <1>3, <2>1 DEF CircuitOpen
<1>5. RateLimited(a, t)' = RateLimited(a, t)
  <2>1. CASE Config[a].window = None
    BY <2>1 DEF RateLimited
  <2>2. CASE Config[a].window # None
    <3>1. t - Config[a].window \in Int /\ cutoff <= t - Config[a].window
      BY <1>2, <2>2 DEF NothingBefore
    <3> QED BY <1>3, <3>1 DEF RateLimited
  <2> QED BY <2>1, <2>2
<1>6. CoolingDown(a, t)' = CoolingDown(a, t)
  <2>1. CASE Config[a].cooldown = None
    BY <2>1 DEF CoolingDown
  <2>2. CASE Config[a].cooldown # None
    <3>1. ASSUME NEW r \in CountedRuns(a), t - r.at < Config[a].cooldown
          PROVE  r \in CountedRuns(a)'
      BY <1>1, <1>2, <2>2, <3>1 DEF CountedRuns, NothingBefore
    <3>2. CountedRuns(a)' \subseteq CountedRuns(a)
      BY DEF CountedRuns
    <3> QED BY <3>1, <3>2 DEF CoolingDown
  <2> QED BY <2>1, <2>2
<1>7. Due(a, t)' = Due(a, t)
  <2>1. ASSUME NEW r \in runs, ~ t - r.at >= Config[a].schedule
        PROVE  r \in runs'
    BY <1>1, <1>2, <2>1 DEF NothingBefore
  <2> QED BY <2>1 DEF Due
<1> QED BY <1>4, <1>5, <1>6, <1>7
=============================================================================
