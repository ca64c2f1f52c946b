-------------------------- MODULE MCWorkflowEngine --------------------------
(* Small instances of WorkflowEngine for TLC. *)
EXTENDS WorkflowEngine, TLC

CONSTANTS a1, a2, a3, h1, h2, l1, d1, d2

Plain ==
  [trigger |-> "event", conditions |-> "none", cooldown |-> None,
   maxRuns |-> None, window |-> None, threshold |-> 0, breakerWindow |-> 0,
   schedule |-> 0]

Periodic == [Plain EXCEPT !.trigger = "periodic", !.schedule = 2]

OneAuto == {a1}
TwoAutos == {a1, a2}
ThreeAutos == {a1, a2, a3}

\* The table holds all the automations, any one, or the first and one other.
All == {Autos}
EachAlone == {{a} : a \in Autos}
FirstAndOther == {{a1, a} : a \in Autos \ {a1}}

OneHandler == {h1}
TwoHandlers == {h1, h2}
NoHandler == {}
OneLoop == {l1}
NoLoop == {}
OneDeleter == {d1}
TwoDeleters == {d1, d2}

\* A cooldown of two ticks.
CooldownConfig == a1 :> [Plain EXCEPT !.conditions = "field", !.cooldown = 2]

\* One safety knob each: a cooldown of two ticks, two firings in two ticks, and
\* a breaker that opens at the first firing in two ticks.
KnobsConfig ==
  CooldownConfig @@
  (a2 :> [Plain EXCEPT !.maxRuns = 2, !.window = 2]) @@
  (a3 :> [Plain EXCEPT !.threshold = 1, !.breakerWindow = 2])

\* An automation with a condition and a cooldown, one with neither.
PairConfig ==
  (a1 :> [Plain EXCEPT !.conditions = "field", !.cooldown = 1]) @@ (a2 :> Plain)

\* Periodic automations: one that fires, one whose conditions fail on every
\* pass, one whose conditions cannot be evaluated.
PeriodicConfig ==
  (a1 :> Periodic) @@
  (a2 :> [Periodic EXCEPT !.conditions = "field"]) @@
  (a3 :> [Periodic EXCEPT !.conditions = "broken"])

\* An automation beside one whose conditions cannot be evaluated.
BrokenConfig ==
  (a1 :> [Plain EXCEPT !.cooldown = 1]) @@ (a2 :> [Plain EXCEPT !.conditions = "broken"])

RequestSymmetry == Permutations(Handlers) \cup Permutations(Deleters)
=============================================================================
