---------------------------- MODULE MCAutomations ----------------------------
(***************************************************************************)
(* Two operators and two consumers, and one row of an operator.             *)
(***************************************************************************)
EXTENDS Automations, TLC

MCRow ==
  [EventAlert("mine", "task-failed") EXCEPT !.window_seconds = 60]

MCExisting == 1 :> MCRow

\* A row of an operator under a built-in name, and one that is not valid.
MCCreates ==
  {[EventAlert("alert-worker-offline", "task-failed") EXCEPT !.cooldown_seconds = 5],
   [EventAlert("other", "task-failed") EXCEPT !.cooldown_seconds = -1]}

\* The first two do not go together; the second repairs a sweep that was seeded
\* without a schedule.
MCUpdates ==
  {[NoBody EXCEPT !.max_runs_per_window = 1],
   [NoBody EXCEPT !.window_seconds = 0, !.schedule_seconds = 1],
   [NoBody EXCEPT !.name = "alert-worker-offline-sweep", !.cooldown_seconds = 0]}
=============================================================================
