------------------------------ MODULE Consumer ------------------------------
(***************************************************************************)
(* The consumer process of consumer/receiver.py, from start to exit: the    *)
(* capture thread that connects to the broker and reconnects, the event     *)
(* loop of the main thread with start(), the coroutines of events handed    *)
(* over by the capture thread and the two periodic loops, and the signal    *)
(* handler, which runs on the main thread while the capture thread goes on. *)
(*                                                                         *)
(* running is cleared where shutdown_event is set, and both are only read   *)
(* to see whether the process is to stop: one variable, stopping, for both. *)
(*                                                                         *)
(* Celery and kombu are external.  What the code relies on: constructing a  *)
(* receiver and opening its capture wait for the broker, however long, and  *)
(* look at no flag; an open capture looks at should_stop at least once a    *)
(* second and ends with an exception when the broker goes away; events are  *)
(* acknowledged at delivery and their queue lives as long as the capture.   *)
(***************************************************************************)
EXTENDS Integers

CONSTANTS
  Events,       \* events that workers emit
  RetentionOn,  \* some retention setting is positive
  MaxSignals,   \* bound: SIGTERM and SIGINT
  MaxFailures,  \* bound: times the broker goes down, or refuses
  MaxErrors     \* bound: exceptions in seeding, handlers and periodic passes

ASSUME ConsumerAssumption ==
  /\ RetentionOn \in BOOLEAN
  /\ MaxSignals \in Nat /\ MaxFailures \in Nat /\ MaxErrors \in Nat

VARIABLES
  main,        \* where start() is
  handler,     \* where the signal handler is
  thread,      \* where _capture_events is
  stopping,    \* not running, and shutdown_event is set
  recv,        \* self.recv is a receiver
  should_stop, \* that receiver's flag
  broker,      \* the broker is up
  checks,      \* the loop of periodic automations
  prune,       \* the retention loop
  fate,        \* per event: what became of it
  captured,    \* history: capture has run
  heard,       \* history: a signal found a receiver to stop, or the thread
               \* where it still was to look at stopping
  signals, failures, errors

stop == <<stopping, recv, should_stop>>
loops == <<checks, prune>>
bounds == <<signals, failures, errors>>
vars == <<main, handler, thread, stop, broker, loops, fate, captured, heard, bounds>>

\* The capture thread has a connection that it uses or is about to use.
Connected == {"receiver", "open", "capture"}

\* The event loop runs one thing at a time, the signal handler to its end.
LoopFree == handler = "none" /\ main # "exited"

Init ==
  /\ main = "seed" /\ handler = "none" /\ thread = "off"
  /\ stopping = FALSE /\ recv = FALSE /\ should_stop = FALSE
  /\ broker \in BOOLEAN
  /\ checks = "off" /\ prune = "off"
  /\ fate = [e \in Events |-> "new"] /\ captured = FALSE /\ heard = FALSE
  /\ signals = 0 /\ failures = 0 /\ errors = 0

-----------------------------------------------------------------------------
(* The capture thread: _capture_events. *)

Goes(from, to) == thread = from /\ thread' = to

ThreadRest == <<main, handler, stopping, broker, loops, fate, heard, bounds>>

TestLoop ==
  /\ thread = "test"
  /\ thread' = IF stopping THEN "end" ELSE "connect"
  /\ UNCHANGED <<ThreadRest, recv, should_stop, captured>>

\* A Connection is made, which does not yet connect.
Connect ==
  /\ Goes("connect", "receiver")
  /\ UNCHANGED <<ThreadRest, recv, should_stop, captured>>

\* Receiver() opens a channel, and is then assigned to self.recv.
MakeReceiver ==
  /\ broker
  /\ Goes("receiver", "open")
  /\ recv' = TRUE /\ should_stop' = FALSE
  /\ UNCHANGED <<ThreadRest, captured>>

\* capture() works on a connection of its own.
OpenCapture ==
  /\ broker
  /\ Goes("open", "capture")
  /\ captured' = TRUE
  /\ UNCHANGED <<ThreadRest, recv, should_stop>>

\* Mutant: capture is called with a timeout.
EndCaptureIdle ==
  /\ Goes("capture", "finally")
  /\ UNCHANGED <<ThreadRest, recv, should_stop, captured>>

EndCapture ==
  /\ should_stop
  /\ Goes("capture", "finally")
  /\ UNCHANGED <<ThreadRest, recv, should_stop, captured>>

\* The connection breaks while events are captured.
LoseConnection ==
  /\ ~broker
  /\ Goes("capture", "error")
  /\ UNCHANGED <<ThreadRest, recv, should_stop, captured>>

\* The broker refuses, or sends what cannot be handled.
ConnectionFails ==
  /\ broker /\ failures < MaxFailures
  /\ failures' = failures + 1
  /\ thread \in Connected /\ thread' = "error"
  /\ UNCHANGED <<main, handler, stop, broker, loops, fate, captured, heard,
                 signals, errors>>

\* Mutant: every exception ends the thread.
OnErrorGivesUp ==
  /\ thread = "error"
  /\ thread' = "leave"
  /\ UNCHANGED <<ThreadRest, recv, should_stop, captured>>

\* except Exception: the break that leaves the loop runs finally first.
OnError ==
  /\ thread = "error"
  /\ thread' = IF stopping THEN "leave" ELSE "wait"
  /\ UNCHANGED <<ThreadRest, recv, should_stop, captured>>

\* Five seconds, or until the shutdown event is seen.
WaitToReconnect ==
  /\ Goes("wait", "finally")
  /\ UNCHANGED <<ThreadRest, recv, should_stop, captured>>

\* Mutant: the receiver is kept until the next one replaces it.
FinallyKeepsReceiver ==
  /\ thread \in {"finally", "leave"}
  /\ thread' = IF thread = "leave" THEN "end" ELSE "test"
  /\ UNCHANGED <<ThreadRest, recv, should_stop, captured>>

Finally ==
  /\ thread \in {"finally", "leave"}
  /\ thread' = IF thread = "leave" THEN "end" ELSE "test"
  /\ recv' = FALSE
  /\ UNCHANGED <<ThreadRest, should_stop, captured>>

Thread ==
  \/ TestLoop \/ Connect \/ MakeReceiver \/ OpenCapture
  \/ EndCapture \/ LoseConnection \/ ConnectionFails
  \/ OnError \/ WaitToReconnect \/ Finally

-----------------------------------------------------------------------------
(* Events. *)

\* A worker emits e.  The capture thread's wrapper gives it to the event loop
\* unless the process is stopping; without a capture nobody has a queue for it.
Emit(e) ==
  /\ fate[e] = "new"
  /\ fate' = [fate EXCEPT ![e] =
       CASE thread = "capture" /\ broker /\ ~stopping -> "scheduled"
         [] thread = "capture" /\ broker /\ stopping  -> "dropped"
         [] OTHER -> IF captured THEN "missed" ELSE "early"]
  /\ UNCHANGED <<main, handler, thread, stop, broker, loops, captured, heard, bounds>>

\* _handle_event.  What it stores and evaluates is in EventLog and
\* WorkflowEngine; an exception is logged and goes no further.
HandleEvent(e) ==
  /\ LoopFree /\ fate[e] = "scheduled"
  /\ \/ fate' = [fate EXCEPT ![e] = "handled"] /\ UNCHANGED errors
     \/ /\ errors < MaxErrors
        /\ errors' = errors + 1
        /\ fate' = [fate EXCEPT ![e] = "failed"]
  /\ UNCHANGED <<main, handler, thread, stop, broker, loops, captured, heard, signals, failures>>

-----------------------------------------------------------------------------
(* The main thread. *)

\* start() seeds the built-in automations, whether that succeeds or not,
\* creates the periodic loops and has the capture thread started.
Start ==
  /\ LoopFree /\ main = "seed"
  /\ errors' \in {errors} \cup {n \in {errors + 1} : n <= MaxErrors}
  /\ main' = "await" /\ thread' = "test"
  /\ checks' = "pass" /\ prune' = "pass"
  /\ UNCHANGED <<handler, stop, broker, fate, captured, heard, signals, failures>>

\* Mutant: an exception ends the loop.
CheckEndsOnError ==
  /\ LoopFree /\ checks = "pass"
  /\ \/ checks' = "sleep" /\ UNCHANGED errors
     \/ /\ errors < MaxErrors
        /\ errors' = errors + 1
        /\ checks' = "ended"
  /\ UNCHANGED <<main, handler, thread, stop, broker, prune, fate, captured, heard, signals, failures>>

\* _periodic_automation_check, an evaluation: exceptions are logged.
Check ==
  /\ LoopFree /\ checks = "pass"
  /\ errors' \in {errors} \cup {n \in {errors + 1} : n <= MaxErrors}
  /\ checks' = "sleep"
  /\ UNCHANGED <<main, handler, thread, stop, broker, prune, fate, captured, heard, signals, failures>>

\* _periodic_retention, likewise, unless retention is disabled.
Prune ==
  /\ LoopFree /\ prune = "pass"
  /\ errors' \in {errors} \cup {n \in {errors + 1} : RetentionOn /\ n <= MaxErrors}
  /\ prune' = IF RetentionOn THEN "sleep" ELSE "ended"
  /\ UNCHANGED <<main, handler, thread, stop, broker, checks, fate, captured, heard, signals, failures>>

WakeCheck ==
  /\ LoopFree /\ checks = "sleep"
  /\ checks' = "pass"
  /\ UNCHANGED <<main, handler, thread, stop, broker, prune, fate, captured, heard, bounds>>

WakePrune ==
  /\ LoopFree /\ prune = "sleep"
  /\ prune' = "pass"
  /\ UNCHANGED <<main, handler, thread, stop, broker, checks, fate, captured, heard, bounds>>

\* Mutant: start() waits for the shutdown event, not for the thread.
CancelAtSignal ==
  /\ LoopFree /\ main = "await" /\ stopping
  /\ main' = "cancel"
  /\ checks' = "ended"
  /\ UNCHANGED <<handler, thread, stop, broker, prune, fate, captured, heard, bounds>>

\* The capture thread has ended: cancel the loops one after the other and wait
\* for each.  A loop that has ended is none the worse for it.
CancelChecks ==
  /\ LoopFree /\ main = "await" /\ thread = "end"
  /\ main' = "cancel"
  /\ checks' = "ended"
  /\ UNCHANGED <<handler, thread, stop, broker, prune, fate, captured, heard, bounds>>

\* asyncio.run then cancels the coroutines that are left.
Exit ==
  /\ LoopFree /\ main = "cancel"
  /\ main' = "exited"
  /\ prune' = "ended"
  /\ fate' = [e \in Events |-> IF fate[e] = "scheduled" THEN "lost" ELSE fate[e]]
  /\ UNCHANGED <<handler, thread, stop, broker, checks, captured, heard, bounds>>

-----------------------------------------------------------------------------
(* The signal handler, step by step beside the capture thread. *)

Signal ==
  /\ LoopFree /\ signals < MaxSignals
  /\ signals' = signals + 1
  /\ handler' = "recv"
  /\ stopping' = TRUE
  /\ UNCHANGED <<main, thread, recv, should_stop, broker, loops, fate, captured, heard, failures, errors>>

Hears == heard' = (heard \/ recv \/ thread \notin {"connect", "receiver"})

\* Mutant: the handler sets the flags and closes the connection only.
LeaveReceiver ==
  /\ handler = "recv"
  /\ handler' = "connection"
  /\ Hears
  /\ UNCHANGED <<main, thread, stop, broker, loops, fate, captured, bounds>>

StopReceiver ==
  /\ handler = "recv"
  /\ handler' = "connection"
  /\ should_stop' = (should_stop \/ recv)
  /\ Hears
  /\ UNCHANGED <<main, thread, stopping, recv, broker, loops, fate, captured, bounds>>

\* Closing the connection under the capture thread may make it fail there, or
\* have no effect: an open capture has its own, a waiting one opens it anew.
CloseConnection ==
  /\ handler = "connection"
  /\ handler' = "none"
  /\ thread' \in {thread} \cup {t \in {"error"} : thread \in Connected}
  /\ UNCHANGED <<main, stop, broker, loops, fate, captured, heard, bounds>>

-----------------------------------------------------------------------------
BrokerDown ==
  /\ broker /\ failures < MaxFailures
  /\ broker' = FALSE
  /\ failures' = failures + 1
  /\ UNCHANGED <<main, handler, thread, stop, loops, fate, captured, heard, signals, errors>>

BrokerUp ==
  /\ ~broker
  /\ broker' = TRUE
  /\ UNCHANGED <<main, handler, thread, stop, loops, fate, captured, heard, bounds>>

Handler == StopReceiver \/ CloseConnection
Main == Start \/ CancelChecks \/ Exit

Next ==
  \/ Thread \/ Main \/ Handler \/ Signal
  \/ \E e \in Events : Emit(e) \/ HandleEvent(e)
  \/ Check \/ WakeCheck \/ Prune \/ WakePrune
  \/ BrokerDown \/ BrokerUp

Spec == Init /\ [][Next]_vars

\* The scheduler runs both threads, the event loop runs whatever is ready, and
\* the broker does not stay down.
Fairness ==
  /\ WF_vars(Thread) /\ WF_vars(Main) /\ WF_vars(Handler)
  /\ \A e \in Events : WF_vars(HandleEvent(e))
  /\ WF_vars(Check) /\ WF_vars(WakeCheck) /\ WF_vars(Prune) /\ WF_vars(WakePrune)
  /\ WF_vars(BrokerUp)

FairSpec == Spec /\ Fairness

-----------------------------------------------------------------------------
(* Properties. *)

ThreadSteps == {"off", "test", "connect", "receiver", "open", "capture", "error",
                "wait", "finally", "leave", "end"}
LoopSteps == {"off", "pass", "sleep", "ended"}

\* Type invariant of the consumer, with what ties its parts together: start()
\* starts the loops and the thread at once, and a receiver is in self.recv only
\* from its construction to the finally clause.
TypeOK ==
  /\ main \in {"seed", "await", "cancel", "exited"}
  /\ handler \in {"none", "recv", "connection"}
  /\ thread \in ThreadSteps
  /\ stopping \in BOOLEAN /\ recv \in BOOLEAN /\ should_stop \in BOOLEAN
  /\ broker \in BOOLEAN /\ captured \in BOOLEAN /\ heard \in BOOLEAN
  /\ checks \in LoopSteps /\ prune \in LoopSteps
  /\ fate \in [Events -> {"new", "early", "missed", "scheduled", "dropped",
                          "handled", "failed", "lost"}]
  /\ signals \in Nat /\ failures \in Nat /\ errors \in Nat
  /\ main = "seed" <=> thread = "off"
  /\ main = "seed" <=> checks = "off"
  /\ main = "seed" <=> prune = "off"
  /\ thread \in {"open", "capture"} => recv
  /\ recv => thread \in {"open", "capture", "error", "wait", "finally", "leave"}

\* start, lines 177 to 191: the process exits only when told to, and then with
\* the capture thread ended, no receiver left, both loops ended and no event
\* between the broker and the database.
ExitIsClean ==
  main = "exited" =>
    /\ stopping /\ thread = "end" /\ ~recv
    /\ checks = "ended" /\ prune = "ended"
    /\ \A e \in Events : fate[e] # "scheduled"

\* _capture_events: once it captures, the consumer misses or drops an event
\* only if the broker failed or the process was told to stop, and loses one it
\* has taken only by exiting.
GapsHaveCause ==
  \A e \in Events :
    /\ fate[e] = "missed" => failures > 0 \/ stopping
    /\ fate[e] = "dropped" => stopping
    /\ fate[e] = "lost" => main = "exited"

\* handle_signal: a signal that finds a receiver, or finds the capture thread
\* where it still looks at the flags, ends the process, once the broker is back
\* if it is down.
StopHeard == heard ~> main = "exited"

\* _capture_events: after every failure the consumer captures again, unless it
\* is to stop.
Recovers == ~stopping ~> thread = "capture" \/ stopping

\* _handle_event and the periodic loops: no exception and no outage keeps the
\* event loop from handling the events it was given and running its loops.
KeepsServing ==
  /\ \A e \in Events :
       fate[e] = "scheduled" ~> fate[e] \in {"handled", "failed"} \/ main = "exited"
  /\ main = "await" ~> checks = "pass" \/ main # "await"
  /\ main = "await" /\ RetentionOn ~> prune = "pass" \/ main # "await"
=============================================================================
