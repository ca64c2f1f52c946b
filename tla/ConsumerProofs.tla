--------------------------- MODULE ConsumerProofs ---------------------------
(***************************************************************************)
(* Consumer for every set of events and every bound: type correctness,      *)
(* ExitIsClean, GapsHaveCause, and what a signal that was heard leaves to   *)
(* the capture thread.                                                      *)
(***************************************************************************)
EXTENDS Consumer, TLAPS

\* Whoever makes the capture thread end knows of a signal.
Asked ==
  handler # "none" \/ should_stop \/ heard \/ thread \in {"leave", "end"} => stopping

\* A signal that was heard has the thread stop its receiver, or never make one.
HeardStays ==
  heard => /\ thread \notin {"connect", "receiver"}
           /\ thread \in {"open", "capture"} => should_stop

\* Since capture first ran, a broker that is down has failed, and a thread that
\* does not capture has a reason.
Causes ==
  captured => /\ broker \/ failures > 0
              /\ thread = "capture" \/ failures > 0 \/ stopping

\* start() gets past its await only when the thread has ended.
Awaited == main \in {"cancel", "exited"} => thread = "end" /\ checks = "ended"

Control == Asked /\ HeardStays /\ Causes /\ Awaited

IInv == TypeOK /\ Control /\ ExitIsClean /\ GapsHaveCause

-----------------------------------------------------------------------------
LEMMA InitIInv == Init => IInv
<1> SUFFICES ASSUME Init PROVE IInv
  OBVIOUS
<1>1. TypeOK
  BY DEF Init, TypeOK, LoopSteps, ThreadSteps
<1>2. Control
  BY DEF Init, Control, Asked, HeardStays, Causes, Awaited
<1>3. ExitIsClean /\ GapsHaveCause
  BY DEF Init, ExitIsClean, GapsHaveCause
<1> QED BY <1>1, <1>2, <1>3 DEF IInv

\* The steps of the capture thread change no event and nothing of the main
\* thread, and only counters go up.
LEMMA ThreadStep ==
  ASSUME IInv, Thread
  PROVE  IInv'
<1> USE DEF IInv, ThreadRest, Goes, stop, loops, bounds
<1>1. TypeOK'
  <2> USE DEF TypeOK, ThreadSteps, LoopSteps
  <2>1. CASE TestLoop BY <2>1 DEF TestLoop
  <2>2. CASE Connect BY <2>2 DEF Connect
  <2>3. CASE MakeReceiver BY <2>3 DEF MakeReceiver
  <2>4. CASE OpenCapture BY <2>4 DEF OpenCapture
  <2>5. CASE EndCapture BY <2>5 DEF EndCapture
  <2>6. CASE LoseConnection BY <2>6 DEF LoseConnection
  <2>7. CASE ConnectionFails BY <2>7 DEF ConnectionFails, Connected
  <2>8. CASE OnError BY <2>8 DEF OnError
  <2>9. CASE WaitToReconnect BY <2>9 DEF WaitToReconnect
  <2>10. CASE Finally
    <3>1. /\ thread' \in {"end", "test"} /\ ~recv' /\ recv' \in BOOLEAN
          /\ thread # "off" /\ main # "seed"
      BY <2>10 DEF Finally
    <3> QED BY <2>10, <3>1 DEF Finally
  <2> QED BY <2>1, <2>2, <2>3, <2>4, <2>5, <2>6, <2>7, <2>8, <2>9, <2>10 DEF Thread
<1>2. Control'
  <2> USE DEF TypeOK, Control, Asked, HeardStays, Causes, Awaited
  <2>1. CASE TestLoop BY <2>1 DEF TestLoop
  <2>2. CASE Connect BY <2>2 DEF Connect
  <2>3. CASE MakeReceiver BY <2>3 DEF MakeReceiver
  <2>4. CASE OpenCapture BY <2>4 DEF OpenCapture
  <2>5. CASE EndCapture BY <2>5 DEF EndCapture
  <2>6. CASE LoseConnection BY <2>6 DEF LoseConnection
  <2>7. CASE ConnectionFails BY <2>7 DEF ConnectionFails, Connected
  <2>8. CASE OnError BY <2>8 DEF OnError
  <2>9. CASE WaitToReconnect BY <2>9 DEF WaitToReconnect
  <2>10. CASE Finally BY <2>10 DEF Finally
  <2> QED BY <2>1, <2>2, <2>3, <2>4, <2>5, <2>6, <2>7, <2>8, <2>9, <2>10 DEF Thread
<1>3. /\ UNCHANGED <<main, handler, stopping, loops, fate>>
      /\ failures' = failures \/ failures' = failures + 1
      /\ thread # "end"
  BY DEF Thread, TestLoop, Connect, MakeReceiver, OpenCapture, EndCapture,
     LoseConnection, ConnectionFails, OnError, WaitToReconnect, Finally, Connected
<1>4. ExitIsClean'
  BY <1>3 DEF ExitIsClean
<1>5. GapsHaveCause'
  BY <1>3 DEF GapsHaveCause, TypeOK
<1> QED BY <1>1, <1>2, <1>4, <1>5

\* An event that is emitted changes only its fate.
LEMMA EmitStep ==
  ASSUME IInv, NEW e \in Events, Emit(e)
  PROVE  IInv'
<1> USE DEF IInv, stop, loops, bounds
<1>1. UNCHANGED <<main, handler, thread, stopping, recv, should_stop, broker, checks,
                 prune, captured, heard, signals, failures, errors>>
  BY DEF Emit
<1>2. PICK f \in {"scheduled", "dropped", "missed", "early"} :
        /\ fate' = [fate EXCEPT ![e] = f]
        /\ f = "scheduled" => thread = "capture"
        /\ f = "dropped" => stopping
        /\ f = "missed" => captured /\ (thread # "capture" \/ ~broker)
  BY DEF Emit, TypeOK
<1>3. TypeOK'
  BY <1>1, <1>2 DEF TypeOK
<1>4. Control'
  BY <1>1 DEF Control, Asked, HeardStays, Causes, Awaited
<1>5. ExitIsClean'
  BY <1>1, <1>2 DEF ExitIsClean, TypeOK
<1>6. f = "missed" => failures > 0 \/ stopping
  BY <1>2 DEF Control, Causes
<1>7. ASSUME NEW g \in Events
      PROVE  /\ fate'[g] = "missed" => failures' > 0 \/ stopping'
             /\ fate'[g] = "dropped" => stopping'
             /\ fate'[g] = "lost" => main' = "exited"
  BY <1>1, <1>2, <1>6 DEF GapsHaveCause, TypeOK
<1>8. GapsHaveCause'
  BY <1>7 DEF GapsHaveCause
<1> QED BY <1>3, <1>4, <1>5, <1>8

LEMMA HandleEventStep ==
  ASSUME IInv, NEW e \in Events, HandleEvent(e)
  PROVE  IInv'
<1> USE DEF IInv, stop, loops, bounds
<1>1. UNCHANGED <<main, handler, thread, stopping, recv, should_stop, broker, checks,
                 prune, captured, heard, signals, failures>>
  BY DEF HandleEvent
<1>2. errors' \in Nat
  BY DEF HandleEvent, TypeOK
<1>3. PICK f \in {"handled", "failed"} : fate' = [fate EXCEPT ![e] = f]
  BY DEF HandleEvent
<1>4. TypeOK'
  BY <1>1, <1>2, <1>3 DEF TypeOK
<1>5. Control'
  BY <1>1 DEF Control, Asked, HeardStays, Causes, Awaited
<1>6. ExitIsClean' /\ GapsHaveCause'
  BY <1>1, <1>3 DEF ExitIsClean, GapsHaveCause, TypeOK
<1> QED BY <1>4, <1>5, <1>6

-----------------------------------------------------------------------------
(* The main thread. *)

LEMMA MainStep ==
  ASSUME IInv, Main
  PROVE  IInv'
<1> USE DEF IInv, stop, loops, bounds
<1>1. CASE Start
  <2>1. TypeOK'
    BY <1>1, ConsumerAssumption DEF Start, TypeOK, ThreadSteps, LoopSteps
  <2>2. Control'
    BY <1>1 DEF Start, Control, Asked, HeardStays, Causes, Awaited, TypeOK
  <2>3. ExitIsClean' /\ GapsHaveCause'
    BY <1>1 DEF Start, ExitIsClean, GapsHaveCause
  <2> QED BY <2>1, <2>2, <2>3
<1>2. CASE CancelChecks
  <2>1. TypeOK'
    BY <1>2 DEF CancelChecks, TypeOK, ThreadSteps, LoopSteps
  <2>2. Control'
    BY <1>2 DEF CancelChecks, Control, Asked, HeardStays, Causes, Awaited
  <2>3. ExitIsClean' /\ GapsHaveCause'
    BY <1>2 DEF CancelChecks, ExitIsClean, GapsHaveCause
  <2> QED BY <2>1, <2>2, <2>3
<1>3. CASE Exit
  <2>1. TypeOK'
    BY <1>3 DEF Exit, TypeOK, ThreadSteps, LoopSteps
  <2>2. Control'
    BY <1>3 DEF Exit, Control, Asked, HeardStays, Causes, Awaited
  <2>3. thread = "end" /\ checks = "ended" /\ stopping /\ ~recv
    BY <1>3 DEF Exit, Control, Awaited, Asked, TypeOK
  <2>4. \A e \in Events : fate'[e] # "scheduled"
    BY <1>3 DEF Exit
  <2>5. ExitIsClean'
    BY <1>3, <2>3, <2>4 DEF Exit, ExitIsClean
  <2>6. GapsHaveCause'
    BY <1>3 DEF Exit, GapsHaveCause
  <2> QED BY <2>1, <2>2, <2>5, <2>6
<1> QED BY <1>1, <1>2, <1>3 DEF Main

\* A step of a periodic loop is none after the process has exited.
LEMMA LoopStep ==
  ASSUME IInv, Check \/ WakeCheck \/ Prune \/ WakePrune
  PROVE  IInv'
<1> USE DEF IInv, stop, loops, bounds
<1>1. /\ UNCHANGED <<main, handler, thread, stopping, recv, should_stop, broker,
                    fate, captured, heard, signals, failures>>
      /\ main # "exited"
  BY DEF Check, WakeCheck, Prune, WakePrune, LoopFree
<1>2. errors' \in Nat
  BY ConsumerAssumption DEF Check, WakeCheck, Prune, WakePrune, TypeOK
<1>3. /\ checks' \in LoopSteps /\ prune' \in LoopSteps
      /\ checks' = "off" <=> checks = "off"
      /\ prune' = "off" <=> prune = "off"
      /\ checks = "ended" => checks' = "ended"
  BY DEF Check, WakeCheck, Prune, WakePrune, TypeOK, LoopSteps
<1>4. TypeOK'
  BY <1>1, <1>2, <1>3 DEF TypeOK
<1>5. Control'
  BY <1>1, <1>3 DEF Control, Asked, HeardStays, Causes, Awaited
<1>6. ExitIsClean' /\ GapsHaveCause'
  BY <1>1 DEF ExitIsClean, GapsHaveCause
<1> QED BY <1>4, <1>5, <1>6

\* Signals and the broker.
LEMMA OutsideStep ==
  ASSUME IInv, Signal \/ Handler \/ BrokerDown \/ BrokerUp
  PROVE  IInv'
<1> USE DEF IInv, stop, loops, bounds, Handler
<1>1. TypeOK'
  <2> USE DEF TypeOK, ThreadSteps, LoopSteps
  <2>1. CASE Signal BY <2>1 DEF Signal
  <2>2. CASE StopReceiver BY <2>2 DEF StopReceiver, Hears
  <2>3. CASE CloseConnection BY <2>3 DEF CloseConnection, Connected
  <2>4. CASE BrokerDown
    <3>1. broker' \in BOOLEAN
      BY <2>4, Zenon DEF BrokerDown
    <3>2. /\ UNCHANGED <<main, handler, thread, stopping, recv, should_stop, checks, prune,
                         fate, captured, heard, signals, errors>>
          /\ failures' = failures + 1
      BY <2>4 DEF BrokerDown
    <3> QED BY <3>1, <3>2
  <2>5. CASE BrokerUp BY <2>5 DEF BrokerUp
  <2> QED BY <2>1, <2>2, <2>3, <2>4, <2>5
<1>2. Control'
  <2> USE DEF TypeOK, Control, Asked, HeardStays, Causes, Awaited
  <2>1. CASE Signal BY <2>1 DEF Signal
  <2>2. CASE StopReceiver BY <2>2 DEF StopReceiver, Hears
  <2>3. CASE CloseConnection BY <2>3 DEF CloseConnection, Connected
  <2>4. CASE BrokerDown BY <2>4 DEF BrokerDown
  <2>5. CASE BrokerUp BY <2>5 DEF BrokerUp
  <2> QED BY <2>1, <2>2, <2>3, <2>4, <2>5
<1>3. /\ UNCHANGED <<main, recv, checks, prune, fate>>
      /\ stopping => stopping'
      /\ failures > 0 => failures' > 0
      /\ thread = "end" => thread' = "end"
  BY DEF Signal, StopReceiver, CloseConnection, BrokerDown, BrokerUp, Connected, TypeOK
<1>4. ExitIsClean' /\ GapsHaveCause'
  BY <1>3 DEF ExitIsClean, GapsHaveCause
<1> QED BY <1>1, <1>2, <1>4

LEMMA StutterStep ==
  ASSUME IInv, UNCHANGED vars
  PROVE  IInv'
<1> USE DEF IInv, vars, stop, loops, bounds
<1>1. TypeOK' BY DEF TypeOK
<1>2. Control' BY DEF Control, Asked, HeardStays, Causes, Awaited
<1>3. ExitIsClean' /\ GapsHaveCause' BY DEF ExitIsClean, GapsHaveCause
<1> QED BY <1>1, <1>2, <1>3

LEMMA NextIInv == IInv /\ [Next]_vars => IInv'
<1> SUFFICES ASSUME IInv, [Next]_vars PROVE IInv'
  OBVIOUS
<1> QED BY ThreadStep, MainStep, OutsideStep, EmitStep, HandleEventStep, LoopStep,
           StutterStep DEF Next

-----------------------------------------------------------------------------
LEMMA Invariance == Spec => []IInv
BY InitIInv, NextIInv, PTL DEF Spec

\* Every state of the consumer is well typed, and a receiver is kept exactly
\* while the capture thread may need it.
THEOREM TypeCorrect == Spec => []TypeOK
BY Invariance, PTL DEF IInv

\* The process exits only when told to, and cleanly.
THEOREM Clean == Spec => []ExitIsClean
BY Invariance, PTL DEF IInv

\* Events are missed, dropped or lost for a reason only.
THEOREM Gaps == Spec => []GapsHaveCause
BY Invariance, PTL DEF IInv

\* The safe part of StopHeard: once a signal was heard the capture thread is
\* never again where it would make a receiver that nobody stops, and captures
\* only with its receiver told to stop.
THEOREM HeardSignalStays == Spec => []HeardStays
<1>1. IInv => HeardStays
  BY DEF IInv, Control
<1> QED BY <1>1, Invariance, PTL

-----------------------------------------------------------------------------
(* What is left of the capture thread once a signal was heard. *)

Rank ==
  CASE thread = "off"     -> 8
    [] thread = "open"    -> 7
    [] thread = "capture" -> 6
    [] thread = "error"   -> 5
    [] thread = "wait"    -> 4
    [] thread = "finally" -> 3
    [] thread = "test"    -> 2
    [] thread = "leave"   -> 1
    [] OTHER              -> 0

\* Whoever moves the thread, the thread itself or the signal handler under it,
\* brings it closer to its end; and each step of its own moves it.
HeardAdvances ==
  heard => /\ thread' = thread \/ Rank' < Rank
           /\ Thread => thread' # thread

\* Where it has something left to do it is held up by nothing but the broker.
HeardIsFree ==
  heard /\ thread # "end" =>
    \/ thread \in {"off", "error", "wait", "finally", "test", "leave"}
    \/ thread = "capture" /\ should_stop
    \/ thread = "open"

\* The safe part of StopHeard: after a signal that was heard the capture thread
\* makes at most seven more steps, whatever the broker and further signals do.
THEOREM HeardThreadAdvances == Spec => [][HeardAdvances]_vars
<1>1. IInv /\ [Next]_vars => [HeardAdvances]_vars
  <2> SUFFICES ASSUME IInv, Next, heard
               PROVE  (thread' = thread \/ Rank' < Rank) /\ (Thread => thread' # thread)
    BY DEF HeardAdvances
  <2>1. /\ thread \in ThreadSteps \ {"connect", "receiver"} /\ stopping
        /\ thread = "capture" => should_stop
    BY DEF IInv, Control, HeardStays, Asked, TypeOK
  <2>2. ASSUME Thread PROVE Rank' < Rank /\ thread' # thread
    <3> USE DEF ThreadSteps, Rank, Goes
    <3>1. CASE TestLoop BY <2>1, <3>1 DEF TestLoop
    <3>2. CASE Connect \/ MakeReceiver BY <2>1, <3>2 DEF Connect, MakeReceiver
    <3>3. CASE OpenCapture BY <2>1, <3>3 DEF OpenCapture
    <3>4. CASE EndCapture BY <2>1, <3>4 DEF EndCapture
    <3>5. CASE LoseConnection BY <2>1, <3>5 DEF LoseConnection
    <3>6. CASE ConnectionFails BY <2>1, <3>6 DEF ConnectionFails, Connected
    <3>7. CASE OnError BY <2>1, <3>7 DEF OnError
    <3>8. CASE WaitToReconnect BY <2>1, <3>8 DEF WaitToReconnect
    <3>9. CASE Finally BY <2>1, <3>9 DEF Finally
    <3> QED BY <2>2, <3>1, <3>2, <3>3, <3>4, <3>5, <3>6, <3>7, <3>8, <3>9 DEF Thread
  <2>3. ASSUME Start PROVE Rank' < Rank
    BY <2>3 DEF Start, Rank, IInv, TypeOK
  <2>4. ASSUME CloseConnection PROVE thread' = thread \/ Rank' < Rank
    <3>1. CASE thread' = "error" /\ thread \in Connected
      BY <2>1, <3>1 DEF Connected, Rank
    <3> QED BY <2>4, <3>1 DEF CloseConnection
  <2>5. Thread \/ Start \/ CloseConnection \/ thread' = thread
    BY DEF Next, Main, Handler, CancelChecks, Exit, StopReceiver, Signal, Emit,
       HandleEvent, Check, WakeCheck, Prune, WakePrune, BrokerDown, BrokerUp, stop
  <2> QED BY <2>2, <2>3, <2>4, <2>5
<1> QED BY <1>1, Invariance, PTL DEF Spec

\* And none of these steps waits for anything but a broker that is down while a
\* capture is being opened.
THEOREM HeardThreadIsFree == Spec => []HeardIsFree
<1>1. IInv => HeardIsFree
  BY DEF IInv, Control, HeardStays, TypeOK, ThreadSteps, HeardIsFree
<1> QED BY <1>1, Invariance, PTL
=============================================================================
