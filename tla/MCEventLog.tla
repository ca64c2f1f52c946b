---------------------------- MODULE MCEventLog ----------------------------
(* Small instances of EventLog for TLC. *)
EXTENDS EventLog

CONSTANTS t1, w1, NoStamp

TaskEv(type, ts) ==
  [table |-> "task_events", type |-> type, subject |-> t1, host |-> w1, ts |-> ts]
WorkerEv(type, ts) ==
  [table |-> "worker_events", type |-> type, subject |-> w1, host |-> w1, ts |-> ts]

\* Events that are stored with the time they arrive, and one from a worker whose
\* clock is a tick ahead: its row may come before older ones.
SkewedEvents == {TaskEv("received", NoStamp), TaskEv("succeeded", 1)}

\* A task that is started, an event of it without timestamp, a heartbeat of its
\* worker: both tables.
BothTables ==
  {TaskEv("started", 0), TaskEv("received", NoStamp), WorkerEv("heartbeat", 0)}

=============================================================================
