---------------------------- MODULE TelemetryIngest ----------------------------
(***************************************************************************)
(* Telemetry on its way into the cloud database: the upload handler of     *)
(* http.ts, ingestTelemetryBatch and ingestTelemetry of db.ts, the agent   *)
(* report made after every batch, and the built-in simulator, which feeds  *)
(* the same functions from a timer of the server process.                  *)
(*                                                                         *)
(* One handler runs at a time, to its end; but every statement commits by  *)
(* itself, so a crash or an exception can leave a batch half done.  Base   *)
(* stations (outside programs) repeat a batch until they see it accepted.  *)
(***************************************************************************)
EXTENDS Integers, FiniteSets

CONSTANTS MaxBatches,       \* batches the base station uploads
          MaxTicks,         \* bound: ticks of the simulator in one process
          Devices,          \* readings in a batch, one for each device
          WithReceivedAt,   \* uploads carry "receivedAt", a time of their own
          BadBatches,       \* uploads whose last reading lacks a value
          MaxTime,          \* bound: milliseconds told apart
          MaxCrashes        \* bound: crashes of the process

ASSUME IngestAssumption ==
  /\ MaxBatches \in Nat /\ MaxTicks \in Nat /\ Devices \in Nat \ {0}
  /\ WithReceivedAt \in BOOLEAN
  /\ BadBatches \subseteq 1..MaxBatches
  /\ MaxTime \in Nat /\ MaxCrashes \in Nat

Uploads == 1..MaxBatches
SimBatch(tick) == MaxBatches + tick               \* "sim-batch-<tick>"
Batches == 1..(MaxBatches + MaxTicks)

\* The times base stations stamp their batches with: one for each batch, and
\* none that the simulator uses.
ReceivedAt(b) == MaxTime + b
Times == 0..(MaxTime + MaxBatches)

VARIABLES
  sensor_readings,   \* rows; the id is made of the device and the time
  ingest_batches,    \* batch ids
  audit_logs,        \* batches with a "telemetry.ingest" entry
  last_seen,         \* devices.last_seen
  reported,          \* an agent report has the id of the current millisecond
  clock,
  tick,              \* simulator.ts: ticks since the process started
  fired,             \* when the simulator ticked last
  net,               \* upload requests in flight
  accepted,          \* batches the base station has seen accepted
  pc, batch, at, device,   \* the handler that runs: where, and on what
  crashes

tables == <<sensor_readings, ingest_batches, audit_logs, last_seen, reported>>
work   == <<pc, batch, at, device>>
vars   == <<tables, clock, tick, fired, net, accepted, work, crashes>>

TypeOK ==
  /\ sensor_readings \subseteq [device : 1..Devices, at : Times, batch : Batches]
  /\ ingest_batches \subseteq Batches
  /\ audit_logs \subseteq Uploads
  /\ last_seen \in [1..Devices -> Times]
  /\ reported \in BOOLEAN
  /\ clock \in 0..MaxTime
  /\ tick \in 0..MaxTicks
  /\ fired \in 0..MaxTime
  /\ net \subseteq Uploads
  /\ accepted \subseteq Uploads
  /\ pc \in {"idle", "insert", "touch", "mark", "report", "audit"}
  /\ batch \in Batches \cup {0}
  /\ at \in Times
  /\ device \in 1..Devices
  /\ crashes \in 0..MaxCrashes

Init ==
  /\ sensor_readings = {} /\ ingest_batches = {} /\ audit_logs = {}
  /\ last_seen = [d \in 1..Devices |-> 0]
  /\ reported = FALSE
  /\ clock = 0
  /\ tick = 0 /\ fired = 0
  /\ net = {} /\ accepted = {}
  /\ pc = "idle" /\ batch = 0 /\ at = 0 /\ device = 1
  /\ crashes = 0

-----------------------------------------------------------------------------
(* The handler.                                                            *)

\* Mutant of Begin: the device is touched before its reading is stored.
BeginTouchesFirst(b, time) ==
  /\ pc = "idle"
  /\ batch' = b
  /\ at' = time
  /\ device' = 1
  /\ pc' = IF b \in ingest_batches THEN "report" ELSE "touch"

\* Mutant of Begin: a known batch id is answered with an error.
BeginRefusesKnown(b, time) ==
  /\ pc = "idle"
  /\ batch' = b
  /\ at' = time
  /\ device' = 1
  /\ pc' = IF b \in ingest_batches THEN "idle" ELSE "insert"

\* ingestTelemetryBatch: a known batch id goes straight to the report.
Begin(b, time) ==
  /\ pc = "idle"
  /\ batch' = b
  /\ at' = time
  /\ device' = 1
  /\ pc' = IF b \in ingest_batches THEN "report" ELSE "insert"

\* Mutant of BeginUpload: the readings always get the time of day.
BeginUploadNow(b) ==
  /\ b \in net
  /\ net' = net \ {b}
  /\ Begin(b, clock)
  /\ UNCHANGED <<tables, clock, tick, fired, accepted, crashes>>

\* POST /api/ingest/...: without "receivedAt" the readings get the time of day.
BeginUpload(b) ==
  /\ b \in net
  /\ net' = net \ {b}
  /\ Begin(b, IF WithReceivedAt THEN ReceivedAt(b) ELSE clock)
  /\ UNCHANGED <<tables, clock, tick, fired, accepted, crashes>>

\* The interval of the simulator; "receivedAt" is the time of day.
SimulatorTick ==
  /\ tick < MaxTicks
  /\ fired < clock
  /\ tick' = tick + 1
  /\ fired' = clock
  /\ Begin(SimBatch(tick + 1), clock)
  /\ UNCHANGED <<tables, clock, net, accepted, crashes>>

\* Mutant of InsertReading: the batch id is recorded with the first reading.
InsertMarksFirst ==
  /\ pc = "insert"
  /\ ~(batch \in BadBatches /\ device = Devices)
  /\ sensor_readings' =
       {r \in sensor_readings : ~(r.device = device /\ r.at = at)}
         \cup {[device |-> device, at |-> at, batch |-> batch]}
  /\ ingest_batches' = ingest_batches \cup {batch}
  /\ pc' = "touch"
  /\ UNCHANGED <<audit_logs, last_seen, reported, clock, tick, fired, net, accepted,
                 batch, at, device, crashes>>

\* Mutant of InsertReading: the id of a reading is its device alone.
InsertByDevice ==
  /\ pc = "insert"
  /\ ~(batch \in BadBatches /\ device = Devices)
  /\ sensor_readings' =
       {r \in sensor_readings : r.device # device}
         \cup {[device |-> device, at |-> at, batch |-> batch]}
  /\ pc' = "touch"
  /\ UNCHANGED <<ingest_batches, audit_logs, last_seen, reported, clock, tick, fired, net, accepted,
                 batch, at, device, crashes>>

\* INSERT OR REPLACE of the next reading.
InsertReading ==
  /\ pc = "insert"
  /\ ~(batch \in BadBatches /\ device = Devices)
  /\ sensor_readings' =
       {r \in sensor_readings : ~(r.device = device /\ r.at = at)}
         \cup {[device |-> device, at |-> at, batch |-> batch]}
  /\ pc' = "touch"
  /\ UNCHANGED <<ingest_batches, audit_logs, last_seen, reported, clock, tick, fired, net, accepted,
                 batch, at, device, crashes>>

\* A reading without a number violates NOT NULL: the handler answers 500.
InsertThrows ==
  /\ pc = "insert"
  /\ batch \in BadBatches /\ device = Devices
  /\ pc' = "idle"
  /\ UNCHANGED <<tables, clock, tick, fired, net, accepted, batch, at, device, crashes>>

\* Mutant of TouchDevice: one device too many.
TouchDeviceTooMany ==
  /\ pc = "touch"
  /\ last_seen' = [last_seen EXCEPT ![device] = at]
  /\ pc' = IF device > Devices THEN "mark" ELSE "insert"
  /\ device' = IF device > Devices THEN device ELSE device + 1
  /\ UNCHANGED <<sensor_readings, ingest_batches, audit_logs, reported, clock, tick, fired, net, accepted,
                 batch, at, crashes>>

\* UPDATE devices (and, with the same time, base_stations).
TouchDevice ==
  /\ pc = "touch"
  /\ last_seen' = [last_seen EXCEPT ![device] = at]
  /\ pc' = IF device = Devices THEN "mark" ELSE "insert"
  /\ device' = IF device = Devices THEN device ELSE device + 1
  /\ UNCHANGED <<sensor_readings, ingest_batches, audit_logs, reported, clock, tick, fired, net, accepted,
                 batch, at, crashes>>

\* INSERT INTO ingest_batches, once every reading is in.
MarkBatch ==
  /\ pc = "mark"
  /\ ingest_batches' = ingest_batches \cup {batch}
  /\ pc' = "report"
  /\ UNCHANGED <<sensor_readings, audit_logs, last_seen, reported, clock, tick, fired, net, accepted,
                 batch, at, device, crashes>>

\* createCurrentAgentReport: the id of the report is the millisecond.
MakeReport ==
  /\ pc = "report"
  /\ ~reported
  /\ reported' = TRUE
  /\ pc' = IF batch \in Uploads THEN "audit" ELSE "idle"
  /\ UNCHANGED <<sensor_readings, ingest_batches, audit_logs, last_seen, clock, tick, fired, net, accepted,
                 batch, at, device, crashes>>

\* A second report in one millisecond violates the primary key.  An upload is
\* answered 500; in the simulator's timer the exception ends the process,
\* and its supervisor starts it again.
ReportThrows ==
  /\ pc = "report"
  /\ reported
  /\ pc' = "idle"
  /\ IF batch \in Uploads THEN UNCHANGED <<tick, net>> ELSE tick' = 0 /\ net' = {}
  /\ UNCHANGED <<tables, clock, fired, accepted, batch, at, device, crashes>>

\* addAudit, and the answer 201 or 200, which the station sees or does not.
AuditAndAnswer(received) ==
  /\ pc = "audit"
  /\ audit_logs' = audit_logs \cup {batch}
  /\ accepted' = IF received THEN accepted \cup {batch} ELSE accepted
  /\ pc' = "idle"
  /\ UNCHANGED <<sensor_readings, ingest_batches, last_seen, reported, clock, tick, fired, net,
                 batch, at, device, crashes>>

-----------------------------------------------------------------------------
(* Crashes, time, and the base station.                                    *)

\* The process dies between two statements and is started again.
CrashRestart ==
  /\ crashes < MaxCrashes
  /\ crashes' = crashes + 1
  /\ pc' = "idle"
  /\ tick' = 0
  /\ net' = {}
  /\ UNCHANGED <<tables, clock, fired, accepted, batch, at, device>>

\* A millisecond passes; past MaxTime they are not told apart any more.
Millisecond ==
  /\ clock' = IF clock < MaxTime THEN clock + 1 ELSE clock
  /\ reported' = FALSE
  /\ UNCHANGED <<sensor_readings, ingest_batches, audit_logs, last_seen, tick, fired, net, accepted, work, crashes>>

\* The station uploads a batch, for the first time or again.
Upload(b) ==
  /\ b \notin accepted
  /\ net' = net \cup {b}
  /\ UNCHANGED <<tables, clock, tick, fired, accepted, work, crashes>>

\* A request never arrives.  When it is dropped makes no difference, so it is
\* while the handler is idle: what waits behind a running handler has arrived.
LoseUpload(b) ==
  /\ pc = "idle"
  /\ b \in net
  /\ net' = net \ {b}
  /\ UNCHANGED <<tables, clock, tick, fired, accepted, work, crashes>>

HandlerStep ==
  \/ InsertReading \/ InsertThrows \/ TouchDevice \/ MarkBatch \/ MakeReport \/ ReportThrows
  \/ AuditAndAnswer(TRUE) \/ AuditAndAnswer(FALSE)

Next ==
  \/ HandlerStep
  \/ SimulatorTick
  \/ CrashRestart
  \/ Millisecond
  \/ \E b \in Uploads : BeginUpload(b) \/ Upload(b) \/ LoseUpload(b)

Spec == Init /\ [][Next]_vars

\* The station repeats what was not accepted; of the repeated requests some
\* arrive, some find a millisecond without a report, and some answers return.
FairSpec ==
  /\ Spec
  /\ WF_vars(HandlerStep)
  /\ WF_vars(Millisecond)
  /\ \A b \in Uploads :
       /\ WF_vars(Upload(b))
       /\ SF_vars(BeginUpload(b))
       /\ SF_vars(MakeReport /\ batch = b)
       /\ SF_vars(AuditAndAnswer(TRUE) /\ batch = b)

-----------------------------------------------------------------------------
(* Properties.                                                             *)

RowsOf(b) == {r \in sensor_readings : r.batch = b}

\* A batch id is recorded only when all the readings of the batch are stored,
\* so that the retry of a half-stored batch is not taken for a duplicate
\* (db.ts:284-300, the order of its two writes).
MarkedIsStored == \A b \in ingest_batches : \A d \in 1..Devices : \E r \in RowsOf(b) : r.device = d

\* What the station has been told is accepted is in the database and audited,
\* through crashes, exceptions, lost answers and retries (http.ts:232-249).
AcceptedIsStored ==
  \A b \in accepted :
    /\ b \in audit_logs
    /\ \A d \in 1..Devices : \E r \in RowsOf(b) : r.device = d

\* "Retries of one batchId do not write readings twice" of the acceptance
\* checklist (docs/acceptance/backend-checklist.md): one row for each device.
NoDuplicateReadings == \A b \in Uploads : \A r, q \in RowsOf(b) : r.device = q.device => r = q

\* A device was seen when one of its readings says so (db.ts:248-270).
LastSeenBacked ==
  \A d \in 1..Devices :
    last_seen[d] # 0 => \E r \in sensor_readings : r.device = d /\ r.at = last_seen[d]

\* A batch that can be stored is one day accepted (http.ts:232-249).
EveryBatchAccepted == \A b \in Uploads \ BadBatches : <>(b \in accepted)

-----------------------------------------------------------------------------
(* The inductive invariant behind the safety properties, for uploads that  *)
(* carry a time of their own.                                              *)

Writing == pc \in {"insert", "touch", "mark"}
Row(d)  == [device |-> d, at |-> at, batch |-> batch]

\* The time of a row tells its batch: uploads have times of their own, and the
\* simulator never ticks twice in one millisecond.
RowsInv ==
  /\ \A r \in sensor_readings :
       IF r.batch \in Uploads THEN r.at = ReceivedAt(r.batch) ELSE r.at \in 1..fired
  /\ Writing => \A r \in sensor_readings : r.at = at => r.batch = batch

\* What the handler is on.
BatchInv ==
  /\ pc # "idle" => batch \in Batches
  /\ pc = "audit" => batch \in Uploads

\* What the handler has stored of it.
WorkInv ==
  /\ Writing => at = IF batch \in Uploads THEN ReceivedAt(batch) ELSE fired
  /\ Writing => at # 0
  /\ pc = "insert" => \A d \in 1..Devices : d < device => Row(d) \in sensor_readings
  /\ pc = "touch"  => \A d \in 1..Devices : d <= device => Row(d) \in sensor_readings
  /\ pc = "mark"   => \A d \in 1..Devices : Row(d) \in sensor_readings
  /\ pc \in {"report", "audit"} => batch \in ingest_batches
  /\ accepted \subseteq audit_logs
  /\ audit_logs \subseteq ingest_batches

IngestInv == TypeOK /\ BatchInv /\ RowsInv /\ WorkInv /\ MarkedIsStored /\ LastSeenBacked
=============================================================================
