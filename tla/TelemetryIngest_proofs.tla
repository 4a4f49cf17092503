------------------------- MODULE TelemetryIngest_proofs -------------------------
(* Proofs about TelemetryIngest, for every number of batches, devices,     *)
(* ticks and crashes: typing, and, for uploads that carry a time of their  *)
(* own, what the database holds of what it has recorded and answered.      *)
EXTENDS TelemetryIngest, TLAPS

Device == 1..Devices

LEMMA Constants ==
  /\ MaxBatches \in Nat /\ MaxTicks \in Nat /\ MaxTime \in Nat /\ MaxCrashes \in Nat
  /\ Devices \in Nat /\ Devices >= 1 /\ WithReceivedAt \in BOOLEAN
  /\ Uploads \subseteq Batches
  /\ 1 \in Device /\ Device \subseteq Nat
  /\ 0..MaxTime \subseteq Times /\ 0 \in Times
  /\ \A b \in Uploads : ReceivedAt(b) \in Times /\ ReceivedAt(b) > MaxTime
  BY IngestAssumption DEF Uploads, Batches, Device, Times, ReceivedAt

(* The ids of the simulator's batches are none of the uploads'.            *)
LEMMA SimulatorIds ==
  ASSUME tick \in 0..MaxTicks, tick < MaxTicks
  PROVE  SimBatch(tick + 1) \in Batches \ Uploads
  BY Constants DEF SimBatch, Batches, Uploads

-----------------------------------------------------------------------------
(* The steps that start or end a handler, and those that only wait.        *)

(* A handler starts on batch b with the time at'.                          *)
LEMMA Begun ==
  ASSUME NEW b, NEW time, Begin(b, time)
  PROVE  /\ pc = "idle" /\ batch' = b /\ at' = time /\ device' = 1
         /\ pc' \in {"insert", "report"}
         /\ pc' = "report" => b \in ingest_batches
  BY DEF Begin

(* The steps that touch neither the readings, the batches nor the handler. *)
Waits ==
  /\ UNCHANGED <<sensor_readings, ingest_batches, audit_logs, last_seen, fired, accepted, work>>

LEMMA WaitingSteps ==
  ASSUME Millisecond \/ \E b \in Uploads : Upload(b) \/ LoseUpload(b)
  PROVE  Waits
  BY DEF Millisecond, Upload, LoseUpload, Waits, tables

-----------------------------------------------------------------------------
(* Typing.                                                                 *)

TypeInv == TypeOK /\ BatchInv

LEMMA InitType == Init => TypeInv
  <1> SUFFICES ASSUME Init PROVE TypeInv
    OBVIOUS
  <1>1. 0 \in 0..MaxTime /\ 0 \in 0..MaxTicks /\ 0 \in 0..MaxCrashes /\ 1 \in 1..Devices
    BY Constants
  <1>2. last_seen \in [1..Devices -> Times]
    BY Constants DEF Init
  <1>3. QED
    BY <1>1, <1>2, Constants DEF Init, TypeInv, TypeOK, BatchInv

LEMMA HandlerType == TypeInv /\ HandlerStep => TypeInv'
  <1> SUFFICES ASSUME TypeInv, HandlerStep PROVE TypeInv'
    OBVIOUS
  <1> USE Constants DEF TypeInv, TypeOK, BatchInv, tables, Device
  <1>1. CASE InsertReading
    <2>1. [device |-> device, at |-> at, batch |-> batch] \in
            [device : 1..Devices, at : Times, batch : Batches]
      BY <1>1 DEF InsertReading
    <2>2. sensor_readings' \subseteq [device : 1..Devices, at : Times, batch : Batches]
      BY <1>1, <2>1 DEF InsertReading
    <2>3. QED
      BY <1>1, <2>2 DEF InsertReading
  <1>2. CASE InsertThrows
    BY <1>2 DEF InsertThrows
  <1>3. CASE TouchDevice
    <2>1. device' \in 1..Devices
      BY <1>3 DEF TouchDevice
    <2>2. last_seen' \in [1..Devices -> Times]
      BY <1>3 DEF TouchDevice
    <2>3. QED
      BY <1>3, <2>1, <2>2 DEF TouchDevice
  <1>4. CASE MarkBatch
    BY <1>4 DEF MarkBatch
  <1>5. CASE MakeReport
    BY <1>5 DEF MakeReport
  <1>6. CASE ReportThrows
    <2>1. tick' \in 0..MaxTicks /\ net' \subseteq Uploads
      BY <1>6 DEF ReportThrows
    <2>2. QED
      BY <1>6, <2>1 DEF ReportThrows
  <1>7. ASSUME NEW received \in BOOLEAN, AuditAndAnswer(received) PROVE TypeInv'
    BY <1>7 DEF AuditAndAnswer
  <1>8. QED
    BY <1>1, <1>2, <1>3, <1>4, <1>5, <1>6, <1>7 DEF HandlerStep

LEMMA NextType == TypeInv /\ [Next]_vars => TypeInv'
  <1> SUFFICES ASSUME TypeInv, [Next]_vars PROVE TypeInv'
    OBVIOUS
  <1> USE DEF TypeInv, TypeOK, BatchInv, tables, work
  <1>1. CASE HandlerStep
    BY <1>1, HandlerType
  <1>2. CASE SimulatorTick
    <2>1. /\ tick < MaxTicks /\ tick' = tick + 1 /\ fired' = clock /\ Begin(SimBatch(tick + 1), clock)
          /\ UNCHANGED <<tables, clock, net, accepted, crashes>>
      BY <1>2 DEF SimulatorTick
    <2>2. SimBatch(tick + 1) \in Batches /\ clock \in Times /\ tick' \in 0..MaxTicks
      BY <2>1, SimulatorIds, Constants
    <2>3. QED
      BY <2>1, <2>2, Begun, Constants
  <1>3. CASE CrashRestart
    BY <1>3, Constants DEF CrashRestart
  <1>4. CASE Millisecond
    <2>1. clock' \in 0..MaxTime
      BY <1>4, Constants DEF Millisecond
    <2>2. QED
      BY <1>4, <2>1 DEF Millisecond
  <1>5. ASSUME NEW b \in Uploads, BeginUpload(b) PROVE TypeInv'
    <2>1. PICK time \in Times : Begin(b, time)
      BY <1>5, Constants DEF BeginUpload
    <2>2. QED
      BY <1>5, <2>1, Begun, Constants DEF BeginUpload
  <1>6. ASSUME NEW b \in Uploads, Upload(b) \/ LoseUpload(b) PROVE TypeInv'
    BY <1>6 DEF Upload, LoseUpload
  <1>7. CASE UNCHANGED vars
    BY <1>7 DEF vars
  <1>8. QED
    BY <1>1, <1>2, <1>3, <1>4, <1>5, <1>6, <1>7 DEF Next

(* Every variable keeps its type; the row ids, batch ids and times the     *)
(* tables hold are ones a station or the simulator made (db.ts:248-300).   *)
THEOREM TypeCorrect == Spec => []TypeOK
  <1>1. TypeInv => TypeOK
    BY DEF TypeInv
  <1>2. QED
    BY <1>1, InitType, NextType, PTL DEF Spec

-----------------------------------------------------------------------------
(* What is stored.                                                         *)

(* Storing a reading replaces the same reading at most: nothing is lost.   *)
LEMMA InsertOnlyAdds ==
  ASSUME IngestInv, InsertReading
  PROVE  sensor_readings' = sensor_readings \cup {Row(device)}
  <1>1. /\ sensor_readings' = {r \in sensor_readings : ~(r.device = device /\ r.at = at)} \cup {Row(device)}
        /\ Writing
    BY DEF InsertReading, Row, Writing
  <1>2. ASSUME NEW r \in sensor_readings, r.device = device, r.at = at PROVE r = Row(device)
    <2>1. r.batch = batch
      BY <1>1, <1>2 DEF IngestInv, RowsInv
    <2>2. r \in [device : 1..Devices, at : Times, batch : Batches]
      BY DEF IngestInv, TypeOK
    <2>3. r = [device |-> r.device, at |-> r.at, batch |-> r.batch]
      BY <2>2
    <2>4. QED
      BY <1>2, <2>1, <2>3 DEF Row
  <1>3. QED
    BY <1>1, <1>2

(* A handler that writes has a time no other batch has.                    *)
LEMMA BegunFresh ==
  ASSUME IngestInv, WithReceivedAt, NEW b \in Batches, NEW time, Begin(b, time),
         fired \in 0..MaxTime, fired' \in 0..MaxTime,
         \/ b \in Uploads /\ time = ReceivedAt(b) /\ fired' = fired
         \/ b \notin Uploads /\ time = fired' /\ fired' > fired,
         UNCHANGED <<sensor_readings, ingest_batches, audit_logs, accepted>>
  PROVE  (RowsInv /\ WorkInv)'
  <1>1. /\ batch' = b /\ at' = time /\ device' = 1 /\ pc' \in {"insert", "report"}
        /\ pc' = "report" => b \in ingest_batches
    BY Begun
  <1>2. ASSUME NEW r \in sensor_readings
        PROVE  /\ IF r.batch \in Uploads THEN r.at = ReceivedAt(r.batch) ELSE r.at \in 1..fired'
               /\ r.at = time => r.batch = b
    <2>1. IF r.batch \in Uploads THEN r.at = ReceivedAt(r.batch) ELSE r.at \in 1..fired
      BY <1>2 DEF IngestInv, RowsInv
    <2>2. CASE r.batch \in Uploads
      <3>1. r.at = MaxTime + r.batch /\ r.at > MaxTime /\ r.batch \in Nat
        BY <2>1, <2>2, Constants DEF ReceivedAt, Uploads
      <3>2. CASE b \in Uploads
        BY <2>1, <2>2, <3>1, <3>2, Constants DEF ReceivedAt, Uploads
      <3>3. CASE b \notin Uploads
        BY <2>1, <2>2, <3>1, <3>3, Constants
      <3>4. QED
        BY <3>2, <3>3
    <2>3. CASE r.batch \notin Uploads
      <3>1. r.at \in 1..fired /\ r.at \in 1..fired' /\ r.at \in Int /\ r.at <= fired
        BY <2>1, <2>3, Constants
      <3>2. r.at # time
        BY <3>1, Constants
      <3>3. QED
        BY <2>3, <3>1, <3>2
    <2>4. QED
      BY <2>2, <2>3
  <1>3. time # 0
    BY Constants
  <1>4. RowsInv'
    BY <1>1, <1>2 DEF RowsInv
  <1>5. WorkInv'
    <2>1. /\ accepted' \subseteq audit_logs' /\ audit_logs' \subseteq ingest_batches'
      BY DEF IngestInv, WorkInv
    <2>2. \A d \in 1..Devices : ~(d < 1)
      BY Constants
    <2>3. at' = IF batch' \in Uploads THEN ReceivedAt(batch') ELSE fired'
      BY <1>1
    <2>4. QED
      BY <1>1, <1>3, <2>1, <2>2, <2>3 DEF WorkInv, Writing
  <1>6. QED
    BY <1>4, <1>5

LEMMA WaitsKeep == ASSUME IngestInv, Waits PROVE (RowsInv /\ WorkInv /\ MarkedIsStored /\ LastSeenBacked)'
  BY DEF IngestInv, Waits, work, RowsInv, WorkInv, MarkedIsStored, LastSeenBacked, RowsOf, Writing, Row

(* A handler that ends or never wrote leaves the tables consistent.        *)
LEMMA IdleKeeps ==
  ASSUME IngestInv, pc' = "idle",
         UNCHANGED <<sensor_readings, ingest_batches, audit_logs, last_seen, fired, accepted>>
  PROVE  (RowsInv /\ WorkInv /\ MarkedIsStored /\ LastSeenBacked)'
  BY DEF IngestInv, RowsInv, WorkInv, MarkedIsStored, LastSeenBacked, RowsOf, Writing

(* The steps of the handler.                                               *)
LEMMA HandlerKeeps ==
  ASSUME IngestInv, HandlerStep
  PROVE  (RowsInv /\ WorkInv /\ MarkedIsStored /\ LastSeenBacked)'
  <1> USE DEF tables
  <1>t. device \in Nat /\ 1 <= device /\ device <= Devices /\ Devices \in Nat
    BY Constants DEF IngestInv, TypeOK
  <1>1. CASE InsertReading
    <2>1. /\ pc = "insert" /\ pc' = "touch" /\ sensor_readings' = sensor_readings \cup {Row(device)}
          /\ UNCHANGED <<ingest_batches, audit_logs, last_seen, fired, accepted, batch, at, device>>
      BY <1>1, InsertOnlyAdds DEF InsertReading
    <2>2. /\ at = (IF batch \in Uploads THEN ReceivedAt(batch) ELSE fired) /\ at # 0
          /\ at \in Times /\ fired \in 0..MaxTime
          /\ \A d \in 1..Devices : d < device => Row(d) \in sensor_readings
      BY <2>1 DEF IngestInv, WorkInv, Writing, TypeOK
    <2>3. Row(device).device = device /\ Row(device).at = at /\ Row(device).batch = batch
      BY DEF Row
    <2>4. RowsInv'
      <3>1. \A r \in sensor_readings :
              /\ IF r.batch \in Uploads THEN r.at = ReceivedAt(r.batch) ELSE r.at \in 1..fired
              /\ r.at = at => r.batch = batch
        BY <2>1 DEF IngestInv, RowsInv, Writing
      <3>2. IF batch \in Uploads THEN at = ReceivedAt(batch) ELSE at \in 1..fired
        BY <2>2, Constants
      <3>3. QED
        BY <2>1, <2>3, <3>1, <3>2 DEF RowsInv
    <2>5. \A d \in 1..Devices : d <= device => Row(d) \in sensor_readings'
      BY <1>t, <2>1, <2>2
    <2>6. WorkInv'
      BY <2>1, <2>2, <2>5 DEF IngestInv, WorkInv, Writing, Row
    <2>7. MarkedIsStored' /\ LastSeenBacked'
      BY <2>1 DEF IngestInv, MarkedIsStored, LastSeenBacked, RowsOf
    <2>8. QED
      BY <2>4, <2>6, <2>7
  <1>2. CASE InsertThrows
    BY <1>2, IdleKeeps DEF InsertThrows
  <1>3. CASE TouchDevice
    <2>1. /\ pc = "touch" /\ last_seen' = [last_seen EXCEPT ![device] = at]
          /\ pc' = (IF device = Devices THEN "mark" ELSE "insert")
          /\ device' = (IF device = Devices THEN device ELSE device + 1)
          /\ UNCHANGED <<sensor_readings, ingest_batches, audit_logs, fired, accepted, batch, at>>
      BY <1>3 DEF TouchDevice
    <2>2. \A d \in 1..Devices : d <= device => Row(d) \in sensor_readings
      BY <2>1 DEF IngestInv, WorkInv
    <2>3. RowsInv'
      BY <2>1 DEF IngestInv, RowsInv, Writing
    <2>4. pc' = "insert" => \A d \in 1..Devices : d < device' => Row(d) \in sensor_readings
      BY <1>t, <2>1, <2>2
    <2>5. pc' = "mark" => \A d \in 1..Devices : Row(d) \in sensor_readings
      BY <1>t, <2>1, <2>2
    <2>6. WorkInv'
      BY <2>1, <2>4, <2>5 DEF IngestInv, WorkInv, Writing, Row
    <2>7. LastSeenBacked'
      <3>1. Row(device) \in sensor_readings /\ Row(device).device = device /\ Row(device).at = at
        BY <1>t, <2>2 DEF Row
      <3>2. last_seen \in [1..Devices -> Times]
        BY DEF IngestInv, TypeOK
      <3>3. QED
        BY <2>1, <3>1, <3>2 DEF IngestInv, LastSeenBacked
    <2>8. MarkedIsStored'
      BY <2>1 DEF IngestInv, MarkedIsStored, RowsOf
    <2>9. QED
      BY <2>3, <2>6, <2>7, <2>8
  <1>4. CASE MarkBatch
    <2>1. /\ pc = "mark" /\ pc' = "report" /\ ingest_batches' = ingest_batches \cup {batch}
          /\ UNCHANGED <<sensor_readings, audit_logs, last_seen, fired, accepted, batch, at, device>>
      BY <1>4 DEF MarkBatch
    <2>2. \A d \in 1..Devices : Row(d) \in RowsOf(batch) /\ Row(d).device = d
      BY <2>1 DEF IngestInv, WorkInv, RowsOf, Row
    <2>3. MarkedIsStored'
      BY <2>1, <2>2 DEF IngestInv, MarkedIsStored, RowsOf
    <2>4. RowsInv' /\ WorkInv' /\ LastSeenBacked'
      BY <2>1 DEF IngestInv, RowsInv, WorkInv, LastSeenBacked, Writing
    <2>5. QED
      BY <2>3, <2>4
  <1>5. CASE MakeReport
    BY <1>5 DEF MakeReport, IngestInv, RowsInv, WorkInv, MarkedIsStored, LastSeenBacked, RowsOf, Writing
  <1>6. CASE ReportThrows
    BY <1>6, IdleKeeps DEF ReportThrows
  <1>7. ASSUME NEW received \in BOOLEAN, AuditAndAnswer(received)
        PROVE  (RowsInv /\ WorkInv /\ MarkedIsStored /\ LastSeenBacked)'
    <2>1. /\ pc = "audit" /\ pc' = "idle" /\ audit_logs' = audit_logs \cup {batch}
          /\ accepted' \subseteq accepted \cup {batch}
          /\ UNCHANGED <<sensor_readings, ingest_batches, last_seen, fired>>
      BY <1>7 DEF AuditAndAnswer
    <2>2. batch \in ingest_batches
      BY <2>1 DEF IngestInv, WorkInv
    <2>3. QED
      BY <2>1, <2>2 DEF IngestInv, RowsInv, WorkInv, MarkedIsStored, LastSeenBacked, RowsOf, Writing
  <1>8. QED
    BY <1>1, <1>2, <1>3, <1>4, <1>5, <1>6, <1>7 DEF HandlerStep

-----------------------------------------------------------------------------
(* The invariant.                                                          *)

LEMMA InitIngest == Init => IngestInv
  <1>1. Init => TypeOK /\ BatchInv
    BY InitType DEF TypeInv
  <1>2. Init => RowsInv /\ WorkInv /\ MarkedIsStored /\ LastSeenBacked
    BY Constants DEF Init, RowsInv, WorkInv, MarkedIsStored, LastSeenBacked, Writing
  <1>3. QED
    BY <1>1, <1>2 DEF IngestInv

LEMMA NextIngest == ASSUME WithReceivedAt PROVE IngestInv /\ [Next]_vars => IngestInv'
  <1> SUFFICES ASSUME IngestInv, [Next]_vars
               PROVE  (RowsInv /\ WorkInv /\ MarkedIsStored /\ LastSeenBacked)'
    BY NextType DEF IngestInv, TypeInv
  <1> USE DEF tables
  <1>1. CASE HandlerStep
    BY <1>1, HandlerKeeps
  <1>2. CASE SimulatorTick
    <2>1. /\ tick < MaxTicks /\ fired < clock /\ fired' = clock /\ Begin(SimBatch(tick + 1), clock)
          /\ UNCHANGED <<tables, accepted>>
      BY <1>2 DEF SimulatorTick
    <2>2. SimBatch(tick + 1) \in Batches \ Uploads /\ fired \in 0..MaxTime /\ fired' \in 0..MaxTime
      BY <2>1, SimulatorIds DEF IngestInv, TypeOK
    <2>3. (RowsInv /\ WorkInv)'
      BY <2>1, <2>2, BegunFresh
    <2>4. (MarkedIsStored /\ LastSeenBacked)'
      BY <2>1 DEF IngestInv, MarkedIsStored, LastSeenBacked, RowsOf
    <2>5. QED
      BY <2>3, <2>4
  <1>3. CASE CrashRestart
    BY <1>3, IdleKeeps DEF CrashRestart
  <1>4. ASSUME NEW b \in Uploads, BeginUpload(b)
        PROVE  (RowsInv /\ WorkInv /\ MarkedIsStored /\ LastSeenBacked)'
    <2>1. /\ Begin(b, ReceivedAt(b)) /\ UNCHANGED <<tables, fired, accepted>>
      BY <1>4 DEF BeginUpload
    <2>2. b \in Batches /\ fired \in 0..MaxTime
      BY Constants DEF IngestInv, TypeOK
    <2>3. (RowsInv /\ WorkInv)'
      BY <2>1, <2>2, BegunFresh
    <2>4. (MarkedIsStored /\ LastSeenBacked)'
      BY <2>1 DEF IngestInv, MarkedIsStored, LastSeenBacked, RowsOf
    <2>5. QED
      BY <2>3, <2>4
  <1>5. CASE Millisecond \/ \E b \in Uploads : Upload(b) \/ LoseUpload(b)
    BY <1>5, WaitingSteps, WaitsKeep
  <1>6. CASE UNCHANGED vars
    BY <1>6, WaitsKeep DEF vars, Waits
  <1>7. QED
    BY <1>1, <1>2, <1>3, <1>4, <1>5, <1>6 DEF Next

LEMMA IngestHolds == ASSUME WithReceivedAt PROVE Spec => []IngestInv
  BY InitIngest, NextIngest, PTL DEF Spec

-----------------------------------------------------------------------------
(* The safety properties.                                                  *)

(* A recorded batch id means a stored batch, so no retry of a half-stored  *)
(* batch is taken for a duplicate (db.ts:284-300).                         *)
THEOREM MarkedBatchesAreStored == ASSUME WithReceivedAt PROVE Spec => []MarkedIsStored
  <1>1. IngestInv => MarkedIsStored
    BY DEF IngestInv
  <1>2. QED
    BY <1>1, IngestHolds, PTL

(* What was answered as accepted is stored and audited (http.ts:232-249).  *)
THEOREM AcceptedBatchesAreStored == ASSUME WithReceivedAt PROVE Spec => []AcceptedIsStored
  <1>1. IngestInv => AcceptedIsStored
    BY DEF IngestInv, WorkInv, MarkedIsStored, AcceptedIsStored
  <1>2. QED
    BY <1>1, IngestHolds, PTL

(* Retries store no reading twice (docs/acceptance/backend-checklist.md),  *)
(* because the retry carries the time of the first upload.                 *)
THEOREM RetriesStoreOnce == ASSUME WithReceivedAt PROVE Spec => []NoDuplicateReadings
  <1>1. IngestInv => NoDuplicateReadings
    <2> SUFFICES ASSUME IngestInv, NEW b \in Uploads, NEW r \in RowsOf(b), NEW q \in RowsOf(b),
                        r.device = q.device
                 PROVE  r = q
      BY DEF NoDuplicateReadings
    <2>1. r.batch = b /\ q.batch = b /\ r.at = ReceivedAt(b) /\ q.at = ReceivedAt(b)
      BY DEF RowsOf, IngestInv, RowsInv
    <2>2. /\ r \in [device : 1..Devices, at : Times, batch : Batches]
          /\ q \in [device : 1..Devices, at : Times, batch : Batches]
      BY DEF RowsOf, IngestInv, TypeOK
    <2>3. QED
      BY <2>1, <2>2
  <1>2. QED
    BY <1>1, IngestHolds, PTL

(* devices.last_seen is the time of a stored reading (db.ts:248-270).      *)
THEOREM LastSeenIsBacked == ASSUME WithReceivedAt PROVE Spec => []LastSeenBacked
  <1>1. IngestInv => LastSeenBacked
    BY DEF IngestInv
  <1>2. QED
    BY <1>1, IngestHolds, PTL
=============================================================================
