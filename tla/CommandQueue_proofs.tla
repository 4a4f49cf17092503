------------------------- MODULE CommandQueue_proofs -------------------------
(* Proofs about CommandQueue: typing, the finality of outcomes, and that   *)
(* the table implements the dispatch queue.                                *)
EXTENDS CommandQueue, TLAPS

(* What each statement leaves in the table, row by row (db.ts:302-348).    *)
LEMMA RowCreated ==
  ASSUME TypeOK, NEW c \in Ids, NEW t \in 1..MaxTime, CreateCommand(c, t)
  PROVE  /\ \A d \in Ids : d # c => control_commands'[d] = control_commands[d]
         /\ control_commands'[c].status = "pending"
         /\ control_commands'[c].created_at = t
         /\ ~control_commands'[c].pulled_at
  BY DEF TypeOK, CreateCommand

LEMMA RowMarked ==
  ASSUME TypeOK, NEW c \in Ids, PullMark(c)
  PROVE  /\ \A d \in Ids : d # c => control_commands'[d] = control_commands[d]
         /\ control_commands'[c].status = "pulled"
         /\ control_commands'[c].created_at = control_commands[c].created_at
         /\ control_commands'[c].pulled_at
  <1>1. \A d \in Ids : d # c => control_commands'[d] = control_commands[d]
    BY DEF TypeOK, PullMark
  <1>2. control_commands'[c] =
          [[control_commands[c] EXCEPT !.status = "pulled"] EXCEPT !.pulled_at = TRUE]
    BY DEF TypeOK, PullMark
  <1>3. control_commands[c] \in [status : Statuses, created_at : 0..MaxTime, pulled_at : BOOLEAN]
    BY DEF TypeOK
  <1>4. QED
    BY <1>1, <1>2, <1>3

LEMMA RowSet ==
  ASSUME TypeOK, NEW c \in Ids, NEW s, SetStatus(c, s)
  PROVE  /\ \A d \in Ids : d # c => control_commands'[d] = control_commands[d]
         /\ control_commands'[c].status = s
         /\ control_commands'[c].created_at = control_commands[c].created_at
         /\ control_commands'[c].pulled_at = control_commands[c].pulled_at
  BY DEF TypeOK, SetStatus

-----------------------------------------------------------------------------
(* Typing.                                                                 *)

LEMMA InitType == Init => TypeOK
  <1> SUFFICES ASSUME Init PROVE TypeOK
    OBVIOUS
  <1>1. 0 \in 0..MaxTime /\ "absent" \in Statuses
    BY CommandAssumption DEF Statuses
  <1>2. control_commands \in
          [Ids -> [status : Statuses, created_at : 0..MaxTime, pulled_at : BOOLEAN]]
    BY <1>1 DEF Init
  <1>3. QED
    BY <1>2 DEF Init, TypeOK

LEMMA NextType == TypeOK /\ [Next]_vars => TypeOK'
  <1> SUFFICES ASSUME TypeOK, [Next]_vars PROVE TypeOK'
    OBVIOUS
  <1> USE CommandAssumption DEF TypeOK, Statuses
  <1>1. CASE UNCHANGED vars
    BY <1>1 DEF vars, pullVars
  <1>2. ASSUME NEW c \in Ids, NEW t \in 1..MaxTime, CreateCommand(c, t) PROVE TypeOK'
    BY <1>2 DEF CreateCommand, pullVars
  <1>3. CASE PullSelect
    BY <1>3 DEF PullSelect
  <1>4. ASSUME NEW c \in Ids, PullMark(c) PROVE TypeOK'
    <2>1. rows' = rows \ {c} /\ marked' = marked \cup {c} /\ UNCHANGED <<pulling, station, acks>>
      BY <1>4 DEF PullMark
    <2> DEFINE row == [[control_commands[c] EXCEPT !.status = "pulled"] EXCEPT !.pulled_at = TRUE]
    <2>2. control_commands' = [control_commands EXCEPT ![c] = row]
      BY <1>4 DEF PullMark
    <2>3. row \in [status : Statuses, created_at : 0..MaxTime, pulled_at : BOOLEAN]
      <3>1. control_commands[c] \in [status : Statuses, created_at : 0..MaxTime, pulled_at : BOOLEAN]
        OBVIOUS
      <3>2. QED
        BY <3>1
    <2> HIDE DEF row
    <2>4. control_commands' \in
            [Ids -> [status : Statuses, created_at : 0..MaxTime, pulled_at : BOOLEAN]]
      BY <2>2, <2>3
    <2>5. QED
      BY <2>1, <2>4
  <1>5. ASSUME NEW received \in BOOLEAN, PullRespond(received) PROVE TypeOK'
    BY <1>5 DEF PullRespond
  <1>6. CASE CrashRestart
    BY <1>6 DEF CrashRestart
  <1>7. ASSUME NEW c \in Ids, NEW s \in AckStatuses, AcknowledgeCommand(c, s) PROVE TypeOK'
    BY <1>7 DEF AcknowledgeCommand, SetStatus, pullVars
  <1>8. ASSUME NEW c \in Ids, CancelCommand(c) PROVE TypeOK'
    BY <1>8 DEF CancelCommand, SetStatus, pullVars
  <1>9. ASSUME NEW c \in Ids, SendAck(c) PROVE TypeOK'
    BY <1>9 DEF SendAck, pullVars
  <1>10. ASSUME NEW c \in Ids, NEW to \in {"sent", "executed", "failed"}, Execute(c, to) PROVE TypeOK'
    BY <1>10 DEF Execute, pullVars
  <1>11. ASSUME NEW m \in acks, LoseAck(m) PROVE TypeOK'
    BY <1>11 DEF LoseAck, pullVars
  <1> HIDE DEF TypeOK, Statuses
  <1>12. QED
    BY <1>1, <1>2, <1>3, <1>4, <1>5, <1>6, <1>7, <1>8, <1>9, <1>10, <1>11 DEF Next, PullStep

(* Every variable keeps its type, for all numbers of commands and times    *)
(* and every set of acknowledged statuses (db.ts:302-348).                 *)
THEOREM TypeCorrect == Spec => []TypeOK
  BY InitType, NextType, PTL DEF Spec

-----------------------------------------------------------------------------
(* The table, the pull being served and the station agree.                 *)

LEMMA InitQueue == Init => QueueInv
  <1>1. Init => PullInv
    BY DEF Init, PullInv, Status
  <1>2. Init => StationInv
    BY DEF Init, StationInv, Status
  <1>3. QED
    BY InitType, <1>1, <1>2 DEF QueueInv

LEMMA PullKept == QueueInv /\ [Next]_vars => PullInv'
  <1> SUFFICES ASSUME QueueInv, [Next]_vars PROVE PullInv'
    OBVIOUS
  <1> TypeOK /\ PullInv /\ StationInv
    BY DEF QueueInv
  <1> USE DEF PullInv, Status
  <1>1. CASE UNCHANGED vars
    BY <1>1 DEF vars, pullVars
  <1>2. ASSUME NEW c \in Ids, NEW t \in 1..MaxTime, CreateCommand(c, t) PROVE PullInv'
    BY <1>2, RowCreated DEF TypeOK, CreateCommand, pullVars
  <1>3. CASE PullSelect
    BY <1>3 DEF TypeOK, PullSelect
  <1>4. ASSUME NEW c \in Ids, PullMark(c) PROVE PullInv'
    <2>1. c \in rows /\ pulling /\ pulling' /\ rows' = rows \ {c} /\ marked' = marked \cup {c}
          /\ station' = station /\ rows \subseteq Ids /\ marked \subseteq Ids
      BY <1>4 DEF TypeOK, PullMark
    <2>2. station[c] = "none"
      BY <2>1 DEF StationInv
    <2>3. \A d \in Ids : d \in rows' <=> pulling' /\ Status(d)' = "pending"
      BY <1>4, <2>1, RowMarked
    <2>4. QED
      BY <1>4, <2>1, <2>2, <2>3, RowMarked
  <1>5. ASSUME NEW received \in BOOLEAN, PullRespond(received) PROVE PullInv'
    BY <1>5 DEF TypeOK, PullRespond
  <1>6. CASE CrashRestart
    BY <1>6 DEF CrashRestart
  <1>7. ASSUME NEW c \in Ids, NEW s \in AckStatuses, AcknowledgeCommand(c, s) PROVE PullInv'
    BY <1>7, RowSet, CommandAssumption DEF TypeOK, AcknowledgeCommand, pullVars
  <1>8. ASSUME NEW c \in Ids, CancelCommand(c) PROVE PullInv'
    BY <1>8, RowSet DEF TypeOK, CancelCommand, pullVars
  <1>9. ASSUME NEW c \in Ids, SendAck(c) PROVE PullInv'
    BY <1>9 DEF SendAck, pullVars
  <1>10. ASSUME NEW c \in Ids, NEW to \in {"sent", "executed", "failed"}, Execute(c, to) PROVE PullInv'
    BY <1>10 DEF TypeOK, Execute, pullVars
  <1>11. ASSUME NEW m \in acks, LoseAck(m) PROVE PullInv'
    BY <1>11 DEF LoseAck, pullVars
  <1> HIDE DEF PullInv, Status
  <1>12. QED
    BY <1>1, <1>2, <1>3, <1>4, <1>5, <1>6, <1>7, <1>8, <1>9, <1>10, <1>11 DEF Next, PullStep

LEMMA StationKept == QueueInv /\ [Next]_vars => StationInv'
  <1> SUFFICES ASSUME QueueInv, [Next]_vars PROVE StationInv'
    OBVIOUS
  <1> TypeOK /\ PullInv /\ StationInv
    BY DEF QueueInv
  <1> USE DEF StationInv, Status
  <1>1. CASE UNCHANGED vars
    BY <1>1 DEF vars, pullVars
  <1>2. ASSUME NEW c \in Ids, NEW t \in 1..MaxTime, CreateCommand(c, t) PROVE StationInv'
    BY <1>2, RowCreated DEF TypeOK, CreateCommand, pullVars
  <1>3. CASE PullSelect
    BY <1>3 DEF TypeOK, PullSelect
  <1>4. ASSUME NEW c \in Ids, PullMark(c) PROVE StationInv'
    <2>1. c \in rows /\ station' = station /\ acks' = acks
      BY <1>4 DEF PullMark
    <2>2. control_commands'[c].status = "pulled" /\ control_commands'[c].pulled_at
      BY <1>4, RowMarked
    <2>3. \A d \in Ids : d # c => control_commands'[d] = control_commands[d]
      BY <1>4, RowMarked
    <2>4. ASSUME NEW d \in Ids
          PROVE  /\ station'[d] # "none" =>
                      control_commands'[d].pulled_at /\ Status(d)' \notin {"absent", "pending"}
                 /\ Status(d)' \in {"absent", "pending"} => ~control_commands'[d].pulled_at
      <3>1. CASE d = c
        BY <2>2, <3>1
      <3>2. CASE d # c
        BY <2>1, <2>3, <3>2
      <3>3. QED
        BY <3>1, <3>2
    <2>5. QED
      BY <2>1, <2>4
  <1>5. ASSUME NEW received \in BOOLEAN, PullRespond(received) PROVE StationInv'
    BY <1>5 DEF TypeOK, PullInv, PullRespond
  <1>6. CASE CrashRestart
    BY <1>6 DEF CrashRestart
  <1>7. ASSUME NEW c \in Ids, NEW s \in AckStatuses, AcknowledgeCommand(c, s) PROVE StationInv'
    BY <1>7, RowSet, CommandAssumption DEF TypeOK, AcknowledgeCommand, pullVars
  <1>8. ASSUME NEW c \in Ids, CancelCommand(c) PROVE StationInv'
    BY <1>8, RowSet DEF TypeOK, CancelCommand, pullVars
  <1>9. ASSUME NEW c \in Ids, SendAck(c) PROVE StationInv'
    BY <1>9, CommandAssumption DEF TypeOK, SendAck, pullVars
  <1>10. ASSUME NEW c \in Ids, NEW to \in {"sent", "executed", "failed"}, Execute(c, to) PROVE StationInv'
    BY <1>10 DEF TypeOK, Execute, pullVars, Outcomes
  <1>11. ASSUME NEW m \in acks, LoseAck(m) PROVE StationInv'
    BY <1>11 DEF LoseAck, pullVars
  <1> HIDE DEF StationInv, Status
  <1>12. QED
    BY <1>1, <1>2, <1>3, <1>4, <1>5, <1>6, <1>7, <1>8, <1>9, <1>10, <1>11 DEF Next, PullStep

LEMMA NextQueue == QueueInv /\ [Next]_vars => QueueInv'
  BY NextType, PullKept, StationKept DEF QueueInv

-----------------------------------------------------------------------------
(* Outcomes.                                                               *)

LEMMA InitOutcome == Init => OutcomeInv
  BY DEF Init, OutcomeInv, Outcomes, Status

LEMMA NextOutcome == QueueInv /\ OutcomeInv /\ [Next]_vars => OutcomeInv'
  <1> SUFFICES ASSUME QueueInv, OutcomeInv, [Next]_vars PROVE OutcomeInv'
    OBVIOUS
  <1> TypeOK /\ PullInv /\ StationInv
    BY DEF QueueInv
  <1> USE DEF OutcomeInv, Outcomes, Status
  <1>1. CASE UNCHANGED vars
    BY <1>1 DEF vars, pullVars
  <1>2. ASSUME NEW c \in Ids, NEW t \in 1..MaxTime, CreateCommand(c, t) PROVE OutcomeInv'
    BY <1>2, RowCreated DEF TypeOK, CreateCommand, pullVars
  <1>3. CASE PullSelect
    BY <1>3 DEF TypeOK, PullSelect
  <1>4. ASSUME NEW c \in Ids, PullMark(c) PROVE OutcomeInv'
    BY <1>4, RowMarked DEF TypeOK, PullMark
  <1>5. ASSUME NEW received \in BOOLEAN, PullRespond(received) PROVE OutcomeInv'
    BY <1>5 DEF TypeOK, PullInv, StationInv, PullRespond
  <1>6. CASE CrashRestart
    BY <1>6 DEF CrashRestart
  <1>7. ASSUME NEW c \in Ids, NEW s \in AckStatuses, AcknowledgeCommand(c, s) PROVE OutcomeInv'
    BY <1>7, RowSet DEF TypeOK, AcknowledgeCommand, pullVars
  <1>8. ASSUME NEW c \in Ids, CancelCommand(c) PROVE OutcomeInv'
    BY <1>8, RowSet DEF TypeOK, CancelCommand, pullVars
  <1>9. ASSUME NEW c \in Ids, SendAck(c) PROVE OutcomeInv'
    BY <1>9 DEF TypeOK, SendAck, pullVars
  <1>10. ASSUME NEW c \in Ids, NEW to \in {"sent", "executed", "failed"}, Execute(c, to) PROVE OutcomeInv'
    BY <1>10 DEF TypeOK, Execute, pullVars
  <1>11. ASSUME NEW m \in acks, LoseAck(m) PROVE OutcomeInv'
    BY <1>11 DEF LoseAck, pullVars
  <1> HIDE DEF OutcomeInv, Outcomes, Status
  <1>12. QED
    BY <1>1, <1>2, <1>3, <1>4, <1>5, <1>6, <1>7, <1>8, <1>9, <1>10, <1>11 DEF Next, PullStep

(* Whichever statuses the station acknowledges with, and whichever of its  *)
(* acknowledgements are late, lost or repeated: a recorded outcome is the  *)
(* station's own, and only a "sent" that was still on its way overwrites   *)
(* it, never a cancel or the other outcome (db.ts:331-348, http.ts:284).   *)
THEOREM OutcomesAreFinal == Spec => OutcomeStays
  <1> DEFINE Kept == \A c \in Ids : Status(c) \in Outcomes =>
                       /\ station[c] = Status(c)
                       /\ Status(c)' = Status(c) \/ (Status(c)' = "sent" /\ <<c, "sent">> \in acks)
  <1>1. QueueInv /\ OutcomeInv /\ [Next]_vars => [Kept]_vars
    <2> SUFFICES ASSUME QueueInv, OutcomeInv, Next PROVE Kept
      OBVIOUS
    <2> TypeOK /\ PullInv /\ StationInv
      BY DEF QueueInv
    <2> \A c \in Ids : Status(c) \in Outcomes => station[c] = Status(c)
      BY DEF OutcomeInv
    <2> USE DEF Status, Outcomes
    <2>1. ASSUME NEW c \in Ids, NEW t \in 1..MaxTime, CreateCommand(c, t) PROVE Kept
      BY <2>1, RowCreated DEF CreateCommand
    <2>2. ASSUME NEW c \in Ids, PullMark(c) PROVE Kept
      BY <2>2, RowMarked DEF PullMark, PullInv
    <2>3. ASSUME NEW c \in Ids, NEW s \in AckStatuses, AcknowledgeCommand(c, s) PROVE Kept
      <3>1. \A d \in Ids : d # c => Status(d)' = Status(d)
        BY <2>3, RowSet DEF AcknowledgeCommand
      <3>2. Status(c)' = s /\ <<c, s>> \in acks
        BY <2>3, RowSet DEF AcknowledgeCommand
      <3>3. s \in {"sent", "executed", "failed"} /\ (s \in Outcomes => station[c] = s)
        BY <3>2, CommandAssumption DEF OutcomeInv
      <3>4. QED
        BY <3>1, <3>2, <3>3
    <2>4. ASSUME NEW c \in Ids, CancelCommand(c) PROVE Kept
      BY <2>4, RowSet DEF CancelCommand
    <2>5. CASE UNCHANGED control_commands
      BY <2>5
    <2> HIDE DEF Status, Outcomes, Kept
    <2>6. QED
      BY <2>1, <2>2, <2>3, <2>4, <2>5
         DEF Next, PullStep, PullSelect, PullRespond, CrashRestart, SendAck, Execute, LoseAck
  <1>2. Spec => []QueueInv
    BY InitQueue, NextQueue, PTL DEF Spec
  <1>3. Init => OutcomeInv
    BY InitOutcome
  <1>4. QueueInv /\ OutcomeInv /\ [Next]_vars => OutcomeInv'
    BY NextOutcome
  <1>5. QED
    BY <1>1, <1>2, <1>3, <1>4, PTL DEF Spec, OutcomeStays

-----------------------------------------------------------------------------
(* The clock does not step back: ids, times and the order of a pull agree. *)

LEMMA InitOrder == Init => OrderInv
  BY DEF Init, OrderInv, Status

LEMMA NextOrder ==
  ASSUME ~ClockMayStepBack
  PROVE  QueueInv /\ OrderInv /\ [Next]_vars => OrderInv'
  <1> SUFFICES ASSUME QueueInv, OrderInv, [Next]_vars PROVE OrderInv'
    OBVIOUS
  <1> TypeOK
    BY DEF QueueInv
  <1> USE ~ClockMayStepBack DEF OrderInv, Status
  <1>1. ASSUME NEW c \in Ids, NEW t \in 1..MaxTime, CreateCommand(c, t) PROVE OrderInv'
    <2>1. \A d \in Ids : /\ d < c => Status(d) # "absent"
                         /\ c < d => Status(d) = "absent"
                         /\ control_commands[d].created_at <= t
      BY <1>1 DEF CreateCommand
    <2>2. \A d \in Ids : d # c => /\ control_commands'[d] = control_commands[d]
                                 /\ Status(d)' = Status(d)
      BY <1>1, RowCreated
    <2>3. control_commands'[c].created_at = t /\ Status(c)' = "pending"
      BY <1>1, RowCreated
    <2>4. \A d \in Ids : Status(d)' = "absent" => control_commands'[d].created_at = 0
      BY <2>2, <2>3
    <2>5. ASSUME NEW d \in Ids, NEW e \in Ids, e < d, Status(d)' # "absent"
          PROVE  /\ Status(e)' # "absent"
                 /\ control_commands'[e].created_at <= control_commands'[d].created_at
      <3>1. CASE d = c
        BY <2>1, <2>2, <2>3, <2>5, <3>1 DEF Ids
      <3>2. CASE d # c
        <4>1. Status(d) # "absent" /\ d < c
          BY <2>1, <2>2, <2>5, <3>2 DEF Ids
        <4>2. e # c
          BY <2>5, <4>1 DEF Ids
        <4>3. QED
          BY <2>2, <2>5, <3>2, <4>1, <4>2
      <3>3. QED
        BY <3>1, <3>2
    <2>6. QED
      BY <2>4, <2>5
  <1>2. ASSUME NEW c \in Ids, PullMark(c) PROVE OrderInv'
    <2>1. \A d \in Ids : /\ control_commands'[d].created_at = control_commands[d].created_at
                         /\ Status(d)' = "absent" <=> Status(d) = "absent"
      BY <1>2, RowMarked DEF PullMark, QueueInv, PullInv
    <2>2. QED
      BY <2>1
  <1>3. ASSUME NEW c \in Ids, NEW s, s # "absent", Status(c) # "absent", SetStatus(c, s) PROVE OrderInv'
    <2>1. \A d \in Ids : /\ control_commands'[d].created_at = control_commands[d].created_at
                         /\ Status(d)' = "absent" <=> Status(d) = "absent"
      BY <1>3, RowSet
    <2>2. QED
      BY <2>1
  <1>4. CASE UNCHANGED control_commands
    BY <1>4
  <1>5. ASSUME NEW c \in Ids, NEW s \in AckStatuses, AcknowledgeCommand(c, s) PROVE OrderInv'
    <2>1. Status(c) # "absent" /\ s # "absent"
      BY <1>5, CommandAssumption DEF AcknowledgeCommand, QueueInv, StationInv
    <2>2. QED
      BY <1>3, <1>5, <2>1 DEF AcknowledgeCommand
  <1>6. ASSUME NEW c \in Ids, CancelCommand(c) PROVE OrderInv'
    BY <1>3, <1>6 DEF CancelCommand
  <1> HIDE DEF OrderInv, Status
  <1>7. QED
    BY <1>1, <1>2, <1>4, <1>5, <1>6
       DEF Next, PullStep, PullSelect, PullRespond, CrashRestart, SendAck, Execute, LoseAck, vars

(* The oldest row of a pull is the one with the least id.                  *)
LEMMA OldestIsFirst ==
  ASSUME QueueInv, OrderInv, NEW c \in Ids, PullMark(c), NEW d \in Ids, d < c
  PROVE  Status(d) # "pending"
  <1> SUFFICES ASSUME Status(d) = "pending" PROVE FALSE
    OBVIOUS
  <1>1. pulling /\ c \in rows /\ d \in rows /\ d # c
    BY DEF PullMark, QueueInv, PullInv, Ids
  <1>2. Before(c, d)
    BY <1>1 DEF PullMark
  <1>3. Status(c) # "absent"
    BY <1>1 DEF QueueInv, PullInv
  <1>4. control_commands[d].created_at <= control_commands[c].created_at
    BY <1>3 DEF OrderInv
  <1>5. control_commands[d].created_at \in Int /\ control_commands[c].created_at \in Int
    BY DEF QueueInv, TypeOK
  <1>6. QED
    BY <1>2, <1>4, <1>5 DEF Before, Ids

-----------------------------------------------------------------------------
(* The table implements the dispatch queue.                                *)

places == [c \in Ids |-> Place(c)]

(* The place of a command depends on its status only as far as it is       *)
(* absent, pending or neither.                                             *)
LEMMA PlaceStays ==
  ASSUME NEW c \in Ids,
         \/ Status(c)' = Status(c)
         \/ Status(c) \notin {"absent", "pending"} /\ Status(c)' \notin {"absent", "pending"},
         control_commands'[c].pulled_at = control_commands[c].pulled_at,
         c \in marked' <=> c \in marked,
         station'[c] = "none" <=> station[c] = "none"
  PROVE  Place(c)' = Place(c)
  BY DEF Place, Status

LEMMA StepSubmits ==
  ASSUME QueueInv, NEW c \in Ids, NEW t \in 1..MaxTime, CreateCommand(c, t)
  PROVE  Queue!Submit(c)
  <1>1. TypeOK /\ marked' = marked /\ station' = station
    BY DEF CreateCommand, pullVars, QueueInv
  <1>2. Status(c) = "absent" /\ Status(c)' = "pending"
    BY <1>1, RowCreated DEF CreateCommand, Status
  <1>3. Place(c) = "none" /\ Place(c)' = "waiting"
    <2>1. /\ c \notin marked /\ station[c] = "none"
          /\ ~control_commands[c].pulled_at /\ ~control_commands'[c].pulled_at
      BY <1>1, <1>2, RowCreated DEF QueueInv, TypeOK, PullInv, StationInv
    <2>2. Place(c) = "none"
      BY <1>2, <2>1 DEF Place
    <2>3. Place(c)' = "waiting"
      BY <1>1, <1>2, <2>1 DEF Place
    <2>4. QED
      BY <2>2, <2>3
  <1>4. \A d \in Ids : d < c => Place(d) # "none"
    BY DEF Place, CreateCommand
  <1>5. \A d \in Ids : d # c => Place(d)' = Place(d)
    BY <1>1, RowCreated, PlaceStays DEF Status
  <1>6. QED
    BY <1>3, <1>4, <1>5 DEF Queue!Submit, Queue!Move

LEMMA StepTakes ==
  ASSUME QueueInv, NEW c \in Ids, PullMark(c)
  PROVE  Queue!TakeAny(c) /\ (OrderInv => Queue!Take(c))
  <1>1. TypeOK /\ marked' = marked \cup {c} /\ station' = station
    BY DEF PullMark, QueueInv
  <1>2. Status(c) = "pending" /\ Status(c)' = "pulled"
    BY <1>1, RowMarked DEF PullMark, QueueInv, PullInv, Status
  <1>3. Place(c) = "waiting" /\ Place(c)' = "taken"
    <2>1. c \notin marked /\ station[c] = "none" /\ ~control_commands[c].pulled_at
      BY <1>1, <1>2 DEF QueueInv, TypeOK, PullInv, StationInv
    <2>2. Place(c) = "waiting"
      BY <1>2, <2>1 DEF Place
    <2>3. Place(c)' = "taken"
      BY <1>1, <1>2 DEF Place
    <2>4. QED
      BY <2>2, <2>3
  <1>4. \A d \in Ids : d # c => Place(d)' = Place(d)
    BY <1>1, RowMarked, PlaceStays DEF Status
  <1>5. Queue!TakeAny(c)
    BY <1>3, <1>4 DEF Queue!TakeAny, Queue!Move
  <1>6. ASSUME OrderInv PROVE \A d \in Ids : d < c => Place(d) # "waiting"
    BY <1>6, OldestIsFirst DEF Place
  <1>7. QED
    BY <1>5, <1>6 DEF Queue!Take, Queue!TakeAny

(* When the pull ends, what it marked leaves for the station or is lost.   *)
LEMMA TakenIsMarked ==
  ASSUME QueueInv
  PROVE  \A c \in Ids : Place(c) = "taken" <=> c \in marked
  BY DEF QueueInv, PullInv, Place

LEMMA StepDelivers ==
  ASSUME QueueInv, PullRespond(TRUE)
  PROVE  Queue!Deliver
  <1>1. control_commands' = control_commands /\ marked' = {}
    BY DEF PullRespond
  <1>2. \A c \in marked : Place(c)' = "delivered"
    BY <1>1 DEF PullRespond, QueueInv, TypeOK, PullInv, Place, Status
  <1>3. \A c \in Ids : c \notin marked => Place(c)' = Place(c)
    BY <1>1, PlaceStays DEF PullRespond, Status
  <1>4. QED
    BY <1>2, <1>3, TakenIsMarked DEF Queue!Deliver, Queue!Move, Queue!Taken

LEMMA StepLoses ==
  ASSUME QueueInv, PullRespond(FALSE) \/ CrashRestart
  PROVE  Queue!Lose
  <1>1. control_commands' = control_commands /\ marked' = {}
    BY DEF PullRespond, CrashRestart
  <1>2. \A c \in Ids : station'[c] = station[c]
    BY DEF PullRespond, CrashRestart
  <1>3. \A c \in marked : Place(c)' = "lost"
    BY <1>1, <1>2 DEF QueueInv, TypeOK, PullInv, Place, Status
  <1>4. \A c \in Ids : c \notin marked => Place(c)' = Place(c)
    BY <1>1, <1>2, PlaceStays DEF Status
  <1>5. QED
    BY <1>3, <1>4, TakenIsMarked DEF Queue!Lose, Queue!Move, Queue!Taken

LEMMA StepWithdraws ==
  ASSUME QueueInv, NEW c \in Ids, CancelCommand(c)
  PROVE  Queue!Withdraw(c) \/ UNCHANGED places
  <1>1. TypeOK /\ marked' = marked /\ station' = station
    BY DEF CancelCommand, pullVars, QueueInv
  <1>2. \A d \in Ids : d # c => Place(d)' = Place(d)
    BY <1>1, RowSet, PlaceStays DEF CancelCommand, Status
  <1>3. Status(c)' = "cancelled" /\ control_commands'[c].pulled_at = control_commands[c].pulled_at
    BY <1>1, RowSet DEF CancelCommand, Status
  <1>4. CASE Status(c) = "pending"
    <2>1. c \notin marked /\ station[c] = "none" /\ ~control_commands[c].pulled_at
      BY <1>4 DEF QueueInv, TypeOK, PullInv, StationInv
    <2>2. Place(c) = "waiting" /\ Place(c)' = "withdrawn"
      BY <1>1, <1>3, <1>4, <2>1 DEF Place
    <2>3. QED
      BY <1>2, <2>2 DEF Queue!Withdraw, Queue!Move
  <1>5. CASE Status(c) = "pulled"
    <2>1. Place(c)' = Place(c)
      BY <1>1, <1>3, <1>5, PlaceStays
    <2>2. QED
      BY <1>2, <2>1 DEF places
  <1>6. QED
    BY <1>4, <1>5 DEF CancelCommand

LEMMA StepAcknowledges ==
  ASSUME QueueInv, NEW c \in Ids, NEW s \in AckStatuses, AcknowledgeCommand(c, s)
  PROVE  UNCHANGED places
  <1>1. TypeOK /\ marked' = marked /\ station' = station
    BY DEF AcknowledgeCommand, pullVars, QueueInv
  <1>2. Status(c) \notin {"absent", "pending"} /\ Status(c)' = s /\ s \notin {"absent", "pending"}
    BY <1>1, RowSet, CommandAssumption DEF AcknowledgeCommand, QueueInv, StationInv, Status
  <1>3. \A d \in Ids : Place(d)' = Place(d)
    BY <1>1, <1>2, RowSet, PlaceStays DEF AcknowledgeCommand, Status
  <1>4. QED
    BY <1>3 DEF places

(* What the station does on its own moves no command in the queue.         *)
LEMMA StepOutside ==
  ASSUME QueueInv, control_commands' = control_commands, marked' = marked,
         \A c \in Ids : station'[c] = "none" <=> station[c] = "none"
  PROVE  UNCHANGED places
  <1>1. \A c \in Ids : Place(c)' = Place(c)
    BY PlaceStays DEF Status
  <1>2. QED
    BY <1>1 DEF places

LEMMA InitPlaces == Init => Queue!Init
  BY DEF Init, Queue!Init, Place, Status

(* A step that hands nothing out is one of either queue; one that does     *)
(* keeps the order as long as the clock has.                               *)
LEMMA StepPlaces ==
  QueueInv /\ [Next]_vars =>
    \/ Queue!AnyOrderNext /\ (OrderInv => Queue!Next)
    \/ UNCHANGED places
  <1> DEFINE Both == Queue!AnyOrderNext /\ (OrderInv => Queue!Next)
  <1> SUFFICES ASSUME QueueInv, [Next]_vars PROVE Both \/ UNCHANGED places
    OBVIOUS
  <1>1. CASE UNCHANGED vars
    BY <1>1, StepOutside DEF vars, pullVars
  <1>2. ASSUME NEW c \in Ids, NEW t \in 1..MaxTime, CreateCommand(c, t) PROVE Both
    BY <1>2, StepSubmits DEF Queue!Next, Queue!AnyOrderNext
  <1>3. CASE PullSelect
    <2>1. marked = {} /\ marked' = {}
      BY <1>3 DEF PullSelect, QueueInv, TypeOK, PullInv
    <2>2. QED
      BY <1>3, <2>1, StepOutside DEF PullSelect
  <1>4. ASSUME NEW c \in Ids, PullMark(c) PROVE Both
    BY <1>4, StepTakes DEF Queue!Next, Queue!AnyOrderNext
  <1>5. CASE PullRespond(TRUE)
    BY <1>5, StepDelivers DEF Queue!Next, Queue!AnyOrderNext
  <1>6. CASE PullRespond(FALSE) \/ CrashRestart
    BY <1>6, StepLoses DEF Queue!Next, Queue!AnyOrderNext
  <1>7. ASSUME NEW c \in Ids, NEW s \in AckStatuses, AcknowledgeCommand(c, s) PROVE UNCHANGED places
    BY <1>7, StepAcknowledges
  <1>8. ASSUME NEW c \in Ids, CancelCommand(c) PROVE Both \/ UNCHANGED places
    BY <1>8, StepWithdraws DEF Queue!Next, Queue!AnyOrderNext
  <1>9. ASSUME NEW c \in Ids, NEW to \in {"sent", "executed", "failed"}, Execute(c, to) PROVE UNCHANGED places
    <2>1. \A d \in Ids : station'[d] = "none" <=> station[d] = "none"
      BY <1>9 DEF Execute, QueueInv, TypeOK, Outcomes
    <2>2. QED
      BY <1>9, <2>1, StepOutside DEF Execute, pullVars
  <1>10. ASSUME NEW c \in Ids, SendAck(c) PROVE UNCHANGED places
    BY <1>10, StepOutside DEF SendAck, pullVars
  <1>11. ASSUME NEW m \in acks, LoseAck(m) PROVE UNCHANGED places
    BY <1>11, StepOutside DEF LoseAck, pullVars
  <1>12. QED
    BY <1>1, <1>2, <1>3, <1>4, <1>5, <1>6, <1>7, <1>8, <1>9, <1>10, <1>11 DEF Next, PullStep

(* As long as the server's clock does not step back, the table of commands *)
(* implements the dispatch queue: each command is handed out once at most, *)
(* oldest first, and never after it was cancelled while pending, through   *)
(* crashes of the server and lost answers (db.ts:302-348).                 *)
THEOREM CommandsAreDispatched ==
  ASSUME ~ClockMayStepBack
  PROVE  Spec => Dispatch
  <1>1. Init => QueueInv /\ OrderInv /\ Queue!Init
    BY InitQueue, InitOrder, InitPlaces
  <1>2. QueueInv /\ OrderInv /\ [Next]_vars => (QueueInv /\ OrderInv)'
    BY NextQueue, NextOrder, ~ClockMayStepBack
  <1>3. QueueInv /\ OrderInv /\ [Next]_vars => [Queue!Next]_places
    BY StepPlaces
  <1>4. QED
    BY <1>1, <1>2, <1>3, PTL DEF Spec, Dispatch, Queue!Spec, places

(* Whatever the server's clock does, the table implements the queue that   *)
(* promises no order: a command is handed out once at most, and never      *)
(* after it was cancelled while pending (db.ts:302-348).                   *)
THEOREM CommandsAreDispatchedOnce == Spec => DispatchAnyOrder
  <1>1. Init => QueueInv /\ Queue!Init
    BY InitQueue, InitPlaces
  <1>2. QueueInv /\ [Next]_vars => QueueInv'
    BY NextQueue
  <1>3. QueueInv /\ [Next]_vars => [Queue!AnyOrderNext]_places
    BY StepPlaces
  <1>4. QED
    BY <1>1, <1>2, <1>3, PTL DEF Spec, DispatchAnyOrder, Queue!AnyOrderSpec, places
=============================================================================
