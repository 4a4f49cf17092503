-------------------------- MODULE PatrolTasks_proofs --------------------------
(* Proofs about PatrolTasks, for any number of tasks and whatever statuses *)
(* operators ask for: typing, the life cycle, and that the table           *)
(* implements the dispatch queue.                                          *)
EXTENDS PatrolTasks, TLAPS

-----------------------------------------------------------------------------
(* What each statement leaves in the table, row by row (db.ts:350-412).    *)

Row == [status : Statuses \cup {"absent"}, pulled_at : BOOLEAN,
        started_at : BOOLEAN, finished_at : BOOLEAN]

LEMMA RowType ==
  ASSUME TypeOK
  PROVE  /\ patrol_tasks \in [Ids -> Row]
         /\ \A t \in Ids : /\ patrol_tasks[t] \in Row
                           /\ Status(t) \in Statuses \cup {"absent"}
                           /\ patrol_tasks[t].pulled_at \in BOOLEAN
                           /\ patrol_tasks[t].started_at \in BOOLEAN
                           /\ patrol_tasks[t].finished_at \in BOOLEAN
  BY DEF TypeOK, Row, Status

LEMMA RowCreated ==
  ASSUME TypeOK, NEW t \in Ids, CreatePatrolTask(t)
  PROVE  /\ \A u \in Ids : u # t => patrol_tasks'[u] = patrol_tasks[u]
         /\ patrol_tasks' \in [Ids -> Row]
         /\ Status(t)' = "pending"
         /\ patrol_tasks'[t].pulled_at = patrol_tasks[t].pulled_at
         /\ patrol_tasks'[t].started_at = patrol_tasks[t].started_at
         /\ patrol_tasks'[t].finished_at = patrol_tasks[t].finished_at
  <1>1. patrol_tasks' = [patrol_tasks EXCEPT ![t].status = "pending"] /\ "pending" \in Statuses
    BY DEF CreatePatrolTask, Statuses
  <1>2. QED
    BY <1>1, RowType DEF Row, Status

LEMMA RowMarked ==
  ASSUME TypeOK, NEW t \in Ids, PullMark(t)
  PROVE  /\ \A u \in Ids : u # t => patrol_tasks'[u] = patrol_tasks[u]
         /\ patrol_tasks' \in [Ids -> Row]
         /\ Status(t)' = "pulled"
         /\ patrol_tasks'[t].pulled_at
         /\ patrol_tasks'[t].started_at = patrol_tasks[t].started_at
         /\ patrol_tasks'[t].finished_at = patrol_tasks[t].finished_at
  <1>1. patrol_tasks' = [patrol_tasks EXCEPT ![t] =
          [[patrol_tasks[t] EXCEPT !.status = "pulled"] EXCEPT !.pulled_at = TRUE]]
    BY RowType DEF PullMark
  <1>2. "pulled" \in Statuses
    BY DEF Statuses
  <1>3. [[patrol_tasks[t] EXCEPT !.status = "pulled"] EXCEPT !.pulled_at = TRUE] \in Row
    BY <1>2, RowType DEF Row
  <1>4. QED
    BY <1>1, <1>2, <1>3, RowType DEF Row, Status

LEMMA RowUpdated ==
  ASSUME TypeOK, NEW m \in patches, NEW received \in BOOLEAN, UpdateStatus(m, received)
  PROVE  /\ m.task \in Ids /\ m.status \in Statuses
         /\ \A u \in Ids : u # m.task => patrol_tasks'[u] = patrol_tasks[u]
         /\ patrol_tasks' \in [Ids -> Row]
         /\ Status(m.task)' = m.status
         /\ patrol_tasks'[m.task].pulled_at = patrol_tasks[m.task].pulled_at
         /\ patrol_tasks'[m.task].started_at <=>
              patrol_tasks[m.task].started_at \/ m.status = "running"
         /\ patrol_tasks'[m.task].finished_at <=>
              patrol_tasks[m.task].finished_at \/ m.status \in {"completed", "failed"}
  <1>1. PICK t \in Ids, s \in Statuses : t = m.task /\ s = m.status
    BY DEF TypeOK
  <1> DEFINE r0 == patrol_tasks[t]
             r1 == [r0 EXCEPT !.status = s]
             r2 == [r1 EXCEPT !.started_at = r0.started_at \/ s = "running"]
             r3 == [r2 EXCEPT !.finished_at = r0.finished_at \/ s \in {"completed", "failed"}]
  <1>2. r0 \in Row
    BY RowType
  <1>3. /\ r1 \in Row /\ r1.status = s /\ r1.pulled_at = r0.pulled_at
        /\ r1.started_at = r0.started_at /\ r1.finished_at = r0.finished_at
    BY <1>2 DEF Row
  <1>4. /\ r2 \in Row /\ r2.status = s /\ r2.pulled_at = r0.pulled_at
        /\ r2.started_at = (r0.started_at \/ s = "running") /\ r2.finished_at = r0.finished_at
    BY <1>3 DEF Row
  <1>5. /\ r3 \in Row /\ r3.status = s /\ r3.pulled_at = r0.pulled_at
        /\ r3.started_at = (r0.started_at \/ s = "running")
        /\ r3.finished_at = (r0.finished_at \/ s \in {"completed", "failed"})
    BY <1>4 DEF Row
  <1>6. patrol_tasks' = [patrol_tasks EXCEPT ![t] = r3]
    BY <1>1, <1>2, <1>3, <1>4, RowType DEF UpdateStatus
  <1> HIDE DEF r0, r1, r2, r3
  <1>7. patrol_tasks'[t] = r3 /\ r0 = patrol_tasks[t]
    BY <1>6, RowType DEF r0
  <1>8. /\ \A u \in Ids : u # t => patrol_tasks'[u] = patrol_tasks[u]
        /\ patrol_tasks' \in [Ids -> Row]
    BY <1>5, <1>6, RowType
  <1>9. QED
    BY <1>1, <1>5, <1>7, <1>8 DEF Status

(* What the station makes of an answer: it starts a task it holds, ends or *)
(* gives up one it has, and learns of no new one.                          *)
LEMMA Learnt ==
  ASSUME TypeOK, NEW m \in patches, NEW accepted \in BOOLEAN, Learn(m, accepted)
  PROVE  /\ station' \in [Ids -> {"none", "holds", "running", "done", "dropped"}]
         /\ \A t \in Ids : /\ t # m.task => station'[t] = station[t]
                           /\ station'[t] = "none" <=> station[t] = "none"
                           /\ station'[t] = "running" =>
                                \/ station[t] = "running"
                                \/ t = m.task /\ accepted /\ m.status = "running"
  <1>1. m.task \in Ids /\ station \in [Ids -> {"none", "holds", "running", "done", "dropped"}]
    BY DEF TypeOK
  <1>2. QED
    BY <1>1 DEF Learn

(* The transitions the table allows (db.ts:392-399).                       *)
LEMMA Allowed ==
  ASSUME NEW s \in Statuses, NEW to \in allowed[s]
  PROVE  /\ s \notin Final
         /\ to \in Statuses \ {"pending"}
         /\ to = "pulled" => s = "pending"
         /\ to = "running" => s \in {"pending", "pulled"}
         /\ to = "cancelled" => s \in {"pending", "pulled"}
         /\ to = "completed" => s = "running"
         /\ to = "failed" => s \in {"pulled", "running"}
  BY DEF Statuses, Final, allowed

-----------------------------------------------------------------------------
(* Typing.                                                                 *)

LEMMA InitType == Init => TypeOK
  <1> SUFFICES ASSUME Init PROVE TypeOK
    OBVIOUS
  <1>1. patrol_tasks \in [Ids -> Row]
    <2>1. [status |-> "absent", pulled_at |-> FALSE, started_at |-> FALSE, finished_at |-> FALSE] \in Row
      BY DEF Row
    <2>2. QED
      BY <2>1 DEF Init
  <1>2. QED
    BY <1>1 DEF Init, TypeOK, Row

LEMMA NextType == TypeOK /\ [Next]_vars => TypeOK'
  <1> SUFFICES ASSUME TypeOK, [Next]_vars PROVE TypeOK'
    OBVIOUS
  <1>1. CASE UNCHANGED vars
    BY <1>1 DEF vars, pullVars, TypeOK
  <1>2. ASSUME NEW t \in Ids, CreatePatrolTask(t) PROVE TypeOK'
    BY <1>2, RowCreated DEF CreatePatrolTask, pullVars, TypeOK, Row
  <1>3. CASE PullSelect
    BY <1>3 DEF PullSelect, TypeOK
  <1>4. ASSUME NEW t \in Ids, PullMark(t) PROVE TypeOK'
    BY <1>4, RowMarked DEF PullMark, TypeOK, Row
  <1>5. ASSUME NEW received \in BOOLEAN, PullRespond(received) PROVE TypeOK'
    BY <1>5 DEF PullRespond, TypeOK
  <1>6. CASE CrashRestart
    BY <1>6 DEF CrashRestart, TypeOK
  <1>7. ASSUME NEW m \in patches, NEW received \in BOOLEAN, UpdateStatus(m, received) PROVE TypeOK'
    <2>1. station' \in [Ids -> {"none", "holds", "running", "done", "dropped"}]
      BY <1>7, Learnt DEF UpdateStatus, TypeOK
    <2>2. patches' \subseteq patches /\ UNCHANGED pullVars
      BY <1>7 DEF UpdateStatus
    <2>3. QED
      BY <1>7, <2>1, <2>2, RowUpdated DEF pullVars, TypeOK, Row
  <1>8. ASSUME NEW m \in patches, NEW received \in BOOLEAN, RejectStatus(m, received) PROVE TypeOK'
    <2>1. station' \in [Ids -> {"none", "holds", "running", "done", "dropped"}]
      BY <1>8, Learnt DEF RejectStatus, TypeOK
    <2>2. QED
      BY <1>8, <2>1 DEF RejectStatus, pullVars, TypeOK
  <1>9. ASSUME NEW t \in Ids, NEW s \in StationStatuses, StationAsks(t, s) PROVE TypeOK'
    BY <1>9 DEF StationAsks, Ask, StationStatuses, Statuses, pullVars, TypeOK
  <1>10. ASSUME NEW t \in Ids, NEW s \in OperatorStatuses, OperatorAsks(t, s) PROVE TypeOK'
    BY <1>10, TaskAssumption DEF OperatorAsks, Ask, Statuses, pullVars, TypeOK
  <1>11. ASSUME NEW m \in patches, LosePatch(m) PROVE TypeOK'
    BY <1>11 DEF LosePatch, pullVars, TypeOK
  <1>12. QED
    BY <1>1, <1>2, <1>3, <1>4, <1>5, <1>6, <1>7, <1>8, <1>9, <1>10, <1>11 DEF Next, PullStep

(* Every variable keeps its type, for all numbers of tasks and whatever    *)
(* operators ask for (db.ts:354-412).                                      *)
THEOREM TypeCorrect == Spec => []TypeOK
  BY InitType, NextType, PTL DEF Spec

-----------------------------------------------------------------------------
(* The table, the pull being served and the station agree.                 *)

LEMMA InitTask == Init => TaskInv
  <1>1. Init => PullInv /\ StationInv /\ LifeInv
    BY DEF Init, PullInv, StationInv, LifeInv, Status
  <1>2. QED
    BY <1>1, InitType DEF TaskInv

LEMMA CreateKeeps ==
  ASSUME TaskInv, NEW t \in Ids, CreatePatrolTask(t)
  PROVE  PullInv' /\ StationInv' /\ LifeInv'
  <1>1. TypeOK /\ PullInv /\ StationInv /\ LifeInv
    BY DEF TaskInv
  <1>2. ~pulling /\ Status(t) = "absent" /\ UNCHANGED <<pulling, rows, marked, station>>
    BY DEF CreatePatrolTask, pullVars
  <1>3. /\ \A u \in Ids : u # t => patrol_tasks'[u] = patrol_tasks[u] /\ Status(u)' = Status(u)
        /\ Status(t)' = "pending"
        /\ patrol_tasks'[t].pulled_at = patrol_tasks[t].pulled_at
        /\ patrol_tasks'[t].started_at = patrol_tasks[t].started_at
        /\ patrol_tasks'[t].finished_at = patrol_tasks[t].finished_at
    BY <1>1, RowCreated DEF Status
  <1>4. ~patrol_tasks[t].pulled_at /\ station[t] = "none"
    BY <1>1, <1>2 DEF StationInv
  <1>5. PullInv'
    <2>1. marked \subseteq Ids
      BY <1>1 DEF TypeOK
    <2>2. QED
      BY <1>1, <1>2, <1>3, <2>1 DEF PullInv
  <1>6. StationInv'
    BY <1>1, <1>2, <1>3, <1>4 DEF StationInv
  <1>7. LifeInv'
    BY <1>1, <1>2, <1>3, <1>4 DEF LifeInv
  <1>8. QED
    BY <1>5, <1>6, <1>7

LEMMA MarkKeeps ==
  ASSUME TaskInv, NEW t \in Ids, PullMark(t)
  PROVE  PullInv' /\ StationInv' /\ LifeInv'
  <1>1. TypeOK /\ PullInv /\ StationInv /\ LifeInv
    BY DEF TaskInv
  <1>2. /\ pulling /\ t \in rows /\ rows' = rows \ {t} /\ marked' = marked \cup {t}
        /\ UNCHANGED <<pulling, station>>
    BY DEF PullMark
  <1>3. /\ \A u \in Ids : u # t => patrol_tasks'[u] = patrol_tasks[u] /\ Status(u)' = Status(u)
        /\ Status(t)' = "pulled"
        /\ patrol_tasks'[t].pulled_at
        /\ patrol_tasks'[t].started_at = patrol_tasks[t].started_at
        /\ patrol_tasks'[t].finished_at = patrol_tasks[t].finished_at
    BY <1>1, RowMarked DEF Status
  <1>4. Status(t) = "pending" /\ station[t] = "none" /\ t \notin marked
    BY <1>1, <1>2 DEF PullInv, StationInv
  <1>5. PullInv'
    <2>1. marked \subseteq Ids
      BY <1>1 DEF TypeOK
    <2>2. QED
      BY <1>1, <1>2, <1>3, <1>4, <2>1 DEF PullInv
  <1>6. StationInv'
    BY <1>1, <1>2, <1>3, <1>4 DEF StationInv
  <1>7. LifeInv'
    BY <1>1, <1>2, <1>3, <1>4 DEF LifeInv
  <1>8. QED
    BY <1>5, <1>6, <1>7

LEMMA UpdateKeeps ==
  ASSUME TaskInv, NEW m \in patches, NEW received \in BOOLEAN, UpdateStatus(m, received)
  PROVE  PullInv' /\ StationInv' /\ LifeInv'
  <1>1. TypeOK /\ PullInv /\ StationInv /\ LifeInv
    BY DEF TaskInv
  <1>2. PICK t \in Ids, s \in Statuses : t = m.task /\ s = m.status
    BY <1>1, RowUpdated
  <1>3. ~pulling /\ UNCHANGED <<pulling, rows, marked>> /\ Status(t) \in Statuses /\ s \in allowed[Status(t)]
    BY <1>2 DEF UpdateStatus, pullVars
  <1>4. /\ \A u \in Ids : u # t => patrol_tasks'[u] = patrol_tasks[u] /\ Status(u)' = Status(u)
        /\ Status(t)' = s
        /\ patrol_tasks'[t].pulled_at = patrol_tasks[t].pulled_at
        /\ patrol_tasks'[t].started_at <=> patrol_tasks[t].started_at \/ s = "running"
        /\ patrol_tasks'[t].finished_at <=> patrol_tasks[t].finished_at \/ s \in {"completed", "failed"}
    BY <1>1, <1>2, RowUpdated DEF Status
  <1>5. \A u \in Ids : /\ u # t => station'[u] = station[u]
                       /\ station'[u] = "none" <=> station[u] = "none"
                       /\ station'[u] = "running" => station[u] = "running" \/ (u = t /\ s = "running")
    BY <1>1, <1>2, Learnt DEF UpdateStatus
  <1>6. /\ Status(t) \notin Final /\ s \in Statuses \ {"pending"}
        /\ s = "pulled" => Status(t) = "pending"
        /\ s = "running" => Status(t) \in {"pending", "pulled"}
        /\ s = "cancelled" => Status(t) \in {"pending", "pulled"}
        /\ s = "completed" => Status(t) = "running"
        /\ s = "failed" => Status(t) \in {"pulled", "running"}
    BY <1>3, Allowed
  <1>7. PullInv'
    <2>1. marked = {}
      BY <1>1, <1>3 DEF PullInv
    <2>2. QED
      BY <1>1, <1>3, <1>4, <2>1 DEF PullInv
  <1>8. StationInv'
    BY <1>1, <1>4, <1>5, <1>6 DEF StationInv, Statuses
  <1>9. LifeInv'
    <2>1. ASSUME NEW u \in Ids, u # t
          PROVE  /\ station'[u] = "running" => Status(u)' \in {"running", "completed", "failed"}
                 /\ Status(u)' \in {"running", "completed"} => patrol_tasks'[u].started_at
                 /\ Status(u)' \in {"absent", "pending", "pulled", "cancelled"} => ~patrol_tasks'[u].started_at
                 /\ patrol_tasks'[u].finished_at <=> Status(u)' \in {"completed", "failed"}
      BY <1>1, <1>4, <1>5, <2>1 DEF LifeInv
    <2>2. /\ station'[t] = "running" => s \in {"running", "completed", "failed"}
          /\ s \in {"running", "completed"} => patrol_tasks'[t].started_at
          /\ s \in {"absent", "pending", "pulled", "cancelled"} => ~patrol_tasks'[t].started_at
          /\ patrol_tasks'[t].finished_at <=> s \in {"completed", "failed"}
      BY <1>1, <1>3, <1>4, <1>5, <1>6 DEF LifeInv, Statuses, Final
    <2>3. QED
      BY <1>4, <2>1, <2>2 DEF LifeInv
  <1>10. QED
    BY <1>7, <1>8, <1>9

LEMMA RejectKeeps ==
  ASSUME TaskInv, NEW m \in patches, NEW received \in BOOLEAN, RejectStatus(m, received)
  PROVE  PullInv' /\ StationInv' /\ LifeInv'
  <1>1. TypeOK /\ PullInv /\ StationInv /\ LifeInv
    BY DEF TaskInv
  <1>2. ~pulling /\ UNCHANGED <<patrol_tasks, pulling, rows, marked>>
    BY DEF RejectStatus, pullVars
  <1>3. \A u \in Ids : /\ station'[u] = "none" <=> station[u] = "none"
                       /\ station'[u] = "running" => station[u] = "running"
    BY <1>1, Learnt DEF RejectStatus
  <1>4. marked = {}
    BY <1>1, <1>2 DEF PullInv
  <1>5. QED
    BY <1>1, <1>2, <1>3, <1>4 DEF PullInv, StationInv, LifeInv, Status

LEMMA RespondKeeps ==
  ASSUME TaskInv, NEW received \in BOOLEAN, PullRespond(received)
  PROVE  PullInv' /\ StationInv' /\ LifeInv'
  <1>1. TypeOK /\ PullInv /\ StationInv /\ LifeInv
    BY DEF TaskInv
  <1>2. /\ pulling /\ rows = {} /\ ~pulling' /\ marked' = {} /\ UNCHANGED <<patrol_tasks, rows>>
        /\ \A t \in Ids : station'[t] = IF received /\ t \in marked THEN "holds" ELSE station[t]
    BY DEF PullRespond
  <1>3. PullInv' /\ LifeInv'
    BY <1>1, <1>2 DEF PullInv, LifeInv, Status
  <1>4. StationInv'
    BY <1>1, <1>2 DEF PullInv, StationInv, Status
  <1>5. QED
    BY <1>3, <1>4

LEMMA NextTask == TaskInv /\ [Next]_vars => TaskInv'
  <1> SUFFICES ASSUME TaskInv, [Next]_vars PROVE PullInv' /\ StationInv' /\ LifeInv'
    BY NextType DEF TaskInv
  <1>t. TypeOK /\ PullInv /\ StationInv /\ LifeInv
    BY DEF TaskInv
  <1>1. CASE UNCHANGED <<patrol_tasks, pullVars, station>>
    BY <1>t, <1>1 DEF pullVars, PullInv, StationInv, LifeInv, Status
  <1>2. ASSUME NEW t \in Ids, CreatePatrolTask(t) PROVE PullInv' /\ StationInv' /\ LifeInv'
    BY <1>2, CreateKeeps
  <1>3. CASE PullSelect \/ CrashRestart
    BY <1>t, <1>3 DEF PullSelect, CrashRestart, PullInv, StationInv, LifeInv, Status
  <1>4. ASSUME NEW t \in Ids, PullMark(t) PROVE PullInv' /\ StationInv' /\ LifeInv'
    BY <1>4, MarkKeeps
  <1>5. ASSUME NEW received \in BOOLEAN, PullRespond(received) PROVE PullInv' /\ StationInv' /\ LifeInv'
    BY <1>5, RespondKeeps
  <1>6. ASSUME NEW m \in patches, NEW received \in BOOLEAN, UpdateStatus(m, received) \/ RejectStatus(m, received)
        PROVE  PullInv' /\ StationInv' /\ LifeInv'
    BY <1>6, UpdateKeeps, RejectKeeps
  <1>7. QED
    BY <1>1, <1>2, <1>3, <1>4, <1>5, <1>6
       DEF Next, PullStep, StationAsks, OperatorAsks, Ask, LosePatch, vars

LEMMA TaskHolds == Spec => []TaskInv
  BY InitTask, NextTask, PTL DEF Spec

-----------------------------------------------------------------------------
(* The life cycle.                                                         *)

(* A task an operator has cancelled is not one the station drives, in      *)
(* whichever order their requests are served, repeated, lost or answered   *)
(* (db.ts:392-402).                                                        *)
THEOREM CancelledNeverDriven == Spec => []CancelledNeverRuns
  <1>1. TaskInv => CancelledNeverRuns
    BY DEF TaskInv, LifeInv, CancelledNeverRuns
  <1>2. QED
    BY <1>1, TaskHolds, PTL

(* The times of a task tell what became of it (db.ts:403-412).             *)
THEOREM TimesAreTold == Spec => []TimesTell
  <1>1. TaskInv => TimesTell
    BY DEF TaskInv, LifeInv, TimesTell
  <1>2. QED
    BY <1>1, TaskHolds, PTL

(* A task that has come to an end stays as it is, times included           *)
(* (db.ts:396-402).                                                        *)
THEOREM EndsAreFinal == Spec => FinalStays
  <1> DEFINE Kept == \A t \in Ids : Status(t) \in Final => patrol_tasks'[t] = patrol_tasks[t]
  <1>1. TaskInv /\ [Next]_vars => [Kept]_vars
    <2> SUFFICES ASSUME TaskInv, Next PROVE Kept
      OBVIOUS
    <2>t. TypeOK /\ PullInv
      BY DEF TaskInv
    <2>1. CASE UNCHANGED patrol_tasks
      BY <2>1
    <2>2. ASSUME NEW t \in Ids, CreatePatrolTask(t) PROVE Kept
      BY <2>t, <2>2, RowCreated DEF CreatePatrolTask, Final
    <2>3. ASSUME NEW t \in Ids, PullMark(t) PROVE Kept
      BY <2>t, <2>3, RowMarked DEF PullMark, PullInv, Final
    <2>4. ASSUME NEW m \in patches, NEW received \in BOOLEAN, UpdateStatus(m, received) PROVE Kept
      <3>1. Status(m.task) \notin Final
        BY <2>4, Allowed DEF UpdateStatus
      <3>2. QED
        BY <2>t, <2>4, <3>1, RowUpdated
    <2> HIDE DEF Kept
    <2>5. QED
      BY <2>1, <2>2, <2>3, <2>4
         DEF Next, PullStep, PullSelect, PullRespond, CrashRestart, RejectStatus, StationAsks,
             OperatorAsks, Ask, LosePatch
  <1>2. QED
    BY <1>1, TaskHolds, PTL DEF Spec, FinalStays

-----------------------------------------------------------------------------
(* The table implements the dispatch queue.                                *)

places == [t \in Ids |-> Place(t)]

(* The place of a task depends on its status only as far as it is absent,  *)
(* pending or neither, and on whether the station knows of it.             *)
LEMMA PlaceStays ==
  ASSUME NEW t \in Ids,
         Status(t)' = "absent" <=> Status(t) = "absent",
         Status(t)' = "pending" <=> Status(t) = "pending",
         t \in marked' <=> t \in marked,
         station'[t] = "none" <=> station[t] = "none",
         patrol_tasks'[t].pulled_at = patrol_tasks[t].pulled_at
  PROVE  Place(t)' = Place(t)
  BY DEF Place

LEMMA PlacesStay ==
  ASSUME \A t \in Ids : /\ Status(t)' = "absent" <=> Status(t) = "absent"
                        /\ Status(t)' = "pending" <=> Status(t) = "pending"
                        /\ t \in marked' <=> t \in marked
                        /\ station'[t] = "none" <=> station[t] = "none"
                        /\ patrol_tasks'[t].pulled_at = patrol_tasks[t].pulled_at
  PROVE  UNCHANGED places
  <1>1. \A t \in Ids : Place(t)' = Place(t)
    BY PlaceStays
  <1>2. QED
    BY <1>1 DEF places

LEMMA StepSubmits ==
  ASSUME TaskInv, NEW t \in Ids, CreatePatrolTask(t)
  PROVE  Queue!Submit(t)
  <1>1. TypeOK /\ PullInv /\ StationInv
    BY DEF TaskInv
  <1>2. /\ Status(t) = "absent" /\ Status(t)' = "pending"
        /\ UNCHANGED <<marked, station>>
    BY <1>1, RowCreated DEF CreatePatrolTask, pullVars
  <1>3. Place(t) = "none" /\ Place(t)' = "waiting"
    <2>1. t \notin marked /\ station[t] = "none" /\ ~patrol_tasks[t].pulled_at
      BY <1>1, <1>2 DEF PullInv, StationInv
    <2>2. ~patrol_tasks'[t].pulled_at
      BY <1>1, <2>1, RowCreated
    <2>3. QED
      BY <1>2, <2>1, <2>2 DEF Place
  <1>4. \A u \in Ids : u < t => Place(u) # "none"
    BY DEF Place, CreatePatrolTask
  <1>5. \A u \in Ids : u # t => Place(u)' = Place(u)
    BY <1>1, <1>2, RowCreated, PlaceStays DEF Status
  <1>6. QED
    BY <1>3, <1>4, <1>5 DEF Queue!Submit, Queue!Move

LEMMA StepTakes ==
  ASSUME TaskInv, NEW t \in Ids, PullMark(t)
  PROVE  Queue!Take(t)
  <1>1. TypeOK /\ PullInv /\ StationInv
    BY DEF TaskInv
  <1>2. /\ Status(t) = "pending" /\ Status(t)' = "pulled"
        /\ marked' = marked \cup {t} /\ station' = station
    BY <1>1, RowMarked DEF PullMark, PullInv
  <1>3. Place(t) = "waiting" /\ Place(t)' = "taken"
    <2>1. t \notin marked /\ station[t] = "none" /\ ~patrol_tasks[t].pulled_at
      BY <1>1, <1>2 DEF PullInv, StationInv
    <2>2. QED
      BY <1>2, <2>1 DEF Place
  <1>4. \A u \in Ids : u < t => Place(u) # "waiting"
    <2>1. ASSUME NEW u \in Ids, u < t PROVE Status(u) # "pending"
      <3>1. u \notin rows
        BY <2>1 DEF PullMark, Ids
      <3>2. QED
        BY <1>1, <3>1 DEF PullMark, PullInv
    <2>2. QED
      BY <2>1 DEF Place
  <1>5. \A u \in Ids : u # t => Place(u)' = Place(u)
    BY <1>1, <1>2, RowMarked, PlaceStays DEF Status
  <1>6. QED
    BY <1>3, <1>4, <1>5 DEF Queue!Take, Queue!Move

(* When the pull ends, what it marked leaves for the station or is lost.   *)
LEMMA TakenIsMarked ==
  ASSUME TaskInv
  PROVE  \A t \in Ids : Place(t) = "taken" <=> t \in marked
  BY DEF TaskInv, PullInv, Place

LEMMA StepDelivers ==
  ASSUME TaskInv, PullRespond(TRUE)
  PROVE  Queue!Deliver
  <1>1. /\ patrol_tasks' = patrol_tasks /\ marked' = {}
        /\ \A t \in Ids : station'[t] = IF t \in marked THEN "holds" ELSE station[t]
    BY DEF PullRespond
  <1>2. \A t \in Ids : t \in marked => Place(t)' = "delivered"
    BY <1>1 DEF TaskInv, PullInv, Place, Status
  <1>3. \A t \in Ids : t \notin marked => Place(t)' = Place(t)
    BY <1>1, PlaceStays DEF Status
  <1>4. QED
    BY <1>2, <1>3, TakenIsMarked DEF Queue!Deliver, Queue!Move, Queue!Taken

LEMMA StepLoses ==
  ASSUME TaskInv, PullRespond(FALSE) \/ CrashRestart
  PROVE  Queue!Lose
  <1>1. patrol_tasks' = patrol_tasks /\ marked' = {} /\ \A t \in Ids : station'[t] = station[t]
    BY DEF PullRespond, CrashRestart
  <1>2. \A t \in Ids : t \in marked => Place(t)' = "lost"
    BY <1>1 DEF TaskInv, PullInv, Place, Status
  <1>3. \A t \in Ids : t \notin marked => Place(t)' = Place(t)
    BY <1>1, PlaceStays DEF Status
  <1>4. QED
    BY <1>2, <1>3, TakenIsMarked DEF Queue!Lose, Queue!Move, Queue!Taken

(* A status request takes a pending task out of the queue and moves no     *)
(* other.                                                                  *)
LEMMA StepWithdraws ==
  ASSUME TaskInv, NEW m \in patches, NEW received \in BOOLEAN, UpdateStatus(m, received)
  PROVE  (\E t \in Ids : Queue!Withdraw(t)) \/ UNCHANGED places
  <1>1. TypeOK /\ PullInv /\ StationInv
    BY DEF TaskInv
  <1>2. PICK t \in Ids, s \in Statuses : t = m.task /\ s = m.status
    BY <1>1, RowUpdated
  <1>3. ~pulling /\ marked' = marked /\ Status(t) \in Statuses /\ s \in allowed[Status(t)]
    BY <1>2 DEF UpdateStatus, pullVars
  <1>4. marked = {}
    BY <1>1, <1>3 DEF PullInv
  <1>5. /\ \A u \in Ids : u # t => patrol_tasks'[u] = patrol_tasks[u] /\ Status(u)' = Status(u)
        /\ Status(t)' = s /\ s # "pending" /\ s # "absent"
        /\ patrol_tasks'[t].pulled_at = patrol_tasks[t].pulled_at
    BY <1>1, <1>2, <1>3, RowUpdated, Allowed DEF Status, Statuses
  <1>6. \A u \in Ids : station'[u] = "none" <=> station[u] = "none"
    BY <1>1, Learnt DEF UpdateStatus
  <1>7. \A u \in Ids : u # t => Place(u)' = Place(u)
    BY <1>3, <1>5, <1>6, PlaceStays
  <1>8. CASE Status(t) = "pending"
    <2>1. station[t] = "none" /\ ~patrol_tasks[t].pulled_at
      BY <1>1, <1>8 DEF StationInv
    <2>2. Place(t) = "waiting" /\ Place(t)' = "withdrawn"
      BY <1>3, <1>4, <1>5, <1>6, <1>8, <2>1 DEF Place
    <2>3. Queue!Withdraw(t)
      BY <1>7, <2>2 DEF Queue!Withdraw, Queue!Move
    <2>4. QED
      BY <2>3
  <1>9. CASE Status(t) # "pending"
    <2>1. Status(t) # "absent"
      BY <1>3 DEF Statuses
    <2>2. QED
      BY <1>3, <1>5, <1>6, <1>9, <2>1, PlacesStay
  <1>10. QED
    BY <1>8, <1>9

LEMMA InitPlaces == Init => Queue!Init
  BY DEF Init, Queue!Init, Place, Status

LEMMA StepPlaces == TaskInv /\ [Next]_vars => Queue!Next \/ UNCHANGED places
  <1> SUFFICES ASSUME TaskInv, [Next]_vars PROVE Queue!Next \/ UNCHANGED places
    OBVIOUS
  <1>t. TypeOK /\ PullInv
    BY DEF TaskInv
  <1>1. CASE UNCHANGED <<patrol_tasks, marked, station>>
    BY <1>1, PlacesStay DEF Status
  <1>2. ASSUME NEW t \in Ids, CreatePatrolTask(t) PROVE Queue!Next
    BY <1>2, StepSubmits DEF Queue!Next
  <1>3. CASE PullSelect
    <2>1. UNCHANGED <<patrol_tasks, marked, station>>
      BY <1>t, <1>3 DEF PullSelect, PullInv, TypeOK
    <2>2. QED
      BY <1>1, <2>1
  <1>4. ASSUME NEW t \in Ids, PullMark(t) PROVE Queue!Next
    BY <1>4, StepTakes DEF Queue!Next
  <1>5. CASE PullRespond(TRUE)
    BY <1>5, StepDelivers DEF Queue!Next
  <1>6. CASE PullRespond(FALSE) \/ CrashRestart
    BY <1>6, StepLoses DEF Queue!Next
  <1>7. ASSUME NEW m \in patches, NEW received \in BOOLEAN, UpdateStatus(m, received)
        PROVE  Queue!Next \/ UNCHANGED places
    BY <1>7, StepWithdraws DEF Queue!Next
  <1>8. ASSUME NEW m \in patches, NEW received \in BOOLEAN, RejectStatus(m, received)
        PROVE  UNCHANGED places
    <2>1. \A u \in Ids : station'[u] = "none" <=> station[u] = "none"
      BY <1>t, <1>8, Learnt DEF RejectStatus
    <2>2. QED
      BY <1>8, <2>1, PlacesStay DEF RejectStatus, pullVars, Status
  <1>9. QED
    BY <1>1, <1>2, <1>3, <1>4, <1>5, <1>6, <1>7, <1>8
       DEF Next, PullStep, StationAsks, OperatorAsks, Ask, LosePatch, vars, pullVars

(* The table of tasks implements the dispatch queue: each task is handed   *)
(* out once at most, oldest first, and never after a request has moved it  *)
(* out of "pending", through crashes and lost answers (db.ts:374-412).     *)
THEOREM TasksAreDispatched == Spec => Dispatch
  <1>1. Init => Queue!Init
    BY InitPlaces
  <1>2. TaskInv /\ [Next]_vars => [Queue!Next]_places
    BY StepPlaces
  <1>3. QED
    BY <1>1, <1>2, TaskHolds, PTL DEF Spec, Dispatch, Queue!Spec, places
=============================================================================
