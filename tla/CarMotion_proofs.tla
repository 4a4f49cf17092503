-------------------------- MODULE CarMotion_proofs --------------------------
(* Proofs about CarMotion: typing for every instance, the half-bridge      *)
(* interlock and the absence of runaway for one manual source.             *)
EXTENDS CarMotion, TLAPS

(* The duty of any accepted command fits the PWM period                    *)
(* (motor_speed_to_ticks, car_motor.c:41-50).                              *)
LEMMA DutyInRange ==
  ASSUME NEW motion \in Motions, NEW speed \in 0..100
  PROVE  Duty(motion, speed) \in 0..PeriodTicks
  <1> DEFINE percent == IF speed > 100 THEN 100
                        ELSE IF speed > 0 /\ speed < MinPercent THEN MinPercent
                        ELSE speed
  <1>1. percent \in 0..100
    BY DEF MinPercent
  <1>2. motor_speed_to_ticks(speed) = (1000 * percent) \div 100
    BY DEF motor_speed_to_ticks, PeriodTicks
  <1> HIDE DEF percent
  <1>3. (1000 * percent) \div 100 \in 0..PeriodTicks
    BY <1>1 DEF PeriodTicks
  <1>4. TurnTicks \in 0..PeriodTicks /\ 0 \in 0..PeriodTicks
    BY DEF TurnTicks, PeriodTicks
  <1>5. QED
    BY <1>2, <1>3, <1>4 DEF Duty

(* A stop is a motor command like the others.                              *)
LEMMA StopType ==
  0 \in 0..PeriodTicks /\ [motion |-> "stop", duty |-> 0] \in [motion : Motions, duty : 0..PeriodTicks]
  BY DEF Motions, PeriodTicks

(* motor_set_wheel zeroes one half-bridge and drives the other.            *)
LEMMA WheelRegs ==
  ASSUME NEW w \in Wheels, NEW motion \in Motions
  PROVE  /\ ZeroReg(w, motion) \in Wheels \X Halves
         /\ DutyReg(w, motion) \in Wheels \X Halves
  BY DEF ZeroReg, DutyReg, Wheels, Halves

LEMMA RouteLen == Len(Route) = 5 /\ 1 \in 1..Len(Route) /\ 1 \in 1..(Len(Route) + 1)
  BY DEF Route

LEMMA RouteType ==
  /\ \A k \in 1..Len(Route) : /\ Route[k].motion \in Motions
                              /\ Route[k].speed \in 0..100
                              /\ Route[k].duration_ms \in Nat
  BY DEF Route, Motions

LEMMA ThreadNames ==
  /\ "task" \in Threads /\ "task" \notin Sources
  /\ \A s \in Sources : s \in Threads /\ s # "task"
  BY CarAssumption DEF Threads

(* Goto moves one thread and no other.                                     *)
LEMMA Moved ==
  ASSUME pc \in [Threads -> PCs], NEW t \in Threads, NEW label \in PCs, Goto(t, label)
  PROVE  /\ pc' \in [Threads -> PCs]
         /\ pc'[t] = label
         /\ \A u \in Threads : u # t => pc'[u] = pc[u]
  BY DEF Goto

LEMMA ThreadSplit == \A t \in Threads : t = "task" \/ t \in Sources
  BY DEF Threads

-----------------------------------------------------------------------------
(* Typing.                                                                 *)

LEMMA InitTypeInv == Init => TypeInv
  <1> SUFFICES ASSUME Init PROVE TypeInv
    OBVIOUS
  <1> USE CarAssumption, RouteLen, ThreadNames DEF Init
  <1>1. pwm \in [Wheels \X Halves -> 0..PeriodTicks]
    BY DEF PeriodTicks, TurnTicks
  <1>2. /\ pc \in [Threads -> PCs]
        /\ pc["task"] = "boot"
    BY DEF PCs
  <1>3. /\ req \in [Sources -> [word : Words, speed : 0..100]]
        /\ job \in [Threads -> [motion : Motions, duty : 0..PeriodTicks]]
        /\ wheel \in [Threads -> Wheels]
        /\ ok \in [Threads -> BOOLEAN]
        /\ back \in [Threads -> {"start", "idle", "patrolEnabled", "advanceLoad", "apply", "arm"}]
    BY DEF Words, Motions, Wheels, PeriodTicks
  <1>4. /\ g_motor_available \in BOOLEAN
        /\ g_current_motion \in Motions
        /\ g_manual_watchdog_active \in BOOLEAN
        /\ g_enabled \in BOOLEAN
    BY DEF Motions
  <1>5. /\ g_manual_watchdog_remaining_ms \in 0..(Word - 1)
        /\ g_manual_watchdog_remaining_ms <= ManualTimeoutMs
        /\ age \in 0..(ManualTimeoutMs + SamplePeriodMs)
    OBVIOUS
  <1>9. /\ crossed \in BOOLEAN /\ missed \subseteq Wheels \X Halves /\ wrapped \in BOOLEAN
        /\ g_step_elapsed \in Nat /\ seen \in Nat
    OBVIOUS
  <1>8. /\ g_step_index \in 1..Len(Route) /\ g_step_index \in 1..(Len(Route) + 1)
        /\ step \in 1..Len(Route)
        /\ faults \in 0..MaxFaults
        /\ sent \in 0..MaxCommands
    OBVIOUS
  <1>6. pc["task"] # "tickSubtract" /\ pc["task"] # "storeIndex"
    BY <1>2
  <1> HIDE DEF Init
  <1>7. QED
    BY <1>1, <1>2, <1>3, <1>4, <1>5, <1>6, <1>8, <1>9 DEF TypeInv, TypeOK

(* What a call of car_motor_command leaves is typed, and brings the thread *)
(* to none of the stages at which the loop computes.                       *)
Called(t) ==
  /\ job' \in [Threads -> [motion : Motions, duty : 0..PeriodTicks]]
  /\ wheel' \in [Threads -> Wheels]
  /\ ok' \in [Threads -> BOOLEAN]
  /\ back' \in [Threads -> {"start", "idle", "patrolEnabled", "advanceLoad", "apply", "arm"}]
  /\ pc' \in [Threads -> PCs]
  /\ pc'[t] \notin {"tickSubtract", "storeIndex", "indexCompare", "indexReset"}
  /\ \A u \in Threads : u # t => pc'[u] = pc[u]

LEMMA CallMotorType ==
  ASSUME job \in [Threads -> [motion : Motions, duty : 0..PeriodTicks]], wheel \in [Threads -> Wheels],
         ok \in [Threads -> BOOLEAN],
         back \in [Threads -> {"start", "idle", "patrolEnabled", "advanceLoad", "apply", "arm"}],
         pc \in [Threads -> PCs], g_motor_available \in BOOLEAN,
         NEW t \in Threads, NEW motion \in Motions, NEW speed \in 0..100,
         NEW next \in {"start", "idle", "patrolEnabled", "advanceLoad", "apply", "arm"},
         CallMotor(t, motion, speed, next)
  PROVE  Called(t)
  <1>1. Duty(motion, speed) \in 0..PeriodTicks
    BY DutyInRange
  <1>2. QED
    BY <1>1 DEF Called, CallMotor, Goto, PCs, Wheels

LEMMA CallTyped ==
  ASSUME TypeInv, NEW t \in Threads, NEW motion \in Motions, NEW speed \in 0..100,
         NEW next \in {"start", "idle", "patrolEnabled", "advanceLoad", "apply", "arm"},
         CallMotor(t, motion, speed, next)
  PROVE  Called(t)
  <1>1. /\ job \in [Threads -> [motion : Motions, duty : 0..PeriodTicks]]
        /\ wheel \in [Threads -> Wheels]
        /\ ok \in [Threads -> BOOLEAN]
        /\ back \in [Threads -> {"start", "idle", "patrolEnabled", "advanceLoad", "apply", "arm"}]
        /\ pc \in [Threads -> PCs]
        /\ g_motor_available \in BOOLEAN
    BY DEF TypeInv, TypeOK
  <1>2. QED
    BY <1>1, CallMotorType

(* A step that leaves the values the loop computes with alone, and neither *)
(* brings it to nor takes it from a stage at which it computes.            *)
LEMMA StageKept ==
  ASSUME TypeInv, TypeOK', UNCHANGED <<seen, wrapped, g_step_index>>,
         pc'["task"] = pc["task"]
           \/ {pc["task"], pc'["task"]} \cap {"tickSubtract", "storeIndex", "indexCompare", "indexReset"} = {}
  PROVE  TypeInv'
  BY DEF TypeInv


(* The remaining time counts modulo Word, as an unsigned word does.        *)
LEMMA MinusType ==
  ASSUME NEW a \in Nat
  PROVE  Minus(a, SamplePeriodMs) \in 0..(Word - 1)
  BY CarAssumption DEF Minus

(* A value it is not subtracted below zero from is counted exactly.        *)
LEMMA MinusExact ==
  ASSUME NEW a \in 0..ManualTimeoutMs, a >= SamplePeriodMs
  PROVE  Minus(a, SamplePeriodMs) = a - SamplePeriodMs /\ Minus(a, SamplePeriodMs) \in 0..ManualTimeoutMs
  BY CarAssumption DEF Minus

LEMMA TaskType == TypeInv /\ TaskStep => TypeInv'
  <1> SUFFICES ASSUME TypeInv, TaskStep PROVE TypeInv'
    OBVIOUS
  <1> USE CarAssumption, ThreadNames DEF TypeInv, TypeOK
  <1>1. CASE BootDegraded
    BY <1>1 DEF BootDegraded, Goto, PCs, motorVars, watchVars, routeVars, callVars, loadVars, busVars,
                histVars, boundVars
  <1>2. ASSUME NEW acked \in 0..Len(StopOrder), BootMotor(acked) PROVE TypeInv'
    <2>1. pwm' \in [Wheels \X Halves -> 0..PeriodTicks]
      <3>1. 0 \in 0..PeriodTicks
        BY StopType
      <3>2. \A r \in Wheels \X Halves :
               (IF \E i \in 1..acked : StopOrder[i] = r THEN 0 ELSE pwm[r]) \in 0..PeriodTicks
        BY <3>1
      <3>3. QED
        BY <1>2, <3>2 DEF BootMotor
    <2>2. job' \in [Threads -> [motion : Motions, duty : 0..PeriodTicks]]
      <3> DEFINE stop == [motion |-> "stop", duty |-> 0]
      <3>1. stop \in [motion : Motions, duty : 0..PeriodTicks]
        BY StopType
      <3>2. job' = [job EXCEPT !["task"] = stop]
        BY <1>2 DEF BootMotor
      <3> HIDE DEF stop
      <3>3. QED
        BY <3>1, <3>2
    <2>3. /\ g_motor_available' \in BOOLEAN
          /\ ok' \in [Threads -> BOOLEAN]
          /\ back' \in [Threads -> {"start", "idle", "patrolEnabled", "advanceLoad", "apply", "arm"}]
          /\ pc' \in [Threads -> PCs]
          /\ pc'["task"] # "tickSubtract" /\ pc'["task"] # "storeIndex"
      BY <1>2 DEF BootMotor, Goto, PCs
    <2>4. QED
      BY <1>2, <2>1, <2>2, <2>3 DEF BootMotor, watchVars, routeVars, loadVars, busVars, histVars, boundVars
  <1>3. CASE StartServices
    <2>1. pc' \in [Threads -> PCs] /\ pc'["task"] = "sleep"
      BY <1>3 DEF StartServices, PCs
    <2>2. /\ g_step_index' = 1 /\ g_step_elapsed' = 0 /\ g_enabled' = FALSE
          /\ 1 \in 1..Len(Route) /\ 1 \in 1..(Len(Route) + 1)
      BY <1>3, RouteLen DEF StartServices
    <2>3. UNCHANGED <<pwm, g_motor_available, g_current_motion, g_manual_watchdog_active,
                      g_manual_watchdog_remaining_ms, req, job, wheel, ok, back, seen, step,
                      crossed, missed, age, wrapped, faults, sent>>
      BY <1>3 DEF StartServices, motorVars, watchVars, callVars, loadVars, busVars, histVars, boundVars
    <2>4. QED
      BY <2>1, <2>2, <2>3
  <1>4. CASE Wake
    BY <1>4 DEF Wake, Goto, PCs, motorVars, watchVars, routeVars, callVars, loadVars, busVars, histVars, boundVars
  <1>5. CASE TickCompare
    BY <1>5 DEF TickCompare, Goto, PCs, motorVars, watchVars, routeVars, callVars, loadVars, busVars, histVars,
                boundVars
  <1>6. CASE TickLoad \/ TickSubtract
    <2>1. CASE TickLoad
      BY <1>6, <2>1
      DEF TickLoad, Goto, PCs, motorVars, watchVars, routeVars, callVars, busVars, histVars, boundVars
    <2>2. CASE TickSubtract
      <3>1. /\ pc["task"] = "tickSubtract" /\ pc' \in [Threads -> PCs] /\ pc'["task"] = "patrolEnabled"
            /\ g_manual_watchdog_remaining_ms' = Minus(seen, SamplePeriodMs)
            /\ wrapped' = (wrapped \/ seen < SamplePeriodMs) /\ seen' = 0
        BY <2>2 DEF TickSubtract, Goto, PCs
      <3>2. g_manual_watchdog_remaining_ms' \in 0..(Word - 1)
        BY <3>1, MinusType
      <3>3. wrapped' \in BOOLEAN /\ (wrapped' \/ g_manual_watchdog_remaining_ms' <= ManualTimeoutMs)
        <4>1. ~wrapped' => ~wrapped /\ ~(seen < SamplePeriodMs)
          BY <3>1
        <4>2. ~wrapped' => seen \in 0..ManualTimeoutMs /\ seen >= SamplePeriodMs
          BY <3>1, <4>1
        <4>3. wrapped' \in BOOLEAN
          BY <3>1
        <4>4. QED
          BY <3>1, <4>2, <4>3, MinusExact
      <3>4. QED
        BY <2>2, <3>1, <3>2, <3>3 DEF TickSubtract, motorVars, routeVars, callVars, busVars, boundVars
    <2>3. QED
      BY <1>6, <2>1, <2>2
  <1>7. CASE TickClear
    BY <1>7 DEF TickClear, Goto, PCs, motorVars, routeVars, callVars, loadVars, busVars, histVars, boundVars
  <1>8. CASE TickClearRemaining
    <2>1. "stop" \in Motions /\ 0 \in 0..100
      BY DEF Motions
    <2>2. CallMotor("task", "stop", 0, "patrolEnabled")
      BY <1>8 DEF TickClearRemaining
    <2>3. Called("task")
      BY <2>1, <2>2, CallMotorType
    <2>4. QED
      BY <1>8, <2>3 DEF Called, TickClearRemaining, motorVars, routeVars, loadVars, busVars, histVars, boundVars
  <1>9. CASE PatrolEnabled
    BY <1>9 DEF PatrolEnabled, Goto, PCs, motorVars, watchVars, routeVars, callVars, loadVars, busVars,
                histVars, boundVars
  <1>10. CASE PatrolStep
    BY <1>10 DEF PatrolStep, Goto, PCs, motorVars, watchVars, routeVars, callVars, busVars, histVars, boundVars
  <1>11. CASE PatrolIssue
    <2>1. /\ Route[step].motion \in Motions
          /\ Route[step].speed \in 0..100
      BY RouteType
    <2>2. CASE g_step_elapsed = 0
      <3>1. CallMotor("task", Route[step].motion, Route[step].speed, "advanceLoad")
        BY <1>11, <2>2 DEF PatrolIssue
      <3>2. Called("task")
        BY <2>1, <3>1, CallMotorType
      <3>3. QED
        BY <1>11, <3>2 DEF Called, PatrolIssue, motorVars, watchVars, routeVars, loadVars, busVars, histVars,
                           boundVars
    <2>3. CASE g_step_elapsed # 0
      <3>1. /\ pc["task"] = "patrolIssue" /\ pc' = [pc EXCEPT !["task"] = "advanceLoad"]
            /\ UNCHANGED <<pwm, motorVars, watchVars, routeVars, req, callVars, loadVars, busVars,
                           histVars, boundVars>>
        BY <1>11, <2>3 DEF PatrolIssue, Goto
      <3>2. QED
        BY <3>1
        DEF PCs, motorVars, watchVars, routeVars, callVars, loadVars, busVars, histVars, boundVars
    <2>4. QED
      BY <2>2, <2>3
  <1>12. CASE AdvanceLoad
    BY <1>12 DEF AdvanceLoad, Goto, PCs, motorVars, watchVars, routeVars, callVars, busVars, histVars, boundVars
  <1>13. CASE AdvanceStore \/ AdvanceCompare \/ AdvanceReset
    <2>1. CASE AdvanceStore
      BY <2>1
      DEF AdvanceStore, Goto, PCs, motorVars, watchVars, callVars, busVars, histVars, boundVars
    <2>2. CASE AdvanceCompare
      BY <2>2
      DEF AdvanceCompare, Goto, PCs, motorVars, watchVars, routeVars, callVars, loadVars, busVars, histVars, boundVars
    <2>3. CASE AdvanceReset
      BY <2>3
      DEF AdvanceReset, Goto, PCs, motorVars, watchVars, callVars, loadVars, busVars, histVars, boundVars
    <2>4. QED
      BY <1>13, <2>1, <2>2, <2>3
  <1>14. CASE AdvanceIndex
    BY <1>14, RouteLen
    DEF AdvanceIndex, Goto, PCs, motorVars, watchVars, routeVars, callVars, busVars, histVars, boundVars
  <1>15. CASE StoreIndex \/ IndexCompare \/ IndexReset
    <2>1. CASE StoreIndex
      BY <2>1, RouteLen
      DEF StoreIndex, Goto, PCs, motorVars, watchVars, callVars, busVars, histVars, boundVars
    <2>2. CASE IndexCompare
      BY <2>2, RouteLen
      DEF IndexCompare, Goto, PCs, motorVars, watchVars, routeVars, callVars, loadVars, busVars, histVars, boundVars
    <2>3. CASE IndexReset
      BY <2>3, RouteLen
      DEF IndexReset, Goto, PCs, motorVars, watchVars, callVars, loadVars, busVars, histVars, boundVars
    <2>4. QED
      BY <1>15, <2>1, <2>2, <2>3
  <1>16. CASE DegradedLoop
    BY <1>16 DEF DegradedLoop, vars, motorVars, watchVars, routeVars, callVars, loadVars, busVars, histVars, boundVars
  <1>17. QED
    BY <1>1, <1>2, <1>3, <1>4, <1>5, <1>6, <1>7, <1>8, <1>9, <1>10, <1>11, <1>12, <1>13, <1>14,
       <1>15, <1>16
    DEF TaskStep

(* The record of lost writes keeps its type.                               *)
LEMMA BusType ==
  ASSUME crossed \in BOOLEAN, missed \subseteq Wheels \X Halves,
         NEW t \in Threads, wheel[t] \in Wheels, job[t].motion \in Motions,
         WriteZero(t) \/ WriteDuty(t) \/ WriteLost(t) \/ WriteFails(t)
  PROVE  crossed' \in BOOLEAN /\ missed' \subseteq Wheels \X Halves
  <1>1. /\ ZeroReg(wheel[t], job[t].motion) \in Wheels \X Halves
        /\ DutyReg(wheel[t], job[t].motion) \in Wheels \X Halves
    BY WheelRegs
  <1>2. QED
    BY <1>1 DEF WriteZero, WriteDuty, WriteLost, WriteFails, Cross

LEMMA MotorType ==
  ASSUME TypeInv, NEW t \in Threads, MotorStep(t)
  PROVE  TypeInv'
  <1> USE CarAssumption, ThreadNames DEF TypeInv, TypeOK
  <1>1. wheel[t] \in Wheels /\ job[t].motion \in Motions /\ job[t].duty \in 0..PeriodTicks
    OBVIOUS
  <1>2. CASE WriteZero(t)
    <2>1. pwm' \in [Wheels \X Halves -> 0..PeriodTicks]
      <3>1. 0 \in 0..PeriodTicks
        BY StopType
      <3>2. QED
        BY <1>1, <1>2, <3>1, WheelRegs DEF WriteZero
    <2>2. crossed' \in BOOLEAN /\ missed' \subseteq Wheels \X Halves
      BY <1>1, <1>2, BusType
    <2>3. /\ pc' = [pc EXCEPT ![t] = "duty"]
          /\ pc[t] = "zero"
          /\ UNCHANGED <<motorVars, watchVars, routeVars, req, callVars, loadVars, histVars, boundVars>>
      BY <1>2 DEF WriteZero, Goto
    <2>4. QED
      BY <2>1, <2>2, <2>3
      DEF PCs, motorVars, watchVars, routeVars, callVars, loadVars, histVars, boundVars
  <1>3. ASSUME WriteDuty(t) \/ WriteLost(t) \/ WriteFails(t) PROVE TypeInv'
    <2>1. UNCHANGED <<g_motor_available, g_current_motion, g_manual_watchdog_active,
                      g_manual_watchdog_remaining_ms, g_enabled, g_step_index,
                      g_step_elapsed, req, job, back, seen, step, age, wrapped, sent>>
      BY <1>3
      DEF WriteDuty, WriteLost, WriteFails, motorVars, watchVars, routeVars, loadVars, histVars, boundVars
    <2>2. pwm' \in [Wheels \X Halves -> 0..PeriodTicks]
      BY <1>1, <1>3, WheelRegs DEF WriteDuty, WriteLost, WriteFails
    <2>6. faults' \in 0..MaxFaults
      BY <1>3 DEF WriteDuty, WriteLost, WriteFails, boundVars
    <2>7. crossed' \in BOOLEAN /\ missed' \subseteq Wheels \X Halves
      BY <1>1, <1>3, BusType
    <2>3. wheel' \in [Threads -> Wheels] /\ ok' \in [Threads -> BOOLEAN]
      BY <1>3 DEF WriteDuty, WriteLost, WriteFails, WheelDone, Wheels
    <2>4. /\ pc' \in [Threads -> PCs]
          /\ pc'["task"] = pc["task"] \/ pc'["task"] \in {"zero", "duty", "record"}
      <3>1. PICK l \in {"zero", "duty", "record"} : pc' = [pc EXCEPT ![t] = l]
        BY <1>3 DEF WriteDuty, WriteLost, WriteFails, WheelDone, Goto
      <3>2. QED
        BY <3>1 DEF PCs
    <2>8. TypeOK'
      BY <2>1, <2>2, <2>3, <2>4, <2>6, <2>7
    <2>9. pc'["task"] = pc["task"] \/ pc["task"] \in {"zero", "duty", "record"}
      BY <1>3 DEF WriteDuty, WriteLost, WriteFails, WheelDone, Goto
    <2> HIDE DEF TypeInv, TypeOK
    <2>5. QED
      BY <2>1, <2>4, <2>8, <2>9, StageKept
  <1>5. CASE RecordMotion(t)
    BY <1>5 DEF RecordMotion, Goto, PCs, watchVars, routeVars, callVars, loadVars, busVars, histVars, boundVars
  <1>6. QED
    BY <1>2, <1>3, <1>5, MotorStep(t) DEF MotorStep

LEMMA HandlerType ==
  ASSUME TypeInv, NEW s \in Sources, HandlerStep(s) \/ \E c \in Commands : Receive(s, c)
  PROVE  TypeInv'
  <1> USE CarAssumption, ThreadNames DEF TypeInv, TypeOK
  <1>1. /\ MotionOf(req[s].word) \in Motions
        /\ req[s].speed \in 0..100
        /\ "stop" \in Motions /\ 0 \in 0..100
    BY DEF MotionOf, Motions
  <1>2. ASSUME NEW c \in Commands, Receive(s, c) PROVE TypeInv'
    <2>1. /\ pc' \in [Threads -> PCs] /\ pc'["task"] = pc["task"]
          /\ req' \in [Sources -> [word : Words, speed : 0..100]]
          /\ g_enabled' \in BOOLEAN
      BY <1>2 DEF Receive, Goto, PCs
    <2>2. sent' \in 0..MaxCommands
      BY <1>2 DEF Receive
    <2>3. QED
      BY <1>2, <2>1, <2>2 DEF Receive, motorVars, watchVars, callVars, loadVars, busVars, histVars
  <1>3. CASE SetIndex(s)
    <2>1. pc' \in [Threads -> PCs] /\ pc'["task"] = pc["task"]
      BY <1>3 DEF SetIndex, Goto, PCs
    <2>2. g_step_index' = 1 /\ 1 \in 1..Len(Route) /\ 1 \in 1..(Len(Route) + 1)
      BY <1>3, RouteLen DEF SetIndex
    <2>3. QED
      BY <1>3, <2>1, <2>2
      DEF SetIndex, motorVars, watchVars, callVars, loadVars, busVars, histVars, boundVars
  <1>4. CASE SetElapsed(s)
    <2>1. CASE req[s].word = "auto_start"
      <3>1. Goto(s, "idle") /\ g_step_elapsed' = 0
            /\ UNCHANGED <<pwm, motorVars, watchVars, g_enabled, g_step_index, req, callVars, loadVars,
                           busVars, histVars, boundVars>>
        BY <1>4, <2>1 DEF SetElapsed
      <3>2. pc' \in [Threads -> PCs] /\ pc'["task"] = pc["task"]
        BY <3>1, Moved DEF PCs
      <3>3. QED
        BY <3>1, <3>2 DEF motorVars, watchVars, callVars, loadVars, busVars, histVars, boundVars
    <2>2. CASE req[s].word # "auto_start"
      <3> DEFINE next == IF req[s].word = "auto_stop" THEN "idle" ELSE "apply"
      <3>1. CallMotor(s, "stop", 0, next)
        BY <1>4, <2>2 DEF SetElapsed
      <3>2. next \in {"start", "idle", "patrolEnabled", "advanceLoad", "apply", "arm"}
        OBVIOUS
      <3> HIDE DEF next, TypeInv, TypeOK
      <3>3. Called(s)
        BY <1>1, <3>1, <3>2, CallTyped
      <3>4. UNCHANGED <<pwm, g_motor_available, g_current_motion, g_manual_watchdog_active,
                        g_manual_watchdog_remaining_ms, g_enabled, g_step_index, req, seen,
                        step, crossed, missed, age, wrapped, faults, sent>>
        BY <1>4 DEF SetElapsed, motorVars, watchVars, loadVars, busVars, histVars, boundVars
      <3>5. g_step_elapsed' = 0
        BY <1>4 DEF SetElapsed
      <3>6. TypeOK'
        BY <3>3, <3>4, <3>5 DEF Called, TypeInv, TypeOK
      <3>7. QED
        BY <3>3, <3>4, <3>6, StageKept DEF Called
    <2>3. QED
      BY <2>1, <2>2
  <1>5. CASE Apply(s)
    <2> HIDE DEF TypeInv, TypeOK
    <2>1. Called(s)
      BY <1>1, <1>5, CallTyped DEF Apply
    <2>2. UNCHANGED <<pwm, g_motor_available, g_current_motion, g_manual_watchdog_active,
                      g_manual_watchdog_remaining_ms, g_enabled, g_step_index,
                      g_step_elapsed, req, seen, step, crossed, missed, age, wrapped, faults,
                      sent>>
      BY <1>5 DEF Apply, motorVars, watchVars, routeVars, loadVars, busVars, histVars, boundVars
    <2>3. TypeOK'
      BY <2>1, <2>2 DEF Called, TypeInv, TypeOK
    <2>4. QED
      BY <2>1, <2>2, <2>3, StageKept DEF Called
  <1>6. CASE Arm(s)
    <2>1. g_manual_watchdog_active' \in BOOLEAN
          /\ UNCHANGED <<pwm, motorVars, g_manual_watchdog_remaining_ms, routeVars, req, callVars, loadVars, busVars,
                         histVars, boundVars>>
      BY <1>6 DEF Arm
    <2>2. pc' \in [Threads -> PCs] /\ pc'["task"] = pc["task"]
      BY <1>6, Moved DEF Arm, PCs
    <2>3. QED
      BY <2>1, <2>2 DEF motorVars, routeVars, callVars, loadVars, busVars, histVars, boundVars
  <1>7. CASE ArmRemaining(s)
    <2>1. pc' \in [Threads -> PCs] /\ pc'["task"] = pc["task"]
      BY <1>7 DEF ArmRemaining, Goto, PCs
    <2>2. /\ g_manual_watchdog_remaining_ms' \in 0..ManualTimeoutMs
          /\ age' \in 0..(ManualTimeoutMs + SamplePeriodMs)
      BY <1>7 DEF ArmRemaining
    <2>3. QED
      BY <1>7, <2>1, <2>2 DEF ArmRemaining, motorVars, routeVars, callVars, loadVars, busVars, boundVars
  <1>8. QED
    BY <1>2, <1>3, <1>4, <1>5, <1>6, <1>7 DEF HandlerStep

LEMMA NextTypeInv == TypeInv /\ [Next]_vars => TypeInv'
  <1> SUFFICES ASSUME TypeInv, [Next]_vars PROVE TypeInv'
    OBVIOUS
  <1>1. CASE UNCHANGED vars
    BY <1>1 DEF TypeInv, TypeOK, vars, motorVars, watchVars, routeVars, callVars, loadVars, busVars, histVars,
                boundVars
  <1>2. CASE Next
    BY <1>2, TaskType, MotorType, HandlerType DEF Next
  <1>3. QED
    BY <1>1, <1>2

(* Every variable keeps its type, whatever the sources, the commands, the  *)
(* periods and the faults: in particular the route index stays in range    *)
(* when a handler resets it while the tick advances it (patrol_route.c:61  *)
(* and 76-79), and the watchdog's remaining time is at most the timeout    *)
(* until the tick has subtracted from a value that a stop has made zero    *)
(* since it was compared (car_motor.c:227 and 252-260).                    *)
THEOREM TypeCorrect == Spec => []TypeOK
  <1>1. TypeInv => TypeOK
    BY DEF TypeInv
  <1>2. QED
    BY InitTypeInv, NextTypeInv, <1>1, PTL DEF Spec

-----------------------------------------------------------------------------
(* One manual source: where the threads may be.                            *)

LEMMA OneSource ==
  ASSUME OneManualSource
  PROVE  /\ \A s1, s2 \in Sources : s1 = s2
         /\ \A c \in Commands : c.word # "auto_start"
  BY DEF OneManualSource

(* The steps of the loop under an enabled route: a manual source never     *)
(* enables it.                                                             *)
RouteStep ==
  \/ PatrolStep \/ PatrolIssue
  \/ AdvanceLoad \/ AdvanceStore \/ AdvanceCompare \/ AdvanceReset
  \/ AdvanceIndex \/ StoreIndex \/ IndexCompare \/ IndexReset

LEMMA NoRouteStep == ControlInv => ~RouteStep
  BY DEF RouteStep, ControlInv, PatrolStep, PatrolIssue, AdvanceLoad, AdvanceStore, AdvanceCompare, AdvanceReset,
         AdvanceIndex, StoreIndex, IndexCompare, IndexReset

LEMMA TaskSteps ==
  TaskStep =>
    \/ BootDegraded \/ (\E acked \in 0..Len(StopOrder) : BootMotor(acked)) \/ StartServices
    \/ Wake \/ TickCompare \/ TickLoad \/ TickSubtract \/ TickClear \/ TickClearRemaining
    \/ PatrolEnabled \/ RouteStep \/ DegradedLoop
  BY DEF TaskStep, RouteStep

LEMMA InitControl == OneManualSource /\ Init => ControlInv
  BY ThreadNames DEF Init, ControlInv, InMotor

LEMMA TaskControl ==
  ASSUME OneManualSource, TypeInv, ControlInv, TaskStep
  PROVE  ControlInv'
  <1> USE ThreadNames, ThreadSplit DEF TypeInv, TypeOK, ControlInv, InMotor
  <1>1. CASE BootDegraded
    BY <1>1 DEF BootDegraded, Goto, motorVars, routeVars, callVars
  <1>2. ASSUME NEW acked \in 0..Len(StopOrder), BootMotor(acked) PROVE ControlInv'
    <2>1. /\ job' = [job EXCEPT !["task"] = [motion |-> "stop", duty |-> 0]]
          /\ back' = [back EXCEPT !["task"] = "start"]
          /\ wheel' = wheel /\ req' = req /\ g_enabled' = g_enabled
          /\ \A s \in Sources : pc[s] = "down"
      BY <1>2 DEF BootMotor, routeVars
    <2>2. CASE acked = Len(StopOrder)
      <3>1. pc' = [pc EXCEPT !["task"] = "zero"] /\ g_motor_available'
        BY <1>2, <2>2 DEF BootMotor, Goto
      <3>2. QED
        BY <2>1, <3>1
    <2>3. CASE acked # Len(StopOrder)
      <3>1. pc' = [pc EXCEPT !["task"] = "start"]
        BY <1>2, <2>3 DEF BootMotor, Goto
      <3>2. QED
        BY <2>1, <3>1
    <2>4. QED
      BY <2>2, <2>3
  <1>3. CASE StartServices
    BY <1>3 DEF StartServices, motorVars, callVars
  <1>4. CASE Wake
    BY <1>4 DEF Wake, Goto, motorVars, routeVars, callVars
  <1>5. CASE TickCompare
    BY <1>5 DEF TickCompare, Goto, motorVars, routeVars, callVars
  <1>12. CASE TickLoad
    BY <1>12 DEF TickLoad, Goto, motorVars, routeVars, callVars
  <1>6. CASE TickSubtract
    BY <1>6 DEF TickSubtract, Goto, motorVars, routeVars, callVars
  <1>7. CASE TickClear
    BY <1>7 DEF TickClear, Goto, motorVars, routeVars, callVars
  <1>8. CASE TickClearRemaining
    BY <1>8 DEF TickClearRemaining, CallMotor, Goto, Duty, motorVars, routeVars
  <1>9. CASE PatrolEnabled
    BY <1>9 DEF PatrolEnabled, Goto, motorVars, routeVars, callVars
  <1>10. ~RouteStep
    BY NoRouteStep
  <1>11. CASE DegradedLoop
    BY <1>11 DEF DegradedLoop, vars, motorVars, routeVars, callVars
  <1>13. QED
    BY <1>1, <1>2, <1>3, <1>4, <1>5, <1>6, <1>7, <1>8, <1>9, <1>10, <1>11, <1>12, TaskSteps

LEMMA MotorControl ==
  ASSUME OneManualSource, TypeInv, ControlInv, NEW t \in Threads, MotorStep(t)
  PROVE  ControlInv'
  <1> USE ThreadNames, ThreadSplit DEF TypeInv, TypeOK, ControlInv, InMotor
  <1>1. CASE WriteZero(t)
    BY <1>1 DEF WriteZero, Goto, motorVars, routeVars, callVars
  <1>2. CASE WriteDuty(t)
    BY <1>2 DEF WriteDuty, WheelDone, Goto, Wheels, motorVars, routeVars
  <1>3. CASE WriteLost(t) \/ WriteFails(t)
    <2>1. /\ UNCHANGED <<g_motor_available, g_enabled, req, job, back>>
          /\ pc[t] \in {"zero", "duty"}
      BY <1>3 DEF WriteLost, WriteFails, motorVars, routeVars
    <2>2. \/ /\ pc' = [pc EXCEPT ![t] = "duty"]
             /\ UNCHANGED wheel
          \/ /\ pc' = [pc EXCEPT ![t] = IF wheel[t] = "left" THEN "zero" ELSE "record"]
             /\ wheel' = [wheel EXCEPT ![t] = "right"]
      BY <1>3 DEF WriteLost, WriteFails, WheelDone, Goto
    <2>3. /\ pc' \in [Threads -> PCs] /\ wheel' \in [Threads -> Wheels]
          /\ pc'[t] \in {"zero", "duty", "record"}
          /\ pc'[t] = "record" => wheel'[t] = "right"
          /\ \A u \in Threads \ {t} : pc'[u] = pc[u] /\ wheel'[u] = wheel[u]
      <3>1. CASE pc' = [pc EXCEPT ![t] = "duty"] /\ UNCHANGED wheel
        BY <3>1 DEF PCs
      <3>2. CASE /\ pc' = [pc EXCEPT ![t] = IF wheel[t] = "left" THEN "zero" ELSE "record"]
                 /\ wheel' = [wheel EXCEPT ![t] = "right"]
        <4>1. PICK l \in {"zero", "record"} : pc' = [pc EXCEPT ![t] = l]
          BY <3>2
        <4>2. pc' \in [Threads -> PCs] /\ pc'[t] \in {"zero", "record"}
          BY <4>1 DEF PCs
        <4>3. wheel' \in [Threads -> Wheels] /\ wheel'[t] = "right"
          BY <3>2 DEF Wheels
        <4>4. \A u \in Threads \ {t} : pc'[u] = pc[u] /\ wheel'[u] = wheel[u]
          BY <3>2, <4>1
        <4>5. QED
          BY <4>2, <4>3, <4>4
      <3>3. QED
        BY <2>2, <3>1, <3>2
    <2>4. \A u \in Threads : InMotor(u)' <=> InMotor(u)
      BY <2>1, <2>3
    <2>5. /\ pc'["task"] \in {"boot", "degraded", "start", "sleep", "zero", "duty", "record", "tickCompare",
                             "tickLoad", "tickSubtract", "tickClear", "tickClearRemaining", "patrolEnabled"}
          /\ pc'["task"] \in {"boot", "degraded", "start"} => pc["task"] = pc'["task"]
      BY <2>3
    <2>6. ASSUME NEW s \in Sources
          PROVE  /\ pc'[s] \in {"down", "idle", "zero", "duty", "record",
                                "setIndex", "setElapsed", "apply", "arm", "armRemaining"}
                 /\ pc'[s] = "down" <=> pc[s] = "down"
      BY <2>1, <2>3
    <2>7. ASSUME NEW u \in Threads
          PROVE  /\ InMotor(u)' => g_motor_available'
                 /\ pc'[u] = "record" => wheel'[u] = "right"
      BY <2>1, <2>3, <2>4
    <2>8. QED
      BY <2>1, <2>4, <2>5, <2>6, <2>7
  <1>4. CASE RecordMotion(t)
    BY <1>4 DEF RecordMotion, Goto, routeVars, callVars
  <1>5. QED
    BY <1>1, <1>2, <1>3, <1>4, MotorStep(t) DEF MotorStep

LEMMA HandlerControl ==
  ASSUME OneManualSource, TypeInv, ControlInv, NEW s \in Sources,
         HandlerStep(s) \/ \E c \in Commands : Receive(s, c)
  PROVE  ControlInv'
  <1> USE ThreadNames, ThreadSplit DEF TypeInv, TypeOK, ControlInv, InMotor
  <1>1. ASSUME NEW c \in Commands, Receive(s, c) PROVE ControlInv'
    BY <1>1, OneSource DEF Receive, Goto, motorVars, callVars
  <1>2. CASE SetIndex(s)
    BY <1>2 DEF SetIndex, Goto, motorVars, callVars
  <1>3. CASE SetElapsed(s)
    <2> DEFINE next == IF req[s].word = "auto_stop" THEN "idle" ELSE "apply"
    <2>1. /\ pc[s] = "setElapsed"
          /\ job' = [job EXCEPT ![s] = [motion |-> "stop", duty |-> 0]]
          /\ wheel' = [wheel EXCEPT ![s] = "left"]
          /\ back' = [back EXCEPT ![s] = next]
          /\ req' = req /\ g_enabled' = g_enabled /\ g_motor_available' = g_motor_available
      BY <1>3 DEF SetElapsed, CallMotor, Duty, motorVars
    <2>2. pc' = [pc EXCEPT ![s] = IF g_motor_available THEN "zero" ELSE next]
      BY <1>3 DEF SetElapsed, CallMotor, Goto
    <2>3. next \in {"idle", "apply"}
      OBVIOUS
    <2> HIDE DEF next
    <2>4. CASE g_motor_available
      BY <2>1, <2>2, <2>3, <2>4
    <2>5. CASE ~g_motor_available
      BY <2>1, <2>2, <2>3, <2>5
    <2>6. QED
      BY <2>4, <2>5
  <1>4. CASE Apply(s)
    BY <1>4 DEF Apply, CallMotor, Goto, Duty, motorVars, routeVars
  <1>5. CASE Arm(s)
    <2>1. /\ pc'[s] \in {"idle", "armRemaining"} /\ \A t \in Threads : t # s => pc'[t] = pc[t]
          /\ pc[s] = "arm"
      BY <1>5, Moved DEF Arm, PCs
    <2>2. UNCHANGED <<g_enabled, g_motor_available, job, wheel, back, req>>
      BY <1>5 DEF Arm, motorVars, routeVars, callVars
    <2>3. QED
      BY <2>1, <2>2
  <1>6. CASE ArmRemaining(s)
    BY <1>6 DEF ArmRemaining, Goto, motorVars, routeVars, callVars
  <1>7. QED
    BY <1>1, <1>2, <1>3, <1>4, <1>5, <1>6 DEF HandlerStep

LEMMA NextControl == OneManualSource /\ TypeInv /\ ControlInv /\ [Next]_vars => ControlInv'
  <1> SUFFICES ASSUME OneManualSource, TypeInv, ControlInv, [Next]_vars PROVE ControlInv'
    OBVIOUS
  <1>1. CASE UNCHANGED vars
    BY <1>1 DEF ControlInv, InMotor, vars, motorVars, routeVars, callVars
  <1>2. CASE Next
    BY <1>2, TaskControl, MotorControl, HandlerControl DEF Next
  <1>3. QED
    BY <1>1, <1>2

-----------------------------------------------------------------------------
(* The interlock.                                                          *)

(* motor_set_wheel's two registers are the two half-bridges of the wheel.  *)
LEMMA RegPair ==
  ASSUME NEW w \in Wheels, NEW motion \in Motions
  PROVE  \/ ZeroReg(w, motion) = <<w, "A">> /\ DutyReg(w, motion) = <<w, "B">>
         \/ ZeroReg(w, motion) = <<w, "B">> /\ DutyReg(w, motion) = <<w, "A">>
  BY DEF ZeroReg, DutyReg

LEMMA RegDomain == \A w \in Wheels : <<w, "A">> \in Wheels \X Halves /\ <<w, "B">> \in Wheels \X Halves
  BY DEF Halves

(* motor_try_stop_at reaches every register (car_motor.c:115-135).         *)
LEMMA StopOrderCovers ==
  ASSUME NEW r \in Wheels \X Halves
  PROVE  \E i \in 1..Len(StopOrder) : StopOrder[i] = r
  <1>1. /\ Len(StopOrder) = 4
        /\ StopOrder[1] = <<"left", "A">> /\ StopOrder[2] = <<"left", "B">>
        /\ StopOrder[3] = <<"right", "A">> /\ StopOrder[4] = <<"right", "B">>
    BY DEF StopOrder
  <1>2. r = <<"left", "A">> \/ r = <<"left", "B">> \/ r = <<"right", "A">> \/ r = <<"right", "B">>
    BY DEF Wheels, Halves
  <1>3. QED
    BY <1>1, <1>2

LEMMA BootStops ==
  ASSUME TypeInv, NEW acked \in 0..Len(StopOrder), BootMotor(acked)
  PROVE  g_motor_available' => \A r \in Wheels \X Halves : pwm'[r] = 0
  BY StopOrderCovers DEF BootMotor

LEMMA InitInterlock == Init => InterlockInv
  BY ThreadNames DEF Init, InterlockInv, NoShootThrough

(* Releasing half-bridges, and losing writes, cannot break the interlock.  *)
LEMMA ReleaseKeepsInterlock ==
  ASSUME TypeInv, NoShootThrough, g_motor_available' = g_motor_available,
         \A r \in Wheels \X Halves : pwm'[r] = 0 \/ (pwm'[r] = pwm[r] /\ (r \in missed => r \in missed'))
  PROVE  NoShootThrough'
  <1> SUFFICES ASSUME g_motor_available', NEW w \in Wheels,
                      pwm'[<<w, "A">>] > 0, pwm'[<<w, "B">>] > 0
               PROVE  <<w, "A">> \in missed' \/ <<w, "B">> \in missed'
    BY DEF NoShootThrough
  <1>1. /\ pwm'[<<w, "A">>] = pwm[<<w, "A">>] /\ (<<w, "A">> \in missed => <<w, "A">> \in missed')
        /\ pwm'[<<w, "B">>] = pwm[<<w, "B">>] /\ (<<w, "B">> \in missed => <<w, "B">> \in missed')
    BY RegDomain
  <1>2. <<w, "A">> \in missed \/ <<w, "B">> \in missed
    BY <1>1 DEF NoShootThrough
  <1>3. QED
    BY <1>1, <1>2

(* A step that writes no register and brings no source to its duty write.  *)
LEMMA QuietInterlock ==
  ASSUME TypeInv, InterlockInv,
         UNCHANGED <<pwm, g_motor_available>>, missed \subseteq missed',
         \A s \in Sources : pc'[s] = "duty" => /\ pc[s] = "duty"
                                               /\ wheel'[s] = wheel[s]
                                               /\ job'[s] = job[s]
  PROVE  InterlockInv'
  <1>1. NoShootThrough'
    BY DEF InterlockInv, NoShootThrough
  <1>2. QED
    BY <1>1 DEF InterlockInv, Released, ZeroReg, WheelForward

LEMMA TaskInterlock ==
  ASSUME OneManualSource, TypeInv, ControlInv, InterlockInv, TaskStep
  PROVE  InterlockInv'
  <1>0. ASSUME NEW acked \in 0..Len(StopOrder), BootMotor(acked) PROVE InterlockInv'
    <2>1. \A s \in Sources : pc'[s] = "down"
      BY <1>0, ThreadNames DEF BootMotor, Goto, ControlInv, TypeInv, TypeOK
    <2>2. ASSUME g_motor_available', NEW w \in Wheels PROVE ~(pwm'[<<w, "A">>] > 0)
      <3>1. pwm'[<<w, "A">>] = 0
        BY <1>0, <2>2, BootStops, RegDomain
      <3>2. QED
        BY <3>1
    <2>3. QED
      BY <2>1, <2>2 DEF InterlockInv, NoShootThrough
  <1>1. ASSUME TaskStep, ~ \E acked \in 0..Len(StopOrder) : BootMotor(acked)
        PROVE  /\ UNCHANGED <<pwm, g_motor_available, missed>>
               /\ \A s \in Sources : pc'[s] = "duty" => /\ pc[s] = "duty"
                                                       /\ wheel'[s] = wheel[s]
                                                       /\ job'[s] = job[s]
    <2> USE ThreadNames DEF TypeInv, TypeOK, Goto
    <2>1. CASE BootDegraded \/ DegradedLoop \/ StartServices \/ Wake
      BY <2>1 DEF BootDegraded, DegradedLoop, StartServices, Wake, vars, motorVars, callVars, busVars
    <2>2. CASE TickCompare \/ TickLoad \/ TickSubtract \/ TickClear \/ PatrolEnabled
      BY <2>2 DEF TickCompare, TickLoad, TickSubtract, TickClear, PatrolEnabled, motorVars, callVars, busVars
    <2>3. CASE TickClearRemaining
      BY <2>3 DEF TickClearRemaining, CallMotor, motorVars, busVars
    <2>4. ~RouteStep
      BY NoRouteStep
    <2>5. QED
      BY <1>1, <2>1, <2>2, <2>3, <2>4, TaskSteps
  <1>2. QED
    BY <1>0, <1>1, QuietInterlock

LEMMA MotorInterlock ==
  ASSUME OneManualSource, TypeInv, ControlInv, InterlockInv, NEW t \in Threads, MotorStep(t)
  PROVE  InterlockInv'
  <1> DEFINE w == wheel[t]
             m == job[t].motion
  <1>1. w \in Wheels /\ m \in Motions /\ job[t].duty \in 0..PeriodTicks
    BY DEF TypeInv, TypeOK
  <1>2. pwm \in [Wheels \X Halves -> 0..PeriodTicks]
    BY DEF TypeInv, TypeOK
  <1>3. CASE WriteZero(t)
    <2>1. pwm' = [pwm EXCEPT ![ZeroReg(w, m)] = 0] /\ missed' = missed \ {ZeroReg(w, m)}
      BY <1>3 DEF WriteZero
    <2>3. pwm'[ZeroReg(w, m)] = 0
      BY <1>1, <1>2, <2>1, WheelRegs
    <2>2. \A r \in Wheels \X Halves : pwm'[r] = 0 \/ (pwm'[r] = pwm[r] /\ (r \in missed => r \in missed'))
      BY <1>2, <2>1, <2>3
    <2>4. NoShootThrough'
      BY <1>3, <2>2, ReleaseKeepsInterlock DEF WriteZero, motorVars, InterlockInv
    <2>5. ASSUME NEW s \in Sources, pc'[s] = "duty"
          PROVE  Released(ZeroReg(wheel[s], job[s].motion))'
      <3>1. wheel'[s] = wheel[s] /\ job'[s] = job[s]
        BY <1>3 DEF WriteZero, callVars
      <3> DEFINE z == ZeroReg(wheel[s], job[s].motion)
      <3>2. z \in Wheels \X Halves
        BY WheelRegs, ThreadNames DEF TypeInv, TypeOK
      <3>6. z' = z
        BY <3>1 DEF ZeroReg, WheelForward
      <3>7. pwm'[z] = 0 \/ (Released(z) /\ pwm'[z] = pwm[z] /\ (z \in missed => z \in missed'))
        <4>1. CASE s = t
          BY <2>3, <4>1
        <4>2. CASE s # t
          <5>1. Released(z)
            BY <1>3, <2>5, <4>2, ThreadNames DEF WriteZero, Goto, InterlockInv, TypeInv, TypeOK
          <5>2. QED
            BY <2>2, <3>2, <5>1
        <4>3. QED
          BY <4>1, <4>2
      <3>8. pwm'[z] = 0 \/ z \in missed'
        BY <3>7 DEF Released
      <3>9. QED
        BY <3>6, <3>8 DEF Released
    <2>6. QED
      BY <2>4, <2>5 DEF InterlockInv
  <1>4. CASE WriteDuty(t)
    <2>1. pwm' = [pwm EXCEPT ![DutyReg(w, m)] = job[t].duty] /\ missed' = missed \ {DutyReg(w, m)}
      BY <1>4 DEF WriteDuty
    <2>2. UNCHANGED <<g_motor_available, job>> /\ pc'[t] # "duty"
      BY <1>4 DEF WriteDuty, WheelDone, Goto, motorVars, TypeInv, TypeOK
    <2>3. \A s \in Sources : s # t => pc'[s] = pc[s] /\ wheel'[s] = wheel[s]
      BY <1>4, ThreadNames DEF WriteDuty, WheelDone, Goto, TypeInv, TypeOK
    <2>4. CASE t = "task"
      <3>1. \A r \in Wheels \X Halves : pwm'[r] = 0 \/ (pwm'[r] = pwm[r] /\ (r \in missed => r \in missed'))
        <4>1. job[t].duty = 0
          BY <2>4 DEF ControlInv
        <4>2. QED
          BY <1>2, <2>1, <4>1
      <3>2. NoShootThrough'
        BY <2>2, <3>1, ReleaseKeepsInterlock DEF InterlockInv
      <3>3. ASSUME NEW s \in Sources, pc'[s] = "duty"
            PROVE  Released(ZeroReg(wheel[s], job[s].motion))'
        <4> DEFINE z == ZeroReg(wheel[s], job[s].motion)
        <4>1. s # t
          BY <2>4, ThreadNames
        <4>2. z \in Wheels \X Halves
          BY WheelRegs, ThreadNames DEF TypeInv, TypeOK
        <4>3. Released(z)
          BY <2>3, <3>3, <4>1 DEF InterlockInv
        <4>4. pwm'[z] = 0 \/ z \in missed'
          BY <3>1, <4>2, <4>3 DEF Released
        <4>5. z' = z
          BY <2>2, <2>3, <4>1 DEF ZeroReg, WheelForward
        <4>6. QED
          BY <4>4, <4>5 DEF Released
      <3>4. QED
        BY <3>2, <3>3 DEF InterlockInv
    <2>5. CASE t \in Sources
      <3>1. Released(ZeroReg(w, m)) /\ ZeroReg(w, m) # DutyReg(w, m)
        BY <1>4, <2>5 DEF WriteDuty, InterlockInv, ZeroReg, DutyReg
      <3>2. NoShootThrough'
        <4> SUFFICES ASSUME g_motor_available', NEW v \in Wheels,
                            pwm'[<<v, "A">>] > 0, pwm'[<<v, "B">>] > 0
                     PROVE  <<v, "A">> \in missed' \/ <<v, "B">> \in missed'
          BY DEF NoShootThrough
        <4>1. CASE v = w
          <5>1. ZeroReg(w, m) \in {<<v, "A">>, <<v, "B">>} /\ pwm'[ZeroReg(w, m)] > 0
            BY <1>1, <4>1, RegPair
          <5>2. pwm'[ZeroReg(w, m)] = pwm[ZeroReg(w, m)]
            BY <1>1, <1>2, <2>1, <3>1, WheelRegs
          <5>3. ZeroReg(w, m) \in missed
            BY <3>1, <5>1, <5>2 DEF Released
          <5>4. QED
            BY <2>1, <3>1, <5>1, <5>3
        <4>2. CASE v # w
          <5>1. DutyReg(w, m) # <<v, "A">> /\ DutyReg(w, m) # <<v, "B">>
            BY <4>2 DEF DutyReg
          <5>2. pwm[<<v, "A">>] > 0 /\ pwm[<<v, "B">>] > 0
            BY <1>2, <2>1, <5>1, RegDomain
          <5>3. <<v, "A">> \in missed \/ <<v, "B">> \in missed
            BY <2>2, <5>2 DEF InterlockInv, NoShootThrough
          <5>4. QED
            BY <2>1, <5>1, <5>3
        <4>3. QED
          BY <4>1, <4>2
      <3>3. \A s \in Sources : pc'[s] # "duty"
        BY <2>2, <2>5, OneSource
      <3>4. QED
        BY <3>2, <3>3 DEF InterlockInv
    <2>6. QED
      BY <2>4, <2>5, ThreadSplit
  <1>5. CASE WriteFails(t) \/ RecordMotion(t)
    <2>1. /\ UNCHANGED <<pwm, g_motor_available, job, missed>>
          /\ pc'[t] # "duty"
          /\ \A s \in Sources : s # t => pc'[s] = pc[s] /\ wheel'[s] = wheel[s]
      BY <1>5, ThreadNames
      DEF WriteFails, RecordMotion, WheelDone, Goto, motorVars, callVars, busVars, TypeInv, TypeOK
    <2>2. QED
      BY <2>1, QuietInterlock
  <1>6. CASE WriteLost(t)
    <2>1. /\ UNCHANGED <<pwm, g_motor_available, job>> /\ missed \subseteq missed'
          /\ \A s \in Sources : s # t => pc'[s] = pc[s] /\ wheel'[s] = wheel[s]
      BY <1>6, ThreadNames DEF WriteLost, WheelDone, Goto, motorVars, TypeInv, TypeOK
    <2>2. CASE pc[t] = "zero"
      <3>1. wheel' = wheel /\ ZeroReg(w, m) \in missed'
        BY <1>6, <2>2 DEF WriteLost
      <3>2. NoShootThrough'
        BY <2>1, ReleaseKeepsInterlock DEF InterlockInv
      <3>3. ASSUME NEW s \in Sources, pc'[s] = "duty"
            PROVE  Released(ZeroReg(wheel[s], job[s].motion))'
        <4>1. CASE s = t
          BY <2>1, <3>1, <4>1 DEF Released, ZeroReg, WheelForward
        <4>2. CASE s # t
          <5>1. pc[s] = "duty"
            BY <2>1, <3>3, <4>2
          <5>2. Released(ZeroReg(wheel[s], job[s].motion))
            BY <5>1 DEF InterlockInv
          <5>3. QED
            BY <2>1, <3>1, <5>2 DEF Released, ZeroReg, WheelForward
        <4>3. QED
          BY <4>1, <4>2
      <3>4. QED
        BY <3>2, <3>3 DEF InterlockInv
    <2>3. CASE pc[t] # "zero"
      <3>1. pc'[t] # "duty"
        BY <1>6, <2>3 DEF WriteLost, WheelDone, Goto, TypeInv, TypeOK
      <3>2. QED
        BY <2>1, <3>1, QuietInterlock
    <2>4. QED
      BY <2>2, <2>3
  <1>7. QED
    BY <1>3, <1>4, <1>5, <1>6, MotorStep(t) DEF MotorStep

LEMMA HandlerInterlock ==
  ASSUME OneManualSource, TypeInv, ControlInv, InterlockInv, NEW s \in Sources,
         HandlerStep(s) \/ \E c \in Commands : Receive(s, c)
  PROVE  InterlockInv'
  <1> USE ThreadNames DEF TypeInv, TypeOK, Goto
  <1>1. UNCHANGED <<pwm, g_motor_available, missed>> /\ pc'[s] # "duty"
    BY DEF HandlerStep, Receive, SetIndex, SetElapsed, Apply, Arm, ArmRemaining, CallMotor, motorVars, busVars
  <1>2. \A u \in Sources : u = s
    BY OneSource
  <1>3. QED
    BY <1>1, <1>2, QuietInterlock

LEMMA NextInterlock ==
  OneManualSource /\ TypeInv /\ ControlInv /\ InterlockInv /\ [Next]_vars => InterlockInv'
  <1> SUFFICES ASSUME OneManualSource, TypeInv, ControlInv, InterlockInv, [Next]_vars
               PROVE  InterlockInv'
    OBVIOUS
  <1>1. CASE UNCHANGED vars
    BY <1>1, QuietInterlock DEF vars, motorVars, callVars, busVars
  <1>2. CASE Next
    BY <1>2, TaskInterlock, MotorInterlock, HandlerInterlock DEF Next
  <1>3. QED
    BY <1>1, <1>2

(* With one manual source, no interleaving of the handler with the         *)
(* watchdog and no pattern of failed writes drives both half-bridges of a  *)
(* wheel whose last acknowledged writes have reached the bridge, for every *)
(* set of commands, period and number of faults; lost writes elsewhere do  *)
(* no harm (car_motor.c:78-96).                                            *)
THEOREM Interlock ==
  ASSUME OneManualSource
  PROVE  Spec => []NoShootThrough
  <1>1. InterlockInv => NoShootThrough
    BY DEF InterlockInv
  <1>2. Init => TypeInv /\ ControlInv /\ InterlockInv
    BY InitTypeInv, InitControl, InitInterlock, OneManualSource
  <1>3. TypeInv /\ ControlInv /\ InterlockInv /\ [Next]_vars
        => (TypeInv /\ ControlInv /\ InterlockInv)'
    BY NextTypeInv, NextControl, NextInterlock, OneManualSource
  <1>4. QED
    BY <1>1, <1>2, <1>3, PTL DEF Spec

-----------------------------------------------------------------------------
(* No runaway: one manual source, whichever writes fail.                   *)

(* A register written with zero is released; one that is not written, and  *)
(* whose record is not cleared, stays as it was.                           *)
LEMMA ReleasedStays ==
  ASSUME \A r \in Wheels \X Halves : pwm'[r] = 0 \/ (pwm'[r] = pwm[r] /\ (r \in missed => r \in missed'))
  PROVE  \A r \in Wheels \X Halves : Released(r) => Released(r)'
  BY DEF Released

(* No write of duty zero takes a register's release away.                  *)
LEMMA ZeroWriteReleases ==
  ASSUME TypeInv, NEW t \in Threads, job[t].duty = 0, MotorStep(t)
  PROVE  \A r \in Wheels \X Halves : Released(r) => Released(r)'
  <1>1. pwm \in [Wheels \X Halves -> 0..PeriodTicks]
    BY DEF TypeInv, TypeOK
  <1>2. CASE WriteZero(t) \/ WriteDuty(t)
    BY <1>1, <1>2, ReleasedStays DEF WriteZero, WriteDuty
  <1>3. CASE WriteLost(t) \/ WriteFails(t) \/ RecordMotion(t)
    BY <1>3, ReleasedStays DEF WriteLost, WriteFails, RecordMotion, busVars
  <1>4. QED
    BY <1>2, <1>3 DEF MotorStep

LEMMA InitRunaway == Init => RunawayInv
  BY ThreadNames DEF Init, RunawayInv, CallInv, ReleasedInv, WatchedInv, InMotor

(* The task in a register write: its stop releases and never drives.       *)
LEMMA TaskMotorRunaway ==
  ASSUME OneManualSource, TypeInv, ControlInv, RunawayInv, MotorStep("task")
  PROVE  RunawayInv'
  <1> DEFINE w == wheel["task"]
  <1>1. /\ w \in Wheels
        /\ job["task"].motion = "stop" /\ job["task"].duty = 0
        /\ pwm \in [Wheels \X Halves -> 0..PeriodTicks]
    BY ThreadNames DEF TypeInv, TypeOK, ControlInv
  <1>2. ZeroReg(w, "stop") = <<w, "A">> /\ DutyReg(w, "stop") = <<w, "B">>
    BY <1>1 DEF ZeroReg, DutyReg, WheelForward, Wheels
  <1>4. /\ UNCHANGED <<g_motor_available, watchVars, job, back>>
        /\ \A s \in Sources : pc'[s] = pc[s] /\ wheel'[s] = wheel[s] /\ ok'[s] = ok[s]
    BY ThreadNames, MotorStep("task")
    DEF MotorStep, WriteZero, WriteDuty, WriteLost, WriteFails, RecordMotion, WheelDone, Goto, motorVars, callVars,
        TypeInv, TypeOK
  <1>5. \A r \in Wheels \X Halves : Released(r) => Released(r)'
    BY <1>1, MotorStep("task"), ThreadNames, ZeroWriteReleases
  <1>6. CallInv'
    BY <1>4 DEF RunawayInv, CallInv, InMotor
  <1>7. ReleasedInv'
    BY <1>4, <1>5 DEF RunawayInv, ReleasedInv, InMotor, Written, ZeroReg, WheelForward
  <1>8. (\A s \in Sources : Settled(s))' => \A s \in Sources : Settled(s)
    BY <1>4 DEF Settled, InMotor
  <1>9. ASSUME NEW r \in Wheels \X Halves, StopPending(r), ~WriteFails("task")
        PROVE  Released(r)' \/ StopPending(r)'
    <2>1. ASSUME pc["task"] = "zero", WriteZero("task") \/ WriteLost("task")
          PROVE  Released(r)' \/ StopPending(r)'
      <3>0. pc \in [Threads -> PCs] /\ "task" \in Threads
        BY ThreadNames DEF TypeInv, TypeOK
      <3>5. pc'["task"] = "duty" /\ wheel' = wheel
        BY <2>1, <3>0 DEF WriteZero, WriteLost, Goto, callVars
      <3>6. pwm' = [pwm EXCEPT ![<<w, "A">>] = 0] \/ <<w, "A">> \in missed'
        BY <1>1, <1>2, <2>1 DEF WriteZero, WriteLost
      <3>1. /\ pc'["task"] = "duty" /\ wheel' = wheel
            /\ pwm' = [pwm EXCEPT ![<<w, "A">>] = 0] \/ <<w, "A">> \in missed'
        BY <3>5, <3>6
      <3>2. CASE r = <<w, "A">>
        BY <1>1, <3>1, <3>2 DEF Released
      <3>3. CASE r # <<w, "A">>
        BY <1>1, <1>2, <1>4, <1>9, <2>1, <3>1, <3>3 DEF StopPending, Written
      <3>4. QED
        BY <3>2, <3>3
    <2>2. ASSUME pc["task"] = "duty", WriteDuty("task") \/ WriteLost("task")
          PROVE  Released(r)' \/ StopPending(r)'
      <3>0. pc \in [Threads -> PCs] /\ wheel \in [Threads -> Wheels] /\ "task" \in Threads
        BY ThreadNames DEF TypeInv, TypeOK
      <3>6. pwm' = [pwm EXCEPT ![<<w, "B">>] = 0] \/ <<w, "B">> \in missed'
        BY <1>1, <1>2, <2>2 DEF WriteDuty, WriteLost
      <3>7. WheelDone("task")
        BY <2>2 DEF WriteDuty, WriteLost
      <3>1. /\ pwm' = [pwm EXCEPT ![<<w, "B">>] = 0] \/ <<w, "B">> \in missed'
            /\ wheel'["task"] = "right"
            /\ pc'["task"] = IF w = "left" THEN "zero" ELSE "record"
        BY <3>0, <3>6, <3>7 DEF WheelDone, Goto
      <3>2. ~Written("task", r)
        BY <1>9, <2>2 DEF StopPending
      <3>3. CASE r = <<w, "B">>
        BY <1>1, <3>1, <3>3 DEF Released
      <3>4. CASE r # <<w, "B">>
        <4>1. r # <<w, "A">>
          BY <1>1, <1>2, <2>2, <3>2 DEF Written
        <4>2. r[1] # w
          BY <3>4, <4>1 DEF Halves
        <4>3. w = "left" /\ r[1] = "right"
          BY <1>1, <3>2, <4>2 DEF Written, Wheels
        <4>4. QED
          BY <3>1, <4>3 DEF StopPending, Written
      <3>5. QED
        BY <3>3, <3>4
    <2>3. CASE RecordMotion("task")
      BY <1>9, <2>3 DEF RecordMotion, StopPending
    <2>4. QED
      BY <1>9, <2>1, <2>2, <2>3, MotorStep("task") DEF MotorStep, WriteZero, WriteDuty, WriteLost
  <1>10. WatchedInv'
    <2>1. CASE WriteFails("task")
      <3>1. ~ok'["task"]
        BY <2>1, ThreadNames DEF WriteFails, TypeInv, TypeOK
      <3>2. QED
        BY <3>1, ThreadNames DEF WatchedInv, NoneFailed
    <2>2. CASE ~WriteFails("task")
      <3>1. ok' = ok
        BY <2>2, MotorStep("task") DEF MotorStep, WriteZero, WriteDuty, WriteLost, RecordMotion, callVars
      <3>2. QED
        BY <1>4, <1>5, <1>8, <1>9, <2>2, <3>1 DEF RunawayInv, WatchedInv, watchVars, NoneFailed
    <2>3. QED
      BY <2>1, <2>2
  <1>11. QED
    BY <1>6, <1>7, <1>10 DEF RunawayInv

LEMMA TaskRunaway ==
  ASSUME OneManualSource, TypeInv, ControlInv, RunawayInv, TaskStep
  PROVE  RunawayInv'
  <1>1. ASSUME NEW acked \in 0..Len(StopOrder), BootMotor(acked) PROVE RunawayInv'
    <2>1. \A s \in Sources : pc'[s] = "down"
      BY <1>1, ThreadNames DEF BootMotor, Goto, ControlInv, TypeInv, TypeOK
    <2>2. g_motor_available' => \A r \in Wheels \X Halves : Released(r)'
      BY <1>1, BootStops DEF Released
    <2>3. QED
      BY <2>1, <2>2 DEF RunawayInv, CallInv, ReleasedInv, WatchedInv, InMotor
  <1>2. CASE StartServices
    <2>1. /\ UNCHANGED <<pwm, missed, g_motor_available, g_manual_watchdog_active, job, ok>>
          /\ pc["task"] = "start"
          /\ \A s \in Sources : pc[s] = "down" /\ pc'[s] = "idle"
      BY <1>2, ThreadNames DEF StartServices, motorVars, watchVars, callVars, busVars, ControlInv
    <2>2. \A r : Released(r)' = Released(r)
      BY <2>1 DEF Released
    <2>3. QED
      BY <2>1, <2>2 DEF RunawayInv, CallInv, ReleasedInv, WatchedInv, InMotor, Settled, StopPending, NoneFailed
  <1>3. ASSUME \/ BootDegraded \/ DegradedLoop \/ Wake \/ TickCompare \/ TickLoad
               \/ TickSubtract \/ TickClear \/ TickClearRemaining \/ PatrolEnabled
        PROVE  RunawayInv'
    <2>1. /\ UNCHANGED <<pwm, missed, g_motor_available>>
          /\ \A s \in Sources : /\ pc'[s] = pc[s] /\ wheel'[s] = wheel[s] /\ job'[s] = job[s]
                                /\ ok'[s] = ok[s] /\ back'[s] = back[s]
      BY <1>3, ThreadNames
      DEF BootDegraded, DegradedLoop, Wake, TickCompare, TickLoad, TickSubtract, TickClear, TickClearRemaining,
          PatrolEnabled, CallMotor, Goto, vars, motorVars, callVars, busVars, TypeInv, TypeOK
    <2>8. \A r : Released(r)' = Released(r)
      BY <2>1 DEF Released
    <2>2. CallInv' /\ ReleasedInv'
      BY <2>1, <2>8 DEF RunawayInv, CallInv, ReleasedInv, InMotor, Written, ZeroReg, WheelForward
    <2>3. (\A s \in Sources : Settled(s))' => \A s \in Sources : Settled(s)
      BY <2>1 DEF Settled, InMotor
    <2>4. CASE TickClear
      <3>1. pc'["task"] = "tickClearRemaining"
        BY <2>4, ThreadNames DEF TickClear, Goto, TypeInv, TypeOK
      <3>2. QED
        BY <2>2, <3>1 DEF RunawayInv, WatchedInv, StopPending
    <2>5. CASE TickClearRemaining
      <3>1. g_motor_available => pc'["task"] = "zero" /\ wheel'["task"] = "left"
        BY <2>5, ThreadNames DEF TickClearRemaining, CallMotor, Goto, TypeInv, TypeOK
      <3>2. \A r \in Wheels \X Halves : g_motor_available => StopPending(r)'
        BY <3>1 DEF StopPending, Written
      <3>3. QED
        BY <2>1, <2>2, <3>2 DEF RunawayInv, WatchedInv
    <2>6. ASSUME ~TickClear, ~TickClearRemaining PROVE RunawayInv'
      <3>1. UNCHANGED <<g_manual_watchdog_active, ok>>
        BY <1>3, <2>6
        DEF BootDegraded, DegradedLoop, Wake, TickCompare, TickLoad, TickSubtract, PatrolEnabled, vars, watchVars,
            callVars
      <3>2. \A r \in Wheels \X Halves : ~StopPending(r)
        BY <1>3, <2>6
        DEF BootDegraded, DegradedLoop, Wake, TickCompare, TickLoad, TickSubtract, PatrolEnabled, StopPending
      <3>3. QED
        BY <2>1, <2>2, <2>3, <2>8, <3>1, <3>2 DEF RunawayInv, WatchedInv, NoneFailed
    <2>7. QED
      BY <2>4, <2>5, <2>6
  <1>4. ~RouteStep
    BY NoRouteStep
  <1>5. QED
    BY <1>1, <1>2, <1>3, <1>4, TaskSteps

(* The source in a register write: a stop releases, a motion will be armed. *)
LEMMA SourceMotorRunaway ==
  ASSUME OneManualSource, TypeInv, ControlInv, RunawayInv,
         NEW s \in Sources, MotorStep(s)
  PROVE  RunawayInv'
  <1> DEFINE w == wheel[s]
             m == job[s].motion
  <1>1. /\ w \in Wheels /\ m \in Motions /\ s \in Threads /\ s # "task"
        /\ pwm \in [Wheels \X Halves -> 0..PeriodTicks]
        /\ \A u \in Sources : u = s
    BY ThreadNames, OneSource DEF TypeInv, TypeOK
  <1>2. ASSUME WriteFails(s) PROVE ~ok'[s]
    BY <1>1, <1>2 DEF WriteFails, TypeInv, TypeOK
  <1>3. /\ UNCHANGED <<g_motor_available, watchVars, job, back>>
        /\ ~WriteFails(s) => ok' = ok
    BY MotorStep(s)
    DEF MotorStep, WriteZero, WriteDuty, WriteLost, WriteFails, WheelDone, RecordMotion, Goto, motorVars, callVars
  <1>4. InMotor(s) /\ (back[s] # "arm" => m = "stop")
    BY MotorStep(s)
    DEF MotorStep, WriteZero, WriteDuty, WriteLost, WriteFails, RecordMotion, InMotor, RunawayInv, CallInv
  <1>5. pc'[s] \in {"zero", "duty", "record"} \/ (pc[s] = "record" /\ pc'[s] = back[s])
    <2>1. pc \in [Threads -> PCs]
      BY DEF TypeInv, TypeOK
    <2>2. CASE WriteZero(s)
      BY <1>1, <2>1, <2>2 DEF WriteZero, Goto
    <2>3. CASE WriteDuty(s) \/ WriteLost(s) \/ WriteFails(s)
      BY <1>1, <2>1, <2>3 DEF WriteDuty, WriteLost, WriteFails, WheelDone, Goto
    <2>4. CASE RecordMotion(s)
      BY <1>1, <2>1, <2>4 DEF RecordMotion, Goto
    <2>5. QED
      BY <2>2, <2>3, <2>4, MotorStep(s) DEF MotorStep
  <1>6. CallInv'
    <2>1. back[s] \in {"idle", "apply", "arm"}
      BY DEF ControlInv
    <2>2. QED
      BY <1>1, <1>3, <1>4, <1>5, <2>1 DEF CallInv, InMotor
  <1>7. m = "stop" => \A r \in Wheels \X Halves : Released(r) => Released(r)'
    <2>1. m = "stop" => job[s].duty = 0
      BY DEF ControlInv
    <2>2. QED
      BY <1>1, <2>1, MotorStep(s), ZeroWriteReleases
  <1>8. ASSUME m = "stop", ok[s], ~WriteFails(s), NEW r \in Wheels \X Halves,
               (InMotor(s)' /\ Written(s, r)') \/ pc'[s] = "arm"
        PROVE  Released(r)'
    <2>1. ZeroReg(w, m) = <<w, "A">> /\ DutyReg(w, m) = <<w, "B">> /\ job[s].duty = 0
      BY <1>1, <1>8 DEF ZeroReg, DutyReg, WheelForward, Wheels, ControlInv
    <2>2. Written(s, r) => Released(r)
      BY <1>4, <1>8 DEF RunawayInv, ReleasedInv
    <2>3. ASSUME pc[s] = "zero", WriteZero(s) \/ WriteLost(s) PROVE Released(r)'
      <3>1. /\ pwm' = [pwm EXCEPT ![<<w, "A">>] = 0] \/ <<w, "A">> \in missed'
            /\ pc'[s] = "duty" /\ wheel' = wheel
        BY <1>1, <2>1, <2>3 DEF WriteZero, WriteLost, Goto, callVars, TypeInv, TypeOK
      <3>2. CASE r = <<w, "A">>
        BY <1>1, <3>1, <3>2 DEF Released
      <3>3. CASE r # <<w, "A">>
        <4>1. ZeroReg(wheel'[s], job'[s].motion) = <<w, "A">>
          BY <1>3, <2>1, <3>1 DEF ZeroReg, WheelForward
        <4>2. Written(s, r)
          BY <1>8, <3>1, <3>3, <4>1 DEF Written
        <4>3. QED
          BY <1>7, <1>8, <2>2, <4>2
      <3>4. QED
        BY <3>2, <3>3
    <2>4. ASSUME pc[s] = "duty", WriteDuty(s) \/ WriteLost(s) PROVE Released(r)'
      <3>1. /\ pwm' = [pwm EXCEPT ![<<w, "B">>] = 0] \/ <<w, "B">> \in missed'
            /\ pc[s] = "duty"
            /\ wheel'[s] = "right"
            /\ pc'[s] = IF w = "left" THEN "zero" ELSE "record"
        BY <1>1, <2>1, <2>4 DEF WriteDuty, WriteLost, WheelDone, Goto, TypeInv, TypeOK
      <3>2. CASE r = <<w, "B">>
        BY <1>1, <3>1, <3>2 DEF Released
      <3>3. CASE r = <<w, "A">>
        BY <1>7, <1>8, <2>1, <2>2, <3>1, <3>3 DEF Written
      <3>4. CASE r # <<w, "A">> /\ r # <<w, "B">>
        <4>1. r[1] # w /\ r[1] \in Wheels
          BY <3>4 DEF Halves
        <4>2. CASE w = "left"
          <5>1. pc'[s] = "zero"
            BY <3>1, <4>2
          <5>2. ~Written(s, r)' /\ pc'[s] # "arm"
            BY <3>1, <4>1, <4>2, <5>1 DEF Written
          <5>3. QED
            BY <1>8, <5>2
        <4>3. CASE w = "right"
          BY <1>7, <1>8, <2>2, <4>1, <4>3 DEF Written, Wheels
        <4>4. QED
          BY <1>1, <4>2, <4>3 DEF Wheels
      <3>5. QED
        BY <3>2, <3>3, <3>4
    <2>5. CASE RecordMotion(s)
      <3>1. Written(s, r)
        BY <2>5 DEF RecordMotion, Written
      <3>2. QED
        BY <1>7, <1>8, <2>2, <3>1
    <2>6. QED
      BY <1>8, <2>3, <2>4, <2>5, MotorStep(s) DEF MotorStep, WriteZero, WriteDuty, WriteLost
  <1>9. ReleasedInv'
    <2>1. CASE WriteFails(s)
      BY <1>1, <1>2, <2>1 DEF ReleasedInv
    <2>2. CASE ~WriteFails(s)
      BY <1>1, <1>3, <1>8, <2>2 DEF ReleasedInv
    <2>3. QED
      BY <2>1, <2>2
  <1>10. WatchedInv'
    <2>1. CASE ok[s] /\ pc[s] = "record" /\ m = "stop"
      <3>2. \A r \in Wheels \X Halves : Released(r)
        BY <1>4, <2>1 DEF RunawayInv, ReleasedInv, Written
      <3>3. QED
        BY <1>7, <2>1, <3>2 DEF WatchedInv
    <2>2. CASE ~ok[s] /\ ~WriteFails(s)
      BY <1>1, <1>3, <2>2 DEF WatchedInv, NoneFailed
    <2>3. CASE WriteFails(s)
      BY <1>1, <1>2, <2>3 DEF WatchedInv, NoneFailed
    <2>4. CASE ~(pc[s] = "record" /\ m = "stop")
      <3>1. ~Settled(s)'
        BY <1>4, <1>5, <2>4 DEF Settled, InMotor
      <3>2. QED
        BY <3>1 DEF WatchedInv
    <2>5. QED
      BY <2>1, <2>2, <2>3, <2>4
  <1>11. QED
    BY <1>6, <1>9, <1>10 DEF RunawayInv

LEMMA HandlerRunaway ==
  ASSUME OneManualSource, TypeInv, ControlInv, RunawayInv, NEW s \in Sources,
         HandlerStep(s) \/ \E c \in Commands : Receive(s, c)
  PROVE  RunawayInv'
  <1> USE ThreadNames DEF TypeInv, TypeOK
  <1>1. \A u \in Sources : u = s
    BY OneSource
  <1>0. /\ UNCHANGED <<pwm, missed, g_motor_available>>
        /\ pc'["task"] = pc["task"] /\ wheel'["task"] = wheel["task"] /\ job'["task"] = job["task"]
    BY DEF HandlerStep, Receive, SetIndex, SetElapsed, Apply, Arm, ArmRemaining, CallMotor, Goto,
           motorVars, callVars, busVars
  <1>2. /\ UNCHANGED g_motor_available /\ pc'["task"] = pc["task"]
        /\ wheel'["task"] = wheel["task"] /\ job'["task"] = job["task"]
        /\ \A r : Released(r)' = Released(r)
    BY <1>0 DEF Released
  <1>3. \A r \in Wheels \X Halves : StopPending(r) => StopPending(r)'
    BY <1>2 DEF StopPending, Written, ZeroReg, WheelForward
  <1>4. CASE (\E c \in Commands : Receive(s, c)) \/ SetIndex(s) \/ ArmRemaining(s)
    <2>1. /\ Settled(s)
          /\ UNCHANGED <<g_manual_watchdog_active, ok>>
          /\ pc'[s] \in {"setIndex", "setElapsed", "idle"}
      BY <1>4 DEF Receive, SetIndex, ArmRemaining, Goto, Settled, InMotor, watchVars, callVars
    <2>2. QED
      BY <1>1, <1>2, <1>3, <2>1 DEF RunawayInv, CallInv, ReleasedInv, WatchedInv, InMotor, NoneFailed
  <1>5. ASSUME NEW motion \in Motions, NEW speed, NEW next \in {"idle", "apply", "arm"},
               CallMotor(s, motion, speed, next),
               next # "arm" => motion = "stop"
        PROVE  RunawayInv'
    <2>1. /\ job'[s].motion = motion
          /\ ok'[s] = g_motor_available
          /\ back'[s] = next
          /\ wheel'[s] = "left"
          /\ pc'[s] = IF g_motor_available THEN "zero" ELSE next
      BY <1>5 DEF CallMotor, Goto
    <2>2. CallInv'
      BY <1>1, <1>5, <2>1 DEF CallInv, InMotor
    <2>3. ReleasedInv'
      <3>1. ASSUME ok'[s], NEW r \in Wheels \X Halves
            PROVE  ~(InMotor(s)' /\ Written(s, r)') /\ pc'[s] # "arm"
        BY <1>5, <2>1, <3>1 DEF InMotor, Written
      <3>2. QED
        BY <1>1, <3>1 DEF ReleasedInv
    <2>4. WatchedInv'
      BY <1>2, <2>1 DEF WatchedInv, Settled, InMotor
    <2>5. QED
      BY <2>2, <2>3, <2>4 DEF RunawayInv
  <1>6. CASE SetElapsed(s)
    <2> DEFINE next == IF req[s].word = "auto_stop" THEN "idle" ELSE "apply"
    <2>1. CallMotor(s, "stop", 0, next)
      BY <1>6 DEF SetElapsed, ControlInv
    <2>2. "stop" \in Motions /\ next \in {"idle", "apply", "arm"}
      BY DEF Motions
    <2> HIDE DEF next
    <2>3. QED
      BY <1>5, <2>1, <2>2
  <1>7. CASE Apply(s)
    <2>1. CallMotor(s, MotionOf(req[s].word), req[s].speed, "arm")
      BY <1>7 DEF Apply
    <2>2. MotionOf(req[s].word) \in Motions
      BY DEF MotionOf, Motions
    <2>3. QED
      BY <1>5, <2>1, <2>2
  <1>8. CASE Arm(s)
    <2>1. /\ pc[s] = "arm" /\ pc'[s] \in {"armRemaining", "idle"} /\ UNCHANGED ok
          /\ ok[s] => g_manual_watchdog_active' = (job[s].motion # "stop")
      BY <1>8 DEF Arm, Goto, callVars
    <2>2. CallInv' /\ ReleasedInv'
      BY <1>1, <2>1 DEF CallInv, ReleasedInv, InMotor
    <2>3. WatchedInv'
      <3>1. CASE ok[s] /\ job[s].motion # "stop"
        BY <2>1, <3>1 DEF WatchedInv
      <3>2. CASE ok[s] /\ job[s].motion = "stop"
        BY <1>2, <2>1, <3>2 DEF RunawayInv, ReleasedInv, WatchedInv
      <3>3. CASE ~ok[s]
        BY <2>1, <3>3 DEF WatchedInv, NoneFailed, Threads
      <3>4. QED
        BY <3>1, <3>2, <3>3
    <2>4. QED
      BY <2>2, <2>3 DEF RunawayInv
  <1>9. QED
    BY <1>4, <1>6, <1>7, <1>8 DEF HandlerStep

LEMMA NextRunaway ==
  OneManualSource /\ TypeInv /\ ControlInv /\ RunawayInv /\ [Next]_vars => RunawayInv'
  <1> SUFFICES ASSUME OneManualSource, TypeInv, ControlInv, RunawayInv, [Next]_vars
               PROVE  RunawayInv'
    OBVIOUS
  <1>1. CASE UNCHANGED vars
    <2>1. UNCHANGED <<pwm, missed, g_motor_available, g_manual_watchdog_active, pc, job, wheel, ok, back>>
      BY <1>1 DEF vars, motorVars, watchVars, callVars, busVars
    <2>2. QED
      BY <2>1 DEF RunawayInv, CallInv, ReleasedInv, WatchedInv, InMotor, Settled, NoneFailed, StopPending,
                  Released, Written, ZeroReg, WheelForward
  <1>2. CASE Next
    <2>1. ASSUME NEW t \in Threads, MotorStep(t) PROVE RunawayInv'
      BY <2>1, ThreadSplit, TaskMotorRunaway, SourceMotorRunaway
    <2>2. QED
      BY <1>2, <2>1, TaskRunaway, HandlerRunaway DEF Next
  <1>3. QED
    BY <1>1, <1>2

(* With one manual source, whichever writes fail, no wheel turns unwatched *)
(* while all threads of the car wait, unless the last command of one of    *)
(* them has failed or the last acknowledged write to that wheel was lost   *)
(* on the bus: every interleaving of the handler with the watchdog leaves  *)
(* either a stopped car or an armed watchdog (car_motor.c:218-261,         *)
(* wifi_ap.c:133-164).                                                     *)
THEOREM ManualNeverRunsAway ==
  ASSUME OneManualSource
  PROVE  Spec => []NoRunaway
  <1>1. RunawayInv => NoRunaway
    BY DEF RunawayInv, WatchedInv, NoRunaway, AtRest, Stopped, Settled, InMotor, StopPending
  <1>2. Init => TypeInv /\ ControlInv /\ RunawayInv
    BY InitTypeInv, InitControl, InitRunaway, OneManualSource
  <1>3. TypeInv /\ ControlInv /\ RunawayInv /\ [Next]_vars => (TypeInv /\ ControlInv /\ RunawayInv)'
    BY NextTypeInv, NextControl, NextRunaway, OneManualSource
  <1>4. QED
    BY <1>1, <1>2, <1>3, PTL DEF Spec

-----------------------------------------------------------------------------
(* Manual motion ends in time.                                             *)

LEMMA InitAge == Init => AgeInv
  BY ThreadNames DEF Init, AgeInv, ChargeInv, LoadInv, Armed

(* A step that leaves the watchdog, its age and what the tick loaded alone *)
(* keeps AgeInv, unless it brings the tick to another stage of its work or *)
(* lifts a source out of armRemaining.                                     *)
TickStages == {"tickCompare", "tickLoad", "tickSubtract"}

LEMMA AgeKept ==
  ASSUME AgeInv,
         UNCHANGED <<watchVars, age, seen, wrapped>>,
         Armed' => Armed,
         pc'["task"] = pc["task"] \/ (pc["task"] \notin TickStages /\ pc'["task"] \notin TickStages)
  PROVE  AgeInv'
  BY DEF AgeInv, ChargeInv, LoadInv, Charging, TickStages, watchVars

(* The tick charges the period, compares, loads once more and subtracts.   *)
LEMMA TickAge ==
  ASSUME TypeInv, AgeInv, Wake \/ TickCompare \/ TickLoad \/ TickSubtract
  PROVE  AgeInv'
  <1> USE CarAssumption, ThreadNames
  <1>1. /\ pc \in [Threads -> PCs] /\ wrapped \in BOOLEAN /\ age \in Nat /\ seen \in Nat
        /\ SamplePeriodMs \in Nat \ {0} /\ ManualTimeoutMs \in Nat \ {0}
        /\ g_manual_watchdog_remaining_ms \in Nat
        /\ ~wrapped => g_manual_watchdog_remaining_ms <= ManualTimeoutMs
    BY DEF TypeInv, TypeOK
  <1>2. CASE Wake
    <2>1. /\ UNCHANGED <<g_manual_watchdog_active, g_manual_watchdog_remaining_ms, wrapped>>
          /\ pc["task"] = "sleep" /\ \A s \in Sources : pc'[s] = pc[s]
          /\ pc'["task"] = IF g_manual_watchdog_active THEN "tickCompare" ELSE "patrolEnabled"
          /\ age' = IF age < ManualTimeoutMs THEN age + SamplePeriodMs ELSE age
      BY <1>1, <1>2 DEF Wake, Goto, watchVars
    <2>2. LoadInv'
      BY <2>1 DEF LoadInv
    <2>3. ChargeInv'
      BY <1>1, <2>1 DEF AgeInv, ChargeInv, Armed, Charging
    <2>4. QED
      BY <2>2, <2>3 DEF AgeInv
  <1>3. CASE TickCompare
    <2>1. /\ UNCHANGED <<g_manual_watchdog_active, g_manual_watchdog_remaining_ms, age, wrapped>>
          /\ pc["task"] = "tickCompare" /\ \A s \in Sources : pc'[s] = pc[s]
          /\ pc'["task"] = IF SamplePeriodMs >= g_manual_watchdog_remaining_ms THEN "tickClear" ELSE "tickLoad"
      BY <1>1, <1>3 DEF TickCompare, Goto, watchVars, histVars
    <2>2. LoadInv'
      BY <1>1, <2>1 DEF LoadInv
    <2>3. ChargeInv'
      BY <1>1, <2>1 DEF AgeInv, ChargeInv, Armed, Charging
    <2>4. QED
      BY <2>2, <2>3 DEF AgeInv
  <1>4. CASE TickLoad
    <2>1. /\ UNCHANGED <<g_manual_watchdog_active, g_manual_watchdog_remaining_ms, age, wrapped>>
          /\ pc["task"] = "tickLoad" /\ \A s \in Sources : pc'[s] = pc[s]
          /\ pc'["task"] = "tickSubtract" /\ seen' = g_manual_watchdog_remaining_ms
      BY <1>1, <1>4 DEF TickLoad, Goto, watchVars, histVars
    <2>2. LoadInv'
      BY <1>1, <2>1 DEF AgeInv, LoadInv
    <2>3. ChargeInv'
      BY <1>1, <2>1 DEF AgeInv, ChargeInv, Armed, Charging
    <2>4. QED
      BY <2>2, <2>3 DEF AgeInv
  <1>5. CASE TickSubtract
    <2>1. /\ UNCHANGED <<g_manual_watchdog_active, age>>
          /\ pc["task"] = "tickSubtract" /\ \A s \in Sources : pc'[s] = pc[s]
          /\ pc'["task"] = "patrolEnabled"
          /\ g_manual_watchdog_remaining_ms' = Minus(seen, SamplePeriodMs)
          /\ wrapped' = (wrapped \/ seen < SamplePeriodMs)
      BY <1>1, <1>5 DEF TickSubtract, Goto
    <2>2. LoadInv'
      BY <2>1 DEF LoadInv
    <2>3. ~wrapped' => ~wrapped /\ seen > SamplePeriodMs /\ seen <= ManualTimeoutMs
      <3>1. ~wrapped' => ~wrapped /\ ~(seen < SamplePeriodMs)
        BY <1>1, <2>1
      <3>2. ~wrapped => seen \notin 1..SamplePeriodMs
        BY <2>1 DEF AgeInv, LoadInv
      <3>3. ~wrapped => seen <= ManualTimeoutMs
        BY <2>1 DEF TypeInv
      <3>4. QED
        BY <1>1, <3>1, <3>2, <3>3
    <2>4. ~wrapped' => g_manual_watchdog_remaining_ms' = seen - SamplePeriodMs
      BY <1>1, <2>1, <2>3, MinusExact
    <2>5. Armed' => Armed
      BY <2>1 DEF Armed
    <2>6. ChargeInv'
      <3> SUFFICES ASSUME Armed', ~wrapped'
                   PROVE  /\ g_manual_watchdog_remaining_ms' + age' <= ManualTimeoutMs
                          /\ age' < ManualTimeoutMs
        BY <1>1, <2>1 DEF ChargeInv, Charging
      <3>1. seen + age <= ManualTimeoutMs + SamplePeriodMs
        BY <2>1, <2>3, <2>5 DEF AgeInv, ChargeInv
      <3>2. QED
        BY <1>1, <2>1, <2>3, <2>4, <3>1
    <2>7. QED
      BY <2>2, <2>6 DEF AgeInv
  <1>6. QED
    BY <1>2, <1>3, <1>4, <1>5

LEMMA TaskAge == TypeInv /\ ControlInv /\ AgeInv /\ TaskStep => AgeInv'
  <1> SUFFICES ASSUME TypeInv, ControlInv, AgeInv, TaskStep PROVE AgeInv'
    OBVIOUS
  <1>0. pc \in [Threads -> PCs] /\ "task" \in Threads /\ "task" \notin Sources
    BY ThreadNames DEF TypeInv, TypeOK
  <1>1. CASE BootDegraded \/ (\E acked \in 0..Len(StopOrder) : BootMotor(acked)) \/ StartServices
    <2>1. /\ UNCHANGED <<watchVars, age, seen, wrapped>>
          /\ pc["task"] \in {"boot", "start"}
          /\ pc'["task"] \in {"degraded", "zero", "start", "sleep"}
          /\ \A s \in Sources : pc'[s] = pc[s] \/ pc[s] = "down"
      BY <1>0, <1>1 DEF BootDegraded, BootMotor, StartServices, Goto, ControlInv, loadVars, histVars
    <2>2. QED
      BY <2>1, AgeKept DEF Armed, TickStages, watchVars
  <1>2. CASE Wake \/ TickCompare \/ TickLoad \/ TickSubtract
    BY <1>2, TickAge
  <1>3. CASE TickClear
    <2>1. pc'["task"] = "tickClearRemaining" /\ ~g_manual_watchdog_active'
      BY <1>0, <1>3 DEF TickClear, Goto
    <2>2. QED
      BY <2>1 DEF AgeInv, ChargeInv, LoadInv, Armed
  <1>4. CASE TickClearRemaining
    <2>1. /\ UNCHANGED <<g_manual_watchdog_active, age, wrapped>> /\ g_manual_watchdog_remaining_ms' = 0
          /\ pc["task"] = "tickClearRemaining" /\ pc'["task"] \in {"zero", "patrolEnabled"}
          /\ \A s \in Sources : pc'[s] = pc[s]
      BY <1>0, <1>4 DEF TickClearRemaining, CallMotor, Goto, histVars
    <2>2. g_manual_watchdog_remaining_ms \in Nat /\ age \in Nat /\ ManualTimeoutMs \in Nat
      BY CarAssumption DEF TypeInv, TypeOK
    <2>3. QED
      BY <2>1, <2>2 DEF AgeInv, ChargeInv, LoadInv, Armed, Charging
  <1>5. CASE PatrolEnabled
    <2>1. /\ UNCHANGED <<watchVars, age, seen, wrapped>>
          /\ pc["task"] = "patrolEnabled" /\ pc'["task"] \in {"patrolStep", "sleep"}
          /\ \A s \in Sources : pc'[s] = pc[s]
      BY <1>0, <1>5 DEF PatrolEnabled, Goto, loadVars, histVars
    <2>2. QED
      BY <2>1, AgeKept DEF Armed, TickStages, watchVars
  <1>6. CASE DegradedLoop
    <2>1. UNCHANGED <<watchVars, age, seen, wrapped, pc>>
      BY <1>6 DEF DegradedLoop, vars, watchVars, loadVars, histVars
    <2>2. QED
      BY <2>1, AgeKept DEF Armed, watchVars
  <1>7. ~RouteStep
    BY NoRouteStep
  <1>8. QED
    BY <1>1, <1>2, <1>3, <1>4, <1>5, <1>6, <1>7, TaskSteps

LEMMA MotorAge ==
  ASSUME TypeInv, AgeInv, NEW t \in Threads, MotorStep(t) PROVE AgeInv'
  <1>1. /\ UNCHANGED <<watchVars, age, seen, wrapped>>
        /\ pc[t] \in {"zero", "duty", "record"}
        /\ \E label \in {"zero", "duty", "record", back[t]} : pc' = [pc EXCEPT ![t] = label]
    BY MotorStep(t)
    DEF MotorStep, WriteLost, WriteFails, WriteZero, WriteDuty, RecordMotion, WheelDone, Goto, watchVars, loadVars,
        histVars
  <1>2. back[t] \in {"start", "idle", "patrolEnabled", "advanceLoad", "apply", "arm"} /\ pc \in [Threads -> PCs]
    BY DEF TypeInv, TypeOK
  <1>3. QED
    BY <1>1, <1>2, AgeKept, ThreadNames DEF Armed, TickStages, watchVars

LEMMA HandlerAge ==
  ASSUME TypeInv, AgeInv, NEW s \in Sources,
         HandlerStep(s) \/ \E c \in Commands : Receive(s, c)
  PROVE  AgeInv'
  <1>0. /\ pc \in [Threads -> PCs] /\ s \in Threads /\ s # "task" /\ "task" \in Threads
        /\ \A u \in Sources : u \in Threads
    BY ThreadNames DEF TypeInv, TypeOK
  <1>1. CASE ArmRemaining(s)
    <2>1. /\ g_manual_watchdog_remaining_ms' \in {0, ManualTimeoutMs} /\ age' = 0
          /\ UNCHANGED <<seen, wrapped>> /\ pc'["task"] = pc["task"]
      BY <1>0, <1>1 DEF ArmRemaining, Goto, loadVars
    <2>2. /\ SamplePeriodMs \in Nat \ {0} /\ ManualTimeoutMs \in Nat \ {0} /\ seen \in Nat
          /\ pc["task"] = "tickSubtract" /\ ~wrapped => seen <= ManualTimeoutMs
      BY CarAssumption DEF TypeInv, TypeOK
    <2>3. ChargeInv'
      <3>1. ManualTimeoutMs \in Nat /\ ManualTimeoutMs > 0 /\ SamplePeriodMs \in Nat
        BY <2>2
      <3>2. \A charging \in {0, SamplePeriodMs} :
              /\ g_manual_watchdog_remaining_ms' + age' <= ManualTimeoutMs + charging
              /\ age' < ManualTimeoutMs + charging
        <4>1. age' = 0
          BY <2>1
        <4>2. CASE g_manual_watchdog_remaining_ms' = 0
          BY <3>1, <4>1, <4>2
        <4>3. CASE g_manual_watchdog_remaining_ms' = ManualTimeoutMs
          BY <3>1, <4>1, <4>3
        <4>4. QED
          BY <2>1, <4>2, <4>3
      <3>3. pc'["task"] = "tickSubtract" /\ ~wrapped' => seen' + age' <= ManualTimeoutMs + SamplePeriodMs
        <4>1. pc'["task"] = "tickSubtract" /\ ~wrapped' => seen <= ManualTimeoutMs
          BY <2>1, <2>2
        <4>2. seen' = seen /\ age' = 0
          BY <2>1
        <4>3. QED
          BY <2>2, <4>1, <4>2
      <3>4. QED
        BY <3>2, <3>3 DEF ChargeInv, Charging
    <2>4. LoadInv'
      BY <2>1, <2>2 DEF AgeInv, LoadInv
    <2>5. QED
      BY <2>3, <2>4 DEF AgeInv
  <1>2. CASE Arm(s)
    <2>1. /\ UNCHANGED <<g_manual_watchdog_remaining_ms, age, seen, wrapped>> /\ pc'["task"] = pc["task"]
          /\ ok[s] => pc'[s] = "armRemaining"
          /\ ~ok[s] => UNCHANGED g_manual_watchdog_active /\ pc[s] = "arm"
          /\ \A u \in Sources : u # s => pc'[u] = pc[u]
      BY <1>0, <1>2 DEF Arm, Goto, loadVars, histVars
    <2>2. CASE ok[s]
      <3>1. ~Armed'
        BY <2>1, <2>2 DEF Armed
      <3>2. LoadInv'
        BY <2>1 DEF AgeInv, LoadInv
      <3>3. QED
        BY <3>1, <3>2 DEF AgeInv, ChargeInv
    <2>3. CASE ~ok[s]
      BY <2>1, <2>3, AgeKept DEF Armed, watchVars
    <2>4. QED
      BY <2>2, <2>3
  <1>3. CASE SetIndex(s) \/ SetElapsed(s) \/ Apply(s) \/ \E c \in Commands : Receive(s, c)
    <2>1. /\ UNCHANGED <<watchVars, age, seen, wrapped>> /\ pc'["task"] = pc["task"]
          /\ pc[s] # "armRemaining"
          /\ \A u \in Sources : u # s => pc'[u] = pc[u]
      BY <1>0, <1>3 DEF SetIndex, SetElapsed, Apply, Receive, CallMotor, Goto, loadVars, histVars
    <2>2. QED
      BY <2>1, AgeKept DEF Armed, watchVars
  <1>4. QED
    BY <1>1, <1>2, <1>3 DEF HandlerStep

LEMMA NextAge == TypeInv /\ ControlInv /\ AgeInv /\ [Next]_vars => AgeInv'
  <1> SUFFICES ASSUME TypeInv, ControlInv, AgeInv, [Next]_vars PROVE AgeInv'
    OBVIOUS
  <1>1. CASE UNCHANGED vars
    BY <1>1, AgeKept DEF Armed, vars, watchVars, loadVars, histVars
  <1>2. QED
    BY <1>1, TaskAge, MotorAge, HandlerAge DEF Next

(* What the loop and a manual source do to a car at rest, for every period *)
(* and timeout: the strengthened invariant, and that it implies the rest.  *)
ManualInv == TypeInv /\ ControlInv /\ RunawayInv /\ AgeInv

LEMMA ManualInvariant == OneManualSource => (Init => ManualInv) /\ (ManualInv /\ [Next]_vars => ManualInv')
  BY InitTypeInv, InitControl, InitRunaway, InitAge, NextTypeInv, NextControl, NextRunaway, NextAge DEF ManualInv

LEMMA ManualInTime == ManualInv => StopsInTime
  <1> SUFFICES ASSUME ManualInv, AtRest, g_motor_available, NoneFailed, ~g_enabled, ~wrapped, ~Stopped
               PROVE  age < ManualTimeoutMs
    BY DEF StopsInTime
  <1>1. g_manual_watchdog_active
    BY DEF ManualInv, RunawayInv, WatchedInv, AtRest, Stopped, Settled, InMotor, StopPending
  <1>2. ChargeInv /\ Armed /\ Charging = 0
    BY <1>1 DEF ManualInv, AgeInv, Armed, Charging, AtRest
  <1>3. age \in Nat /\ ManualTimeoutMs \in Nat
    BY CarAssumption DEF ManualInv, TypeInv, TypeOK
  <1>4. QED
    BY <1>2, <1>3 DEF ChargeInv

(* With one manual source, whichever writes fail or are lost and however   *)
(* the handler and the tick interleave in arming, charging and clearing    *)
(* the watchdog, a car whose threads all wait moves only while fewer       *)
(* milliseconds than the timeout have been charged since its last command, *)
(* unless the last command of a thread has failed, the wheel's last write  *)
(* was lost, or the tick has subtracted from a zero stored since it        *)
(* compared (car_motor.c:218-261).                                         *)
THEOREM ManualStopsInTime ==
  ASSUME OneManualSource
  PROVE  Spec => []StopsInTime
  BY ManualInvariant, ManualInTime, OneManualSource, PTL DEF Spec

(* The exception cannot happen in the car as it is built, whose period of  *)
(* a second exceeds the timeout of 800 ms: the tick then never goes past   *)
(* the comparison, whatever the sources and the commands                   *)
(* (car_motor.c:12 and 252-260).                                           *)
UnwrappedInv == TypeInv /\ ~wrapped /\ pc["task"] \notin {"tickLoad", "tickSubtract"}

LEMMA NextUnwrapped ==
  ASSUME SamplePeriodMs >= ManualTimeoutMs, UnwrappedInv, [Next]_vars
  PROVE  UnwrappedInv'
  <1> USE ThreadNames
  <1>a. TypeInv /\ ~wrapped /\ pc["task"] \notin {"tickLoad", "tickSubtract"}
    BY DEF UnwrappedInv
  <1>b. /\ pc \in [Threads -> PCs]
        /\ g_manual_watchdog_remaining_ms \in 0..(Word - 1)
        /\ wrapped \/ g_manual_watchdog_remaining_ms <= ManualTimeoutMs
        /\ back \in [Threads -> {"start", "idle", "patrolEnabled", "advanceLoad", "apply", "arm"}]
    BY <1>a DEF TypeInv, TypeOK
  <1>c. \A t \in Threads : back[t] \notin {"tickLoad", "tickSubtract"}
    BY <1>b
  <1>d. SamplePeriodMs \in Nat /\ ManualTimeoutMs \in Nat /\ Word \in Nat
    BY CarAssumption
  <1>e. SamplePeriodMs >= g_manual_watchdog_remaining_ms
    <2>1. g_manual_watchdog_remaining_ms <= ManualTimeoutMs
      BY <1>a, <1>b
    <2>2. QED
      BY <1>b, <1>d, <2>1
  <1>0. /\ TypeInv /\ ~wrapped /\ pc["task"] \notin {"tickLoad", "tickSubtract"}
        /\ pc \in [Threads -> PCs]
        /\ SamplePeriodMs >= g_manual_watchdog_remaining_ms
        /\ \A t \in Threads : back[t] \notin {"tickLoad", "tickSubtract"}
    BY <1>a, <1>b, <1>c, <1>e
  <1>1. TypeInv'
    BY <1>0, NextTypeInv
  <1>2. /\ wrapped' = wrapped
        /\ pc'["task"] \notin {"tickLoad", "tickSubtract"}
    <2>1. CASE UNCHANGED vars
      BY <1>0, <2>1 DEF vars, histVars
    <2>2. CASE BootDegraded \/ (\E acked \in 0..Len(StopOrder) : BootMotor(acked)) \/ StartServices \/ DegradedLoop
      BY <1>0, <2>2 DEF BootDegraded, BootMotor, StartServices, DegradedLoop, Goto, vars, histVars
    <2>3. CASE Wake \/ TickCompare \/ TickClear \/ PatrolEnabled
      BY <1>0, <2>3 DEF Wake, TickCompare, TickClear, PatrolEnabled, Goto, histVars
    <2>4. CASE TickLoad \/ TickSubtract
      BY <1>0, <2>4 DEF TickLoad, TickSubtract
    <2>5. CASE TickClearRemaining
      BY <1>0, <2>5 DEF TickClearRemaining, CallMotor, Goto, histVars
    <2>6. CASE RouteStep
      BY <1>0, <2>6
      DEF RouteStep, PatrolStep, PatrolIssue, AdvanceLoad, AdvanceStore, AdvanceCompare, AdvanceReset, AdvanceIndex,
          StoreIndex, IndexCompare, IndexReset, CallMotor, Goto, histVars
    <2>7. ASSUME NEW t \in Threads, MotorStep(t)
          PROVE  wrapped' = wrapped /\ pc'["task"] \notin {"tickLoad", "tickSubtract"}
      BY <1>0, <2>7
      DEF MotorStep, WriteZero, WriteDuty, WriteLost, WriteFails, RecordMotion, WheelDone, Goto, histVars
    <2>8. ASSUME NEW s \in Sources, HandlerStep(s) \/ \E c \in Commands : Receive(s, c)
          PROVE  wrapped' = wrapped /\ pc'["task"] \notin {"tickLoad", "tickSubtract"}
      BY <1>0, <2>8
      DEF HandlerStep, SetIndex, SetElapsed, Apply, Arm, ArmRemaining, Receive, CallMotor, Goto, histVars
    <2>9. QED
      BY <2>1, <2>2, <2>3, <2>4, <2>5, <2>6, <2>7, <2>8, TaskSteps DEF Next
  <1>3. QED
    BY <1>0, <1>1, <1>2 DEF UnwrappedInv

(* As long as the period is not shorter than the timeout, the remaining    *)
(* time never wraps, for any number of sources and all commands: it is at  *)
(* most the timeout in every reachable state (car_motor.c:246-261).        *)
THEOREM NeverWraps ==
  ASSUME SamplePeriodMs >= ManualTimeoutMs
  PROVE  Spec => [](~wrapped /\ g_manual_watchdog_remaining_ms <= ManualTimeoutMs)
  <1>1. Init => UnwrappedInv
    BY InitTypeInv, ThreadNames DEF Init, UnwrappedInv
  <1>2. UnwrappedInv /\ [Next]_vars => UnwrappedInv'
    BY NextUnwrapped, SamplePeriodMs >= ManualTimeoutMs
  <1>3. UnwrappedInv => ~wrapped /\ g_manual_watchdog_remaining_ms <= ManualTimeoutMs
    BY DEF UnwrappedInv, TypeInv, TypeOK
  <1>4. QED
    BY <1>1, <1>2, <1>3, PTL DEF Spec

-----------------------------------------------------------------------------
(* A motion that reports success is what the wheels have been given.       *)

LEMMA InitAcked == Init => AckedInv
  BY ThreadNames DEF Init, AckedInv, InMotor

(* Whoever else releases half-bridges, or loses writes, leaves what a      *)
(* source has written.                                                     *)
LEMMA ReleaseKeepsAcked ==
  ASSUME AckedInv,
         \A r \in Wheels \X Halves : pwm'[r] = 0 \/ (pwm'[r] = pwm[r] /\ (r \in missed => r \in missed')),
         \A s \in Sources : /\ pc'[s] = pc[s] /\ wheel'[s] = wheel[s]
                            /\ job'[s] = job[s] /\ ok'[s] = ok[s]
  PROVE  AckedInv'
  <1> SUFFICES ASSUME NEW s \in Sources, ok'[s], NEW r \in Wheels \X Halves,
                      (InMotor(s) /\ Written(s, r))' \/ pc'[s] = "arm"
               PROVE  pwm'[r] \in Wanted(s, r)' \/ r \in missed'
    BY DEF AckedInv
  <1>1. pc'[s] = pc[s] /\ wheel'[s] = wheel[s] /\ job'[s] = job[s] /\ ok[s]
    OBVIOUS
  <1>2. Wanted(s, r)' = Wanted(s, r) /\ 0 \in Wanted(s, r)
    BY <1>1 DEF Wanted, ZeroReg, WheelForward
  <1>3. (InMotor(s) /\ Written(s, r)) \/ pc[s] = "arm"
    BY <1>1 DEF InMotor, Written, ZeroReg, WheelForward
  <1>4. pwm[r] \in Wanted(s, r) \/ r \in missed
    BY <1>1, <1>3 DEF AckedInv
  <1>5. QED
    BY <1>2, <1>4

LEMMA TaskAcked ==
  ASSUME TypeInv, ControlInv, AckedInv, TaskStep \/ MotorStep("task")
  PROVE  AckedInv'
  <1> USE ThreadNames DEF TypeInv, TypeOK
  <1>1. CASE MotorStep("task")
    <2>1. \A r \in Wheels \X Halves : pwm'[r] = 0 \/ (pwm'[r] = pwm[r] /\ (r \in missed => r \in missed'))
      <3>1. job["task"].duty = 0
        BY DEF ControlInv
      <3>2. CASE WriteZero("task")
        BY <3>2 DEF WriteZero
      <3>3. CASE WriteDuty("task")
        BY <3>1, <3>3 DEF WriteDuty
      <3>4. CASE WriteLost("task") \/ WriteFails("task") \/ RecordMotion("task")
        BY <3>4 DEF WriteLost, WriteFails, RecordMotion, busVars
      <3>5. QED
        BY <1>1, <3>2, <3>3, <3>4 DEF MotorStep
    <2>2. \A s \in Sources : /\ pc'[s] = pc[s] /\ wheel'[s] = wheel[s]
                             /\ job'[s] = job[s] /\ ok'[s] = ok[s]
      BY <1>1
      DEF MotorStep, WriteZero, WriteDuty, WriteLost, WriteFails, RecordMotion, WheelDone, Goto, motorVars, callVars
    <2>3. QED
      BY <2>1, <2>2, ReleaseKeepsAcked
  <1>2. ASSUME NEW acked \in 0..Len(StopOrder), BootMotor(acked) PROVE AckedInv'
    <2>1. \A s \in Sources : pc'[s] = "down"
      BY <1>2 DEF BootMotor, Goto, ControlInv
    <2>2. QED
      BY <2>1 DEF AckedInv, InMotor
  <1>3. CASE StartServices
    <2>1. \A s \in Sources : pc'[s] = "idle"
      BY <1>3 DEF StartServices
    <2>2. QED
      BY <2>1 DEF AckedInv, InMotor
  <1>4. ASSUME \/ BootDegraded \/ DegradedLoop \/ Wake \/ TickCompare \/ TickLoad
               \/ TickSubtract \/ TickClear \/ TickClearRemaining \/ PatrolEnabled
        PROVE  AckedInv'
    <2>1. /\ UNCHANGED <<pwm, missed>>
          /\ \A s \in Sources : /\ pc'[s] = pc[s] /\ wheel'[s] = wheel[s] /\ job'[s] = job[s]
                                /\ ok'[s] = ok[s]
      BY <1>4
      DEF BootDegraded, DegradedLoop, Wake, TickCompare, TickLoad, TickSubtract, TickClear, TickClearRemaining,
          PatrolEnabled, CallMotor, Goto, vars, motorVars, callVars, busVars
    <2>2. QED
      BY <2>1, ReleaseKeepsAcked
  <1>5. ~RouteStep
    BY NoRouteStep
  <1>6. QED
    BY <1>1, <1>2, <1>3, <1>4, <1>5, TaskSteps

(* A register write of the source: the register it writes is as wanted,    *)
(* and the others it has written are left alone.                           *)
LEMMA SourceMotorAcked ==
  ASSUME OneManualSource, TypeInv, ControlInv, AckedInv, NEW s \in Sources, MotorStep(s)
  PROVE  AckedInv'
  <1> DEFINE w == wheel[s]
             m == job[s].motion
  <1>1. /\ w \in Wheels /\ m \in Motions /\ s \in Threads
        /\ pwm \in [Wheels \X Halves -> 0..PeriodTicks]
        /\ pc \in [Threads -> PCs] /\ ok \in [Threads -> BOOLEAN] /\ wheel \in [Threads -> Wheels]
        /\ \A u \in Sources : u = s
    BY ThreadNames, OneSource DEF TypeInv, TypeOK
  <1>2. CASE WriteFails(s)
    <2>1. ~ok'[s]
      BY <1>1, <1>2 DEF WriteFails
    <2>2. QED
      BY <1>1, <2>1 DEF AckedInv
  <1>3. ASSUME ~WriteFails(s), ok[s], NEW r \in Wheels \X Halves,
               (InMotor(s)' /\ Written(s, r)') \/ pc'[s] = "arm"
        PROVE  pwm'[r] \in Wanted(s, r) \/ r \in missed'
    <2>0. r[1] \in Wheels /\ r[2] \in Halves /\ r = <<r[1], r[2]>>
      OBVIOUS
    <2>1. Written(s, r) /\ InMotor(s) => pwm[r] \in Wanted(s, r) \/ r \in missed
      BY <1>3 DEF AckedInv
    <2>2. CASE WriteZero(s)
      <3>1. /\ pwm' = [pwm EXCEPT ![ZeroReg(w, m)] = 0] /\ pc[s] = "zero" /\ pc'[s] = "duty"
            /\ wheel' = wheel /\ job' = job /\ missed' = missed \ {ZeroReg(w, m)}
        BY <1>1, <2>2 DEF WriteZero, Goto, callVars
      <3>2. CASE r = ZeroReg(w, m)
        BY <1>1, <3>1, <3>2 DEF Wanted
      <3>3. CASE r # ZeroReg(w, m)
        <4>1. Written(s, r) /\ pwm'[r] = pwm[r] /\ (r \in missed => r \in missed')
          BY <1>3, <3>1, <3>3 DEF Written, ZeroReg, WheelForward
        <4>2. QED
          BY <2>1, <3>1, <4>1 DEF InMotor
      <3>4. QED
        BY <3>2, <3>3
    <2>3. CASE WriteDuty(s)
      <3>1. /\ pwm' = [pwm EXCEPT ![DutyReg(w, m)] = job[s].duty] /\ pc[s] = "duty"
            /\ wheel'[s] = "right" /\ job' = job /\ missed' = missed \ {DutyReg(w, m)}
            /\ pc'[s] = IF w = "left" THEN "zero" ELSE "record"
        BY <1>1, <2>3 DEF WriteDuty, WheelDone, Goto
      <3>2. CASE r = DutyReg(w, m)
        <4>1. pwm'[r] = job[s].duty
          BY <1>1, <3>1, <3>2
        <4>2. r # ZeroReg(r[1], m)
          BY <1>1, <3>2 DEF ZeroReg, DutyReg
        <4>3. QED
          BY <4>1, <4>2 DEF Wanted
      <3>3. CASE r = ZeroReg(w, m)
        <4>1. Written(s, r) /\ pwm'[r] = pwm[r] /\ (r \in missed => r \in missed')
          BY <1>1, <3>1, <3>3 DEF Written, ZeroReg, DutyReg
        <4>2. QED
          BY <2>1, <3>1, <4>1 DEF InMotor
      <3>4. CASE r # DutyReg(w, m) /\ r # ZeroReg(w, m)
        <4>1. r[1] # w
          BY <2>0, <3>4 DEF ZeroReg, DutyReg, Halves
        <4>2. CASE w = "left"
          <5>1. pc'[s] = "zero" /\ r[1] # "left"
            BY <3>1, <4>1, <4>2
          <5>2. QED
            BY <1>3, <5>1 DEF Written
        <4>3. CASE w = "right"
          <5>1. Written(s, r) /\ pwm'[r] = pwm[r] /\ (r \in missed => r \in missed')
            BY <2>0, <3>1, <3>4, <4>1, <4>3 DEF Written, Wheels
          <5>2. QED
            BY <2>1, <3>1, <5>1 DEF InMotor
        <4>4. QED
          BY <1>1, <4>2, <4>3 DEF Wheels
      <3>5. QED
        BY <3>2, <3>3, <3>4
    <2>4. CASE RecordMotion(s)
      <3>1. Written(s, r) /\ InMotor(s) /\ pwm' = pwm /\ missed' = missed
        BY <2>4 DEF RecordMotion, Written, InMotor, busVars
      <3>2. QED
        BY <2>1, <3>1
    <2>5. CASE WriteLost(s)
      <3> DEFINE lost == IF pc[s] = "zero" THEN ZeroReg(w, m) ELSE DutyReg(w, m)
      <3>1. /\ pwm' = pwm /\ missed' = missed \cup {lost} /\ job' = job
            /\ \/ pc[s] = "zero" /\ pc'[s] = "duty" /\ wheel' = wheel
               \/ /\ pc[s] = "duty" /\ wheel'[s] = "right"
                  /\ pc'[s] = IF w = "left" THEN "zero" ELSE "record"
        BY <1>1, <2>5 DEF WriteLost, WheelDone, Goto
      <3>2. r # lost => Written(s, r) /\ InMotor(s)
        <4>1. CASE pc[s] = "zero"
          BY <1>3, <3>1, <4>1 DEF Written, InMotor, ZeroReg, WheelForward
        <4>2. CASE pc[s] = "duty" /\ r[1] = w
          BY <2>0, <4>2 DEF Written, InMotor, ZeroReg, DutyReg, Halves
        <4>3. CASE pc[s] = "duty" /\ r[1] # w
          <5>1. w = "right"
            BY <1>1, <1>3, <2>0, <3>1, <4>3 DEF Written, Wheels
          <5>2. QED
            BY <2>0, <4>3, <5>1 DEF Written, InMotor, Wheels
        <4>4. QED
          BY <3>1, <4>1, <4>2, <4>3
      <3>3. QED
        BY <2>1, <3>1, <3>2
    <2>6. QED
      BY <1>3, <2>2, <2>3, <2>4, <2>5, MotorStep(s) DEF MotorStep
  <1>4. CASE ~WriteFails(s)
    <2>1. job' = job /\ ok' = ok
      BY <1>4, MotorStep(s) DEF MotorStep, WriteZero, WriteDuty, WriteLost, RecordMotion, callVars
    <2>2. \A r : Wanted(s, r)' = Wanted(s, r)
      BY <2>1 DEF Wanted, ZeroReg, WheelForward
    <2>3. QED
      BY <1>1, <1>3, <1>4, <2>1, <2>2 DEF AckedInv
  <1>5. QED
    BY <1>2, <1>4

LEMMA HandlerAcked ==
  ASSUME OneManualSource, TypeInv, AckedInv, NEW s \in Sources,
         HandlerStep(s) \/ \E c \in Commands : Receive(s, c)
  PROVE  AckedInv'
  <1> USE ThreadNames DEF TypeInv, TypeOK
  <1>1. \A u \in Sources : u = s
    BY OneSource
  <1>2. CASE (\E c \in Commands : Receive(s, c)) \/ SetIndex(s) \/ Arm(s) \/ ArmRemaining(s)
    <2>1. pc'[s] \in {"setIndex", "setElapsed", "armRemaining", "idle"}
      BY <1>2 DEF Receive, SetIndex, Arm, ArmRemaining, Goto
    <2>2. QED
      BY <1>1, <2>1 DEF AckedInv, InMotor
  <1>3. ASSUME NEW motion, NEW speed, NEW next \in {"idle", "apply", "arm"},
               CallMotor(s, motion, speed, next)
        PROVE  AckedInv'
    <2>1. /\ ok'[s] = g_motor_available
          /\ wheel'[s] = "left"
          /\ pc'[s] = IF g_motor_available THEN "zero" ELSE next
      BY <1>3 DEF CallMotor, Goto
    <2>2. ASSUME ok'[s], NEW r \in Wheels \X Halves
          PROVE  ~(InMotor(s)' /\ Written(s, r)') /\ pc'[s] # "arm"
      BY <1>3, <2>1, <2>2 DEF InMotor, Written
    <2>3. QED
      BY <1>1, <2>2 DEF AckedInv
  <1>4. CASE SetElapsed(s)
    <2>1. CASE req[s].word = "auto_start"
      <3>1. pc'[s] = "idle"
        BY <1>4, <2>1 DEF SetElapsed, Goto
      <3>2. QED
        BY <1>1, <3>1 DEF AckedInv, InMotor
    <2>2. CASE req[s].word # "auto_start"
      BY <1>3, <1>4, <2>2 DEF SetElapsed
    <2>3. QED
      BY <2>1, <2>2
  <1>5. CASE Apply(s)
    BY <1>3, <1>5 DEF Apply
  <1>6. QED
    BY <1>2, <1>4, <1>5 DEF HandlerStep

LEMMA NextAcked ==
  OneManualSource /\ TypeInv /\ ControlInv /\ AckedInv /\ [Next]_vars => AckedInv'
  <1> SUFFICES ASSUME OneManualSource, TypeInv, ControlInv, AckedInv, [Next]_vars PROVE AckedInv'
    OBVIOUS
  <1>1. CASE UNCHANGED vars
    BY <1>1, ReleaseKeepsAcked DEF vars, callVars, busVars
  <1>2. CASE Next
    <2>1. ASSUME NEW t \in Threads, MotorStep(t) PROVE AckedInv'
      BY <2>1, ThreadSplit, TaskAcked, SourceMotorAcked
    <2>2. QED
      BY <1>2, <2>1, TaskAcked, HandlerAcked DEF Next
  <1>3. QED
    BY <1>1, <1>2

(* With one manual source, a motion command that reports success has       *)
(* released one half-bridge of each wheel and given the other its duty,    *)
(* whichever writes failed or were lost before and whatever the watchdog   *)
(* has stopped meanwhile, except in the registers whose own write was lost *)
(* on the bus (motor_apply, car_motor.c:108-113).                          *)
THEOREM AckedIsApplied ==
  ASSUME OneManualSource
  PROVE  Spec => []AckedMotionApplied
  <1>1. TypeInv /\ AckedInv => AckedMotionApplied
    <2> SUFFICES ASSUME TypeInv, AckedInv, NEW s \in Sources, pc[s] = "arm", ok[s], NEW w \in Wheels
                 PROVE  LET z == ZeroReg(w, job[s].motion)
                            d == DutyReg(w, job[s].motion)
                        IN  Released(z) /\ (pwm[d] \in {0, job[s].duty} \/ d \in missed)
      BY DEF AckedMotionApplied
    <2> DEFINE z == ZeroReg(w, job[s].motion)
               d == DutyReg(w, job[s].motion)
    <2>1. z \in Wheels \X Halves /\ d \in Wheels \X Halves /\ z[1] = w /\ d[1] = w /\ z # d
      BY DEF ZeroReg, DutyReg, Halves
    <2>2. (pwm[z] \in Wanted(s, z) \/ z \in missed) /\ (pwm[d] \in Wanted(s, d) \/ d \in missed)
      BY <2>1 DEF AckedInv
    <2>3. QED
      BY <2>1, <2>2 DEF Wanted, Released
  <1>2. Init => TypeInv /\ ControlInv /\ AckedInv
    BY InitTypeInv, InitControl, InitAcked, OneManualSource
  <1>3. TypeInv /\ ControlInv /\ AckedInv /\ [Next]_vars => (TypeInv /\ ControlInv /\ AckedInv)'
    BY NextTypeInv, NextControl, NextAcked, OneManualSource
  <1>4. QED
    BY <1>1, <1>2, <1>3, PTL DEF Spec
=============================================================================
