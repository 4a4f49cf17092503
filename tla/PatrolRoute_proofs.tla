-------------------------- MODULE PatrolRoute_proofs --------------------------
(* Proofs about the timed route of CarMotion: for any number of threads    *)
(* that start it, and whichever writes fail, the wheels run the step that  *)
(* the car is in the middle of.                                            *)
EXTENDS CarMotion_proofs

(* The steps of PATROL_ROUTE that outlast a tick of a second, and what the *)
(* others are (patrol_route.c:13-19).                                      *)
LEMMA RouteSteps ==
  /\ \A k \in 1..Len(Route) : k \in Straight \/ Route[k].duration_ms <= 1000
  /\ Route[1].motion = Route[3].motion /\ Route[1].speed = Route[3].speed
  BY DEF Route, Straight

LEMMA StraightRuns == ASSUME NEW k \in Straight, Runs(1) PROVE Runs(k)
  BY RouteSteps DEF Runs, Straight

LEMMA StraightSteps == Straight \subseteq 1..Len(Route) /\ 1 \in Straight
  BY RouteLen DEF Straight

LEMMA OnlyStart == ASSUME OnlyStarts, NEW c \in Commands PROVE c.word = "auto_start"
  BY DEF OnlyStarts

LEMMA Period == OnlyStarts => SamplePeriodMs \in Nat /\ SamplePeriodMs >= 1000
  BY CarAssumption DEF OnlyStarts

-----------------------------------------------------------------------------
(* Steps that write no register.                                           *)

LEMMA InitRoute == Init => RouteControl /\ RouteIndex /\ RouteWheels
  <1> SUFFICES ASSUME Init PROVE RouteControl /\ RouteIndex /\ RouteWheels
    OBVIOUS
  <1>1. /\ pc["task"] = "boot" /\ \A s \in Sources : pc[s] = "down"
        /\ g_motor_available = FALSE /\ g_manual_watchdog_active = FALSE /\ g_step_elapsed = 0
        /\ crossed = FALSE /\ missed = {}
    BY ThreadNames DEF Init
  <1>2. QED
    BY <1>1 DEF RouteControl, RouteIndex, RouteWheels, Comparing, InStep, InMotor

(* The watchdog is never armed.                                            *)
LEMMA NoTick == RouteControl => ~(TickCompare \/ TickLoad \/ TickSubtract \/ TickClear \/ TickClearRemaining)
  BY DEF TickCompare, TickLoad, TickSubtract, TickClear, TickClearRemaining, RouteControl

(* The loop has the bus to itself: no write of it is lost.                 *)
LEMMA NoneLost == RouteControl => ~WriteLost("task")
  BY ThreadNames DEF RouteControl, WriteLost

LEMMA TaskRouteControl ==
  ASSUME TypeInv, RouteControl, TaskStep \/ MotorStep("task")
  PROVE  RouteControl'
  <1> USE ThreadNames DEF TypeInv, TypeOK
  <1>1. ASSUME NEW acked \in 0..Len(StopOrder), BootMotor(acked) PROVE RouteControl'
    BY <1>1 DEF BootMotor, Goto, RouteControl, InMotor, watchVars, busVars
  <1>2. CASE StartServices
    BY <1>2 DEF StartServices, RouteControl, InMotor, watchVars, busVars
  <1>3. CASE PatrolIssue
    <2>1. /\ pc'["task"] \in {"zero", "advanceLoad"}
          /\ pc'["task"] = "zero" => back'["task"] = "advanceLoad"
          /\ \A s \in Sources : pc'[s] = pc[s] /\ req'[s] = req[s]
          /\ UNCHANGED <<g_manual_watchdog_active, crossed, missed>>
      BY <1>3 DEF PatrolIssue, CallMotor, Goto, watchVars, busVars
    <2>2. QED
      BY <2>1 DEF RouteControl, InMotor
  <1>4. CASE BootDegraded \/ DegradedLoop \/ Wake \/ PatrolEnabled
    BY <1>4
    DEF BootDegraded, DegradedLoop, Wake, PatrolEnabled, Goto, RouteControl, InMotor, vars, watchVars, callVars,
        busVars
  <1>5. CASE RouteStep /\ ~PatrolIssue
    BY <1>5
    DEF RouteStep, PatrolStep, AdvanceLoad, AdvanceStore, AdvanceCompare, AdvanceReset, AdvanceIndex, StoreIndex,
        IndexCompare, IndexReset, Goto, RouteControl, InMotor, watchVars, callVars, busVars
  <1>6. CASE MotorStep("task")
    <2>1. /\ pc["task"] \in {"zero", "duty", "record"}
          /\ pc'["task"] \in {"zero", "duty", "record"} \/ pc'["task"] = back["task"]
          /\ \A s \in Sources : pc'[s] = pc[s]
          /\ UNCHANGED <<back, req, g_manual_watchdog_active>>
      BY <1>6
      DEF MotorStep, WriteZero, WriteDuty, WriteLost, WriteFails, RecordMotion, WheelDone, Goto, watchVars, callVars
    <2>2. crossed' = FALSE /\ missed' = {}
      BY <1>6, NoneLost DEF MotorStep, WriteZero, WriteDuty, WriteFails, RecordMotion, Cross, RouteControl, busVars
    <2>3. QED
      BY <2>1, <2>2 DEF RouteControl, InMotor
  <1>7. QED
    BY <1>1, <1>2, <1>3, <1>4, <1>5, <1>6, NoTick, TaskSteps

(* A source is never in a motor command: a start ends with the reset of    *)
(* step and time (patrol_route.c:32-41).                                   *)
LEMMA SourceActs ==
  ASSUME OnlyStarts, TypeInv, RouteControl, NEW s \in Sources,
         MotorStep(s) \/ HandlerStep(s) \/ \E c \in Commands : Receive(s, c)
  PROVE  /\ RouteControl'
         /\ UNCHANGED <<pwm, g_motor_available, callVars, loadVars>> /\ pc'["task"] = pc["task"]
         /\ g_step_elapsed' \in {0, g_step_elapsed}
         /\ g_step_index' \in {1, g_step_index}
  <1> USE ThreadNames DEF TypeInv, TypeOK
  <1>1. ~(MotorStep(s) \/ Apply(s) \/ Arm(s) \/ ArmRemaining(s))
    BY DEF MotorStep, WriteZero, WriteDuty, WriteLost, WriteFails, RecordMotion, Apply, Arm, ArmRemaining,
           RouteControl
  <1>2. ASSUME NEW c \in Commands, Receive(s, c)
        PROVE  /\ RouteControl'
               /\ UNCHANGED <<pwm, g_motor_available, callVars, loadVars>> /\ pc'["task"] = pc["task"]
               /\ UNCHANGED <<g_step_elapsed, g_step_index>>
    <2>1. c.word = "auto_start"
      BY OnlyStart
    <2>2. QED
      BY <1>2, <2>1 DEF Receive, Goto, RouteControl, InMotor, motorVars, watchVars, callVars, busVars
  <1>3. CASE SetIndex(s)
    BY <1>3 DEF SetIndex, Goto, RouteControl, InMotor, motorVars, watchVars, callVars, busVars
  <1>4. CASE SetElapsed(s)
    <2>1. req[s].word = "auto_start"
      BY <1>4 DEF SetElapsed, RouteControl
    <2>2. QED
      BY <1>4, <2>1 DEF SetElapsed, Goto, RouteControl, InMotor, motorVars, watchVars, callVars, busVars
  <1>5. QED
    BY <1>1, <1>2, <1>3, <1>4 DEF HandlerStep

LEMMA SourceRoute ==
  ASSUME OnlyStarts, RouteInv, NEW s \in Sources,
         MotorStep(s) \/ HandlerStep(s) \/ \E c \in Commands : Receive(s, c)
  PROVE  (RouteControl /\ RouteIndex /\ RouteWheels)'
  <1>1. /\ RouteControl'
        /\ UNCHANGED <<pwm, g_motor_available, job, wheel, ok, back, seen, step>> /\ pc'["task"] = pc["task"]
        /\ g_step_elapsed' \in {0, g_step_elapsed}
        /\ g_step_index' \in {1, g_step_index}
    BY SourceActs DEF RouteInv, callVars, loadVars
  <1>2. RouteIndex'
    BY <1>1, StraightSteps DEF RouteInv, RouteIndex, Comparing, InStep, InMotor
  <1>3. /\ InMotor("task")' = InMotor("task")
        /\ \A r : Written("task", r)' = Written("task", r)
        /\ \A k : Runs(k)' = Runs(k)
    BY <1>1 DEF InMotor, Written, Runs, ZeroReg, DutyReg, WheelForward
  <1>4. RouteWheels'
    BY <1>1, <1>3 DEF RouteInv, RouteWheels, Comparing, ZeroReg, WheelForward
  <1>5. QED
    BY <1>1, <1>2, <1>4

(* The wheels run step 1 as long as no register is written.                *)
LEMMA SameWheels == ASSUME UNCHANGED pwm PROVE Runs(1)' = Runs(1)
  BY DEF Runs, ZeroReg, DutyReg, WheelForward

(* The steps of the loop that write no register.                           *)
LEMMA TaskRoute ==
  ASSUME OnlyStarts, RouteInv, TaskStep
  PROVE  (RouteIndex /\ RouteWheels)'
  <1> USE ThreadNames DEF TypeInv, TypeOK
  <1>0. TypeInv /\ RouteControl /\ RouteIndex /\ RouteWheels
    BY DEF RouteInv
  <1>p. SamplePeriodMs \in Nat /\ SamplePeriodMs >= 1000
    BY Period
  <1>1. ASSUME NEW acked \in 0..Len(StopOrder), BootMotor(acked) PROVE (RouteIndex /\ RouteWheels)'
    <2>1. /\ pc["task"] = "boot" /\ g_step_elapsed' = g_step_elapsed
          /\ back'["task"] = "start" /\ job'["task"].motion = "stop"
          /\ pc'["task"] = IF acked = Len(StopOrder) THEN "zero" ELSE "start"
          /\ job'["task"].duty = 0
      BY <1>0, <1>1 DEF BootMotor, Goto, routeVars
    <2>2. g_step_elapsed = 0
      BY <1>0, <2>1 DEF RouteIndex, Comparing
    <2>3. g_motor_available' => \A r \in Wheels \X Halves : pwm'[r] = 0
      BY <1>0, <1>1, BootStops
    <2>4. QED
      BY <2>1, <2>2, <2>3 DEF RouteIndex, RouteWheels, Comparing, InStep, InMotor
  <1>2. CASE StartServices
    BY <1>2 DEF StartServices, RouteIndex, RouteWheels, Comparing, InStep, InMotor
  <1>3. CASE PatrolIssue
    <2>1. /\ pc["task"] = "patrolIssue" /\ g_step_index \in {step, 1}
          /\ UNCHANGED <<pwm, g_motor_available, g_step_index, g_step_elapsed, seen, step>>
      BY <1>0, <1>3 DEF PatrolIssue, motorVars, routeVars, loadVars, RouteIndex, InStep
    <2>2. CASE g_step_elapsed = 0
      <3>1. /\ job'["task"] = [motion |-> Route[step].motion, duty |-> Duty(Route[step].motion, Route[step].speed)]
            /\ wheel'["task"] = "left" /\ ok'["task"] = g_motor_available /\ back'["task"] = "advanceLoad"
            /\ pc'["task"] = IF g_motor_available THEN "zero" ELSE "advanceLoad"
        BY <1>0, <1>3, <2>2 DEF PatrolIssue, CallMotor, Goto
      <3>2. RouteIndex'
        BY <2>1, <2>2, <3>1 DEF RouteIndex, Comparing, InStep, InMotor
      <3>3. \A r : pc'["task"] = "zero" => ~Written("task", r)'
        BY <3>1 DEF Written
      <3>4. RouteWheels'
        BY <2>1, <2>2, <3>1, <3>3 DEF RouteWheels, Comparing, InMotor
      <3>5. QED
        BY <3>2, <3>4
    <2>3. CASE g_step_elapsed # 0
      <3>1. pc'["task"] = "advanceLoad" /\ UNCHANGED callVars
        BY <1>0, <1>3, <2>3 DEF PatrolIssue, Goto
      <3>2. RouteIndex'
        BY <1>0, <2>1, <3>1 DEF RouteIndex, Comparing, InStep, InMotor
      <3>3. Runs(1)' = Runs(1)
        BY <2>1, SameWheels
      <3>4. RouteWheels'
        BY <1>0, <2>1, <2>3, <3>1, <3>3 DEF RouteWheels, Comparing, InMotor, callVars
      <3>5. QED
        BY <3>2, <3>4
    <2>4. QED
      BY <2>2, <2>3
  <1>4. CASE AdvanceStore
    <2>1. /\ pc["task"] = "advanceStore" /\ pc'["task"] = "advanceCompare"
          /\ g_step_elapsed' = seen /\ seen >= SamplePeriodMs
          /\ UNCHANGED <<pwm, g_motor_available, g_step_index, ok, step>>
      BY <1>0, <1>4 DEF AdvanceStore, Goto, motorVars, callVars, RouteIndex
    <2>2. RouteIndex'
      BY <1>0, <2>1 DEF RouteIndex, Comparing, InStep, InMotor
    <2>3. RouteWheels'
      BY <1>0, <2>1, SameWheels DEF RouteWheels, Comparing, InMotor
    <2>4. QED
      BY <2>2, <2>3
  <1>5. CASE AdvanceCompare
    <2>1. /\ pc["task"] = "advanceCompare"
          /\ pc'["task"] = IF g_step_elapsed >= Route[step].duration_ms THEN "advanceReset" ELSE "sleep"
          /\ UNCHANGED <<pwm, g_motor_available, g_step_index, g_step_elapsed, ok, step>>
      BY <1>0, <1>5 DEF AdvanceCompare, Goto, motorVars, routeVars, callVars, loadVars
    <2>2. g_step_elapsed # 0 => g_step_elapsed >= SamplePeriodMs
      BY <1>0, <2>1 DEF RouteIndex, Comparing
    <2>3. g_step_elapsed # 0 /\ pc'["task"] = "sleep" => step \in Straight
      BY <1>0, <1>p, <2>1, <2>2, RouteSteps, RouteType
    <2>4. g_step_index \in {step, 1}
      BY <1>0, <2>1 DEF RouteIndex, InStep
    <2>5. RouteIndex'
      BY <2>1, <2>2, <2>3, <2>4, StraightSteps DEF RouteIndex, Comparing, InStep, InMotor
    <2>6. RouteWheels'
      BY <1>0, <2>1, <2>3, SameWheels DEF RouteWheels, Comparing, InMotor
    <2>7. QED
      BY <2>5, <2>6
  <1>a. CASE AdvanceReset
    <2>1. g_step_elapsed' = 0 /\ pc'["task"] = "advanceIndex"
      BY <1>0, <1>a DEF AdvanceReset, Goto
    <2>2. QED
      BY <2>1 DEF RouteIndex, RouteWheels, Comparing, InStep, InMotor
  <1>b. CASE AdvanceIndex \/ StoreIndex \/ IndexCompare \/ IndexReset
    <2>1. /\ pc["task"] \in {"advanceIndex", "storeIndex", "indexCompare", "indexReset"}
          /\ g_step_elapsed' = g_step_elapsed
          /\ pc'["task"] \in {"storeIndex", "indexCompare", "indexReset", "sleep"}
      BY <1>0, <1>b DEF AdvanceIndex, StoreIndex, IndexCompare, IndexReset, Goto, routeVars
    <2>2. g_step_elapsed = 0
      BY <1>0, <2>1 DEF RouteIndex, Comparing
    <2>3. QED
      BY <2>1, <2>2 DEF RouteIndex, RouteWheels, Comparing, InStep, InMotor
  <1>6. CASE PatrolStep
    <2>1. /\ pc["task"] = "patrolStep" /\ step' = g_step_index /\ pc'["task"] = "patrolIssue"
          /\ UNCHANGED <<pwm, g_motor_available, g_step_index, g_step_elapsed, ok>>
      BY <1>0, <1>6 DEF PatrolStep, Goto, motorVars, routeVars, callVars
    <2>2. Runs(1)' = Runs(1)
      BY <2>1, SameWheels
    <2>3. QED
      BY <1>0, <2>1, <2>2 DEF RouteIndex, RouteWheels, Comparing, InStep, InMotor
  <1>7. CASE BootDegraded \/ DegradedLoop \/ Wake \/ PatrolEnabled \/ AdvanceLoad
    <2>1. /\ UNCHANGED <<pwm, g_motor_available, g_step_index, g_step_elapsed, job, wheel, ok, back, step>>
          /\ ~InMotor("task") /\ ~InMotor("task")'
          /\ InStep' => InStep
          /\ pc'["task"] = "advanceStore" => seen' = g_step_elapsed + SamplePeriodMs
          /\ pc'["task"] \in {"advanceLoad", "advanceStore"} => pc["task"] \in {"advanceLoad", "advanceStore"}
          /\ pc'["task"] # "advanceCompare" /\ ~Comparing /\ ~Comparing'
      BY <1>7, <1>0
      DEF BootDegraded, DegradedLoop, Wake, PatrolEnabled, AdvanceLoad, Goto, InStep, InMotor, Comparing,
          vars, motorVars, routeVars, callVars, loadVars, RouteControl
    <2>2. g_step_elapsed # 0 =>
            pc'["task"] \in {"sleep", "patrolEnabled", "patrolStep", "patrolIssue", "advanceLoad", "advanceStore"}
      BY <1>7, <1>0
      DEF BootDegraded, DegradedLoop, Wake, PatrolEnabled, AdvanceLoad, Goto, RouteIndex, Comparing,
          RouteControl, vars
    <2>3. pc'["task"] = "advanceStore" => seen' >= SamplePeriodMs
      BY <1>0, <1>p, <2>1
    <2>4. RouteIndex'
      BY <1>0, <2>1, <2>2, <2>3 DEF RouteIndex
    <2>5. Runs(1)' = Runs(1)
      BY <2>1, SameWheels
    <2>6. RouteWheels'
      BY <1>0, <2>1, <2>5 DEF RouteWheels
    <2>7. QED
      BY <2>4, <2>6
  <1>8. QED
    BY <1>0, <1>1, <1>2, <1>3, <1>4, <1>5, <1>6, <1>7, <1>a, <1>b, NoTick, TaskSteps DEF RouteStep

-----------------------------------------------------------------------------
(* The register writes of the loop.                                        *)

LEMMA MotorRoute ==
  ASSUME OnlyStarts, RouteInv, MotorStep("task")
  PROVE  (RouteIndex /\ RouteWheels)'
  <1> DEFINE w == wheel["task"]
             m == job["task"].motion
             Given(r) == IF r = ZeroReg(r[1], m) THEN 0 ELSE job["task"].duty
  <1>0. TypeInv /\ RouteControl /\ RouteIndex /\ RouteWheels
    BY DEF RouteInv
  <1>1. /\ w \in Wheels /\ m \in Motions
        /\ pwm \in [Wheels \X Halves -> 0..PeriodTicks]
        /\ pc \in [Threads -> PCs] /\ ok \in [Threads -> BOOLEAN] /\ wheel \in [Threads -> Wheels]
        /\ "task" \in Threads
    BY <1>0, ThreadNames DEF TypeInv, TypeOK
  <1>2. /\ InMotor("task") /\ back["task"] \in {"start", "advanceLoad"}
        /\ UNCHANGED <<g_motor_available, g_step_index, g_step_elapsed, seen, step, job, back>>
        /\ pc'["task"] \in {"zero", "duty", "record"} \/ (pc["task"] = "record" /\ pc'["task"] = back["task"])
    <2>1. InMotor("task")
      BY MotorStep("task") DEF MotorStep, WriteZero, WriteDuty, WriteLost, WriteFails, RecordMotion, InMotor
    <2>2. UNCHANGED <<g_motor_available, g_step_index, g_step_elapsed, seen, step, job, back>>
      BY MotorStep("task")
      DEF MotorStep, WriteZero, WriteDuty, WriteLost, WriteFails, RecordMotion, WheelDone, motorVars, routeVars,
          callVars, loadVars
    <2>3. pc'["task"] \in {"zero", "duty", "record"} \/ (pc["task"] = "record" /\ pc'["task"] = back["task"])
      <3>1. CASE WriteZero("task")
        BY <1>1, <3>1 DEF WriteZero, Goto
      <3>2. CASE WriteDuty("task") \/ WriteFails("task")
        BY <1>1, <3>2 DEF WriteDuty, WriteFails, WheelDone, Goto
      <3>3. CASE RecordMotion("task")
        BY <1>1, <3>3 DEF RecordMotion, Goto
      <3>4. QED
        BY <1>0, <3>1, <3>2, <3>3, NoneLost, MotorStep("task") DEF MotorStep
    <2>4. QED
      BY <1>0, <2>1, <2>2, <2>3 DEF RouteControl
  <1>3. g_step_elapsed = 0
    BY <1>0, <1>2 DEF RouteIndex, Comparing, InMotor
  <1>4. RouteIndex'
    BY <1>0, <1>2, <1>3 DEF RouteIndex, InStep, InMotor
  <1>5. CASE WriteFails("task")
    <2>1. ~ok'["task"]
      BY <1>1, <1>5 DEF WriteFails
    <2>2. QED
      BY <1>4, <2>1 DEF RouteWheels
  <1>6. ASSUME ~WriteFails("task"), g_motor_available, ok["task"], NEW r \in Wheels \X Halves,
               Written("task", r)' \/ pc["task"] = "record"
        PROVE  pwm'[r] = Given(r)
    <2>0. r[1] \in Wheels /\ r[2] \in Halves /\ r = <<r[1], r[2]>>
      OBVIOUS
    <2>1. Written("task", r) => pwm[r] = Given(r)
      BY <1>0, <1>2, <1>6 DEF RouteWheels
    <2>2. CASE WriteZero("task")
      <3>1. /\ pwm' = [pwm EXCEPT ![ZeroReg(w, m)] = 0] /\ pc["task"] = "zero" /\ pc'["task"] = "duty"
            /\ wheel' = wheel /\ job' = job
        BY <1>1, <2>2 DEF WriteZero, Goto, callVars
      <3>2. CASE r = ZeroReg(w, m)
        <4>1. r[1] = w
          BY <3>2 DEF ZeroReg
        <4>2. QED
          BY <1>1, <3>1, <3>2, <4>1
      <3>3. CASE r # ZeroReg(w, m)
        <4>1. Written("task", r) /\ pwm'[r] = pwm[r]
          BY <1>6, <3>1, <3>3 DEF Written, ZeroReg, WheelForward
        <4>2. QED
          BY <2>1, <4>1
      <3>4. QED
        BY <3>2, <3>3
    <2>3. CASE WriteDuty("task")
      <3>1. /\ pwm' = [pwm EXCEPT ![DutyReg(w, m)] = job["task"].duty] /\ pc["task"] = "duty"
            /\ wheel'["task"] = "right" /\ job' = job
            /\ pc'["task"] = IF w = "left" THEN "zero" ELSE "record"
        BY <1>1, <2>3 DEF WriteDuty, WheelDone, Goto
      <3>2. CASE r = DutyReg(w, m)
        <4>1. pwm'[r] = job["task"].duty
          BY <1>1, <3>1, <3>2
        <4>2. r # ZeroReg(r[1], m)
          BY <1>1, <3>2 DEF ZeroReg, DutyReg
        <4>3. QED
          BY <4>1, <4>2
      <3>3. CASE r = ZeroReg(w, m)
        <4>1. Written("task", r) /\ pwm'[r] = pwm[r]
          BY <1>1, <3>1, <3>3 DEF Written, ZeroReg, DutyReg
        <4>2. QED
          BY <2>1, <4>1
      <3>4. CASE r # DutyReg(w, m) /\ r # ZeroReg(w, m)
        <4>1. r[1] # w
          BY <2>0, <3>4 DEF ZeroReg, DutyReg, Halves
        <4>2. CASE w = "left"
          <5>1. pc'["task"] = "zero" /\ r[1] # "left"
            BY <3>1, <4>1, <4>2
          <5>2. QED
            BY <1>6, <3>1, <5>1 DEF Written
        <4>3. CASE w = "right"
          <5>1. Written("task", r) /\ pwm'[r] = pwm[r]
            BY <2>0, <3>1, <3>4, <4>1, <4>3 DEF Written, Wheels
          <5>2. QED
            BY <2>1, <5>1
        <4>4. QED
          BY <1>1, <4>2, <4>3 DEF Wheels
      <3>5. QED
        BY <3>2, <3>3, <3>4
    <2>4. CASE RecordMotion("task")
      <3>1. Written("task", r) /\ pwm' = pwm
        BY <2>4 DEF RecordMotion, Written
      <3>2. QED
        BY <2>1, <3>1
    <2>5. QED
      BY <1>0, <1>6, <2>2, <2>3, <2>4, NoneLost, MotorStep("task") DEF MotorStep
  <1>7. CASE ~WriteFails("task")
    <2>1. ok' = ok
      BY <1>7, MotorStep("task") DEF MotorStep, WriteZero, WriteDuty, WriteLost, RecordMotion, callVars
    <2>2. \A r : (IF r = ZeroReg(r[1], job["task"].motion) THEN 0 ELSE job["task"].duty)' = Given(r)
      BY <1>2 DEF ZeroReg, WheelForward
    <2>3. ASSUME g_motor_available, ok["task"], pc["task"] = "record", pc'["task"] = "advanceLoad",
                 step \in Straight
          PROVE  Runs(1)'
      <3>1. \A r \in Wheels \X Halves : pwm'[r] = Given(r)
        BY <1>6, <1>7, <2>3
      <3>2. job["task"].motion = Route[step].motion /\ job["task"].duty = Duty(Route[step].motion, Route[step].speed)
        BY <1>0, <1>2, <2>3 DEF RouteWheels, InMotor
      <3>3. Route[step].motion = Route[1].motion /\ Route[step].speed = Route[1].speed
        BY <2>3, RouteSteps DEF Straight
      <3>4. ASSUME NEW v \in Wheels
            PROVE  /\ pwm'[ZeroReg(v, m)] = 0
                   /\ pwm'[DutyReg(v, m)] = job["task"].duty
        <4>1. ZeroReg(v, m) \in Wheels \X Halves /\ DutyReg(v, m) \in Wheels \X Halves
          BY <1>1, <3>4, WheelRegs
        <4>2. /\ ZeroReg(v, m)[1] = v /\ DutyReg(v, m)[1] = v /\ DutyReg(v, m) # ZeroReg(v, m)
          BY DEF ZeroReg, DutyReg
        <4>3. QED
          BY <3>1, <4>1, <4>2
      <3>5. QED
        BY <3>2, <3>3, <3>4 DEF Runs
    <2>4. RouteWheels'
      BY <1>2, <1>3, <1>6, <1>7, <2>1, <2>2, <2>3, <1>0 DEF RouteWheels, Comparing, InMotor
    <2>5. QED
      BY <1>4, <2>4
  <1>8. QED
    BY <1>5, <1>7

-----------------------------------------------------------------------------
(* The theorem.                                                            *)

LEMMA NextRoute == OnlyStarts /\ RouteInv /\ [Next]_vars => RouteInv'
  <1> SUFFICES ASSUME OnlyStarts, RouteInv, [Next]_vars PROVE RouteInv'
    OBVIOUS
  <1>1. TypeInv'
    BY NextTypeInv DEF RouteInv
  <1>2. CASE UNCHANGED vars
    <2>1. UNCHANGED <<pwm, g_motor_available, g_manual_watchdog_active, g_step_index, g_step_elapsed, pc, req, job,
                      wheel, ok, back, seen, step, crossed, missed>>
      BY <1>2 DEF vars, motorVars, watchVars, routeVars, callVars, loadVars, busVars
    <2>2. RouteControl'
      BY <2>1 DEF RouteInv, RouteControl, InMotor
    <2>3. RouteIndex'
      BY <2>1 DEF RouteInv, RouteIndex, Comparing, InStep, InMotor
    <2>4. /\ \A r : Written("task", r)' = Written("task", r)
          /\ Runs(1)' = Runs(1)
      BY <2>1 DEF Written, Runs, ZeroReg, DutyReg, WheelForward
    <2>5. RouteWheels'
      BY <2>1, <2>4 DEF RouteInv, RouteWheels, Comparing, InMotor, ZeroReg, WheelForward
    <2>6. QED
      BY <1>1, <2>2, <2>3, <2>5 DEF RouteInv
  <1>3. CASE TaskStep \/ MotorStep("task")
    BY <1>1, <1>3, TaskRouteControl, TaskRoute, MotorRoute DEF RouteInv
  <1>4. ASSUME NEW s \in Sources, MotorStep(s) \/ HandlerStep(s) \/ \E c \in Commands : Receive(s, c)
        PROVE  RouteInv'
    BY <1>1, <1>4, SourceRoute DEF RouteInv
  <1>5. QED
    BY <1>2, <1>3, <1>4, ThreadSplit DEF Next

(* However many threads start the route, at whatever point of a tick, and  *)
(* whichever writes fail: in the middle of a step the wheels run that step *)
(* unless its command has failed (patrol_route.c:32-41 and 49-81).         *)
THEOREM RouteIsFollowed ==
  ASSUME OnlyStarts
  PROVE  Spec => []RouteFollowed
  <1>1. RouteInv => RouteFollowed
    <2> SUFFICES ASSUME RouteInv, AtRest, g_motor_available, NoneFailed, g_step_elapsed # 0
                 PROVE  Runs(g_step_index)
      BY DEF RouteFollowed
    <2>1. ok["task"]
      BY ThreadNames DEF NoneFailed
    <2>2. Runs(1) /\ g_step_index \in Straight
      BY <2>1 DEF RouteInv, RouteIndex, RouteWheels, Comparing, AtRest
    <2>3. QED
      BY <2>2, StraightRuns
  <1>2. Init => RouteInv
    BY InitTypeInv, InitRoute DEF RouteInv
  <1>3. RouteInv /\ [Next]_vars => RouteInv'
    BY NextRoute, OnlyStarts
  <1>4. QED
    BY <1>1, <1>2, <1>3, PTL DEF Spec

-----------------------------------------------------------------------------
(* The interlock of the half-bridges, with several threads that start the  *)
(* route: only the loop writes a register, and it comes to a duty with the *)
(* other half-bridge of the wheel at zero.                                 *)
Exclusive == g_motor_available => \A w \in Wheels : ~(pwm[<<w, "A">>] > 0 /\ pwm[<<w, "B">>] > 0)

LoopZeroed == g_motor_available /\ pc["task"] = "duty" => pwm[ZeroReg(wheel["task"], job["task"].motion)] = 0

LockInv == RouteInv /\ Exclusive /\ LoopZeroed

LEMMA InitLock == Init => Exclusive /\ LoopZeroed
  BY DEF Init, Exclusive, LoopZeroed

(* A step that writes no register and does not bring the loop to a duty.   *)
LEMMA QuietLock ==
  ASSUME Exclusive, LoopZeroed, UNCHANGED <<pwm, g_motor_available>>,
         pc'["task"] = "duty" => /\ pc["task"] = "duty"
                                 /\ wheel' = wheel /\ job' = job
  PROVE  (Exclusive /\ LoopZeroed)'
  <1>1. Exclusive'
    BY DEF Exclusive
  <1>2. LoopZeroed'
    BY DEF LoopZeroed, ZeroReg, WheelForward
  <1>3. QED
    BY <1>1, <1>2

LEMMA TaskLock ==
  ASSUME LockInv, TaskStep
  PROVE  (Exclusive /\ LoopZeroed)'
  <1> USE ThreadNames
  <1>0. RouteControl /\ Exclusive /\ LoopZeroed /\ TypeInv /\ pc \in [Threads -> PCs]
    BY DEF LockInv, RouteInv, TypeInv, TypeOK
  <1>1. ASSUME NEW acked \in 0..Len(StopOrder), BootMotor(acked) PROVE (Exclusive /\ LoopZeroed)'
    <2>1. g_motor_available' => \A r \in Wheels \X Halves : pwm'[r] = 0
      BY <1>0, <1>1, BootStops
    <2>2. pc'["task"] # "duty"
      BY <1>0, <1>1 DEF BootMotor, Goto
    <2>3. Exclusive'
      <3> SUFFICES ASSUME g_motor_available', NEW w \in Wheels
                   PROVE  ~(pwm'[<<w, "A">>] > 0 /\ pwm'[<<w, "B">>] > 0)
        BY DEF Exclusive
      <3>1. pwm'[<<w, "A">>] = 0
        BY <2>1, RegDomain
      <3>2. QED
        BY <3>1
    <2>4. QED
      BY <2>2, <2>3 DEF LoopZeroed
  <1>2. CASE BootDegraded \/ DegradedLoop \/ StartServices \/ Wake \/ PatrolEnabled \/ RouteStep
    <2>1. /\ UNCHANGED <<pwm, g_motor_available>>
          /\ pc'["task"] # "duty"
      <3>1. CASE BootDegraded \/ DegradedLoop \/ StartServices \/ Wake
        BY <1>0, <3>1 DEF BootDegraded, DegradedLoop, StartServices, Wake, Goto, vars, motorVars
      <3>2. CASE PatrolEnabled \/ PatrolStep
        BY <1>0, <3>2 DEF PatrolEnabled, PatrolStep, Goto, motorVars
      <3>3. CASE PatrolIssue
        BY <1>0, <3>3 DEF PatrolIssue, CallMotor, Goto, motorVars
      <3>4. CASE AdvanceLoad \/ AdvanceStore \/ AdvanceCompare \/ AdvanceReset
        BY <1>0, <3>4 DEF AdvanceLoad, AdvanceStore, AdvanceCompare, AdvanceReset, Goto, motorVars
      <3>5. CASE AdvanceIndex \/ StoreIndex \/ IndexCompare \/ IndexReset
        BY <1>0, <3>5 DEF AdvanceIndex, StoreIndex, IndexCompare, IndexReset, Goto, motorVars
      <3>6. QED
        BY <1>2, <3>1, <3>2, <3>3, <3>4, <3>5 DEF RouteStep
    <2>2. QED
      BY <1>0, <2>1, QuietLock
  <1>3. QED
    BY <1>0, <1>1, <1>2, NoTick, TaskSteps

LEMMA MotorLock ==
  ASSUME LockInv, MotorStep("task")
  PROVE  (Exclusive /\ LoopZeroed)'
  <1> DEFINE w == wheel["task"]
             m == job["task"].motion
  <1>0. RouteControl /\ Exclusive /\ LoopZeroed /\ TypeInv
    BY DEF LockInv, RouteInv
  <1>1. /\ w \in Wheels /\ m \in Motions /\ pc \in [Threads -> PCs]
        /\ pwm \in [Wheels \X Halves -> 0..PeriodTicks]
    BY <1>0, ThreadNames DEF TypeInv, TypeOK
  <1>2. CASE WriteZero("task")
    <2>1. pwm' = [pwm EXCEPT ![ZeroReg(w, m)] = 0] /\ UNCHANGED <<g_motor_available, wheel, job>>
      BY <1>2 DEF WriteZero, motorVars, callVars
    <2>2. \A r \in Wheels \X Halves : pwm'[r] = 0 \/ pwm'[r] = pwm[r]
      BY <1>1, <2>1
    <2>3. Exclusive'
      <3> SUFFICES ASSUME g_motor_available', NEW v \in Wheels
                   PROVE  ~(pwm'[<<v, "A">>] > 0 /\ pwm'[<<v, "B">>] > 0)
        BY DEF Exclusive
      <3>1. ~(pwm[<<v, "A">>] > 0 /\ pwm[<<v, "B">>] > 0)
        BY <1>0, <2>1 DEF Exclusive
      <3>2. /\ pwm'[<<v, "A">>] = 0 \/ pwm'[<<v, "A">>] = pwm[<<v, "A">>]
            /\ pwm'[<<v, "B">>] = 0 \/ pwm'[<<v, "B">>] = pwm[<<v, "B">>]
        BY <2>2, RegDomain
      <3>3. QED
        BY <3>1, <3>2
    <2>4. pwm'[ZeroReg(w, m)] = 0
      BY <1>1, <2>1, WheelRegs
    <2>5. LoopZeroed'
      BY <2>1, <2>4 DEF LoopZeroed, ZeroReg, WheelForward
    <2>6. QED
      BY <2>3, <2>5
  <1>3. CASE WriteDuty("task")
    <2>1. pwm' = [pwm EXCEPT ![DutyReg(w, m)] = job["task"].duty] /\ g_motor_available' = g_motor_available
      BY <1>3 DEF WriteDuty, motorVars
    <2>2. pc["task"] = "duty" /\ pc'["task"] # "duty"
      BY <1>1, <1>3, ThreadNames DEF WriteDuty, WheelDone, Goto
    <2>3. Exclusive'
      <3> SUFFICES ASSUME g_motor_available', NEW v \in Wheels
                   PROVE  ~(pwm'[<<v, "A">>] > 0 /\ pwm'[<<v, "B">>] > 0)
        BY DEF Exclusive
      <3>1. pwm[ZeroReg(w, m)] = 0
        BY <1>0, <2>1, <2>2 DEF LoopZeroed
      <3>2. ~(pwm[<<v, "A">>] > 0 /\ pwm[<<v, "B">>] > 0)
        BY <1>0, <2>1 DEF Exclusive
      <3>3. CASE v = w
        BY <1>1, <2>1, <3>1, <3>3, RegPair, RegDomain
      <3>4. CASE v # w
        <4>1. DutyReg(w, m) # <<v, "A">> /\ DutyReg(w, m) # <<v, "B">>
          BY <3>4 DEF DutyReg
        <4>2. QED
          BY <1>1, <2>1, <3>2, <4>1, RegDomain
      <3>5. QED
        BY <3>3, <3>4
    <2>4. QED
      BY <2>2, <2>3 DEF LoopZeroed
  <1>4. CASE WriteFails("task") \/ RecordMotion("task")
    <2>1. back["task"] # "duty"
      <3>1. InMotor("task")
        BY MotorStep("task") DEF MotorStep, WriteZero, WriteDuty, WriteLost, WriteFails, RecordMotion, InMotor
      <3>2. QED
        BY <1>0, <3>1 DEF RouteControl
    <2>2. UNCHANGED <<pwm, g_motor_available>> /\ pc'["task"] # "duty"
      BY <1>1, <1>4, <2>1, ThreadNames DEF WriteFails, RecordMotion, WheelDone, Goto, motorVars
    <2>3. QED
      BY <1>0, <2>2, QuietLock
  <1>5. QED
    BY <1>0, <1>2, <1>3, <1>4, NoneLost, MotorStep("task") DEF MotorStep

LEMMA SourceLock ==
  ASSUME OnlyStarts, LockInv, NEW s \in Sources,
         MotorStep(s) \/ HandlerStep(s) \/ \E c \in Commands : Receive(s, c)
  PROVE  (Exclusive /\ LoopZeroed)'
  <1>1. UNCHANGED <<pwm, g_motor_available, wheel, job>> /\ pc'["task"] = pc["task"]
    BY SourceActs DEF LockInv, RouteInv, callVars
  <1>2. QED
    BY <1>1, QuietLock DEF LockInv

(* However many threads start the route, and whichever writes fail: both   *)
(* half-bridges of a wheel are never driven at once, and no write is lost, *)
(* the loop having the bus to itself (car_motor.c:78-96, patrol_route.c:   *)
(* 32-41 and 49-81).                                                       *)
THEOREM RouteInterlock ==
  ASSUME OnlyStarts
  PROVE  Spec => [](NoShootThrough /\ missed = {})
  <1>1. LockInv => NoShootThrough /\ missed = {}
    BY DEF LockInv, Exclusive, NoShootThrough, RouteInv, RouteControl
  <1>2. Init => LockInv
    BY InitTypeInv, InitRoute, InitLock DEF LockInv, RouteInv
  <1>3. LockInv /\ [Next]_vars => LockInv'
    <2> SUFFICES ASSUME LockInv, [Next]_vars PROVE LockInv'
      OBVIOUS
    <2>1. RouteInv'
      BY NextRoute, OnlyStarts DEF LockInv
    <2>2. CASE UNCHANGED vars
      <3>1. UNCHANGED <<pwm, g_motor_available, pc, wheel, job>>
        BY <2>2 DEF vars, motorVars, callVars
      <3>2. QED
        BY <2>1, <3>1, QuietLock DEF LockInv
    <2>3. CASE TaskStep
      BY <2>1, <2>3, TaskLock DEF LockInv
    <2>4. CASE MotorStep("task")
      BY <2>1, <2>4, MotorLock DEF LockInv
    <2>5. ASSUME NEW s \in Sources, MotorStep(s) \/ HandlerStep(s) \/ \E c \in Commands : Receive(s, c)
          PROVE  LockInv'
      BY <2>1, <2>5, SourceLock, OnlyStarts DEF LockInv
    <2>6. QED
      BY <2>2, <2>3, <2>4, <2>5, ThreadSplit DEF Next
  <1>4. QED
    BY <1>1, <1>2, <1>3, PTL DEF Spec
=============================================================================
