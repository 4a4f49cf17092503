------------------------------ MODULE CarMotion ------------------------------
(***************************************************************************)
(* Motion control of the patrol car: the wheel bridge, the motor commands  *)
(* of car_motor.c, the manual-command watchdog, the timed route of         *)
(* patrol_route.c, the sampling loop of app_main.c and the two handlers    *)
(* that receive control commands (HTTP task, SLE callback).                *)
(*                                                                         *)
(* The three threads share the C globals of car_motor.c and patrol_route.c *)
(* without a lock.  A thread's program counter moves by one register write *)
(* or by one access of a shared global per step, and the others interleave *)
(* at every step.  They share the I2C bus as well, and the driver's mutex  *)
(* is not in this build (CONFIG_I2C_SUPPORT_CONCURRENCY is not set): only  *)
(* the payload of a register write goes out whole, with interrupts locked. *)
(* Another thread's transfer between the address of a write and its        *)
(* payload takes that payload away from the bridge: see WriteLost.         *)
(***************************************************************************)
EXTENDS Integers, Sequences

CONSTANTS Sources,          \* threads that deliver control commands
          Commands,         \* the commands clients may send
          SamplePeriodMs,   \* ENV_PATROL_SAMPLE_PERIOD_MS
          ManualTimeoutMs,  \* CAR_MOTOR_MANUAL_CMD_TIMEOUT_MS
          Word,             \* what a uint32_t counts modulo: 2^32 in the code
          MaxFaults,        \* bound: I2C writes that fail or are lost after boot
          MaxCommands       \* bound: commands received

Motions == {"stop", "forward", "backward", "left", "right"}
Words   == Motions \cup {"auto_start", "auto_stop", "other"}
Wheels  == {"left", "right"}
Halves  == {"A", "B"}

PeriodTicks == 1000    \* CAR_MOTOR_PERIOD_TICKS
TurnTicks   == 500     \* CAR_MOTOR_TURN_TICKS
MinPercent  == 20      \* CAR_MOTOR_MIN_EFFECTIVE_PERCENT

ASSUME CarAssumption ==
  /\ Sources \subseteq {"http", "sle"}
  /\ Commands \subseteq [word : Words, speed : 0..100]
  /\ SamplePeriodMs \in Nat \ {0}
  /\ ManualTimeoutMs \in Nat \ {0}
  /\ Word \in Nat /\ Word > SamplePeriodMs /\ Word > ManualTimeoutMs
  /\ MaxFaults \in Nat
  /\ MaxCommands \in Nat

Threads == {"task"} \cup Sources

Route == << [motion |-> "forward", speed |-> 45, duration_ms |-> 3000],
            [motion |-> "left",    speed |-> 35, duration_ms |-> 600],
            [motion |-> "forward", speed |-> 45, duration_ms |-> 3000],
            [motion |-> "right",   speed |-> 35, duration_ms |-> 600],
            [motion |-> "stop",    speed |-> 0,  duration_ms |-> 1000] >>

\* motor_speed_to_ticks: a non-zero speed is raised to the least that moves.
motor_speed_to_ticks(speed) ==
  LET percent == IF speed > 100 THEN 100
                 ELSE IF speed > 0 /\ speed < MinPercent THEN MinPercent
                 ELSE speed
  IN  (PeriodTicks * percent) \div 100

\* The duty car_motor_command passes to motor_apply: turns ignore the speed.
Duty(motion, speed) ==
  CASE motion = "stop"             -> 0
    [] motion \in {"left", "right"} -> TurnTicks
    [] OTHER                       -> motor_speed_to_ticks(speed)

\* The "forward" flag of each wheel: the right motor is mounted mirrored.
WheelForward(wheel, motion) ==
  IF wheel = "left" THEN motion \in {"forward", "left", "stop"}
                    ELSE motion \in {"backward", "left", "stop"}

\* motor_set_wheel: the half-bridge zeroed first, and the one given the duty.
ZeroReg(wheel, motion) == <<wheel, IF WheelForward(wheel, motion) THEN "A" ELSE "B">>
DutyReg(wheel, motion) == <<wheel, IF WheelForward(wheel, motion) THEN "B" ELSE "A">>

-----------------------------------------------------------------------------
VARIABLES
  pwm,                              \* duty held by each bridge register
  g_motor_available, g_current_motion,
  g_manual_watchdog_active, g_manual_watchdog_remaining_ms,
  g_enabled, g_step_index, g_step_elapsed,
  pc,      \* where each thread is
  req,     \* the command a source is handling
  job,     \* the motor command a thread is executing
  wheel,   \* the wheel that command is writing
  ok,      \* no register write of it has failed so far
  back,    \* where the thread goes on when it returns
  seen,    \* the shared value the task has loaded and not yet used
  step,    \* the route step its patrol tick points to
  crossed, \* a source has written to the bus during the task's write
  missed,  \* history: registers whose last acknowledged write never reached them
  age,     \* history: periods begun since the watchdog was last set, in ms
  wrapped, \* history: the tick has taken the remaining time below zero
  faults, sent

motorVars  == <<g_motor_available, g_current_motion>>
watchVars  == <<g_manual_watchdog_active, g_manual_watchdog_remaining_ms>>
routeVars  == <<g_enabled, g_step_index, g_step_elapsed>>
callVars   == <<job, wheel, ok, back>>
loadVars   == <<seen, step>>
busVars    == <<crossed, missed>>
histVars   == <<age, wrapped>>
boundVars  == <<faults, sent>>
vars == <<pwm, motorVars, watchVars, routeVars, pc, req, callVars, loadVars, busVars, histVars, boundVars>>

PCs == {"down", "boot", "degraded", "start", "sleep", "idle",
        "zero", "duty", "record",
        "tickCompare", "tickLoad", "tickSubtract", "tickClear", "tickClearRemaining",
        "patrolEnabled", "patrolStep", "patrolIssue",
        "advanceLoad", "advanceStore", "advanceCompare", "advanceReset",
        "advanceIndex", "storeIndex", "indexCompare", "indexReset",
        "setIndex", "setElapsed", "apply", "arm", "armRemaining"}

TypeOK ==
  /\ pwm \in [Wheels \X Halves -> 0..PeriodTicks]
  /\ g_motor_available \in BOOLEAN
  /\ g_current_motion \in Motions
  /\ g_manual_watchdog_active \in BOOLEAN
  /\ g_manual_watchdog_remaining_ms \in 0..(Word - 1)
  /\ wrapped \/ g_manual_watchdog_remaining_ms <= ManualTimeoutMs
  /\ g_enabled \in BOOLEAN
  /\ g_step_index \in 1..(Len(Route) + 1)
  /\ g_step_elapsed \in Nat
  /\ pc \in [Threads -> PCs]
  /\ req \in [Sources -> [word : Words, speed : 0..100]]
  /\ job \in [Threads -> [motion : Motions, duty : 0..PeriodTicks]]
  /\ wheel \in [Threads -> Wheels]
  /\ ok \in [Threads -> BOOLEAN]
  /\ back \in [Threads -> {"start", "idle", "patrolEnabled", "advanceLoad", "apply", "arm"}]
  /\ seen \in Nat
  /\ step \in 1..Len(Route)
  /\ crossed \in BOOLEAN
  /\ missed \subseteq Wheels \X Halves
  /\ age \in 0..(ManualTimeoutMs + SamplePeriodMs)
  /\ wrapped \in BOOLEAN
  /\ faults \in 0..MaxFaults
  /\ sent \in 0..MaxCommands

\* Power-up.  The bridge is a chip of its own: its registers hold whatever the
\* run before the reset left in them.
Init ==
  /\ pwm \in [Wheels \X Halves -> {0, TurnTicks}]
  /\ g_motor_available = FALSE
  /\ g_current_motion = "stop"
  /\ g_manual_watchdog_active = FALSE
  /\ g_manual_watchdog_remaining_ms = 0
  /\ g_enabled = FALSE
  /\ g_step_index = 1
  /\ g_step_elapsed = 0
  /\ pc = [t \in Threads |-> IF t = "task" THEN "boot" ELSE "down"]
  /\ req = [s \in Sources |-> [word |-> "stop", speed |-> 0]]
  /\ job = [t \in Threads |-> [motion |-> "stop", duty |-> 0]]
  /\ wheel = [t \in Threads |-> "left"]
  /\ ok = [t \in Threads |-> TRUE]
  /\ back = [t \in Threads |-> "idle"]
  /\ seen = 0
  /\ step = 1
  /\ crossed = FALSE
  /\ missed = {}
  /\ age = 0
  /\ wrapped = FALSE
  /\ faults = 0
  /\ sent = 0

-----------------------------------------------------------------------------
(* car_motor_command, from its call to its return, in any thread.          *)

Goto(t, label) == pc' = [pc EXCEPT ![t] = label]

\* The call: an unavailable bridge returns -2 at once and writes nothing.
CallMotor(t, motion, speed, next) ==
  /\ job' = [job EXCEPT ![t] = [motion |-> motion, duty |-> Duty(motion, speed)]]
  /\ wheel' = [wheel EXCEPT ![t] = "left"]
  /\ ok' = [ok EXCEPT ![t] = g_motor_available]
  /\ back' = [back EXCEPT ![t] = next]
  /\ Goto(t, IF g_motor_available THEN "zero" ELSE next)

\* motor_apply writes the right wheel whatever became of the left one.
WheelDone(t) ==
  /\ wheel' = [wheel EXCEPT ![t] = "right"]
  /\ Goto(t, IF wheel[t] = "left" THEN "zero" ELSE "record")

\* Whether a source has been on the bus since the task began its write.
Cross(t) == crossed' = (t # "task" /\ (crossed \/ pc["task"] \in {"zero", "duty"}))

\* Mutant of WriteFails: the duty is written although the release failed.
WriteFailsGoesOn(t) ==
  /\ pc[t] \in {"zero", "duty"}
  /\ faults < MaxFaults
  /\ faults' = faults + 1
  /\ ok' = [ok EXCEPT ![t] = FALSE]
  /\ IF pc[t] = "zero" THEN Goto(t, "duty") /\ UNCHANGED wheel ELSE WheelDone(t)
  /\ Cross(t)
  /\ UNCHANGED <<pwm, motorVars, watchVars, routeVars, req, job, back, loadVars, missed, histVars, sent>>

\* Mutant of WriteFails: only the result of the right wheel is returned.
WriteFailsForgotten(t) ==
  /\ pc[t] \in {"zero", "duty"}
  /\ faults < MaxFaults
  /\ faults' = faults + 1
  /\ ok' = [ok EXCEPT ![t] = (wheel[t] = "left")]
  /\ WheelDone(t)
  /\ Cross(t)
  /\ UNCHANGED <<pwm, motorVars, watchVars, routeVars, req, job, back, loadVars, missed, histVars, sent>>

\* A register write that the bridge does not acknowledge: motor_set_wheel
\* gives up on this wheel, and the command will return an error.
WriteFails(t) ==
  /\ pc[t] \in {"zero", "duty"}
  /\ faults < MaxFaults
  /\ faults' = faults + 1
  /\ ok' = [ok EXCEPT ![t] = FALSE]
  /\ WheelDone(t)
  /\ Cross(t)
  /\ UNCHANGED <<pwm, motorVars, watchVars, routeVars, req, job, back, loadVars, missed, histVars, sent>>

WriteZero(t) ==
  /\ pc[t] = "zero"
  /\ pwm' = [pwm EXCEPT ![ZeroReg(wheel[t], job[t].motion)] = 0]
  /\ missed' = missed \ {ZeroReg(wheel[t], job[t].motion)}
  /\ Cross(t)
  /\ Goto(t, "duty")
  /\ UNCHANGED <<motorVars, watchVars, routeVars, req, callVars, loadVars, histVars, boundVars>>

WriteDuty(t) ==
  /\ pc[t] = "duty"
  /\ pwm' = [pwm EXCEPT ![DutyReg(wheel[t], job[t].motion)] = job[t].duty]
  /\ missed' = missed \ {DutyReg(wheel[t], job[t].motion)}
  /\ Cross(t)
  /\ WheelDone(t)
  /\ UNCHANGED <<motorVars, watchVars, routeVars, req, job, ok, back, loadVars, histVars, boundVars>>

\* The bus is taken between the address and the payload of a write: the
\* payload reaches another device and is acknowledged there.  For a source that
\* can always happen, the loop's sensors being on the same bus; the task meets
\* it only when a source has written to the bus during its own write.
WriteLost(t) ==
  /\ pc[t] \in {"zero", "duty"}
  /\ t \in Sources \/ crossed
  /\ faults < MaxFaults
  /\ faults' = faults + 1
  /\ IF pc[t] = "zero"
     THEN /\ missed' = missed \cup {ZeroReg(wheel[t], job[t].motion)}
          /\ Goto(t, "duty") /\ UNCHANGED wheel
     ELSE /\ missed' = missed \cup {DutyReg(wheel[t], job[t].motion)}
          /\ WheelDone(t)
  /\ Cross(t)
  /\ UNCHANGED <<pwm, motorVars, watchVars, routeVars, req, job, ok, back, loadVars, histVars, sent>>

\* The return: the motion is recorded only if every write was acknowledged.
RecordMotion(t) ==
  /\ pc[t] = "record"
  /\ g_current_motion' = IF ok[t] THEN job[t].motion ELSE g_current_motion
  /\ Goto(t, back[t])
  /\ UNCHANGED <<pwm, g_motor_available, watchVars, routeVars, req, callVars, loadVars, busVars, histVars, boundVars>>

MotorStep(t) == WriteZero(t) \/ WriteDuty(t) \/ WriteLost(t) \/ WriteFails(t) \/ RecordMotion(t)

-----------------------------------------------------------------------------
(* env_patrol_task: boot, then one round of the loop per sample period.    *)

\* The probe finds too few devices: the loop never touches the motor, and
\* neither the access point nor the SLE client is started.
BootDegraded ==
  /\ pc["task"] = "boot"
  /\ Goto("task", "degraded")
  /\ UNCHANGED <<pwm, motorVars, watchVars, routeVars, req, callVars, loadVars, busVars, histVars, boundVars>>

DegradedLoop == pc["task"] = "degraded" /\ UNCHANGED vars

StopOrder == << <<"left", "A">>, <<"left", "B">>, <<"right", "A">>, <<"right", "B">> >>

\* car_motor_init: motor_try_stop_at zeroes the registers in order and gives up
\* at the first write that fails; the other addresses are not the bridge's.
BootMotor(acked) ==
  /\ pc["task"] = "boot"
  /\ pwm' = [r \in Wheels \X Halves |-> IF \E i \in 1..acked : StopOrder[i] = r THEN 0 ELSE pwm[r]]
  /\ g_motor_available' = (acked = Len(StopOrder))
  /\ job' = [job EXCEPT !["task"] = [motion |-> "stop", duty |-> 0]]
  /\ ok' = [ok EXCEPT !["task"] = TRUE]
  /\ back' = [back EXCEPT !["task"] = "start"]
  /\ Goto("task", IF acked = Len(StopOrder) THEN "zero" ELSE "start")
  /\ UNCHANGED <<g_current_motion, watchVars, routeVars, req, wheel, loadVars, busVars, histVars, boundVars>>

\* patrol_route_init, then the access point and the SLE client are started.
StartServices ==
  /\ pc["task"] = "start"
  /\ g_enabled' = FALSE
  /\ g_step_index' = 1
  /\ g_step_elapsed' = 0
  /\ pc' = [t \in Threads |-> IF t = "task" THEN "sleep" ELSE "idle"]
  /\ UNCHANGED <<pwm, motorVars, watchVars, req, callVars, loadVars, busVars, histVars, boundVars>>

\* The period is over: car_motor_tick(1000) reads the watchdog flag.
Wake ==
  /\ pc["task"] = "sleep"
  /\ Goto("task", IF g_manual_watchdog_active THEN "tickCompare" ELSE "patrolEnabled")
  /\ age' = IF age < ManualTimeoutMs THEN age + SamplePeriodMs ELSE age
  /\ UNCHANGED <<pwm, motorVars, watchVars, routeVars, req, callVars, loadVars, busVars, wrapped, boundVars>>

TickCompare ==
  /\ pc["task"] = "tickCompare"
  /\ Goto("task", IF SamplePeriodMs >= g_manual_watchdog_remaining_ms THEN "tickClear" ELSE "tickLoad")
  /\ UNCHANGED <<pwm, motorVars, watchVars, routeVars, req, callVars, loadVars, busVars, histVars, boundVars>>

\* The subtraction loads the global again: a handler may have stored it since
\* (a compiler that keeps the value compared has the two loads in one).
TickLoad ==
  /\ pc["task"] = "tickLoad"
  /\ seen' = g_manual_watchdog_remaining_ms
  /\ Goto("task", "tickSubtract")
  /\ UNCHANGED <<pwm, motorVars, watchVars, routeVars, req, callVars, step, busVars, histVars, boundVars>>

\* Unsigned subtraction.
Minus(a, b) == (a - b) % Word

\* Mutant of TickSubtract: system ticks of 10 ms are taken for milliseconds.
TickSubtractTicks ==
  /\ pc["task"] = "tickSubtract"
  /\ g_manual_watchdog_remaining_ms' = Minus(seen, SamplePeriodMs \div 10)
  /\ wrapped' = (wrapped \/ seen < SamplePeriodMs \div 10)
  /\ seen' = 0
  /\ Goto("task", "patrolEnabled")
  /\ UNCHANGED <<pwm, motorVars, g_manual_watchdog_active, routeVars, req, callVars, step, busVars, age, boundVars>>

TickSubtract ==
  /\ pc["task"] = "tickSubtract"
  /\ g_manual_watchdog_remaining_ms' = Minus(seen, SamplePeriodMs)
  /\ wrapped' = (wrapped \/ seen < SamplePeriodMs)
  /\ seen' = 0
  /\ Goto("task", "patrolEnabled")
  /\ UNCHANGED <<pwm, motorVars, g_manual_watchdog_active, routeVars, req, callVars, step, busVars, age, boundVars>>

TickClear ==
  /\ pc["task"] = "tickClear"
  /\ g_manual_watchdog_active' = FALSE
  /\ Goto("task", "tickClearRemaining")
  /\ UNCHANGED <<pwm, motorVars, g_manual_watchdog_remaining_ms, routeVars, req, callVars, loadVars, busVars,
                 histVars, boundVars>>

\* Mutant of TickClearRemaining: the expired watchdog does not stop the car.
TickClearOnly ==
  /\ pc["task"] = "tickClearRemaining"
  /\ g_manual_watchdog_remaining_ms' = 0
  /\ Goto("task", "patrolEnabled")
  /\ UNCHANGED <<pwm, motorVars, g_manual_watchdog_active, routeVars, req, callVars, loadVars, busVars,
                 histVars, boundVars>>

\* ... and car_motor_stop, whose result is discarded.
TickClearRemaining ==
  /\ pc["task"] = "tickClearRemaining"
  /\ g_manual_watchdog_remaining_ms' = 0
  /\ CallMotor("task", "stop", 0, "patrolEnabled")
  /\ UNCHANGED <<pwm, motorVars, g_manual_watchdog_active, routeVars, req, loadVars, busVars, histVars, boundVars>>

\* patrol_route_tick(1000) reads the enable flag once ...
PatrolEnabled ==
  /\ pc["task"] = "patrolEnabled"
  /\ Goto("task", IF g_enabled THEN "patrolStep" ELSE "sleep")
  /\ UNCHANGED <<pwm, motorVars, watchVars, routeVars, req, callVars, loadVars, busVars, histVars, boundVars>>

\* ... takes a pointer to the step ...
PatrolStep ==
  /\ pc["task"] = "patrolStep"
  /\ step' = g_step_index
  /\ Goto("task", "patrolIssue")
  /\ UNCHANGED <<pwm, motorVars, watchVars, routeVars, req, callVars, seen, busVars, histVars, boundVars>>

\* ... and issues its command in the first tick of the step only.
PatrolIssue ==
  /\ pc["task"] = "patrolIssue"
  /\ IF g_step_elapsed = 0
     THEN CallMotor("task", Route[step].motion, Route[step].speed, "advanceLoad")
     ELSE Goto("task", "advanceLoad") /\ UNCHANGED callVars
  /\ UNCHANGED <<pwm, motorVars, watchVars, routeVars, req, loadVars, busVars, histVars, boundVars>>

AdvanceLoad ==
  /\ pc["task"] = "advanceLoad"
  /\ seen' = g_step_elapsed + SamplePeriodMs
  /\ Goto("task", "advanceStore")
  /\ UNCHANGED <<pwm, motorVars, watchVars, routeVars, req, callVars, step, busVars, histVars, boundVars>>

AdvanceStore ==
  /\ pc["task"] = "advanceStore"
  /\ g_step_elapsed' = seen
  /\ seen' = 0
  /\ Goto("task", "advanceCompare")
  /\ UNCHANGED <<pwm, motorVars, watchVars, g_enabled, g_step_index, req, callVars, step, busVars, histVars,
                 boundVars>>

\* The comparison loads the elapsed time again.
AdvanceCompare ==
  /\ pc["task"] = "advanceCompare"
  /\ Goto("task", IF g_step_elapsed >= Route[step].duration_ms THEN "advanceReset" ELSE "sleep")
  /\ UNCHANGED <<pwm, motorVars, watchVars, routeVars, req, callVars, loadVars, busVars, histVars, boundVars>>

\* Mutant of AdvanceReset: the elapsed time is not reset for the next step.
AdvanceResetKeeps ==
  /\ pc["task"] = "advanceReset"
  /\ Goto("task", "advanceIndex")
  /\ UNCHANGED <<pwm, motorVars, watchVars, routeVars, req, callVars, loadVars, busVars, histVars, boundVars>>

AdvanceReset ==
  /\ pc["task"] = "advanceReset"
  /\ g_step_elapsed' = 0
  /\ Goto("task", "advanceIndex")
  /\ UNCHANGED <<pwm, motorVars, watchVars, g_enabled, g_step_index, req, callVars, loadVars, busVars,
                 histVars, boundVars>>

AdvanceIndex ==
  /\ pc["task"] = "advanceIndex"
  /\ seen' = g_step_index
  /\ Goto("task", "storeIndex")
  /\ UNCHANGED <<pwm, motorVars, watchVars, routeVars, req, callVars, step, busVars, histVars, boundVars>>

StoreIndex ==
  /\ pc["task"] = "storeIndex"
  /\ g_step_index' = seen + 1
  /\ seen' = 0
  /\ Goto("task", "indexCompare")
  /\ UNCHANGED <<pwm, motorVars, watchVars, g_enabled, g_step_elapsed, req, callVars, step, busVars, histVars,
                 boundVars>>

IndexCompare ==
  /\ pc["task"] = "indexCompare"
  /\ Goto("task", IF g_step_index > Len(Route) THEN "indexReset" ELSE "sleep")
  /\ UNCHANGED <<pwm, motorVars, watchVars, routeVars, req, callVars, loadVars, busVars, histVars, boundVars>>

\* Mutant of IndexReset: the route halts at its last step.
IndexResetHalts ==
  /\ pc["task"] = "indexReset"
  /\ g_step_index' = Len(Route)
  /\ Goto("task", "sleep")
  /\ UNCHANGED <<pwm, motorVars, watchVars, g_enabled, g_step_elapsed, req, callVars, loadVars, busVars,
                 histVars, boundVars>>

IndexReset ==
  /\ pc["task"] = "indexReset"
  /\ g_step_index' = 1
  /\ Goto("task", "sleep")
  /\ UNCHANGED <<pwm, motorVars, watchVars, g_enabled, g_step_elapsed, req, callVars, loadVars, busVars,
                 histVars, boundVars>>

TaskStep ==
  \/ BootDegraded \/ (\E acked \in 0..Len(StopOrder) : BootMotor(acked)) \/ StartServices
  \/ Wake \/ TickCompare \/ TickLoad \/ TickSubtract \/ TickClear \/ TickClearRemaining
  \/ PatrolEnabled \/ PatrolStep \/ PatrolIssue
  \/ AdvanceLoad \/ AdvanceStore \/ AdvanceCompare \/ AdvanceReset
  \/ AdvanceIndex \/ StoreIndex \/ IndexCompare \/ IndexReset
  \/ DegradedLoop

-----------------------------------------------------------------------------
(* The HTTP server task and the SLE notification callback.                 *)

\* parse_motion: any text without a motion word is STOP.
MotionOf(word) == IF word \in Motions THEN word ELSE "stop"

\* A command arrives.  patrol_route_start and patrol_route_stop begin by
\* storing the enable flag.  The SLE handler ignores unknown text; HTTP does not.
Receive(s, c) ==
  /\ pc[s] = "idle"
  /\ sent < MaxCommands
  /\ c.word = "other" => s = "http"
  /\ sent' = sent + 1
  /\ req' = [req EXCEPT ![s] = c]
  /\ g_enabled' = (c.word = "auto_start")
  /\ Goto(s, "setIndex")
  /\ UNCHANGED <<pwm, motorVars, watchVars, g_step_index, g_step_elapsed, callVars, loadVars, busVars,
                 histVars, faults>>

SetIndex(s) ==
  /\ pc[s] = "setIndex"
  /\ g_step_index' = 1
  /\ Goto(s, "setElapsed")
  /\ UNCHANGED <<pwm, motorVars, watchVars, g_enabled, g_step_elapsed, req, callVars, loadVars, busVars,
                 histVars, boundVars>>

\* patrol_route_start ends here; patrol_route_stop goes on to car_motor_stop.
SetElapsed(s) ==
  /\ pc[s] = "setElapsed"
  /\ g_step_elapsed' = 0
  /\ IF req[s].word = "auto_start"
     THEN Goto(s, "idle") /\ UNCHANGED callVars
     ELSE CallMotor(s, "stop", 0, IF req[s].word = "auto_stop" THEN "idle" ELSE "apply")
  /\ UNCHANGED <<pwm, motorVars, watchVars, g_enabled, g_step_index, req, loadVars, busVars, histVars, boundVars>>

\* control_command_apply calls car_motor_manual_command.
Apply(s) ==
  /\ pc[s] = "apply"
  /\ CallMotor(s, MotionOf(req[s].word), req[s].speed, "arm")
  /\ UNCHANGED <<pwm, motorVars, watchVars, routeVars, req, loadVars, busVars, histVars, boundVars>>

\* Mutant of Arm: the watchdog is armed only when no time is left on it.
ArmOnce(s) ==
  /\ pc[s] = "arm"
  /\ ok[s]
  /\ g_manual_watchdog_active' = (job[s].motion # "stop" /\ g_manual_watchdog_remaining_ms = 0)
  /\ Goto(s, "armRemaining")
  /\ UNCHANGED <<pwm, motorVars, g_manual_watchdog_remaining_ms, routeVars, req, callVars, loadVars, busVars,
                 histVars, boundVars>>

\* The rest of car_motor_manual_command: a failed command arms nothing.
Arm(s) ==
  /\ pc[s] = "arm"
  /\ IF ok[s]
     THEN /\ g_manual_watchdog_active' = (job[s].motion # "stop")
          /\ Goto(s, "armRemaining")
     ELSE Goto(s, "idle") /\ UNCHANGED g_manual_watchdog_active
  /\ UNCHANGED <<pwm, motorVars, g_manual_watchdog_remaining_ms, routeVars, req, callVars, loadVars, busVars,
                 histVars, boundVars>>

\* Mutant of ArmRemaining: repeated commands add up their time.
ArmRemainingAdds(s) ==
  /\ pc[s] = "armRemaining"
  /\ g_manual_watchdog_remaining_ms' =
       IF job[s].motion = "stop" THEN 0 ELSE g_manual_watchdog_remaining_ms + ManualTimeoutMs
  /\ age' = 0
  /\ Goto(s, "idle")
  /\ UNCHANGED <<pwm, motorVars, g_manual_watchdog_active, routeVars, req, callVars, loadVars, busVars,
                 wrapped, boundVars>>

ArmRemaining(s) ==
  /\ pc[s] = "armRemaining"
  /\ g_manual_watchdog_remaining_ms' = IF job[s].motion = "stop" THEN 0 ELSE ManualTimeoutMs
  /\ age' = 0
  /\ Goto(s, "idle")
  /\ UNCHANGED <<pwm, motorVars, g_manual_watchdog_active, routeVars, req, callVars, loadVars, busVars,
                 wrapped, boundVars>>

HandlerStep(s) == SetIndex(s) \/ SetElapsed(s) \/ Apply(s) \/ Arm(s) \/ ArmRemaining(s)

Next ==
  \/ TaskStep
  \/ \E t \in Threads : MotorStep(t)
  \/ \E s \in Sources : HandlerStep(s) \/ \E c \in Commands : Receive(s, c)

Spec == Init /\ [][Next]_vars

\* The scheduler runs every thread that is ready; clients owe nothing.
FairSpec ==
  /\ Spec
  /\ WF_vars(TaskStep \/ MotorStep("task"))
  /\ \A s \in Sources : WF_vars(HandlerStep(s) \/ MotorStep(s))

-----------------------------------------------------------------------------
(* Properties.                                                             *)

\* Every thread waits: the loop for its period, the handlers for a command.
AtRest == pc["task"] = "sleep" /\ \A s \in Sources : pc[s] = "idle"

\* Register r is released, or the bridge was told so for all the code can tell:
\* the last write to r that was acknowledged went to another device.
Released(r) == pwm[r] = 0 \/ r \in missed

Stopped == \A r \in Wheels \X Halves : Released(r)

\* The last motor command of every thread has succeeded.
NoneFailed == \A t \in Threads : ok[t]

\* While every thread waits, a wheel turns only under the enabled route or an
\* armed watchdog, for nothing else would ever stop the car; or because the last
\* acknowledged write to its register was lost on the bus.  Whatever failed or
\* was lost before, this holds again once each thread's last command has
\* succeeded (car_motor.c:218-261).  A command that fails arms nothing, and its
\* wheels may turn on.
NoRunaway ==
  AtRest /\ g_motor_available /\ NoneFailed /\ ~g_enabled /\ ~g_manual_watchdog_active => Stopped

\* While every thread waits, the car moves only as long as the periods charged
\* since its last command are shorter than the timeout: it stops at the first
\* tick that completes the timeout, and no race of the handler with the tick
\* makes it wait for another one, unless a stop between the two loads of the
\* tick has made the remaining time wrap, or a write was lost on the bus
\* (car_motor.c:246-261, app_main.c:153-163).
StopsInTime ==
  AtRest /\ g_motor_available /\ NoneFailed /\ ~g_enabled /\ ~wrapped =>
    Stopped \/ age < ManualTimeoutMs

\* The two half-bridges of a wheel are driven together at no point of any
\* command, whichever writes fail, as long as the last acknowledged write to
\* either has reached the bridge (motor_set_wheel, car_motor.c:78-96).
NoShootThrough ==
  g_motor_available =>
    \A w \in Wheels :
      pwm[<<w, "A">>] > 0 /\ pwm[<<w, "B">>] > 0 => <<w, "A">> \in missed \/ <<w, "B">> \in missed

\* A motion command that reports success has left no wheel turning the other
\* way and no wheel at another duty, whichever writes failed or were lost before
\* it, except in the registers whose own write was lost (motor_apply,
\* car_motor.c:108-113; the watchdog may have stopped it since).
AckedMotionApplied ==
  \A s \in Sources : pc[s] = "arm" /\ ok[s] =>
    \A w \in Wheels :
      /\ Released(ZeroReg(w, job[s].motion))
      /\ LET r == DutyReg(w, job[s].motion) IN pwm[r] \in {0, job[s].duty} \/ r \in missed

\* The wheels hold what step k of the route gives them.
Runs(k) ==
  \A w \in Wheels :
    /\ pwm[ZeroReg(w, Route[k].motion)] = 0
    /\ pwm[DutyReg(w, Route[k].motion)] = Duty(Route[k].motion, Route[k].speed)

\* In the middle of a route step the wheels run that step, although a handler
\* may start the route over at any point of a tick, unless the command of the
\* step has failed (patrol_route.c:13-19 and 49-81).
RouteFollowed ==
  AtRest /\ g_motor_available /\ NoneFailed /\ g_enabled /\ g_step_elapsed # 0 => Runs(g_step_index)

\* Once clients have stopped sending, the car comes to a stop and stays stopped,
\* but for writes lost on the bus (CONTROL.md:70-71; car_motor.c:246-261).
ComesToRest == <>[](g_motor_available => Stopped)

\* It does so unless the last motor command of the client or of the loop has
\* failed, whichever failed before; and the motion on record, which telemetry
\* reports and which two overlapping commands can leave wrong, is a stop then too
\* (car_motor.c:212-216).
ComesToRestAfterFaults ==
  <>[](g_motor_available /\ NoneFailed => Stopped /\ g_current_motion = "stop")

\* An enabled route visits every one of its steps again and again.
RouteCycles == \A k \in 1..Len(Route) : g_enabled ~> (g_step_index = k)

-----------------------------------------------------------------------------
(* Typing, strengthened until it is inductive: what the task is about to   *)
(* compute with is a value it loaded a step earlier.                       *)

TypeInv ==
  /\ TypeOK
  /\ pc["task"] = "tickSubtract" /\ ~wrapped => seen <= ManualTimeoutMs
  /\ pc["task"] = "storeIndex" => seen \in 1..Len(Route)
  /\ pc["task"] \notin {"indexCompare", "indexReset"} => g_step_index \in 1..Len(Route)

(* The inductive invariant behind NoShootThrough and NoRunaway.  Both need *)
(* that one thread at most gives the wheels a duty: with two, each can     *)
(* drive the half-bridge the other has just checked.                       *)

\* One source, and it never starts the route.
OneManualSource ==
  /\ \E s \in {"http", "sle"} : Sources = {s}
  /\ \A c \in Commands : c.word # "auto_start"

InMotor(t) == pc[t] \in {"zero", "duty", "record"}

\* The command of thread t has written register r.
Written(t, r) ==
  \/ wheel[t] = "right" /\ r[1] = "left"
  \/ pc[t] = "duty" /\ r = ZeroReg(wheel[t], job[t].motion)
  \/ pc[t] = "record"

\* Who may be where: the services come up after boot, the task only stops.
ControlInv ==
  /\ ~g_enabled
  /\ pc["task"] \in {"boot", "degraded", "start", "sleep", "zero", "duty", "record", "tickCompare",
                     "tickLoad", "tickSubtract", "tickClear", "tickClearRemaining", "patrolEnabled"}
  /\ job["task"] = [motion |-> "stop", duty |-> 0]
  /\ InMotor("task") => back["task"] \in {"start", "patrolEnabled"}
  /\ \A s \in Sources :
       /\ pc[s] \in {"down", "idle", "zero", "duty", "record",
                     "setIndex", "setElapsed", "apply", "arm", "armRemaining"}
       /\ back[s] \in {"idle", "apply", "arm"}
       /\ req[s].word # "auto_start"
       /\ \/ pc["task"] \in {"boot", "degraded", "start"}
          \/ InMotor("task") /\ back["task"] = "start"
          => pc[s] = "down"
       /\ job[s].motion = "stop" => job[s].duty = 0
  /\ \A t \in Threads :
       /\ InMotor(t) => g_motor_available
       /\ pc[t] = "record" => wheel[t] = "right"

\* A thread about to give a half-bridge its duty has just released the other.
InterlockInv ==
  /\ NoShootThrough
  /\ \A s \in Sources : pc[s] = "duty" => Released(ZeroReg(wheel[s], job[s].motion))

\* The watchdog has fired and its stop has not reached register r yet.
StopPending(r) ==
  \/ pc["task"] = "tickClearRemaining"
  \/ pc["task"] \in {"zero", "duty"} /\ ~Written("task", r)

\* Only a manual command of a source moves, and it goes on to arm the watchdog.
CallInv ==
  \A s \in Sources :
    /\ InMotor(s) /\ back[s] # "arm" => job[s].motion = "stop"
    /\ pc[s] = "arm" => back[s] = "arm"

\* What a stop command of a source has written is released, and stays so.
ReleasedInv ==
  \A s \in Sources : job[s].motion = "stop" /\ ok[s] =>
    \A r \in Wheels \X Halves : (InMotor(s) /\ Written(s, r)) \/ pc[s] = "arm" => Released(r)

\* Between the commands of the sources, whatever turns is watched or about to
\* be stopped, unless a last command has failed.
Settled(s) == ~InMotor(s) /\ pc[s] # "arm"

WatchedInv ==
  g_motor_available /\ NoneFailed /\ (\A s \in Sources : Settled(s)) =>
    \A r \in Wheels \X Halves : Released(r) \/ g_manual_watchdog_active \/ StopPending(r)

RunawayInv == CallInv /\ ReleasedInv /\ WatchedInv

(* The inductive invariant behind StopsInTime, as long as no subtraction   *)
(* has wrapped: an armed watchdog has been charged for every period but    *)
(* the one the tick is charging it for, and the tick subtracts a period    *)
(* from more than a period, or from the zero a handler has stored.         *)
Charging == IF pc["task"] \in {"tickCompare", "tickLoad", "tickSubtract"} THEN SamplePeriodMs ELSE 0

Armed == /\ g_manual_watchdog_active
         /\ pc["task"] # "tickClear"
         /\ \A s \in Sources : pc[s] # "armRemaining"

ChargeInv ==
  Armed /\ ~wrapped =>
    /\ g_manual_watchdog_remaining_ms + age <= ManualTimeoutMs + Charging
    /\ age < ManualTimeoutMs + Charging
    /\ pc["task"] = "tickSubtract" => seen + age <= ManualTimeoutMs + SamplePeriodMs

LoadInv ==
  ~wrapped /\ pc["task"] \in {"tickLoad", "tickSubtract"} =>
    /\ SamplePeriodMs < ManualTimeoutMs
    /\ (IF pc["task"] = "tickLoad" THEN g_manual_watchdog_remaining_ms ELSE seen) \notin 1..SamplePeriodMs

AgeInv == ChargeInv /\ LoadInv

(* The inductive invariant behind AckedMotionApplied: as long as no write  *)
(* of it has failed, what a command has written stays, or is released by   *)
(* the watchdog.                                                           *)
Wanted(s, r) == IF r = ZeroReg(r[1], job[s].motion) THEN {0} ELSE {0, job[s].duty}

AckedInv ==
  \A s \in Sources : ok[s] =>
    \A r \in Wheels \X Halves :
      (InMotor(s) /\ Written(s, r)) \/ pc[s] = "arm" => pwm[r] \in Wanted(s, r) \/ r \in missed

(* The inductive invariant behind RouteFollowed.  A start that falls into  *)
(* a tick gives the first step the time and the wheels of the step that is *)
(* running.  That is harmless only because every step that outlasts a tick *)
(* is the same motion.                                                     *)

\* Clients start the route, as often as they like, and nothing else.
OnlyStarts ==
  /\ \A c \in Commands : c.word = "auto_start"
  /\ SamplePeriodMs >= 1000

Straight == {1, 3}          \* the steps of Route that last longer than a tick

\* Between the load of the step and the end of its time.
InStep ==
  \/ pc["task"] \in {"patrolIssue", "advanceLoad", "advanceStore", "advanceCompare", "advanceReset"}
  \/ InMotor("task") /\ back["task"] = "advanceLoad"

RouteControl ==
  /\ ~g_manual_watchdog_active
  /\ pc["task"] \in {"boot", "degraded", "start", "sleep", "zero", "duty", "record",
                     "patrolEnabled", "patrolStep", "patrolIssue",
                     "advanceLoad", "advanceStore", "advanceCompare", "advanceReset",
                     "advanceIndex", "storeIndex", "indexCompare", "indexReset"}
  /\ InMotor("task") => back["task"] \in {"start", "advanceLoad"}
  /\ ~crossed /\ missed = {}
  /\ \A s \in Sources :
       /\ pc[s] \in {"down", "idle", "setIndex", "setElapsed"}
       /\ pc[s] \in {"setIndex", "setElapsed"} => req[s].word = "auto_start"

\* The elapsed time has been stored and not yet compared with the step's.
Comparing == pc["task"] \in {"advanceCompare", "advanceReset"}

RouteIndex ==
  /\ g_step_elapsed # 0 =>
       \/ /\ pc["task"] \in {"sleep", "patrolEnabled", "patrolStep", "patrolIssue", "advanceLoad", "advanceStore"}
          /\ g_step_index \in Straight
       \/ Comparing /\ g_step_elapsed >= SamplePeriodMs
  /\ InStep => g_step_index \in {step, 1}
  /\ pc["task"] = "advanceStore" => seen >= SamplePeriodMs

RouteWheels ==
  g_motor_available /\ ok["task"] =>
    /\ g_step_elapsed # 0 /\ ~Comparing => Runs(1)
    /\ pc["task"] \in {"advanceLoad", "advanceStore", "advanceCompare"} /\ step \in Straight => Runs(1)
    /\ InMotor("task") =>
         \A r \in Wheels \X Halves : Written("task", r) =>
           pwm[r] = IF r = ZeroReg(r[1], job["task"].motion) THEN 0 ELSE job["task"].duty
    /\ InMotor("task") /\ back["task"] = "advanceLoad" =>
         job["task"] = [motion |-> Route[step].motion, duty |-> Duty(Route[step].motion, Route[step].speed)]

RouteInv == TypeInv /\ RouteControl /\ RouteIndex /\ RouteWheels
=============================================================================
