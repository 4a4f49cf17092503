# A verification project for the Hi3863 environment patrol car

The repository holds an environment patrol car built on the HiSilicon WS63
(Hi3863) chip, a gateway board, a cloud server with a web application, and the
vendor's SDK they are built with. This directory holds TLA+ modules of the
project's own logic, TLC configurations that check them, and TLAPS proofs.

Paths are relative to the repository. `CAR` stands for
`src/application/samples/Farsight/ws63e_env_patrol_car`, `GW` for
`vendor/BearPi-Pico_H3863/products/ws63e_env_gateway`.

## The system

```
 web app / operator --HTTP--> cloud server (node, sqlite) <--HTTP poll-- base station
                                                                            |
 phone --UDP--> gateway board <==== SLE radio ====> patrol car <--- HTTP / SLE commands
                                                        ^
 dashboard page --HTTP--> server.py <--HTTP poll-- bridge_to_car.py
```

| Component | Code | State | Operations | What makes it hard, what must hold |
|---|---|---|---|---|
| Motor control and watchdog | `CAR/motor/car_motor.c` | four registers of the wheel bridge (on the I2C chip), recorded motion, watchdog flag and remaining time | init (stop at boot), command, manual command, stop, tick | three threads and a bus without a lock; a register write may fail, or be acknowledged and lost, half-way through a command. Both half-bridges of a wheel are never driven; a car nobody commands stops |
| Timed route | `CAR/patrol/patrol_route.c` | enabled, step, elapsed time | start, stop, tick | handlers change the state in the middle of a tick. The route is followed and goes round; a stop ends it |
| Sampling loop and boot | `CAR/app_main.c` | the order of the round | boot, one round a second | starts everything else; a failed probe means a loop that never starts the network |
| Command parsing | `CAR/comm/control_command.c` | none | parse, apply | text without a known word is a stop |
| HTTP server, SLE client | `CAR/comm/wifi_ap.c`, `sle_client.c` | the request handled; the state of the SLE link | handle a request or a notification; scan, connect, pair | run on threads of their own beside the loop; one recv is taken for a request; the link has dead ends. Handles and states are never stale |
| Telemetry publication | `CAR/comm/telemetry.c`, `wifi_ap.c` | `g_last_json` | publish, GET /api/data | written and read without a lock |
| Sensors, display, board, bus | `CAR/sensors`, `display`, `board`, `drivers` | device handles | probe, read, draw | device I/O |
| Gateway: cache and UDP bridge | `GW/telemetry_cache.c`, `udp_bridge.c` | message, length, ready flag | update (SLE callback), get (UDP task) | torn reads; a length checked and used at different times |
| Gateway: SLE server | `GW/gateway_main.c`, `sle_uart_server*.c` | connection and pair handles, connection queue | announce, connect, pair, disconnect | dropped events, a re-announce that fails. No disconnect is forgotten |
| Command dispatch | `apps/server/src/db.ts`, `http.ts` | table `control_commands` | create, pull, acknowledge, cancel | crashes between two committed statements, lost answers, late acknowledgements. At-most-once, oldest first, outcomes stay |
| Patrol tasks | `db.ts`, `http.ts` | table `patrol_tasks` | create, pull, change status | station and operator race. Only allowed transitions, final states final |
| Telemetry ingestion | `db.ts`, `http.ts`, `simulator.ts` | readings, batch ids, devices, audit, reports | upload, simulator tick | retries, crashes, colliding ids. What was accepted is stored, once |
| Payloads and permissions | `domain.ts` | none | clamp, parse, normalise, permit | pure functions |
| Migrations | `migrations.ts` | `schema_migrations` and the tables | migrate at start-up | a crash between a step and its record |
| Login, HTTP helpers, configuration | `auth.ts`, `http-utils.ts`, `config.ts`, `index.ts` | none that evolves | hash, sign, parse | |
| Live events, web application | `realtime.ts`, `apps/web/src` | connected clients; the view | broadcast; refresh | overlapping refreshes, late answers |
| Local dashboard and bridge | `tools/env_patrol_dashboard` | latest sample, queue of twenty commands, history of fifty | post, poll, forward | a thread for each request, a bridge that gives up and goes on. At most once, oldest first, the newest kept |
| SDK, samples, scripts, documents | the rest of `src/`, `vendor/`, `deploy/`, `docs/` | | | vendored or not program logic |

How the parts interact: the handlers of the car (HTTP task, SLE callback) call
the motor and the route directly and share their C globals with the sampling
loop; the gateway's callback and its UDP task share the cache. The cloud server
is one process with one thread whose handlers run from their first query to
their last without an `await`, so they do not interleave with each other, but
each statement commits on its own. The local dashboard has one thread for each
request and one lock; the bridge to the car is a process of its own that polls
it and posts to the car's HTTP server. The base station is not in this repository;
it is modelled from `deploy/base-station-api.md` and from how the handlers treat
it, and its actions are marked external.

## Modules

| Module | Models | Composes with |
|---|---|---|
| `CarMotion` | motor, watchdog, route, loop, boot and the two command handlers of the car | the whole motion side of the car in one module, because its threads share globals |
| `MCCarMotion` | command sets for TLC | `CarMotion` |
| `CarMotion_proofs`, `PatrolRoute_proofs` | theorems and proofs: manual driving, and the timed route | `CarMotion` |
| `SleLink` | the SLE connection: the car's client, the gateway's server and its re-announcing task, between two stacks and a radio | both ends in one module |
| `SleLink_proofs` | theorems and proofs | `SleLink` |
| `DispatchQueue` | abstract: what a queue owes the one it queues work for; `Spec` hands out a batch at a time, `StreamSpec` one item at a time | refined by the next three |
| `CommandQueue` | `control_commands`, its handlers, the station's side of the protocol | `Queue == INSTANCE DispatchQueue` |
| `CommandQueue_proofs` | theorems and proofs, the refinement included | `CommandQueue` |
| `PatrolTasks` | `patrol_tasks`, its handlers, station and operators | `Queue == INSTANCE DispatchQueue` |
| `PatrolTasks_proofs` | theorems and proofs, the refinement included | `PatrolTasks` |
| `DashboardBridge` | the dashboard's command queue and its threads, the bridge, the car's HTTP task | `Queue == INSTANCE DispatchQueue` (`StreamSpec`) |
| `DashboardBridge_proofs` | theorems and proofs, the refinement included | `DashboardBridge` |
| `TelemetryIngest` | upload handler, ingestion, reports, audit, simulator | |
| `TelemetryIngest_proofs` | theorems and proofs | `TelemetryIngest` |
| `GatewayCache`, `MCGatewayCache` | the gateway's cache and the answers of the UDP bridge; message lengths for TLC | |
| `GatewayCache_proofs` | theorems and proofs | `GatewayCache` |

### CarMotion

State: `pwm` holds the four registers of the wheel bridge. It is a chip of its
own, so at power-up its registers hold whatever the run before left, and the
boot stop has to clear them. The `g_...` variables are the C globals with their
names. `pc`, `job`, `wheel`, `ok`, `back` and `req` stand for the stacks of the
threads: where a thread is, the motor command it is executing, the wheel it is
at, whether a write has failed, where it returns to, and the request it handles.

Atomicity: nothing in the car is locked, and every other thread may run between
two steps. Which task preempts which depends on priorities set in prebuilt code;
both orders are admitted. One step is one access of a shared global, reloads
included: `g_step_elapsed += elapsed_ms` is a load and a store, and the
subtraction of the watchdog (`car_motor.c:260`) and the comparisons and the
modulus of the route (`patrol_route.c:73-77`) load again what an earlier statement
stored or compared. A compiler that keeps the value in a register has fewer
behaviours, not others.

One step is also one register write, although the bus is not locked either. The
mutex of the I2C driver (`src/drivers/drivers/driver/i2c/i2c.c:48`) is under
`CONFIG_I2C_SUPPORT_CONCURRENCY`, which is not set in the car's build
(`build/config/target_config/ws63/menuconfig/acore/ws63_liteos_app.config:292`,
the car itself at line 59). START and address go out with interrupts on
(`i2c.c:267`), only the payload is sent with interrupts locked
(`i2c.c:201-203`). So the transfer of another thread can come between the address
and the payload of a write, and the payload then reaches another device and is
acknowledged there: `WriteLost`. It is admitted for a handler at any write, since
the loop's sensors and display are on the same bus, and for the loop when a
handler has been on the bus since the loop's write began (`crossed`). `missed` is
a history variable: the registers whose last acknowledged write never reached
them. Two things are assumed of the bus: a payload goes whole or not at all,
being sent with interrupts locked; and the payloads of the other devices, should
the bridge receive one, hit none of the four wheel registers.

Correspondence: `CallMotor`, `WriteZero`, `WriteDuty`, `WriteFails`, `WriteLost`,
`RecordMotion` are `car_motor_command` down to `motor_write_pwm_to`, in whatever
thread it runs; `Wake` to `TickClearRemaining` are `car_motor_tick`;
`PatrolEnabled` to `IndexReset` are `patrol_route_tick`; `Receive`, `SetIndex`,
`SetElapsed`, `Apply`, `Arm`, `ArmRemaining` are a handler: route stop or start,
motor stop, `car_motor_manual_command`. A write that fails makes
`motor_set_wheel` give up on that wheel, while `motor_apply` still goes on to
the other one.

Abstractions: the two older bridge addresses are not the bridge's; writes fail
or are lost after boot only within `MaxFaults` (at boot they fail at any of the
four writes, and no other thread is there to lose them to); the remaining time
counts modulo `Word`, which is 2^32 in the code and small in the runs, and
`wrapped` tells that it has been taken below zero;
commands arrive parsed, as a word and a speed; the time between two rounds is
one step. `age` is a history variable: the sample periods begun since the
watchdog was last set. It counts the periods as the code declares them
(`car_motor_tick(1000)`); a real round is longer by the body of the loop, so in
real time the car may drive on for longer than `StopsInTime` says by that much
for each round.

### SleLink

State: the car's `g_sle_state`, whether it has a write handle, the gateway's
`g_sle_pair_hdl`, the number of messages in its queue, where its server task is;
and, external, what the two stacks are doing (seeking, connecting, announcing),
the link, the pairing record, and the callbacks each end has still to hear, in
order. `failed` is the set of requests that have failed so far.

Correspondence: one action for each callback of `sle_client.c`
(`car_sle_enable_cbk` to `car_sle_find_property_cbk`; connected and disconnected
are `CarConnected` and `CarDisconnected`), for each callback of
`sle_uart_server.c`, and for each stage of the loop of `gateway_main.c`
(`ServerInit`, `ServerRead`, `ServerAnnounce`, `ServerWake`). Every request to a
stack may be done, answered by a failure, or refused by a return code that the
code discards. `LinkLost`, `CarReset` and `GatewayReset` may happen at any time.

Abstractions: there is one car and one gateway, so a connection id is a truth
value; what is sent over the link is in `CarMotion` and `GatewayCache`; at most two
reports of the same peer wait at once.

What the model tells of the code: a client in `ERROR` leaves it with the next
disconnect only, and nothing brings one about; each single request that fails
is final but one, the scan that is asked to stop and goes on, because the next
report of the peer asks again; a failed pairing sets the gateway's pair handle
as well (`sle_uart_server.c:334`). The connection queue of five never holds more
than one message, so writing it without waiting loses nothing: this is part of
`NeverForgotten`. A re-announcement that fails (`gateway_main.c:115`) leaves the
gateway in no role at all, and nothing in the code tries again: `NeverForgotten`
and `Reconnects` claim nothing after it.

### CommandQueue, PatrolTasks and DispatchQueue

State: the table (status, creation time, which times are set), the pull being
served (`pulling`, `rows`, `marked`) and, external, what the station knows and
what is in flight. A pull is a SELECT, one UPDATE for each row and an answer; a
crash may fall between any two of them, and the answer may be lost. Creating,
acknowledging, cancelling and changing a status are one statement and so one
action. `DispatchQueue` has one variable, the place of each item; `Place` maps a
row to its place from its status, the pull and what the station knows: a row
the station never saw although it was marked is `lost`, and no step brings it
back. That is what at-most-once delivery means here (the column `expires_at` is
never read).

### DashboardBridge

State: the store of `server.py` (`commands`, `pending_commands`, and where the
thread is that holds its lock), what `next_command` has handed out, where the
bridge is and the command it holds; the threads that answer a request the bridge
has given up (`late`), the commands in answers nobody reads (`orphans`), the
requests the car's network stack has taken and its HTTP task has not (`backlog`),
and, as history, what the car made of each command and what the bridge reported
as forwarded. Commands are numbered in the order in which their threads take
the lock.

Correspondence: `AddHistory`, `AddPending`, `AddSlice`, `AddStore` are the
statements of `add_command`; the lock keeps `next_command` out of them, and the
mutant without the lock breaks the refinement. `NextCommand` is `next_command` for
a bridge that waits, `LateNextCommand` for one that has gone on: it takes a
command all the same, and nobody gets it. `AnswerRead` to `GiveUpPost` are
`bridge_once` with the exceptions it catches; `BridgeEnds` is the operator or an
exception it does not catch. `CarServe` is one turn of the car's loop of accept,
one recv and close, with what the recv may return: all of the request, its head
alone (which is applied as a stop and answered 200), or less than that.

The refinement maps a command to the place it has in `DispatchQueue!StreamSpec`.
Every answer here carries one command, and answers given up, late threads and
the car's backlog let several be on their way at once; what is promised is that
each leaves the dashboard once at most and oldest first, and that the car never
takes up a command older than one it has taken up. The last rests on the car's
network stack accepting connections in the order in which they were opened,
which `CarServe` and the backlog take for granted (external).

### TelemetryIngest

State: the tables as sets of rows, the handler that runs (`pc`, `batch`, `at`,
`device`), the requests in flight, the clock in milliseconds and whether a
report has been made in the current one, for a report's primary key is the
millisecond. `InsertReading`, `TouchDevice` and `MarkBatch` are the statements of
`ingestTelemetryBatch` in their order; `MakeReport` or `ReportThrows` follow, then
`AuditAndAnswer`. The simulator uses the same statements from a timer; an
exception there has no handler and ends the process, which a supervisor starts
again with its tick count at zero. Each batch has one `receivedAt` of its own,
as stations stamp them.

### GatewayCache

State: the cache cell by cell, its length and ready flag, and the writer and the
reader at the byte they are copying. A message is a length and an identity: each
of its bytes is the identity, so a mixture of two messages is visible.
`telemetry_cache_get` loads the length three times (check, copy, terminator) and
the model does too. Messages the cache refuses (empty, or as long as the cache)
are among the inputs. The copies go through the bytes in rising order, as the
copying functions of the SDK do; the order of the bytes in a torn answer rests on it.
`known` is a history variable: a message the phone has reason to know of, one that
was complete when its packet came or any that an answer has shown a byte of.

## Runs

| Run | Constants | States | Shows |
|---|---|---|---|
| `car_manual` | HTTP, 3 commands of 5 kinds, period 300 ms, watchdog 800 ms, word of 1200, 2 failing or lost writes | 2 130 029 | `NoRunaway`: when every thread waits, a wheel turns only under the route, an armed watchdog, or a lost write to its register; `StopsInTime`: and under the watchdog only for the periods the timeout allows, as long as the remaining time has not wrapped; `NoShootThrough` and `AckedMotionApplied` through every pattern of failures, but for the registers whose last write was lost; `ComesToRestAfterFaults`: once clients are silent the car stops for good, but for those registers, and is on record as stopped, unless the last command of a thread failed. The period is shortened so that the remaining time is also counted down, and can wrap |
| `car_route` | HTTP and SLE, 3 times `auto_start`, real times, 1 failing write | 181 387 | `RouteFollowed`, `RouteCycles`. No write is lost: a start touches no bus |
| `sle_link` | queue of 5, every request may fail | 319 344 | `HandlesAreCurrent`, `StateTellsLink`, `NeverForgotten`, `NeverStranded` (a car that has started has a way on until a request other than the stop of a scan fails), `Reconnects` |
| `bridge` | 4 commands, queue of 2, history of 3, 1 late request at a time, backlog of 2 | 124 094 | `NewestKept`, `PendingIsShown`, `ForwardedIsTakenUp`, `Dispatch` (against `StreamSpec`), `Drained` |
| `commands` | 3 commands, 2 creation times, clock never set back, station acknowledges with `sent` and `executed` | 308 544 | `Dispatch` (the table implements `DispatchQueue`), `OutcomeStays` (the outcome of a row is what the station ended with, and only a `sent` that was on its way may overwrite it), `NothingWaitsForever`. `failed` takes the path of `executed` through the server |
| `patrol` | 2 tasks, operators ask for pulled, running, cancelled | 371 434 | `CancelledNeverRuns`, `TimesTell`, `FinalStays`, `Dispatch` |
| `ingest` | 2 uploads of 2 devices, the second malformed, 2 simulator ticks, 3 instants, 1 crash | 36 524 | `MarkedIsStored`, `AcceptedIsStored`, `NoDuplicateReadings`, `LastSeenBacked`, `EveryBatchAccepted` |
| `cache_reads` | cache and buffer of 4 bytes, messages of 2, 0, 1, 4, 3 bytes | 1 758 | `QuietReadIsLatest`, `NoAnswerGoesBack` (a torn answer has the bytes of its messages in order and none older than what the phone knows), `TerminatorInside`, `AnswersSettle` |

Each passing run but `car_route` checks the type invariant of its module too;
deadlock is checked in all but `bridge`, where the operator may end the bridge
and press nothing any more.

Four runs end in a counterexample, each against a sentence of the repository's
own documents:

| Run | Says | Happens |
|---|---|---|
| `car_route_stop_race` | `CAR/comm/CONTROL.md:66`: a manual command stops the patrol first | the tick has read `g_enabled`, the handler stops route and motor, the tick then issues the step's motion: the car drives with the route disabled and no watchdog |
| `car_watchdog_fault` | `CONTROL.md:70-71`: the watchdog stops the car | the watchdog is disarmed before its stop, and the result of the stop is discarded: after one failed write a wheel turns for good |
| `ingest_no_received_at` | `docs/acceptance/backend-checklist.md:25`: a retried batch is not stored twice | without `receivedAt` the key of a reading is the time of day: after a crash in a batch the retry stores its readings again |
| `bridge_cut` | `tools/env_patrol_dashboard/WORKFLOW.md:101` and 114: the button's command is forwarded to the car | urllib sends head and body apart, the car's one recv may return the head alone (`wifi_ap.c:207`), the empty body is applied as a stop and answered 200, and the bridge logs the command as forwarded |

More of what the models tell has no run of its own:

- With both HTTP and SLE driving manually (`Sources = {"http", "sle"}`),
  `NoRunaway` and `NoShootThrough` fail: the register writes of two commands
  interleave in one order and their watchdog writes in the other, and each
  command can drive the half-bridge the other has just released. This is why the
  theorems about manual driving assume one source.
- A stop and a start of the route that both fall into one tick leave the route
  running with its wheels stopped until the next step: the tick goes on with the
  elapsed time it had loaded, so the first step is not issued. `RouteFollowed` is
  therefore stated for clients that start the route and nothing else. Starts
  alone can also mix the step that is running with the first one; no harm comes
  of it because every step that outlasts a tick is the same motion.
- A stop that was acknowledged and lost on the bus leaves a wheel turning with
  the watchdog disarmed and success reported, against `CONTROL.md:70-71`; lost
  writes can also leave both halves of a wheel driven. The properties exempt
  exactly the registers in `missed`; with `pwm[r] = 0` in place of `Released(r)`
  in `Stopped`, `car_manual` finds the first, and without the last line of
  `NoShootThrough` the second.
- A handler's stop between the comparison and the subtraction of the watchdog's
  tick (`car_motor.c:252` and 260) makes the remaining time wrap, and a command that
  arms the flag before it stores its time would then be watched for days, if the
  period were shorter than the timeout. In the car the two are 1000 and 800 ms,
  the tick never subtracts, and `NeverWraps` proves that it does not happen.
- An acknowledgement `sent` that arrives after the one with the outcome takes the
  outcome's place in the table, although the station ended with the command:
  `http.ts:284` accepts it in any state. `deploy/base-station-api.md:50` and
  `backend-checklist.md:27` list the status and name no order.
- A manual command that fails returns before it arms the watchdog
  (`car_motor.c:221`): a wheel it did reach turns on unwatched. `NoRunaway`,
  `StopsInTime` and `ComesToRestAfterFaults` exempt a car whose last command failed.
- The recorded motion, which telemetry reports, may say stop while the wheels
  turn, when the watchdog's stop overlaps a new command: until the next stop.
- An upload whose report id collides with another of the same millisecond is
  stored, answered 500 and not audited, against `backend-checklist.md:35`. The
  retry is audited (`AcceptedIsStored`).
- An answer of the gateway's cache can mix two messages or be cut when the writer
  runs during the read, although `GW/telemetry_cache.c:4` says "Thread-safe".
  `QuietReadIsLatest` and `NoAnswerGoesBack` are what holds.
- `allowed` in `db.ts:394` lets a pulled task go straight to `failed`, which
  `deploy/base-station-api.md:77-84` and `backend-checklist.md:29` do not list.
  `PatrolTasks` models the code.

### Why the bounds are enough

- Commands of the car: a handler is one thread and handles one command at a
  time, so a command can meet the rest of at most the one before it and the
  watchdog it armed; three commands give motion, change and stop. Two writes
  that fail or are lost cover both wheels of one command, or one wheel of two. On the route,
  three starts from two threads restart it twice at any point of its round.
- SLE: nothing is bounded but the waiting reports of a peer, at two, which is one
  more than it takes for a second report to find the scan already stopped.
- Dashboard: four commands overflow a queue of two twice, and a history of three
  once; the real limits (20 and 50) differ in size only, and the proofs hold for
  every size. One late request at a time and a backlog of two let a command be
  overtaken by its successor at every stage.
- Queues of the cloud: order and at-most-once delivery concern pairs of rows;
  three rows give a pull with a row created after it. Two creation times give
  both a tie and an order. Crashes are not bounded.
- Patrol tasks: the life cycle concerns one task, the order two; requests in
  flight are a set without a bound of its own, so repeats and overtaking are
  unlimited.
- Ingestion: two devices make a batch that can be half stored; one crash puts a
  retry after it; three instants let reports fall into one millisecond or two.
  `Millisecond` stays possible at the last instant, so that report ids are
  always freed again.
- Cache: a message that just fits, shorter and longer neighbours, and both kinds
  of refused message, at a size where every byte's interleaving is explored.

### Fairness

- Car: weak fairness of each thread (the kernel schedules what is ready); none
  of `Receive`, for clients owe nothing, and none of failures.
- SLE: tasks run, callbacks are delivered, and a seeking car finds and is
  connected to an announcing gateway. Nothing has to break, and `Reconnects` is
  claimed for behaviours in which upsets and disregarded requests to stop the
  scan cease and nothing else has failed.
- Dashboard: threads that hold or want the lock run on, the bridge is started
  again when it has ended and one day polls (strong fairness of
  `PollDashboard`), and its own timeouts end its requests. Nothing is assumed of
  the car: its recv has no timeout, so a silent client holds it for good.
- `commands`: the station keeps polling (weak fairness of the steps of a pull),
  and a row that keeps being selected is one day marked (strong fairness of
  `PullMark`), since the process does not crash in every pull for ever. Nothing
  is assumed of acknowledgements or cancels.
- `ingest`: a handler runs on; time passes; the station repeats what was not
  accepted, and of infinitely many attempts some arrive (strong fairness of
  `BeginUpload`), some find a free report id (`MakeReport`), some answers return
  (`AuditAndAnswer(TRUE)`). A malformed batch is never accepted and is excluded.
- Cache: both tasks run, the phone keeps asking, the car is silent after its
  last message.

## Proofs

Each theorem holds for every value of the constants that the module's `ASSUME`
admits; further assumptions are named. The inductive invariants stand at the end
of the component's module and were checked with TLC before they were proved.

`CarMotion_proofs`:

- `TypeCorrect`: `Spec => []TypeOK`. The remaining time is a word, and at most the
  timeout until it wraps. The invariant `TypeInv` adds what the task holds in
  `seen`, and that only the two statements that follow the store of the index
  see it out of range.
- `NeverWraps`: `[]~wrapped` when the period is no shorter than the timeout, as in the
  car (1000 and 800 ms): the tick then never gets to its subtraction. With a shorter
  period a stop of a handler between the two loads wraps the time, and
  `ManualStopsInTime` says what holds until then.
- The others assume `OneManualSource` (one of HTTP and SLE, and no
  `auto_start`), and no bound on failing or lost writes. `ControlInv` says which threads
  can be where: the loop gives the wheels nothing but a stop, so only one thread
  ever drives.
- `Interlock`: `NoShootThrough`. `InterlockInv` adds that a thread about to write
  a duty has released the opposite half, or its write to it was lost; a stop of
  the loop cannot undo the one or the other.
- `ManualNeverRunsAway`: `NoRunaway`. `RunawayInv`: whatever turns is watched, or a
  source is in a command that will arm the watchdog, or the watchdog has fired
  and its stop has not reached that register, or the last write to that register
  was lost, or a last command has failed.
  The third case is why the order "clear the flag, then stop" is safe as long as
  writes succeed; `car_watchdog_fault` shows that it is not when they fail, and
  `car_route_stop_race` that the assumption about `auto_start` is needed.
- `ManualStopsInTime`: `StopsInTime`. It holds for every period and
  timeout, but only until the time wraps. `ChargeInv`: remaining time and age of
  an armed watchdog add up to at most the timeout, and one period more while the
  tick is charging it. `LoadInv`: what the tick subtracts from is more than a
  period, or the zero a handler has stored since the comparison, and only that
  zero wraps.
- `AckedIsApplied`: `AckedMotionApplied`. `AckedInv`: as long as no write of a
  command has failed, each register it has written holds what it wanted, or zero, or its
  write was lost.

`PatrolRoute_proofs`:

- `RouteIsFollowed`: `RouteFollowed` under `OnlyStarts` (clients start the route and
  nothing else, and the period is a second or more), for any number of sources
  and failing writes. `RouteInv`: the time of a step is non-zero only within a
  straight step, the index meanwhile is that of the step or the first, and
  then the wheels run straight. It rests on the data of `PATROL_ROUTE`: every step
  that outlasts a tick is "forward, 45".
- `RouteInterlock`: `NoShootThrough` under the same assumption, which
  `OneManualSource` does not cover. `SourceActs` shows that a start writes no
  register, so the loop is alone at the wheels and on the bus, no write is lost
  (`missed = {}` is proved, not assumed), and `LoopZeroed` that it comes to a duty with
  the opposite half at zero.

`SleLink_proofs`:

- `TypeCorrect`, `HandlesCurrent` (`HandlesAreCurrent`), `StateTold`
  (`StateTellsLink`), `NoDisconnectForgotten` (`NeverForgotten`). `OneStage`: the car is
  at one stage at a time, or has one callback to hear that leads on.
  `CarInOrder`: what it has still to hear of a connection that is gone is followed
  by the disconnect. `GwInv`: the gateway hears of a disconnect last of all, and
  is in one role at most, which bounds its queue by one whatever its length.
- `CarNeverStranded`: `NeverStranded`. The car repeats no request, so its way on
  passes from the request to its answer, to the callback that answers it and to the
  next request. `WayInv` adds what makes the passing safe: bad news is waiting only
  of requests that have failed (`AllGood`), no connection is under way to a peer that
  counts as paired, and an idle car has nothing to hear. The theorem does not say
  that the way is taken: that is `Reconnects`.

`CommandQueue_proofs`:

- `TypeCorrect`: `Spec => []TypeOK`.
- `OutcomesAreFinal`: `OutcomeStays`, for every set of statuses the station may send.
  `PullInv`, `StationInv` and `OutcomeInv`: an acknowledgement in flight says
  what the station ended with, and so does the row once it has an outcome, which
  only a `sent` still in flight can overwrite; a delivery never reaches a station that already ended with the command.
- `CommandsAreDispatched`: `Spec => Dispatch` when the clock is not set back.
  `QueueInv` says that a running pull has before it exactly the pending rows and
  that what it marked is known to nobody; `OrderInv` that ids and times agree, so
  the oldest row of a pull is the one with the least id (`OldestIsFirst`). Each
  action then maps to one of the queue: create to `Submit`, marking to `Take`, a
  received answer to `Deliver`, a lost one or a crash to `Lose`, the cancel of a
  pending command to `Withdraw`, everything else to a stutter. With a clock that
  is set back, `Dispatch` is not claimed: rows are handed out by time and not by
  insertion.
- `CommandsAreDispatchedOnce`: `Spec => DispatchAnyOrder` for every clock. `TakeAny`
  of the queue hands out any item that waits; all else is as before. So only the
  order rests on the clock: at most one answer carries a command, and none does once
  it was cancelled, whatever the times are.

`PatrolTasks_proofs`:

- `TypeCorrect`, `CancelledNeverDriven` (`CancelledNeverRuns`), `TimesAreTold`
  (`TimesTell`), `EndsAreFinal` (`FinalStays`), `TasksAreDispatched` (`Dispatch`). `TaskInv`
  ties three things together: the rows of a running pull are the pending ones
  (`PullInv`), the station knows only rows that were pulled (`StationInv`), and
  what it drives has been started (`LifeInv`). Operators may mark a task pulled by
  hand, which maps to `Withdraw`: no pull will hand it out.

`DashboardBridge_proofs`:

- `TypeCorrect`, `NewestStay` (`NewestKept`), `WaitingIsShown` (`PendingIsShown`),
  `ForwardedTaken` (`ForwardedIsTakenUp`), `ChainIsDispatch` (`Dispatch`). `StoreInv`: what
  is pending is a run of the newest numbers, and everything handed out is older.
  `WayInv`: commands on their way to the car are in order and newer than all it
  has taken up. From these every step maps to one of `StreamSpec` or a stutter.

`TelemetryIngest_proofs`:

- `TypeCorrect` without further assumption. `MarkedBatchesAreStored`,
  `AcceptedBatchesAreStored`, `RetriesStoreOnce` and `LastSeenIsBacked` assume
  `WithReceivedAt`; `ingest_no_received_at` shows that they need it. `RowsInv`: the
  time of a row tells its batch. So `INSERT OR REPLACE` replaces a row by itself
  at most (`InsertOnlyAdds`), nothing stored is ever lost, and `WorkInv` follows the
  handler through the batch.

`GatewayCache_proofs`:

- `TypeCorrect`, `QuietReadsAreLatest` (`QuietReadIsLatest`), `TerminatorStaysInside`
  (`TerminatorInside`, when the reader's buffer is no smaller than the cache; in the
  code both have 512 bytes). `WriterInv` says what the cache holds at each stage of
  an update, `ReaderInv` what an undisturbed reader has copied. The length stays
  below the size of the cache, which is all that saves a terminator whose length
  has changed since it was checked.
- `NoAnswerGoesBackEver`: `NoAnswerGoesBack`. `OrderInv`: the cache is cleared
  before it is filled, so what it holds is of one message at a time, no older than
  the last complete one or than any byte the reader has copied.

Only model-checked: all liveness (`ComesToRestAfterFaults`, `RouteCycles`,
`Reconnects`, `Drained`, `NothingWaitsForever`, `EveryBatchAccepted`, `AnswersSettle`),
which rests on fairness and ENABLED. Every invariant and every action property
of the passing runs is also a theorem.

## Not modelled

- Telemetry publication of the car (`CAR/comm/telemetry.c`, `g_last_json`): one
  formatted string, copied without a lock and sent by another task. It is the
  race of `GatewayCache` with a format around it; no document promises a whole
  sample.
- Payload normalisation and permissions (`domain.ts`): functions of one request,
  without state, which the repository's own tests call. Two batches with one
  `receivedAt` overwrite each other's readings, for the id of a reading does not
  hold the batch; the stations' clocks keep them apart.
- Migrations: straight-line code at start-up. A crash between a step and its
  record makes the step run again, and each is written so that it can
  (`IF NOT EXISTS`, `ensureColumn`).
- Bindings of devices to base stations: the queue modelled is one station's. What
  becomes of rows queued at the old station is said nowhere.
- Web application and live events: a view that is fetched again; overlapping
  refreshes may show an older answer until the next one. Nothing acts on it.
- The way from a cancelled command to the car: `CommandQueue` ends with the
  station, which is not in this repository.
- Sensors, display, board, access point bring-up and the SDK: device I/O,
  arithmetic on samples, vendored and mostly prebuilt code. The models assume of
  it that the payload of an I2C write is sent whole, that the traffic of sensors and
  display may take the bus at any time but hits no wheel register, and that tasks
  are preemptive.
- Login, tokens, HTTP helpers, configuration: no state that evolves. The Android
  wrapper, samples, scripts and course material: generated, or not part of the
  program.
