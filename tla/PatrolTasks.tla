----------------------------- MODULE PatrolTasks -----------------------------
(***************************************************************************)
(* Patrol tasks: the patrol_tasks table of db.ts, the handlers that create *)
(* and hand out tasks, and PATCH .../status, through which both the base   *)
(* station and an operator move a task along its life cycle.               *)
(*                                                                         *)
(* As for commands, handlers do not interleave but a crash may fall        *)
(* between two statements.  The base station is an outside program that    *)
(* asks the server before it drives off: it starts a task on a 200 answer  *)
(* to "running" and gives it up on a 409.                                  *)
(***************************************************************************)
EXTENDS Integers

CONSTANTS MaxTasks,             \* bound: tasks created
          OperatorStatuses      \* the statuses operators ask for

ASSUME TaskAssumption ==
  /\ MaxTasks \in Nat
  /\ OperatorStatuses \subseteq {"pending", "pulled", "running", "completed", "failed", "cancelled"}

Ids      == 1..MaxTasks       \* in the order their rows are inserted
Statuses == {"pending", "pulled", "running", "completed", "failed", "cancelled"}
Final    == {"completed", "failed", "cancelled"}

\* Mutant of allowed: a task can still be cancelled while it runs.
allowedCancelRunning == [pending   |-> {"pulled", "running", "cancelled"},
                         pulled    |-> {"running", "failed", "cancelled"},
                         running   |-> {"completed", "failed", "cancelled"},
                         completed |-> {}, failed |-> {}, cancelled |-> {}]

\* Mutant of allowed: a failed task can be started once more.
allowedRetryFailed == [pending   |-> {"pulled", "running", "cancelled"},
                       pulled    |-> {"running", "failed", "cancelled"},
                       running   |-> {"completed", "failed"},
                       completed |-> {}, failed |-> {"running"}, cancelled |-> {}]

\* updatePatrolTaskStatus: the table of allowed transitions.
allowed == [pending   |-> {"pulled", "running", "cancelled"},
            pulled    |-> {"running", "failed", "cancelled"},
            running   |-> {"completed", "failed"},
            completed |-> {},
            failed    |-> {},
            cancelled |-> {}]

VARIABLES
  patrol_tasks,     \* the table: status, and which of its times are set
  pulling, rows, marked,   \* a pull being served, as in CommandQueue
  station,          \* what the base station does with each task
  patches           \* PATCH .../status requests in flight

pullVars == <<pulling, rows, marked>>
vars == <<patrol_tasks, pullVars, station, patches>>

StationStatuses == {"running", "completed", "failed"}

TypeOK ==
  /\ patrol_tasks \in [Ids -> [status : Statuses \cup {"absent"}, pulled_at : BOOLEAN,
                               started_at : BOOLEAN, finished_at : BOOLEAN]]
  /\ pulling \in BOOLEAN
  /\ rows \subseteq Ids
  /\ marked \subseteq Ids
  /\ station \in [Ids -> {"none", "holds", "running", "done", "dropped"}]
  /\ patches \subseteq [task : Ids, status : Statuses, from : {"station", "operator"}]

Status(t) == patrol_tasks[t].status

Init ==
  /\ patrol_tasks = [t \in Ids |-> [status |-> "absent", pulled_at |-> FALSE,
                                    started_at |-> FALSE, finished_at |-> FALSE]]
  /\ pulling = FALSE /\ rows = {} /\ marked = {}
  /\ station = [t \in Ids |-> "none"]
  /\ patches = {}

-----------------------------------------------------------------------------
(* The server.                                                             *)

\* Mutant of CreatePatrolTask: created under a status nobody looks for.
CreateQueued(t) ==
  /\ ~pulling
  /\ Status(t) = "absent"
  /\ \A u \in Ids : u < t => Status(u) # "absent"
  /\ patrol_tasks' = [patrol_tasks EXCEPT ![t].status = "queued"]
  /\ UNCHANGED <<pullVars, station, patches>>

\* POST /api/patrol-tasks.
CreatePatrolTask(t) ==
  /\ ~pulling
  /\ Status(t) = "absent"
  /\ \A u \in Ids : u < t => Status(u) # "absent"
  /\ patrol_tasks' = [patrol_tasks EXCEPT ![t].status = "pending"]
  /\ UNCHANGED <<pullVars, station, patches>>

\* GET .../patrol-tasks/pending: SELECT, one UPDATE for each row, the answer.
\* created_at follows the order of insertion (CommandQueue has the clock).
PullSelect ==
  /\ ~pulling
  /\ pulling' = TRUE
  /\ rows' = {t \in Ids : Status(t) = "pending"}
  /\ marked' = {}
  /\ UNCHANGED <<patrol_tasks, station, patches>>

\* Mutant of PullMark: the newest task first.
PullMarkNewest(t) ==
  /\ pulling
  /\ t \in rows
  /\ \A u \in rows : t >= u
  /\ patrol_tasks' = [patrol_tasks EXCEPT ![t].status = "pulled", ![t].pulled_at = TRUE]
  /\ rows' = rows \ {t}
  /\ marked' = marked \cup {t}
  /\ UNCHANGED <<pulling, station, patches>>

PullMark(t) ==
  /\ pulling
  /\ t \in rows
  /\ \A u \in rows : t <= u
  /\ patrol_tasks' = [patrol_tasks EXCEPT ![t].status = "pulled", ![t].pulled_at = TRUE]
  /\ rows' = rows \ {t}
  /\ marked' = marked \cup {t}
  /\ UNCHANGED <<pulling, station, patches>>

PullRespond(received) ==
  /\ pulling
  /\ rows = {}
  /\ pulling' = FALSE
  /\ marked' = {}
  /\ station' = [t \in Ids |-> IF received /\ t \in marked THEN "holds" ELSE station[t]]
  /\ UNCHANGED <<patrol_tasks, rows, patches>>

CrashRestart ==
  /\ pulling
  /\ pulling' = FALSE /\ rows' = {} /\ marked' = {}
  /\ UNCHANGED <<patrol_tasks, station, patches>>

\* What the station makes of the answer to its request.
Learn(m, accepted) ==
  station' = [station EXCEPT ![m.task] =
    CASE @ = "holds" /\ accepted /\ m.status = "running"  -> "running"
      [] @ = "running" /\ accepted /\ m.status \in Final  -> "done"
      [] @ = "holds" /\ (~accepted \/ m.status \in Final) -> "dropped"
      [] OTHER                                            -> @]

\* Mutant of UpdateStatus: the finishing time is set on a cancelled task too.
UpdateStatusFinishes(m, received) ==
  /\ ~pulling
  /\ m \in patches
  /\ Status(m.task) \in Statuses
  /\ m.status \in allowed[Status(m.task)]
  /\ patrol_tasks' = [patrol_tasks EXCEPT
       ![m.task].status = m.status,
       ![m.task].started_at = @ \/ m.status = "running",
       ![m.task].finished_at = @ \/ m.status \in Final]
  /\ patches' = patches \ {m}
  /\ IF received /\ m.from = "station" THEN Learn(m, TRUE) ELSE UNCHANGED station
  /\ UNCHANGED pullVars

\* PATCH .../status with an allowed transition: 200.
UpdateStatus(m, received) ==
  /\ ~pulling
  /\ m \in patches
  /\ Status(m.task) \in Statuses
  /\ m.status \in allowed[Status(m.task)]
  /\ patrol_tasks' = [patrol_tasks EXCEPT
       ![m.task].status = m.status,
       ![m.task].started_at = @ \/ m.status = "running",
       ![m.task].finished_at = @ \/ m.status \in {"completed", "failed"}]
  /\ patches' = patches \ {m}
  /\ IF received /\ m.from = "station" THEN Learn(m, TRUE) ELSE UNCHANGED station
  /\ UNCHANGED pullVars

\* ... with any other: 409, or 404 for a task that does not exist.
RejectStatus(m, received) ==
  /\ ~pulling
  /\ m \in patches
  /\ Status(m.task) \in Statuses => m.status \notin allowed[Status(m.task)]
  /\ patches' = patches \ {m}
  /\ IF received /\ m.from = "station" THEN Learn(m, FALSE) ELSE UNCHANGED station
  /\ UNCHANGED <<patrol_tasks, pullVars>>

-----------------------------------------------------------------------------
(* The base station, the operators and the network.                        *)

Ask(t, status, from) ==
  /\ patches' = patches \cup {[task |-> t, status |-> status, from |-> from]}
  /\ UNCHANGED <<patrol_tasks, pullVars, station>>

\* The station reports the next event of the task, or repeats a report that
\* it has had no answer to.
StationAsks(t, status) ==
  /\ \/ station[t] = "holds" /\ status \in {"running", "failed"}
     \/ station[t] = "running" /\ status \in {"completed", "failed"}
  /\ Ask(t, status, "station")

OperatorAsks(t, status) ==
  /\ Status(t) # "absent"
  /\ Ask(t, status, "operator")

LosePatch(m) ==
  /\ m \in patches
  /\ patches' = patches \ {m}
  /\ UNCHANGED <<patrol_tasks, pullVars, station>>

PullStep == PullSelect \/ (\E t \in Ids : PullMark(t)) \/ PullRespond(TRUE) \/ PullRespond(FALSE)

Next ==
  \/ \E t \in Ids : CreatePatrolTask(t)
  \/ PullStep
  \/ CrashRestart
  \/ \E m \in patches, received \in BOOLEAN : UpdateStatus(m, received) \/ RejectStatus(m, received)
  \/ \E t \in Ids, s \in StationStatuses : StationAsks(t, s)
  \/ \E t \in Ids, s \in OperatorStatuses : OperatorAsks(t, s)
  \/ \E m \in patches : LosePatch(m)

Spec == Init /\ [][Next]_vars

-----------------------------------------------------------------------------
(* Properties.                                                             *)

\* The table read as a queue: a task is handed out once at most, oldest first,
\* and never after it left "pending" some other way (db.ts:374-383).
Place(t) ==
  CASE Status(t) = "absent"                      -> "none"
    [] Status(t) = "pending"                     -> "waiting"
    [] t \in marked                              -> "taken"
    [] t \notin marked /\ station[t] # "none"    -> "delivered"
    [] patrol_tasks[t].pulled_at /\ t \notin marked /\ station[t] = "none" -> "lost"
    [] OTHER                                     -> "withdrawn"

Queue == INSTANCE DispatchQueue WITH Items <- Ids, place <- [t \in Ids |-> Place(t)]

Dispatch == Queue!Spec

\* A task an operator cancelled is not one the station is driving: whichever of
\* the two requests comes second is refused (db.ts:392-402).
CancelledNeverRuns == \A t \in Ids : station[t] = "running" => Status(t) # "cancelled"

\* The times tell what became of a task: a completed one was started, a
\* cancelled one never was, and a finishing time is set on exactly the tasks
\* that completed or failed, in whatever order requests came (db.ts:403-412).
TimesTell ==
  \A t \in Ids :
    /\ Status(t) = "completed" => patrol_tasks[t].started_at
    /\ Status(t) = "cancelled" => ~patrol_tasks[t].started_at
    /\ patrol_tasks[t].finished_at <=> Status(t) \in {"completed", "failed"}

\* A task that has come to an end stays as it is, times included, whatever
\* requests are repeated or arrive late (db.ts:396-402).
FinalStays ==
  [][\A t \in Ids : Status(t) \in Final => patrol_tasks'[t] = patrol_tasks[t]]_vars

-----------------------------------------------------------------------------
(* The inductive invariant behind them.                                    *)

\* A pull has before it the tasks that are pending and no others; what it has
\* marked is pulled and known to nobody.
PullInv ==
  /\ \A t \in Ids : t \in rows <=> pulling /\ Status(t) = "pending"
  /\ \A t \in marked : /\ pulling
                       /\ Status(t) = "pulled"
                       /\ patrol_tasks[t].pulled_at
                       /\ station[t] = "none"

\* The station knows only tasks that a pull has marked, and such a task is not
\* pending any more.
StationInv ==
  \A t \in Ids :
    /\ station[t] # "none" => patrol_tasks[t].pulled_at
    /\ patrol_tasks[t].pulled_at => Status(t) \notin {"absent", "pending"}

\* What the station drives was started and has at most come to an end, and only
\* what was started has a starting time.
LifeInv ==
  \A t \in Ids :
    /\ station[t] = "running" => Status(t) \in {"running", "completed", "failed"}
    /\ Status(t) \in {"running", "completed"} => patrol_tasks[t].started_at
    /\ Status(t) \in {"absent", "pending", "pulled", "cancelled"} => ~patrol_tasks[t].started_at
    /\ patrol_tasks[t].finished_at <=> Status(t) \in {"completed", "failed"}

TaskInv == TypeOK /\ PullInv /\ StationInv /\ LifeInv
=============================================================================
