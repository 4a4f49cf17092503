----------------------------- MODULE CommandQueue -----------------------------
(***************************************************************************)
(* Control commands on their way from the web client through the cloud     *)
(* server to a base station: the control_commands table of db.ts and the   *)
(* HTTP handlers that create, hand out, acknowledge and cancel commands.   *)
(*                                                                         *)
(* Every handler runs without an await between its first query and its     *)
(* last, so no other handler runs in between; but each statement commits   *)
(* by itself, so a crash of the process can fall between two of them.      *)
(* The base station is an outside program.  It keeps to                    *)
(* deploy/base-station-api.md: it pulls, executes what it was given, and   *)
(* acknowledges, again and again if need be; requests may be lost, late    *)
(* and out of order.                                                       *)
(***************************************************************************)
EXTENDS Integers

CONSTANTS MaxCommands,        \* bound: commands created
          MaxTime,            \* bound: distinct creation times
          ClockMayStepBack,   \* the server's wall clock may be set back
          AckStatuses         \* the statuses the station acknowledges with

ASSUME CommandAssumption ==
  /\ MaxCommands \in Nat
  /\ MaxTime \in Nat
  /\ ClockMayStepBack \in BOOLEAN
  /\ AckStatuses \subseteq {"sent", "executed", "failed"}

Ids      == 1..MaxCommands      \* in the order their rows are inserted
Statuses == {"absent", "pending", "pulled", "sent", "executed", "failed", "cancelled"}
Outcomes == {"executed", "failed"}

VARIABLES
  control_commands,   \* the table: status, created_at, and whether pulled_at is set
  pulling,            \* a pull is being served
  rows,               \* the rows it selected and has not marked yet
  marked,             \* the rows it has marked, which its answer will carry
  station,            \* what the base station has done with each command
  acks                \* acknowledgements in flight

pullVars == <<pulling, rows, marked>>
vars == <<control_commands, pullVars, station, acks>>

TypeOK ==
  /\ control_commands \in
       [Ids -> [status : Statuses, created_at : 0..MaxTime, pulled_at : BOOLEAN]]
  /\ pulling \in BOOLEAN
  /\ rows \subseteq Ids
  /\ marked \subseteq Ids
  /\ station \in [Ids -> {"none", "holds", "sent", "executed", "failed"}]
  /\ acks \subseteq Ids \X {"sent", "executed", "failed"}

Status(c) == control_commands[c].status
SetStatus(c, s) == control_commands' = [control_commands EXCEPT ![c].status = s]

Init ==
  /\ control_commands = [c \in Ids |-> [status |-> "absent", created_at |-> 0, pulled_at |-> FALSE]]
  /\ pulling = FALSE /\ rows = {} /\ marked = {}
  /\ station = [c \in Ids |-> "none"]
  /\ acks = {}

-----------------------------------------------------------------------------
(* The server.  A handler starts only when no other is running.            *)

\* POST /api/commands at wall-clock time t.
CreateCommand(c, t) ==
  /\ ~pulling
  /\ Status(c) = "absent"
  /\ \A d \in Ids : d < c => Status(d) # "absent"
  /\ ~ClockMayStepBack => \A d \in Ids : control_commands[d].created_at <= t
  /\ control_commands' = [control_commands EXCEPT
       ![c] = [status |-> "pending", created_at |-> t, pulled_at |-> FALSE]]
  /\ UNCHANGED <<pullVars, station, acks>>

\* Mutant of PullSelect: what was pulled and not acknowledged is pulled again.
PullSelectAgain ==
  /\ ~pulling
  /\ pulling' = TRUE
  /\ rows' = {c \in Ids : Status(c) \in {"pending", "pulled"}}
  /\ marked' = {}
  /\ UNCHANGED <<control_commands, station, acks>>

\* GET .../commands/pending: SELECT the pending rows.
PullSelect ==
  /\ ~pulling
  /\ pulling' = TRUE
  /\ rows' = {c \in Ids : Status(c) = "pending"}
  /\ marked' = {}
  /\ UNCHANGED <<control_commands, station, acks>>

\* ORDER BY created_at ASC; rows of one time come in the order of insertion.
Before(c, d) ==
  \/ control_commands[c].created_at < control_commands[d].created_at
  \/ control_commands[c].created_at = control_commands[d].created_at /\ c < d

\* Mutant of PullMark: the UPDATE sets the time and not the status.
PullMarkTimeOnly(c) ==
  /\ pulling
  /\ c \in rows
  /\ \A d \in rows : d # c => Before(c, d)
  /\ control_commands' = [control_commands EXCEPT ![c].pulled_at = TRUE]
  /\ rows' = rows \ {c}
  /\ marked' = marked \cup {c}
  /\ UNCHANGED <<pulling, station, acks>>

\* ... then one UPDATE for each row selected, in that order ...
PullMark(c) ==
  /\ pulling
  /\ c \in rows
  /\ \A d \in rows : d # c => Before(c, d)
  /\ control_commands' = [control_commands EXCEPT ![c].status = "pulled", ![c].pulled_at = TRUE]
  /\ rows' = rows \ {c}
  /\ marked' = marked \cup {c}
  /\ UNCHANGED <<pulling, station, acks>>

\* ... then the answer, which the station receives or never sees.
PullRespond(received) ==
  /\ pulling
  /\ rows = {}
  /\ pulling' = FALSE
  /\ marked' = {}
  /\ station' = [c \in Ids |-> IF received /\ c \in marked THEN "holds" ELSE station[c]]
  /\ UNCHANGED <<control_commands, rows, acks>>

\* The process dies and is restarted: what is committed is kept.
CrashRestart ==
  /\ pulling
  /\ pulling' = FALSE /\ rows' = {} /\ marked' = {}
  /\ UNCHANGED <<control_commands, station, acks>>

\* PATCH .../ack: the row takes the status, whatever it was before.
AcknowledgeCommand(c, s) ==
  /\ ~pulling
  /\ <<c, s>> \in acks
  /\ SetStatus(c, s)
  /\ acks' = acks \ {<<c, s>>}
  /\ UNCHANGED <<pullVars, station>>

\* Mutant of CancelCommand: any command is cancelled, whatever became of it.
CancelAny(c) ==
  /\ ~pulling
  /\ Status(c) # "absent"
  /\ SetStatus(c, "cancelled")
  /\ UNCHANGED <<pullVars, station, acks>>

\* Mutant of CancelCommand: a status no reader of the table knows.
CancelMisspelt(c) ==
  /\ ~pulling
  /\ Status(c) \in {"pending", "pulled"}
  /\ SetStatus(c, "canceled")
  /\ UNCHANGED <<pullVars, station, acks>>

\* PATCH .../cancel: only a command that is pending or pulled is cancelled.
CancelCommand(c) ==
  /\ ~pulling
  /\ Status(c) \in {"pending", "pulled"}
  /\ SetStatus(c, "cancelled")
  /\ UNCHANGED <<pullVars, station, acks>>

-----------------------------------------------------------------------------
(* The base station and the network.                                       *)

\* The station passes the command on to the car and learns what came of it.
Execute(c, to) ==
  /\ \/ station[c] = "holds" /\ to \in {"sent", "failed"}
     \/ station[c] = "sent" /\ to \in Outcomes
  /\ station' = [station EXCEPT ![c] = to]
  /\ UNCHANGED <<control_commands, pullVars, acks>>

\* It reports how far it has come: for the first time, or once more because
\* it has seen no answer.
SendAck(c) ==
  /\ station[c] \in AckStatuses
  /\ acks' = acks \cup {<<c, station[c]>>}
  /\ UNCHANGED <<control_commands, pullVars, station>>

LoseAck(m) ==
  /\ m \in acks
  /\ acks' = acks \ {m}
  /\ UNCHANGED <<control_commands, pullVars, station>>

PullStep == PullSelect \/ (\E c \in Ids : PullMark(c)) \/ PullRespond(TRUE) \/ PullRespond(FALSE)

Next ==
  \/ \E c \in Ids, t \in 1..MaxTime : CreateCommand(c, t)
  \/ PullStep
  \/ CrashRestart
  \/ \E c \in Ids, s \in AckStatuses : AcknowledgeCommand(c, s)
  \/ \E c \in Ids : CancelCommand(c) \/ SendAck(c)
  \/ \E c \in Ids, to \in {"sent", "executed", "failed"} : Execute(c, to)
  \/ \E m \in acks : LoseAck(m)

Spec == Init /\ [][Next]_vars

\* The station keeps polling, and a pull that keeps being retried is one day
\* served to its end.
FairSpec ==
  /\ Spec
  /\ WF_vars(PullStep)
  /\ \A c \in Ids : SF_vars(PullMark(c))

-----------------------------------------------------------------------------
(* Properties.                                                             *)

\* The table read as a queue: each command is handed out once at most, oldest
\* first, and never once it was cancelled while still pending, whatever
\* crashes, lost answers and repeated pulls happen (db.ts:314-323).
Place(c) ==
  CASE Status(c) = "absent"                      -> "none"
    [] Status(c) = "pending"                     -> "waiting"
    [] c \in marked                              -> "taken"
    [] c \notin marked /\ station[c] # "none"    -> "delivered"
    [] control_commands[c].pulled_at /\ c \notin marked /\ station[c] = "none" -> "lost"
    [] OTHER                                     -> "withdrawn"

Queue == INSTANCE DispatchQueue WITH Items <- Ids, place <- [c \in Ids |-> Place(c)]

Dispatch == Queue!Spec

\* What is left of it if the server's wall clock steps back: the order in which
\* commands are handed out, and nothing else, rests on the clock (db.ts:317).
DispatchAnyOrder == Queue!AnyOrderSpec

\* An outcome that is recorded is the one the station had, and nothing takes it
\* back, neither the other outcome nor a cancel that comes too late nor a crash
\* in a pull, but for one thing: the station's "sent", overtaken on its way by
\* the outcome, may still arrive and overwrite it (db.ts:331-348, http.ts:284).
OutcomeStays ==
  [][\A c \in Ids : Status(c) \in Outcomes =>
       /\ station[c] = Status(c)
       /\ Status(c)' = Status(c) \/ (Status(c)' = "sent" /\ <<c, "sent">> \in acks)]_vars

\* While the station polls, no command waits in the queue for ever, although
\* any pull may be cut short by a crash (db.ts:314-323).
NothingWaitsForever == \A c \in Ids : Status(c) = "pending" ~> Status(c) # "pending"

-----------------------------------------------------------------------------
(* The inductive invariant behind Dispatch: how the table, the pull being  *)
(* served and the station agree.                                           *)

\* A pull has before it all the rows that are pending, and nothing else; what
\* it has marked is pulled and known to nobody.
PullInv ==
  /\ \A c \in Ids : c \in rows <=> pulling /\ Status(c) = "pending"
  /\ \A c \in marked : /\ pulling
                       /\ Status(c) = "pulled"
                       /\ control_commands[c].pulled_at
                       /\ station[c] = "none"

\* The station knows pulled commands only, and only they are acknowledged.
StationInv ==
  /\ \A c \in Ids : station[c] # "none" =>
       control_commands[c].pulled_at /\ Status(c) \notin {"absent", "pending"}
  /\ \A m \in acks : station[m[1]] # "none"
  /\ \A c \in Ids : Status(c) \in {"absent", "pending"} => ~control_commands[c].pulled_at

\* Ids are used up in order, and the times follow them.
OrderInv ==
  /\ \A c \in Ids : Status(c) = "absent" => control_commands[c].created_at = 0
  /\ \A c, d \in Ids : d < c /\ Status(c) # "absent" =>
       /\ Status(d) # "absent"
       /\ control_commands[d].created_at <= control_commands[c].created_at

\* An outcome in flight is what the station ended with, and so is the one in
\* the row.
OutcomeInv ==
  /\ \A m \in acks : m[2] \in Outcomes => station[m[1]] = m[2]
  /\ \A c \in Ids : Status(c) \in Outcomes => station[c] = Status(c)

QueueInv == TypeOK /\ PullInv /\ StationInv
=============================================================================
