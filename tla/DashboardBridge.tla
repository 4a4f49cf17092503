---------------------------- MODULE DashboardBridge ----------------------------
(***************************************************************************)
(* Commands on their way from the page of the local dashboard to the car:  *)
(* the command queue of server.py, the handler threads that fill and empty *)
(* it, the polling process of bridge_to_car.py, and the HTTP task of the   *)
(* car that receives what the bridge posts (wifi_ap.c).                    *)
(*                                                                         *)
(* Each request of the dashboard runs in a thread of its own; the threads  *)
(* share the store under one lock.  The bridge waits three seconds for an  *)
(* answer and then goes on, while the thread or the car it asked may still *)
(* come to its request.  Commands are numbered in the order in which their *)
(* threads take the lock.                                                  *)
(***************************************************************************)
EXTENDS Integers, Sequences

CONSTANTS HistoryLimit,   \* commands the page is shown: 50
          PendingLimit,   \* commands kept for the bridge: 20
          MaxCommands,    \* bound: buttons pressed
          MaxLate,        \* bound: dashboard requests the bridge gave up
          MaxBacklog      \* requests waiting in the car's listening socket

ASSUME BridgeAssumption ==
  /\ HistoryLimit \in Nat
  /\ PendingLimit \in 1..HistoryLimit
  /\ MaxCommands \in Nat
  /\ MaxLate \in Nat
  /\ MaxBacklog \in Nat

Ids == 1..MaxCommands

VARIABLES
  commands, pending_commands,   \* TelemetryStore._commands, ._pending_commands
  adding,      \* where the thread is that holds the lock to add a command
  slice,       \* the newest pending commands, which it is about to keep
  submitted,   \* the commands added so far
  popped,      \* history: the commands next_command has returned
  bridge,      \* where bridge_to_car.py is
  held,        \* the command it works on, 0 if there is none
  late,        \* dashboard threads that will answer a request given up
  orphans,     \* commands in answers nobody reads
  backlog,     \* requests the car's network stack has accepted
  reply,       \* the car's answer on its way to the bridge
  applied,     \* history: what the car made of each command
  forwarded    \* history: the commands the bridge reported as forwarded

storeVars  == <<commands, pending_commands, adding, slice, submitted>>
bridgeVars == <<bridge, held>>
lateVars   == <<late, orphans>>
carVars    == <<backlog, reply, applied>>
vars == <<storeVars, popped, bridgeVars, lateVars, carVars, forwarded>>

TypeOK ==
  /\ commands \in Seq(Ids) /\ Len(commands) <= HistoryLimit
  /\ pending_commands \in Seq(Ids) /\ Len(pending_commands) <= PendingLimit + 1
  /\ adding \in {"no", "append", "slice", "store"}
  /\ slice \in Seq(Ids) /\ Len(slice) <= PendingLimit
  /\ submitted \in 0..MaxCommands
  /\ popped \subseteq Ids
  /\ bridge \in {"off", "sleep", "asking", "answered", "connecting", "posted"}
  /\ held \in 0..MaxCommands
  /\ late \in 0..MaxLate
  /\ orphans \subseteq Ids
  /\ backlog \in Seq(Ids)
  /\ reply \in {"none", "ok", "error"}
  /\ applied \in [Ids -> {"none", "asked", "stop", "failed"}]
  /\ forwarded \subseteq Ids

Init ==
  /\ commands = <<>> /\ pending_commands = <<>>
  /\ adding = "no" /\ slice = <<>> /\ submitted = 0
  /\ popped = {}
  /\ bridge = "off" /\ held = 0
  /\ late = 0 /\ orphans = {}
  /\ backlog = <<>> /\ reply = "none"
  /\ applied = [c \in Ids |-> "none"]
  /\ forwarded = {}

-----------------------------------------------------------------------------
(* POST /api/command: add_command, under the lock from its first step to   *)
(* its last.                                                               *)

\* list[-n:]
Newest(s, n) == IF Len(s) <= n THEN s ELSE SubSeq(s, Len(s) - n + 1, Len(s))

\* Mutant of AddHistory: the page keeps the oldest commands.
AddHistoryOldest ==
  /\ adding = "no"
  /\ submitted < MaxCommands
  /\ commands' = IF Len(commands) < HistoryLimit THEN Append(commands, submitted + 1) ELSE commands
  /\ adding' = "append"
  /\ UNCHANGED <<pending_commands, slice, submitted, popped, bridgeVars, lateVars, carVars, forwarded>>

AddHistory ==
  /\ adding = "no"
  /\ submitted < MaxCommands
  /\ commands' = Newest(Append(commands, submitted + 1), HistoryLimit)
  /\ adding' = "append"
  /\ UNCHANGED <<pending_commands, slice, submitted, popped, bridgeVars, lateVars, carVars, forwarded>>

AddPending ==
  /\ adding = "append"
  /\ submitted' = submitted + 1
  /\ pending_commands' = Append(pending_commands, submitted')
  /\ adding' = "slice"
  /\ UNCHANGED <<commands, slice, popped, bridgeVars, lateVars, carVars, forwarded>>

\* Mutant of AddSlice: the oldest commands are kept, [:20] for [-20:].
AddSliceOldest ==
  /\ adding = "slice"
  /\ slice' = IF Len(pending_commands) <= PendingLimit
              THEN pending_commands ELSE SubSeq(pending_commands, 1, PendingLimit)
  /\ adding' = "store"
  /\ UNCHANGED <<commands, pending_commands, submitted, popped, bridgeVars, lateVars, carVars, forwarded>>

\* Mutant of AddSlice: the trimming is forgotten.
AddSliceAll ==
  /\ adding = "slice"
  /\ slice' = pending_commands
  /\ adding' = "store"
  /\ UNCHANGED <<commands, pending_commands, submitted, popped, bridgeVars, lateVars, carVars, forwarded>>

AddSlice ==
  /\ adding = "slice"
  /\ slice' = Newest(pending_commands, PendingLimit)
  /\ adding' = "store"
  /\ UNCHANGED <<commands, pending_commands, submitted, popped, bridgeVars, lateVars, carVars, forwarded>>

AddStore ==
  /\ adding = "store"
  /\ pending_commands' = slice
  /\ adding' = "no"
  /\ UNCHANGED <<commands, slice, submitted, popped, bridgeVars, lateVars, carVars, forwarded>>

-----------------------------------------------------------------------------
(* GET /api/commands/next: next_command, in the thread of a request.       *)

\* Mutant of NextCommand: without the lock.
NextCommandUnlocked ==
  /\ bridge = "asking"
  /\ IF pending_commands = <<>>
     THEN held' = 0 /\ UNCHANGED <<pending_commands, popped>>
     ELSE /\ held' = Head(pending_commands)
          /\ popped' = popped \cup {Head(pending_commands)}
          /\ pending_commands' = Tail(pending_commands)
  /\ bridge' = "answered"
  /\ UNCHANGED <<commands, adding, slice, submitted, lateVars, carVars, forwarded>>

\* The bridge still waits for the answer.
NextCommand ==
  /\ bridge = "asking"
  /\ adding = "no"
  /\ IF pending_commands = <<>>
     THEN held' = 0 /\ UNCHANGED <<pending_commands, popped>>
     ELSE /\ held' = Head(pending_commands)
          /\ popped' = popped \cup {Head(pending_commands)}
          /\ pending_commands' = Tail(pending_commands)
  /\ bridge' = "answered"
  /\ UNCHANGED <<commands, adding, slice, submitted, lateVars, carVars, forwarded>>

\* It has given the request up: the thread takes a command all the same ...
LateNextCommand ==
  /\ late > 0
  /\ adding = "no"
  /\ late' = late - 1
  /\ IF pending_commands = <<>>
     THEN UNCHANGED <<pending_commands, popped, orphans>>
     ELSE /\ orphans' = orphans \cup {Head(pending_commands)}
          /\ popped' = popped \cup {Head(pending_commands)}
          /\ pending_commands' = Tail(pending_commands)
  /\ UNCHANGED <<commands, adding, slice, submitted, bridgeVars, carVars, forwarded>>

\* ... and writes it to a connection that is closed.
OrphanLost(c) ==
  /\ c \in orphans
  /\ orphans' = orphans \ {c}
  /\ UNCHANGED <<storeVars, popped, bridgeVars, late, carVars, forwarded>>

-----------------------------------------------------------------------------
(* bridge_to_car.py: main and bridge_once.                                 *)

BridgeStart ==
  /\ bridge = "off"
  /\ bridge' = "sleep"
  /\ UNCHANGED <<storeVars, popped, held, lateVars, carVars, forwarded>>

\* The pause is over and the request is sent.
PollDashboard ==
  /\ bridge = "sleep"
  /\ bridge' = "asking"
  /\ UNCHANGED <<storeVars, popped, held, lateVars, carVars, forwarded>>

\* No answer in time: the thread of the request is left behind.
GiveUpAsking ==
  /\ bridge = "asking"
  /\ late < MaxLate
  /\ late' = late + 1
  /\ bridge' = "sleep"
  /\ UNCHANGED <<storeVars, popped, held, orphans, carVars, forwarded>>

AnswerRead ==
  /\ bridge = "answered"
  /\ bridge' = IF held = 0 THEN "sleep" ELSE "connecting"
  /\ UNCHANGED <<storeVars, popped, held, lateVars, carVars, forwarded>>

\* stage=dashboard: the answer was late, broken off or unreadable.
AnswerLost ==
  /\ bridge = "answered"
  /\ bridge' = "sleep" /\ held' = 0
  /\ UNCHANGED <<storeVars, popped, lateVars, carVars, forwarded>>

\* The car's network stack has the request; the car need not have read it.
PostArrives ==
  /\ bridge = "connecting"
  /\ Len(backlog) < MaxBacklog
  /\ backlog' = Append(backlog, held)
  /\ reply' = "none"
  /\ bridge' = "posted"
  /\ UNCHANGED <<storeVars, popped, held, lateVars, applied, forwarded>>

\* Mutant of PostFails: the same command is tried again.
PostFailsRetry ==
  /\ bridge = "connecting"
  /\ UNCHANGED vars

\* stage=car: no connection.
PostFails ==
  /\ bridge = "connecting"
  /\ bridge' = "sleep" /\ held' = 0
  /\ UNCHANGED <<storeVars, popped, lateVars, carVars, forwarded>>

\* Mutant of CarReplies: an error of the car counts as forwarded.
CarRepliesAnything ==
  /\ bridge = "posted"
  /\ reply # "none"
  /\ forwarded' = forwarded \cup {held}
  /\ bridge' = "sleep" /\ held' = 0 /\ reply' = "none"
  /\ UNCHANGED <<storeVars, popped, lateVars, backlog, applied>>

\* A status of 400 raises HTTPError, which is an URLError.
CarReplies ==
  /\ bridge = "posted"
  /\ reply # "none"
  /\ forwarded' = IF reply = "ok" THEN forwarded \cup {held} ELSE forwarded
  /\ bridge' = "sleep" /\ held' = 0 /\ reply' = "none"
  /\ UNCHANGED <<storeVars, popped, lateVars, backlog, applied>>

\* stage=car: no answer in time, though the request stays with the car.
GiveUpPost ==
  /\ bridge = "posted"
  /\ bridge' = "sleep" /\ held' = 0 /\ reply' = "none"
  /\ UNCHANGED <<storeVars, popped, lateVars, backlog, applied, forwarded>>

\* The operator ends the process, or an answer that is no HTTP does: its
\* HTTPException is none of the exceptions bridge_once catches.
BridgeEnds ==
  /\ bridge # "off"
  /\ bridge = "asking" => late < MaxLate
  /\ late' = IF bridge = "asking" THEN late + 1 ELSE late
  /\ bridge' = "off" /\ held' = 0 /\ reply' = "none"
  /\ UNCHANGED <<storeVars, popped, orphans, backlog, applied, forwarded>>

-----------------------------------------------------------------------------
(* The HTTP task of the car: accept, one recv, handle, close.              *)

\* What one recv returns of a request, and what comes of it: all of it, and the
\* command is applied or refused by the motor; the head and no whole command
\* word (urllib sends head and body apart), and text without a command word is
\* a stop; no whole head, or nothing, and nothing is done.
CarServe(outcome) ==
  /\ backlog # <<>>
  /\ backlog' = Tail(backlog)
  /\ applied' = IF outcome = "missed" THEN applied
                ELSE [applied EXCEPT ![Head(backlog)] = outcome]
  /\ reply' = IF bridge # "posted" \/ held # Head(backlog) THEN reply
              ELSE IF outcome \in {"asked", "stop"} THEN "ok" ELSE "error"
  /\ UNCHANGED <<storeVars, popped, bridgeVars, lateVars, forwarded>>

AddCommand == AddHistory \/ AddPending \/ AddSlice \/ AddStore

BridgeOnce ==
  \/ AnswerRead \/ AnswerLost
  \/ PostArrives \/ PostFails
  \/ CarReplies \/ GiveUpPost

Next ==
  \/ AddCommand
  \/ NextCommand \/ LateNextCommand \/ \E c \in Ids : OrphanLost(c)
  \/ BridgeStart \/ PollDashboard \/ GiveUpAsking \/ BridgeOnce \/ BridgeEnds
  \/ \E outcome \in {"asked", "stop", "failed", "missed"} : CarServe(outcome)

Spec == Init /\ [][Next]_vars

\* Threads of the dashboard run on and get the lock in their turn, the bridge is
\* restarted when it has ended and one day gets to poll, and none of its requests
\* waits for ever.  Nothing is assumed of the car: a client that connects and
\* stays silent holds its HTTP task in recv for good.
FairSpec ==
  /\ Spec
  /\ WF_vars(AddPending \/ AddSlice \/ AddStore)
  /\ WF_vars(NextCommand) /\ WF_vars(LateNextCommand)
  /\ WF_vars(BridgeStart) /\ SF_vars(PollDashboard) /\ WF_vars(BridgeOnce)

-----------------------------------------------------------------------------
(* Properties.                                                             *)

Among(s) == {s[k] : k \in 1..Len(s)}

Pending == Among(pending_commands)

\* The command the bridge has in hand and has not got to the car.
InHand == IF bridge \in {"answered", "connecting"} /\ held # 0 THEN {held} ELSE {}

OnTheWay == orphans \cup Among(backlog) \cup InHand

\* The chain read as a queue: each command leaves the dashboard once at most,
\* oldest first, and the car takes up no command older than one it has taken up,
\* whatever is given up, lost, refused or broken off, and although threads add
\* and take commands at once (server.py:61-80, bridge_to_car.py:27-53).
Place(c) ==
  IF c > submitted THEN "none"
  ELSE IF c \in Pending THEN "waiting"
  ELSE IF c \in OnTheWay THEN "taken"
  ELSE IF applied[c] # "none" THEN "delivered"
  ELSE IF c \in popped THEN "lost"
  ELSE "withdrawn"

Queue == INSTANCE DispatchQueue WITH Items <- Ids, place <- [c \in Ids |-> Place(c)]

Dispatch == Queue!StreamSpec

\* A command that the bridge has not taken is dropped only when as many newer
\* ones have been added as the queue holds: the last press, which may be the
\* stop, always stays (server.py:72-73).
Dropped == {c \in 1..submitted : c \notin popped /\ c \notin Pending}

NewestKept == \A c \in Dropped : c + PendingLimit <= submitted

\* Whenever the lock is free, as it is for a snapshot, what waits for the bridge is
\* in the history the page shows (server.py:69-73, 82-93).
PendingIsShown == adding = "no" => Pending \subseteq Among(commands)

\* What the bridge reports as forwarded the car has taken up and its motors have
\* not refused, whether the answer belongs to this request or an earlier one was
\* given up: as it was asked, or as a stop (bridge_to_car.py:49-53).
ForwardedIsTakenUp == \A c \in forwarded : applied[c] \in {"asked", "stop"}

\* The button's command is forwarded to the car (WORKFLOW.md:101).
ForwardedAsAsked == \A c \in forwarded : applied[c] = "asked"

\* No command stays in the dashboard's queue for ever, though the car be hung and
\* the bridge end again and again (server.py:76-80, bridge_to_car.py:65-76).
Drained == \A c \in Ids : c \in Pending ~> c \notin Pending

-----------------------------------------------------------------------------
(* The inductive invariant behind the safety properties.                   *)

\* s holds the last Len(s) of the numbers up to n, in order.
LastOf(s, n) == Len(s) <= n /\ \A k \in 1..Len(s) : s[k] = n - Len(s) + k

\* The newest command the page knows of.
Newly == IF adding = "append" THEN submitted + 1 ELSE submitted

\* The pending commands are the newest, and older ones have been taken or dropped.
StoreInv ==
  /\ LastOf(pending_commands, submitted)
  /\ popped \subseteq 1..(submitted - Len(pending_commands))
  /\ adding \in {"no", "append"} => Len(pending_commands) <= PendingLimit
  /\ adding = "append" => submitted < MaxCommands
  /\ adding = "store" => slice = Newest(pending_commands, PendingLimit)
  /\ NewestKept

HistoryInv ==
  /\ LastOf(commands, Newly)
  /\ Len(commands) = IF Newly <= HistoryLimit THEN Newly ELSE HistoryLimit

\* A command is in one place at most on its way, and commands reach the car in
\* the order in which they were taken.
WayInv ==
  /\ OnTheWay \subseteq popped
  /\ \A c \in OnTheWay : applied[c] = "none"
  /\ \A c \in Ids : applied[c] # "none" => c \in popped
  /\ orphans \cap (Among(backlog) \cup InHand) = {}
  /\ \A i, j \in 1..Len(backlog) : i < j => backlog[i] < backlog[j]
  /\ \A c \in InHand : \A k \in 1..Len(backlog) : backlog[k] < c
  /\ \A c, d \in Ids : applied[c] # "none" /\ d \in Among(backlog) \cup InHand => c < d

\* An answer is for the bridge's present request, and the car stands by it.
ForwardInv ==
  /\ reply # "none" => bridge = "posted"
  /\ bridge \in {"connecting", "posted"} => held \in Ids
  /\ reply = "ok" => applied[held] \in {"asked", "stop"}
  /\ ForwardedIsTakenUp

ChainInv == TypeOK /\ StoreInv /\ HistoryInv /\ WayInv /\ ForwardInv
=============================================================================
