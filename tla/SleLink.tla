-------------------------------- MODULE SleLink --------------------------------
(***************************************************************************)
(* The SLE (NearLink) connection between the car, which scans, connects    *)
(* and pairs as a client (comm/sle_client.c), and the gateway, which       *)
(* announces itself as a server (sle_uart_server.c, sle_uart_server_adv.c) *)
(* and announces again from a task of its own after a disconnect           *)
(* (gateway_main.c).                                                       *)
(*                                                                         *)
(* The two protocol stacks and the radio are external, modelled from how   *)
(* the code uses them: a request is refused on the spot or answered later  *)
(* by a callback, each end delivers its callbacks in order and one at a    *)
(* time, a connection ends the announcement, and the link can break and    *)
(* either board can reset at any moment.                                   *)
(***************************************************************************)
EXTENDS Integers, Sequences

\* Requests to the stacks that can be refused, or answered by a failure.
Requests == {"enable", "seek_enable", "seek_disable", "connect", "pair",
             "exchange", "property", "init", "announce"}

CONSTANTS QueueLen,     \* GATEWAY_SLE_MSG_QUEUE_LEN
          MayFail       \* the requests that may fail in a run

ASSUME LinkAssumption == QueueLen \in Nat \ {0} /\ MayFail \subseteq Requests

VARIABLES
  g_sle_state, g_sle_has_write_handle,   \* the car
  g_sle_pair_hdl,                        \* the gateway: connection id + 1, or 0
  queue,                                 \* "sle_dis_connect" messages waiting
  server,                                \* where sle_server_task is
  seeking, connecting, announcing,       \* what the stacks are doing
  link,                                  \* the radio link is up
  bonded,                                \* the car's stack holds a pairing record
  carCbs, gwCbs,                         \* callbacks not yet delivered
  failed                                 \* the requests that have failed so far

carVars   == <<g_sle_state, g_sle_has_write_handle>>
gwVars    == <<g_sle_pair_hdl, queue, server>>
carStack  == <<seeking, connecting, bonded, carCbs>>
gwStack   == <<announcing, gwCbs>>
vars == <<carVars, gwVars, carStack, gwStack, link, failed>>

\* A callback: its name, and the status it brings (for "connected": whether the
\* peer is paired already).
Callbacks == {"enable", "seek_enable", "found", "seek_disable", "connected", "disconnected",
              "pair", "exchange", "property"} \X BOOLEAN

TypeOK ==
  /\ g_sle_state \in {"idle", "starting", "scanning", "connected", "error"}
  /\ g_sle_has_write_handle \in BOOLEAN
  /\ g_sle_pair_hdl \in {0, 1}
  /\ queue \in 0..QueueLen
  /\ server \in {"boot", "read", "announce", "sleep", "ended"}
  /\ seeking \in BOOLEAN /\ connecting \in BOOLEAN /\ announcing \in BOOLEAN
  /\ link \in BOOLEAN /\ bonded \in BOOLEAN
  /\ carCbs \in Seq(Callbacks) /\ gwCbs \in Seq(Callbacks)
  /\ failed \subseteq Requests

Init ==
  /\ g_sle_state = "idle" /\ g_sle_has_write_handle = FALSE
  /\ g_sle_pair_hdl = 0 /\ queue = 0 /\ server = "boot"
  /\ seeking = FALSE /\ connecting = FALSE /\ announcing = FALSE
  /\ link = FALSE /\ bonded \in BOOLEAN
  /\ carCbs = <<>> /\ gwCbs = <<>>
  /\ failed = {}

Pending(cbs, name) == \E i \in DOMAIN cbs : cbs[i][1] = name

-----------------------------------------------------------------------------
(* Requests of the car to its stack.                                       *)

\* What a request that makes sense comes to: it is done, it is answered by a
\* failure, or it is refused by a return code, which the code discards.
Outcome(request, sensible) ==
  IF ~sensible THEN {"refused"}
  ELSE {"done"} \cup (IF request \in MayFail THEN {"failed", "refused"} ELSE {})

\* The callback of a request, behind those in cbs, and the record of its failure.
Answered(request, sensible, out, cbs) ==
  /\ carCbs' = IF out = "refused" THEN cbs ELSE Append(cbs, <<request, out = "done">>)
  /\ failed' = IF sensible /\ out # "done" THEN failed \cup {request} ELSE failed

\* car_sle_start_scan
StartScan(cbs) ==
  \E out \in Outcome("seek_enable", TRUE) :
    /\ Answered("seek_enable", TRUE, out, cbs)
    /\ seeking' = (out = "done")
    /\ g_sle_state' = "scanning"

-----------------------------------------------------------------------------
(* The car: its task, then one action per callback.                        *)

Step(name, ok) == carCbs # <<>> /\ Head(carCbs) = <<name, ok>>

\* app_main starts the client; its task registers the callbacks and enables SLE.
\* (A task that cannot be created ends in the same state as a refusal.)
car_sle_client_start ==
  /\ g_sle_state = "idle"
  /\ \E out \in Outcome("enable", TRUE) :
       /\ Answered("enable", TRUE, out, carCbs)
       /\ g_sle_state' = IF out = "refused" THEN "error" ELSE "starting"
  /\ UNCHANGED <<g_sle_has_write_handle, gwVars, seeking, connecting, bonded, gwStack, link>>

car_sle_enable_cbk ==
  \/ /\ Step("enable", TRUE)
     /\ StartScan(Tail(carCbs))
     /\ UNCHANGED <<g_sle_has_write_handle, gwVars, connecting, bonded, gwStack, link>>
  \/ /\ Step("enable", FALSE)
     /\ g_sle_state' = "error" /\ carCbs' = Tail(carCbs)
     /\ UNCHANGED <<g_sle_has_write_handle, gwVars, seeking, connecting, bonded, gwStack, link, failed>>

car_sle_seek_enable_cbk ==
  \E ok \in BOOLEAN :
    /\ Step("seek_enable", ok)
    /\ g_sle_state' = IF ok THEN g_sle_state ELSE "error"
    /\ carCbs' = Tail(carCbs)
    /\ UNCHANGED <<g_sle_has_write_handle, gwVars, seeking, connecting, bonded, gwStack, link, failed>>

\* The peer is recognised by name; the scan is asked to stop for each report of it.
car_sle_seek_result_cbk ==
  /\ Step("found", TRUE)
  /\ \E out \in Outcome("seek_disable", seeking) :
       /\ Answered("seek_disable", seeking, out, Tail(carCbs))
       /\ seeking' = (seeking /\ out # "done")
  /\ UNCHANGED <<carVars, gwVars, connecting, bonded, gwStack, link>>

\* The old pairing is forgotten and a connection requested.
car_sle_seek_disable_cbk ==
  \/ /\ Step("seek_disable", TRUE)
     /\ carCbs' = Tail(carCbs)
     /\ bonded' = FALSE
     /\ \/ connecting' = TRUE /\ UNCHANGED failed
        \/ /\ "connect" \in MayFail
           /\ failed' = failed \cup {"connect"} /\ UNCHANGED connecting
     /\ UNCHANGED <<carVars, gwVars, seeking, gwStack, link>>
  \/ /\ Step("seek_disable", FALSE)
     /\ g_sle_state' = "error" /\ carCbs' = Tail(carCbs)
     /\ UNCHANGED <<g_sle_has_write_handle, gwVars, seeking, connecting, bonded, gwStack, link, failed>>

\* Mutant of CarConnected: a client in ERROR stays in ERROR.
CarConnectedUnlessError(paired) ==
  /\ Step("connected", paired)
  /\ g_sle_state' = IF g_sle_state = "error" THEN "error" ELSE "connected"
  /\ IF paired
     THEN carCbs' = Tail(carCbs) /\ UNCHANGED <<bonded, gwCbs, failed>>
     ELSE \E out \in Outcome("pair", link) :
            /\ Answered("pair", link, out, Tail(carCbs))
            /\ bonded' = (bonded \/ out = "done")
            /\ gwCbs' = IF out = "refused" THEN gwCbs ELSE Append(gwCbs, <<"pair", out = "done">>)
  /\ UNCHANGED <<g_sle_has_write_handle, gwVars, seeking, connecting, announcing, link>>

\* car_sle_connect_state_cbk, connected: pairing is requested unless there is one.
\* Both ends are told how it went.
CarConnected(paired) ==
  /\ Step("connected", paired)
  /\ g_sle_state' = "connected"
  /\ IF paired
     THEN carCbs' = Tail(carCbs) /\ UNCHANGED <<bonded, gwCbs, failed>>
     ELSE \E out \in Outcome("pair", link) :
            /\ Answered("pair", link, out, Tail(carCbs))
            /\ bonded' = (bonded \/ out = "done")
            /\ gwCbs' = IF out = "refused" THEN gwCbs ELSE Append(gwCbs, <<"pair", out = "done">>)
  /\ UNCHANGED <<g_sle_has_write_handle, gwVars, seeking, connecting, announcing, link>>

\* Mutant of CarDisconnected: the scan is not started again before the handle is known.
CarDisconnectedEarly ==
  /\ Step("disconnected", TRUE)
  /\ g_sle_has_write_handle' = FALSE
  /\ bonded' = FALSE
  /\ IF g_sle_has_write_handle THEN StartScan(Tail(carCbs))
     ELSE g_sle_state' = "scanning" /\ carCbs' = Tail(carCbs) /\ UNCHANGED <<seeking, failed>>
  /\ UNCHANGED <<gwVars, connecting, gwStack, link>>

\* car_sle_connect_state_cbk, disconnected.
CarDisconnected ==
  /\ Step("disconnected", TRUE)
  /\ g_sle_has_write_handle' = FALSE
  /\ bonded' = FALSE
  /\ StartScan(Tail(carCbs))
  /\ UNCHANGED <<gwVars, connecting, gwStack, link>>

\* A pairing that failed ends here; the gateway hears of the exchange it starts.
car_sle_pair_complete_cbk ==
  \E ok \in BOOLEAN :
    /\ Step("pair", ok)
    /\ IF ok
       THEN \E out \in Outcome("exchange", link) :
              /\ Answered("exchange", link, out, Tail(carCbs))
              /\ gwCbs' = IF out = "done" THEN Append(gwCbs, <<"exchange", TRUE>>) ELSE gwCbs
       ELSE carCbs' = Tail(carCbs) /\ UNCHANGED <<gwCbs, failed>>
    /\ UNCHANGED <<carVars, gwVars, seeking, connecting, bonded, announcing, link>>

car_sle_exchange_info_cbk ==
  \E ok \in BOOLEAN :
    /\ Step("exchange", ok)
    /\ IF ok
       THEN \E out \in Outcome("property", link) : Answered("property", link, out, Tail(carCbs))
       ELSE carCbs' = Tail(carCbs) /\ UNCHANGED failed
    /\ UNCHANGED <<carVars, gwVars, seeking, connecting, bonded, gwStack, link>>

car_sle_find_property_cbk ==
  \E ok \in BOOLEAN :
    /\ Step("property", ok)
    /\ g_sle_has_write_handle' = (g_sle_has_write_handle \/ ok)
    /\ carCbs' = Tail(carCbs)
    /\ UNCHANGED <<g_sle_state, gwVars, seeking, connecting, bonded, gwStack, link, failed>>

-----------------------------------------------------------------------------
(* The gateway.                                                            *)

\* sle_server_task up to its loop; sle_uart_server_init announces last.
ServerInit ==
  /\ server = "boot"
  /\ \/ server' = "read" /\ announcing' = TRUE /\ UNCHANGED failed
     \/ /\ "init" \in MayFail
        /\ server' = "ended" /\ failed' = failed \cup {"init"} /\ UNCHANGED announcing
  /\ UNCHANGED <<carVars, g_sle_pair_hdl, queue, carStack, gwCbs, link>>

\* The blocking read of the queue.
ServerRead ==
  /\ server = "read" /\ queue > 0
  /\ queue' = queue - 1 /\ server' = "announce"
  /\ UNCHANGED <<carVars, g_sle_pair_hdl, carStack, gwStack, link, failed>>

\* The re-announce; a failure is logged.
ServerAnnounce ==
  /\ server = "announce"
  /\ server' = "sleep"
  /\ \/ announcing' = TRUE /\ UNCHANGED failed
     \/ /\ "announce" \in MayFail
        /\ failed' = failed \cup {"announce"} /\ UNCHANGED announcing
  /\ UNCHANGED <<carVars, g_sle_pair_hdl, queue, carStack, gwCbs, link>>

ServerWake ==
  /\ server = "sleep"
  /\ server' = "read"
  /\ UNCHANGED <<carVars, g_sle_pair_hdl, queue, carStack, gwStack, link, failed>>

GwStep(name) == gwCbs # <<>> /\ Head(gwCbs)[1] = name

\* sle_connect_state_changed_cbk, connected: g_sle_conn_hdl, of which there is one.
GwConnected ==
  /\ GwStep("connected")
  /\ gwCbs' = Tail(gwCbs)
  /\ UNCHANGED <<carVars, gwVars, carStack, announcing, link, failed>>

\* Mutant of GwDisconnected: the pairing is remembered.
GwDisconnectedPaired ==
  /\ GwStep("disconnected")
  /\ gwCbs' = Tail(gwCbs)
  /\ queue' = IF queue < QueueLen THEN queue + 1 ELSE queue
  /\ UNCHANGED <<carVars, g_sle_pair_hdl, server, carStack, announcing, link, failed>>

\* Mutant of GwDisconnected: only a paired peer that leaves is announced to again.
GwDisconnectedUnpaired ==
  /\ GwStep("disconnected")
  /\ gwCbs' = Tail(gwCbs)
  /\ g_sle_pair_hdl' = 0
  /\ queue' = IF queue < QueueLen /\ g_sle_pair_hdl # 0 THEN queue + 1 ELSE queue
  /\ UNCHANGED <<carVars, server, carStack, announcing, link, failed>>

\* sle_connect_state_changed_cbk, disconnected; gateway_sle_msgqueue_write does
\* not wait for room.
GwDisconnected ==
  /\ GwStep("disconnected")
  /\ gwCbs' = Tail(gwCbs)
  /\ g_sle_pair_hdl' = 0
  /\ queue' = IF queue < QueueLen THEN queue + 1 ELSE queue
  /\ UNCHANGED <<carVars, server, carStack, announcing, link, failed>>

\* The handle is set whatever status the pairing has.
sle_pair_complete_cbk ==
  /\ GwStep("pair")
  /\ gwCbs' = Tail(gwCbs)
  /\ g_sle_pair_hdl' = 1
  /\ UNCHANGED <<carVars, queue, server, carStack, announcing, link, failed>>

\* Mutant of ssaps_mtu_changed_cbk: it counts the exchange as a further handle.
MtuChangedAdds ==
  /\ GwStep("exchange")
  /\ gwCbs' = Tail(gwCbs)
  /\ g_sle_pair_hdl' = g_sle_pair_hdl + 1
  /\ UNCHANGED <<carVars, queue, server, carStack, announcing, link, failed>>

ssaps_mtu_changed_cbk ==
  /\ GwStep("exchange")
  /\ gwCbs' = Tail(gwCbs)
  /\ g_sle_pair_hdl' = IF g_sle_pair_hdl = 0 THEN 1 ELSE g_sle_pair_hdl
  /\ UNCHANGED <<carVars, queue, server, carStack, announcing, link, failed>>

-----------------------------------------------------------------------------
(* Stacks and radio.                                                       *)

\* Reports of the announcing peer; duplicates are not filtered, two may wait.
Found ==
  /\ seeking /\ announcing
  /\ Len(SelectSeq(carCbs, LAMBDA cb : cb[1] = "found")) < 2
  /\ carCbs' = Append(carCbs, <<"found", TRUE>>)
  /\ UNCHANGED <<carVars, gwVars, seeking, connecting, bonded, gwStack, link, failed>>

LinkUp ==
  /\ connecting /\ announcing
  /\ link' = TRUE /\ connecting' = FALSE /\ announcing' = FALSE
  /\ carCbs' = Append(carCbs, <<"connected", bonded>>)
  /\ gwCbs' = Append(gwCbs, <<"connected", bonded>>)
  /\ UNCHANGED <<carVars, gwVars, seeking, bonded, failed>>

\* A connection attempt fails, with or without a word to the car.
ConnectFails ==
  /\ connecting /\ "connect" \in MayFail
  /\ connecting' = FALSE
  /\ carCbs' \in {carCbs, Append(carCbs, <<"disconnected", TRUE>>)}
  /\ failed' = failed \cup {"connect"}
  /\ UNCHANGED <<carVars, gwVars, seeking, bonded, gwStack, link>>

LinkLost ==
  /\ link
  /\ link' = FALSE
  /\ carCbs' = Append(carCbs, <<"disconnected", TRUE>>)
  /\ gwCbs' = Append(gwCbs, <<"disconnected", TRUE>>)
  /\ UNCHANGED <<carVars, gwVars, seeking, connecting, bonded, announcing, failed>>

\* A reset loses everything but the pairing record; the peer loses the link.
CarReset ==
  /\ g_sle_state # "idle"
  /\ g_sle_state' = "idle" /\ g_sle_has_write_handle' = FALSE
  /\ seeking' = FALSE /\ connecting' = FALSE /\ carCbs' = <<>>
  /\ link' = FALSE
  /\ gwCbs' = IF link THEN Append(gwCbs, <<"disconnected", TRUE>>) ELSE gwCbs
  /\ UNCHANGED <<gwVars, bonded, announcing, failed>>

GatewayReset ==
  /\ server # "boot"
  /\ server' = "boot" /\ g_sle_pair_hdl' = 0 /\ queue' = 0
  /\ announcing' = FALSE /\ gwCbs' = <<>>
  /\ link' = FALSE
  /\ carCbs' = IF link THEN Append(carCbs, <<"disconnected", TRUE>>) ELSE carCbs
  /\ UNCHANGED <<carVars, seeking, connecting, bonded, failed>>

-----------------------------------------------------------------------------
CarCallback ==
  \/ car_sle_enable_cbk \/ car_sle_seek_enable_cbk \/ car_sle_seek_result_cbk
  \/ car_sle_seek_disable_cbk \/ CarDisconnected \/ \E paired \in BOOLEAN : CarConnected(paired)
  \/ car_sle_pair_complete_cbk \/ car_sle_exchange_info_cbk \/ car_sle_find_property_cbk

GwCallback == GwConnected \/ GwDisconnected \/ sle_pair_complete_cbk \/ ssaps_mtu_changed_cbk

ServerTask == ServerInit \/ ServerRead \/ ServerAnnounce \/ ServerWake

Upset == LinkLost \/ CarReset \/ GatewayReset

Next ==
  \/ car_sle_client_start \/ CarCallback
  \/ ServerTask \/ GwCallback
  \/ Found \/ LinkUp \/ ConnectFails
  \/ Upset

Spec == Init /\ [][Next]_vars

\* Tasks run, callbacks are delivered, an announcing gateway is found by a car
\* that seeks it and is connected to one that asks; nothing has to break.
FairSpec ==
  /\ Spec
  /\ WF_vars(car_sle_client_start) /\ WF_vars(CarCallback)
  /\ WF_vars(ServerTask) /\ WF_vars(GwCallback)
  /\ WF_vars(Found) /\ WF_vars(LinkUp)

-----------------------------------------------------------------------------
(* Properties.                                                             *)

\* Each end believes in its handle (the car in the one it writes telemetry to,
\* sle_client.c:337; the gateway in the one it forwards commands by,
\* udp_bridge.c:70) only while the link is up or the news of its loss is on the
\* way, whatever requests fail and whichever board resets.
HandlesAreCurrent ==
  /\ g_sle_has_write_handle => link \/ Pending(carCbs, "disconnected")
  /\ g_sle_pair_hdl # 0 => link \/ Pending(gwCbs, "disconnected")

\* Once the car has heard everything it says CONNECTED exactly when the link is
\* up, and it has left the ERROR state of an earlier failure if it is
\* (sle_client.c:138-151).
StateTellsLink == carCbs = <<>> => (g_sle_state = "connected" <=> link)

\* How many of these things the gateway is: announcing, connected, about to hear
\* of a disconnect, holding a message about one, about to announce again.
One(p) == IF p THEN 1 ELSE 0
Roles == One(announcing) + One(link) + One(Pending(gwCbs, "disconnected")) + queue
           + One(server = "announce")

\* A running gateway is exactly one of them until an announcement fails: no
\* disconnect is forgotten, none is served twice, and its queue never holds more
\* than one message (gateway_main.c:73-121, sle_uart_server.c:309-326).
NeverForgotten ==
  server \notin {"boot", "ended"} =>
    \/ Roles = 1
    \/ Roles = 0 /\ "announce" \in failed

\* A callback that is the car's only way on: it leads to the next scan or to
\* the next connection.
Leads(cb) == cb[1] \in {"enable", "disconnected"} \/ cb = <<"seek_disable", TRUE>>

SomeLeads(cbs) == \E i \in 1..Len(cbs) : Leads(cbs[i])

OfConnection == {"connected", "pair", "exchange", "property"}

\* A car that runs always has a way on, though none of its requests is ever
\* repeated: it scans, a connection is coming, a callback will start one of
\* these, or the link is up and its service is known or about to be.  Only a
\* request other than the stop of a scan can strand it (sle_client.c:71-207).
HasWay ==
  \/ seeking \/ connecting \/ SomeLeads(carCbs)
  \/ link /\ (g_sle_has_write_handle \/ \E i \in 1..Len(carCbs) : carCbs[i][1] \in OfConnection)

NeverStranded == g_sle_state # "idle" /\ failed \subseteq {"seek_disable"} => HasWay

\* Telemetry and commands can flow.
Ready ==
  link /\ g_sle_state = "connected" /\ g_sle_has_write_handle /\ g_sle_pair_hdl # 0

\* A scan that goes on although it was asked to stop.
ScanGoesOn == car_sle_seek_result_cbk /\ seeking /\ seeking'

\* The two ends find each other again after any number of lost links, resets and
\* scans that would not stop, once these cease.  Every other failure is final:
\* no code asks a second time (sle_client.c:71-207, gateway_main.c:100-119).
Reconnects ==
  (<>[][~Upset /\ ~ScanGoesOn]_vars /\ [](failed \subseteq {"seek_disable"})) => <>[]Ready

-----------------------------------------------------------------------------
(* The inductive invariants behind them.                                   *)

OneLeads(cbs)  == \A i, j \in 1..Len(cbs) : Leads(cbs[i]) /\ Leads(cbs[j]) => i = j

\* The car is at one stage at a time: off, seeking, connecting, connected, or
\* about to hear the callback that leads on.
OneStage ==
  /\ OneLeads(carCbs)
  /\ SomeLeads(carCbs) => ~seeking /\ ~connecting /\ ~link /\ g_sle_state # "idle"
  /\ seeking => ~connecting /\ ~link /\ g_sle_state # "idle"
  /\ connecting => ~link /\ g_sle_state # "idle"
  /\ link => g_sle_state # "idle"

\* A callback of these names has one called last behind it.
Followed(cbs, names, last) ==
  \A i \in 1..Len(cbs) :
    cbs[i][1] \in names => \E j \in (i + 1)..Len(cbs) : cbs[j][1] = last

OfScan == {"seek_enable", "seek_disable"}

\* What the car has still to hear of a connection is true of the present one, or
\* the news of its end comes after; what it has still to hear of a scan is
\* followed by the news of the connection, if there is one.
CarInOrder ==
  /\ link \/ Followed(carCbs, OfConnection, "disconnected")
  /\ link => Followed(carCbs, OfScan, "connected")

CarTold ==
  /\ g_sle_has_write_handle => link \/ Pending(carCbs, "disconnected")
  /\ g_sle_state = "connected" => link \/ Pending(carCbs, "disconnected")
  /\ link => g_sle_state = "connected" \/ Pending(carCbs, "connected")

CarInv == OneStage /\ CarInOrder /\ CarTold

\* The gateway hears of a disconnect last of all, and of nothing before it runs.
DisconnectedLast(cbs) == \A i \in 1..Len(cbs) : cbs[i][1] = "disconnected" => i = Len(cbs)

GwInv ==
  /\ DisconnectedLast(gwCbs)
  /\ gwCbs # <<>> => link \/ Pending(gwCbs, "disconnected")
  /\ g_sle_pair_hdl # 0 => link \/ Pending(gwCbs, "disconnected")
  /\ server \in {"boot", "ended"} => ~announcing /\ ~link /\ gwCbs = <<>> /\ queue = 0
  /\ Roles <= 1
  /\ NeverForgotten

LinkInv == TypeOK /\ CarInv /\ GwInv

\* A callback that waits is good news unless its request is on record as failed;
\* no connection comes with a pairing, for the old one is forgotten before it is
\* asked for (sle_client.c:117).
GoodNews(cb, record) ==
  IF cb[1] = "connected" THEN cb[2] = FALSE ELSE cb[2] = TRUE \/ cb[1] \in record

AllGood(cbs, record) == \A i \in 1..Len(cbs) : GoodNews(cbs[i], record)

WayInv ==
  /\ AllGood(carCbs, failed)
  /\ connecting => ~bonded
  /\ g_sle_state = "idle" => carCbs = <<>>
  /\ NeverStranded
=============================================================================
