----------------------------- MODULE SleLink_proofs -----------------------------
(* Proofs about SleLink: typing, that each end's handle is current, that   *)
(* the car's state tells the link's, and that no disconnect is forgotten.  *)
EXTENDS SleLink, TLAPS

(* Callbacks that are added and taken away, and what stays behind.         *)
LEMMA Added ==
  ASSUME NEW cbs \in Seq(Callbacks), NEW cb \in Callbacks
  PROVE  /\ Append(cbs, cb) \in Seq(Callbacks)
         /\ Append(cbs, cb) # <<>>
         /\ Len(Append(cbs, cb)) = Len(cbs) + 1
         /\ \A i \in 1..Len(cbs) : Append(cbs, cb)[i] = cbs[i]
         /\ Append(cbs, cb)[Len(cbs) + 1] = cb
  OBVIOUS

LEMMA Taken ==
  ASSUME NEW cbs \in Seq(Callbacks), cbs # <<>>
  PROVE  /\ Tail(cbs) \in Seq(Callbacks)
         /\ Len(Tail(cbs)) = Len(cbs) - 1
         /\ Len(cbs) \in Nat \ {0}
         /\ \A i \in 1..Len(Tail(cbs)) : Tail(cbs)[i] = cbs[i + 1]
         /\ Head(cbs) = cbs[1] /\ Head(cbs) \in Callbacks
  OBVIOUS

LEMMA PendingAt ==
  ASSUME NEW cbs \in Seq(Callbacks), NEW name
  PROVE  Pending(cbs, name) <=> \E i \in 1..Len(cbs) : cbs[i][1] = name
  BY DEF Pending

LEMMA PendingAdded ==
  ASSUME NEW cbs \in Seq(Callbacks), NEW cb \in Callbacks, NEW name
  PROVE  Pending(Append(cbs, cb), name) <=> Pending(cbs, name) \/ cb[1] = name
  <1>1. Append(cbs, cb) \in Seq(Callbacks)
    BY Added
  <1>2. 1..Len(Append(cbs, cb)) = 1..Len(cbs) \cup {Len(cbs) + 1}
    BY Added
  <1>3. \A i \in 1..Len(cbs) : Append(cbs, cb)[i][1] = cbs[i][1]
    BY Added
  <1>4. Append(cbs, cb)[Len(cbs) + 1][1] = cb[1]
    BY Added
  <1>5. Pending(Append(cbs, cb), name)
          <=> \E i \in 1..Len(cbs) \cup {Len(cbs) + 1} : Append(cbs, cb)[i][1] = name
    BY <1>1, <1>2, PendingAt
  <1>6. QED
    BY <1>3, <1>4, <1>5, PendingAt

LEMMA PendingTaken ==
  ASSUME NEW cbs \in Seq(Callbacks), cbs # <<>>, NEW name
  PROVE  Pending(cbs, name) <=> Head(cbs)[1] = name \/ Pending(Tail(cbs), name)
  <1>1. Tail(cbs) \in Seq(Callbacks)
    BY Taken
  <1>2. ASSUME NEW i \in 1..Len(cbs) PROVE i = 1 \/ i - 1 \in 1..Len(Tail(cbs))
    BY Taken
  <1>3. ASSUME NEW i \in 1..Len(Tail(cbs)) PROVE i + 1 \in 1..Len(cbs)
    BY Taken
  <1>4. ASSUME Pending(cbs, name) PROVE Head(cbs)[1] = name \/ Pending(Tail(cbs), name)
    <2>1. PICK i \in 1..Len(cbs) : cbs[i][1] = name
      BY <1>4, PendingAt
    <2>2. CASE i = 1
      BY <2>1, <2>2, Taken
    <2>3. CASE i - 1 \in 1..Len(Tail(cbs))
      <3>1. Tail(cbs)[i - 1] = cbs[i]
        BY <2>3, Taken
      <3>2. QED
        BY <1>1, <2>1, <2>3, <3>1, PendingAt
    <2>4. QED
      BY <1>2, <2>2, <2>3
  <1>5. ASSUME Head(cbs)[1] = name PROVE Pending(cbs, name)
    BY <1>5, Taken, PendingAt
  <1>6. ASSUME Pending(Tail(cbs), name) PROVE Pending(cbs, name)
    <2>1. PICK i \in 1..Len(Tail(cbs)) : Tail(cbs)[i][1] = name
      BY <1>1, <1>6, PendingAt
    <2>2. cbs[i + 1][1] = name
      BY <2>1, Taken
    <2>3. QED
      BY <1>3, <2>2, PendingAt
  <1>7. QED
    BY <1>4, <1>5, <1>6

(* A callback brings one status.                                           *)
LEMMA OneStatus == ASSUME NEW name, Step(name, FALSE) PROVE ~Step(name, TRUE)
  <1>1. <<name, FALSE>>[2] # <<name, TRUE>>[2]
    OBVIOUS
  <1>2. QED
    BY <1>1, Zenon DEF Step

-----------------------------------------------------------------------------
(* Typing.                                                                 *)

LEMMA CallbackTypes ==
  /\ \A ok \in BOOLEAN, name \in {"enable", "seek_enable", "found", "seek_disable", "connected",
       "disconnected", "pair", "exchange", "property"} : <<name, ok>> \in Callbacks
  /\ <<"found", TRUE>> \in Callbacks /\ <<"disconnected", TRUE>> \in Callbacks
  /\ <<"exchange", TRUE>> \in Callbacks
  BY DEF Callbacks

LEMMA InitType == Init => TypeOK
  <1>1. <<>> \in Seq(Callbacks) /\ 0 \in 0..QueueLen
    BY LinkAssumption
  <1>2. QED
    BY <1>1 DEF Init, TypeOK

(* What a request leaves among the callbacks and in the record of failures. *)
LEMMA AnsweredType ==
  ASSUME NEW request \in {"enable", "seek_enable", "seek_disable", "pair", "exchange", "property"},
         NEW sensible \in BOOLEAN, NEW out, NEW cbs \in Seq(Callbacks),
         failed \subseteq Requests, Answered(request, sensible, out, cbs)
  PROVE  carCbs' \in Seq(Callbacks) /\ failed' \subseteq Requests
  <1>1. <<request, out = "done">> \in Callbacks
    BY DEF Callbacks
  <1>2. request \in Requests
    BY DEF Requests
  <1>3. QED
    BY <1>1, <1>2, Added DEF Answered

LEMMA NextType == TypeOK /\ [Next]_vars => TypeOK'
  <1> SUFFICES ASSUME TypeOK, [Next]_vars PROVE TypeOK'
    OBVIOUS
  <1> USE LinkAssumption DEF TypeOK
  <1>t. carCbs # <<>> => Tail(carCbs) \in Seq(Callbacks)
    BY Taken
  <1>g. gwCbs # <<>> => Tail(gwCbs) \in Seq(Callbacks)
    BY Taken
  <1>1. CASE UNCHANGED vars
    BY <1>1 DEF vars, carVars, gwVars, carStack, gwStack
  <1>2. CASE car_sle_client_start
    BY <1>2, AnsweredType DEF car_sle_client_start, gwVars, gwStack
  <1>3. ASSUME NEW cbs \in Seq(Callbacks), StartScan(cbs)
        PROVE  carCbs' \in Seq(Callbacks) /\ failed' \subseteq Requests /\ seeking' \in BOOLEAN
               /\ g_sle_state' \in {"idle", "starting", "scanning", "connected", "error"}
    BY <1>3, AnsweredType DEF StartScan
  <1>4. CASE car_sle_enable_cbk
    BY <1>4, <1>3, <1>t DEF car_sle_enable_cbk, Step, gwVars, gwStack
  <1>5. CASE car_sle_seek_enable_cbk
    BY <1>5, <1>t DEF car_sle_seek_enable_cbk, Step, gwVars, gwStack
  <1>6. CASE car_sle_seek_result_cbk
    <2>1. carCbs # <<>> /\ seeking' \in BOOLEAN
          /\ UNCHANGED <<carVars, gwVars, connecting, bonded, gwStack, link>>
      BY <1>6 DEF car_sle_seek_result_cbk, Step
    <2>2. carCbs' \in Seq(Callbacks) /\ failed' \subseteq Requests
      BY <1>6, <1>t, <2>1, AnsweredType DEF car_sle_seek_result_cbk
    <2>3. QED
      BY <2>1, <2>2 DEF carVars, gwVars, gwStack
  <1>7. CASE car_sle_seek_disable_cbk
    <2>1. "connect" \in Requests
      BY DEF Requests
    <2>2. carCbs # <<>> /\ carCbs' = Tail(carCbs)
          /\ g_sle_state' \in {g_sle_state, "error"} /\ connecting' \in BOOLEAN /\ bonded' \in BOOLEAN
          /\ failed' \subseteq failed \cup {"connect"}
          /\ UNCHANGED <<g_sle_has_write_handle, gwVars, seeking, gwStack, link>>
      <3>1. CASE Step("seek_disable", TRUE)
        BY <1>7, <3>1 DEF car_sle_seek_disable_cbk, Step, carVars
      <3>2. CASE Step("seek_disable", FALSE)
        <4>1. ~Step("seek_disable", TRUE)
          BY <3>2, OneStatus
        <4>2. QED
          BY <1>7, <3>2, <4>1 DEF car_sle_seek_disable_cbk, Step
      <3>3. QED
        BY <1>7, <3>1, <3>2 DEF car_sle_seek_disable_cbk
    <2>3. carCbs' \in Seq(Callbacks)
      BY <1>t, <2>2
    <2>4. QED
      BY <2>1, <2>2, <2>3 DEF gwVars, gwStack
  <1>8. ASSUME NEW paired \in BOOLEAN, CarConnected(paired) PROVE TypeOK'
    <2>1. \A ok \in BOOLEAN : Append(gwCbs, <<"pair", ok>>) \in Seq(Callbacks)
      BY Added, CallbackTypes
    <2>2. carCbs # <<>> /\ g_sle_state' = "connected"
          /\ UNCHANGED <<g_sle_has_write_handle, gwVars, seeking, connecting, announcing, link>>
      BY <1>8 DEF CarConnected, Step
    <2>3. carCbs' \in Seq(Callbacks) /\ gwCbs' \in Seq(Callbacks) /\ failed' \subseteq Requests
          /\ bonded' \in BOOLEAN
      <3>1. CASE paired
        BY <1>8, <1>t, <2>2, <3>1 DEF CarConnected
      <3>2. CASE ~paired
        <4>1. PICK out \in Outcome("pair", link) :
                /\ Answered("pair", link, out, Tail(carCbs))
                /\ bonded' = (bonded \/ out = "done")
                /\ gwCbs' = IF out = "refused" THEN gwCbs ELSE Append(gwCbs, <<"pair", out = "done">>)
          BY <1>8, <3>2 DEF CarConnected
        <4>2. carCbs' \in Seq(Callbacks) /\ failed' \subseteq Requests
          BY <1>t, <2>2, <4>1, AnsweredType
        <4>3. gwCbs' \in Seq(Callbacks)
          BY <2>1, <4>1
        <4>4. QED
          BY <4>1, <4>2, <4>3
      <3>3. QED
        BY <3>1, <3>2
    <2>4. QED
      BY <2>2, <2>3 DEF gwVars
  <1>9. CASE CarDisconnected
    BY <1>9, <1>3, <1>t DEF CarDisconnected, Step, gwVars, gwStack
  <1>10. CASE car_sle_pair_complete_cbk
    <2>1. Append(gwCbs, <<"exchange", TRUE>>) \in Seq(Callbacks)
      BY Added, CallbackTypes
    <2>2. PICK ok \in BOOLEAN : Step("pair", ok)
            /\ IF ok THEN \E out \in Outcome("exchange", link) :
                           /\ Answered("exchange", link, out, Tail(carCbs))
                           /\ gwCbs' = IF out = "done" THEN Append(gwCbs, <<"exchange", TRUE>>) ELSE gwCbs
               ELSE carCbs' = Tail(carCbs) /\ UNCHANGED <<gwCbs, failed>>
      BY <1>10 DEF car_sle_pair_complete_cbk
    <2>3. carCbs' \in Seq(Callbacks) /\ gwCbs' \in Seq(Callbacks) /\ failed' \subseteq Requests
      <3>1. CASE ok
        BY <1>t, <2>1, <2>2, <3>1, AnsweredType DEF Step
      <3>2. CASE ~ok
        BY <1>t, <2>2, <3>2 DEF Step
      <3>3. QED
        BY <3>1, <3>2
    <2>4. QED
      BY <1>10, <2>3 DEF car_sle_pair_complete_cbk, carVars, gwVars
  <1>11. CASE car_sle_exchange_info_cbk
    <2>1. PICK ok \in BOOLEAN : Step("exchange", ok)
            /\ IF ok THEN \E out \in Outcome("property", link) :
                           Answered("property", link, out, Tail(carCbs))
               ELSE carCbs' = Tail(carCbs) /\ UNCHANGED failed
      BY <1>11 DEF car_sle_exchange_info_cbk
    <2>2. carCbs' \in Seq(Callbacks) /\ failed' \subseteq Requests
      <3>1. CASE ok
        BY <1>t, <2>1, <3>1, AnsweredType DEF Step
      <3>2. CASE ~ok
        BY <1>t, <2>1, <3>2 DEF Step
      <3>3. QED
        BY <3>1, <3>2
    <2>3. QED
      BY <1>11, <2>2 DEF car_sle_exchange_info_cbk, carVars, gwVars, gwStack
  <1>12. CASE car_sle_find_property_cbk
    BY <1>12, <1>t DEF car_sle_find_property_cbk, Step, gwVars, gwStack
  <1>13. CASE ServerTask
    <2>1. "init" \in Requests /\ "announce" \in Requests
      BY DEF Requests
    <2>2. CASE ServerInit
      BY <2>1, <2>2 DEF ServerInit, carVars, carStack
    <2>3. CASE ServerRead
      BY <2>3 DEF ServerRead, carVars, carStack, gwStack
    <2>4. CASE ServerAnnounce
      BY <2>1, <2>4 DEF ServerAnnounce, carVars, carStack
    <2>5. CASE ServerWake
      BY <2>5 DEF ServerWake, carVars, carStack, gwStack
    <2>6. QED
      BY <1>13, <2>2, <2>3, <2>4, <2>5 DEF ServerTask
  <1>14. CASE GwCallback
    <2>1. gwCbs # <<>> /\ gwCbs' = Tail(gwCbs) /\ g_sle_pair_hdl' \in {0, 1} /\ queue' \in 0..QueueLen
          /\ UNCHANGED <<carVars, server, carStack, announcing, link, failed>>
      <3>1. CASE GwConnected
        BY <3>1 DEF GwConnected, GwStep, gwVars
      <3>2. CASE GwDisconnected
        BY <3>2 DEF GwDisconnected, GwStep
      <3>3. CASE sle_pair_complete_cbk
        BY <3>3 DEF sle_pair_complete_cbk, GwStep
      <3>4. CASE ssaps_mtu_changed_cbk
        BY <3>4 DEF ssaps_mtu_changed_cbk, GwStep
      <3>5. QED
        BY <1>14, <3>1, <3>2, <3>3, <3>4 DEF GwCallback
    <2>2. gwCbs' \in Seq(Callbacks)
      BY <1>g, <2>1
    <2>3. QED
      BY <2>1, <2>2 DEF carVars, carStack
  <1>15. CASE Found
    BY <1>15, Added, CallbackTypes DEF Found, carVars, gwVars, gwStack
  <1>16. CASE LinkUp
    BY <1>16, Added, CallbackTypes DEF LinkUp, carVars, gwVars
  <1>17. CASE ConnectFails
    <2>1. "connect" \in Requests
      BY DEF Requests
    <2>2. carCbs' \in Seq(Callbacks)
      <3>1. Append(carCbs, <<"disconnected", TRUE>>) \in Seq(Callbacks)
        BY Added, CallbackTypes
      <3>2. QED
        BY <1>17, <3>1 DEF ConnectFails
    <2>3. failed' \subseteq Requests /\ connecting' \in BOOLEAN
          /\ UNCHANGED <<carVars, gwVars, seeking, bonded, gwStack, link>>
      BY <1>17, <2>1 DEF ConnectFails
    <2>4. QED
      BY <2>2, <2>3 DEF carVars, gwVars, gwStack
  <1>18. CASE Upset
    <2>1. Append(carCbs, <<"disconnected", TRUE>>) \in Seq(Callbacks)
          /\ Append(gwCbs, <<"disconnected", TRUE>>) \in Seq(Callbacks)
      BY Added, CallbackTypes
    <2>2. CASE LinkLost
      BY <2>1, <2>2 DEF LinkLost, carVars, gwVars
    <2>3. CASE CarReset
      <3>1. gwCbs' \in Seq(Callbacks) /\ carCbs' \in Seq(Callbacks)
        BY <2>1, <2>3 DEF CarReset
      <3>2. QED
        BY <2>3, <3>1 DEF CarReset, gwVars
    <2>4. CASE GatewayReset
      <3>1. gwCbs' \in Seq(Callbacks) /\ carCbs' \in Seq(Callbacks)
        BY <2>1, <2>4 DEF GatewayReset
      <3>2. queue' \in 0..QueueLen
        BY <2>4 DEF GatewayReset
      <3>3. QED
        BY <2>4, <3>1, <3>2 DEF GatewayReset, carVars
    <2>5. QED
      BY <1>18, <2>2, <2>3, <2>4 DEF Upset
  <1>19. QED
    BY <1>1, <1>2, <1>4, <1>5, <1>6, <1>7, <1>8, <1>9, <1>10, <1>11, <1>12, <1>13, <1>14, <1>15,
       <1>16, <1>17, <1>18 DEF Next, CarCallback

(* Every variable keeps its type, for every length of the queue and every  *)
(* set of requests that may fail (sle_client.c, gateway_main.c).           *)
THEOREM TypeCorrect == Spec => []TypeOK
  BY InitType, NextType, PTL DEF Spec

-----------------------------------------------------------------------------
(* The gateway: one role at a time, and no disconnect forgotten.           *)

LEMMA LastAdded ==
  ASSUME NEW cbs \in Seq(Callbacks), NEW cb \in Callbacks, ~Pending(cbs, "disconnected")
  PROVE  DisconnectedLast(Append(cbs, cb))
  <1>1. \A i \in 1..Len(cbs) : cbs[i][1] # "disconnected"
    BY PendingAt
  <1>2. \A i \in 1..Len(cbs) : Append(cbs, cb)[i] = cbs[i]
    BY Added
  <1>3. 1..Len(Append(cbs, cb)) = 1..Len(cbs) \cup {Len(cbs) + 1} /\ Len(Append(cbs, cb)) = Len(cbs) + 1
    BY Added
  <1>4. QED
    BY <1>1, <1>2, <1>3 DEF DisconnectedLast

LEMMA Nothing ==
  ASSUME NEW cbs \in Seq(Callbacks), Len(cbs) = 0
  PROVE  cbs = <<>>
  OBVIOUS

LEMMA LastTaken ==
  ASSUME NEW cbs \in Seq(Callbacks), cbs # <<>>, DisconnectedLast(cbs)
  PROVE  /\ DisconnectedLast(Tail(cbs))
         /\ Head(cbs)[1] = "disconnected" => Tail(cbs) = <<>>
  <1>1. \A i \in 1..Len(Tail(cbs)) : i + 1 \in 1..Len(cbs) /\ Tail(cbs)[i] = cbs[i + 1]
    BY Taken
  <1>2. Len(Tail(cbs)) = Len(cbs) - 1 /\ Len(cbs) \in Nat \ {0}
    BY Taken
  <1>3. DisconnectedLast(Tail(cbs))
    <2>1. ASSUME NEW i \in 1..Len(Tail(cbs)), Tail(cbs)[i][1] = "disconnected"
          PROVE  i = Len(Tail(cbs))
      <3>1. i + 1 \in 1..Len(cbs) /\ cbs[i + 1][1] = "disconnected"
        BY <1>1, <2>1
      <3>2. i + 1 = Len(cbs)
        BY <3>1 DEF DisconnectedLast
      <3>3. i \in Int
        BY <2>1
      <3>4. ASSUME NEW n \in Nat, NEW m, m = n - 1, i + 1 = n PROVE i = m
        BY <3>3, <3>4
      <3>5. QED
        BY <1>2, <3>2, <3>4
    <2>2. QED
      BY <2>1 DEF DisconnectedLast
  <1>4. ASSUME Head(cbs)[1] = "disconnected" PROVE Tail(cbs) = <<>>
    <2>1. 1 \in 1..Len(cbs) /\ cbs[1][1] = "disconnected"
      BY <1>2, <1>4, Taken
    <2>2. Len(cbs) = 1
      BY <2>1 DEF DisconnectedLast
    <2>3. Tail(cbs) \in Seq(Callbacks) /\ Len(Tail(cbs)) = 0
      BY <1>2, <2>2, Taken
    <2>4. QED
      BY <2>3, Nothing
  <1>5. QED
    BY <1>3, <1>4

LEMMA NonePending == ~Pending(<<>>, "disconnected") /\ DisconnectedLast(<<>>)
  BY DEF Pending, DisconnectedLast

LEMMA InitGw == Init => GwInv
  BY NonePending DEF Init, GwInv, Roles, One, NeverForgotten

(* A step the gateway's side has no part in.                               *)
LEMMA GwQuiet ==
  ASSUME GwInv, UNCHANGED <<gwVars, gwStack, link>>, failed \subseteq failed'
  PROVE  GwInv'
  <1>1. UNCHANGED <<g_sle_pair_hdl, queue, server, announcing, gwCbs, link>>
    BY DEF gwVars, gwStack
  <1>2. Pending(gwCbs, "disconnected")' <=> Pending(gwCbs, "disconnected")
    BY <1>1
  <1>3. Roles' = Roles
    BY <1>1, <1>2 DEF Roles, One
  <1>4. DisconnectedLast(gwCbs)' <=> DisconnectedLast(gwCbs)
    BY <1>1
  <1>5. QED
    BY <1>1, <1>2, <1>3, <1>4 DEF GwInv, NeverForgotten

(* The gateway is to hear of what the car does over the link.              *)
LEMMA GwToHear ==
  ASSUME TypeOK, GwInv, link, NEW cb \in Callbacks, cb[1] # "disconnected",
         gwCbs' = Append(gwCbs, cb), UNCHANGED <<gwVars, announcing, link>>, failed \subseteq failed'
  PROVE  GwInv'
  <1>1. UNCHANGED <<g_sle_pair_hdl, queue, server, announcing, link>>
    BY DEF gwVars
  <1>2. gwCbs \in Seq(Callbacks) /\ queue \in Nat
    BY LinkAssumption DEF TypeOK
  <1>3. ~Pending(gwCbs, "disconnected")
    BY <1>2 DEF GwInv, Roles, One
  <1>4. ~Pending(gwCbs, "disconnected")'
    BY <1>2, <1>3, PendingAdded
  <1>5. DisconnectedLast(gwCbs)'
    BY <1>2, <1>3, LastAdded
  <1>6. Roles' = Roles
    BY <1>1, <1>3, <1>4 DEF Roles, One
  <1>7. QED
    BY <1>1, <1>4, <1>5, <1>6 DEF GwInv, NeverForgotten

(* A callback of the gateway other than a disconnect.                      *)
LEMMA GwHeard ==
  ASSUME TypeOK, GwInv, gwCbs # <<>>, Head(gwCbs)[1] # "disconnected", gwCbs' = Tail(gwCbs),
         UNCHANGED <<queue, server, announcing, link, failed>>
  PROVE  GwInv'
  <1>1. gwCbs \in Seq(Callbacks)
    BY DEF TypeOK
  <1>2. Pending(gwCbs, "disconnected")' <=> Pending(gwCbs, "disconnected")
    BY <1>1, PendingTaken
  <1>3. DisconnectedLast(gwCbs)'
    BY <1>1, LastTaken DEF GwInv
  <1>4. Roles' = Roles
    BY <1>2 DEF Roles, One
  <1>5. link \/ Pending(gwCbs, "disconnected")
    BY DEF GwInv
  <1>6. server \notin {"boot", "ended"}
    BY DEF GwInv
  <1>7. QED
    BY <1>2, <1>3, <1>4, <1>5, <1>6 DEF GwInv, NeverForgotten

(* The link goes: the gateway is to hear of it.                            *)
LEMMA GwLoses ==
  ASSUME TypeOK, GwInv, link, ~link', gwCbs' = Append(gwCbs, <<"disconnected", TRUE>>),
         UNCHANGED <<gwVars, announcing, failed>>
  PROVE  GwInv'
  <1>1. UNCHANGED <<g_sle_pair_hdl, queue, server, announcing, failed>>
    BY DEF gwVars
  <1>2. gwCbs \in Seq(Callbacks) /\ queue \in Nat
    BY LinkAssumption DEF TypeOK
  <1>3. ~Pending(gwCbs, "disconnected")
    BY <1>2 DEF GwInv, Roles, One
  <1>4. Pending(gwCbs, "disconnected")'
    BY <1>2, PendingAdded, CallbackTypes
  <1>5. DisconnectedLast(gwCbs)'
    BY <1>2, <1>3, LastAdded, CallbackTypes
  <1>6. Roles' = Roles
    BY <1>1, <1>3, <1>4 DEF Roles, One
  <1>7. server \notin {"boot", "ended"}
    BY DEF GwInv
  <1>8. QED
    BY <1>1, <1>4, <1>5, <1>6, <1>7 DEF GwInv, NeverForgotten

LEMMA NextGw == TypeOK /\ GwInv /\ [Next]_vars => GwInv'
  <1> SUFFICES ASSUME TypeOK, GwInv, [Next]_vars PROVE GwInv'
    OBVIOUS
  <1>q. queue \in Nat /\ gwCbs \in Seq(Callbacks) /\ QueueLen \in Nat \ {0}
    BY LinkAssumption DEF TypeOK
  <1>a. ASSUME NEW request, NEW sensible, NEW out, NEW cbs, Answered(request, sensible, out, cbs)
        PROVE  failed \subseteq failed'
    BY <1>a DEF Answered
  <1>1. CASE UNCHANGED vars
    BY <1>1, GwQuiet DEF vars
  <1>2. CASE car_sle_client_start
    BY <1>2, <1>a, GwQuiet DEF car_sle_client_start
  <1>3. CASE car_sle_enable_cbk \/ car_sle_seek_enable_cbk
    BY <1>3, <1>a, GwQuiet DEF car_sle_enable_cbk, car_sle_seek_enable_cbk, StartScan
  <1>4. CASE car_sle_seek_result_cbk \/ car_sle_seek_disable_cbk
    BY <1>4, <1>a, GwQuiet DEF car_sle_seek_result_cbk, car_sle_seek_disable_cbk
  <1>5. CASE CarDisconnected \/ car_sle_exchange_info_cbk \/ car_sle_find_property_cbk
    BY <1>5, <1>a, GwQuiet DEF CarDisconnected, StartScan, car_sle_exchange_info_cbk,
       car_sle_find_property_cbk
  <1>6. ASSUME NEW paired \in BOOLEAN, CarConnected(paired) PROVE GwInv'
    <2>1. CASE UNCHANGED gwCbs
      BY <1>6, <1>a, <2>1, GwQuiet DEF CarConnected, gwStack
    <2>2. CASE gwCbs' # gwCbs
      <3>1. PICK out \in Outcome("pair", link) :
              out # "refused" /\ Answered("pair", link, out, Tail(carCbs))
              /\ gwCbs' = Append(gwCbs, <<"pair", out = "done">>)
        BY <1>6, <2>2 DEF CarConnected
      <3>2. link
        BY <3>1 DEF Outcome
      <3>3. <<"pair", out = "done">> \in Callbacks /\ <<"pair", out = "done">>[1] # "disconnected"
        BY CallbackTypes
      <3>4. QED
        BY <1>6, <1>a, <3>1, <3>2, <3>3, GwToHear DEF CarConnected
    <2>3. QED
      BY <2>1, <2>2
  <1>7. CASE car_sle_pair_complete_cbk
    <2>1. failed \subseteq failed' /\ UNCHANGED <<gwVars, announcing, link>>
      BY <1>7, <1>a DEF car_sle_pair_complete_cbk
    <2>2. CASE UNCHANGED gwCbs
      BY <2>1, <2>2, GwQuiet DEF gwStack
    <2>3. CASE gwCbs' # gwCbs
      <3>1. "done" \in Outcome("exchange", link) /\ gwCbs' = Append(gwCbs, <<"exchange", TRUE>>)
        BY <1>7, <2>3 DEF car_sle_pair_complete_cbk
      <3>2. link
        BY <3>1 DEF Outcome
      <3>3. QED
        BY <2>1, <3>1, <3>2, GwToHear, CallbackTypes
    <2>4. QED
      BY <2>2, <2>3
  <1>8. CASE ServerInit
    <2>1. ~announcing /\ ~link /\ gwCbs = <<>> /\ queue = 0 /\ g_sle_pair_hdl = 0
      BY <1>8, NonePending DEF ServerInit, GwInv, TypeOK
    <2>2. UNCHANGED <<g_sle_pair_hdl, queue, gwCbs, link>>
      BY <1>8 DEF ServerInit
    <2>3. ~Pending(gwCbs, "disconnected")' /\ DisconnectedLast(gwCbs)'
      BY <2>1, <2>2, NonePending
    <2>4. (server' = "read" /\ announcing') \/ (server' = "ended" /\ ~announcing')
      BY <1>8, <2>1 DEF ServerInit, TypeOK
    <2>5. QED
      BY <2>1, <2>2, <2>3, <2>4 DEF GwInv, Roles, One, NeverForgotten
  <1>9. CASE ServerRead
    <2>1. UNCHANGED <<g_sle_pair_hdl, announcing, gwCbs, link, failed>>
      BY <1>9 DEF ServerRead, gwStack
    <2>2. Roles' = Roles
      BY <1>9, <1>q, <2>1 DEF ServerRead, Roles, One
    <2>3. QED
      BY <1>9, <2>1, <2>2 DEF ServerRead, GwInv, NeverForgotten
  <1>10. CASE ServerAnnounce
    <2>1. UNCHANGED <<g_sle_pair_hdl, queue, gwCbs, link>> /\ failed \subseteq failed'
      BY <1>10 DEF ServerAnnounce
    <2>2. ~announcing /\ ~link /\ ~Pending(gwCbs, "disconnected") /\ queue = 0
      BY <1>10, <1>q DEF ServerAnnounce, GwInv, Roles, One
    <2>3. announcing' \/ (~announcing' /\ "announce" \in failed')
      BY <1>10, <2>2 DEF ServerAnnounce, TypeOK
    <2>4. ~Pending(gwCbs, "disconnected")' /\ DisconnectedLast(gwCbs)'
      BY <2>1, <2>2 DEF GwInv
    <2>5. server' = "sleep"
      BY <1>10 DEF ServerAnnounce
    <2>6. QED
      BY <2>1, <2>2, <2>3, <2>4, <2>5 DEF GwInv, Roles, One, NeverForgotten
  <1>11. CASE ServerWake
    <2>1. UNCHANGED <<g_sle_pair_hdl, queue, announcing, gwCbs, link, failed>>
      BY <1>11 DEF ServerWake, gwStack
    <2>2. Roles' = Roles
      BY <1>11, <2>1 DEF ServerWake, Roles, One
    <2>3. QED
      BY <1>11, <2>1, <2>2 DEF ServerWake, GwInv, NeverForgotten
  <1>12. CASE GwConnected \/ sle_pair_complete_cbk \/ ssaps_mtu_changed_cbk
    BY <1>12, GwHeard DEF GwConnected, sle_pair_complete_cbk, ssaps_mtu_changed_cbk, GwStep, gwVars
  <1>13. CASE GwDisconnected
    <2>1. gwCbs # <<>> /\ Head(gwCbs)[1] = "disconnected"
      BY <1>13 DEF GwDisconnected, GwStep
    <2>2. Pending(gwCbs, "disconnected") /\ gwCbs' = <<>>
      BY <1>13, <1>q, <2>1, PendingTaken, LastTaken DEF GwDisconnected, GwInv
    <2>3. ~announcing /\ ~link /\ queue = 0 /\ server # "announce"
      BY <1>q, <2>2 DEF GwInv, Roles, One
    <2>4. server \notin {"boot", "ended"}
      BY <2>1 DEF GwInv
    <2>5. UNCHANGED <<announcing, link, server, failed>> /\ g_sle_pair_hdl' = 0 /\ queue' = 1
      BY <1>13, <1>q, <2>3 DEF GwDisconnected
    <2>6. ~Pending(gwCbs, "disconnected")' /\ DisconnectedLast(gwCbs)'
      BY <2>2, NonePending
    <2>7. QED
      BY <2>2, <2>3, <2>4, <2>5, <2>6 DEF GwInv, Roles, One, NeverForgotten
  <1>14. CASE Found \/ ConnectFails
    BY <1>14, GwQuiet DEF Found, ConnectFails
  <1>15. CASE LinkUp
    <2>1. announcing /\ link' /\ ~announcing' /\ UNCHANGED <<g_sle_pair_hdl, queue, server, failed>>
      BY <1>15 DEF LinkUp, gwVars
    <2>2. ~link /\ ~Pending(gwCbs, "disconnected") /\ queue = 0 /\ server # "announce"
      BY <1>q, <2>1 DEF GwInv, Roles, One
    <2>3. gwCbs' = Append(gwCbs, <<"connected", bonded>>) /\ <<"connected", bonded>> \in Callbacks
      BY <1>15, CallbackTypes DEF LinkUp, TypeOK
    <2>4. ~Pending(gwCbs, "disconnected")'
      BY <1>q, <2>2, <2>3, PendingAdded
    <2>5. DisconnectedLast(gwCbs)'
      BY <1>q, <2>2, <2>3, LastAdded
    <2>6. server \notin {"boot", "ended"}
      BY <2>1 DEF GwInv
    <2>7. QED
      BY <2>1, <2>2, <2>4, <2>5, <2>6 DEF GwInv, Roles, One, NeverForgotten
  <1>16. CASE LinkLost
    BY <1>16, GwLoses DEF LinkLost
  <1>17. CASE CarReset
    <2>1. CASE link
      BY <1>17, <2>1, GwLoses DEF CarReset
    <2>2. CASE ~link
      BY <1>17, <2>2, GwQuiet DEF CarReset, TypeOK, gwStack
    <2>3. QED
      BY <2>1, <2>2
  <1>18. CASE GatewayReset
    <2>1. server' = "boot" /\ g_sle_pair_hdl' = 0 /\ queue' = 0 /\ ~announcing' /\ gwCbs' = <<>> /\ ~link'
      BY <1>18 DEF GatewayReset
    <2>2. ~Pending(gwCbs, "disconnected")' /\ DisconnectedLast(gwCbs)'
      BY <2>1, NonePending
    <2>3. QED
      BY <2>1, <2>2 DEF GwInv, Roles, One, NeverForgotten
  <1>19. QED
    BY <1>1, <1>2, <1>3, <1>4, <1>5, <1>6, <1>7, <1>8, <1>9, <1>10, <1>11, <1>12, <1>13, <1>14,
       <1>15, <1>16, <1>17, <1>18 DEF Next, CarCallback, GwCallback, ServerTask, Upset

(* A running gateway is exactly one of announcing, connected, about to     *)
(* hear of a disconnect, holding a message about one and about to announce *)
(* again, until an announcement fails: for every length of the queue       *)
(* (gateway_main.c:73-121, sle_uart_server.c:309-326).                     *)
THEOREM NoDisconnectForgotten == Spec => []NeverForgotten
  <1>1. Init => TypeOK /\ GwInv
    BY InitType, InitGw
  <1>2. TypeOK /\ GwInv /\ [Next]_vars => (TypeOK /\ GwInv)'
    BY NextType, NextGw
  <1>3. GwInv => NeverForgotten
    BY DEF GwInv
  <1>4. QED
    BY <1>1, <1>2, <1>3, PTL DEF Spec

-----------------------------------------------------------------------------
(* The car: callbacks that lead on, and what follows a callback.           *)

LEMMA LeadsAdded ==
  ASSUME NEW cbs \in Seq(Callbacks), NEW cb \in Callbacks
  PROVE  /\ SomeLeads(Append(cbs, cb)) <=> SomeLeads(cbs) \/ Leads(cb)
         /\ OneLeads(cbs) /\ ~(SomeLeads(cbs) /\ Leads(cb)) => OneLeads(Append(cbs, cb))
  <1>1. \A i \in 1..Len(cbs) : Append(cbs, cb)[i] = cbs[i]
    BY Added
  <1>2. Append(cbs, cb)[Len(cbs) + 1] = cb
    BY Added
  <1>3. 1..Len(Append(cbs, cb)) = 1..Len(cbs) \cup {Len(cbs) + 1}
    BY Added
  <1>4. QED
    BY <1>1, <1>2, <1>3 DEF SomeLeads, OneLeads

LEMMA LeadsTaken ==
  ASSUME NEW cbs \in Seq(Callbacks), cbs # <<>>
  PROVE  /\ SomeLeads(cbs) <=> SomeLeads(Tail(cbs)) \/ Leads(Head(cbs))
         /\ OneLeads(cbs) => OneLeads(Tail(cbs)) /\ ~(SomeLeads(Tail(cbs)) /\ Leads(Head(cbs)))
  <1>1. \A i \in 1..Len(Tail(cbs)) : i + 1 \in 1..Len(cbs) /\ i + 1 # 1 /\ Tail(cbs)[i] = cbs[i + 1]
    BY Taken
  <1>2. 1 \in 1..Len(cbs) /\ cbs[1] = Head(cbs)
    BY Taken
  <1>3. \A i \in 1..Len(cbs) : i = 1 \/ (i - 1 \in 1..Len(Tail(cbs)) /\ Tail(cbs)[i - 1] = cbs[i])
    BY Taken
  <1>4. SomeLeads(cbs) <=> SomeLeads(Tail(cbs)) \/ Leads(Head(cbs))
    BY <1>1, <1>2, <1>3 DEF SomeLeads
  <1>5. ASSUME OneLeads(cbs) PROVE OneLeads(Tail(cbs)) /\ ~(SomeLeads(Tail(cbs)) /\ Leads(Head(cbs)))
    <2>1. ASSUME NEW i \in 1..Len(Tail(cbs)), NEW j \in 1..Len(Tail(cbs)),
                 Leads(Tail(cbs)[i]), Leads(Tail(cbs)[j])
          PROVE  i = j
      <3>1. i + 1 = j + 1
        BY <1>1, <1>5, <2>1 DEF OneLeads
      <3>2. i \in Int /\ j \in Int
        BY <2>1
      <3>3. QED
        BY <3>1, <3>2
    <2>2. ~(SomeLeads(Tail(cbs)) /\ Leads(Head(cbs)))
      BY <1>1, <1>2, <1>5 DEF SomeLeads, OneLeads
    <2>3. QED
      BY <2>1, <2>2 DEF OneLeads
  <1>6. QED
    BY <1>4, <1>5

LEMMA FollowedAdded ==
  ASSUME NEW cbs \in Seq(Callbacks), NEW cb \in Callbacks, NEW names, NEW last
  PROVE  /\ Followed(cbs, names, last) /\ cb[1] \notin names => Followed(Append(cbs, cb), names, last)
         /\ cb[1] = last /\ last \notin names => Followed(Append(cbs, cb), names, last)
  <1>1. \A i \in 1..Len(cbs) : Append(cbs, cb)[i] = cbs[i]
    BY Added
  <1>2. Append(cbs, cb)[Len(cbs) + 1] = cb
    BY Added
  <1>3. Len(Append(cbs, cb)) = Len(cbs) + 1 /\ Len(cbs) \in Nat
    BY Added
  <1>4. ASSUME cb[1] \notin names, NEW i \in 1..Len(Append(cbs, cb)), Append(cbs, cb)[i][1] \in names
        PROVE  i \in 1..Len(cbs) /\ cbs[i][1] \in names
    BY <1>1, <1>2, <1>3, <1>4
  <1>5. ASSUME Followed(cbs, names, last), cb[1] \notin names PROVE Followed(Append(cbs, cb), names, last)
    <2>1. ASSUME NEW i \in 1..Len(Append(cbs, cb)), Append(cbs, cb)[i][1] \in names
          PROVE  \E j \in (i + 1)..Len(Append(cbs, cb)) : Append(cbs, cb)[j][1] = last
      <3>1. i \in 1..Len(cbs) /\ cbs[i][1] \in names
        BY <1>4, <1>5, <2>1
      <3>2. PICK j \in (i + 1)..Len(cbs) : cbs[j][1] = last
        BY <1>5, <3>1 DEF Followed
      <3>3. j \in 1..Len(cbs) /\ j \in (i + 1)..Len(Append(cbs, cb))
        BY <1>3, <3>1, <3>2
      <3>4. QED
        BY <1>1, <3>2, <3>3
    <2>2. QED
      BY <2>1 DEF Followed
  <1>6. ASSUME cb[1] = last, last \notin names PROVE Followed(Append(cbs, cb), names, last)
    <2>1. ASSUME NEW i \in 1..Len(Append(cbs, cb)), Append(cbs, cb)[i][1] \in names
          PROVE  \E j \in (i + 1)..Len(Append(cbs, cb)) : Append(cbs, cb)[j][1] = last
      <3>1. i \in 1..Len(cbs)
        BY <1>4, <1>6, <2>1
      <3>2. Len(cbs) + 1 \in (i + 1)..Len(Append(cbs, cb))
        BY <1>3, <3>1
      <3>3. QED
        BY <1>2, <1>6, <3>2
    <2>2. QED
      BY <2>1 DEF Followed
  <1>7. QED
    BY <1>5, <1>6

LEMMA FollowedTaken ==
  ASSUME NEW cbs \in Seq(Callbacks), cbs # <<>>, NEW names, NEW last, Followed(cbs, names, last)
  PROVE  /\ Followed(Tail(cbs), names, last)
         /\ Head(cbs)[1] \in names => Pending(Tail(cbs), last)
  <1>1. \A i \in 1..Len(Tail(cbs)) : i + 1 \in 1..Len(cbs) /\ Tail(cbs)[i] = cbs[i + 1]
    BY Taken
  <1>2. \A j \in 2..Len(cbs) : j - 1 \in 1..Len(Tail(cbs)) /\ Tail(cbs)[j - 1] = cbs[j]
    BY Taken
  <1>3. Tail(cbs) \in Seq(Callbacks) /\ Len(Tail(cbs)) \in Nat
    BY Taken
  <1>4. ASSUME NEW i \in 1..Len(Tail(cbs)), Tail(cbs)[i][1] \in names
        PROVE  \E j \in (i + 1)..Len(Tail(cbs)) : Tail(cbs)[j][1] = last
    <2>1. i + 1 \in 1..Len(cbs) /\ cbs[i + 1][1] \in names
      BY <1>1, <1>4
    <2>2. PICK j \in ((i + 1) + 1)..Len(cbs) : cbs[j][1] = last
      BY <2>1 DEF Followed
    <2>3. j \in 2..Len(cbs)
      BY <1>4, <2>2
    <2>4. j - 1 \in (i + 1)..Len(Tail(cbs))
      BY <1>2, <1>4, <2>2, <2>3
    <2>5. QED
      BY <1>2, <2>2, <2>3, <2>4
  <1>5. ASSUME Head(cbs)[1] \in names PROVE Pending(Tail(cbs), last)
    <2>1. 1 \in 1..Len(cbs) /\ cbs[1][1] \in names
      BY <1>5, Taken
    <2>2. PICK j \in (1 + 1)..Len(cbs) : cbs[j][1] = last
      BY <2>1 DEF Followed
    <2>3. j \in 2..Len(cbs)
      BY <2>2
    <2>4. QED
      BY <1>2, <1>3, <2>2, <2>3, PendingAt
  <1>6. QED
    BY <1>4, <1>5 DEF Followed

-----------------------------------------------------------------------------
(* The car: its state and handle go with the link.                         *)

LEMMA Kinds ==
  /\ \A ok \in BOOLEAN :
       /\ Leads(<<"enable", ok>>) /\ Leads(<<"disconnected", ok>>)
       /\ ~Leads(<<"seek_enable", ok>>) /\ ~Leads(<<"connected", ok>>) /\ ~Leads(<<"pair", ok>>)
       /\ ~Leads(<<"exchange", ok>>) /\ ~Leads(<<"property", ok>>) /\ ~Leads(<<"found", ok>>)
  /\ Leads(<<"seek_disable", TRUE>>) /\ ~Leads(<<"seek_disable", FALSE>>)
  BY DEF Leads

LEMMA Nobody ==
  /\ OneLeads(<<>>) /\ ~SomeLeads(<<>>)
  /\ \A names, last : Followed(<<>>, names, last) /\ ~Pending(<<>>, last)
  BY DEF OneLeads, SomeLeads, Followed, Pending

(* What is left when the car takes its next callback.                      *)
LEMMA Took ==
  ASSUME TypeOK, CarInv, carCbs # <<>>
  PROVE  /\ Tail(carCbs) \in Seq(Callbacks) /\ OneLeads(Tail(carCbs))
         /\ SomeLeads(Tail(carCbs)) => SomeLeads(carCbs)
         /\ Leads(Head(carCbs)) => /\ ~seeking /\ ~connecting /\ ~link /\ g_sle_state # "idle"
                                  /\ ~SomeLeads(Tail(carCbs))
         /\ link \/ Followed(Tail(carCbs), OfConnection, "disconnected")
         /\ link => Followed(Tail(carCbs), OfScan, "connected")
         /\ Head(carCbs)[1] \in OfConnection => link \/ Pending(Tail(carCbs), "disconnected")
         /\ Head(carCbs)[1] \in OfScan /\ link => Pending(Tail(carCbs), "connected")
         /\ Pending(carCbs, "disconnected") =>
              Head(carCbs)[1] = "disconnected" \/ Pending(Tail(carCbs), "disconnected")
         /\ Pending(carCbs, "connected") =>
              Head(carCbs)[1] = "connected" \/ Pending(Tail(carCbs), "connected")
  <1>1. carCbs \in Seq(Callbacks)
    BY DEF TypeOK
  <1>2. Tail(carCbs) \in Seq(Callbacks) /\ OneLeads(Tail(carCbs))
    BY <1>1, Taken, LeadsTaken DEF CarInv, OneStage
  <1>3. SomeLeads(carCbs) <=> SomeLeads(Tail(carCbs)) \/ Leads(Head(carCbs))
    BY <1>1, LeadsTaken
  <1>4. ~(SomeLeads(Tail(carCbs)) /\ Leads(Head(carCbs)))
    BY <1>1, LeadsTaken DEF CarInv, OneStage
  <1>5. CASE link
    BY <1>1, <1>2, <1>3, <1>4, <1>5, PendingTaken, FollowedTaken DEF CarInv, OneStage, CarInOrder
  <1>6. CASE ~link
    BY <1>1, <1>2, <1>3, <1>4, <1>6, PendingTaken, FollowedTaken DEF CarInv, OneStage, CarInOrder
  <1>7. QED
    BY <1>5, <1>6

(* What a callback added behind cbs changes.                               *)
LEMMA Queued ==
  ASSUME NEW cbs \in Seq(Callbacks), NEW cb \in Callbacks
  PROVE  /\ Append(cbs, cb) \in Seq(Callbacks)
         /\ SomeLeads(Append(cbs, cb)) <=> SomeLeads(cbs) \/ Leads(cb)
         /\ OneLeads(cbs) /\ ~(SomeLeads(cbs) /\ Leads(cb)) => OneLeads(Append(cbs, cb))
         /\ Pending(Append(cbs, cb), "disconnected") <=> Pending(cbs, "disconnected") \/ cb[1] = "disconnected"
         /\ Pending(Append(cbs, cb), "connected") <=> Pending(cbs, "connected") \/ cb[1] = "connected"
         /\ cb[1] = "disconnected" \/ (Followed(cbs, OfConnection, "disconnected") /\ cb[1] \notin OfConnection)
            => Followed(Append(cbs, cb), OfConnection, "disconnected")
         /\ cb[1] = "connected" \/ (Followed(cbs, OfScan, "connected") /\ cb[1] \notin OfScan)
            => Followed(Append(cbs, cb), OfScan, "connected")
  <1>1. "disconnected" \notin OfConnection /\ "connected" \notin OfScan
    BY DEF OfConnection, OfScan
  <1>2. Append(cbs, cb) \in Seq(Callbacks)
    BY Added
  <1>3. SomeLeads(Append(cbs, cb)) <=> SomeLeads(cbs) \/ Leads(cb)
    BY LeadsAdded
  <1>4. OneLeads(cbs) /\ ~(SomeLeads(cbs) /\ Leads(cb)) => OneLeads(Append(cbs, cb))
    BY LeadsAdded
  <1>5. \A name : Pending(Append(cbs, cb), name) <=> Pending(cbs, name) \/ cb[1] = name
    BY PendingAdded
  <1>6. cb[1] = "disconnected" \/ (Followed(cbs, OfConnection, "disconnected") /\ cb[1] \notin OfConnection)
        => Followed(Append(cbs, cb), OfConnection, "disconnected")
    BY <1>1, FollowedAdded
  <1>7. cb[1] = "connected" \/ (Followed(cbs, OfScan, "connected") /\ cb[1] \notin OfScan)
        => Followed(Append(cbs, cb), OfScan, "connected")
    BY <1>1, FollowedAdded
  <1>8. QED
    BY <1>2, <1>3, <1>4, <1>5, <1>6, <1>7

LEMMA InitCar == Init => CarInv
  BY Nobody DEF Init, CarInv, OneStage, CarInOrder, CarTold

(* A step the car's side has no part in.                                   *)
LEMMA CarQuiet ==
  ASSUME CarInv, UNCHANGED <<carVars, carStack, link>>
  PROVE  CarInv'
  <1>1. UNCHANGED <<g_sle_state, g_sle_has_write_handle, seeking, connecting, carCbs, link>>
    BY DEF carVars, carStack
  <1>2. UNCHANGED <<SomeLeads(carCbs), OneLeads(carCbs), Pending(carCbs, "disconnected"),
                    Pending(carCbs, "connected"), Followed(carCbs, OfConnection, "disconnected"),
                    Followed(carCbs, OfScan, "connected")>>
    BY <1>1
  <1>3. QED
    BY <1>1, <1>2 DEF CarInv, OneStage, CarInOrder, CarTold

(* A scan is asked for behind callbacks that do not lead on.               *)
LEMMA Scans ==
  ASSUME NEW cbs \in Seq(Callbacks), OneLeads(cbs), ~SomeLeads(cbs), StartScan(cbs),
         Followed(cbs, OfConnection, "disconnected"), ~link, ~link', ~connecting, ~connecting',
         g_sle_has_write_handle' => Pending(cbs, "disconnected")
  PROVE  CarInv'
  <1>1. PICK ok \in BOOLEAN : carCbs' = cbs \/ carCbs' = Append(cbs, <<"seek_enable", ok>>)
    BY DEF StartScan, Answered
  <1>2. g_sle_state' = "scanning"
    BY DEF StartScan
  <1>3. OneLeads(carCbs') /\ ~SomeLeads(carCbs') /\ Followed(carCbs', OfConnection, "disconnected")
        /\ (Pending(cbs, "disconnected") => Pending(carCbs', "disconnected"))
    <2>1. CASE carCbs' = cbs
      BY <2>1
    <2>2. CASE carCbs' = Append(cbs, <<"seek_enable", ok>>)
      <3>1. <<"seek_enable", ok>> \in Callbacks /\ ~Leads(<<"seek_enable", ok>>)
        BY CallbackTypes, Kinds
      <3>2. <<"seek_enable", ok>>[1] \notin OfConnection
        BY DEF OfConnection
      <3>3. QED
        BY <2>2, <3>1, <3>2, Queued
    <2>3. QED
      BY <1>1, <2>1, <2>2
  <1>4. QED
    BY <1>2, <1>3 DEF CarInv, OneStage, CarInOrder, CarTold

(* The car asks for the next thing over the link, or for nothing.          *)
LEMMA Asks ==
  ASSUME TypeOK, CarInv, carCbs # <<>>, NEW request \in {"pair", "exchange", "property"},
         NEW ok \in BOOLEAN,
         carCbs' = Tail(carCbs) \/ (link /\ carCbs' = Append(Tail(carCbs), <<request, ok>>)),
         UNCHANGED <<seeking, connecting, link>>
  PROVE  /\ OneLeads(carCbs') /\ (SomeLeads(carCbs') => SomeLeads(carCbs))
         /\ link \/ Followed(carCbs', OfConnection, "disconnected")
         /\ link => Followed(carCbs', OfScan, "connected")
         /\ \A name \in {"disconnected", "connected"} :
              Pending(Tail(carCbs), name) => Pending(carCbs', name)
  <1>1. CASE carCbs' = Tail(carCbs)
    BY <1>1, Took
  <1>2. CASE link /\ carCbs' = Append(Tail(carCbs), <<request, ok>>)
    <2>1. <<request, ok>> \in Callbacks /\ ~Leads(<<request, ok>>)
      BY CallbackTypes, Kinds
    <2>2. <<request, ok>>[1] \notin OfScan
      BY DEF OfScan
    <2>3. Tail(carCbs) \in Seq(Callbacks) /\ OneLeads(Tail(carCbs)) /\ Followed(Tail(carCbs), OfScan, "connected")
          /\ (SomeLeads(Tail(carCbs)) => SomeLeads(carCbs))
      BY <1>2, Took
    <2>4. OneLeads(carCbs') /\ (SomeLeads(carCbs') => SomeLeads(carCbs))
      <3>1. carCbs' = Append(Tail(carCbs), <<request, ok>>)
        BY <1>2
      <3>2. OneLeads(Append(Tail(carCbs), <<request, ok>>))
        <4>1. ASSUME NEW cbs \in Seq(Callbacks), NEW cb \in Callbacks, OneLeads(cbs), ~Leads(cb)
              PROVE  OneLeads(Append(cbs, cb))
          BY <4>1, LeadsAdded
        <4>2. QED
          BY <2>1, <2>3, <4>1
      <3>3. SomeLeads(Append(Tail(carCbs), <<request, ok>>)) => SomeLeads(carCbs)
        <4>1. ASSUME NEW cbs \in Seq(Callbacks), NEW cb \in Callbacks, ~Leads(cb)
              PROVE  SomeLeads(Append(cbs, cb)) => SomeLeads(cbs)
          BY <4>1, LeadsAdded
        <4>2. QED
          BY <2>1, <2>3, <4>1
      <3>4. QED
        BY <3>1, <3>2, <3>3
    <2>5. Followed(carCbs', OfScan, "connected")
      BY <1>2, <2>1, <2>2, <2>3, Queued
    <2>6. \A name \in {"disconnected", "connected"} :
             Pending(Tail(carCbs), name) => Pending(carCbs', name)
      BY <1>2, <2>1, <2>3, PendingAdded
    <2>7. QED
      BY <1>2, <2>4, <2>5, <2>6
  <1>3. QED
    BY <1>1, <1>2

(* The car is to hear that a connection, or the attempt at one, is over.   *)
LEMMA CarLoses ==
  ASSUME TypeOK, CarInv, link \/ connecting, ~link', ~connecting', ~seeking', g_sle_state' = g_sle_state,
         carCbs' = Append(carCbs, <<"disconnected", TRUE>>)
  PROVE  CarInv'
  <1>1. carCbs \in Seq(Callbacks) /\ <<"disconnected", TRUE>> \in Callbacks
    BY CallbackTypes DEF TypeOK
  <1>2. ~SomeLeads(carCbs) /\ OneLeads(carCbs) /\ g_sle_state # "idle"
    BY DEF CarInv, OneStage
  <1>3. OneLeads(carCbs') /\ Followed(carCbs', OfConnection, "disconnected") /\ Pending(carCbs', "disconnected")
    BY <1>1, <1>2, Queued
  <1>4. QED
    BY <1>2, <1>3 DEF CarInv, OneStage, CarInOrder, CarTold

LEMMA NextCar == TypeOK /\ CarInv /\ [Next]_vars => CarInv'
  <1> SUFFICES ASSUME TypeOK, CarInv, [Next]_vars PROVE CarInv'
    OBVIOUS
  <1>s. carCbs \in Seq(Callbacks)
    BY DEF TypeOK
  <1>h. ASSUME NEW name, NEW ok, Step(name, ok)
        PROVE  carCbs # <<>> /\ Head(carCbs) = <<name, ok>> /\ Head(carCbs)[1] = name
    BY <1>h DEF Step
  <1>1. CASE UNCHANGED vars
    BY <1>1, CarQuiet DEF vars
  <1>2. CASE car_sle_client_start
    <2>1. PICK ok \in BOOLEAN :
            carCbs' = carCbs \/ carCbs' = Append(carCbs, <<"enable", ok>>)
      BY <1>2 DEF car_sle_client_start, Answered
    <2>2. g_sle_state' \in {"starting", "error"}
          /\ UNCHANGED <<seeking, connecting, link, g_sle_has_write_handle>>
      BY <1>2 DEF car_sle_client_start
    <2>3. ~SomeLeads(carCbs) /\ ~seeking /\ ~connecting /\ ~link /\ OneLeads(carCbs)
          /\ Followed(carCbs, OfConnection, "disconnected")
      BY <1>2 DEF car_sle_client_start, CarInv, OneStage, CarInOrder
    <2>4. <<"enable", ok>> \in Callbacks /\ <<"enable", ok>>[1] \notin OfConnection
      BY CallbackTypes DEF OfConnection
    <2>5. OneLeads(carCbs') /\ Followed(carCbs', OfConnection, "disconnected")
          /\ (Pending(carCbs, "disconnected") => Pending(carCbs', "disconnected"))
      BY <1>s, <2>1, <2>3, <2>4, Queued
    <2>6. QED
      BY <2>2, <2>3, <2>5 DEF CarInv, OneStage, CarInOrder, CarTold
  <1>3. CASE car_sle_enable_cbk
    <2>1. PICK ok \in BOOLEAN : Step("enable", ok)
      BY <1>3 DEF car_sle_enable_cbk
    <2>2. ~seeking /\ ~connecting /\ ~link /\ g_sle_state # "idle" /\ ~SomeLeads(Tail(carCbs))
          /\ OneLeads(Tail(carCbs)) /\ Tail(carCbs) \in Seq(Callbacks)
          /\ Followed(Tail(carCbs), OfConnection, "disconnected")
          /\ (Pending(carCbs, "disconnected") => Pending(Tail(carCbs), "disconnected"))
      BY <1>h, <2>1, Took, Kinds
    <2>3. UNCHANGED <<g_sle_has_write_handle, connecting, link>>
      BY <1>3 DEF car_sle_enable_cbk
    <2>4. g_sle_has_write_handle => Pending(Tail(carCbs), "disconnected")
      BY <2>2 DEF CarInv, CarTold
    <2>5. CASE StartScan(Tail(carCbs))
      BY <2>2, <2>3, <2>4, <2>5, Scans
    <2>6. CASE g_sle_state' = "error" /\ carCbs' = Tail(carCbs) /\ UNCHANGED seeking
      BY <2>2, <2>3, <2>4, <2>6 DEF CarInv, OneStage, CarInOrder, CarTold
    <2>7. QED
      BY <1>3, <2>5, <2>6 DEF car_sle_enable_cbk
  <1>4. CASE car_sle_seek_enable_cbk
    <2>1. PICK ok \in BOOLEAN : Step("seek_enable", ok) /\ g_sle_state' = IF ok THEN g_sle_state ELSE "error"
      BY <1>4 DEF car_sle_seek_enable_cbk
    <2>2. carCbs' = Tail(carCbs) /\ UNCHANGED <<g_sle_has_write_handle, seeking, connecting, link>>
      BY <1>4 DEF car_sle_seek_enable_cbk
    <2>3. Head(carCbs)[1] \in OfScan /\ Head(carCbs)[1] # "disconnected"
      BY <1>h, <2>1 DEF OfScan
    <2>4. (link => Pending(carCbs', "connected"))
          /\ (Pending(carCbs, "disconnected") => Pending(carCbs', "disconnected"))
          /\ OneLeads(carCbs') /\ (SomeLeads(carCbs') => SomeLeads(carCbs))
          /\ (link \/ Followed(carCbs', OfConnection, "disconnected"))
          /\ (link => Followed(carCbs', OfScan, "connected"))
      BY <1>h, <2>1, <2>2, <2>3, Took
    <2>5. QED
      BY <2>1, <2>2, <2>4 DEF CarInv, OneStage, CarInOrder, CarTold
  <1>5. CASE car_sle_seek_result_cbk
    <2>1. Step("found", TRUE) /\ UNCHANGED <<g_sle_state, g_sle_has_write_handle, connecting, link>>
      BY <1>5 DEF car_sle_seek_result_cbk, carVars
    <2>2. Tail(carCbs) \in Seq(Callbacks) /\ OneLeads(Tail(carCbs))
          /\ (SomeLeads(Tail(carCbs)) => SomeLeads(carCbs))
          /\ (link \/ Followed(Tail(carCbs), OfConnection, "disconnected"))
          /\ (link => Followed(Tail(carCbs), OfScan, "connected"))
          /\ (Pending(carCbs, "disconnected") => Pending(Tail(carCbs), "disconnected"))
          /\ (Pending(carCbs, "connected") => Pending(Tail(carCbs), "connected"))
      <3>1. carCbs # <<>> /\ Head(carCbs)[1] = "found"
        BY <1>h, <2>1
      <3>2. QED
        BY <3>1, Took
    <2>3. PICK out \in Outcome("seek_disable", seeking) :
            /\ Answered("seek_disable", seeking, out, Tail(carCbs))
            /\ seeking' = (seeking /\ out # "done")
      BY <1>5 DEF car_sle_seek_result_cbk
    <2>4. CASE out = "refused"
      <3>1. carCbs' = Tail(carCbs) /\ (seeking' => seeking)
        BY <2>3, <2>4 DEF Answered
      <3>2. QED
        BY <2>1, <2>2, <3>1 DEF CarInv, OneStage, CarInOrder, CarTold
    <2>5. CASE out # "refused"
      <3>1. seeking /\ carCbs' = Append(Tail(carCbs), <<"seek_disable", out = "done">>)
        BY <2>3, <2>5 DEF Answered, Outcome
      <3>2. ~connecting /\ ~link /\ g_sle_state # "idle" /\ ~SomeLeads(carCbs)
        BY <3>1 DEF CarInv, OneStage
      <3>3. <<"seek_disable", out = "done">> \in Callbacks
            /\ <<"seek_disable", out = "done">>[1] \notin OfConnection
        BY CallbackTypes DEF OfConnection
      <3>4. SomeLeads(carCbs') => ~seeking'
        <4>1. CASE out = "done"
          BY <2>3, <4>1
        <4>2. CASE out # "done"
          BY <2>2, <3>1, <3>2, <3>3, <4>2, Queued, Kinds
        <4>3. QED
          BY <4>1, <4>2
      <3>5. OneLeads(carCbs') /\ Followed(carCbs', OfConnection, "disconnected")
            /\ (Pending(carCbs, "disconnected") => Pending(carCbs', "disconnected"))
        BY <2>2, <3>1, <3>2, <3>3, Queued
      <3>6. QED
        BY <2>1, <3>2, <3>4, <3>5 DEF CarInv, OneStage, CarInOrder, CarTold
    <2>6. QED
      BY <2>4, <2>5
  <1>6. CASE car_sle_seek_disable_cbk
    <2>1. PICK ok \in BOOLEAN : Step("seek_disable", ok)
            /\ (ok => g_sle_state' = g_sle_state)
            /\ (~ok => g_sle_state' = "error" /\ UNCHANGED connecting)
      BY <1>6 DEF car_sle_seek_disable_cbk, carVars
    <2>2. carCbs' = Tail(carCbs) /\ UNCHANGED <<g_sle_has_write_handle, seeking, link>>
      BY <1>6 DEF car_sle_seek_disable_cbk, carVars
    <2>3. Head(carCbs)[1] \in OfScan /\ Head(carCbs)[1] # "disconnected" /\ (ok => Leads(Head(carCbs)))
      BY <1>h, <2>1, Kinds DEF OfScan
    <2>4. (link => Pending(carCbs', "connected"))
          /\ (Pending(carCbs, "disconnected") => Pending(carCbs', "disconnected"))
          /\ OneLeads(carCbs') /\ (SomeLeads(carCbs') => SomeLeads(carCbs))
          /\ (link \/ Followed(carCbs', OfConnection, "disconnected"))
          /\ (link => Followed(carCbs', OfScan, "connected"))
          /\ (ok => ~seeking /\ ~connecting /\ ~link /\ g_sle_state # "idle" /\ ~SomeLeads(carCbs'))
      BY <1>h, <2>1, <2>2, <2>3, Took
    <2>5. QED
      BY <2>1, <2>2, <2>4 DEF CarInv, OneStage, CarInOrder, CarTold
  <1>7. ASSUME NEW paired \in BOOLEAN, CarConnected(paired) PROVE CarInv'
    <2>1. Step("connected", paired) /\ g_sle_state' = "connected"
          /\ UNCHANGED <<g_sle_has_write_handle, seeking, connecting, link>>
      BY <1>7 DEF CarConnected
    <2>2. PICK ok \in BOOLEAN :
            carCbs' = Tail(carCbs) \/ (link /\ carCbs' = Append(Tail(carCbs), <<"pair", ok>>))
      BY <1>7 DEF CarConnected, Answered, Outcome
    <2>3. Head(carCbs)[1] \in OfConnection /\ Head(carCbs)[1] # "disconnected"
      BY <1>h, <2>1 DEF OfConnection
    <2>4. carCbs # <<>> /\ (link \/ Pending(Tail(carCbs), "disconnected"))
      BY <1>h, <2>1, <2>3, Took
    <2>5. QED
      BY <2>1, <2>2, <2>4, Asks DEF CarInv, OneStage, CarInOrder, CarTold
  <1>8. CASE CarDisconnected
    <2>1. Step("disconnected", TRUE) /\ StartScan(Tail(carCbs)) /\ ~g_sle_has_write_handle'
          /\ UNCHANGED <<connecting, link>>
      BY <1>8 DEF CarDisconnected
    <2>2. ~connecting /\ ~link /\ ~SomeLeads(Tail(carCbs))
          /\ OneLeads(Tail(carCbs)) /\ Tail(carCbs) \in Seq(Callbacks)
          /\ Followed(Tail(carCbs), OfConnection, "disconnected")
      BY <1>h, <2>1, Took, Kinds
    <2>3. QED
      BY <2>1, <2>2, Scans
  <1>9. CASE car_sle_pair_complete_cbk \/ car_sle_exchange_info_cbk \/ car_sle_find_property_cbk
    <2>1. PICK name \in {"pair", "exchange", "property"}, ok \in BOOLEAN : Step(name, ok)
      BY <1>9 DEF car_sle_pair_complete_cbk, car_sle_exchange_info_cbk, car_sle_find_property_cbk
    <2>2. UNCHANGED <<g_sle_state, seeking, connecting, link>>
      BY <1>9 DEF car_sle_pair_complete_cbk, car_sle_exchange_info_cbk, car_sle_find_property_cbk, carVars
    <2>3. PICK request \in {"pair", "exchange", "property"}, ok2 \in BOOLEAN :
            carCbs' = Tail(carCbs) \/ (link /\ carCbs' = Append(Tail(carCbs), <<request, ok2>>))
      BY <1>9 DEF car_sle_pair_complete_cbk, car_sle_exchange_info_cbk, car_sle_find_property_cbk,
         Answered, Outcome
    <2>4. Head(carCbs)[1] \in OfConnection /\ Head(carCbs)[1] \notin {"connected", "disconnected"}
      BY <1>h, <2>1 DEF OfConnection
    <2>5. carCbs # <<>> /\ (link \/ Pending(Tail(carCbs), "disconnected"))
          /\ (Pending(carCbs, "connected") => Pending(Tail(carCbs), "connected"))
      BY <1>h, <2>1, <2>4, Took
    <2>6. QED
      BY <2>2, <2>3, <2>5, Asks DEF CarInv, OneStage, CarInOrder, CarTold
  <1>10. CASE ServerTask
    BY <1>10, CarQuiet DEF ServerTask, ServerInit, ServerRead, ServerAnnounce, ServerWake
  <1>11. CASE GwCallback
    BY <1>11, CarQuiet DEF GwCallback, GwConnected, GwDisconnected, sle_pair_complete_cbk,
       ssaps_mtu_changed_cbk
  <1>12. CASE Found
    <2>1. carCbs' = Append(carCbs, <<"found", TRUE>>) /\ seeking
          /\ UNCHANGED <<g_sle_state, g_sle_has_write_handle, seeking, connecting, link>>
      BY <1>12 DEF Found, carVars
    <2>2. ~SomeLeads(carCbs) /\ ~link /\ OneLeads(carCbs)
          /\ Followed(carCbs, OfConnection, "disconnected")
      BY <2>1 DEF CarInv, OneStage, CarInOrder
    <2>3. <<"found", TRUE>>[1] \notin OfConnection /\ ~Leads(<<"found", TRUE>>)
      BY Kinds DEF OfConnection
    <2>4. OneLeads(carCbs') /\ ~SomeLeads(carCbs') /\ Followed(carCbs', OfConnection, "disconnected")
          /\ (Pending(carCbs, "disconnected") => Pending(carCbs', "disconnected"))
      BY <1>s, <2>1, <2>2, <2>3, Queued, CallbackTypes
    <2>5. QED
      BY <2>1, <2>2, <2>4 DEF CarInv, OneStage, CarInOrder, CarTold
  <1>13. CASE LinkUp
    <2>1. connecting /\ link' /\ ~connecting' /\ UNCHANGED <<g_sle_state, g_sle_has_write_handle, seeking>>
          /\ carCbs' = Append(carCbs, <<"connected", bonded>>)
      BY <1>13 DEF LinkUp, carVars
    <2>2. ~SomeLeads(carCbs) /\ ~seeking /\ OneLeads(carCbs) /\ g_sle_state # "idle"
      BY <2>1 DEF CarInv, OneStage
    <2>3. <<"connected", bonded>> \in Callbacks /\ ~Leads(<<"connected", bonded>>)
      BY CallbackTypes, Kinds DEF TypeOK
    <2>4. OneLeads(carCbs') /\ ~SomeLeads(carCbs') /\ Followed(carCbs', OfScan, "connected")
          /\ Pending(carCbs', "connected")
      BY <1>s, <2>1, <2>2, <2>3, Queued
    <2>5. QED
      BY <2>1, <2>2, <2>4 DEF CarInv, OneStage, CarInOrder, CarTold
  <1>14. CASE ConnectFails
    <2>1. connecting /\ ~connecting' /\ UNCHANGED <<g_sle_state, g_sle_has_write_handle, seeking, link>>
      BY <1>14 DEF ConnectFails, carVars
    <2>2. ~seeking /\ ~link
      BY <2>1 DEF CarInv, OneStage
    <2>3. CASE carCbs' = carCbs
      BY <2>1, <2>3 DEF CarInv, OneStage, CarInOrder, CarTold
    <2>4. CASE carCbs' = Append(carCbs, <<"disconnected", TRUE>>)
      BY <2>1, <2>2, <2>4, CarLoses DEF TypeOK
    <2>5. QED
      BY <1>14, <2>3, <2>4 DEF ConnectFails
  <1>15. CASE LinkLost
    <2>1. link /\ ~link' /\ UNCHANGED <<g_sle_state, seeking, connecting>>
          /\ carCbs' = Append(carCbs, <<"disconnected", TRUE>>)
      BY <1>15 DEF LinkLost, carVars
    <2>2. ~seeking /\ ~connecting
      BY <2>1 DEF CarInv, OneStage
    <2>3. QED
      BY <2>1, <2>2, CarLoses DEF TypeOK
  <1>16. CASE CarReset
    BY <1>16, Nobody DEF CarReset, CarInv, OneStage, CarInOrder, CarTold
  <1>17. CASE GatewayReset
    <2>1. CASE link
      <3>1. ~link' /\ UNCHANGED <<g_sle_state, seeking, connecting>>
            /\ carCbs' = Append(carCbs, <<"disconnected", TRUE>>)
        BY <1>17, <2>1 DEF GatewayReset, carVars
      <3>2. ~seeking /\ ~connecting
        BY <2>1 DEF CarInv, OneStage
      <3>3. QED
        BY <2>1, <3>1, <3>2, CarLoses DEF TypeOK
    <2>2. CASE ~link
      BY <1>17, <2>2, CarQuiet DEF GatewayReset, carStack, TypeOK
    <2>3. QED
      BY <2>1, <2>2
  <1>18. QED
    BY <1>1, <1>2, <1>3, <1>4, <1>5, <1>6, <1>7, <1>8, <1>9, <1>10, <1>11, <1>12, <1>13, <1>14,
       <1>15, <1>16, <1>17 DEF Next, CarCallback, Upset

LEMMA LinkInvariant == Spec => []LinkInv
  <1>1. Init => LinkInv
    BY InitType, InitGw, InitCar DEF LinkInv
  <1>2. LinkInv /\ [Next]_vars => LinkInv'
    BY NextType, NextGw, NextCar DEF LinkInv
  <1>3. QED
    BY <1>1, <1>2, PTL DEF Spec

(* Neither end believes in its handle without a link or the news of its    *)
(* loss on the way (sle_client.c:337, udp_bridge.c:70).                    *)
THEOREM HandlesCurrent == Spec => []HandlesAreCurrent
  <1>1. LinkInv => HandlesAreCurrent
    BY DEF LinkInv, CarInv, CarTold, GwInv, HandlesAreCurrent
  <1>2. QED
    BY <1>1, LinkInvariant, PTL

(* A car that has heard everything says CONNECTED exactly when it is       *)
(* (sle_client.c:138-151).                                                 *)
THEOREM StateTold == Spec => []StateTellsLink
  <1>1. LinkInv => StateTellsLink
    BY Nobody DEF LinkInv, CarInv, CarTold, StateTellsLink
  <1>2. QED
    BY <1>1, LinkInvariant, PTL
-----------------------------------------------------------------------------
(* The car always has a way on.                                            *)

AboutConnection(cbs) == \E i \in 1..Len(cbs) : cbs[i][1] \in OfConnection

LEMMA NewsTaken ==
  ASSUME NEW cbs \in Seq(Callbacks), cbs # <<>>, NEW record, AllGood(cbs, record)
  PROVE  GoodNews(Head(cbs), record) /\ AllGood(Tail(cbs), record)
  <1>1. \A i \in 1..Len(Tail(cbs)) : i + 1 \in 1..Len(cbs) /\ Tail(cbs)[i] = cbs[i + 1]
    BY Taken
  <1>2. 1 \in 1..Len(cbs) /\ Head(cbs) = cbs[1]
    BY Taken
  <1>3. QED
    BY <1>1, <1>2 DEF AllGood

LEMMA AboutTaken ==
  ASSUME NEW cbs \in Seq(Callbacks), cbs # <<>>, Head(cbs)[1] \notin OfConnection, AboutConnection(cbs)
  PROVE  AboutConnection(Tail(cbs))
  <1>1. \A i \in 1..Len(cbs) : i = 1 \/ (i - 1 \in 1..Len(Tail(cbs)) /\ Tail(cbs)[i - 1] = cbs[i])
    BY Taken
  <1>2. Head(cbs) = cbs[1]
    BY Taken
  <1>3. QED
    BY <1>1, <1>2 DEF AboutConnection

LEMMA NewsAdded ==
  ASSUME NEW cbs \in Seq(Callbacks), NEW cb \in Callbacks
  PROVE  /\ \A record : AllGood(cbs, record) /\ GoodNews(cb, record) => AllGood(Append(cbs, cb), record)
         /\ cb[1] \in OfConnection \/ AboutConnection(cbs) => AboutConnection(Append(cbs, cb))
  <1>1. \A i \in 1..Len(cbs) : Append(cbs, cb)[i] = cbs[i]
    BY Added
  <1>2. Append(cbs, cb)[Len(cbs) + 1] = cb
    BY Added
  <1>3. 1..Len(Append(cbs, cb)) = 1..Len(cbs) \cup {Len(cbs) + 1}
    BY Added
  <1>4. QED
    BY <1>1, <1>2, <1>3 DEF AllGood, AboutConnection

(* A failure on record makes no news bad.                                  *)
LEMMA NewsKept ==
  ASSUME NEW record, NEW more, record \subseteq more, NEW cbs, AllGood(cbs, record)
  PROVE  AllGood(cbs, more)
  BY DEF AllGood, GoodNews

Behind(cbs, name, ok) == Append(cbs, <<name, ok>>)

(* A request that makes no sense leaves nothing; one that does leaves good *)
(* news, and a callback unless a failure of it goes on record.             *)
LEMMA Senseless ==
  ASSUME NEW request, NEW out \in Outcome(request, FALSE), NEW cbs, Answered(request, FALSE, out, cbs)
  PROVE  out = "refused" /\ carCbs' = cbs /\ failed' = failed
  BY DEF Outcome, Answered

LEMMA AnsweredNews ==
  ASSUME NEW request \in {"enable", "seek_enable", "seek_disable", "pair", "exchange", "property"},
         NEW out \in Outcome(request, TRUE), NEW cbs \in Seq(Callbacks),
         AllGood(cbs, failed), Answered(request, TRUE, out, cbs)
  PROVE  /\ AllGood(carCbs', failed') /\ failed \subseteq failed'
         /\ carCbs' = cbs \/ \E ok \in BOOLEAN : carCbs' = Behind(cbs, request, ok)
         /\ request \in failed' \/ (out = "done" /\ carCbs' = Behind(cbs, request, TRUE))
  <1>1. failed \subseteq failed'
    BY DEF Answered
  <1>2. AllGood(cbs, failed')
    BY <1>1, NewsKept
  <1>3. CASE out = "refused"
    BY <1>1, <1>2, <1>3 DEF Answered
  <1>4. CASE out # "refused"
    <2>1. carCbs' = Append(cbs, <<request, out = "done">>)
      BY <1>4 DEF Answered
    <2>2. <<request, out = "done">> \in Callbacks
      BY DEF Callbacks
    <2>3. out # "done" => request \in failed'
      BY <2>1 DEF Answered
    <2>4. GoodNews(<<request, out = "done">>, failed')
      <3>1. <<request, out = "done">>[1] = request /\ request # "connected"
        OBVIOUS
      <3>2. CASE out = "done"
        <4>1. <<request, out = "done">>[2] = TRUE
          BY <3>2
        <4>2. QED
          BY <3>1, <4>1 DEF GoodNews
      <3>3. CASE out # "done"
        BY <2>3, <3>1, <3>3 DEF GoodNews
      <3>4. QED
        BY <3>2, <3>3
    <2>5. AllGood(carCbs', failed')
      BY <1>2, <2>1, <2>2, <2>4, NewsAdded
    <2>6. carCbs' = Behind(cbs, request, out = "done")
          /\ (out = "done" => carCbs' = Behind(cbs, request, TRUE))
      BY <2>1 DEF Behind
    <2>7. (out = "done") \in BOOLEAN
      OBVIOUS
    <2>8. QED
      BY <1>1, <2>1, <2>3, <2>5, <2>6, <2>7
  <1>5. QED
    BY <1>3, <1>4

LEMMA ScansOn ==
  ASSUME NEW cbs \in Seq(Callbacks), AllGood(cbs, failed), StartScan(cbs)
  PROVE  /\ AllGood(carCbs', failed') /\ failed \subseteq failed'
         /\ seeking' \/ "seek_enable" \in failed'
         /\ g_sle_state' = "scanning"
  <1>1. PICK out \in Outcome("seek_enable", TRUE) :
          Answered("seek_enable", TRUE, out, cbs) /\ seeking' = (out = "done")
    BY DEF StartScan
  <1>2. AllGood(carCbs', failed') /\ failed \subseteq failed' /\ ("seek_enable" \in failed' \/ out = "done")
    BY <1>1, AnsweredNews
  <1>3. QED
    BY <1>1, <1>2 DEF StartScan

(* A way on that does not rest on the callback taken is still there.       *)
LEMMA WayKept ==
  ASSUME TypeOK, HasWay, carCbs # <<>>, ~Leads(Head(carCbs)), link => Head(carCbs)[1] \notin OfConnection,
         seeking => seeking', connecting => connecting', UNCHANGED link,
         g_sle_has_write_handle => g_sle_has_write_handle',
         carCbs' = Tail(carCbs) \/ \E cb \in Callbacks : carCbs' = Append(Tail(carCbs), cb)
  PROVE  HasWay'
  <1>1. carCbs \in Seq(Callbacks) /\ Tail(carCbs) \in Seq(Callbacks)
    BY Taken DEF TypeOK
  <1>2. SomeLeads(carCbs) => SomeLeads(Tail(carCbs))
    BY <1>1, LeadsTaken
  <1>3. link /\ AboutConnection(carCbs) => AboutConnection(Tail(carCbs))
    BY <1>1, AboutTaken
  <1>4. SomeLeads(Tail(carCbs)) => SomeLeads(carCbs')
    BY <1>1, LeadsAdded
  <1>5. AboutConnection(Tail(carCbs)) => AboutConnection(carCbs')
    BY <1>1, NewsAdded
  <1>6. QED
    BY <1>2, <1>3, <1>4, <1>5 DEF HasWay, AboutConnection

LEMMA InitWay == Init => WayInv
  BY DEF Init, WayInv, AllGood, NeverStranded

LEMMA WayQuiet ==
  ASSUME WayInv, UNCHANGED <<carVars, carStack, link>>, failed \subseteq failed'
  PROVE  WayInv'
  <1>1. UNCHANGED <<g_sle_state, g_sle_has_write_handle, seeking, connecting, bonded, carCbs, link>>
    BY DEF carVars, carStack
  <1>2. AllGood(carCbs', failed')
    BY <1>1, NewsKept DEF WayInv
  <1>3. HasWay' = HasWay
    BY <1>1 DEF HasWay
  <1>4. QED
    BY <1>1, <1>2, <1>3 DEF WayInv, NeverStranded

(* The car asks, over the link, for what comes after the callback ok has   *)
(* brought; without a link it has another way on.                          *)
LEMMA AsksOn ==
  ASSUME LinkInv, WayInv, carCbs # <<>>, NEW request \in {"pair", "exchange", "property"},
         NEW out \in Outcome(request, link), Answered(request, link, out, Tail(carCbs)),
         Head(carCbs)[1] \in OfConnection,
         UNCHANGED <<seeking, connecting, link, g_sle_has_write_handle>>
  PROVE  /\ AllGood(carCbs', failed') /\ failed \subseteq failed'
         /\ failed' \subseteq {"seek_disable"} => HasWay'
  <1>1. carCbs \in Seq(Callbacks) /\ Tail(carCbs) \in Seq(Callbacks) /\ link \in BOOLEAN
    BY Taken DEF LinkInv, TypeOK
  <1>2. AllGood(Tail(carCbs), failed)
    BY <1>1, NewsTaken DEF WayInv
  <1>3. /\ AllGood(carCbs', failed') /\ failed \subseteq failed'
        /\ carCbs' = Tail(carCbs) \/ \E ok \in BOOLEAN : carCbs' = Behind(Tail(carCbs), request, ok)
        /\ link => request \in failed' \/ carCbs' = Behind(Tail(carCbs), request, TRUE)
    <2>1. request \in {"enable", "seek_enable", "seek_disable", "pair", "exchange", "property"}
      OBVIOUS
    <2>2. ASSUME NEW cbs \in Seq(Callbacks), AllGood(cbs, failed), Answered(request, link, out, cbs)
          PROVE  /\ AllGood(carCbs', failed') /\ failed \subseteq failed'
                 /\ carCbs' = cbs \/ \E ok \in BOOLEAN : carCbs' = Behind(cbs, request, ok)
                 /\ link => request \in failed' \/ carCbs' = Behind(cbs, request, TRUE)
      <3>1. CASE link = TRUE
        <4>1. out \in Outcome(request, TRUE) /\ Answered(request, TRUE, out, cbs)
          BY <2>2, <3>1
        <4>2. QED
          BY <2>1, <2>2, <4>1, AnsweredNews
      <3>2. CASE link = FALSE
        <4>1. out \in Outcome(request, FALSE) /\ Answered(request, FALSE, out, cbs)
          BY <2>2, <3>2
        <4>2. carCbs' = cbs /\ failed' = failed
          BY <4>1, Senseless
        <4>3. QED
          BY <2>2, <3>2, <4>2
      <3>3. QED
        BY <1>1, <3>1, <3>2
    <2>3. QED
      BY <1>1, <1>2, <2>2
  <1>4. ASSUME failed' \subseteq {"seek_disable"} PROVE HasWay'
    <2>1. CASE link
      <3>1. carCbs' = Append(Tail(carCbs), <<request, TRUE>>)
        BY <1>3, <1>4, <2>1 DEF Behind
      <3>2. <<request, TRUE>> \in Callbacks /\ <<request, TRUE>>[1] \in OfConnection
        BY CallbackTypes DEF OfConnection
      <3>3. AboutConnection(carCbs')
        BY <1>1, <3>1, <3>2, NewsAdded
      <3>4. QED
        BY <2>1, <3>3 DEF HasWay, AboutConnection
    <2>2. CASE ~link
      <3>1. HasWay
        BY <1>3, <1>4 DEF WayInv, NeverStranded
      <3>2. ~Leads(Head(carCbs))
        <4>1. Head(carCbs)[1] \notin {"enable", "disconnected", "seek_disable"}
          BY DEF OfConnection
        <4>2. Head(carCbs) # <<"seek_disable", TRUE>>
          <5>1. <<"seek_disable", TRUE>>[1] = "seek_disable"
            OBVIOUS
          <5>2. QED
            BY <4>1, <5>1
        <4>3. QED
          BY <4>1, <4>2 DEF Leads
      <3>3. \A ok \in BOOLEAN : <<request, ok>> \in Callbacks
        BY CallbackTypes
      <3>4. QED
        BY <1>3, <2>2, <3>1, <3>2, <3>3, WayKept DEF LinkInv, Behind
    <2>3. QED
      BY <2>1, <2>2
  <1>5. QED
    BY <1>3, <1>4

LEMMA NextWay == LinkInv /\ WayInv /\ [Next]_vars => WayInv'
  <1> SUFFICES ASSUME LinkInv, WayInv, [Next]_vars PROVE WayInv'
    OBVIOUS
  <1>s. carCbs \in Seq(Callbacks) /\ AllGood(carCbs, failed) /\ TypeOK
    BY DEF LinkInv, WayInv, TypeOK
  <1>w. ASSUME carCbs # <<>>, failed \subseteq {"seek_disable"} PROVE HasWay
    BY <1>w DEF WayInv, NeverStranded
  <1>h. ASSUME NEW name, NEW ok, Step(name, ok)
        PROVE  /\ carCbs # <<>> /\ Head(carCbs) = <<name, ok>> /\ Head(carCbs)[1] = name
               /\ Tail(carCbs) \in Seq(Callbacks) /\ AllGood(Tail(carCbs), failed)
               /\ GoodNews(Head(carCbs), failed)
    <2>1. carCbs # <<>> /\ Head(carCbs) = <<name, ok>> /\ <<name, ok>>[1] = name
      BY <1>h DEF Step
    <2>2. QED
      BY <1>s, <2>1, Taken, NewsTaken
  <1>b. ASSUME NEW name, Step(name, FALSE), name # "connected" PROVE name \in failed
    <2>1. GoodNews(<<name, FALSE>>, failed) /\ <<name, FALSE>>[1] = name /\ <<name, FALSE>>[2] = FALSE
      BY <1>b, <1>h
    <2>2. QED
      BY <1>b, <2>1 DEF GoodNews
  <1>c. ~Step("connected", TRUE)
    <2>1. Step("connected", TRUE) => GoodNews(<<"connected", TRUE>>, failed)
      BY <1>h
    <2>2. <<"connected", TRUE>>[1] = "connected" /\ <<"connected", TRUE>>[2] = TRUE
      OBVIOUS
    <2>3. QED
      BY <2>1, <2>2 DEF GoodNews
  <1>i. carCbs # <<>> \/ seeking \/ connecting \/ link => g_sle_state # "idle"
    BY DEF LinkInv, CarInv, OneStage, WayInv
  <1>1. CASE UNCHANGED vars
    BY <1>1, WayQuiet DEF vars
  <1>2. CASE ServerTask \/ GwCallback
    BY <1>2, WayQuiet DEF ServerTask, ServerInit, ServerRead, ServerAnnounce, ServerWake, GwCallback,
       GwConnected, GwDisconnected, sle_pair_complete_cbk, ssaps_mtu_changed_cbk
  <1>3. CASE car_sle_client_start
    <2>1. PICK out \in Outcome("enable", TRUE) : Answered("enable", TRUE, out, carCbs)
      BY <1>3 DEF car_sle_client_start
    <2>2. AllGood(carCbs', failed') /\ ("enable" \in failed' \/ carCbs' = Behind(carCbs, "enable", TRUE))
      BY <1>s, <2>1, AnsweredNews
    <2>3. g_sle_state' # "idle" /\ (connecting' => ~bonded')
      BY <1>3 DEF car_sle_client_start, WayInv
    <2>4. ASSUME failed' \subseteq {"seek_disable"} PROVE HasWay'
      <3>1. carCbs' = Append(carCbs, <<"enable", TRUE>>)
        BY <2>2, <2>4 DEF Behind
      <3>2. SomeLeads(carCbs')
        BY <1>s, <3>1, LeadsAdded, Kinds, CallbackTypes
      <3>3. QED
        BY <3>2 DEF HasWay
    <2>5. QED
      BY <2>2, <2>3, <2>4 DEF WayInv, NeverStranded
  <1>4. CASE car_sle_enable_cbk
    <2>1. CASE Step("enable", TRUE) /\ StartScan(Tail(carCbs))
      <3>1. AllGood(carCbs', failed') /\ (seeking' \/ "seek_enable" \in failed') /\ g_sle_state' = "scanning"
        BY <1>h, <2>1, ScansOn
      <3>2. UNCHANGED <<connecting, bonded>>
        BY <1>4 DEF car_sle_enable_cbk
      <3>3. QED
        BY <3>1, <3>2 DEF WayInv, NeverStranded, HasWay
    <2>2. CASE Step("enable", FALSE) /\ g_sle_state' = "error" /\ carCbs' = Tail(carCbs) /\ UNCHANGED failed
      <3>1. AllGood(carCbs', failed') /\ "enable" \in failed'
        BY <1>b, <1>h, <2>2
      <3>2. UNCHANGED <<connecting, bonded>>
        BY <1>4 DEF car_sle_enable_cbk
      <3>3. QED
        BY <2>2, <3>1, <3>2 DEF WayInv, NeverStranded
    <2>3. QED
      BY <1>4, <2>1, <2>2 DEF car_sle_enable_cbk
  <1>5. CASE car_sle_seek_enable_cbk
    <2>1. PICK ok \in BOOLEAN : Step("seek_enable", ok) /\ g_sle_state' = IF ok THEN g_sle_state ELSE "error"
      BY <1>5 DEF car_sle_seek_enable_cbk
    <2>2. carCbs' = Tail(carCbs)
          /\ UNCHANGED <<g_sle_has_write_handle, seeking, connecting, bonded, link, failed>>
      BY <1>5 DEF car_sle_seek_enable_cbk
    <2>3. carCbs # <<>> /\ AllGood(carCbs', failed') /\ Head(carCbs)[1] \notin OfConnection
          /\ ~Leads(Head(carCbs))
      <3>1. Head(carCbs) = <<"seek_enable", ok>> /\ Head(carCbs)[1] = "seek_enable" /\ carCbs # <<>>
            /\ AllGood(Tail(carCbs), failed)
        BY <1>h, <2>1
      <3>2. QED
        BY <2>2, <3>1, Kinds DEF OfConnection
    <2>4. g_sle_state' # "idle"
      BY <1>i, <2>1, <2>3
    <2>5. HasWay => HasWay'
      BY <1>s, <2>2, <2>3, WayKept
    <2>6. QED
      BY <1>w, <2>2, <2>3, <2>4, <2>5 DEF WayInv, NeverStranded
  <1>6. CASE car_sle_seek_result_cbk
    <2>1. Step("found", TRUE) /\ UNCHANGED <<g_sle_state, g_sle_has_write_handle, connecting, bonded, link>>
      BY <1>6 DEF car_sle_seek_result_cbk, carVars
    <2>2. PICK out \in Outcome("seek_disable", seeking) :
            /\ Answered("seek_disable", seeking, out, Tail(carCbs))
            /\ seeking' = (seeking /\ out # "done")
      BY <1>6 DEF car_sle_seek_result_cbk
    <2>3. /\ AllGood(carCbs', failed') /\ failed \subseteq failed'
          /\ carCbs' = Tail(carCbs) \/ \E ok \in BOOLEAN : carCbs' = Behind(Tail(carCbs), "seek_disable", ok)
      <3>1. AllGood(Tail(carCbs), failed) /\ Tail(carCbs) \in Seq(Callbacks)
        BY <1>h, <2>1
      <3>2. CASE seeking = TRUE
        <4>1. out \in Outcome("seek_disable", TRUE) /\ Answered("seek_disable", TRUE, out, Tail(carCbs))
          BY <2>2, <3>2
        <4>2. QED
          BY <3>1, <4>1, AnsweredNews
      <3>3. CASE seeking = FALSE
        <4>1. out \in Outcome("seek_disable", FALSE) /\ Answered("seek_disable", FALSE, out, Tail(carCbs))
          BY <2>2, <3>3
        <4>2. QED
          BY <3>1, <4>1, Senseless
      <3>4. QED
        BY <1>s, <3>2, <3>3 DEF TypeOK
    <2>4. carCbs # <<>> /\ Head(carCbs)[1] \notin OfConnection /\ ~Leads(Head(carCbs))
          /\ Tail(carCbs) \in Seq(Callbacks) /\ g_sle_state' # "idle"
      BY <1>h, <1>i, <2>1, Kinds DEF OfConnection
    <2>5. ASSUME HasWay PROVE HasWay'
      <3>1. CASE seeking /\ out = "done"
        <4>1. out # "refused" /\ out = "done"
          BY <3>1
        <4>2. carCbs' = Append(Tail(carCbs), <<"seek_disable", TRUE>>)
          BY <2>2, <3>1, <4>1 DEF Answered
        <4>3. SomeLeads(carCbs')
          BY <2>4, <4>2, LeadsAdded, Kinds, CallbackTypes
        <4>4. QED
          BY <4>3 DEF HasWay
      <3>2. CASE ~(seeking /\ out = "done")
        <4>1. seeking => seeking'
          BY <2>2, <3>2
        <4>2. \A ok \in BOOLEAN : <<"seek_disable", ok>> \in Callbacks
          BY CallbackTypes
        <4>3. carCbs' = Tail(carCbs) \/ \E cb \in Callbacks : carCbs' = Append(Tail(carCbs), cb)
          BY <2>3, <4>2 DEF Behind
        <4>4. QED
          BY <1>s, <2>1, <2>4, <2>5, <4>1, <4>3, WayKept
      <3>3. QED
        BY <3>1, <3>2
    <2>6. QED
      BY <1>w, <2>1, <2>3, <2>4, <2>5 DEF WayInv, NeverStranded
  <1>7. CASE car_sle_seek_disable_cbk
    <2>1. CASE Step("seek_disable", TRUE)
      <3>1. carCbs' = Tail(carCbs) /\ bonded' = FALSE /\ UNCHANGED g_sle_state
            /\ (connecting' = TRUE \/ "connect" \in failed') /\ failed \subseteq failed'
        <4>1. ~Step("seek_disable", FALSE)
          BY <2>1, OneStatus
        <4>2. QED
          BY <1>7, <2>1, <4>1 DEF car_sle_seek_disable_cbk, carVars
      <3>2. AllGood(carCbs', failed') /\ g_sle_state' # "idle"
        BY <1>h, <1>i, <2>1, <3>1, NewsKept
      <3>3. QED
        BY <3>1, <3>2 DEF WayInv, NeverStranded, HasWay
    <2>2. CASE Step("seek_disable", FALSE)
      <3>1. g_sle_state' = "error" /\ carCbs' = Tail(carCbs)
            /\ UNCHANGED <<g_sle_has_write_handle, seeking, connecting, bonded, link, failed>>
        <4>1. ~Step("seek_disable", TRUE)
          BY <2>2, OneStatus
        <4>2. QED
          BY <1>7, <2>2, <4>1 DEF car_sle_seek_disable_cbk
      <3>2. carCbs # <<>> /\ AllGood(carCbs', failed') /\ Head(carCbs)[1] \notin OfConnection
            /\ ~Leads(Head(carCbs))
        BY <1>h, <2>2, <3>1, Kinds DEF OfConnection
      <3>3. HasWay => HasWay'
        BY <1>s, <3>1, <3>2, WayKept
      <3>4. QED
        BY <1>w, <3>1, <3>2, <3>3 DEF WayInv, NeverStranded
    <2>3. QED
      BY <1>7, <2>1, <2>2 DEF car_sle_seek_disable_cbk
  <1>8. ASSUME NEW paired \in BOOLEAN, CarConnected(paired) PROVE WayInv'
    <2>1. Step("connected", paired) /\ g_sle_state' = "connected"
          /\ UNCHANGED <<g_sle_has_write_handle, seeking, connecting, link>>
      BY <1>8 DEF CarConnected
    <2>2. ~paired /\ carCbs # <<>> /\ Head(carCbs)[1] \in OfConnection
      BY <1>c, <1>h, <2>1 DEF OfConnection
    <2>3. PICK out \in Outcome("pair", link) :
            Answered("pair", link, out, Tail(carCbs)) /\ bonded' = (bonded \/ out = "done")
      BY <1>8, <2>2 DEF CarConnected
    <2>4. AllGood(carCbs', failed') /\ (failed' \subseteq {"seek_disable"} => HasWay')
      BY <2>1, <2>2, <2>3, AsksOn
    <2>5. connecting' => ~bonded'
      <3>1. connecting => ~link /\ ~bonded
        BY DEF LinkInv, CarInv, OneStage, WayInv
      <3>2. ~link => out = "refused"
        BY DEF Outcome
      <3>3. QED
        BY <2>1, <2>3, <3>1, <3>2
    <2>6. QED
      BY <2>1, <2>4, <2>5 DEF WayInv, NeverStranded
  <1>9. CASE CarDisconnected
    <2>1. Step("disconnected", TRUE) /\ StartScan(Tail(carCbs)) /\ bonded' = FALSE
      BY <1>9 DEF CarDisconnected
    <2>2. AllGood(carCbs', failed') /\ (seeking' \/ "seek_enable" \in failed') /\ g_sle_state' = "scanning"
      BY <1>h, <2>1, ScansOn
    <2>3. QED
      BY <2>1, <2>2 DEF WayInv, NeverStranded, HasWay
  <1>10. CASE car_sle_pair_complete_cbk \/ car_sle_exchange_info_cbk
    <2>1. PICK name \in {"pair", "exchange"}, ok \in BOOLEAN : Step(name, ok)
            /\ IF ok THEN \E request \in {"exchange", "property"} : \E out \in Outcome(request, link) :
                            Answered(request, link, out, Tail(carCbs))
               ELSE carCbs' = Tail(carCbs) /\ UNCHANGED failed
      <3>1. CASE car_sle_pair_complete_cbk
        <4>1. PICK ok \in BOOLEAN : Step("pair", ok)
                /\ (ok => \E out \in Outcome("exchange", link) :
                            Answered("exchange", link, out, Tail(carCbs)))
                /\ (~ok => carCbs' = Tail(carCbs) /\ UNCHANGED failed)
          BY <3>1 DEF car_sle_pair_complete_cbk
        <4>2. QED
          BY <4>1
      <3>2. CASE car_sle_exchange_info_cbk
        <4>1. PICK ok \in BOOLEAN : Step("exchange", ok)
                /\ (ok => \E out \in Outcome("property", link) :
                            Answered("property", link, out, Tail(carCbs)))
                /\ (~ok => carCbs' = Tail(carCbs) /\ UNCHANGED failed)
          BY <3>2 DEF car_sle_exchange_info_cbk
        <4>2. QED
          BY <4>1
      <3>3. QED
        BY <1>10, <3>1, <3>2
    <2>2. UNCHANGED <<g_sle_state, g_sle_has_write_handle, seeking, connecting, bonded, link>>
      BY <1>10 DEF car_sle_pair_complete_cbk, car_sle_exchange_info_cbk, carVars
    <2>3. carCbs # <<>> /\ Head(carCbs)[1] \in OfConnection /\ g_sle_state' # "idle"
      BY <1>h, <1>i, <2>1, <2>2 DEF OfConnection
    <2>4. AllGood(carCbs', failed') /\ (failed' \subseteq {"seek_disable"} => HasWay')
      <3>1. CASE ok
        BY <2>1, <2>2, <2>3, <3>1, AsksOn
      <3>2. CASE ~ok
        <4>1. Step(name, FALSE) /\ carCbs' = Tail(carCbs) /\ failed' = failed
          BY <2>1, <3>2
        <4>2. QED
          BY <1>b, <1>h, <4>1
      <3>3. QED
        BY <3>1, <3>2
    <2>5. QED
      BY <2>2, <2>3, <2>4 DEF WayInv, NeverStranded
  <1>11. CASE car_sle_find_property_cbk
    <2>1. PICK ok \in BOOLEAN : Step("property", ok)
            /\ g_sle_has_write_handle' = (g_sle_has_write_handle \/ ok)
      BY <1>11 DEF car_sle_find_property_cbk
    <2>2. carCbs' = Tail(carCbs) /\ UNCHANGED <<g_sle_state, seeking, connecting, bonded, link, failed>>
      BY <1>11 DEF car_sle_find_property_cbk
    <2>3. carCbs # <<>> /\ AllGood(carCbs', failed') /\ ~Leads(Head(carCbs)) /\ g_sle_state' # "idle"
          /\ (ok \/ "property" \in failed')
      <3>1. Head(carCbs) = <<"property", ok>> /\ carCbs # <<>> /\ AllGood(Tail(carCbs), failed)
        BY <1>h, <2>1
      <3>2. ok \/ "property" \in failed
        BY <1>b, <2>1
      <3>3. QED
        BY <1>i, <2>2, <3>1, <3>2, Kinds
    <2>4. ASSUME HasWay, ok PROVE HasWay'
      <3>1. CASE link
        BY <2>1, <2>2, <2>4, <3>1 DEF HasWay
      <3>2. CASE ~link
        BY <1>s, <2>1, <2>2, <2>3, <2>4, <3>2, WayKept
      <3>3. QED
        BY <3>1, <3>2
    <2>5. QED
      BY <1>w, <2>2, <2>3, <2>4 DEF WayInv, NeverStranded
  <1>12. CASE Found
    <2>1. seeking /\ carCbs' = Append(carCbs, <<"found", TRUE>>)
          /\ UNCHANGED <<g_sle_state, seeking, connecting, bonded, failed>>
      BY <1>12 DEF Found, carVars
    <2>2. GoodNews(<<"found", TRUE>>, failed)
      BY DEF GoodNews
    <2>3. AllGood(carCbs', failed')
      BY <1>s, <2>1, <2>2, NewsAdded, CallbackTypes
    <2>4. QED
      BY <1>i, <2>1, <2>3 DEF WayInv, NeverStranded, HasWay
  <1>13. CASE LinkUp
    <2>1. connecting /\ link' = TRUE /\ connecting' = FALSE /\ carCbs' = Append(carCbs, <<"connected", bonded>>)
          /\ UNCHANGED <<g_sle_state, bonded, failed>>
      BY <1>13 DEF LinkUp, carVars
    <2>2. bonded = FALSE
      BY <1>s, <2>1 DEF WayInv, TypeOK
    <2>3. <<"connected", FALSE>> \in Callbacks /\ GoodNews(<<"connected", FALSE>>, failed)
          /\ <<"connected", FALSE>>[1] \in OfConnection
      BY CallbackTypes DEF GoodNews, OfConnection
    <2>4. AllGood(carCbs', failed') /\ AboutConnection(carCbs')
      BY <1>s, <2>1, <2>2, <2>3, NewsAdded
    <2>5. QED
      BY <1>i, <2>1, <2>4 DEF WayInv, NeverStranded, HasWay, AboutConnection
  <1>n. ASSUME carCbs' = Append(carCbs, <<"disconnected", TRUE>>), failed \subseteq failed'
        PROVE  AllGood(carCbs', failed') /\ SomeLeads(carCbs')
    <2>1. GoodNews(<<"disconnected", TRUE>>, failed') /\ Leads(<<"disconnected", TRUE>>)
      BY Kinds DEF GoodNews
    <2>2. AllGood(carCbs, failed')
      BY <1>s, <1>n, NewsKept
    <2>3. QED
      BY <1>s, <1>n, <2>1, <2>2, NewsAdded, LeadsAdded, CallbackTypes
  <1>14. CASE ConnectFails
    <2>1. connecting /\ connecting' = FALSE /\ failed' = failed \cup {"connect"} /\ UNCHANGED g_sle_state
          /\ carCbs' \in {carCbs, Append(carCbs, <<"disconnected", TRUE>>)}
      BY <1>14 DEF ConnectFails, carVars
    <2>2. AllGood(carCbs', failed')
      BY <1>n, <1>s, <2>1, NewsKept
    <2>3. QED
      BY <1>i, <2>1, <2>2 DEF WayInv, NeverStranded
  <1>15. CASE LinkLost
    <2>1. link /\ carCbs' = Append(carCbs, <<"disconnected", TRUE>>)
          /\ UNCHANGED <<g_sle_state, connecting, bonded, failed>>
      BY <1>15 DEF LinkLost, carVars
    <2>2. AllGood(carCbs', failed') /\ SomeLeads(carCbs')
      BY <1>n, <2>1
    <2>3. QED
      BY <1>i, <2>1, <2>2 DEF WayInv, NeverStranded, HasWay
  <1>16. CASE CarReset
    <2>1. g_sle_state' = "idle" /\ carCbs' = <<>> /\ connecting' = FALSE
      BY <1>16 DEF CarReset
    <2>2. AllGood(carCbs', failed')
      BY <2>1 DEF AllGood
    <2>3. QED
      BY <2>1, <2>2 DEF WayInv, NeverStranded
  <1>17. CASE GatewayReset
    <2>1. CASE link
      <3>1. carCbs' = Append(carCbs, <<"disconnected", TRUE>>)
            /\ UNCHANGED <<g_sle_state, connecting, bonded, failed>>
        BY <1>17, <2>1 DEF GatewayReset, carVars
      <3>2. AllGood(carCbs', failed') /\ SomeLeads(carCbs')
        BY <1>n, <3>1
      <3>3. QED
        BY <1>i, <2>1, <3>1, <3>2 DEF WayInv, NeverStranded, HasWay
    <2>2. CASE ~link
      BY <1>17, <1>s, <2>2, WayQuiet DEF GatewayReset, carStack, TypeOK
    <2>3. QED
      BY <2>1, <2>2
  <1>18. QED
    BY <1>1, <1>2, <1>3, <1>4, <1>5, <1>6, <1>7, <1>8, <1>9, <1>10, <1>11, <1>12, <1>13, <1>14,
       <1>15, <1>16, <1>17 DEF Next, CarCallback, Upset

(* Only a request other than the stop of a scan can strand the car, which  *)
(* asks for nothing twice: whatever resets, breaks and comes late          *)
(* (sle_client.c:71-207).                                                  *)
THEOREM CarNeverStranded == Spec => []NeverStranded
  <1>1. Init => LinkInv /\ WayInv
    BY InitType, InitGw, InitCar, InitWay DEF LinkInv
  <1>2. LinkInv /\ WayInv /\ [Next]_vars => (LinkInv /\ WayInv)'
    BY NextType, NextGw, NextCar, NextWay DEF LinkInv
  <1>3. WayInv => NeverStranded
    BY DEF WayInv
  <1>4. QED
    BY <1>1, <1>2, <1>3, PTL DEF Spec
=============================================================================
