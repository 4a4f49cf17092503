------------------------ MODULE DashboardBridge_proofs ------------------------
(* Proofs about DashboardBridge, for every queue and history length, every *)
(* number of commands, of requests given up and of waiting connections:    *)
(* typing, what the queue drops, what the page shows, what the bridge      *)
(* reports, and that the chain implements the abstract dispatch queue.     *)
EXTENDS DashboardBridge, TLAPS

-----------------------------------------------------------------------------
(* Sequences.                                                              *)

LEMMA AmongTail ==
  ASSUME NEW S, NEW s \in Seq(S), s # <<>>
  PROVE  /\ Head(s) \in S /\ Head(s) = s[1] /\ Len(s) \in Nat /\ Len(s) >= 1
         /\ Tail(s) \in Seq(S) /\ Len(Tail(s)) = Len(s) - 1
         /\ \A k \in 1..Len(Tail(s)) : Tail(s)[k] = s[k + 1]
         /\ Among(s) = Among(Tail(s)) \cup {Head(s)}
  <1>1. /\ Head(s) \in S /\ Head(s) = s[1] /\ Len(s) \in Nat /\ Len(s) >= 1
        /\ Tail(s) \in Seq(S) /\ Len(Tail(s)) = Len(s) - 1
        /\ \A k \in 1..Len(Tail(s)) : Tail(s)[k] = s[k + 1]
    OBVIOUS
  <1>2. ASSUME NEW c \in Among(s) PROVE c \in Among(Tail(s)) \cup {Head(s)}
    <2>1. PICK k \in 1..Len(s) : c = s[k]
      BY DEF Among
    <2>2. CASE k = 1
      BY <1>1, <2>1, <2>2
    <2>3. CASE k # 1
      <3>1. k - 1 \in 1..Len(Tail(s)) /\ Tail(s)[k - 1] = c
        BY <1>1, <2>1, <2>3
      <3>2. QED
        BY <3>1 DEF Among
    <2>4. QED
      BY <2>2, <2>3
  <1>3. ASSUME NEW c \in Among(Tail(s)) \cup {Head(s)} PROVE c \in Among(s)
    <2>1. CASE c = Head(s)
      BY <1>1, <2>1 DEF Among
    <2>2. CASE c \in Among(Tail(s))
      <3>1. PICK k \in 1..Len(Tail(s)) : c = Tail(s)[k]
        BY <2>2 DEF Among
      <3>2. k + 1 \in 1..Len(s) /\ c = s[k + 1]
        BY <1>1, <3>1
      <3>3. QED
        BY <3>2 DEF Among
    <2>3. QED
      BY <2>1, <2>2
  <1>4. QED
    BY <1>1, <1>2, <1>3

LEMMA AmongAppend ==
  ASSUME NEW S, NEW s \in Seq(S), NEW x \in S
  PROVE  /\ Append(s, x) \in Seq(S) /\ Len(Append(s, x)) = Len(s) + 1 /\ Len(s) \in Nat
         /\ \A k \in 1..Len(s) : Append(s, x)[k] = s[k]
         /\ Append(s, x)[Len(s) + 1] = x
         /\ Among(Append(s, x)) = Among(s) \cup {x}
  <1>1. /\ Append(s, x) \in Seq(S) /\ Len(Append(s, x)) = Len(s) + 1 /\ Len(s) \in Nat
        /\ \A k \in 1..Len(s) : Append(s, x)[k] = s[k]
        /\ Append(s, x)[Len(s) + 1] = x
    OBVIOUS
  <1>2. QED
    BY <1>1 DEF Among

(* list[-n:] is a list of at most n elements, the last ones (server.py:73). *)
LEMMA NewestKeeps ==
  ASSUME NEW S, NEW s \in Seq(S), NEW n \in Nat
  PROVE  /\ Newest(s, n) \in Seq(S) /\ Len(s) \in Nat
         /\ Len(Newest(s, n)) = IF Len(s) <= n THEN Len(s) ELSE n
         /\ \A k \in 1..Len(Newest(s, n)) : Newest(s, n)[k] = s[Len(s) - Len(Newest(s, n)) + k]
  <1>1. CASE Len(s) <= n
    BY <1>1 DEF Newest
  <1>2. CASE ~(Len(s) <= n)
    <2>1. /\ Len(s) \in Nat
          /\ Len(s) - n + 1 \in 1..(Len(s) + 1)
          /\ Len(s) \in (Len(s) - n)..Len(s)
      BY <1>2
    <2>2. /\ SubSeq(s, Len(s) - n + 1, Len(s)) \in Seq(S)
          /\ Len(SubSeq(s, Len(s) - n + 1, Len(s))) = n
          /\ \A k \in 1..n : SubSeq(s, Len(s) - n + 1, Len(s))[k] = s[Len(s) - n + k]
      BY <1>2, <2>1
    <2>3. QED
      BY <1>2, <2>2 DEF Newest
  <1>3. QED
    BY <1>1, <1>2

(* Dropping the first of the last numbers up to n leaves the last ones.    *)
LEMMA LastOfTail ==
  ASSUME NEW S, NEW s \in Seq(S), s # <<>>, NEW n \in Nat, LastOf(s, n)
  PROVE  /\ LastOf(Tail(s), n)
         /\ Head(s) = n - Len(s) + 1
         /\ \A k \in 1..Len(Tail(s)) : Tail(s)[k] > Head(s)
  BY AmongTail DEF LastOf

LEMMA LastOfAppend ==
  ASSUME NEW S, NEW s \in Seq(S), NEW n \in Nat, n + 1 \in S, LastOf(s, n)
  PROVE  LastOf(Append(s, n + 1), n + 1)
  <1>1. ASSUME NEW k \in 1..(Len(s) + 1) PROVE Append(s, n + 1)[k] = n - Len(s) + k
    <2>1. CASE k \in 1..Len(s)
      BY <2>1, AmongAppend DEF LastOf
    <2>2. CASE k = Len(s) + 1
      BY <2>2, AmongAppend
    <2>3. QED
      BY <2>1, <2>2, AmongAppend
  <1>2. QED
    BY <1>1, AmongAppend DEF LastOf

LEMMA LastOfNewest ==
  ASSUME NEW S, NEW s \in Seq(S), NEW n \in Nat, NEW m \in Nat, LastOf(s, n)
  PROVE  LastOf(Newest(s, m), n)
  BY NewestKeeps DEF LastOf

(* The members of such a list are an interval.                             *)
LEMMA LastOfAmong ==
  ASSUME NEW S, NEW s \in Seq(S), NEW n \in Nat, LastOf(s, n)
  PROVE  Among(s) = (n - Len(s) + 1)..n
  <1>1. Len(s) \in Nat
    OBVIOUS
  <1>2. ASSUME NEW c \in Among(s) PROVE c \in (n - Len(s) + 1)..n
    BY <1>1 DEF Among, LastOf
  <1>3. ASSUME NEW c \in (n - Len(s) + 1)..n PROVE c \in Among(s)
    <2>1. c - (n - Len(s)) \in 1..Len(s)
      BY <1>1 DEF LastOf
    <2>2. s[c - (n - Len(s))] = c
      BY <1>1, <2>1 DEF LastOf
    <2>3. QED
      BY <2>1, <2>2 DEF Among
  <1>4. QED
    BY <1>2, <1>3

-----------------------------------------------------------------------------
(* Typing.                                                                 *)

LEMMA InitType == Init => TypeOK
  BY BridgeAssumption DEF Init, TypeOK, Ids

LEMMA AddType == TypeOK /\ StoreInv /\ AddCommand => TypeOK'
  <1> SUFFICES ASSUME TypeOK, StoreInv, AddCommand PROVE TypeOK'
    OBVIOUS
  <1> USE BridgeAssumption DEF TypeOK, bridgeVars, lateVars, carVars
  <1>1. CASE AddHistory
    <2>1. submitted + 1 \in Ids
      BY <1>1 DEF AddHistory, Ids
    <2>2. Append(commands, submitted + 1) \in Seq(Ids)
      BY <2>1
    <2>3. commands' \in Seq(Ids) /\ Len(commands') <= HistoryLimit
      <3>1. /\ Newest(Append(commands, submitted + 1), HistoryLimit) \in Seq(Ids)
            /\ Len(Newest(Append(commands, submitted + 1), HistoryLimit)) <= HistoryLimit
        <4> HIDE DEF TypeOK
        <4>1. PICK s \in Seq(Ids) : s = Append(commands, submitted + 1)
          BY <2>2
        <4>2. Newest(s, HistoryLimit) \in Seq(Ids) /\ Len(Newest(s, HistoryLimit)) <= HistoryLimit
          BY NewestKeeps
        <4>3. QED
          BY <4>1, <4>2
      <3>2. QED
        BY <1>1, <3>1 DEF AddHistory
    <2>4. QED
      BY <1>1, <2>3 DEF AddHistory
  <1>2. CASE AddPending
    <2>1. submitted + 1 \in Ids
      BY <1>2 DEF AddPending, StoreInv, Ids
    <2>2. /\ pending_commands' \in Seq(Ids)
          /\ Len(pending_commands') <= PendingLimit + 1
      BY <1>2, <2>1, AmongAppend DEF AddPending, StoreInv
    <2>3. QED
      BY <1>2, <2>1, <2>2 DEF AddPending, Ids
  <1>3. CASE AddSlice
    <2>1. slice' \in Seq(Ids) /\ Len(slice') <= PendingLimit
      BY <1>3, NewestKeeps DEF AddSlice
    <2>2. QED
      BY <1>3, <2>1 DEF AddSlice
  <1>4. CASE AddStore
    BY <1>4 DEF AddStore
  <1>5. QED
    BY <1>1, <1>2, <1>3, <1>4 DEF AddCommand

LEMMA TakeType == TypeOK /\ (NextCommand \/ LateNextCommand) => TypeOK'
  <1> SUFFICES ASSUME TypeOK, NextCommand \/ LateNextCommand PROVE TypeOK'
    OBVIOUS
  <1> USE BridgeAssumption DEF TypeOK, bridgeVars, lateVars, carVars, Ids
  <1>1. pending_commands # <<>> => /\ Head(pending_commands) \in Ids
                                  /\ Tail(pending_commands) \in Seq(Ids)
                                  /\ Len(Tail(pending_commands)) <= PendingLimit + 1
    BY AmongTail
  <1>2. CASE NextCommand
    <2>1. /\ pending_commands' \in Seq(Ids) /\ Len(pending_commands') <= PendingLimit + 1
          /\ held' \in 0..MaxCommands
          /\ popped' \subseteq Ids
      <3>1. CASE pending_commands = <<>>
        <4>1. held' = 0 /\ pending_commands' = pending_commands /\ popped' = popped
          <5> HIDE DEF TypeOK
          <5>1. QED
            BY <1>2, <3>1 DEF NextCommand
        <4>2. QED
          BY <4>1
      <3>2. CASE pending_commands # <<>>
        <4>1. /\ held' = Head(pending_commands)
              /\ pending_commands' = Tail(pending_commands)
              /\ popped' = popped \cup {Head(pending_commands)}
          <5> HIDE DEF TypeOK
          <5>1. QED
            BY <1>2, <3>2 DEF NextCommand
        <4>2. \A c \in Ids : c \in 0..MaxCommands
          OBVIOUS
        <4>3. QED
          <5> HIDE DEF Ids
          <5>1. held' \in 0..MaxCommands /\ popped' \subseteq Ids
            BY <1>1, <3>2, <4>1, <4>2
          <5>2. QED
            BY <1>1, <3>2, <4>1, <5>1
      <3>3. QED
        BY <3>1, <3>2
    <2>2. QED
      BY <1>2, <2>1 DEF NextCommand
  <1>3. CASE LateNextCommand
    <2>1. /\ pending_commands' \in Seq(Ids) /\ Len(pending_commands') <= PendingLimit + 1
          /\ orphans' \subseteq Ids
          /\ popped' \subseteq Ids
      BY <1>1, <1>3 DEF LateNextCommand
    <2>2. late' \in 0..MaxLate
      BY <1>3 DEF LateNextCommand
    <2>3. QED
      BY <1>3, <2>1, <2>2 DEF LateNextCommand
  <1>4. QED
    BY <1>2, <1>3

LEMMA NextType == TypeOK /\ StoreInv /\ WayInv /\ ForwardInv /\ [Next]_vars => TypeOK'
  <1> SUFFICES ASSUME TypeOK, StoreInv, WayInv, ForwardInv, [Next]_vars PROVE TypeOK'
    OBVIOUS
  <1> USE BridgeAssumption DEF storeVars, bridgeVars, lateVars, carVars
  <1>1. CASE UNCHANGED vars
    BY <1>1 DEF TypeOK, vars
  <1>2. CASE AddCommand
    BY <1>2, AddType
  <1>3. CASE NextCommand \/ LateNextCommand
    BY <1>3, TakeType
  <1>4. ASSUME NEW c \in Ids, OrphanLost(c) PROVE TypeOK'
    BY <1>4 DEF OrphanLost, TypeOK
  <1>5. CASE BridgeStart \/ PollDashboard \/ GiveUpAsking \/ BridgeEnds
    <2>1. CASE BridgeStart
      BY <2>1 DEF BridgeStart, TypeOK
    <2>2. CASE PollDashboard
      BY <2>2 DEF PollDashboard, TypeOK
    <2>3. CASE GiveUpAsking
      BY <2>3 DEF GiveUpAsking, TypeOK
    <2>4. CASE BridgeEnds
      BY <2>4 DEF BridgeEnds, TypeOK
    <2>5. QED
      BY <1>5, <2>1, <2>2, <2>3, <2>4
  <1>6. CASE AnswerRead \/ AnswerLost \/ PostFails \/ GiveUpPost
    <2>1. CASE AnswerRead
      BY <2>1 DEF AnswerRead, TypeOK
    <2>2. CASE AnswerLost
      BY <2>2 DEF AnswerLost, TypeOK
    <2>3. CASE PostFails
      BY <2>3 DEF PostFails, TypeOK
    <2>4. CASE GiveUpPost
      BY <2>4 DEF GiveUpPost, TypeOK
    <2>5. QED
      BY <1>6, <2>1, <2>2, <2>3, <2>4
  <1>7. CASE PostArrives
    <2>1. held \in Ids
      BY <1>7 DEF PostArrives, ForwardInv
    <2>2. QED
      BY <1>7, <2>1 DEF PostArrives, TypeOK
  <1>8. CASE CarReplies
    BY <1>8 DEF CarReplies, ForwardInv, TypeOK
  <1>9. ASSUME NEW outcome \in {"asked", "stop", "failed", "missed"}, CarServe(outcome) PROVE TypeOK'
    <2>1. Head(backlog) \in Ids /\ Tail(backlog) \in Seq(Ids)
      BY <1>9 DEF CarServe, TypeOK
    <2>2. QED
      BY <1>9, <2>1 DEF CarServe, TypeOK
  <1>10. QED
    BY <1>1, <1>2, <1>3, <1>4, <1>5, <1>6, <1>7, <1>8, <1>9 DEF Next, BridgeOnce

-----------------------------------------------------------------------------
(* The queue and the history of the store.                                 *)

storeSlots == <<commands, pending_commands, adding, slice, submitted, popped>>

Pops ==
  /\ pending_commands # <<>>
  /\ pending_commands' = Tail(pending_commands)
  /\ popped' = popped \cup {Head(pending_commands)}

(* next_command takes the first pending command or nothing, in whichever   *)
(* thread, and only while the lock is free (server.py:76-80).              *)
LEMMA TakeIsPop ==
  ASSUME NextCommand \/ LateNextCommand
  PROVE  /\ adding = "no"
         /\ UNCHANGED <<commands, adding, slice, submitted, carVars, forwarded>>
         /\ Pops \/ (pending_commands = <<>> /\ UNCHANGED <<pending_commands, popped>>)
  <1>1. CASE NextCommand
    BY <1>1 DEF NextCommand, Pops
  <1>2. CASE LateNextCommand
    BY <1>2 DEF LateNextCommand, Pops
  <1>3. QED
    BY <1>1, <1>2

(* Only these steps touch the store.                                       *)
LEMMA StoreSteps ==
  ASSUME [Next]_vars
  PROVE  AddCommand \/ NextCommand \/ LateNextCommand \/ UNCHANGED storeSlots
  BY DEF Next, BridgeOnce, OrphanLost, BridgeStart, PollDashboard, GiveUpAsking, BridgeEnds, AnswerRead,
         AnswerLost, PostArrives, PostFails, CarReplies, GiveUpPost, CarServe, vars, storeVars, storeSlots

LEMMA InitStore == Init => StoreInv /\ HistoryInv
  BY BridgeAssumption DEF Init, StoreInv, HistoryInv, LastOf, NewestKept, Dropped, Newly

LEMMA PendingIs ==
  ASSUME TypeOK, StoreInv
  PROVE  /\ Len(pending_commands) \in Nat /\ submitted \in Nat
         /\ Len(pending_commands) <= submitted
         /\ Pending = (submitted - Len(pending_commands) + 1)..submitted
  <1>1. submitted \in Nat /\ pending_commands \in Seq(Ids)
    BY BridgeAssumption DEF TypeOK
  <1>2. LastOf(pending_commands, submitted)
    BY DEF StoreInv
  <1>3. QED
    BY <1>1, <1>2, LastOfAmong DEF Pending, LastOf

LEMMA StoreKept == TypeOK /\ StoreInv /\ [Next]_vars => StoreInv'
  <1> SUFFICES ASSUME TypeOK, StoreInv, [Next]_vars PROVE StoreInv'
    OBVIOUS
  <1> USE BridgeAssumption
  <1>t. /\ submitted \in Nat /\ submitted <= MaxCommands /\ PendingLimit \in Nat
        /\ pending_commands \in Seq(Ids) /\ Len(pending_commands) \in Nat
        /\ slice \in Seq(Ids)
    BY DEF TypeOK
  <1>l. LastOf(pending_commands, submitted) /\ Len(pending_commands) <= submitted
    BY DEF StoreInv, LastOf
  <1>1. CASE UNCHANGED storeSlots
    BY <1>1 DEF StoreInv, NewestKept, Dropped, Pending, Among, storeSlots
  <1>2. CASE AddHistory
    BY <1>2 DEF AddHistory, StoreInv, NewestKept, Dropped, Pending, Among
  <1>3. CASE AddPending
    <2>1. submitted + 1 \in Ids /\ Len(pending_commands) <= PendingLimit
      BY <1>3, <1>t DEF AddPending, StoreInv, Ids
    <2>2. /\ LastOf(pending_commands', submitted')
          /\ Len(pending_commands') = Len(pending_commands) + 1
          /\ Pending' = Pending \cup {submitted + 1}
      BY <1>3, <1>t, <1>l, <2>1, LastOfAppend, AmongAppend DEF AddPending, Pending
    <2>3. popped' \subseteq 1..(submitted' - Len(pending_commands'))
      BY <1>3, <1>t, <2>2 DEF AddPending, StoreInv
    <2>4. NewestKept'
      <3> SUFFICES ASSUME NEW c \in Dropped' PROVE c + PendingLimit <= submitted'
        BY DEF NewestKept
      <3>1. c \in Dropped
        BY <1>3, <1>t, <2>2 DEF AddPending, Dropped
      <3>2. QED
        BY <1>3, <1>t, <3>1 DEF AddPending, StoreInv, NewestKept, Dropped
    <2>5. QED
      BY <1>3, <2>2, <2>3, <2>4 DEF AddPending, StoreInv
  <1>4. CASE AddSlice
    BY <1>4 DEF AddSlice, StoreInv, NewestKept, Dropped, Pending, Among
  <1>5. CASE AddStore
    <2>1. pending_commands' = Newest(pending_commands, PendingLimit)
      BY <1>5 DEF AddStore, StoreInv
    <2>2. /\ LastOf(pending_commands', submitted)
          /\ Len(pending_commands') = IF Len(pending_commands) <= PendingLimit
                                      THEN Len(pending_commands) ELSE PendingLimit
          /\ pending_commands' \in Seq(Ids)
      BY <1>t, <1>l, <2>1, LastOfNewest, NewestKeeps
    <2>3. popped' \subseteq 1..(submitted' - Len(pending_commands'))
      BY <1>5, <1>t, <2>2 DEF AddStore, StoreInv
    <2>4. NewestKept'
      <3> SUFFICES ASSUME NEW c \in Dropped' PROVE c + PendingLimit <= submitted'
        BY DEF NewestKept
      <3>1. c \in 1..submitted /\ c \notin popped /\ c \notin Pending' /\ submitted' = submitted
        BY <1>5 DEF AddStore, Dropped
      <3>2. CASE c \in Dropped
        BY <3>1, <3>2 DEF StoreInv, NewestKept
      <3>3. CASE c \in Pending
        <4>1. Pending' = (submitted - Len(pending_commands') + 1)..submitted
          BY <1>t, <2>2, LastOfAmong DEF Pending
        <4>2. Pending = (submitted - Len(pending_commands) + 1)..submitted
          BY PendingIs
        <4>3. QED
          BY <1>t, <2>2, <3>1, <3>3, <4>1, <4>2
      <3>4. QED
        BY <3>1, <3>2, <3>3 DEF Dropped
    <2>5. Len(pending_commands') <= PendingLimit
      BY <1>t, <2>2
    <2>6. QED
      BY <1>5, <2>2, <2>3, <2>4, <2>5 DEF AddStore, StoreInv
  <1>6. CASE NextCommand \/ LateNextCommand
    <2>1. adding = "no" /\ UNCHANGED <<adding, slice, submitted>>
      BY <1>6, TakeIsPop
    <2>2. CASE UNCHANGED <<pending_commands, popped>>
      BY <2>1, <2>2 DEF StoreInv, NewestKept, Dropped, Pending, Among
    <2>3. CASE Pops
      <3>1. /\ LastOf(pending_commands', submitted)
            /\ Head(pending_commands) = submitted - Len(pending_commands) + 1
            /\ Len(pending_commands') = Len(pending_commands) - 1
            /\ Pending = Pending' \cup {Head(pending_commands)}
        BY <1>t, <1>l, <2>3, LastOfTail, AmongTail DEF Pops, Pending
      <3>2. popped' \subseteq 1..(submitted' - Len(pending_commands'))
        <4>1. popped \subseteq 1..(submitted - Len(pending_commands))
          BY DEF StoreInv
        <4>2. Head(pending_commands) \in 1..(submitted - Len(pending_commands) + 1)
          BY <1>t, <1>l, <3>1
        <4>3. popped' = popped \cup {Head(pending_commands)}
          BY <2>3 DEF Pops
        <4>4. submitted' - Len(pending_commands') = submitted - Len(pending_commands) + 1
          BY <1>t, <2>1, <3>1
        <4>5. \A n \in Int : 1..n \subseteq 1..(n + 1)
          OBVIOUS
        <4>6. submitted - Len(pending_commands) \in Int
          BY <1>t
        <4>7. QED
          BY <4>1, <4>2, <4>3, <4>4, <4>5, <4>6
      <3>3. NewestKept'
        BY <2>1, <2>3, <3>1 DEF Pops, StoreInv, NewestKept, Dropped
      <3>4. QED
        BY <1>t, <2>1, <3>1, <3>2, <3>3 DEF StoreInv
    <2>4. QED
      BY <1>6, <2>2, <2>3, TakeIsPop
  <1>7. QED
    BY <1>1, <1>2, <1>3, <1>4, <1>5, <1>6, StoreSteps DEF AddCommand

LEMMA HistoryKept == TypeOK /\ StoreInv /\ HistoryInv /\ [Next]_vars => HistoryInv'
  <1> SUFFICES ASSUME TypeOK, StoreInv, HistoryInv, [Next]_vars PROVE HistoryInv'
    OBVIOUS
  <1> USE BridgeAssumption
  <1>t. submitted \in Nat /\ commands \in Seq(Ids) /\ Len(commands) \in Nat /\ HistoryLimit \in Nat
    BY DEF TypeOK
  <1>1. CASE AddHistory
    <2>1. /\ LastOf(commands, submitted) /\ submitted + 1 \in Ids
          /\ Len(commands) = IF submitted <= HistoryLimit THEN submitted ELSE HistoryLimit
      BY <1>1, <1>t DEF AddHistory, HistoryInv, Newly, Ids
    <2>2. PICK s \in Seq(Ids) : s = Append(commands, submitted + 1)
      BY <1>t, <2>1, AmongAppend
    <2>3. LastOf(s, submitted + 1) /\ Len(s) = Len(commands) + 1
      BY <1>t, <2>1, <2>2, LastOfAppend, AmongAppend
    <2>4. /\ LastOf(Newest(s, HistoryLimit), submitted + 1)
          /\ Len(Newest(s, HistoryLimit)) = IF Len(s) <= HistoryLimit THEN Len(s) ELSE HistoryLimit
      BY <1>t, <2>3, LastOfNewest, NewestKeeps
    <2>5. Newly' = submitted + 1 /\ commands' = Newest(s, HistoryLimit)
      BY <1>1, <2>2 DEF AddHistory, Newly
    <2>6. QED
      BY <1>t, <2>1, <2>3, <2>4, <2>5 DEF HistoryInv
  <1>2. CASE AddPending \/ AddSlice \/ AddStore
    <2>1. Newly' = Newly /\ commands' = commands
      BY <1>2 DEF AddPending, AddSlice, AddStore, Newly
    <2>2. QED
      BY <2>1 DEF HistoryInv
  <1>3. CASE NextCommand \/ LateNextCommand
    BY <1>3, TakeIsPop DEF HistoryInv, Newly
  <1>4. CASE UNCHANGED storeSlots
    BY <1>4 DEF HistoryInv, Newly, storeSlots
  <1>5. QED
    BY <1>1, <1>2, <1>3, <1>4, StoreSteps DEF AddCommand

-----------------------------------------------------------------------------
(* On the way to the car.                                                  *)

LEMMA InitWay == Init => WayInv /\ ForwardInv
  BY DEF Init, WayInv, ForwardInv, ForwardedIsTakenUp, OnTheWay, InHand, Among

(* Most steps only take something off the way, if anything.                *)
LEMMA WayShrinks ==
  ASSUME WayInv, UNCHANGED <<popped, applied, backlog>>, orphans' \subseteq orphans, InHand' \subseteq InHand
  PROVE  WayInv'
  <1>1. Among(backlog)' = Among(backlog)
    BY DEF Among
  <1>2. OnTheWay' \subseteq OnTheWay
    BY <1>1 DEF OnTheWay
  <1>3. QED
    BY <1>1, <1>2 DEF WayInv

(* What next_command returns is newer than all it has returned before.     *)
LEMMA PopIsNew ==
  ASSUME TypeOK, StoreInv, Pops
  PROVE  /\ Head(pending_commands) \in Ids
         /\ \A c \in popped : c < Head(pending_commands)
  <1>1. pending_commands \in Seq(Ids) /\ submitted \in Nat /\ Len(pending_commands) \in Nat
    BY BridgeAssumption DEF TypeOK
  <1>2. LastOf(pending_commands, submitted) /\ popped \subseteq 1..(submitted - Len(pending_commands))
    BY DEF StoreInv
  <1>3. Head(pending_commands) = submitted - Len(pending_commands) + 1
    BY <1>1, <1>2, LastOfTail DEF Pops
  <1>4. QED
    BY <1>1, <1>2, <1>3 DEF Pops

LEMMA WayTypes ==
  ASSUME TypeOK
  PROVE  /\ backlog \in Seq(Ids) /\ Len(backlog) \in Nat
         /\ \A k \in 1..Len(backlog) : backlog[k] \in Ids
         /\ \A c \in Ids : c \in Nat
  <1>1. backlog \in Seq(Ids)
    BY DEF TypeOK
  <1>2. \A c \in Ids : c \in Nat
    BY BridgeAssumption DEF Ids
  <1>3. QED
    BY <1>1, <1>2

LEMMA TakeWay ==
  ASSUME TypeOK, StoreInv, WayInv, NextCommand \/ LateNextCommand
  PROVE  WayInv'
  <1> DEFINE h == Head(pending_commands)
  <1>1. UNCHANGED <<backlog, applied>> /\ Among(backlog)' = Among(backlog)
    BY TakeIsPop DEF carVars, Among
  <1>2. CASE UNCHANGED popped /\ pending_commands = <<>>
    <2>1. orphans' \subseteq orphans /\ InHand' \subseteq InHand
      BY <1>2 DEF NextCommand, LateNextCommand, lateVars, bridgeVars, InHand
    <2>2. QED
      BY <1>1, <1>2, <2>1, WayShrinks
  <1>3. CASE Pops
    <2>1. /\ h \in Ids /\ popped' = popped \cup {h}
          /\ \A c \in popped : c < h
          /\ h \notin popped
      BY <1>3, PopIsNew, WayTypes DEF Pops
    <2>2. /\ orphans \cup Among(backlog) \subseteq popped
          /\ InHand \subseteq popped
          /\ \A c \in Ids : applied[c] # "none" => c \in popped
      BY DEF WayInv, OnTheWay
    <2>3. applied[h] = "none"
      BY <2>1, <2>2
    <2>4. \/ InHand' = {h} /\ orphans' = orphans
          \/ InHand' = InHand /\ orphans' = orphans \cup {h}
      <3>1. CASE NextCommand
        <4>1. h # 0
          BY <2>1 DEF Ids
        <4>2. bridge' = "answered" /\ held' = h /\ orphans' = orphans
          BY <1>3, <3>1 DEF NextCommand, Pops, lateVars
        <4>3. QED
          BY <4>1, <4>2 DEF InHand
      <3>2. CASE LateNextCommand
        BY <1>3, <3>2 DEF LateNextCommand, Pops, bridgeVars, InHand
      <3>3. QED
        BY <3>1, <3>2
    <2>5. OnTheWay' \subseteq OnTheWay \cup {h}
      BY <1>1, <2>4 DEF OnTheWay
    <2>6. OnTheWay' \subseteq popped' /\ \A c \in OnTheWay' : applied'[c] = "none"
      BY <1>1, <2>1, <2>3, <2>5 DEF WayInv
    <2>7. \A c \in Ids : applied'[c] # "none" => c \in popped'
      BY <1>1, <2>1, <2>2
    <2>8. orphans' \cap (Among(backlog)' \cup InHand') = {}
      BY <1>1, <2>1, <2>2, <2>4 DEF WayInv
    <2>9. \A c \in InHand' : \A k \in 1..Len(backlog') : backlog'[k] < c
      <3>1. \A k \in 1..Len(backlog) : backlog[k] \in popped
        BY <2>2 DEF Among
      <3>2. QED
        BY <1>1, <2>1, <2>4, <3>1 DEF WayInv
    <2>10. \A c, d \in Ids : applied'[c] # "none" /\ d \in Among(backlog)' \cup InHand' => c < d
      BY <1>1, <2>1, <2>2, <2>4 DEF WayInv
    <2>11. QED
      BY <1>1, <2>6, <2>7, <2>8, <2>9, <2>10 DEF WayInv
  <1>4. QED
    BY <1>2, <1>3, TakeIsPop

LEMMA PostWay ==
  ASSUME TypeOK, WayInv, ForwardInv, PostArrives
  PROVE  WayInv'
  <1>1. /\ held \in Ids /\ InHand = {held} /\ InHand' = {}
        /\ backlog' = Append(backlog, held)
        /\ UNCHANGED <<popped, applied, orphans>>
    BY DEF PostArrives, ForwardInv, InHand, Ids, lateVars
  <1>2. /\ Among(backlog)' = Among(backlog) \cup {held}
        /\ Len(backlog') = Len(backlog) + 1 /\ Len(backlog) \in Nat
        /\ \A k \in 1..Len(backlog) : backlog'[k] = backlog[k]
        /\ backlog'[Len(backlog) + 1] = held
    BY <1>1, WayTypes, AmongAppend DEF Among
  <1>3. OnTheWay' = OnTheWay
    BY <1>1, <1>2 DEF OnTheWay
  <1>4. \A i, j \in 1..Len(backlog') : i < j => backlog'[i] < backlog'[j]
    <2> SUFFICES ASSUME NEW i \in 1..Len(backlog'), NEW j \in 1..Len(backlog'), i < j
                 PROVE  backlog'[i] < backlog'[j]
      OBVIOUS
    <2>1. CASE j \in 1..Len(backlog)
      BY <1>2, <2>1 DEF WayInv
    <2>2. CASE j = Len(backlog) + 1
      BY <1>1, <1>2, <2>2 DEF WayInv
    <2>3. QED
      BY <1>2, <2>1, <2>2
  <1>5. QED
    BY <1>1, <1>2, <1>3, <1>4 DEF WayInv

(* The request the car serves is the oldest of those on their way to it.   *)
LEMMA BacklogHead ==
  ASSUME TypeOK, WayInv, backlog # <<>>, backlog' = Tail(backlog)
  PROVE  /\ Head(backlog) \in Ids /\ Head(backlog) \in Among(backlog)
         /\ Head(backlog) = backlog[1] /\ Len(backlog) >= 1
         /\ Len(backlog') = Len(backlog) - 1
         /\ \A k \in 1..Len(backlog') : backlog'[k] = backlog[k + 1]
         /\ Among(backlog) = Among(backlog)' \cup {Head(backlog)}
         /\ \A c \in Among(backlog)' \cup InHand : Head(backlog) < c
  <1> DEFINE h == Head(backlog)
  <1>2. /\ h \in Ids /\ h = backlog[1] /\ Len(backlog) >= 1
        /\ Len(backlog') = Len(backlog) - 1
        /\ \A k \in 1..Len(backlog') : backlog'[k] = backlog[k + 1]
        /\ Among(backlog) = Among(backlog)' \cup {h}
    <2>1. PICK t \in Seq(Ids) : t = backlog
      BY WayTypes
    <2>2. Among(t) = Among(Tail(t)) \cup {Head(t)}
      BY <2>1, AmongTail
    <2>3. Among(backlog)' = Among(Tail(t))
      BY <2>1 DEF Among
    <2>4. /\ Head(t) \in Ids /\ Head(t) = t[1] /\ Len(t) >= 1
          /\ Len(Tail(t)) = Len(t) - 1
          /\ \A k \in 1..Len(Tail(t)) : Tail(t)[k] = t[k + 1]
      BY <2>1, AmongTail
    <2>5. QED
      BY <2>1, <2>2, <2>3, <2>4
  <1>3. \A k \in 1..Len(backlog') : h < backlog'[k]
    BY <1>2, WayTypes DEF WayInv
  <1>4. \A c \in Among(backlog)' : h < c
    BY <1>3 DEF Among
  <1>5. \A c \in InHand : h < c
    BY <1>2, WayTypes DEF WayInv
  <1>6. QED
    BY <1>2, <1>4, <1>5

LEMMA ServeWay ==
  ASSUME TypeOK, WayInv, NEW outcome \in {"asked", "stop", "failed", "missed"}, CarServe(outcome)
  PROVE  WayInv'
  <1> DEFINE h == Head(backlog)
  <1>1. /\ backlog # <<>> /\ backlog' = Tail(backlog)
        /\ applied' = IF outcome = "missed" THEN applied ELSE [applied EXCEPT ![h] = outcome]
        /\ UNCHANGED <<popped, orphans, bridge, held>>
    BY DEF CarServe, bridgeVars, lateVars
  <1>2. /\ h \in Ids /\ h = backlog[1] /\ Len(backlog) >= 1
        /\ Len(backlog') = Len(backlog) - 1
        /\ \A k \in 1..Len(backlog') : backlog'[k] = backlog[k + 1]
        /\ Among(backlog) = Among(backlog)' \cup {h}
    BY <1>1, BacklogHead
  <1>3. /\ \A c \in Ids \ {h} : applied'[c] = applied[c]
        /\ InHand' = InHand
        /\ OnTheWay' \subseteq OnTheWay
    BY <1>1, <1>2 DEF TypeOK, InHand, OnTheWay
  <1>4. Among(backlog)' \subseteq Ids
    BY <1>2, WayTypes DEF Among
  <1>5. \A c \in Among(backlog)' : c \in Ids /\ h < c
    BY <1>1, <1>4, BacklogHead
  <1>6. \A c \in InHand : h < c
    BY <1>1, BacklogHead
  <1>7. h \notin OnTheWay' /\ h \in popped
    <2>1. h \in Among(backlog)
      BY <1>2
    <2>2. h \notin Among(backlog)' /\ h \notin InHand
      BY <1>2, <1>5, <1>6 DEF Ids
    <2>3. QED
      BY <1>1, <1>3, <2>1, <2>2 DEF WayInv, OnTheWay
  <1>8. /\ OnTheWay' \subseteq popped'
        /\ \A c \in OnTheWay' : applied'[c] = "none"
    <2>1. OnTheWay \subseteq Ids
      BY DEF WayInv, TypeOK
    <2>2. QED
      BY <1>1, <1>3, <1>7, <2>1 DEF WayInv
  <1>9. \A c \in Ids : applied'[c] # "none" => c \in popped'
    BY <1>1, <1>3, <1>7 DEF WayInv
  <1>10. orphans' \cap (Among(backlog)' \cup InHand') = {}
    BY <1>1, <1>2, <1>3 DEF WayInv
  <1>11. \A i, j \in 1..Len(backlog') : i < j => backlog'[i] < backlog'[j]
    <2> SUFFICES ASSUME NEW i \in 1..Len(backlog'), NEW j \in 1..Len(backlog'), i < j
                 PROVE  backlog'[i] < backlog'[j]
      OBVIOUS
    <2>1. i + 1 \in 1..Len(backlog) /\ j + 1 \in 1..Len(backlog) /\ i + 1 < j + 1
      BY <1>2, WayTypes
    <2>2. backlog[i + 1] < backlog[j + 1]
      BY <2>1 DEF WayInv
    <2>3. QED
      BY <1>2, <2>2
  <1>12. \A c \in InHand' : \A k \in 1..Len(backlog') : backlog'[k] < c
    BY <1>2, <1>3, WayTypes DEF WayInv
  <1>13. \A c, d \in Ids : applied'[c] # "none" /\ d \in Among(backlog)' \cup InHand' => c < d
    BY <1>2, <1>3, <1>5, <1>6 DEF WayInv
  <1>14. QED
    BY <1>8, <1>9, <1>10, <1>11, <1>12, <1>13 DEF WayInv

LEMMA WayKept == TypeOK /\ StoreInv /\ WayInv /\ ForwardInv /\ [Next]_vars => WayInv'
  <1> SUFFICES ASSUME TypeOK, StoreInv, WayInv, ForwardInv, [Next]_vars PROVE WayInv'
    OBVIOUS
  <1> USE DEF storeVars, bridgeVars, lateVars, carVars
  <1>1. CASE UNCHANGED vars \/ AddCommand
    BY <1>1, WayShrinks DEF vars, AddCommand, AddHistory, AddPending, AddSlice, AddStore, InHand
  <1>2. CASE NextCommand \/ LateNextCommand
    BY <1>2, TakeWay
  <1>3. ASSUME NEW c \in Ids, OrphanLost(c) PROVE WayInv'
    BY <1>3, WayShrinks DEF OrphanLost, InHand
  <1>4. CASE BridgeStart \/ PollDashboard \/ GiveUpAsking \/ BridgeEnds
    BY <1>4, WayShrinks DEF BridgeStart, PollDashboard, GiveUpAsking, BridgeEnds, InHand
  <1>5. CASE AnswerRead \/ AnswerLost \/ PostFails \/ CarReplies \/ GiveUpPost
    BY <1>5, WayShrinks DEF AnswerRead, AnswerLost, PostFails, CarReplies, GiveUpPost, InHand
  <1>6. CASE PostArrives
    BY <1>6, PostWay
  <1>7. ASSUME NEW outcome \in {"asked", "stop", "failed", "missed"}, CarServe(outcome) PROVE WayInv'
    BY <1>7, ServeWay
  <1>8. QED
    BY <1>1, <1>2, <1>3, <1>4, <1>5, <1>6, <1>7 DEF Next, BridgeOnce

-----------------------------------------------------------------------------
(* What the bridge reports.                                                *)

LEMMA ServeForward ==
  ASSUME TypeOK, WayInv, ForwardInv,
         NEW outcome \in {"asked", "stop", "failed", "missed"}, CarServe(outcome)
  PROVE  ForwardInv'
  <1> DEFINE h == Head(backlog)
  <1>1. /\ h \in Ids /\ applied[h] = "none"
        /\ applied' = IF outcome = "missed" THEN applied ELSE [applied EXCEPT ![h] = outcome]
        /\ reply' = IF bridge # "posted" \/ held # h THEN reply
                    ELSE IF outcome \in {"asked", "stop"} THEN "ok" ELSE "error"
        /\ UNCHANGED <<bridge, held, forwarded>>
    <2>1. h \in Ids /\ h \in Among(backlog)
      BY WayTypes, AmongTail DEF CarServe
    <2>2. QED
      BY <2>1 DEF CarServe, bridgeVars, WayInv, OnTheWay
  <1>2. \A c \in Ids : applied[c] \in {"asked", "stop"} => applied'[c] = applied[c]
    BY <1>1 DEF TypeOK
  <1>3. ForwardedIsTakenUp'
    BY <1>1, <1>2 DEF ForwardInv, ForwardedIsTakenUp, TypeOK
  <1>4. reply' = "ok" => applied'[held'] \in {"asked", "stop"}
    <2> SUFFICES ASSUME reply' = "ok" PROVE applied'[held] \in {"asked", "stop"}
      BY <1>1
    <2>1. CASE bridge = "posted" /\ held = h
      BY <1>1, <2>1 DEF TypeOK
    <2>2. CASE reply = "ok"
      BY <1>2, <2>2 DEF ForwardInv
    <2>3. QED
      BY <1>1, <2>1, <2>2
  <1>5. QED
    BY <1>1, <1>3, <1>4 DEF ForwardInv

LEMMA ForwardKept == TypeOK /\ StoreInv /\ WayInv /\ ForwardInv /\ [Next]_vars => ForwardInv'
  <1> SUFFICES ASSUME TypeOK, StoreInv, WayInv, ForwardInv, [Next]_vars PROVE ForwardInv'
    OBVIOUS
  <1> USE DEF storeVars, bridgeVars, lateVars, carVars, ForwardInv, ForwardedIsTakenUp
  <1>1. CASE UNCHANGED vars \/ AddCommand
    BY <1>1 DEF vars, AddCommand, AddHistory, AddPending, AddSlice, AddStore
  <1>2. CASE NextCommand \/ LateNextCommand
    BY <1>2 DEF NextCommand, LateNextCommand
  <1>3. ASSUME NEW c \in Ids, OrphanLost(c) PROVE ForwardInv'
    BY <1>3 DEF OrphanLost
  <1>4. CASE BridgeStart \/ PollDashboard \/ GiveUpAsking \/ BridgeEnds
    BY <1>4 DEF BridgeStart, PollDashboard, GiveUpAsking, BridgeEnds
  <1>5. CASE AnswerRead
    BY <1>5 DEF AnswerRead, TypeOK, Ids
  <1>6. CASE AnswerLost \/ PostArrives \/ PostFails \/ CarReplies \/ GiveUpPost
    BY <1>6 DEF AnswerLost, PostArrives, PostFails, CarReplies, GiveUpPost
  <1>7. ASSUME NEW outcome \in {"asked", "stop", "failed", "missed"}, CarServe(outcome) PROVE ForwardInv'
    BY <1>7, ServeForward
  <1>8. QED
    BY <1>1, <1>2, <1>3, <1>4, <1>5, <1>6, <1>7 DEF Next, BridgeOnce

-----------------------------------------------------------------------------
(* The safety properties.                                                  *)

LEMMA InitChain == Init => ChainInv
  BY InitType, InitStore, InitWay DEF ChainInv

LEMMA NextChain == ChainInv /\ [Next]_vars => ChainInv'
  BY NextType, StoreKept, HistoryKept, WayKept, ForwardKept DEF ChainInv

LEMMA ChainHolds == Spec => []ChainInv
  BY InitChain, NextChain, PTL DEF Spec

(* Every variable keeps its type, for all lengths of the queue and the     *)
(* history and all numbers of commands and requests (server.py:46-80).     *)
THEOREM TypeCorrect == Spec => []TypeOK
  <1>1. ChainInv => TypeOK
    BY DEF ChainInv
  <1>2. QED
    BY <1>1, ChainHolds, PTL

(* Whenever threads and the bridge interleave, a command the bridge has    *)
(* not taken is dropped only for as many newer ones as the queue holds     *)
(* (server.py:72-73).                                                      *)
THEOREM NewestStay == Spec => []NewestKept
  <1>1. ChainInv => NewestKept
    BY DEF ChainInv, StoreInv
  <1>2. QED
    BY <1>1, ChainHolds, PTL

(* What waits for the bridge is in the history a snapshot shows, for every *)
(* queue that is no longer than the history (server.py:69-73, 82-93).      *)
THEOREM WaitingIsShown == Spec => []PendingIsShown
  <1>1. ChainInv => PendingIsShown
    <2> SUFFICES ASSUME ChainInv, adding = "no" PROVE Pending \subseteq Among(commands)
      BY DEF PendingIsShown
    <2>1. /\ TypeOK /\ StoreInv /\ submitted \in Nat /\ commands \in Seq(Ids)
          /\ Len(pending_commands) <= PendingLimit
          /\ LastOf(commands, submitted)
          /\ Len(commands) = IF submitted <= HistoryLimit THEN submitted ELSE HistoryLimit
      BY BridgeAssumption DEF ChainInv, TypeOK, StoreInv, HistoryInv, Newly
    <2>2. Among(commands) = (submitted - Len(commands) + 1)..submitted
      BY <2>1, LastOfAmong
    <2>3. /\ Pending = (submitted - Len(pending_commands) + 1)..submitted
          /\ Len(pending_commands) \in Nat /\ Len(pending_commands) <= submitted
      BY <2>1, PendingIs
    <2>4. Len(pending_commands) <= Len(commands) /\ Len(commands) \in Nat
      BY <2>1, <2>3, BridgeAssumption
    <2>5. QED
      BY <2>1, <2>2, <2>3, <2>4
  <1>2. QED
    BY <1>1, ChainHolds, PTL

(* A command is reported as forwarded only if the car has taken it up,     *)
(* whichever answers were late and requests given up                       *)
(* (bridge_to_car.py:49-53).                                               *)
THEOREM ForwardedTaken == Spec => []ForwardedIsTakenUp
  <1>1. ChainInv => ForwardedIsTakenUp
    BY DEF ChainInv, ForwardInv
  <1>2. QED
    BY <1>1, ChainHolds, PTL

-----------------------------------------------------------------------------
(* The chain implements the dispatch queue.                                *)

places == [c \in Ids |-> Place(c)]

(* A command keeps its place while what the place is read from stays.      *)
LEMMA PlaceStays ==
  ASSUME NEW c \in Ids,
         (c > submitted)' <=> c > submitted,
         c \in Pending' <=> c \in Pending,
         c \in OnTheWay' <=> c \in OnTheWay,
         applied'[c] = applied[c],
         c \in popped' <=> c \in popped
  PROVE  Place(c)' = Place(c)
  BY DEF Place

LEMMA PlacesStay ==
  ASSUME UNCHANGED <<pending_commands, submitted, popped, applied>>, OnTheWay' = OnTheWay
  PROVE  UNCHANGED places
  <1>1. Pending' = Pending
    BY DEF Pending, Among
  <1>2. \A c \in Ids : Place(c)' = Place(c)
    BY <1>1, PlaceStays
  <1>3. QED
    BY <1>2 DEF places

(* Where the commands are that the bridge has and has not taken.           *)
LEMMA PlacesNow ==
  ASSUME ChainInv
  PROVE  /\ \A c \in Ids : c \in Nat
         /\ submitted \in Nat
         /\ \A c \in Pending : c \in Ids /\ c <= submitted /\ c \notin popped /\ Place(c) = "waiting"
         /\ \A c \in OnTheWay : c \in Ids /\ c <= submitted /\ Place(c) = "taken"
         /\ \A c \in popped : c <= submitted /\ c \notin Pending
         /\ \A c \in Ids : c \notin popped => c \notin OnTheWay /\ applied[c] = "none"
  <1>1. TypeOK /\ StoreInv /\ WayInv
    BY DEF ChainInv
  <1>2. submitted \in Nat /\ submitted <= MaxCommands /\ \A c \in Ids : c \in Nat
    BY <1>1, BridgeAssumption DEF TypeOK, Ids
  <1>3. /\ Len(pending_commands) \in Nat /\ Len(pending_commands) <= submitted
        /\ Pending = (submitted - Len(pending_commands) + 1)..submitted
    BY <1>1, PendingIs
  <1>4. popped \subseteq 1..(submitted - Len(pending_commands))
    BY <1>1 DEF StoreInv
  <1>5. \A c \in popped : c \in Ids /\ c <= submitted /\ c \notin Pending
    BY <1>2, <1>3, <1>4, BridgeAssumption DEF Ids
  <1>6. \A c \in Pending : c \in Ids /\ c <= submitted /\ c \notin popped
    BY <1>2, <1>3, <1>5, BridgeAssumption DEF Ids
  <1>7. \A c \in Pending : Place(c) = "waiting"
    BY <1>2, <1>6 DEF Place
  <1>8. \A c \in OnTheWay : c \in popped
    BY <1>1 DEF WayInv
  <1>9. \A c \in OnTheWay : Place(c) = "taken"
    BY <1>2, <1>5, <1>8 DEF Place
  <1>10. \A c \in Ids : c \notin popped => c \notin OnTheWay /\ applied[c] = "none"
    BY <1>1, <1>8 DEF WayInv
  <1>11. QED
    BY <1>2, <1>5, <1>6, <1>7, <1>8, <1>9, <1>10

LEMMA StepSubmits ==
  ASSUME ChainInv, AddPending
  PROVE  \E c \in Ids : Queue!Submit(c)
  <1>1. TypeOK /\ StoreInv
    BY DEF ChainInv
  <1>n. submitted + 1 \in Ids
    BY <1>1, BridgeAssumption DEF AddPending, StoreInv, TypeOK, Ids
  <1>0. PICK n \in Ids : n = submitted + 1
    BY <1>n
  <1>2. /\ submitted' = n /\ pending_commands' = Append(pending_commands, n)
        /\ UNCHANGED <<popped, applied, orphans, backlog, bridge, held>>
    BY <1>0 DEF AddPending, bridgeVars, lateVars, carVars
  <1>3. Pending' = Pending \cup {n}
    BY <1>1, <1>2, AmongAppend DEF Pending, TypeOK
  <1>4. OnTheWay' = OnTheWay
    BY <1>2 DEF OnTheWay, InHand, Among
  <1>5. \A c \in Ids : c # n => Place(c)' = Place(c)
    BY <1>0, <1>2, <1>3, <1>4, PlaceStays, PlacesNow
  <1>6. Place(n) = "none" /\ Place(n)' = "waiting"
    BY <1>0, <1>2, <1>3, PlacesNow DEF Place
  <1>7. \A c \in Ids : c < n => Place(c) # "none"
    BY <1>0, PlacesNow DEF Place
  <1>8. QED
    BY <1>2, <1>5, <1>6, <1>7 DEF Queue!Submit, Queue!Move

(* When the queue is too long, its first command is dropped.               *)
LEMMA StepDrops ==
  ASSUME ChainInv, AddStore
  PROVE  (\E c \in Ids : Queue!Withdraw(c)) \/ UNCHANGED places
  <1>1. TypeOK /\ StoreInv
    BY DEF ChainInv
  <1>2. /\ pending_commands' = Newest(pending_commands, PendingLimit)
        /\ UNCHANGED <<submitted, popped, applied, orphans, backlog, bridge, held>>
    BY <1>1 DEF AddStore, StoreInv, bridgeVars, lateVars, carVars
  <1>3. OnTheWay' = OnTheWay
    BY <1>2 DEF OnTheWay, InHand, Among
  <1>4. CASE Len(pending_commands) <= PendingLimit
    BY <1>2, <1>3, <1>4, PlacesStay DEF Newest
  <1>5. CASE ~(Len(pending_commands) <= PendingLimit)
    <2>1. /\ pending_commands \in Seq(Ids) /\ PendingLimit \in Nat /\ PendingLimit >= 1
          /\ submitted \in Nat
          /\ Len(pending_commands) = PendingLimit + 1 /\ LastOf(pending_commands, submitted)
      BY <1>1, <1>5, BridgeAssumption DEF TypeOK, StoreInv
    <2>2. /\ pending_commands' \in Seq(Ids) /\ Len(pending_commands') = PendingLimit
          /\ LastOf(pending_commands', submitted)
      BY <1>2, <2>1, NewestKeeps, LastOfNewest
    <2>h. submitted - PendingLimit \in Pending
      BY <2>1, LastOfAmong DEF Pending, LastOf
    <2>0. PICK h \in Ids : h = submitted - PendingLimit
      BY <2>h, PlacesNow
    <2>3. /\ Pending = h..submitted
          /\ Pending' = (h + 1)..submitted
      BY <2>0, <2>1, <2>2, LastOfAmong DEF Pending
    <2>4. h \in Pending /\ Pending' = Pending \ {h} /\ h \in Int
      BY <2>0, <2>h, <2>1, <2>3
    <2>5. h \in Ids /\ Place(h) = "waiting"
      BY <2>4, PlacesNow
    <2>6. Place(h)' = "withdrawn"
      BY <1>2, <1>3, <2>4, PlacesNow DEF Place
    <2>7. \A c \in Ids : c # h => Place(c)' = Place(c)
      BY <1>2, <1>3, <2>4, PlaceStays
    <2>8. Queue!Withdraw(h)
      BY <2>5, <2>6, <2>7 DEF Queue!Withdraw, Queue!Move
    <2>9. QED
      BY <2>5, <2>8
  <1>6. QED
    BY <1>4, <1>5

LEMMA StepTakes ==
  ASSUME ChainInv, NextCommand \/ LateNextCommand
  PROVE  (\E c \in Ids : Queue!Take(c)) \/ UNCHANGED places
  <1>1. TypeOK /\ StoreInv
    BY DEF ChainInv
  <1>2. UNCHANGED <<submitted, applied, backlog>>
    BY TakeIsPop DEF carVars
  <1>3. CASE pending_commands = <<>> /\ UNCHANGED <<pending_commands, popped>>
    <2>1. InHand' = InHand /\ orphans' = orphans
      BY <1>3 DEF NextCommand, LateNextCommand, InHand, lateVars, bridgeVars
    <2>2. OnTheWay' = OnTheWay
      BY <1>2, <2>1 DEF OnTheWay, Among
    <2>3. QED
      BY <1>2, <1>3, <2>2, PlacesStay
  <1>4. CASE Pops
    <2>h. /\ Head(pending_commands) \in Ids
          /\ \A c \in popped : c < Head(pending_commands)
      BY <1>1, <1>4, PopIsNew
    <2>0. PICK h \in Ids : h = Head(pending_commands)
      BY <2>h
    <2>1. h \in Ids /\ \A c \in popped : c < h
      BY <2>h, <2>0
    <2>2. popped' = popped \cup {h}
      BY <1>4, <2>0 DEF Pops
    <2>3. PICK s \in Seq(Ids) : s = pending_commands
      BY <1>1 DEF TypeOK
    <2>4. Pending = Pending' \cup {h}
      <3>1. Among(s) = Among(Tail(s)) \cup {Head(s)}
        BY <1>4, <2>3, AmongTail DEF Pops
      <3>2. QED
        BY <1>4, <2>0, <2>3, <3>1 DEF Pops, Pending
    <2>5. \A c \in Pending' : h < c
      <3>1. LastOf(s, submitted) /\ submitted \in Nat
        BY <1>1, <2>3, BridgeAssumption DEF StoreInv, TypeOK
      <3>2. \A k \in 1..Len(Tail(s)) : Tail(s)[k] > Head(s)
        BY <1>4, <2>3, <3>1, LastOfTail DEF Pops
      <3>3. \A c \in Among(Tail(s)) : c > Head(s)
        BY <3>2 DEF Among
      <3>4. Pending' = Among(Tail(s))
        BY <1>4, <2>3 DEF Pops, Pending
      <3>5. QED
        BY <2>0, <2>1, <2>3, <2>4, <3>3, <3>4, PlacesNow
    <2>6. OnTheWay' = OnTheWay \cup {h}
      <3>1. CASE NextCommand
        <4>1. bridge = "asking" /\ bridge' = "answered" /\ held' = h /\ orphans' = orphans /\ h # 0
          BY <1>4, <2>0, <2>1, <3>1 DEF NextCommand, Pops, lateVars, Ids
        <4>2. InHand = {} /\ InHand' = {h}
          BY <4>1 DEF InHand
        <4>3. QED
          BY <1>2, <4>1, <4>2 DEF OnTheWay, Among
      <3>2. CASE LateNextCommand
        <4>1. orphans' = orphans \cup {h} /\ InHand' = InHand
          BY <1>4, <2>0, <3>2 DEF LateNextCommand, Pops, bridgeVars, InHand
        <4>2. QED
          BY <1>2, <4>1 DEF OnTheWay, Among
      <3>3. QED
        BY <3>1, <3>2
    <2>7. Place(h) = "waiting" /\ h <= submitted /\ h \in Nat
      BY <2>4, PlacesNow
    <2>8. h \notin Pending'
      BY <2>5, <2>7
    <2>9. Place(h)' = "taken"
      BY <1>2, <2>6, <2>7, <2>8, PlacesNow DEF Place
    <2>10. \A c \in Ids : c # h => Place(c)' = Place(c)
      BY <1>2, <2>2, <2>4, <2>6, PlaceStays
    <2>11. \A c \in Ids : c < h => Place(c) # "waiting"
      BY <2>4, <2>5, <2>7, PlacesNow DEF Place
    <2>12. QED
      BY <2>1, <2>7, <2>9, <2>10, <2>11 DEF Queue!Take, Queue!Move
  <1>5. QED
    BY <1>3, <1>4, TakeIsPop

LEMMA StepVanishes ==
  ASSUME ChainInv, UNCHANGED <<pending_commands, submitted, popped, applied>>,
         NEW c \in OnTheWay, OnTheWay' = OnTheWay \ {c}
  PROVE  c \in Ids /\ Queue!Vanish(c)
  <1>1. Pending' = Pending
    BY DEF Pending, Among
  <1>2. c \in Ids /\ c <= submitted /\ Place(c) = "taken"
    BY PlacesNow
  <1>3. c \in popped /\ applied[c] = "none"
    BY DEF ChainInv, WayInv
  <1>4. Place(c)' = "lost"
    BY <1>1, <1>2, <1>3, PlacesNow DEF Place
  <1>5. \A d \in Ids : d # c => Place(d)' = Place(d)
    BY <1>1, PlaceStays
  <1>6. QED
    BY <1>2, <1>4, <1>5 DEF Queue!Vanish, Queue!Move

(* What the bridge drops it has had alone.                                 *)
LEMMA StepLetsGo ==
  ASSUME ChainInv, UNCHANGED <<pending_commands, submitted, popped, applied, orphans, backlog>>,
         InHand' = {}
  PROVE  (\E c \in Ids : Queue!Vanish(c)) \/ UNCHANGED places
  <1>1. CASE InHand = {}
    <2>1. OnTheWay' = OnTheWay
      BY <1>1 DEF OnTheWay, Among
    <2>2. QED
      BY <2>1, PlacesStay
  <1>2. CASE InHand # {}
    <2>h. InHand = {held} /\ held \in OnTheWay
      BY <1>2 DEF InHand, OnTheWay
    <2>0. PICK c \in Ids : c = held
      BY <2>h, PlacesNow
    <2>1. InHand = {c} /\ c \in OnTheWay
      BY <2>h, <2>0
    <2>2. c \notin orphans
      BY <2>1 DEF ChainInv, WayInv
    <2>3. c \notin Among(backlog)
      <3>1. \A k \in 1..Len(backlog) : backlog[k] < c
        BY <2>1 DEF ChainInv, WayInv
      <3>2. c \in Nat
        BY PlacesNow
      <3>3. QED
        BY <3>1, <3>2 DEF Among
    <2>4. OnTheWay' = OnTheWay \ {c}
      BY <2>1, <2>2, <2>3 DEF OnTheWay, Among
    <2>5. QED
      BY <2>1, <2>4, StepVanishes
  <1>3. QED
    BY <1>1, <1>2

LEMMA StepServes ==
  ASSUME ChainInv, NEW outcome \in {"asked", "stop", "failed", "missed"}, CarServe(outcome)
  PROVE  \E c \in Ids : Queue!Arrive(c) \/ Queue!Vanish(c)
  <1>h. TypeOK /\ WayInv /\ backlog # <<>> /\ backlog' = Tail(backlog)
    BY DEF ChainInv, CarServe
  <1>0. PICK h \in Ids : h = Head(backlog)
    BY <1>h, BacklogHead
  <1>1. /\ backlog # <<>> /\ backlog' = Tail(backlog)
        /\ applied' = IF outcome = "missed" THEN applied ELSE [applied EXCEPT ![h] = outcome]
        /\ UNCHANGED <<pending_commands, submitted, popped, orphans, bridge, held>>
    BY <1>0 DEF CarServe, storeVars, bridgeVars, lateVars
  <1>2. TypeOK /\ WayInv
    BY DEF ChainInv
  <1>3. /\ h \in Ids /\ h \in Among(backlog)
        /\ Among(backlog) = Among(backlog)' \cup {h}
        /\ \A c \in Among(backlog)' \cup InHand : h < c
    BY <1>h, <1>0, BacklogHead
  <1>4. h \in Nat /\ h \in OnTheWay
    BY <1>3, PlacesNow DEF OnTheWay
  <1>5. h \notin Among(backlog)' /\ h \notin InHand /\ h \notin orphans
    BY <1>2, <1>3, <1>4 DEF WayInv
  <1>6. InHand' = InHand
    BY <1>1 DEF InHand
  <1>7. OnTheWay' = OnTheWay \ {h}
    BY <1>1, <1>3, <1>5, <1>6 DEF OnTheWay
  <1>8. CASE outcome = "missed"
    BY <1>1, <1>3, <1>4, <1>7, <1>8, StepVanishes
  <1>9. CASE outcome # "missed"
    <2>1. Pending' = Pending
      BY <1>1 DEF Pending, Among
    <2>2. applied'[h] = outcome /\ \A c \in Ids : c # h => applied'[c] = applied[c]
      BY <1>1, <1>2, <1>3, <1>9 DEF TypeOK
    <2>3. h <= submitted /\ Place(h) = "taken" /\ h \in popped
      BY <1>2, <1>4, PlacesNow DEF WayInv
    <2>4. Place(h)' = "delivered"
      BY <1>1, <1>4, <1>7, <1>9, <2>1, <2>2, <2>3, PlacesNow DEF Place
    <2>5. \A c \in Ids : c # h => Place(c)' = Place(c)
      BY <1>1, <1>7, <2>1, <2>2, PlaceStays
    <2>6. \A c \in Ids : h < c => Place(c) # "delivered"
      <3>1. \A c \in Ids : applied[c] # "none" => c < h
        BY <1>2, <1>3 DEF WayInv
      <3>2. QED
        BY <1>4, <3>1, PlacesNow DEF Place
    <2>7. QED
      BY <1>3, <2>3, <2>4, <2>5, <2>6 DEF Queue!Arrive, Queue!Move
  <1>10. QED
    BY <1>8, <1>9

LEMMA InitPlaces == Init => Queue!Init
  <1>1. Init => \A c \in Ids : c > submitted
    BY DEF Init, Ids
  <1>2. QED
    BY <1>1 DEF Queue!Init, Place

LEMMA StepPlaces == ChainInv /\ [Next]_vars => Queue!StreamNext \/ UNCHANGED places
  <1> SUFFICES ASSUME ChainInv, [Next]_vars PROVE Queue!StreamNext \/ UNCHANGED places
    OBVIOUS
  <1> USE DEF storeVars, bridgeVars, lateVars, carVars
  <1>1. CASE UNCHANGED vars \/ AddHistory \/ AddSlice
    <2>1. OnTheWay' = OnTheWay /\ UNCHANGED <<pending_commands, submitted, popped, applied>>
      BY <1>1 DEF vars, AddHistory, AddSlice, OnTheWay, InHand, Among
    <2>2. QED
      BY <2>1, PlacesStay
  <1>2. CASE AddPending
    BY <1>2, StepSubmits DEF Queue!StreamNext
  <1>3. CASE AddStore
    BY <1>3, StepDrops DEF Queue!StreamNext
  <1>4. CASE NextCommand \/ LateNextCommand
    BY <1>4, StepTakes DEF Queue!StreamNext
  <1>5. ASSUME NEW c \in Ids, OrphanLost(c) PROVE Queue!StreamNext
    <2>1. /\ c \in OnTheWay /\ orphans' = orphans \ {c}
          /\ UNCHANGED <<pending_commands, submitted, popped, applied, backlog, bridge, held>>
      BY <1>5 DEF OrphanLost, OnTheWay
    <2>2. c \notin Among(backlog) \cup InHand
      BY <1>5 DEF OrphanLost, ChainInv, WayInv
    <2>3. OnTheWay' = OnTheWay \ {c}
      BY <2>1, <2>2 DEF OnTheWay, InHand, Among
    <2>4. QED
      BY <2>1, <2>3, StepVanishes DEF Queue!StreamNext
  <1>6. CASE BridgeStart \/ PollDashboard \/ GiveUpAsking \/ AnswerRead \/ CarReplies \/ GiveUpPost
    <2>1. InHand' = InHand
      BY <1>6 DEF BridgeStart, PollDashboard, GiveUpAsking, AnswerRead, CarReplies, GiveUpPost, InHand
    <2>2. UNCHANGED <<pending_commands, submitted, popped, applied, orphans, backlog>>
      BY <1>6 DEF BridgeStart, PollDashboard, GiveUpAsking, AnswerRead, CarReplies, GiveUpPost
    <2>3. OnTheWay' = OnTheWay
      BY <2>1, <2>2 DEF OnTheWay, Among
    <2>4. QED
      BY <2>2, <2>3, PlacesStay
  <1>7. CASE AnswerLost \/ PostFails \/ BridgeEnds
    <2>1. InHand' = {}
      BY <1>7 DEF AnswerLost, PostFails, BridgeEnds, InHand
    <2>2. UNCHANGED <<pending_commands, submitted, popped, applied, orphans, backlog>>
      BY <1>7 DEF AnswerLost, PostFails, BridgeEnds
    <2>3. QED
      BY <2>1, <2>2, StepLetsGo DEF Queue!StreamNext
  <1>8. CASE PostArrives
    <2>1. /\ held \in Ids /\ InHand = {held} /\ InHand' = {}
          /\ backlog' = Append(backlog, held)
          /\ UNCHANGED <<pending_commands, submitted, popped, applied, orphans>>
      BY <1>8 DEF PostArrives, ChainInv, ForwardInv, InHand, Ids
    <2>2. Among(backlog)' = Among(backlog) \cup {held}
      BY <2>1, WayTypes, AmongAppend DEF Among, ChainInv
    <2>3. OnTheWay' = OnTheWay
      BY <2>1, <2>2 DEF OnTheWay
    <2>4. QED
      BY <2>1, <2>3, PlacesStay
  <1>9. ASSUME NEW outcome \in {"asked", "stop", "failed", "missed"}, CarServe(outcome) PROVE Queue!StreamNext
    BY <1>9, StepServes DEF Queue!StreamNext
  <1>10. QED
    BY <1>1, <1>2, <1>3, <1>4, <1>5, <1>6, <1>7, <1>8, <1>9 DEF Next, AddCommand, BridgeOnce

(* The way of commands from the page to the car is a queue that hands out  *)
(* one at a time: each is taken once at most, oldest first, and the car    *)
(* takes up none older than one it has taken up, through time-outs, late   *)
(* threads, lost answers and ends of the bridge (server.py:61-80,          *)
(* bridge_to_car.py:27-53).                                                *)
THEOREM ChainIsDispatch == Spec => Dispatch
  <1>1. Init => Queue!Init
    BY InitPlaces
  <1>2. ChainInv /\ [Next]_vars => [Queue!StreamNext]_places
    BY StepPlaces
  <1>3. QED
    BY <1>1, <1>2, ChainHolds, PTL DEF Spec, Dispatch, Queue!StreamSpec, places
=============================================================================
