-------------------------- MODULE GatewayCache_proofs --------------------------
(* Proofs about GatewayCache, for every size of cache and buffer and every *)
(* sequence of messages: typing, what an undisturbed read returns, and     *)
(* where the terminator is stored.                                         *)
EXTENDS GatewayCache, TLAPS

Bytes == 0..(BufSize - 1)

LEMMA Constants ==
  /\ CacheSize \in Nat /\ CacheSize >= 1 /\ BufSize \in Nat /\ BufSize >= 1
  /\ Len(Lengths) \in Nat
  /\ \A m \in Messages : m \in Nat /\ m >= 1 /\ Lengths[m] \in Nat
  BY CacheAssumption DEF Messages

(* telemetry_cache_update takes up the next message or refuses it, and     *)
(* what it takes up fits with a terminator (telemetry_cache.c:27-29).      *)
LEMMA Requested ==
  ASSUME TypeOK, WriteRequest
  PROVE  /\ wpc = "idle" /\ msg' \in Messages /\ w' = 0
         /\ wpc' \in {"idle", "memset"}
         /\ wpc' = "memset" => Fits(msg')
         /\ UNCHANGED <<g_cache, g_cache_len, g_cache_ready, latest>>
  <1>1. msg + 1 \in Messages
    BY Constants DEF TypeOK, WriteRequest, Messages
  <1>2. PICK m \in Messages : m = msg + 1
    BY <1>1
  <1>3. Lengths[m] \in Nat
    BY Constants
  <1>4. QED
    BY <1>2, <1>3, Constants DEF WriteRequest, Fits, cacheVars

-----------------------------------------------------------------------------
(* Typing.                                                                 *)

LEMMA InitType == Init => TypeOK
  BY Constants DEF Init, TypeOK, Cells, NUL

LEMMA WriterType == TypeOK /\ WriterInv /\ WriterStep => TypeOK'
  <1> SUFFICES ASSUME TypeOK, WriterInv, WriterStep PROVE TypeOK'
    OBVIOUS
  <1>r. disturbed' = TRUE /\ known' = known
    BY DEF WriterStep
  <1>1. CASE WriteRequest
    <2>1. UNCHANGED readerVars
      BY <1>1 DEF WriteRequest
    <2>2. QED
      BY <1>1, <1>r, <2>1, Requested, Constants DEF TypeOK, readerVars
  <1>2. CASE ClearByte
    <2>1. w \in Nat /\ w < CacheSize
      BY <1>2 DEF ClearByte, WriterInv, TypeOK
    <2>2. w' \in 0..CacheSize
      BY <1>2, <2>1, Constants DEF ClearByte
    <2>3. QED
      BY <1>2, <1>r, <2>2 DEF ClearByte, TypeOK, readerVars, NUL
  <1>3. CASE CopyByteIn
    <2>1. Fits(msg) /\ w \in Nat /\ w < Lengths[msg]
      BY <1>3 DEF CopyByteIn, WriterInv, TypeOK
    <2>2. w' \in 0..CacheSize
      BY <1>3, <2>1, Constants DEF CopyByteIn, Fits
    <2>3. g_cache' \in [Cells -> {NUL} \cup Messages]
      BY <1>3, <2>1 DEF CopyByteIn, TypeOK, Fits
    <2>4. QED
      BY <1>3, <1>r, <2>2, <2>3 DEF CopyByteIn, TypeOK, readerVars
  <1>4. CASE SetLength
    <2>1. Fits(msg)
      BY <1>4 DEF SetLength, WriterInv
    <2>2. QED
      BY <1>4, <1>r, <2>1, Constants DEF SetLength, TypeOK, readerVars, Fits
  <1>5. CASE SetReady
    BY <1>5, <1>r DEF SetReady, TypeOK, readerVars
  <1>6. QED
    BY <1>1, <1>2, <1>3, <1>4, <1>5 DEF WriterStep

LEMMA ReaderType == TypeOK /\ ReaderInv /\ ReaderStep => TypeOK'
  <1> SUFFICES ASSUME TypeOK, ReaderInv, ReaderStep PROVE TypeOK'
    OBVIOUS
  <1> USE DEF cacheVars, writerVars, TypeOK
  <1>1. CASE ReceivePacket
    BY <1>1 DEF ReceivePacket, NUL
  <1>2. CASE GetRefuses \/ GetStarts
    BY <1>2 DEF GetRefuses, GetStarts
  <1>7. CASE Send
    <2>1. \A i \in Answer : buf[i] \in {0} \cup Messages
      BY DEF Answer, NUL
    <2>2. known' \in {0} \cup Messages
      BY <1>7, <2>1 DEF Send
    <2>3. QED
      BY <1>7, <2>2 DEF Send
  <1>3. CASE LoadLength
    BY <1>3 DEF LoadLength
  <1>4. CASE CopyByteOut
    <2>1. r \in Cells
      BY <1>4, Constants DEF CopyByteOut, ReaderInv, Cells
    <2>2. buf' \in [Bytes -> {NUL} \cup Messages]
      BY <1>4, <2>1 DEF CopyByteOut, Bytes
    <2>3. QED
      BY <1>4, <2>2 DEF CopyByteOut, Bytes
  <1>5. CASE Terminate
    BY <1>5 DEF Terminate, NUL
  <1>6. QED
    BY <1>1, <1>2, <1>3, <1>4, <1>5, <1>7 DEF ReaderStep

-----------------------------------------------------------------------------
(* The writer.                                                             *)

LEMMA WriterKeeps == TypeOK /\ WriterInv /\ WriterStep => WriterInv'
  <1> SUFFICES ASSUME TypeOK, WriterInv, WriterStep PROVE WriterInv'
    OBVIOUS
  <1>t. /\ w \in Nat /\ g_cache \in [Cells -> {NUL} \cup Messages]
        /\ \A i \in Cells : i \in Nat /\ i < CacheSize
        /\ msg \in Nat
    BY Constants DEF TypeOK, Cells, Messages
  <1>1. CASE WriteRequest
    <2>1. /\ wpc = "idle" /\ w' = 0 /\ wpc' \in {"idle", "memset"}
          /\ wpc' = "memset" => Fits(msg')
          /\ UNCHANGED <<g_cache, g_cache_len, g_cache_ready, latest>>
      BY <1>1, Requested
    <2>2. Fits(latest)' = Fits(latest) /\ Filled(latest)' = Filled(latest)
      BY <2>1 DEF Fits, Filled
    <2>3. wpc' = "memset" => Fits(msg)'
      BY <2>1 DEF Fits
    <2>4. QED
      BY <1>t, <2>1, <2>2, <2>3, Constants DEF WriterInv
  <1>2. CASE ClearByte
    <2>1. /\ wpc = "memset" /\ w < CacheSize /\ \A i \in Cells : i < w => g_cache[i] = NUL
          /\ g_cache' = [g_cache EXCEPT ![w] = NUL]
          /\ w' = (IF w + 1 = CacheSize THEN 0 ELSE w + 1)
          /\ wpc' = (IF w + 1 = CacheSize THEN "memcpy" ELSE "memset")
          /\ UNCHANGED <<g_cache_len, g_cache_ready, msg, latest>>
      BY <1>2 DEF ClearByte, WriterInv
    <2>2. Fits(msg) /\ Fits(msg)'
      BY <2>1 DEF WriterInv, Fits
    <2>3. \A i \in Cells : i < w + 1 => g_cache'[i] = NUL
      BY <1>t, <2>1
    <2>4. wpc' = "memset" => w' < CacheSize /\ \A i \in Cells : i < w' => g_cache'[i] = NUL
      BY <1>t, <2>1, <2>3, Constants
    <2>5. wpc' = "memcpy" =>
            w' < Lengths[msg] /\ \A i \in Cells : g_cache'[i] = IF i < w' THEN msg ELSE NUL
      BY <1>t, <2>1, <2>2, <2>3 DEF Fits
    <2>6. QED
      BY <2>1, <2>2, <2>4, <2>5 DEF WriterInv
  <1>3. CASE CopyByteIn
    <2>1. /\ wpc = "memcpy" /\ w < Lengths[msg] /\ Fits(msg)
          /\ \A i \in Cells : g_cache[i] = IF i < w THEN msg ELSE NUL
          /\ g_cache' = [g_cache EXCEPT ![w] = msg]
          /\ w' = w + 1
          /\ wpc' = (IF w + 1 = Lengths[msg] THEN "length" ELSE "memcpy")
          /\ UNCHANGED <<g_cache_len, g_cache_ready, msg, latest>>
      BY <1>3 DEF CopyByteIn, WriterInv
    <2>2. Fits(msg)' /\ Filled(msg)' = Filled(msg)
      BY <2>1 DEF Fits, Filled
    <2>3. \A i \in Cells : g_cache'[i] = IF i < w + 1 THEN msg ELSE NUL
      BY <1>t, <2>1
    <2>4. wpc' = "memcpy" =>
            w' < Lengths[msg] /\ \A i \in Cells : g_cache'[i] = IF i < w' THEN msg ELSE NUL
      BY <1>t, <2>1, <2>3 DEF Fits
    <2>5. wpc' = "length" => g_cache' = Filled(msg)
      <3>1. g_cache' = [i \in Cells |-> g_cache'[i]]
        BY <1>t, <2>1
      <3>2. QED
        BY <2>1, <2>3, <3>1 DEF Filled
    <2>6. QED
      BY <2>1, <2>2, <2>4, <2>5 DEF WriterInv
  <1>4. CASE SetLength
    <2>1. /\ wpc = "length" /\ Fits(msg) /\ g_cache = Filled(msg)
          /\ g_cache_len' = Lengths[msg] /\ wpc' = "ready"
          /\ UNCHANGED <<g_cache, g_cache_ready, msg, w, latest>>
      BY <1>4 DEF SetLength, WriterInv
    <2>2. Fits(msg)' /\ Filled(msg)' = Filled(msg)
      BY <2>1 DEF Fits, Filled
    <2>3. g_cache_len' < CacheSize /\ g_cache_len' > 0
      BY <2>1, Constants DEF Fits
    <2>4. QED
      BY <2>1, <2>2, <2>3 DEF WriterInv
  <1>5. CASE SetReady
    <2>1. /\ wpc = "ready" /\ Fits(msg) /\ g_cache = Filled(msg) /\ g_cache_len = Lengths[msg]
          /\ g_cache_ready' = TRUE /\ latest' = msg /\ wpc' = "idle"
          /\ UNCHANGED <<g_cache, g_cache_len, msg, w>>
      BY <1>5 DEF SetReady, WriterInv
    <2>2. Fits(latest)' /\ Filled(latest)' = Filled(msg)
      BY <2>1 DEF Fits, Filled
    <2>3. msg # 0 /\ g_cache_len < CacheSize /\ g_cache_len > 0
      BY <2>1, Constants DEF Fits
    <2>4. QED
      BY <2>1, <2>2, <2>3 DEF WriterInv
  <1>6. QED
    BY <1>1, <1>2, <1>3, <1>4, <1>5 DEF WriterStep

-----------------------------------------------------------------------------
(* The reader.                                                             *)

(* A cache that is ready stays so, and a message that was there once       *)
(* leaves a length that fits.                                              *)
LEMMA WriterSparesReader == TypeOK /\ WriterInv /\ ReaderInv /\ WriterStep => ReaderInv'
  <1> SUFFICES ASSUME TypeOK, WriterInv, ReaderInv, WriterStep PROVE ReaderInv'
    OBVIOUS
  <1>1. disturbed' = TRUE /\ UNCHANGED readerVars
    BY DEF WriterStep, WriteRequest, ClearByte, CopyByteIn, SetLength, SetReady
  <1>2. g_cache_ready => g_cache_ready'
    BY DEF WriterStep, WriteRequest, ClearByte, CopyByteIn, SetLength, SetReady, cacheVars
  <1>3. QED
    BY <1>1, <1>2 DEF ReaderInv, readerVars

LEMMA ReaderKeeps == TypeOK /\ WriterInv /\ ReaderInv /\ ReaderStep => ReaderInv'
  <1> SUFFICES ASSUME TypeOK, WriterInv, ReaderInv, ReaderStep PROVE ReaderInv'
    OBVIOUS
  <1>t. /\ r \in Nat /\ n \in Nat /\ g_cache_len \in Nat /\ g_cache_len < CacheSize
        /\ buf \in [Bytes -> {NUL} \cup Messages]
        /\ \A i \in Bytes : i \in Nat
        /\ g_cache_ready => g_cache_len > 0
    BY Constants DEF TypeOK, WriterInv, Bytes
  <1> USE DEF cacheVars, writerVars
  <1>1. CASE ReceivePacket
    <2>1. /\ rpc' = "check" /\ r' = 0 /\ ended' = -1 /\ disturbed' = (wpc # "idle") /\ wpc' = wpc
          /\ buf' = [i \in Bytes |-> NUL]
      BY <1>1 DEF ReceivePacket, Bytes
    <2>2. /\ \A i \in 0..(BufSize - 1) : buf'[i] = NUL
          /\ ended' < CacheSize
      BY <2>1, Constants DEF Bytes
    <2>3. rpc' # "idle" /\ ~disturbed' => wpc' = "idle"
      BY <2>1
    <2>4. rpc' = "check"
      BY <2>1
    <2>5. QED
      BY <2>1, <2>2, <2>3, <2>4 DEF ReaderInv
  <1>2. CASE GetRefuses
    BY <1>2 DEF GetRefuses, ReaderInv
  <1>3. CASE GetStarts
    BY <1>3, <1>t DEF GetStarts, ReaderInv, Bytes
  <1>4. CASE LoadLength
    BY <1>4, <1>t DEF LoadLength, ReaderInv, Bytes
  <1>5. CASE CopyByteOut
    <2>1. /\ rpc = "memcpy" /\ g_cache_ready /\ r < n /\ n < CacheSize
          /\ buf' = [buf EXCEPT ![r] = g_cache[r]] /\ r' = r + 1
          /\ rpc' = (IF r + 1 = n THEN "terminate" ELSE "memcpy")
          /\ UNCHANGED <<g_cache, g_cache_len, g_cache_ready, wpc, latest, n, ended, disturbed>>
      BY <1>5 DEF CopyByteOut, ReaderInv
    <2>2. ASSUME ~disturbed
          PROVE  /\ wpc = "idle" /\ g_cache_len < BufSize /\ n = g_cache_len
                 /\ \A i \in Bytes : buf'[i] = IF i < r + 1 THEN latest ELSE NUL
      <3>1. /\ wpc = "idle" /\ g_cache_len < BufSize /\ n = g_cache_len
            /\ \A i \in Bytes : buf[i] = IF i < r THEN latest ELSE NUL
        BY <2>1, <2>2 DEF ReaderInv, Bytes
      <3>2. g_cache = Filled(latest) /\ g_cache_len = Lengths[latest]
        BY <2>1, <3>1 DEF WriterInv
      <3>3. r \in Cells /\ r < Lengths[latest]
        BY <1>t, <2>1, <3>1, <3>2, Constants DEF Cells
      <3>4. g_cache[r] = latest
        BY <3>2, <3>3 DEF Filled
      <3>5. QED
        BY <1>t, <2>1, <3>1, <3>4
    <2>3. rpc' = "memcpy" => r' < n
      BY <1>t, <2>1
    <2>4. QED
      BY <2>1, <2>2, <2>3 DEF ReaderInv, Bytes
  <1>6. CASE Terminate
    <2>1. /\ rpc = "terminate" /\ g_cache_ready /\ ended' = g_cache_len /\ rpc' = "send"
          /\ \A i \in Bytes : buf'[i] = IF i = g_cache_len THEN NUL ELSE buf[i]
          /\ UNCHANGED <<g_cache, g_cache_len, g_cache_ready, wpc, latest, n, r, disturbed>>
      BY <1>6, <1>t DEF Terminate, ReaderInv
    <2>2. ASSUME ~disturbed
          PROVE  /\ wpc = "idle" /\ g_cache_len < BufSize /\ n = g_cache_len /\ r = n
                 /\ \A i \in Bytes : buf'[i] = IF i < r THEN latest ELSE NUL
      <3>1. /\ wpc = "idle" /\ g_cache_len < BufSize /\ n = g_cache_len /\ r = n
            /\ \A i \in Bytes : buf[i] = IF i < r THEN latest ELSE NUL
        BY <2>1, <2>2 DEF ReaderInv, Bytes
      <3>2. QED
        BY <1>t, <2>1, <3>1
    <2>3. QED
      BY <1>t, <2>1, <2>2 DEF ReaderInv, Bytes
  <1>7. CASE Send
    BY <1>7 DEF Send, ReaderInv
  <1>8. QED
    BY <1>1, <1>2, <1>3, <1>4, <1>5, <1>6, <1>7 DEF ReaderStep

LEMMA InitCache == Init => CacheInv
  <1>1. Init => WriterInv /\ ReaderInv
    BY Constants DEF Init, WriterInv, ReaderInv
  <1>2. QED
    BY <1>1, InitType DEF CacheInv

LEMMA NextCache == CacheInv /\ [Next]_vars => CacheInv'
  <1> SUFFICES ASSUME CacheInv, [Next]_vars PROVE CacheInv'
    OBVIOUS
  <1>t. TypeOK /\ WriterInv /\ ReaderInv
    BY DEF CacheInv
  <1>1. CASE WriterStep
    BY <1>t, <1>1, WriterType, WriterKeeps, WriterSparesReader DEF CacheInv
  <1>2. CASE ReaderStep
    <2>1. UNCHANGED <<cacheVars, writerVars>>
      BY <1>2 DEF ReaderStep, ReceivePacket, GetRefuses, GetStarts, LoadLength, CopyByteOut, Terminate, Send
    <2>2. WriterInv'
      BY <1>t, <2>1 DEF cacheVars, writerVars, WriterInv, Fits, Filled
    <2>3. QED
      BY <1>t, <1>2, <2>2, ReaderType, ReaderKeeps DEF CacheInv
  <1>3. CASE UNCHANGED vars
    BY <1>t, <1>3
       DEF vars, cacheVars, writerVars, readerVars, CacheInv, TypeOK, WriterInv, ReaderInv, Fits, Filled
  <1>4. QED
    BY <1>1, <1>2, <1>3 DEF Next

LEMMA CacheHolds == Spec => []CacheInv
  BY InitCache, NextCache, PTL DEF Spec

-----------------------------------------------------------------------------
(* The safety properties.                                                  *)

(* Every variable keeps its type: in particular no byte is copied from     *)
(* outside the cache, however writer and reader interleave                 *)
(* (telemetry_cache.c:25-44).                                              *)
THEOREM TypeCorrect == Spec => []TypeOK
  <1>1. CacheInv => TypeOK
    BY DEF CacheInv
  <1>2. QED
    BY <1>1, CacheHolds, PTL

(* A read the writer stays out of returns the last message, whole,         *)
(* whatever was torn before it (telemetry_cache.c:25-44).                  *)
THEOREM QuietReadsAreLatest == Spec => []QuietReadIsLatest
  <1>1. CacheInv => QuietReadIsLatest
    <2> SUFFICES ASSUME CacheInv, rpc = "send", ~disturbed PROVE Whole(latest)
      BY DEF QuietReadIsLatest
    <2>1. /\ g_cache_ready /\ wpc = "idle" /\ g_cache_len < BufSize /\ n = g_cache_len /\ r = n
          /\ \A i \in Bytes : buf[i] = IF i < r THEN latest ELSE NUL
      BY DEF CacheInv, ReaderInv, Bytes
    <2>2. Fits(latest) /\ g_cache_len = Lengths[latest]
      BY <2>1 DEF CacheInv, WriterInv
    <2>3. latest # NUL /\ Lengths[latest] \in Nat /\ latest \in Messages
      BY <2>2, Constants DEF Fits, NUL
    <2>4. DOMAIN buf = Bytes
      BY DEF CacheInv, TypeOK, Bytes
    <2>5. \A i \in Bytes : buf[i] # NUL <=> i < Lengths[latest]
      BY <2>1, <2>2, <2>3
    <2>6. Answer = 0..(Lengths[latest] - 1)
      <3>1. ASSUME NEW i \in Answer PROVE i \in 0..(Lengths[latest] - 1)
        <4>1. i \in Bytes /\ i \in 0..i /\ i \in Nat
          BY <2>4 DEF Answer, Bytes
        <4>2. buf[i] # NUL
          BY <4>1 DEF Answer
        <4>3. QED
          BY <2>3, <2>5, <4>1, <4>2
      <3>2. ASSUME NEW i \in 0..(Lengths[latest] - 1) PROVE i \in Answer
        <4>1. i \in Bytes
          BY <2>1, <2>2, <2>3, Constants DEF Bytes
        <4>2. ASSUME NEW j \in 0..i PROVE buf[j] # NUL
          <5>1. j \in Bytes /\ j < Lengths[latest]
            BY <2>3, <4>1, Constants DEF Bytes
          <5>2. QED
            BY <2>5, <5>1
        <4>3. QED
          BY <2>4, <4>1, <4>2 DEF Answer
      <3>3. QED
        BY <3>1, <3>2
    <2>7. \A i \in Answer : buf[i] = latest
      BY <2>1, <2>2, <2>3, <2>4, <2>6 DEF Answer
    <2>8. QED
      BY <2>6, <2>7 DEF Whole
  <1>2. QED
    BY <1>1, CacheHolds, PTL

(* The terminator falls inside the buffer as long as the buffer is no      *)
(* smaller than the cache, as it is (telemetry_cache.c:12 and 42,          *)
(* udp_bridge.c:20): the check of the length alone would not do.           *)
THEOREM TerminatorStaysInside ==
  ASSUME CacheSize <= BufSize
  PROVE  Spec => []TerminatorInside
  <1>1. CacheInv => TerminatorInside
    <2> SUFFICES ASSUME CacheInv PROVE ended < BufSize
      BY DEF TerminatorInside
    <2>1. ended < CacheSize /\ ended \in Int
      BY DEF CacheInv, ReaderInv, TypeOK
    <2>2. QED
      BY <2>1, Constants, CacheSize <= BufSize
  <1>2. QED
    BY <1>1, CacheHolds, PTL

-----------------------------------------------------------------------------
(* The order of what is read: the messages of the cache against those the  *)
(* reader has copied and those the phone knows of.                         *)

LEMMA Below ==
  ASSUME NEW i \in Bytes, NEW j \in 0..i
  PROVE  j \in Bytes /\ j \in Nat /\ i \in Nat /\ j <= i
  BY Constants DEF Bytes

LEMMA InitOrder == Init => OrderInv
  BY DEF Init, OrderInv

(* A step of the writer that takes nothing in: cells are cleared or stay.  *)
LEMMA OrderCleared ==
  ASSUME OrderInv, UNCHANGED <<readerVars, known, latest>>, msg <= msg',
         msg \in Nat, msg' \in Nat, latest \in Nat, known \in Nat, buf \in [Bytes -> Nat], g_cache \in [Cells -> Nat],
         \A c \in Cells : g_cache'[c] \in {NUL, g_cache[c]}
  PROVE  OrderInv'
  <1>1. UNCHANGED <<rpc, buf, r, known, latest>>
    BY DEF readerVars
  <1>2. latest' <= msg' /\ known' <= msg'
    BY <1>1 DEF OrderInv
  <1>3. ASSUME NEW c \in Cells, g_cache'[c] # NUL
        PROVE  g_cache[c] # NUL /\ g_cache'[c] = g_cache[c] /\ latest <= g_cache[c] /\ known <= g_cache[c]
               /\ g_cache[c] <= msg'
    BY <1>3 DEF OrderInv
  <1>7. \A c, d \in Cells : g_cache'[c] # NUL /\ g_cache'[d] # NUL => g_cache'[c] = g_cache'[d]
    BY <1>3 DEF OrderInv
  <1>4. ASSUME rpc # "idle", NEW i \in Bytes, buf[i] # NUL
        PROVE  /\ known <= buf[i] /\ buf[i] <= msg'
               /\ \A c \in Cells : g_cache'[c] # NUL => buf[i] <= g_cache'[c]
               /\ \A j \in 0..i : buf[j] # NUL => buf[j] <= buf[i]
    BY <1>3, <1>4 DEF OrderInv, Bytes
  <1>5. rpc \in {"load", "memcpy"} => \A i \in Bytes : buf[i] # NUL => i < r
    BY DEF OrderInv, Bytes
  <1>6. QED
    BY <1>1, <1>2, <1>3, <1>4, <1>5, <1>7 DEF OrderInv, Bytes

LEMMA WriterOrder == TypeOK /\ WriterInv /\ OrderInv /\ WriterStep => OrderInv'
  <1> SUFFICES ASSUME TypeOK, WriterInv, OrderInv, WriterStep PROVE OrderInv'
    OBVIOUS
  <1>t. /\ msg \in Nat /\ latest \in Nat /\ known \in Nat /\ w \in Nat
        /\ buf \in [Bytes -> Nat] /\ g_cache \in [Cells -> Nat]
    BY Constants DEF TypeOK, Bytes, Messages, NUL
  <1>k. known' = known
    BY DEF WriterStep
  <1>1. CASE WriteRequest
    <2>1. msg' = msg + 1 /\ UNCHANGED <<g_cache, latest, readerVars>>
      BY <1>1 DEF WriteRequest, cacheVars
    <2>2. QED
      BY <1>k, <1>t, <2>1, OrderCleared
  <1>2. CASE ClearByte
    <2>1. msg' = msg /\ g_cache' = [g_cache EXCEPT ![w] = NUL] /\ UNCHANGED <<latest, readerVars>>
      BY <1>2 DEF ClearByte
    <2>2. \A c \in Cells : g_cache'[c] \in {NUL, g_cache[c]}
      BY <1>t, <2>1
    <2>3. QED
      BY <1>k, <1>t, <2>1, <2>2, OrderCleared
  <1>3. CASE CopyByteIn
    <2>1. /\ \A c \in Cells : g_cache[c] \in {NUL, msg}
          /\ g_cache' = [g_cache EXCEPT ![w] = msg]
          /\ UNCHANGED <<msg, latest, rpc, buf, r>>
      BY <1>3 DEF CopyByteIn, WriterInv, readerVars
    <2>2. \A c \in Cells : g_cache'[c] # NUL => g_cache'[c] = msg
      BY <1>t, <2>1
    <2>3. latest <= msg /\ known <= msg
      BY DEF OrderInv
    <2>4. ASSUME rpc # "idle", NEW i \in Bytes, buf[i] # NUL
          PROVE  /\ known <= buf[i] /\ buf[i] <= msg
                 /\ \A c \in Cells : g_cache'[c] # NUL => buf[i] <= g_cache'[c]
                 /\ \A j \in 0..i : buf[j] # NUL => buf[j] <= buf[i]
      BY <2>2, <2>4 DEF OrderInv, Bytes
    <2>5. rpc \in {"load", "memcpy"} => \A i \in Bytes : buf[i] # NUL => i < r
      BY DEF OrderInv, Bytes
    <2>6. ASSUME NEW c \in Cells, g_cache'[c] # NUL
          PROVE  latest <= g_cache'[c] /\ known <= g_cache'[c] /\ g_cache'[c] <= msg
      BY <1>t, <2>2, <2>3, <2>6
    <2>7. QED
      BY <1>k, <2>1, <2>3, <2>4, <2>5, <2>6 DEF OrderInv, Bytes
  <1>4. CASE SetLength
    <2>1. UNCHANGED <<g_cache, msg, latest, readerVars>>
      BY <1>4 DEF SetLength
    <2>2. QED
      BY <1>k, <1>t, <2>1, OrderCleared
  <1>5. CASE SetReady
    <2>1. latest' = msg /\ g_cache = Filled(msg) /\ UNCHANGED <<g_cache, msg, rpc, buf, r>>
      BY <1>5 DEF SetReady, WriterInv, readerVars
    <2>2. \A c \in Cells : g_cache[c] # NUL => g_cache[c] = msg
      BY <2>1 DEF Filled
    <2>3. QED
      BY <1>k, <1>t, <2>1, <2>2 DEF OrderInv
  <1>6. QED
    BY <1>1, <1>2, <1>3, <1>4, <1>5 DEF WriterStep

LEMMA ReaderOrder == TypeOK /\ ReaderInv /\ OrderInv /\ ReaderStep => OrderInv'
  <1> SUFFICES ASSUME TypeOK, ReaderInv, OrderInv, ReaderStep PROVE OrderInv'
    OBVIOUS
  <1>t. /\ msg \in Nat /\ latest \in Nat /\ known \in Nat /\ r \in Nat /\ n \in Nat
        /\ buf \in [Bytes -> Nat] /\ g_cache \in [Cells -> Nat]
        /\ \A i \in Bytes : i \in Nat
    BY Constants DEF TypeOK, Bytes, Messages, NUL
  <1>u. UNCHANGED <<g_cache, msg, latest>>
    BY DEF ReaderStep, ReceivePacket, GetRefuses, GetStarts, LoadLength, CopyByteOut, Terminate, Send,
       cacheVars, writerVars
  <1>1. CASE ReceivePacket
    <2>1. /\ rpc' = "check" /\ known' = (IF latest > known THEN latest ELSE known)
          /\ \A i \in 0..(BufSize - 1) : buf'[i] = NUL
      BY <1>1 DEF ReceivePacket
    <2>2. QED
      BY <1>t, <1>u, <2>1 DEF OrderInv
  <1>2. CASE GetRefuses
    BY <1>2, <1>u DEF GetRefuses, OrderInv
  <1>3. CASE GetStarts
    <2>1. rpc = "check" /\ rpc' = "load" /\ UNCHANGED <<buf, r, known>>
      BY <1>3 DEF GetStarts
    <2>2. \A i \in 0..(BufSize - 1) : buf[i] = NUL
      BY <2>1 DEF ReaderInv
    <2>3. QED
      BY <1>u, <2>1, <2>2 DEF OrderInv
  <1>4. CASE LoadLength
    BY <1>4, <1>u DEF LoadLength, OrderInv
  <1>5. CASE CopyByteOut
    <2>1. /\ rpc = "memcpy" /\ r < n /\ n < CacheSize
          /\ buf' = [buf EXCEPT ![r] = g_cache[r]] /\ r' = r + 1
          /\ rpc' \in {"terminate", "memcpy"} /\ known' = known
      BY <1>5 DEF CopyByteOut, ReaderInv
    <2>2. r \in Cells
      BY <1>t, <2>1, Constants DEF Cells
    <2>3. ASSUME NEW i \in Bytes, i # r PROVE buf'[i] = buf[i]
      BY <1>t, <2>1, <2>3
    <2>4. r \in Bytes => buf'[r] = g_cache[r]
      BY <1>t, <2>1
    <2>5. ASSUME NEW i \in Bytes, buf[i] # NUL
          PROVE  /\ i < r /\ known <= buf[i] /\ buf[i] <= msg
                 /\ \A c \in Cells : g_cache[c] # NUL => buf[i] <= g_cache[c]
                 /\ \A j \in 0..i : buf[j] # NUL => buf[j] <= buf[i]
      BY <2>1, <2>5 DEF OrderInv, Bytes
    <2>6. ASSUME NEW i \in Bytes, buf'[i] # NUL
          PROVE  /\ i < r' /\ known <= buf'[i] /\ buf'[i] <= msg
                 /\ \A c \in Cells : g_cache[c] # NUL => buf'[i] <= g_cache[c]
                 /\ \A j \in 0..i : buf'[j] # NUL => buf'[j] <= buf'[i]
      <3>1. CASE i # r
        <4>1. buf'[i] = buf[i] /\ i < r
          BY <2>3, <2>5, <2>6, <3>1
        <4>2. ASSUME NEW j \in 0..i PROVE buf'[j] = buf[j]
          <5>1. j \in Bytes /\ j # r
            BY <1>t, <4>1, Below
          <5>2. QED
            BY <2>3, <5>1
        <4>3. QED
          BY <1>t, <2>1, <2>5, <2>6, <4>1, <4>2
      <3>2. CASE i = r
        <4>1. buf'[i] = g_cache[r] /\ g_cache[r] # NUL
          BY <2>4, <2>6, <3>2
        <4>2. known <= g_cache[r] /\ g_cache[r] <= msg
          BY <2>2, <4>1 DEF OrderInv
        <4>3. \A c \in Cells : g_cache[c] # NUL => g_cache[r] <= g_cache[c]
          <5>1. ASSUME NEW c \in Cells, g_cache[c] # NUL PROVE g_cache[r] <= g_cache[c]
            <6>1. g_cache[c] = g_cache[r]
              BY <2>2, <4>1, <5>1 DEF OrderInv
            <6>2. QED
              BY <1>t, <2>2, <6>1
          <5>2. QED
            BY <5>1
        <4>4. ASSUME NEW j \in 0..i, buf'[j] # NUL PROVE buf'[j] <= buf'[i]
          <5>1. CASE j = i
            BY <1>t, <2>2, <3>2, <4>1, <5>1
          <5>2. CASE j # i
            <6>1. j \in Bytes /\ j # r
              BY <3>2, <5>2, Below
            <6>2. buf'[j] = buf[j]
              BY <2>3, <6>1
            <6>3. QED
              BY <2>2, <2>5, <4>1, <4>4, <6>1, <6>2
          <5>3. QED
            BY <5>1, <5>2
        <4>5. i < r'
          BY <1>t, <2>1, <3>2
        <4>6. QED
          BY <4>1, <4>2, <4>3, <4>4, <4>5
      <3>3. QED
        BY <3>1, <3>2
    <2>7. QED
      BY <1>u, <2>1, <2>6 DEF OrderInv, Bytes
  <1>6. CASE Terminate
    <2>1. /\ rpc = "terminate" /\ rpc' = "send" /\ known' = known
          /\ \A i \in Bytes : buf'[i] \in {NUL, buf[i]}
      BY <1>6, <1>t DEF Terminate
    <2>2. ASSUME NEW i \in Bytes, buf'[i] # NUL
          PROVE  /\ known <= buf'[i] /\ buf'[i] <= msg
                 /\ \A c \in Cells : g_cache[c] # NUL => buf'[i] <= g_cache[c]
                 /\ \A j \in 0..i : buf'[j] # NUL => buf'[j] <= buf'[i]
      <3>1. buf'[i] = buf[i] /\ buf[i] # NUL
        BY <2>1, <2>2
      <3>2. /\ known <= buf[i] /\ buf[i] <= msg
            /\ \A c \in Cells : g_cache[c] # NUL => buf[i] <= g_cache[c]
            /\ \A j \in 0..i : buf[j] # NUL => buf[j] <= buf[i]
        BY <2>1, <3>1 DEF OrderInv, Bytes
      <3>3. ASSUME NEW j \in 0..i, buf'[j] # NUL PROVE buf'[j] = buf[j]
        <4>1. j \in Bytes
          BY Below
        <4>2. QED
          BY <2>1, <3>3, <4>1
      <3>4. QED
        BY <3>1, <3>2, <3>3
    <2>3. QED
      BY <1>u, <2>1, <2>2 DEF OrderInv, Bytes
  <1>7. CASE Send
    <2>1. rpc = "send" /\ rpc' = "idle" /\ known' \in {known} \cup {buf[i] : i \in Answer}
      BY <1>7 DEF Send
    <2>2. ASSUME NEW i \in Answer PROVE i \in Bytes /\ buf[i] # NUL
      BY <1>t, <2>2 DEF Answer
    <2>3. known' <= msg /\ \A c \in Cells : g_cache[c] # NUL => known' <= g_cache[c]
      <3>1. CASE known' = known
        BY <3>1 DEF OrderInv
      <3>2. CASE known' # known
        <4>1. PICK i \in Answer : known' = buf[i]
          BY <2>1, <3>2
        <4>2. QED
          BY <2>1, <2>2, <4>1 DEF OrderInv, Bytes
      <3>3. QED
        BY <3>1, <3>2
    <2>4. QED
      BY <1>u, <2>1, <2>3 DEF OrderInv
  <1>8. QED
    BY <1>1, <1>2, <1>3, <1>4, <1>5, <1>6, <1>7 DEF ReaderStep

(* An answer the writer tears is mixed in one way only, old bytes before   *)
(* newer ones, and shows nothing older than what was complete when the     *)
(* packet came or was answered before: for every size of cache and buffer  *)
(* and every sequence of messages (telemetry_cache.c:30-43).               *)
THEOREM NoAnswerGoesBackEver == Spec => []NoAnswerGoesBack
  <1>1. Init => CacheInv /\ OrderInv
    BY InitCache, InitOrder
  <1>2. CacheInv /\ OrderInv /\ [Next]_vars => (CacheInv /\ OrderInv)'
    <2> SUFFICES ASSUME CacheInv, OrderInv, [Next]_vars PROVE OrderInv'
      BY NextCache
    <2>1. CASE WriterStep
      BY <2>1, WriterOrder DEF CacheInv
    <2>2. CASE ReaderStep
      BY <2>2, ReaderOrder DEF CacheInv
    <2>3. CASE UNCHANGED vars
      BY <2>3 DEF vars, cacheVars, writerVars, readerVars, OrderInv
    <2>4. QED
      BY <2>1, <2>2, <2>3 DEF Next
  <1>3. CacheInv /\ OrderInv => NoAnswerGoesBack
    <2> SUFFICES ASSUME CacheInv, OrderInv, rpc = "send", NEW i \in Answer, NEW j \in Answer
                 PROVE  known <= buf[i] /\ (i <= j => buf[i] <= buf[j])
      BY DEF NoAnswerGoesBack
    <2>1. i \in Bytes /\ buf[i] # NUL /\ j \in Bytes /\ buf[j] # NUL
      BY DEF Answer, CacheInv, TypeOK, Bytes
    <2>2. i <= j => i \in 0..j
      BY <2>1, Constants DEF Bytes
    <2>3. QED
      BY <2>1, <2>2 DEF OrderInv, Bytes
  <1>4. QED
    BY <1>1, <1>2, <1>3, PTL DEF Spec
=============================================================================
