------------------------------ MODULE GatewayCache ------------------------------
(***************************************************************************)
(* The telemetry cache of the BearPi gateway: telemetry_cache.c, written   *)
(* by the SLE write callback (gateway_main.c) and read by the UDP task for *)
(* every packet it answers (udp_bridge.c).                                 *)
(*                                                                         *)
(* The two run on different tasks and share the globals without a lock, so *)
(* they interleave at every byte copied and at every access of the length. *)
(***************************************************************************)
EXTENDS Integers, Sequences

CONSTANTS CacheSize,      \* TELEMETRY_CACHE_SIZE
          BufSize,        \* UDP_TELEM_BUF_SIZE
          Lengths         \* lengths of the messages the car writes, in order

ASSUME CacheAssumption ==
  /\ CacheSize \in Nat \ {0}
  /\ BufSize \in Nat \ {0}
  /\ Lengths \in Seq(Nat)

Messages == 1..Len(Lengths)
Cells == 0..(CacheSize - 1)
NUL   == 0                      \* a cell holds NUL or a byte of a message

VARIABLES
  g_cache, g_cache_len, g_cache_ready,
  wpc, msg, w,          \* the writer: where, on which message, at which byte
  rpc, buf, n, r,       \* the reader: where, its buffer, the length it loaded, the byte
  ended,                \* where the reader stored its terminator, or -1
  latest,               \* the last message that telemetry_cache_update has put in
  disturbed,            \* the writer has run since the reader started
  known                 \* history: a message the phone has reason to know of

cacheVars  == <<g_cache, g_cache_len, g_cache_ready>>
writerVars == <<wpc, msg, w, latest>>
readerVars == <<rpc, buf, n, r, ended>>
vars == <<cacheVars, writerVars, readerVars, disturbed, known>>

TypeOK ==
  /\ g_cache \in [Cells -> {NUL} \cup Messages]
  /\ g_cache_len \in Nat
  /\ g_cache_ready \in BOOLEAN
  /\ wpc \in {"idle", "memset", "memcpy", "length", "ready"}
  /\ msg \in {0} \cup Messages
  /\ w \in 0..CacheSize
  /\ rpc \in {"idle", "check", "load", "memcpy", "terminate", "send"}
  /\ buf \in [0..(BufSize - 1) -> {NUL} \cup Messages]
  /\ n \in Nat /\ r \in Nat
  /\ ended \in {-1} \cup Nat
  /\ latest \in {0} \cup Messages
  /\ disturbed \in BOOLEAN
  /\ known \in {0} \cup Messages

Init ==
  /\ g_cache = [i \in Cells |-> NUL] /\ g_cache_len = 0 /\ g_cache_ready = FALSE
  /\ wpc = "idle" /\ msg = 0 /\ w = 0 /\ latest = 0
  /\ rpc = "idle" /\ buf = [i \in 0..(BufSize - 1) |-> NUL] /\ n = 0 /\ r = 0 /\ ended = -1
  /\ disturbed = FALSE /\ known = 0

-----------------------------------------------------------------------------
(* The SLE write callback.                                                 *)

\* Mutant of WriteRequest: a message that fills the cache is let in.
WriteRequestFull ==
  /\ wpc = "idle"
  /\ msg < Len(Lengths)
  /\ msg' = msg + 1
  /\ w' = 0
  /\ wpc' = IF Lengths[msg + 1] = 0 \/ Lengths[msg + 1] > CacheSize THEN "idle" ELSE "memset"
  /\ UNCHANGED <<cacheVars, latest, readerVars>>

\* Mutant of WriteRequest: the new message is copied over the old one.
WriteRequestOver ==
  /\ wpc = "idle"
  /\ msg < Len(Lengths)
  /\ msg' = msg + 1
  /\ w' = 0
  /\ wpc' = IF Lengths[msg + 1] = 0 \/ Lengths[msg + 1] >= CacheSize THEN "idle" ELSE "memcpy"
  /\ UNCHANGED <<cacheVars, latest, readerVars>>

\* telemetry_cache_update refuses what does not fit with a terminator.
WriteRequest ==
  /\ wpc = "idle"
  /\ msg < Len(Lengths)
  /\ msg' = msg + 1
  /\ w' = 0
  /\ wpc' = IF Lengths[msg + 1] = 0 \/ Lengths[msg + 1] >= CacheSize THEN "idle" ELSE "memset"
  /\ UNCHANGED <<cacheVars, latest, readerVars>>

\* Mutant of ClearByte: one byte too many.
ClearByteTooMany ==
  /\ wpc = "memset"
  /\ g_cache' = [g_cache EXCEPT ![w] = NUL]
  /\ w' = IF w > CacheSize THEN 0 ELSE w + 1
  /\ wpc' = IF w > CacheSize THEN "memcpy" ELSE "memset"
  /\ UNCHANGED <<g_cache_len, g_cache_ready, msg, latest, readerVars>>

ClearByte ==
  /\ wpc = "memset"
  /\ g_cache' = [g_cache EXCEPT ![w] = NUL]
  /\ w' = IF w + 1 = CacheSize THEN 0 ELSE w + 1
  /\ wpc' = IF w + 1 = CacheSize THEN "memcpy" ELSE "memset"
  /\ UNCHANGED <<g_cache_len, g_cache_ready, msg, latest, readerVars>>

CopyByteIn ==
  /\ wpc = "memcpy"
  /\ g_cache' = [g_cache EXCEPT ![w] = msg]
  /\ w' = w + 1
  /\ wpc' = IF w + 1 = Lengths[msg] THEN "length" ELSE "memcpy"
  /\ UNCHANGED <<g_cache_len, g_cache_ready, msg, latest, readerVars>>

\* Mutant of SetLength: the length is set by the first message only.
SetLengthOnce ==
  /\ wpc = "length"
  /\ g_cache_len' = IF g_cache_ready THEN g_cache_len ELSE Lengths[msg]
  /\ wpc' = "ready"
  /\ UNCHANGED <<g_cache, g_cache_ready, msg, w, latest, readerVars>>

SetLength ==
  /\ wpc = "length"
  /\ g_cache_len' = Lengths[msg]
  /\ wpc' = "ready"
  /\ UNCHANGED <<g_cache, g_cache_ready, msg, w, latest, readerVars>>

SetReady ==
  /\ wpc = "ready"
  /\ g_cache_ready' = TRUE
  /\ latest' = msg
  /\ wpc' = "idle"
  /\ UNCHANGED <<g_cache, g_cache_len, msg, w, readerVars>>

WriterStep ==
  /\ WriteRequest \/ ClearByte \/ CopyByteIn \/ SetLength \/ SetReady
  /\ disturbed' = TRUE
  /\ UNCHANGED known

-----------------------------------------------------------------------------
(* The UDP task.                                                           *)

\* udp_bridge_handle_packet has received a packet and clears its buffer.  Whoever
\* asks now can expect what is complete by now.
ReceivePacket ==
  /\ rpc = "idle"
  /\ buf' = [i \in 0..(BufSize - 1) |-> NUL]
  /\ r' = 0 /\ n' = 0 /\ ended' = -1
  /\ disturbed' = (wpc # "idle")
  /\ known' = IF latest > known THEN latest ELSE known
  /\ rpc' = "check"
  /\ UNCHANGED <<cacheVars, writerVars>>

\* telemetry_cache_get: nothing cached yet, or too long: no answer is sent.
GetRefuses ==
  /\ rpc = "check"
  /\ ~g_cache_ready \/ BufSize <= g_cache_len
  /\ rpc' = "idle"
  /\ UNCHANGED <<cacheVars, writerVars, buf, n, r, ended, disturbed, known>>

GetStarts ==
  /\ rpc = "check"
  /\ g_cache_ready /\ g_cache_len < BufSize
  /\ rpc' = "load"
  /\ UNCHANGED <<cacheVars, writerVars, buf, n, r, ended, disturbed, known>>

\* The length to copy is loaded apart from the length that was checked.
LoadLength ==
  /\ rpc = "load"
  /\ n' = g_cache_len
  /\ rpc' = "memcpy"
  /\ UNCHANGED <<cacheVars, writerVars, buf, r, ended, disturbed, known>>

CopyByteOut ==
  /\ rpc = "memcpy"
  /\ buf' = [buf EXCEPT ![r] = g_cache[r]]
  /\ r' = r + 1
  /\ rpc' = IF r + 1 = n THEN "terminate" ELSE "memcpy"
  /\ UNCHANGED <<cacheVars, writerVars, n, ended, disturbed, known>>

\* buf[g_cache_len] = '\0' and the return load the length once more; it is not
\* zero, for a cache that is ready holds a message.
Terminate ==
  /\ rpc = "terminate"
  /\ ended' = g_cache_len
  /\ buf' = [i \in DOMAIN buf |-> IF i = g_cache_len THEN NUL ELSE buf[i]]
  /\ rpc' = "send"
  /\ UNCHANGED <<cacheVars, writerVars, n, r, disturbed, known>>

\* sendto: the text up to its first NUL.
Answer == {i \in DOMAIN buf : \A j \in 0..i : buf[j] # NUL}

\* The phone knows of every message it has had a byte of; known is any of them.
Send ==
  /\ rpc = "send"
  /\ rpc' = "idle"
  /\ known' \in {known} \cup {buf[i] : i \in Answer}
  /\ UNCHANGED <<cacheVars, writerVars, buf, n, r, ended, disturbed>>

ReaderStep == ReceivePacket \/ GetRefuses \/ GetStarts \/ LoadLength \/ CopyByteOut \/ Terminate \/ Send

Next == WriterStep \/ ReaderStep

Spec == Init /\ [][Next]_vars

\* Both tasks run when they are ready, and the phone keeps asking.
FairSpec == Spec /\ WF_vars(WriterStep) /\ WF_vars(ReaderStep)

-----------------------------------------------------------------------------
(* Properties.                                                             *)

\* The answer is one message, whole.
Whole(m) == /\ Answer = 0..(Lengths[m] - 1)
            /\ \A i \in Answer : buf[i] = m

\* A read the writer stays out of returns the message written last, whole,
\* whatever reads and writes were torn before (telemetry_cache.c:25-44).
QuietReadIsLatest == rpc = "send" /\ ~disturbed => Whole(latest)

\* A torn answer is mixed in one way only: bytes of a message are followed by
\* bytes of later ones, and none is older than the message complete when the
\* packet came or than any byte answered before (telemetry_cache.c:30-43).
NoAnswerGoesBack ==
  rpc = "send" =>
    \A i, j \in Answer : known <= buf[i] /\ (i <= j => buf[i] <= buf[j])

\* The terminator falls inside the reader's buffer, even when the length has
\* changed since it was checked (telemetry_cache.c:38 and 42).
TerminatorInside == ended < BufSize

\* Once the car is silent the phone is answered with its last message for good.
AnswersSettle == <>[](rpc = "send" => Whole(latest))

-----------------------------------------------------------------------------
(* The inductive invariant behind the safety properties.                   *)

\* A message the cache takes, and what the cache holds of it.
Fits(m)   == m \in Messages /\ Lengths[m] \in 1..(CacheSize - 1)
Filled(m) == [i \in Cells |-> IF i < Lengths[m] THEN m ELSE NUL]

\* How far the writer is, and that the length is one of a message once ready.
WriterInv ==
  /\ wpc # "idle" => Fits(msg)
  /\ wpc = "memset" => w < CacheSize /\ \A i \in Cells : i < w => g_cache[i] = NUL
  /\ wpc = "memcpy" =>
       w < Lengths[msg] /\ \A i \in Cells : g_cache[i] = IF i < w THEN msg ELSE NUL
  /\ wpc \in {"length", "ready"} => g_cache = Filled(msg)
  /\ wpc = "ready" => g_cache_len = Lengths[msg]
  /\ wpc = "idle" /\ latest # 0 =>
       Fits(latest) /\ g_cache = Filled(latest) /\ g_cache_len = Lengths[latest]
  /\ g_cache_ready <=> latest # 0
  /\ g_cache_len < CacheSize
  /\ g_cache_ready => g_cache_len > 0

\* How far the reader is, and what it has when the writer has kept out of it.
ReaderInv ==
  /\ rpc \notin {"idle", "check"} => g_cache_ready
  /\ rpc = "memcpy" => r < n /\ n < CacheSize
  /\ ended < CacheSize
  /\ rpc = "check" => r = 0 /\ \A i \in 0..(BufSize - 1) : buf[i] = NUL
  /\ rpc = "load" => r = 0
  /\ rpc # "idle" /\ ~disturbed => wpc = "idle"
  /\ rpc \in {"load", "memcpy", "terminate", "send"} /\ ~disturbed =>
       /\ g_cache_len < BufSize
       /\ rpc # "load" => n = g_cache_len
       /\ rpc \in {"terminate", "send"} => r = n
       /\ \A i \in 0..(BufSize - 1) : buf[i] = IF i < r THEN latest ELSE NUL

CacheInv == TypeOK /\ WriterInv /\ ReaderInv

\* The cache holds bytes of one message at a time, as new as anything known or
\* read of it, and what the reader has copied gets newer with every byte.
OrderInv ==
  /\ \A c, d \in Cells : g_cache[c] # NUL /\ g_cache[d] # NUL => g_cache[c] = g_cache[d]
  /\ latest <= msg /\ known <= msg
  /\ \A c \in Cells : g_cache[c] # NUL => latest <= g_cache[c] /\ known <= g_cache[c] /\ g_cache[c] <= msg
  /\ rpc # "idle" => \A i \in 0..(BufSize - 1) : buf[i] # NUL =>
       /\ known <= buf[i] /\ buf[i] <= msg
       /\ \A c \in Cells : g_cache[c] # NUL => buf[i] <= g_cache[c]
       /\ \A j \in 0..i : buf[j] # NUL => buf[j] <= buf[i]
  /\ rpc \in {"load", "memcpy"} => \A i \in 0..(BufSize - 1) : buf[i] # NUL => i < r
=============================================================================
