--------------------------- MODULE SerialLinkProofs ---------------------------
(***************************************************************************)
(* Theorems about the controller's receive loop on the line, for every     *)
(* magic, frame length and declared length, and whatever bytes arrive.     *)
(***************************************************************************)
EXTENDS SerialLink, SequenceTheorems, TLAPS

\* A header is at least two symbols long.
LEMMA Lengths ==
  /\ Len(Magic) \in Nat \ {0} /\ HeaderLen \in Nat /\ FrameLen \in Nat
  /\ HeaderLen = Len(Magic) + 1 /\ FrameLen = HeaderLen + StateBytes
<1>1. Len(Magic) \in Nat \ {0}
  BY FrameAssumption, LenProperties, EmptySeq
<1> QED BY <1>1, FrameAssumption DEF HeaderLen, FrameLen

\* A header's length field is a number, so that its frame has a size.
LEMMA FrameSizeType ==
  ASSUME ReceiverTypeOK, HasHeader
  PROVE  /\ buf[HeaderLen] \in Bytes /\ Declared[buf[HeaderLen]] \in Nat
         /\ FrameSize \in Nat /\ FrameSize >= HeaderLen /\ HeaderLen > 0
<1>1. HeaderLen \in 1 .. Len(buf)
  BY Lengths DEF HasHeader, ReceiverTypeOK
<1>2. buf[HeaderLen] \in Bytes
  BY <1>1, ElementOfSeq DEF ReceiverTypeOK
<1> QED BY <1>1, <1>2, Lengths, FrameAssumption DEF FrameSize

\* The pixels of a complete frame are bytes.
LEMMA PayloadType ==
  ASSUME ReceiverTypeOK, NEW len \in Nat, HeaderLen + len <= Len(buf)
  PROVE  Payload(len) \in [1 .. StateBytes -> Bytes]
<1>1. ASSUME NEW i \in 1 .. StateBytes, i <= len
      PROVE  buf[HeaderLen + i] \in Bytes
  <2>1. HeaderLen + i \in 1 .. Len(buf)
    BY <1>1, Lengths, FrameAssumption, SMTT(60) DEF ReceiverTypeOK
  <2> QED BY <2>1, ElementOfSeq DEF ReceiverTypeOK
<1>2. Zero \in Bytes
  BY FrameAssumption
<1> QED BY <1>1, <1>2, Zenon DEF Payload

\* clamp_payload_len never lengthens a frame.
LEMMA ClampBound ==
  ASSUME NEW len \in Nat
  PROVE  ClampPayloadLen(len) \in Nat /\ ClampPayloadLen(len) <= len
<1> DEFINE capped == IF len < StateBytes THEN len ELSE StateBytes
<1>1. capped \in Nat /\ capped <= len
  BY FrameAssumption
<1> HIDE DEF capped
<1>2. capped % BytesPerLed \in 0 .. capped
  <2>1. BytesPerLed \in Nat /\ BytesPerLed > 0
    BY FrameAssumption
  <2> QED BY <1>1, <2>1
<1>3. ClampPayloadLen(len) = capped - (capped % BytesPerLed)
  BY Zenon DEF ClampPayloadLen, capped
<1> QED BY <1>1, <1>2, <1>3

-------------------------------------------------------------------------------
(* Types.                                                                     *)

\* What is written to the port are bytes.
LEMMA PortKeepsType ==
  ASSUME ReceiverTypeOK, PortWritten
  PROVE  ReceiverTypeOK'
<1>1. fifo' \in Seq(Bytes)
  <2>1. CASE WriteFrame
    <3>1. PICK p \in Payloads :
                 \E m \in 1 .. Len(Packet(p)) : fifo' = fifo \o SubSeq(Packet(p), 1, m)
      BY <2>1, Zenon DEF WriteFrame
    <3>2. PICK n \in 1 .. Len(Packet(p)) : fifo' = fifo \o SubSeq(Packet(p), 1, n)
      BY <3>1
    <3>3. p \in Seq(Bytes) /\ <<FullLen>> \in Seq(Bytes)
      BY LinkAssumption, FrameAssumption
    <3>4. Packet(p) \in Seq(Bytes)
      BY <3>3, FrameAssumption, ConcatProperties DEF Packet
    <3>5. SubSeq(Packet(p), 1, n) \in Seq(Bytes)
      BY <3>4, SubSeqProperties
    <3> QED BY <3>2, <3>5, ConcatProperties DEF ReceiverTypeOK
  <2>2. CASE WriteNoise
    BY <2>2, LinkAssumption, ConcatProperties DEF WriteNoise, ReceiverTypeOK
  <2> QED BY <2>1, <2>2 DEF PortWritten
<1>2. UNCHANGED <<buf, scanning, frameInProgress, pixels>>
  BY DEF PortWritten
<1> QED BY <1>1, <1>2, Zenon DEF ReceiverTypeOK

\* A read keeps the buffer within its length.
LEMMA ReadType ==
  ASSUME ReceiverTypeOK, ReadFifo, Len(buf) < FrameLen
  PROVE  /\ fifo' \in Seq(Bytes) /\ buf' \in Seq(Bytes) /\ Len(buf') <= FrameLen
         /\ scanning' = TRUE /\ frameInProgress' = frameInProgress /\ pixels' = pixels
         /\ \A i \in 1 .. Len(buf) : buf'[i] = buf[i]
         /\ Len(buf') >= Len(buf)
<1>0. Len(buf) # FrameLen
  BY Lengths, LenProperties DEF ReceiverTypeOK
<1>1. PICK n \in 1 .. Len(fifo) :
             /\ n <= FrameLen - Len(buf)
             /\ buf' = buf \o SubSeq(fifo, 1, n)
             /\ fifo' = SubSeq(fifo, n + 1, Len(fifo))
  BY <1>0, Zenon DEF ReadFifo
<1>2. fifo \in Seq(Bytes) /\ buf \in Seq(Bytes) /\ Len(fifo) \in Nat /\ Len(buf) \in Nat
  BY LenProperties DEF ReceiverTypeOK
<1>3. SubSeq(fifo, 1, n) \in Seq(Bytes) /\ Len(SubSeq(fifo, 1, n)) = n
  BY <1>1, <1>2, SubSeqProperties
<1>4. SubSeq(fifo, n + 1, Len(fifo)) \in Seq(Bytes)
  BY <1>1, <1>2, SubSeqProperties
<1>5. buf' \in Seq(Bytes) /\ Len(buf') = Len(buf) + n
      /\ \A i \in 1 .. Len(buf) : buf'[i] = buf[i]
  BY <1>1, <1>2, <1>3, ConcatProperties
<1>6. scanning' = TRUE /\ frameInProgress' = frameInProgress /\ pixels' = pixels
  BY <1>0, Zenon DEF ReadFifo
<1> QED BY <1>1, <1>2, <1>4, <1>5, <1>6, Lengths

\* A dispatched frame leaves bytes, and shows bytes.
LEMMA DispatchType ==
  ASSUME ReceiverTypeOK, Dispatch
  PROVE  /\ buf' \in Seq(Bytes) /\ Len(buf') <= FrameLen
         /\ pixels' \in [1 .. StateBytes -> Bytes]
<1>1. HasHeader /\ FrameSize <= FrameLen /\ Len(buf) >= FrameSize
  BY DEF Dispatch
<1>2. FrameSize \in Nat /\ HeaderLen \in Nat /\ Declared[buf[HeaderLen]] \in Nat
      /\ FrameSize = HeaderLen + Declared[buf[HeaderLen]]
  BY <1>1, FrameSizeType, Lengths DEF FrameSize
<1>3. buf \in Seq(Bytes) /\ Len(buf) \in Nat /\ Len(buf) <= FrameLen /\ FrameLen \in Nat
  BY LenProperties, Lengths DEF ReceiverTypeOK
<1>4. buf' \in Seq(Bytes) /\ Len(buf') <= FrameLen
  <2>1. buf' = SubSeq(buf, FrameSize + 1, Len(buf))
    BY DEF Dispatch
  <2>2. SubSeq(buf, FrameSize + 1, Len(buf)) \in Seq(Bytes)
    BY <1>2, <1>3, SubSeqProperties
  <2>3. Len(SubSeq(buf, FrameSize + 1, Len(buf))) <= Len(buf)
    BY <1>1, <1>2, <1>3, SubSeqProperties, SMTT(60)
  <2>4. Len(buf') \in Nat
    BY <2>1, <2>2, LenProperties
  <2> QED BY <1>3, <2>1, <2>2, <2>3, <2>4
<1>5. pixels' \in [1 .. StateBytes -> Bytes]
  <2> DEFINE len == ClampPayloadLen(Declared[buf[HeaderLen]])
  <2>1. len \in Nat /\ len <= Declared[buf[HeaderLen]]
    BY <1>2, ClampBound
  <2>2. pixels' = Payload(len)
    BY DEF Dispatch
  <2> HIDE DEF len
  <2>3. HeaderLen + len <= Len(buf)
    BY <1>1, <1>2, <1>3, <2>1
  <2> QED BY <2>1, <2>2, <2>3, PayloadType
<1> QED BY <1>4, <1>5

-------------------------------------------------------------------------------
(* The buffer and the clock.                                                  *)

\* Between two reads the buffer has room and the clock runs for its header; in the
\* inner loop the clock may be off although a header has just come to the head.
BufferInv ==
  /\ ReceiverTypeOK
  /\ BufferNeverFull
  /\ ClockRunsForHeader
  /\ frameInProgress => HasHeader

\* The header at the head of the buffer stays there when bytes are added behind.
LEMMA HeaderStays ==
  ASSUME ReceiverTypeOK, buf' \in Seq(Bytes), Len(buf') >= Len(buf),
         \A i \in 1 .. Len(buf) : buf'[i] = buf[i],
         HasHeader
  PROVE  HasHeader'
<1>1. Len(buf) \in Nat /\ Len(buf') \in Nat /\ Len(buf) >= HeaderLen
  BY LenProperties DEF ReceiverTypeOK, HasHeader
<1>2. Len(Magic) \in 1 .. Len(buf) /\ Len(Magic) \in 1 .. Len(buf')
  BY <1>1, Lengths
<1>3. SubSeq(buf', 1, Len(Magic)) = SubSeq(buf, 1, Len(Magic))
  BY <1>1, <1>2, Lengths DEF ReceiverTypeOK
<1>4. Len(buf') >= HeaderLen
  BY <1>1, Lengths
<1> QED BY <1>3, <1>4, Zenon DEF HasHeader, HeadsMagic

\* An empty buffer has no header and is not full.
LEMMA EmptyBuffer ==
  /\ <<>> \in Seq(Bytes) /\ Len(<<>>) = 0 /\ 0 < HeaderLen /\ 0 < FrameLen
  BY Lengths, FrameAssumption, EmptySeq

\* Each step of the receiver keeps the buffer in order.
LEMMA ReceiverKeepsBuffer ==
  ASSUME BufferInv, ReceiverNext
  PROVE  BufferInv'
<1>1. Len(buf) \in Nat /\ FrameLen \in Nat /\ HeaderLen \in Nat /\ HeaderLen <= FrameLen
  BY LenProperties, Lengths, FrameAssumption DEF BufferInv, ReceiverTypeOK
<1>2. scanning \in BOOLEAN /\ frameInProgress \in BOOLEAN
  BY Zenon DEF BufferInv, ReceiverTypeOK
<1>3. ReceiverTypeOK
  BY DEF BufferInv
<1>4. CASE ReadFifo
  <2>1. ~scanning /\ Len(buf) < FrameLen
    BY <1>4 DEF BufferInv, BufferNeverFull, ReadFifo
  <2>2. ReceiverTypeOK' /\ scanning' = TRUE
    BY <1>2, <1>3, <1>4, <2>1, ReadType, Zenon DEF ReceiverTypeOK
  <2>3. frameInProgress' => HasHeader'
    BY <1>3, <1>4, <2>1, ReadType, HeaderStays DEF BufferInv
  <2> QED BY <2>2, <2>3 DEF BufferInv, BufferNeverFull, ClockRunsForHeader
<1>5. CASE AwaitHeader
  <2>1. ~HasHeader /\ Len(buf) < FrameLen
    BY <1>1, <1>5 DEF AwaitHeader, HasHeader
  <2>2. UNCHANGED <<fifo, buf, frameInProgress, pixels>> /\ scanning' = FALSE
    BY <1>5, Zenon DEF AwaitHeader
  <2>3. ReceiverTypeOK'
    BY <1>3, <2>2, Zenon DEF ReceiverTypeOK
  <2>4. HasHeader' = HasHeader
    BY <2>2 DEF HasHeader, HeadsMagic
  <2> QED BY <2>1, <2>2, <2>3, <2>4, Zenon DEF BufferInv, BufferNeverFull, ClockRunsForHeader
<1>6. CASE ShiftByte
  <2>1. ~HasHeader /\ scanning /\ buf # <<>>
    BY <1>1, <1>6, EmptyBuffer DEF ShiftByte, HasHeader
  <2>2. buf' \in Seq(Bytes) /\ Len(buf') <= FrameLen
    BY <1>1, <1>3, <1>6, <2>1, HeadTailProperties DEF ShiftByte, ReceiverTypeOK
  <2>3. UNCHANGED <<fifo, scanning, frameInProgress, pixels>>
    BY <1>6 DEF ShiftByte
  <2>4. ReceiverTypeOK'
    BY <1>3, <2>2, <2>3, Zenon DEF ReceiverTypeOK
  <2>5. ~frameInProgress'
    BY <2>1, <2>3 DEF BufferInv
  <2> QED BY <2>1, <2>3, <2>4, <2>5, Zenon DEF BufferInv, BufferNeverFull, ClockRunsForHeader
<1>7. CASE DropOversized
  <2>1. buf' = <<>> /\ frameInProgress' = FALSE /\ scanning' = FALSE
        /\ UNCHANGED <<fifo, pixels>>
    BY <1>7, Zenon DEF DropOversized
  <2>2. Len(buf') < FrameLen /\ Len(buf') < HeaderLen /\ buf' \in Seq(Bytes)
    BY <2>1, EmptyBuffer
  <2>3. ~HasHeader' /\ Len(buf') <= FrameLen
    BY <1>1, <2>1, <2>2, EmptyBuffer DEF HasHeader
  <2>4. ReceiverTypeOK'
    BY <1>3, <2>1, <2>2, <2>3, Zenon DEF ReceiverTypeOK
  <2> QED BY <2>1, <2>2, <2>3, <2>4, Zenon DEF BufferInv, BufferNeverFull, ClockRunsForHeader
<1>8. CASE AwaitPayload
  <2>1. HasHeader /\ Len(buf) < FrameLen
    BY <1>1, <1>3, <1>8, FrameSizeType DEF AwaitPayload
  <2>2. UNCHANGED <<fifo, buf, pixels>> /\ scanning' = FALSE /\ frameInProgress' = TRUE
    BY <1>8, Zenon DEF AwaitPayload
  <2>3. ReceiverTypeOK'
    BY <1>3, <2>2, Zenon DEF ReceiverTypeOK
  <2>4. HasHeader' = HasHeader
    BY <2>2 DEF HasHeader, HeadsMagic
  <2> QED BY <2>1, <2>2, <2>3, <2>4, Zenon DEF BufferInv, BufferNeverFull, ClockRunsForHeader
<1>9. CASE Dispatch
  <2>1. UNCHANGED <<fifo, scanning>> /\ frameInProgress' = FALSE /\ scanning
    BY <1>9, Zenon DEF Dispatch
  <2>2. ReceiverTypeOK'
    BY <1>3, <1>9, <2>1, DispatchType, Zenon DEF ReceiverTypeOK
  <2> QED BY <2>1, <2>2, Zenon DEF BufferInv, BufferNeverFull, ClockRunsForHeader
<1> QED BY <1>4, <1>5, <1>6, <1>7, <1>8, <1>9 DEF ReceiverNext

\* So does everything else on the line.
LEMMA LineKeepsBuffer ==
  ASSUME BufferInv, [Next]_vars
  PROVE  BufferInv'
<1>1. CASE Controller
  BY <1>1, ReceiverKeepsBuffer DEF Controller
<1>2. ASSUME UNCHANGED <<buf, scanning, frameInProgress, pixels>>, ReceiverTypeOK'
      PROVE  BufferInv'
  <2>1. HasHeader' = HasHeader
    BY <1>2 DEF HasHeader, HeadsMagic
  <2> QED
    BY <1>2, <2>1, Zenon DEF BufferInv, BufferNeverFull, ClockRunsForHeader
<1>3. CASE PortWritten
  <2>1. ReceiverTypeOK'
    BY <1>3, PortKeepsType DEF BufferInv
  <2> QED BY <1>2, <1>3, <2>1 DEF PortWritten
<1>4. CASE FeedbackTask \/ UNCHANGED vars
  <2>1. UNCHANGED <<fifo, buf, scanning, frameInProgress, pixels>>
    BY <1>4 DEF FeedbackTask, vars, receiverVars
  <2>2. ReceiverTypeOK'
    BY <2>1, Zenon DEF BufferInv, ReceiverTypeOK
  <2> QED BY <1>2, <2>1, <2>2
<1> QED BY <1>1, <1>3, <1>4 DEF Next

\* The invariant holds of every behaviour.
LEMMA BufferInvariant == Spec => []BufferInv
<1>1. Init => BufferInv
  <2> SUFFICES ASSUME Init PROVE BufferInv
    OBVIOUS
  <2>1. buf = <<>> /\ fifo = <<>> /\ scanning = FALSE /\ frameInProgress = FALSE
    BY Zenon DEF Init, ReceiverInit
  <2>2. buf \in Seq(Bytes) /\ fifo \in Seq(Bytes) /\ Len(buf) <= FrameLen
        /\ Len(buf) < FrameLen /\ ~HasHeader
    BY <2>1, EmptyBuffer, Lengths DEF HasHeader
  <2>3. pixels \in [1 .. StateBytes -> Bytes]
    BY FrameAssumption DEF Init, ReceiverInit
  <2>4. ReceiverTypeOK
    BY <2>1, <2>2, <2>3, Zenon DEF ReceiverTypeOK
  <2> QED BY <2>1, <2>2, <2>4, Zenon DEF BufferInv, BufferNeverFull, ClockRunsForHeader
<1>2. BufferInv /\ [Next]_vars => BufferInv'
  BY LineKeepsBuffer
<1> QED BY <1>1, <1>2, PTL DEF Spec

\* A record is as long as RecordLen says, and longer than its magic.
LEMMA RecordLengths ==
  /\ Len(Record) \in Nat \ {0} /\ Len(Record) = RecordLen
  /\ Len(FeedbackMagic) \in Nat \ {0} /\ Len(FeedbackMagic) <= RecordLen
<1>1. Len(FeedbackMagic) \in Nat \ {0} /\ Len(Record) \in Nat
  BY LinkAssumption, LenProperties, EmptySeq
<1>2. Len(FeedbackMagic) <= Len(Record)
  BY LinkAssumption DEF IsPrefix
<1> QED BY <1>1, <1>2, LinkAssumption

\* spawn_feedback_listener keeps its types; what is drained and what is cut lies in
\* the backlog.
LEMMA ListenerKeepsType ==
  ASSUME Listener!ListenerTypeOK, Listener!ListenerNext
  PROVE  Listener!ListenerTypeOK'
<1>1. /\ toHost \in Seq(FeedbackBytes) /\ backlog \in Seq(FeedbackBytes)
      /\ Len(toHost) \in Nat /\ Len(backlog) \in Nat
  BY LenProperties DEF Listener!ListenerTypeOK
<1>2. ASSUME NEW s \in Seq(FeedbackBytes), NEW m \in Nat, m >= 1
      PROVE  SubSeq(s, m, Len(s)) \in Seq(FeedbackBytes)
  BY <1>2, SubSeqProperties, LenProperties
<1>3. CASE Listener!Receive
  <2>1. PICK n \in 1 .. Len(toHost) :
               /\ backlog' = backlog \o SubSeq(toHost, 1, n)
               /\ toHost' = SubSeq(toHost, n + 1, Len(toHost))
    BY <1>3 DEF Listener!Receive
  <2>2. SubSeq(toHost, 1, n) \in Seq(FeedbackBytes)
    BY <1>1, SubSeqProperties
  <2>3. n + 1 \in Nat /\ n + 1 >= 1
    BY <1>1
  <2>4. toHost' \in Seq(FeedbackBytes) /\ backlog' \in Seq(FeedbackBytes)
    BY <1>1, <1>2, <2>1, <2>2, <2>3, ConcatProperties
  <2> QED BY <1>3, <2>4, Zenon DEF Listener!Receive, Listener!ListenerTypeOK
<1>4. CASE Listener!ParseRecord
  <2>1. PICK end \in Listener!RecordEnds : backlog' = SubSeq(backlog, end + 1, Len(backlog))
    BY <1>4, Zenon DEF Listener!ParseRecord
  <2>2. end \in 1 .. Len(backlog)
    BY DEF Listener!RecordEnds
  <2>3. end + 1 \in Nat /\ end + 1 >= 1
    BY <1>1, <2>2
  <2>4. backlog' \in Seq(FeedbackBytes)
    BY <1>1, <1>2, <2>1, <2>3
  <2>5. done' \in Nat /\ parsing' \in BOOLEAN /\ listening' \in BOOLEAN /\ toHost' = toHost
    <3>1. done \in Nat /\ parsing \in BOOLEAN /\ listening \in BOOLEAN
      BY Zenon DEF Listener!ListenerTypeOK
    <3>2. done + 1 \in Nat
      BY <3>1
    <3> QED BY <1>4, <3>1, <3>2, Zenon DEF Listener!ParseRecord
  <2> QED BY <1>1, <2>4, <2>5, Zenon DEF Listener!ListenerTypeOK
<1>5. CASE Listener!KeepTail
  <2> DEFINE from == Len(backlog) - Listener!KeptBacklog + 1
  <2>1. Len(backlog) > Listener!MaxBacklog => from \in Nat /\ from >= 1
    BY <1>1, RecordLengths DEF Listener!MaxBacklog, Listener!KeptBacklog
  <2>2. backlog' = IF Len(backlog) > Listener!MaxBacklog
                   THEN SubSeq(backlog, from, Len(backlog)) ELSE backlog
    BY <1>5 DEF Listener!KeepTail
  <2> HIDE DEF from
  <2>3. backlog' \in Seq(FeedbackBytes)
    BY <1>1, <1>2, <2>1, <2>2
  <2> QED BY <1>5, <2>3, Zenon DEF Listener!KeepTail, Listener!ListenerTypeOK
<1>6. CASE Listener!StopListening
  <2>1. backlog' \in Seq(FeedbackBytes)
    BY <1>1, <1>6, EmptySeq DEF Listener!StopListening
  <2> QED BY <1>6, <2>1, Zenon DEF Listener!StopListening, Listener!ListenerTypeOK
<1> QED BY <1>3, <1>4, <1>5, <1>6 DEF Listener!ListenerNext

\* The bytes the controller writes to the daemon.
LEMMA ToHostType ==
  ASSUME toHost \in Seq(FeedbackBytes), ReceiverNext
  PROVE  /\ toHost' \in Seq(FeedbackBytes)
         /\ toHost' = toHost \/ toHost' = toHost \o Record
<1>1. \/ toHost' = toHost
      \/ toHost' = toHost \o Record
  <2>1. CASE Dispatch
    BY <2>1, Zenon DEF Dispatch
  <2>2. CASE ~Dispatch
    BY <2>2, Zenon DEF ReceiverNext, ReadFifo, AwaitHeader, ShiftByte, DropOversized, AwaitPayload
  <2> QED BY <2>1, <2>2
<1> QED BY <1>1, LinkAssumption, ConcatProperties

\* frame_loop: the buffer, the clock and the pixels keep their types; the slice of
\* a complete frame never reaches beyond the buffer.
THEOREM ReceiverTypeCorrect == Spec => []ReceiverTypeOK
<1>1. BufferInv => ReceiverTypeOK
  BY DEF BufferInv
<1> QED BY <1>1, BufferInvariant, PTL

\* Both ends of the line, and what is kept of its history, keep their types.
THEOREM TypeCorrect == Spec => []TypeOK
<1> DEFINE Dark == [i \in 1 .. StateBytes |-> Zero]
<1>1. Init /\ ReceiverTypeOK => TypeOK
  <2> SUFFICES ASSUME Init, ReceiverTypeOK
               PROVE  TypeOK
    OBVIOUS
  <2>1. Listener!ListenerTypeOK
    <3>1. toHost \in Seq(FeedbackBytes) /\ <<>> \in Seq(FeedbackBytes) /\ 0 \in Nat
      BY LinkAssumption, EmptySeq DEF Init
    <3> QED BY <3>1, Zenon DEF Init, Listener!ListenerInit, Listener!ListenerTypeOK
  <2>2. intact \in 0 .. 2 /\ reported \in Nat /\ writes \in 0 .. MaxWrites
    BY LinkAssumption DEF Init
  <2> QED BY <2>1, <2>2, Zenon DEF Init, TypeOK
<1>2. TypeOK /\ ReceiverTypeOK' /\ [Next]_vars => TypeOK'
  <2> SUFFICES ASSUME TypeOK, ReceiverTypeOK', [Next]_vars
               PROVE  TypeOK'
    OBVIOUS
  <2>1. toHost \in Seq(FeedbackBytes) /\ reported \in Nat /\ writes \in 0 .. MaxWrites
    BY Zenon DEF TypeOK, Listener!ListenerTypeOK
  <2>2. CASE PortWritten
    <3>1. sent' \in Payloads \cup {Dark} /\ intact' \in 0 .. 2
      <4>1. CASE WriteFrame
        <5>1. sent' \in Payloads
          BY <4>1, Zenon DEF WriteFrame
        <5>2. intact' \in {0, 1, 2}
          BY <4>1 DEF WriteFrame
        <5> QED BY <5>1, <5>2
      <4>2. CASE WriteNoise
        <5>1. sent' = sent /\ intact' = 0
          BY <4>2, Zenon DEF WriteNoise
        <5> QED BY <5>1 DEF TypeOK
      <4> QED BY <2>2, <4>1, <4>2 DEF PortWritten
    <3>2. writes' \in 0 .. MaxWrites
      BY <2>1, <2>2, LinkAssumption DEF PortWritten
    <3>3. UNCHANGED <<toHost, backlog, parsing, done, listening, reported>>
      BY <2>2 DEF PortWritten
    <3>4. Listener!ListenerTypeOK'
      BY <3>3, Zenon DEF TypeOK, Listener!ListenerTypeOK
    <3> QED BY <3>1, <3>2, <3>3, <3>4, Zenon DEF TypeOK
  <2>3. CASE Controller
    <3>1. toHost' \in Seq(FeedbackBytes)
      BY <2>1, <2>3, ToHostType DEF Controller
    <3>2. reported' \in Nat
      BY <2>1, <2>3 DEF Controller
    <3>3. UNCHANGED <<backlog, parsing, done, listening, sent, intact, writes>>
      BY <2>3 DEF Controller, lineVars
    <3>4. Listener!ListenerTypeOK'
      BY <3>1, <3>3, Zenon DEF TypeOK, Listener!ListenerTypeOK
    <3> QED BY <3>2, <3>3, <3>4, Zenon DEF TypeOK
  <2>4. CASE FeedbackTask
    <3>1. Listener!ListenerTypeOK'
      BY <2>4, ListenerKeepsType DEF FeedbackTask, TypeOK
    <3>2. UNCHANGED <<reported, sent, intact, writes>>
      BY <2>4 DEF FeedbackTask, lineVars
    <3> QED BY <3>1, <3>2, Zenon DEF TypeOK
  <2>5. CASE UNCHANGED vars
    <3>1. UNCHANGED <<toHost, backlog, parsing, done, listening, reported, sent, intact, writes>>
      BY <2>5 DEF vars, receiverVars, lineVars
    <3> QED BY <3>1, Zenon DEF TypeOK, Listener!ListenerTypeOK
  <2> QED BY <2>2, <2>3, <2>4, <2>5 DEF Next
<1> QED BY <1>1, <1>2, ReceiverTypeCorrect, PTL DEF Spec

\* frame_loop: "frame buffer overflow" never happens, whatever is written.
THEOREM BufferNeverFullHolds == Spec => []BufferNeverFull
<1>1. BufferInv => BufferNeverFull
  BY DEF BufferInv
<1> QED BY <1>1, BufferInvariant, PTL

\* frame_loop: the ingest clock is that of the frame at the head of the buffer.
THEOREM ClockRunsForHeaderHolds == Spec => []ClockRunsForHeader
<1>1. BufferInv => ClockRunsForHeader
  BY DEF BufferInv
<1> QED BY <1>1, BufferInvariant, PTL

-------------------------------------------------------------------------------
(* The records of write feedback.                                             *)

\* What the daemon has not looked at, in the backlog and behind it on the line.
Unread == backlog \o toHost

\* It is the last j symbols the controller printed at boot, and k records behind
\* them: those reported but not yet done.  Between two reads there is no whole record
\* in the backlog.
Holds(text, j, k) ==
  /\ k = reported - done
  /\ Len(Unread) = j + k * RecordLen
  /\ \A i \in 1 .. j : Unread[i] = text[Len(text) - j + i]
  /\ \A q \in 0 .. k - 1 : \A r \in 1 .. RecordLen : Unread[j + q * RecordLen + r] = Record[r]

HoldsSome ==
  \E text \in Chatter : \E j \in 0 .. Len(text) : \E k \in Nat :
    Holds(text, j, k) /\ (~parsing /\ k >= 1 => Len(backlog) < j + RecordLen)

RecordsInv == done <= reported /\ (listening => HoldsSome)

\* A sequence is its beginning and the rest.
LEMMA Split ==
  ASSUME NEW S, NEW s \in Seq(S), NEW d \in 0 .. Len(s)
  PROVE  /\ SubSeq(s, 1, d) \in Seq(S) /\ SubSeq(s, d + 1, Len(s)) \in Seq(S)
         /\ Len(SubSeq(s, 1, d)) = d /\ Len(SubSeq(s, d + 1, Len(s))) = Len(s) - d
         /\ SubSeq(s, 1, d) \o SubSeq(s, d + 1, Len(s)) = s
<1>1. Len(s) \in Nat /\ d \in Nat
  BY LenProperties
<1>2. /\ SubSeq(s, 1, d) \in Seq(S) /\ SubSeq(s, d + 1, Len(s)) \in Seq(S)
      /\ Len(SubSeq(s, 1, d)) = d /\ Len(SubSeq(s, d + 1, Len(s))) = Len(s) - d
  BY <1>1, SubSeqProperties
<1>3. SubSeq(s, 1, d) \o SubSeq(s, d + 1, Len(s)) = s
  <2>1. 1 \in 1 .. Len(s) + 1 /\ d \in 1 - 1 .. Len(s) /\ Len(s) \in d .. Len(s)
    BY <1>1
  <2>2. SubSeq(s, 1, d) \o SubSeq(s, d + 1, Len(s)) = SubSeq(s, 1, Len(s))
    BY <2>1, ConcatAdjacentSubSeq
  <2> QED BY <2>2, SubSeqFull
<1> QED BY <1>2, <1>3

\* What stands where when the front is cut off a sequence that another one follows.
LEMMA CutFront ==
  ASSUME NEW S, NEW cut \in Seq(S), NEW left \in Seq(S), NEW t \in Seq(S)
  PROVE  /\ Len((cut \o left) \o t) = Len(cut) + Len(left \o t)
         /\ \A i \in 1 .. Len(left \o t) :
              (left \o t)[i] = ((cut \o left) \o t)[i + Len(cut)]
<1>1. left \o t \in Seq(S)
  BY ConcatProperties
<1>2. (cut \o left) \o t = cut \o (left \o t)
  BY ConcatAssociative
<1>3. PICK rest : rest = left \o t
  OBVIOUS
<1>4. Len(rest) \in Nat /\ Len(cut) \in Nat
  BY <1>1, <1>3, LenProperties
<1>5. /\ Len(cut \o rest) = Len(cut) + Len(rest)
      /\ \A i \in 1 .. Len(cut) + Len(rest) :
           (cut \o rest)[i] = IF i <= Len(cut) THEN cut[i] ELSE rest[i - Len(cut)]
  BY <1>1, <1>3, ConcatProperties
<1>6. ASSUME NEW i \in 1 .. Len(rest)
      PROVE  rest[i] = (cut \o rest)[i + Len(cut)]
  <2>1. /\ i + Len(cut) \in 1 .. Len(cut) + Len(rest) /\ ~(i + Len(cut) <= Len(cut))
        /\ i + Len(cut) - Len(cut) = i
    BY <1>4
  <2> QED BY <1>5, <2>1
<1> QED BY <1>2, <1>3, <1>5, <1>6

\* What is taken off the front of a sequence and added to the one before it.
LEMMA MoveFront ==
  ASSUME NEW S, NEW s \in Seq(S), NEW t \in Seq(S), NEW n \in 0 .. Len(t)
  PROVE  (s \o SubSeq(t, 1, n)) \o SubSeq(t, n + 1, Len(t)) = s \o t
<1>1. PICK taken, left : taken = SubSeq(t, 1, n) /\ left = SubSeq(t, n + 1, Len(t))
  OBVIOUS
<1>2. taken \in Seq(S) /\ left \in Seq(S) /\ taken \o left = t
  BY <1>1, Split
<1>3. (s \o taken) \o left = s \o (taken \o left)
  <2>1. taken \in Seq(S) /\ left \in Seq(S)
    BY <1>2
  <2> QED BY ONLY <2>1, ConcatAssociative, SMTT(30)
<1> QED BY <1>1, <1>2, <1>3

\* The records of a sequence of k lie one behind another in it.
LEMMA Blocks ==
  ASSUME NEW m \in Nat, NEW k \in Nat, NEW q \in 0 .. k - 1
  PROVE  /\ q * m \in Nat /\ k * m \in Nat
         /\ (q + 1) * m = q * m + m /\ (k - 1) * m = k * m - m /\ (k + 1) * m = k * m + m
         /\ q * m + m <= k * m
<1>1. (k - (q + 1)) * m \in Nat /\ q * m \in Nat /\ k * m \in Nat
  <2>1. k - (q + 1) \in Nat /\ q \in Nat
    OBVIOUS
  <2>2. \A a, b \in Nat : a * b \in Nat
    OBVIOUS
  <2> QED BY <2>1, <2>2
<1>2. (k - (q + 1)) * m = k * m - (q + 1) * m /\ (q + 1) * m = q * m + m
      /\ (k - 1) * m = k * m - m /\ (k + 1) * m = k * m + m
  OBVIOUS
<1> QED BY <1>1, <1>2

\* Everything that is unread is typed.
LEMMA UnreadType ==
  ASSUME Listener!ListenerTypeOK
  PROVE  /\ backlog \in Seq(FeedbackBytes) /\ toHost \in Seq(FeedbackBytes)
         /\ Len(backlog) \in Nat /\ Len(toHost) \in Nat /\ done \in Nat
         /\ Unread \in Seq(FeedbackBytes) /\ Len(Unread) = Len(backlog) + Len(toHost)
         /\ \A i \in 1 .. Len(backlog) + Len(toHost) :
              Unread[i] = IF i <= Len(backlog) THEN backlog[i] ELSE toHost[i - Len(backlog)]
  BY LenProperties, ConcatProperties DEF Listener!ListenerTypeOK, Unread

\* A magic in the backlog is that of a record: none begins in what was printed.
LEMMA MagicOfRecord ==
  ASSUME Listener!ListenerTypeOK, NEW text \in Chatter, NEW j \in 0 .. Len(text), NEW k \in Nat,
         Holds(text, j, k), NEW i \in Listener!MagicAt
  PROVE  i \in Nat /\ i > j /\ k >= 1
<1> DEFINE M == Len(FeedbackMagic)
           window == SubSeq(backlog, i, i + M - 1)
<1>1. /\ M \in Nat \ {0} /\ M <= RecordLen /\ RecordLen \in Nat /\ Len(Record) = RecordLen
      /\ text \in Seq(FeedbackBytes) /\ Len(text) \in Nat /\ j \in Nat
  BY RecordLengths, LinkAssumption, LenProperties
<1>2. i \in 1 .. Len(backlog) - M + 1 /\ window = FeedbackMagic
  BY DEF Listener!MagicAt
<1>3. i \in Nat /\ i >= 1 /\ i + M - 1 <= Len(backlog) /\ Len(backlog) \in Nat
  BY <1>1, <1>2, UnreadType
<1>4. \A m \in 1 .. M : /\ i + m - 1 \in 1 .. Len(backlog)
                        /\ FeedbackMagic[m] = Unread[i + m - 1]
  <2> TAKE m \in 1 .. M
  <2>1. i + m - 1 \in 1 .. Len(backlog)
    BY <1>1, <1>3
  <2>2. window[m] = backlog[i + m - 1]
    BY <1>1, <1>3, <2>1, UnreadType, SubSeqProperties
  <2>3. Unread[i + m - 1] = backlog[i + m - 1]
    <3>1. i + m - 1 \in 1 .. Len(backlog) + Len(toHost) /\ i + m - 1 <= Len(backlog)
      BY <2>1, UnreadType
    <3> QED BY <3>1, UnreadType
  <2> QED BY <1>2, <2>1, <2>2, <2>3
<1>5. k = 0 => Len(Unread) = j
  BY <1>1 DEF Holds
<1>6. ASSUME i <= j
      PROVE  FALSE
  <2>a. PICK joined : joined = text \o Record
    OBVIOUS
  <2>b. PICK at : at = Len(text) - j + i
    OBVIOUS
  <2> DEFINE other == SubSeq(joined, at, at + M - 1)
  <2>1. at \in 1 .. Len(text) /\ at + M - 1 <= Len(text) + RecordLen
    BY <1>1, <1>3, <1>6, <2>b
  <2>2. /\ joined \in Seq(FeedbackBytes) /\ Len(joined) = Len(text) + RecordLen
        /\ \A m \in 1 .. Len(text) + RecordLen :
             joined[m] = IF m <= Len(text) THEN text[m] ELSE Record[m - Len(text)]
    <3>1. text \in Seq(FeedbackBytes) /\ Record \in Seq(FeedbackBytes) /\ Len(Record) = RecordLen
      BY <1>1, LinkAssumption
    <3> QED BY ONLY <2>a, <3>1, ConcatProperties
  <2>3. \A m \in 1 .. M : joined[at + m - 1] = FeedbackMagic[m]
    <3> TAKE m \in 1 .. M
    <3>1. at + m - 1 \in 1 .. Len(text) + RecordLen /\ i + m - 1 \in 1 .. Len(backlog)
      BY <1>1, <1>3, <2>1
    <3>2. CASE at + m - 1 <= Len(text)
      <4>1. i + m - 1 \in 1 .. j /\ Len(text) - j + (i + m - 1) = at + m - 1
        BY <1>1, <1>3, <2>b, <3>1, <3>2
      <4>2. Unread[i + m - 1] = text[Len(text) - j + (i + m - 1)]
        BY <4>1 DEF Holds
      <4>3. joined[at + m - 1] = text[at + m - 1]
        BY <2>2, <3>1, <3>2
      <4> QED BY <1>4, <4>1, <4>2, <4>3
    <3>3. CASE ~(at + m - 1 <= Len(text))
      <4>1. /\ i + m - 1 - j \in 1 .. RecordLen /\ at + m - 1 - Len(text) = i + m - 1 - j
            /\ i + m - 1 > j
        BY <1>1, <1>3, <1>6, <2>b, <3>1, <3>3
      <4>2. k >= 1
        BY <1>1, <1>5, <3>1, <4>1, UnreadType, SMTT(60)
      <4>3. 0 \in 0 .. k - 1 /\ j + 0 * RecordLen + (i + m - 1 - j) = i + m - 1
        BY <1>1, <1>3, <4>2
      <4>4. Unread[j + 0 * RecordLen + (i + m - 1 - j)] = Record[i + m - 1 - j]
        BY <4>1, <4>3 DEF Holds
      <4>5. joined[at + m - 1] = Record[at + m - 1 - Len(text)]
        <5>1. PICK n : n = at + m - 1
          OBVIOUS
        <5>2. n \in 1 .. Len(text) + RecordLen /\ ~(n <= Len(text))
          BY <3>1, <3>3, <5>1
        <5>3. joined[n] = Record[n - Len(text)]
          BY <2>2, <5>2
        <5> QED BY <1>1, <2>1, <5>1, <5>2, <5>3
      <4>6. Unread[i + m - 1] = Record[i + m - 1 - j]
        BY <4>3, <4>4
      <4>7. Record[at + m - 1 - Len(text)] = Record[i + m - 1 - j]
        BY <4>1, Zenon
      <4> QED BY <1>4, <4>5, <4>6, <4>7, Zenon
    <3> QED BY <3>2, <3>3
  <2>4. other \in Seq(FeedbackBytes) /\ Len(other) = M
        /\ \A m \in 1 .. M : other[m] = joined[at + m - 1]
    <3>1. at \in 1 .. Len(joined) /\ at + M - 1 \in 1 .. Len(joined) /\ at + M - 1 - at + 1 = M
      BY <1>1, <2>1, <2>2
    <3> QED BY <1>1, <2>2, <3>1, SubSeqProperties
  <2>5. other = FeedbackMagic
    BY <1>1, <2>3, <2>4, LinkAssumption, SeqEqual, ZenonT(60)
  <2> QED BY <2>a, <2>1, <2>5, ChatterAssumption
<1>7. k >= 1
  BY <1>1, <1>3, <1>5, <1>6, UnreadType
<1> QED BY <1>1, <1>3, <1>6, <1>7

\* A record begins with its magic.
LEMMA RecordHead ==
  \A m \in 1 .. Len(FeedbackMagic) : m \in 1 .. RecordLen /\ Record[m] = FeedbackMagic[m]
<1> TAKE m \in 1 .. Len(FeedbackMagic)
<1>1. /\ Len(FeedbackMagic) \in Nat \ {0} /\ Len(FeedbackMagic) <= Len(Record) /\ Len(Record) = RecordLen
      /\ RecordLen \in Nat
  BY RecordLengths
<1>2. SubSeq(FeedbackMagic, 1, Len(FeedbackMagic)) = SubSeq(Record, 1, Len(FeedbackMagic))
  BY LinkAssumption DEF IsPrefix
<1>3. SubSeq(FeedbackMagic, 1, Len(FeedbackMagic))[m] = FeedbackMagic[m]
  BY <1>1, LinkAssumption, SubSeqProperties
<1>4. SubSeq(Record, 1, Len(FeedbackMagic))[m] = Record[m]
  BY <1>1, LinkAssumption, SubSeqProperties
<1> QED BY <1>1, <1>2, <1>3, <1>4

\* The magic of the first record is found as soon as it is in the backlog.
LEMMA MagicFound ==
  ASSUME Listener!ListenerTypeOK, NEW text \in Chatter, NEW j \in 0 .. Len(text), NEW k \in Nat,
         Holds(text, j, k), k >= 1, Len(backlog) >= j + Len(FeedbackMagic)
  PROVE  j + 1 \in Listener!MagicAt
<1> DEFINE M == Len(FeedbackMagic)
<1>1. M \in Nat \ {0} /\ M <= RecordLen /\ RecordLen \in Nat /\ j \in Nat /\ Len(backlog) \in Nat
  BY RecordLengths, UnreadType, LinkAssumption, LenProperties
<1>2. PICK a : a = j + 1
  OBVIOUS
<1>3. PICK b : b = j + M
  OBVIOUS
<1>4. /\ a \in 1 .. Len(backlog) /\ b \in 1 .. Len(backlog) /\ b - a + 1 = M /\ a + M - 1 = b
      /\ a \in 1 .. Len(backlog) - M + 1
  BY <1>1, <1>2, <1>3
<1>5. /\ SubSeq(backlog, a, b) \in Seq(FeedbackBytes) /\ Len(SubSeq(backlog, a, b)) = M
      /\ \A m \in 1 .. M : SubSeq(backlog, a, b)[m] = backlog[a + m - 1]
  <2>1. backlog \in Seq(FeedbackBytes) /\ M \in Nat
    BY <1>1, UnreadType
  <2>2. \A m \in 1 .. M : m \in Nat /\ m \in 1 .. b - a + 1
    BY ONLY <1>4, <2>1, SMTT(30)
  <2> QED BY ONLY <1>4, <2>1, <2>2, SubSeqProperties, SMTT(30)
<1>6. \A m \in 1 .. M : backlog[a + m - 1] = FeedbackMagic[m]
  <2> TAKE m \in 1 .. M
  <2>1. PICK n : n = a + m - 1
    OBVIOUS
  <2>2. /\ n \in 1 .. Len(backlog) + Len(toHost) /\ n <= Len(backlog)
        /\ n = j + 0 * RecordLen + m /\ 0 \in 0 .. k - 1
    BY <1>1, <1>2, <1>4, <2>1, UnreadType, SMTT(60)
  <2>3. Unread[n] = backlog[n]
    BY <2>2, UnreadType
  <2>4. m \in 1 .. RecordLen /\ Record[m] = FeedbackMagic[m]
    BY RecordHead
  <2>5. Unread[j + 0 * RecordLen + m] = Record[m]
    BY <2>2, <2>4 DEF Holds
  <2>6. backlog[n] = FeedbackMagic[m]
    BY <2>2, <2>3, <2>4, <2>5
  <2> QED BY <2>1, <2>6
<1>7. SubSeq(backlog, a, b) = FeedbackMagic
  BY <1>1, <1>5, <1>6, LinkAssumption, SeqEqual
<1> QED BY <1>2, <1>4, <1>7 DEF Listener!MagicAt

\* The record that is found is the first one reported, whole.
LEMMA RecordFound ==
  ASSUME Listener!ListenerTypeOK, NEW text \in Chatter, NEW j \in 0 .. Len(text), NEW k \in Nat,
         Holds(text, j, k), NEW end \in Listener!RecordEnds
  PROVE  k >= 1 /\ end = j + RecordLen /\ end \in 1 .. Len(backlog)
<1>1. PICK i \in Listener!MagicAt :
             (\A m \in Listener!MagicAt : i <= m) /\ end = i + RecordLen - 1
  BY DEF Listener!RecordEnds
<1>2. end \in 1 .. Len(backlog)
  BY DEF Listener!RecordEnds
<1>3. i \in Nat /\ i > j /\ k >= 1
  BY MagicOfRecord
<1>4. /\ Len(FeedbackMagic) \in Nat /\ Len(FeedbackMagic) <= RecordLen /\ RecordLen \in Nat
      /\ j \in Nat /\ Len(backlog) \in Nat
  BY RecordLengths, UnreadType, LinkAssumption, LenProperties
<1>5. Len(backlog) >= j + Len(FeedbackMagic)
  BY <1>1, <1>2, <1>3, <1>4
<1>6. i <= j + 1
  BY <1>1, <1>3, <1>5, MagicFound
<1> QED BY <1>1, <1>2, <1>3, <1>4, <1>6

\* As long as none is found, less than a record is there.
LEMMA NoRecordFound ==
  ASSUME Listener!ListenerTypeOK, NEW text \in Chatter, NEW j \in 0 .. Len(text), NEW k \in Nat,
         Holds(text, j, k), k >= 1, Listener!RecordEnds = {}
  PROVE  Len(backlog) < j + RecordLen
<1> SUFFICES ASSUME ~(Len(backlog) < j + RecordLen)
             PROVE  FALSE
  OBVIOUS
<1>1. /\ Len(FeedbackMagic) \in Nat /\ Len(FeedbackMagic) <= RecordLen /\ RecordLen \in Nat \ {0}
      /\ j \in Nat /\ Len(backlog) \in Nat
  BY RecordLengths, UnreadType, LinkAssumption, LenProperties
<1>2. j + 1 \in Listener!MagicAt
  BY <1>1, MagicFound
<1>3. \A m \in Listener!MagicAt : j + 1 <= m
  <2> TAKE m \in Listener!MagicAt
  <2>1. m \in Nat /\ m > j
    BY MagicOfRecord
  <2> QED BY <1>1, <2>1
<1>4. PICK i : i = j + 1
  OBVIOUS
<1>5. i + RecordLen - 1 \in 1 .. Len(backlog)
  BY <1>1, <1>4
<1>6. i \in {m \in Listener!MagicAt : \A l \in Listener!MagicAt : m <= l}
  BY <1>2, <1>3, <1>4
<1> QED BY <1>5, <1>6 DEF Listener!RecordEnds

\* A record the controller writes comes behind the others.
LEMMA RecordWritten ==
  ASSUME Listener!ListenerTypeOK, Listener!ListenerTypeOK', toHost' = toHost \o Record,
         UNCHANGED <<backlog, done>>, reported \in Nat, reported' = reported + 1,
         NEW text \in Chatter, NEW j \in 0 .. Len(text), NEW k \in Nat, Holds(text, j, k)
  PROVE  Holds(text, j, k + 1)'
<1>1. /\ RecordLen \in Nat \ {0} /\ Len(Record) = RecordLen /\ Record \in Seq(FeedbackBytes)
      /\ Len(text) \in Nat /\ j \in Nat
  BY RecordLengths, LinkAssumption, LenProperties
<1>2. /\ Len(backlog) \in Nat /\ Len(toHost) \in Nat /\ done \in Nat
      /\ Len(Unread) = Len(backlog) + Len(toHost)
  BY UnreadType
<1>3. /\ Len(toHost') = Len(toHost) + RecordLen
      /\ \A i \in 1 .. Len(toHost) + RecordLen :
           toHost'[i] = IF i <= Len(toHost) THEN toHost[i] ELSE Record[i - Len(toHost)]
  BY <1>1, UnreadType, ConcatProperties
<1>4. /\ Len(Unread') = Len(Unread) + RecordLen
      /\ \A i \in 1 .. Len(backlog) + Len(toHost') :
           Unread'[i] = IF i <= Len(backlog) THEN backlog[i] ELSE toHost'[i - Len(backlog)]
  <2>1. backlog' \in Seq(FeedbackBytes) /\ toHost' \in Seq(FeedbackBytes) /\ backlog' = backlog
    BY DEF Listener!ListenerTypeOK
  <2>2. /\ Len(Unread') = Len(backlog') + Len(toHost')
        /\ \A i \in 1 .. Len(backlog') + Len(toHost') :
             Unread'[i] = IF i <= Len(backlog') THEN backlog'[i] ELSE toHost'[i - Len(backlog')]
    BY <2>1, ConcatProperties DEF Unread
  <2>3. Len(Unread') = Len(Unread) + RecordLen
    BY <1>1, <1>2, <1>3, <2>1, <2>2
  <2> QED BY <2>1, <2>2, <2>3
<1>5. \A i \in 1 .. Len(Unread) : Unread'[i] = Unread[i]
  <2> TAKE i \in 1 .. Len(Unread)
  <2>1. i \in 1 .. Len(backlog) + Len(toHost') /\ i \in 1 .. Len(backlog) + Len(toHost)
    BY <1>1, <1>2, <1>3
  <2>2. CASE i <= Len(backlog)
    BY <1>4, <2>1, <2>2, UnreadType
  <2>3. CASE ~(i <= Len(backlog))
    <3>1. i - Len(backlog) \in 1 .. Len(toHost) + RecordLen /\ i - Len(backlog) <= Len(toHost)
      BY <1>1, <1>2, <2>1, <2>3
    <3>2. toHost'[i - Len(backlog)] = toHost[i - Len(backlog)]
      BY <1>3, <3>1
    <3>3. Unread'[i] = toHost'[i - Len(backlog)]
      BY <1>4, <2>1, <2>3
    <3>4. Unread[i] = toHost[i - Len(backlog)]
      BY <2>1, <2>3, UnreadType
    <3> QED BY <3>2, <3>3, <3>4
  <2> QED BY <2>2, <2>3
<1>6. \A r \in 1 .. RecordLen : Unread'[Len(Unread) + r] = Record[r]
  <2> TAKE r \in 1 .. RecordLen
  <2>1. PICK n : n = Len(Unread) + r
    OBVIOUS
  <2>2. n \in 1 .. Len(backlog) + Len(toHost') /\ ~(n <= Len(backlog))
    BY <1>1, <1>2, <1>3, <2>1
  <2>3. PICK m : m = n - Len(backlog)
    OBVIOUS
  <2>4. m \in 1 .. Len(toHost) + RecordLen /\ ~(m <= Len(toHost)) /\ m - Len(toHost) = r
    BY <1>1, <1>2, <2>1, <2>2, <2>3
  <2>5. Unread'[n] = toHost'[n - Len(backlog)]
    BY <1>4, <2>2
  <2>6. toHost'[m] = Record[m - Len(toHost)]
    BY <1>3, <2>4
  <2> QED BY <2>1, <2>3, <2>4, <2>5, <2>6
<1>7. /\ Len(Unread) = j + k * RecordLen /\ Len(Unread) \in Nat /\ j <= Len(Unread)
      /\ k * RecordLen \in Nat /\ (k + 1) * RecordLen = k * RecordLen + RecordLen
  <2>1. RecordLen \in Nat /\ k + 1 \in Nat /\ 0 \in 0 .. k + 1 - 1
    BY <1>1
  <2>2. k * RecordLen \in Nat /\ (k + 1) * RecordLen = k * RecordLen + RecordLen
    <3>1. \A a, b \in Nat : a * b \in Nat /\ (a + 1) * b = a * b + b
      OBVIOUS
    <3> QED BY <1>1, <3>1
  <2>3. PICK w : w = k * RecordLen
    OBVIOUS
  <2>4. Len(Unread) = j + w /\ w \in Nat
    BY <2>2, <2>3 DEF Holds
  <2>5. Len(Unread) \in Nat /\ j <= Len(Unread)
    BY <1>1, <2>4
  <2> QED BY <2>2, <2>3, <2>4, <2>5
<1>8. \A i \in 1 .. j : Unread'[i] = text[Len(text) - j + i]
  <2> TAKE i \in 1 .. j
  <2>1. i \in 1 .. Len(Unread)
    <3>1. Len(Unread) \in Nat /\ j <= Len(Unread)
      BY <1>7, Zenon
    <3> QED BY <1>1, <3>1
  <2> QED BY <1>5, <2>1 DEF Holds
<1>9. \A q \in 0 .. k : \A r \in 1 .. RecordLen : Unread'[j + q * RecordLen + r] = Record[r]
  <2> TAKE q \in 0 .. k
  <2> TAKE r \in 1 .. RecordLen
  <2>1. CASE q = k
    BY <1>6, <1>7, <2>1
  <2>2. CASE q # k
    <3>1. q \in 0 .. k - 1
      BY <2>2
    <3>2. q * RecordLen \in Nat /\ q * RecordLen + RecordLen <= k * RecordLen
      BY <1>1, <3>1, Blocks
    <3>3. PICK n : n = j + q * RecordLen + r
      OBVIOUS
    <3>4. n \in 1 .. Len(Unread)
      <4>1. PICK v : v = q * RecordLen
        OBVIOUS
      <4>2. PICK w : w = k * RecordLen
        OBVIOUS
      <4>3. /\ v \in Nat /\ w \in Nat /\ v + RecordLen <= w /\ n = j + v + r
            /\ Len(Unread) = j + w
        BY <1>7, <3>2, <3>3, <4>1, <4>2
      <4> QED BY <1>1, <4>3
    <3>5. Unread[j + q * RecordLen + r] = Record[r]
      BY <3>1 DEF Holds
    <3>6. Unread'[n] = Unread[n]
      BY <1>5, <3>4
    <3> QED BY <3>3, <3>5, <3>6
  <2> QED BY <2>1, <2>2
<1>10. k + 1 = reported' - done'
  BY <1>2 DEF Holds
<1>11. Len(Unread') = j + (k + 1) * RecordLen
  BY <1>1, <1>4, <1>7
<1>12. k + 1 - 1 = k
  OBVIOUS
<1>13. \A q \in 0 .. k + 1 - 1 : \A r \in 1 .. RecordLen :
          Unread'[j + q * RecordLen + r] = Record[r]
  BY ONLY <1>9, <1>12, Zenon
<1> QED BY ONLY <1>8, <1>9, <1>10, <1>11, <1>12 DEF Holds

\* What is cut off the front of the backlog.
LEMMA Cut ==
  ASSUME Listener!ListenerTypeOK, NEW d \in 0 .. Len(backlog),
         backlog' = SubSeq(backlog, d + 1, Len(backlog)), toHost' = toHost
  PROVE  /\ Len(backlog') = Len(backlog) - d
         /\ Len(Unread') = Len(Unread) - d
         /\ \A i \in 1 .. Len(Unread') : Unread'[i] = Unread[i + d]
<1>1. PICK cut, left : cut = SubSeq(backlog, 1, d) /\ left = SubSeq(backlog, d + 1, Len(backlog))
  OBVIOUS
<1>2. /\ backlog \in Seq(FeedbackBytes) /\ toHost \in Seq(FeedbackBytes)
      /\ Unread = backlog \o toHost /\ Unread' = left \o toHost
  BY <1>1, UnreadType DEF Unread
<1>3. /\ cut \in Seq(FeedbackBytes) /\ left \in Seq(FeedbackBytes)
      /\ Len(cut) = d /\ Len(left) = Len(backlog) - d /\ cut \o left = backlog
  BY <1>1, <1>2, Split
<1>4. left \o toHost \in Seq(FeedbackBytes) /\ Len(left \o toHost) \in Nat
  BY <1>2, <1>3, ConcatProperties, LenProperties
<1>5. /\ Len((cut \o left) \o toHost) = Len(cut) + Len(left \o toHost)
      /\ \A i \in 1 .. Len(left \o toHost) :
           (left \o toHost)[i] = ((cut \o left) \o toHost)[i + Len(cut)]
  <2>1. /\ cut \in Seq(FeedbackBytes) /\ left \in Seq(FeedbackBytes)
        /\ toHost \in Seq(FeedbackBytes)
    BY <1>2, <1>3
  <2> QED BY <2>1, CutFront
<1>6. Len(Unread) = d + Len(Unread') /\ Len(Unread') \in Nat /\ d \in Nat
  BY <1>2, <1>3, <1>4, <1>5, UnreadType
<1>7. Len(Unread') = Len(Unread) - d
  BY <1>6
<1> QED BY <1>1, <1>2, <1>3, <1>5, <1>7

\* A read moves nothing to another place.
LEMMA ReadOn ==
  ASSUME Listener!ListenerTypeOK, Listener!Receive
  PROVE  Unread' = Unread
<1>1. PICK n \in 1 .. Len(toHost) :
             /\ backlog' = backlog \o SubSeq(toHost, 1, n)
             /\ toHost' = SubSeq(toHost, n + 1, Len(toHost))
  BY DEF Listener!Receive
<1>2. toHost \in Seq(FeedbackBytes) /\ backlog \in Seq(FeedbackBytes) /\ n \in 0 .. Len(toHost)
  BY UnreadType
<1>3. (backlog \o SubSeq(toHost, 1, n)) \o SubSeq(toHost, n + 1, Len(toHost)) = backlog \o toHost
  BY <1>2, MoveFront
<1> QED BY <1>1, <1>3 DEF Unread

\* The daemon's task keeps the records in order.
LEMMA ListenerKeepsRecords ==
  ASSUME Listener!ListenerTypeOK, Listener!ListenerTypeOK', Listener!ListenerNext, HoldsSome,
         listening', UNCHANGED reported, reported \in Nat
  PROVE  HoldsSome'
<1>1. PICK text \in Chatter : \E l \in 0 .. Len(text) : \E m \in Nat :
             Holds(text, l, m) /\ (~parsing /\ m >= 1 => Len(backlog) < l + RecordLen)
  BY Zenon DEF HoldsSome
<1>2. PICK j \in 0 .. Len(text) : \E m \in Nat :
             Holds(text, j, m) /\ (~parsing /\ m >= 1 => Len(backlog) < j + RecordLen)
  BY <1>1, Zenon
<1>3. PICK k \in Nat :
             Holds(text, j, k) /\ (~parsing /\ k >= 1 => Len(backlog) < j + RecordLen)
  BY <1>2, Zenon
<1>4. /\ RecordLen \in Nat \ {0} /\ Len(text) \in Nat /\ j \in Nat
      /\ Len(backlog) \in Nat /\ Len(Unread) \in Nat /\ done \in Nat
  BY RecordLengths, LinkAssumption, LenProperties, UnreadType
<1>5. CASE Listener!Receive
  <2>1. Holds(text, j, k)'
    <3>1. Unread' = Unread
      BY <1>5, ReadOn
    <3>2. done' = done
      BY <1>5 DEF Listener!Receive
    <3> QED BY <1>3, <3>1, <3>2 DEF Holds
  <2>2. parsing'
    BY <1>5 DEF Listener!Receive
  <2> QED BY <2>1, <2>2, Zenon DEF HoldsSome
<1>6. CASE Listener!ParseRecord
  <2>1. PICK end \in Listener!RecordEnds : backlog' = SubSeq(backlog, end + 1, Len(backlog))
    BY <1>6, Zenon DEF Listener!ParseRecord
  <2>2. done' = done + 1 /\ UNCHANGED <<toHost, parsing>> /\ parsing
    BY <1>6 DEF Listener!ParseRecord
  <2>3. k >= 1 /\ end = j + RecordLen /\ end \in 0 .. Len(backlog)
    BY <1>3, <1>4, <2>1, RecordFound
  <2>4. /\ Len(Unread') = Len(Unread) - end
        /\ \A i \in 1 .. Len(Unread') : Unread'[i] = Unread[i + end]
    BY <2>1, <2>2, <2>3, Cut
  <2>5. /\ k * RecordLen \in Nat /\ (k - 1) * RecordLen = k * RecordLen - RecordLen
        /\ Len(Unread) = j + k * RecordLen
    <3>1. 0 \in 0 .. k - 1
      BY <2>3
    <3> QED BY <1>3, <1>4, <3>1, Blocks DEF Holds
  <2>6. Len(Unread') = 0 + (k - 1) * RecordLen
    BY <1>4, <2>3, <2>4, <2>5
  <2>7. \A q \in 0 .. k - 1 - 1 : \A r \in 1 .. RecordLen :
            Unread'[0 + q * RecordLen + r] = Record[r]
    <3> TAKE q \in 0 .. k - 1 - 1
    <3> TAKE r \in 1 .. RecordLen
    <3>1. q + 1 \in 0 .. k - 1 /\ q \in 0 .. k - 1 /\ k - 1 \in Nat
      BY <2>3
    <3>2. /\ q * RecordLen \in Nat /\ (q + 1) * RecordLen = q * RecordLen + RecordLen
          /\ q * RecordLen + RecordLen <= (k - 1) * RecordLen
      BY <1>4, <3>1, Blocks
    <3>3. PICK v, u, w : v = q * RecordLen /\ u = (q + 1) * RecordLen /\ w = (k - 1) * RecordLen
      OBVIOUS
    <3>4. v \in Nat /\ u = v + RecordLen /\ v + RecordLen <= w /\ Len(Unread') = w /\ w \in Int
      BY <2>5, <2>6, <3>2, <3>3
    <3>5. v + r \in 1 .. Len(Unread') /\ v + r + end = j + u + r
      BY <1>4, <2>3, <3>4
    <3>6. Unread[j + u + r] = Record[r]
      BY <1>3, <3>1, <3>3 DEF Holds
    <3>7. Unread'[v + r] = Unread[v + r + end]
      BY <2>4, <3>5
    <3>8. 0 + v + r = v + r
      BY <3>4
    <3> QED BY <3>3, <3>5, <3>6, <3>7, <3>8
  <2>8. k - 1 = reported' - done' /\ k - 1 \in Nat /\ 0 \in 0 .. Len(text)
    BY <1>3, <1>4, <2>2, <2>3 DEF Holds
  <2>9. Holds(text, 0, k - 1)'
    BY <2>6, <2>7, <2>8 DEF Holds
  <2> QED BY <2>2, <2>8, <2>9, Zenon DEF HoldsSome
<1>7. CASE Listener!KeepTail
  <2>1. Listener!RecordEnds = {} /\ UNCHANGED <<toHost, done>>
    BY <1>7 DEF Listener!KeepTail
  <2>2. k >= 1 => Len(backlog) < j + RecordLen
    BY <1>3, <2>1, NoRecordFound
  <2>3. CASE backlog' = backlog
    <3>1. Unread' = Unread
      BY <2>1, <2>3 DEF Unread
    <3>2. Holds(text, j, k)'
      BY <1>3, <2>1, <3>1 DEF Holds
    <3> QED BY <2>2, <2>3, <3>2, Zenon DEF HoldsSome
  <2>4. CASE backlog' # backlog
    <3> DEFINE d == Len(backlog) - 2 * RecordLen
    <3>1. /\ Len(backlog) > 4 * RecordLen
          /\ backlog' = SubSeq(backlog, Len(backlog) - 2 * RecordLen + 1, Len(backlog))
      BY <1>7, <2>4 DEF Listener!KeepTail, Listener!MaxBacklog, Listener!KeptBacklog
    <3>2. d \in 0 .. Len(backlog) /\ d \in Nat
      BY <1>4, <3>1
    <3>3. /\ Len(backlog') = Len(backlog) - d /\ Len(Unread') = Len(Unread) - d
          /\ \A i \in 1 .. Len(Unread') : Unread'[i] = Unread[i + d]
      BY <2>1, <3>1, <3>2, Cut
    <3> HIDE DEF d
    <3>4. PICK w : w = k * RecordLen
      OBVIOUS
    <3>5. w \in Nat /\ Len(Unread) = j + w /\ (k = 0 => w = 0)
      <4>1. \A a, b \in Nat : a * b \in Nat /\ 0 * b = 0
        OBVIOUS
      <4> QED BY <1>3, <1>4, <3>4, <4>1 DEF Holds
    <3>6. d <= j
      <4>1. CASE k = 0
        <5>1. Len(backlog) <= Len(Unread)
          BY UnreadType
        <5> QED BY <1>4, <3>2, <3>5, <4>1, <5>1
      <4>2. CASE k >= 1
        BY <1>4, <2>2, <4>2 DEF d
      <4> QED BY <4>1, <4>2
    <3>7. PICK l : l = j - d
      OBVIOUS
    <3>8. l \in Nat /\ l \in 0 .. Len(text) /\ l + d = j /\ Len(Unread') = l + w
      BY <1>4, <3>2, <3>3, <3>5, <3>6, <3>7
    <3>9. \A i \in 1 .. l : Unread'[i] = text[Len(text) - l + i]
      <4> TAKE i \in 1 .. l
      <4>1. i \in 1 .. Len(Unread') /\ i + d \in 1 .. j /\ Len(text) - j + (i + d) = Len(text) - l + i
        BY <1>4, <3>2, <3>5, <3>8
      <4>2. Unread[i + d] = text[Len(text) - j + (i + d)]
        BY <1>3, <4>1 DEF Holds
      <4> QED BY <3>3, <4>1, <4>2
    <3>10. \A q \in 0 .. k - 1 : \A r \in 1 .. RecordLen : Unread'[l + q * RecordLen + r] = Record[r]
      <4> TAKE q \in 0 .. k - 1
      <4> TAKE r \in 1 .. RecordLen
      <4>1. q * RecordLen \in Nat /\ q * RecordLen + RecordLen <= k * RecordLen
        BY <1>4, Blocks
      <4>2. PICK v : v = q * RecordLen
        OBVIOUS
      <4>3. l + v + r \in 1 .. Len(Unread') /\ l + v + r + d = j + v + r
        BY <1>4, <3>2, <3>4, <3>5, <3>8, <4>1, <4>2
      <4>4. Unread[j + v + r] = Record[r]
        BY <1>3, <4>2 DEF Holds
      <4>5. Unread'[l + v + r] = Unread[l + v + r + d]
        BY <3>3, <4>3
      <4> QED BY <4>2, <4>3, <4>4, <4>5
    <3>11. Holds(text, l, k)'
      BY <1>3, <2>1, <3>4, <3>8, <3>9, <3>10 DEF Holds
    <3>12. k >= 1 => Len(backlog') < l + RecordLen
      BY <1>4, <2>2, <3>2, <3>3, <3>8
    <3> QED BY <3>8, <3>11, <3>12, Zenon DEF HoldsSome
  <2> QED BY <2>3, <2>4
<1>8. CASE Listener!StopListening
  BY <1>8 DEF Listener!StopListening
<1> QED BY <1>5, <1>6, <1>7, <1>8 DEF Listener!ListenerNext

\* Every step keeps the records in order.
LEMMA LineKeepsRecords ==
  ASSUME TypeOK, TypeOK', RecordsInv, [Next]_vars
  PROVE  RecordsInv'
<1>1. /\ Listener!ListenerTypeOK /\ Listener!ListenerTypeOK'
      /\ reported \in Nat /\ reported' \in Nat /\ done \in Nat /\ done' \in Nat
  BY DEF TypeOK, Listener!ListenerTypeOK
<1>2. ASSUME HoldsSome
      PROVE  done <= reported
  BY <1>1, <1>2 DEF HoldsSome, Holds
<1>3. CASE UNCHANGED <<toHost, backlog, parsing, done, listening, reported>>
  <2>1. Unread' = Unread
    BY <1>3 DEF Unread
  <2> QED BY <1>3, <2>1 DEF RecordsInv, HoldsSome, Holds
<1>4. CASE Controller
  <2>1. UNCHANGED <<backlog, parsing, done, listening>> /\ ReceiverNext
        /\ reported' = IF toHost' = toHost THEN reported ELSE reported + 1
    BY <1>4 DEF Controller
  <2>2. toHost' = toHost \/ toHost' = toHost \o Record
    BY <1>1, <2>1, ToHostType DEF Listener!ListenerTypeOK
  <2>3. CASE toHost' = toHost
    BY <1>3, <2>1, <2>3
  <2>4. CASE toHost' # toHost
    <3>1. reported' = reported + 1 /\ toHost' = toHost \o Record
      BY <2>1, <2>2, <2>4
    <3>2. done' <= reported'
      BY <1>1, <2>1, <3>1 DEF RecordsInv
    <3>3. ASSUME listening, NEW text \in Chatter, NEW j \in 0 .. Len(text), NEW k \in Nat,
                 Holds(text, j, k), ~parsing /\ k >= 1 => Len(backlog) < j + RecordLen
          PROVE  HoldsSome'
      <4>1. Holds(text, j, k + 1)'
        BY <1>1, <2>1, <3>1, <3>3, RecordWritten
      <4>2. k + 1 \in Nat
        OBVIOUS
      <4>3. ~parsing' => Len(backlog') < j + RecordLen
        <5>1. CASE k >= 1
          BY <2>1, <3>3, <5>1
        <5>2. CASE k = 0
          <6>1. Len(Unread) = j + 0 * RecordLen
            BY <3>3, <5>2 DEF Holds
          <6>2. /\ RecordLen \in Nat \ {0} /\ Len(backlog) \in Nat /\ Len(toHost) \in Nat
                /\ Len(Unread) = Len(backlog) + Len(toHost) /\ j \in Nat
            BY <1>1, RecordLengths, UnreadType, LinkAssumption, LenProperties
          <6> QED BY <2>1, <6>1, <6>2
        <5> QED BY <5>1, <5>2
      <4> QED BY <4>1, <4>2, <4>3, Zenon DEF HoldsSome
    <3>4. listening => HoldsSome'
      BY <3>3, Zenon DEF RecordsInv, HoldsSome
    <3> QED BY <2>1, <3>2, <3>4 DEF RecordsInv
  <2> QED BY <2>3, <2>4
<1>5. CASE FeedbackTask
  <2>1. Listener!ListenerNext /\ reported' = reported
    BY <1>5 DEF FeedbackTask
  <2>2. listening' => listening
    BY <2>1 DEF Listener!ListenerNext, Listener!Receive, Listener!ParseRecord, Listener!KeepTail,
                Listener!StopListening
  <2>3. listening' => HoldsSome'
    BY <1>1, <2>1, <2>2, ListenerKeepsRecords DEF RecordsInv
  <2>4. done' <= reported'
    <3>1. CASE listening'
      BY <1>1, <2>3, <3>1 DEF HoldsSome, Holds
    <3>2. CASE ~listening'
      <4>1. done' = done
        BY <2>1, <3>2 DEF Listener!ListenerNext, Listener!Receive, Listener!ParseRecord,
                          Listener!KeepTail, Listener!StopListening
      <4> QED BY <2>1, <4>1 DEF RecordsInv
    <3> QED BY <3>1, <3>2
  <2> QED BY <2>3, <2>4 DEF RecordsInv
<1>6. CASE PortWritten
  BY <1>3, <1>6 DEF PortWritten
<1>7. CASE UNCHANGED vars
  BY <1>3, <1>7 DEF vars, receiverVars
<1> QED BY <1>4, <1>5, <1>6, <1>7 DEF Next

\* The records are in order in every behaviour.
LEMMA RecordsHold == Spec => []RecordsInv
<1>1. Init => RecordsInv
  <2> SUFFICES ASSUME Init
               PROVE  RecordsInv
    OBVIOUS
  <2>1. /\ toHost \in Chatter /\ backlog = <<>> /\ done = 0 /\ reported = 0
    BY DEF Init, Listener!ListenerInit
  <2>2. toHost \in Seq(FeedbackBytes) /\ Len(toHost) \in Nat /\ RecordLen \in Nat \ {0}
    BY <2>1, LinkAssumption, LenProperties, RecordLengths
  <2>3. Unread = toHost
    BY <2>1, <2>2, ConcatEmptySeq DEF Unread
  <2>4. Holds(toHost, Len(toHost), 0)
    <3>1. Len(Unread) = Len(toHost) + 0 * RecordLen
      BY <2>2, <2>3
    <3>2. \A i \in 1 .. Len(toHost) : Len(toHost) - Len(toHost) + i = i
      BY <2>2
    <3> QED BY <2>1, <2>3, <3>1, <3>2 DEF Holds
  <2>5. Len(toHost) \in 0 .. Len(toHost) /\ 0 \in Nat /\ ~(0 >= 1)
    BY <2>2
  <2>6. HoldsSome
    BY <2>1, <2>4, <2>5, Zenon DEF HoldsSome
  <2> QED BY <2>1, <2>6 DEF RecordsInv
<1>2. TypeOK /\ TypeOK' /\ RecordsInv /\ [Next]_vars => RecordsInv'
  BY LineKeepsRecords
<1> QED BY <1>1, <1>2, TypeCorrect, PTL DEF Spec

\* spawn_feedback_listener: each record makes one Done, however it is cut and whatever
\* the controller printed before.
THEOREM EveryRecordCountedHolds == Spec => []EveryRecordCounted
<1>1. TypeOK /\ RecordsInv => EveryRecordCounted
  <2> SUFFICES ASSUME TypeOK, RecordsInv, toHost = <<>>, listening, ~parsing
               PROVE  done = reported
    BY DEF EveryRecordCounted, RecordsInv
  <2>1. Listener!ListenerTypeOK /\ reported \in Nat
    BY DEF TypeOK
  <2>0. PICK text \in Chatter : \E l \in 0 .. Len(text) : \E m \in Nat :
               Holds(text, l, m) /\ (~parsing /\ m >= 1 => Len(backlog) < l + RecordLen)
    BY Zenon DEF RecordsInv, HoldsSome
  <2>2. PICK j \in 0 .. Len(text) : \E m \in Nat :
               Holds(text, j, m) /\ (~parsing /\ m >= 1 => Len(backlog) < j + RecordLen)
    BY <2>0, Zenon
  <2>3. PICK k \in Nat : Holds(text, j, k) /\ (k >= 1 => Len(backlog) < j + RecordLen)
    BY <2>2
  <2>4. RecordLen \in Nat \ {0} /\ j \in Nat /\ Len(backlog) \in Nat /\ Len(toHost) = 0 /\ done \in Nat
    BY <2>1, RecordLengths, UnreadType, LinkAssumption, LenProperties
  <2>5. CASE k >= 1
    <3>1. PICK w : w = k * RecordLen
      OBVIOUS
    <3>2. w >= RecordLen /\ w \in Nat
      <4>1. 0 \in 0 .. k - 1 /\ 0 * RecordLen = 0
        BY <2>4, <2>5
      <4>2. k * RecordLen \in Nat /\ 0 * RecordLen + RecordLen <= k * RecordLen
        BY <2>4, <4>1, Blocks
      <4> QED BY <2>4, <3>1, <4>1, <4>2
    <3>3. Len(backlog) = j + w
      BY <2>1, <2>3, <2>4, <3>1, UnreadType DEF Holds
    <3> QED BY <2>3, <2>4, <2>5, <3>2, <3>3
  <2>6. CASE k = 0
    BY <2>1, <2>3, <2>4, <2>6 DEF Holds
  <2> QED BY <2>5, <2>6
<1> QED BY <1>1, TypeCorrect, RecordsHold, PTL

-------------------------------------------------------------------------------
(* Damage.                                                                    *)

\* What the controller has not taken apart yet.
Inbound == buf \o fifo

\* Behind y symbols stands a frame.
FrameAt(p, y) == \A r \in 1 .. FrameLen : Inbound[y + r] = Packet(p)[r]

\* Behind x symbols stand n frames and nothing else; the last one is the last written.
Frames(x, n) ==
  /\ Len(Inbound) = x + n * FrameLen
  /\ \A q \in 0 .. n - 1 :
       \E p \in Payloads : FrameAt(p, x + q * FrameLen) /\ (q = n - 1 => p = sent)

\* The x symbols before them are the rest of a frame.
InStep(x) ==
  /\ x < FrameLen
  /\ \/ x = 0
     \/ \E p \in Payloads : \A i \in 1 .. x : Inbound[i] = Packet(p)[FrameLen - x + i]

\* As many frames are whole as were written since the last damage, or one less and
\* the receiver is in step; or the last frame has been shown.
Recovering(x, n) ==
  \/ n >= intact
  \/ n >= intact - 1 /\ InStep(x)
  \/ n = 0 /\ x = 0 /\ pixels = sent

DamageInv == \E x \in Nat : \E n \in Nat : Frames(x, n) /\ Recovering(x, n)

\* What a packet consists of.
LEMMA PacketShape ==
  ASSUME NEW p \in [1 .. StateBytes -> Bytes]
  PROVE  /\ Packet(p) \in Seq(Bytes) /\ Len(Packet(p)) = FrameLen
         /\ \A i \in 1 .. Len(Magic) : Packet(p)[i] = Magic[i]
         /\ Packet(p)[HeaderLen] = FullLen
         /\ \A i \in 1 .. StateBytes : Packet(p)[HeaderLen + i] = p[i]
<1>1. /\ Len(Magic) \in Nat \ {0} /\ Magic \in Seq(Bytes) /\ StateBytes \in Nat
      /\ HeaderLen = Len(Magic) + 1 /\ FrameLen = HeaderLen + StateBytes
  BY Lengths, FrameAssumption
<1>2. p \in Seq(Bytes) /\ Len(p) = StateBytes
  BY <1>1
<1>3. PICK length : length = <<FullLen>>
  OBVIOUS
<1>4. length \in Seq(Bytes) /\ Len(length) = 1 /\ length[1] = FullLen
  BY <1>3, LinkAssumption
<1>5. PICK header : header = Magic \o length
  OBVIOUS
<1>6. /\ header \in Seq(Bytes) /\ Len(header) = HeaderLen
      /\ \A i \in 1 .. HeaderLen : header[i] = IF i <= Len(Magic) THEN Magic[i] ELSE length[i - Len(Magic)]
  <2>1. length \in Seq(Bytes) /\ Magic \in Seq(Bytes)
    BY <1>1, <1>4
  <2>2. /\ Magic \o length \in Seq(Bytes) /\ Len(Magic \o length) = Len(Magic) + Len(length)
        /\ \A i \in 1 .. Len(Magic) + Len(length) :
             (Magic \o length)[i] = IF i <= Len(Magic) THEN Magic[i] ELSE length[i - Len(Magic)]
    BY <2>1, ConcatProperties
  <2>3. Len(Magic) + Len(length) = HeaderLen
    BY <1>1, <1>4
  <2> QED BY <1>5, <2>2, <2>3
<1>7. PICK packet : packet = header \o p
  OBVIOUS
<1>8. /\ packet \in Seq(Bytes) /\ Len(packet) = FrameLen
      /\ \A i \in 1 .. FrameLen : packet[i] = IF i <= HeaderLen THEN header[i] ELSE p[i - HeaderLen]
  <2>1. header \in Seq(Bytes) /\ p \in Seq(Bytes)
    BY <1>2, <1>6
  <2>2. /\ header \o p \in Seq(Bytes) /\ Len(header \o p) = Len(header) + Len(p)
        /\ \A i \in 1 .. Len(header) + Len(p) :
             (header \o p)[i] = IF i <= Len(header) THEN header[i] ELSE p[i - Len(header)]
    BY <2>1, ConcatProperties
  <2>3. Len(header) + Len(p) = FrameLen /\ Len(header) = HeaderLen
    BY <1>1, <1>2, <1>6
  <2> QED BY <1>7, <2>2, <2>3
<1>9. Packet(p) = packet
  BY <1>3, <1>5, <1>7 DEF Packet
<1>10. ASSUME NEW i \in 1 .. Len(Magic)
       PROVE  packet[i] = Magic[i]
  BY <1>1, <1>6, <1>8
<1>11. packet[HeaderLen] = FullLen
  BY <1>1, <1>4, <1>6, <1>8
<1>12. ASSUME NEW i \in 1 .. StateBytes
       PROVE  packet[HeaderLen + i] = p[i]
  <2>1. PICK k : k = HeaderLen + i
    OBVIOUS
  <2>2. k \in 1 .. FrameLen /\ ~(k <= HeaderLen) /\ k - HeaderLen = i
    BY <1>1, <2>1
  <2> QED BY <1>8, <2>1, <2>2
<1> QED BY <1>8, <1>9, <1>10, <1>11, <1>12

\* No magic begins inside a packet, whatever packet is behind it.
LEMMA NoMagicInside ==
  ASSUME NEW p \in Payloads, NEW i \in 2 .. FrameLen
  PROVE  \E m \in 1 .. Len(Magic) :
           Magic[m] # IF i + m - 1 <= FrameLen THEN Packet(p)[i + m - 1]
                                               ELSE Magic[i + m - 1 - FrameLen]
<1>1. /\ Len(Magic) \in Nat \ {0} /\ Magic \in Seq(Bytes) /\ FrameLen \in Nat
      /\ p \in [1 .. StateBytes -> Bytes]
  BY Lengths, FrameAssumption, LinkAssumption
<1>2. PICK packet : packet = Packet(p)
  OBVIOUS
<1>3. packet \in Seq(Bytes) /\ Len(packet) = FrameLen
  BY <1>1, <1>2, PacketShape
<1>4. PICK last : last = i + Len(Magic) - 1
  OBVIOUS
<1>5. CASE last <= FrameLen
  <2>1. i \in 2 .. Len(packet) - Len(Magic) + 1
    BY <1>1, <1>3, <1>4, <1>5
  <2>2. SubSeq(packet, i, last) # Magic
    BY <1>2, <1>4, <2>1, PayloadAssumption
  <2>3. i \in 1 .. Len(packet) /\ last \in 1 .. Len(packet) /\ i <= last /\ last - i + 1 = Len(Magic)
    BY <1>1, <1>3, <1>4, <1>5
  <2>4. PICK found : found = SubSeq(packet, i, last)
    OBVIOUS
  <2>5. /\ found \in Seq(Bytes) /\ Len(found) = Len(Magic)
        /\ \A m \in 1 .. Len(Magic) : found[m] = packet[i + m - 1]
    BY <1>3, <2>3, <2>4, SubSeqProperties
  <2>6. PICK m \in 1 .. Len(Magic) : found[m] # Magic[m]
    BY <1>1, <2>2, <2>4, <2>5, SeqEqual
  <2>7. i + m - 1 <= FrameLen
    BY <1>1, <1>4, <1>5
  <2> QED BY <1>2, <2>5, <2>6, <2>7
<1>6. CASE ~(last <= FrameLen)
  <2>1. PICK k : k = last - FrameLen
    OBVIOUS
  <2>2. k \in 1 .. Len(Magic) - 1
    BY <1>1, <1>4, <1>6, <2>1
  <2>3. PICK j \in 1 .. k : Magic[j] # Magic[Len(Magic) - k + j]
    BY <2>2, MagicAssumption
  <2>4. PICK m : m = Len(Magic) - k + j
    OBVIOUS
  <2>5. m \in 1 .. Len(Magic) /\ ~(i + m - 1 <= FrameLen) /\ i + m - 1 - FrameLen = j
    BY <1>1, <1>4, <2>1, <2>2, <2>4
  <2>6. Magic[m] # Magic[j]
    BY <2>3, <2>4
  <2> QED BY <2>5, <2>6
<1> QED BY <1>5, <1>6

\* Everything inbound is typed.
LEMMA InboundType ==
  ASSUME ReceiverTypeOK
  PROVE  /\ buf \in Seq(Bytes) /\ fifo \in Seq(Bytes)
         /\ Len(buf) \in Nat /\ Len(fifo) \in Nat /\ Len(buf) <= FrameLen
         /\ Inbound \in Seq(Bytes) /\ Len(Inbound) = Len(buf) + Len(fifo)
         /\ \A i \in 1 .. Len(buf) : Inbound[i] = buf[i]
<1>1. buf \in Seq(Bytes) /\ fifo \in Seq(Bytes) /\ Len(buf) <= FrameLen
  BY DEF ReceiverTypeOK
<1>2. Len(buf) \in Nat /\ Len(fifo) \in Nat
  BY <1>1, LenProperties
<1>3. /\ Inbound \in Seq(Bytes) /\ Len(Inbound) = Len(buf) + Len(fifo)
      /\ \A i \in 1 .. Len(buf) + Len(fifo) :
           Inbound[i] = IF i <= Len(buf) THEN buf[i] ELSE fifo[i - Len(buf)]
  BY <1>1, ConcatProperties DEF Inbound
<1>4. \A i \in 1 .. Len(buf) : Inbound[i] = buf[i]
  BY <1>2, <1>3
<1> QED BY <1>1, <1>2, <1>3, <1>4

\* No header stands in the rest of a frame.
LEMMA HeaderInStep ==
  ASSUME ReceiverTypeOK, HasHeader, NEW x \in Nat, NEW n \in Nat, Frames(x, n), InStep(x)
  PROVE  x = 0
<1> SUFFICES ASSUME x # 0
             PROVE  FALSE
  OBVIOUS
<1>1. /\ Len(Magic) \in Nat \ {0} /\ FrameLen \in Nat /\ StateBytes \in Nat
      /\ HeaderLen = Len(Magic) + 1 /\ FrameLen = HeaderLen + StateBytes
  BY Lengths, FrameAssumption
<1>2. x \in 1 .. FrameLen - 1
  BY <1>1 DEF InStep
<1>3. PICK p \in Payloads : \A l \in 1 .. x : Inbound[l] = Packet(p)[FrameLen - x + l]
  BY DEF InStep
<1>4. PICK i : i = FrameLen - x + 1
  OBVIOUS
<1>5. i \in 2 .. FrameLen
  BY <1>1, <1>2, <1>4
<1>6. PICK m \in 1 .. Len(Magic) :
             Magic[m] # IF i + m - 1 <= FrameLen THEN Packet(p)[i + m - 1]
                                                 ELSE Magic[i + m - 1 - FrameLen]
  BY <1>5, NoMagicInside
<1>7. Inbound[m] = Magic[m] /\ m <= Len(Inbound)
  <2>1. /\ buf \in Seq(Bytes) /\ Len(buf) >= HeaderLen /\ SubSeq(buf, 1, Len(Magic)) = Magic
        /\ Len(buf) \in Nat /\ Len(fifo) \in Nat /\ Len(Inbound) = Len(buf) + Len(fifo)
    BY InboundType DEF HasHeader, HeadsMagic
  <2>2. Len(Magic) \in 1 .. Len(buf) /\ m \in 1 .. Len(buf)
    BY <1>1, <2>1
  <2>3. SubSeq(buf, 1, Len(Magic))[m] = buf[m]
    BY <1>1, <2>1, <2>2
  <2> QED BY <2>1, <2>2, <2>3, InboundType
<1>8. CASE m <= x
  <2>1. i + m - 1 <= FrameLen /\ m \in 1 .. x /\ FrameLen - x + m = i + m - 1
    BY <1>1, <1>2, <1>4, <1>8
  <2>2. Inbound[m] = Packet(p)[i + m - 1]
    BY <1>3, <2>1
  <2> QED BY <1>6, <1>7, <2>1, <2>2
<1>9. CASE ~(m <= x)
  <2>1. PICK r : r = m - x
    OBVIOUS
  <2>2. /\ r \in 1 .. Len(Magic) /\ r \in 1 .. FrameLen /\ x + r = m
        /\ ~(i + m - 1 <= FrameLen) /\ i + m - 1 - FrameLen = r
    BY <1>1, <1>2, <1>4, <1>9, <2>1
  <2>3. n # 0
    <3>1. ASSUME n = 0
          PROVE  FALSE
      <4>1. Len(Inbound) = x + 0 * FrameLen
        BY <3>1 DEF Frames
      <4> QED BY <1>1, <1>7, <1>9, <4>1
    <3> QED BY <3>1
  <2>4. 0 \in 0 .. n - 1 /\ x + 0 * FrameLen = x
    BY <1>1, <2>3
  <2>5. PICK q \in Payloads : FrameAt(q, x + 0 * FrameLen)
    BY <2>4 DEF Frames
  <2>6. Inbound[x + r] = Packet(q)[r]
    BY <2>2, <2>4, <2>5 DEF FrameAt
  <2>7. Packet(q)[r] = Magic[r]
    BY <2>2, LinkAssumption, PacketShape
  <2> QED BY <1>6, <1>7, <2>2, <2>6, <2>7
<1> QED BY <1>8, <1>9

\* A frame that heads the buffer is known by its header, and is as long as it says.
LEMMA FrameHeads ==
  ASSUME ReceiverTypeOK, Len(buf) >= HeaderLen, NEW n \in Nat, Frames(0, n)
  PROVE  /\ n >= 1 /\ HasHeader /\ FrameSize = FrameLen
         /\ \E p \in Payloads : FrameAt(p, 0) /\ (n = 1 => p = sent)
<1>1. /\ Len(Magic) \in Nat \ {0} /\ Magic \in Seq(Bytes) /\ FrameLen \in Nat /\ StateBytes \in Nat
      /\ HeaderLen = Len(Magic) + 1 /\ FrameLen = HeaderLen + StateBytes
  BY Lengths, FrameAssumption
<1>2. n >= 1
  <2> SUFFICES ASSUME n = 0
               PROVE  FALSE
    OBVIOUS
  <2>1. Len(Inbound) = 0 + 0 * FrameLen
    BY DEF Frames
  <2> QED BY <1>1, <2>1, InboundType
<1>3. PICK p \in Payloads : FrameAt(p, 0 + 0 * FrameLen) /\ (0 = n - 1 => p = sent)
  BY <1>2 DEF Frames
<1>4. FrameAt(p, 0)
  <2>1. 0 + 0 * FrameLen = 0
    BY <1>1
  <2> QED BY <1>3, <2>1 DEF FrameAt
<1>5. \A r \in 1 .. HeaderLen : buf[r] = Packet(p)[r]
  <2> TAKE r \in 1 .. HeaderLen
  <2>1. r \in 1 .. FrameLen /\ r \in 1 .. Len(buf) /\ 0 + r = r
    BY <1>1, InboundType
  <2>2. Inbound[0 + r] = Packet(p)[r]
    BY <1>4, <2>1 DEF FrameAt
  <2> QED BY <2>1, <2>2, InboundType
<1>6. HeadsMagic
  <2>1. PICK head : head = SubSeq(buf, 1, Len(Magic))
    OBVIOUS
  <2>2. 1 \in 1 .. Len(buf) /\ Len(Magic) \in 1 .. Len(buf) /\ 1 <= Len(Magic) /\ buf \in Seq(Bytes)
    BY <1>1, InboundType
  <2>3. /\ head \in Seq(Bytes) /\ Len(head) = Len(Magic)
        /\ \A m \in 1 .. Len(Magic) : head[m] = buf[m]
    BY <1>1, <2>1, <2>2, SubSeqProperties
  <2>4. \A m \in 1 .. Len(Magic) : head[m] = Magic[m]
    <3> TAKE m \in 1 .. Len(Magic)
    <3>1. m \in 1 .. HeaderLen
      BY <1>1
    <3>2. Packet(p)[m] = Magic[m]
      BY LinkAssumption, PacketShape
    <3> QED BY <1>5, <2>3, <3>1, <3>2
  <2>5. head = Magic
    BY <1>1, <2>3, <2>4, SeqEqual
  <2> QED BY <2>1, <2>5 DEF HeadsMagic
<1>7. FrameSize = FrameLen
  <2>1. buf[HeaderLen] = FullLen
    <3>1. Packet(p)[HeaderLen] = FullLen
      BY LinkAssumption, PacketShape
    <3>2. HeaderLen \in 1 .. HeaderLen
      BY <1>1
    <3> QED BY <1>5, <3>1, <3>2
  <2> QED BY <1>1, <2>1, LinkAssumption DEF FrameSize
<1>8. HasHeader
  BY <1>6 DEF HasHeader
<1>9. n = 1 => p = sent
  BY <1>3
<1> QED BY <1>2, <1>4, <1>7, <1>8, <1>9

\* What is cut off the front of the buffer.
LEMMA InboundCut ==
  ASSUME ReceiverTypeOK, NEW d \in 0 .. Len(buf),
         buf' = SubSeq(buf, d + 1, Len(buf)), fifo' = fifo
  PROVE  /\ Len(Inbound') = Len(Inbound) - d
         /\ \A i \in 1 .. Len(Inbound') : Inbound'[i] = Inbound[i + d]
<1>1. PICK cut, left : cut = SubSeq(buf, 1, d) /\ left = SubSeq(buf, d + 1, Len(buf))
  OBVIOUS
<1>2. buf \in Seq(Bytes) /\ fifo \in Seq(Bytes) /\ Inbound = buf \o fifo /\ Inbound' = left \o fifo
  BY <1>1, InboundType DEF Inbound
<1>3. /\ cut \in Seq(Bytes) /\ left \in Seq(Bytes)
      /\ Len(cut) = d /\ Len(left) = Len(buf) - d /\ cut \o left = buf
  BY <1>1, <1>2, Split
<1>4. left \o fifo \in Seq(Bytes) /\ Len(left \o fifo) \in Nat
  BY <1>2, <1>3, ConcatProperties, LenProperties
<1>5. /\ Len((cut \o left) \o fifo) = Len(cut) + Len(left \o fifo)
      /\ \A i \in 1 .. Len(left \o fifo) :
           (left \o fifo)[i] = ((cut \o left) \o fifo)[i + Len(cut)]
  <2>1. cut \in Seq(Bytes) /\ left \in Seq(Bytes) /\ fifo \in Seq(Bytes)
    BY <1>2, <1>3
  <2> QED BY <2>1, CutFront
<1>6. Len(Inbound) = d + Len(Inbound') /\ Len(Inbound') \in Nat /\ d \in Nat
  BY <1>2, <1>3, <1>4, <1>5, InboundType
<1>7. Len(Inbound') = Len(Inbound) - d
  BY <1>6
<1> QED BY <1>1, <1>2, <1>3, <1>5, <1>7

\* The first of the frames may be counted with what is before them.
LEMMA FirstFrame ==
  ASSUME NEW x \in Nat, NEW n \in Nat, n >= 1, Frames(x, n),
         NEW y, y = x + FrameLen, NEW m, m = n - 1
  PROVE  Frames(y, m)
<1>1. FrameLen \in Nat /\ 0 \in 0 .. n - 1 /\ n - 1 \in Nat
  BY Lengths
<1>2. (n - 1) * FrameLen = n * FrameLen - FrameLen /\ n * FrameLen \in Nat
  BY <1>1, Blocks
<1>3. Len(Inbound) = y + m * FrameLen
  <2>1. PICK v, w : v = (n - 1) * FrameLen /\ w = n * FrameLen
    OBVIOUS
  <2>2. Len(Inbound) = x + w /\ v = w - FrameLen /\ w \in Nat
    BY <1>2, <2>1 DEF Frames
  <2>3. Len(Inbound) = y + v
    BY <1>1, <2>2
  <2> QED BY <2>1, <2>3
<1>4. ASSUME NEW q \in 0 .. m - 1
      PROVE  \E p \in Payloads : FrameAt(p, y + q * FrameLen) /\ (q = m - 1 => p = sent)
  <2>1. q + 1 \in 0 .. n - 1 /\ q \in 0 .. n - 1 /\ (q = m - 1 => q + 1 = n - 1)
    OBVIOUS
  <2>2. (q + 1) * FrameLen = q * FrameLen + FrameLen /\ q * FrameLen \in Nat
    BY <1>1, <2>1, Blocks
  <2>3. PICK p \in Payloads : FrameAt(p, x + (q + 1) * FrameLen) /\ (q + 1 = n - 1 => p = sent)
    BY <2>1 DEF Frames
  <2>4. PICK v, w : v = q * FrameLen /\ w = (q + 1) * FrameLen
    OBVIOUS
  <2>5. x + w = y + v
    BY <1>1, <2>2, <2>4
  <2>6. FrameAt(p, y + v)
    BY <2>3, <2>4, <2>5 DEF FrameAt
  <2>7. FrameAt(p, y + q * FrameLen)
    BY <2>4, <2>6 DEF FrameAt
  <2> QED BY <2>1, <2>3, <2>7
<1> QED BY <1>3, <1>4 DEF Frames

\* A cut before the frames leaves them.
LEMMA FramesCut ==
  ASSUME NEW x \in Nat, NEW n \in Nat, NEW d \in 0 .. x, Frames(x, n), sent' = sent,
         Len(Inbound') = Len(Inbound) - d,
         \A i \in 1 .. Len(Inbound') : Inbound'[i] = Inbound[i + d],
         NEW y, y = x - d
  PROVE  Frames(y, n)'
<1>1. FrameLen \in Nat /\ d \in Nat
  BY Lengths
<1>2. y = x - d /\ y \in Nat
  BY <1>1
<1>3. PICK w : w = n * FrameLen
  OBVIOUS
<1>4. w \in Nat
  <2>1. \A a, b \in Nat : a * b \in Nat
    OBVIOUS
  <2> QED BY <1>1, <1>3, <2>1
<1>5. Len(Inbound) = x + w /\ Len(Inbound') = y + w
  <2>1. Len(Inbound) = x + w
    BY <1>3 DEF Frames
  <2> QED BY <1>1, <1>2, <1>4, <2>1
<1>6. ASSUME NEW q \in 0 .. n - 1
      PROVE  \E p \in Payloads : FrameAt(p, y + q * FrameLen)' /\ (q = n - 1 => p = sent')
  <2>1. PICK p \in Payloads : FrameAt(p, x + q * FrameLen) /\ (q = n - 1 => p = sent)
    BY DEF Frames
  <2>2. PICK v : v = q * FrameLen
    OBVIOUS
  <2>3. v \in Nat /\ v + FrameLen <= w
    BY <1>1, <1>3, <2>2, Blocks
  <2>4. ASSUME NEW r \in 1 .. FrameLen
        PROVE  Inbound'[y + v + r] = Packet(p)[r]
    <3>1. Inbound[x + v + r] = Packet(p)[r]
      BY <2>1, <2>2 DEF FrameAt
    <3>2. y + v + r \in 1 .. Len(Inbound') /\ y + v + r + d = x + v + r
      <4>1. y \in Nat /\ y + d = x
        BY <1>1, <1>2
      <4>2. y + v + r \in Nat /\ y + v + r >= 1 /\ y + v + r <= y + w
        BY <1>1, <1>4, <2>3, <4>1
      <4>3. y + v + r + d = x + v + r
        BY <1>1, <2>3, <4>1
      <4>4. y + w \in Nat
        BY <1>4, <4>1
      <4> QED BY <1>5, <4>2, <4>3, <4>4
    <3>3. Inbound'[y + v + r] = Inbound[y + v + r + d]
      BY <3>2
    <3> QED BY <3>1, <3>2, <3>3
  <2>5. FrameAt(p, y + q * FrameLen)'
    BY <2>2, <2>4 DEF FrameAt
  <2> QED BY <2>1, <2>5
<1>7. Len(Inbound') = y + n * FrameLen
  BY <1>3, <1>5
<1> QED BY <1>6, <1>7 DEF Frames

\* A cut that ends inside a frame leaves the receiver in step.
LEMMA CutInStep ==
  ASSUME NEW x \in Nat, NEW n \in Nat, n >= 1, Frames(x, n),
         NEW d \in Nat, x <= d, d <= x + FrameLen, d >= 1,
         Len(Inbound') = Len(Inbound) - d,
         \A i \in 1 .. Len(Inbound') : Inbound'[i] = Inbound[i + d],
         NEW y, y = x + FrameLen - d, y < FrameLen
  PROVE  InStep(y)'
<1>1. FrameLen \in Nat /\ y \in Nat /\ 0 \in 0 .. n - 1
  BY Lengths
<1>2. PICK p \in Payloads : FrameAt(p, x + 0 * FrameLen)
  BY <1>1 DEF Frames
<1>3. PICK w : w = n * FrameLen
  OBVIOUS
<1>4. w \in Nat /\ 0 * FrameLen = 0 /\ FrameLen <= w /\ Len(Inbound) = x + w
  <2>1. 0 * FrameLen + FrameLen <= n * FrameLen /\ n * FrameLen \in Nat
    BY <1>1, Blocks
  <2>2. 0 * FrameLen = 0
    BY <1>1
  <2> QED BY <1>1, <1>3, <2>1, <2>2 DEF Frames
<1>5. ASSUME NEW i \in 1 .. y
      PROVE  Inbound'[i] = Packet(p)[FrameLen - y + i]
  <2>1. PICK r : r = FrameLen - y + i
    OBVIOUS
  <2>2. i \in 1 .. Len(Inbound') /\ i + d = x + r /\ r \in 1 .. FrameLen
    BY <1>1, <1>4, <2>1
  <2>3. Inbound'[i] = Inbound[i + d]
    BY <2>2
  <2>4. Inbound[x + 0 * FrameLen + r] = Packet(p)[r]
    BY <1>2, <2>2 DEF FrameAt
  <2>5. x + 0 * FrameLen + r = x + r
    BY <1>4
  <2> QED BY <2>1, <2>2, <2>3, <2>4, <2>5
<1> QED BY <1>5 DEF InStep

\* The receiver's cuts: one symbol of no header, a frame that is complete, or a buffer
\* whose frame is too large; the last one never when a frame heads the buffer.
LEMMA CutRecovers ==
  ASSUME ReceiverTypeOK, Len(buf) >= HeaderLen,
         NEW x \in Nat, NEW n \in Nat, Frames(x, n), Recovering(x, n),
         NEW d \in 1 .. Len(buf), intact \in 0 .. 2,
         buf' = SubSeq(buf, d + 1, Len(buf)), UNCHANGED <<fifo, sent, intact>>,
         ~HasHeader => d = 1 /\ pixels' = pixels,
         HasHeader /\ FrameSize = FrameLen => d = FrameLen,
         x = 0 /\ n = 1 => pixels' = sent
  PROVE  DamageInv'
<1>1. FrameLen \in Nat /\ HeaderLen \in Nat \ {0} /\ HeaderLen <= FrameLen
  BY Lengths, FrameAssumption
<1>2. /\ Len(Inbound') = Len(Inbound) - d
      /\ \A i \in 1 .. Len(Inbound') : Inbound'[i] = Inbound[i + d]
  <2>1. d \in 0 .. Len(buf)
    BY InboundType
  <2> QED BY <2>1, InboundCut
<1>3. d \in Nat /\ 1 <= d /\ d <= FrameLen /\ d <= Len(Inbound) /\ n \in Nat /\ x \in Nat
  BY <1>1, InboundType
<1>4. CASE x = 0
  <2>1. n >= 1 /\ HasHeader /\ d = FrameLen
    BY <1>4, FrameHeads
  <2>2. PICK first, m : first = x + FrameLen /\ m = n - 1
    OBVIOUS
  <2>3. Frames(first, m)
    BY <2>1, <2>2, FirstFrame
  <2>4. /\ first \in Nat /\ m \in Nat /\ d \in 0 .. first /\ 0 = first - d /\ 0 \in Nat
        /\ sent' = sent
    BY <1>1, <1>3, <1>4, <2>1, <2>2
  <2>5. Frames(0, m)'
    BY <1>2, <2>3, <2>4, FramesCut
  <2>6. Recovering(0, m)'
    <3>1. InStep(0)'
      BY <1>1 DEF InStep
    <3>2. CASE n = 1
      BY <1>4, <2>2, <3>2 DEF Recovering
    <3>3. CASE n # 1
      <4>1. m >= intact - 1
        BY <2>1, <2>2, <3>3
      <4> QED BY <3>1, <4>1 DEF Recovering
    <3> QED BY <3>2, <3>3
  <2> QED BY <2>4, <2>5, <2>6, Zenon DEF DamageInv
<1>5. CASE x # 0 /\ d <= x
  <2> DEFINE y == x - d
  <2>1. y \in Nat /\ y = x - d /\ d \in 0 .. x /\ sent' = sent
    BY <1>3, <1>5
  <2> HIDE DEF y
  <2>3. Frames(y, n)'
    BY <1>2, <2>1, FramesCut
  <2>2. Recovering(y, n)'
    <3>1. CASE n >= intact
      BY <3>1 DEF Recovering
    <3>2. CASE n >= intact - 1 /\ InStep(x)
      <4>1. ~HasHeader /\ d = 1
        BY <1>5, <3>2, HeaderInStep
      <4>2. PICK p \in Payloads : \A i \in 1 .. x : Inbound[i] = Packet(p)[FrameLen - x + i]
        BY <1>5, <3>2 DEF InStep
      <4>4. y \in Nat /\ y < FrameLen
        BY <1>1, <1>3, <1>5, <2>1, <3>2 DEF InStep
      <4>5. ASSUME NEW i \in 1 .. y
            PROVE  Inbound'[i] = Packet(p)[FrameLen - y + i]
        <5>1. i + d \in 1 .. x /\ FrameLen - x + (i + d) = FrameLen - y + i
          BY <1>1, <1>3, <2>1, <4>4
        <5>2. i \in 1 .. Len(Inbound')
          <6>1. Len(Inbound) >= x
            <7>1. \A a, b \in Nat : a * b \in Nat
              OBVIOUS
            <7>2. n * FrameLen \in Nat /\ Len(Inbound) = x + n * FrameLen
              BY <1>1, <7>1 DEF Frames
            <7> QED BY <1>3, <7>2
          <6>2. Len(Inbound) \in Nat
            BY InboundType
          <6> QED BY <1>2, <1>3, <2>1, <4>4, <6>1, <6>2
        <5>3. Inbound[i + d] = Packet(p)[FrameLen - x + (i + d)]
          BY <4>2, <5>1
        <5> QED BY <1>2, <5>1, <5>2, <5>3
      <4>6. InStep(y)'
        BY <4>4, <4>5 DEF InStep
      <4> QED BY <3>2, <4>6 DEF Recovering
    <3> QED BY <1>5, <3>1, <3>2 DEF Recovering
  <2> QED BY <1>3, <2>1, <2>2, <2>3, Zenon DEF DamageInv
<1>6. CASE x # 0 /\ ~(d <= x)
  <2>1. n >= intact
    <3>1. ASSUME InStep(x)
          PROVE  FALSE
      BY <1>3, <1>6, <3>1, HeaderInStep
    <3> QED BY <1>6, <3>1 DEF Recovering
  <2>2. n >= 1
    <3> SUFFICES ASSUME n = 0
                 PROVE  FALSE
      BY <1>3
    <3>1. Len(Inbound) = x + 0 * FrameLen
      BY DEF Frames
    <3> QED BY <1>1, <1>3, <1>6, <3>1
  <2>3. PICK first, m, y : first = x + FrameLen /\ m = n - 1 /\ y = x + FrameLen - d
    OBVIOUS
  <2>4. Frames(first, m)
    BY <2>2, <2>3, FirstFrame
  <2>5. /\ y \in Nat /\ y < FrameLen /\ first \in Nat /\ d \in 0 .. first /\ y = first - d
        /\ x <= d /\ d <= x + FrameLen /\ m \in Nat /\ sent' = sent
    BY <1>1, <1>3, <1>6, <2>2, <2>3
  <2>6. Frames(y, m)'
    BY <1>2, <2>4, <2>5, FramesCut
  <2>7. InStep(y)'
    BY <1>2, <1>3, <2>2, <2>3, <2>5, CutInStep
  <2>8. m >= intact - 1
    BY <2>1, <2>3
  <2>9. Recovering(y, m)'
    BY <2>7, <2>8 DEF Recovering
  <2> QED BY <2>5, <2>6, <2>9, Zenon DEF DamageInv
<1> QED BY <1>4, <1>5, <1>6

\* Damage starts the count again.
LEMMA Damaged ==
  ASSUME ReceiverTypeOK', intact' = 0
  PROVE  DamageInv'
<1>1. PICK x : x = Len(Inbound')
  OBVIOUS
<1>2. x \in Nat /\ 0 \in Nat /\ x = x + 0 * FrameLen
  <2>1. buf' \in Seq(Bytes) /\ fifo' \in Seq(Bytes)
    BY DEF ReceiverTypeOK
  <2>2. Inbound' \in Seq(Bytes)
    BY <2>1, ConcatProperties DEF Inbound
  <2> QED BY <1>1, <2>2, LenProperties, Lengths
<1>3. Frames(x, 0)'
  BY <1>1, <1>2 DEF Frames
<1>4. Recovering(x, 0)'
  BY DEF Recovering
<1> QED BY <1>2, <1>3, <1>4, Zenon DEF DamageInv

\* Nothing happens to the frames.
LEMMA FramesStay ==
  ASSUME DamageInv, Inbound' = Inbound, UNCHANGED <<sent, intact, pixels>>
  PROVE  DamageInv'
<1>1. PICK x \in Nat : \E n \in Nat : Frames(x, n) /\ Recovering(x, n)
  BY Zenon DEF DamageInv
<1>2. PICK n \in Nat : Frames(x, n) /\ Recovering(x, n)
  BY <1>1, Zenon
<1>3. Frames(x, n)' /\ Recovering(x, n)'
  BY <1>2 DEF Frames, FrameAt, Recovering, InStep
<1> QED BY <1>3, Zenon DEF DamageInv

\* A whole frame comes behind the others.
LEMMA FrameWritten ==
  ASSUME ReceiverTypeOK, DamageInv, NEW p \in Payloads,
         buf' = buf, fifo' = fifo \o Packet(p), pixels' = pixels, sent' = p,
         intact \in 0 .. 2, intact' = IF intact = 0 THEN 1 ELSE 2
  PROVE  DamageInv'
<1>1. PICK x \in Nat : \E n \in Nat : Frames(x, n) /\ Recovering(x, n)
  BY Zenon DEF DamageInv
<1>2. PICK n \in Nat : Frames(x, n) /\ Recovering(x, n)
  BY <1>1, Zenon
<1>3. /\ FrameLen \in Nat \ {0} /\ buf \in Seq(Bytes) /\ fifo \in Seq(Bytes)
      /\ Inbound \in Seq(Bytes) /\ Len(Inbound) \in Nat
  BY Lengths, FrameAssumption, InboundType
<1>4. PICK packet : packet = Packet(p)
  OBVIOUS
<1>5. packet \in Seq(Bytes) /\ Len(packet) = FrameLen
  BY <1>4, LinkAssumption, PacketShape
<1>6. Inbound' = Inbound \o packet
  <2>1. packet \in Seq(Bytes)
    BY <1>5
  <2>2. (buf \o fifo) \o packet = buf \o (fifo \o packet)
    BY ONLY <1>3, <2>1, ConcatAssociative, SMTT(30)
  <2> QED BY <1>4, <2>2 DEF Inbound
<1>7. /\ Len(Inbound') = Len(Inbound) + FrameLen
      /\ \A i \in 1 .. Len(Inbound) + FrameLen :
           Inbound'[i] = IF i <= Len(Inbound) THEN Inbound[i] ELSE packet[i - Len(Inbound)]
  <2>1. packet \in Seq(Bytes) /\ Inbound \in Seq(Bytes)
    BY <1>3, <1>5
  <2>2. /\ Len(Inbound \o packet) = Len(Inbound) + Len(packet)
        /\ \A i \in 1 .. Len(Inbound) + Len(packet) : (Inbound \o packet)[i] =
             IF i <= Len(Inbound) THEN Inbound[i] ELSE packet[i - Len(Inbound)]
    BY <2>1, ConcatProperties
  <2> QED BY <1>5, <1>6, <2>2
<1>8. PICK m, w : m = n + 1 /\ w = n * FrameLen
  OBVIOUS
<1>9. m \in Nat /\ w \in Nat /\ m * FrameLen = w + FrameLen /\ Len(Inbound) = x + w
  <2>1. \A a, b \in Nat : a * b \in Nat /\ (a + 1) * b = a * b + b
    OBVIOUS
  <2>2. n * FrameLen \in Nat /\ (n + 1) * FrameLen = n * FrameLen + FrameLen
    BY <1>3, <2>1
  <2> QED BY <1>2, <1>8, <2>2 DEF Frames
<1>10. ASSUME NEW q \in 0 .. m - 1
       PROVE  \E a \in Payloads : FrameAt(a, x + q * FrameLen)' /\ (q = m - 1 => a = sent')
  <2>1. CASE q = n
    <3>1. ASSUME NEW r \in 1 .. FrameLen
          PROVE  Inbound'[x + w + r] = packet[r]
      <4>1. PICK i : i = x + w + r
        OBVIOUS
      <4>2. i \in 1 .. Len(Inbound) + FrameLen /\ ~(i <= Len(Inbound)) /\ i - Len(Inbound) = r
        BY <1>3, <1>9, <4>1
      <4> QED BY <1>7, <4>1, <4>2
    <3>2. FrameAt(p, x + q * FrameLen)'
      BY <1>4, <1>8, <2>1, <3>1 DEF FrameAt
    <3> QED BY <3>2
  <2>2. CASE q # n
    <3>1. q \in 0 .. n - 1 /\ q # m - 1
      BY <1>8, <2>2
    <3>2. PICK a \in Payloads : FrameAt(a, x + q * FrameLen)
      BY <1>2, <3>1 DEF Frames
    <3>3. PICK v : v = q * FrameLen
      OBVIOUS
    <3>4. v \in Nat /\ v + FrameLen <= w
      BY <1>3, <1>8, <3>1, <3>3, Blocks
    <3>5. ASSUME NEW r \in 1 .. FrameLen
          PROVE  Inbound'[x + v + r] = Packet(a)[r]
      <4>1. PICK i : i = x + v + r
        OBVIOUS
      <4>2. i \in 1 .. Len(Inbound) + FrameLen /\ i <= Len(Inbound)
        BY <1>3, <1>9, <3>4, <4>1
      <4>3. Inbound[x + v + r] = Packet(a)[r]
        BY <3>2, <3>3 DEF FrameAt
      <4> QED BY <1>7, <4>1, <4>2, <4>3
    <3>6. FrameAt(a, x + q * FrameLen)'
      BY <3>3, <3>5 DEF FrameAt
    <3> QED BY <3>1, <3>6
  <2> QED BY <2>1, <2>2
<1>11. Frames(x, m)'
  <2>1. Len(Inbound') = x + m * FrameLen
    BY <1>3, <1>7, <1>9
  <2> QED BY <1>10, <2>1 DEF Frames
<1>12. Recovering(x, m)'
  <2>1. CASE n >= intact
    <3>1. m >= intact'
      BY <1>8, <2>1
    <3> QED BY <3>1 DEF Recovering
  <2>2. CASE n >= intact - 1 /\ InStep(x)
    <3>1. m >= intact' - 1
      BY <1>8, <2>2
    <3>2. \A i \in 1 .. x : Inbound'[i] = Inbound[i]
      BY <1>3, <1>7, <1>9
    <3>3. InStep(x)'
      BY <2>2, <3>2 DEF InStep
    <3> QED BY <3>1, <3>3 DEF Recovering
  <2>3. CASE n = 0 /\ x = 0
    <3>1. m >= intact' - 1
      BY <1>8, <2>3
    <3>2. InStep(x)'
      BY <1>3, <2>3 DEF InStep
    <3> QED BY <3>1, <3>2 DEF Recovering
  <2> QED BY <1>2, <2>1, <2>2, <2>3 DEF Recovering
<1> QED BY <1>9, <1>11, <1>12, Zenon DEF DamageInv

\* Whatever is written to the port.
LEMMA PortRecovers ==
  ASSUME ReceiverTypeOK, ReceiverTypeOK', DamageInv, PortWritten, intact \in 0 .. 2
  PROVE  DamageInv'
<1>1. UNCHANGED <<buf, pixels>>
  BY DEF PortWritten
<1>2. CASE WriteNoise
  BY <1>2, Damaged DEF WriteNoise
<1>3. CASE WriteFrame
  <2>1. PICK p \in Payloads : \E m \in 1 .. Len(Packet(p)) :
               /\ fifo' = fifo \o SubSeq(Packet(p), 1, m)
               /\ sent' = p
               /\ intact' = IF m < Len(Packet(p)) THEN 0 ELSE IF intact = 0 THEN 1 ELSE 2
    BY <1>3, Zenon DEF WriteFrame
  <2>2. PICK m \in 1 .. Len(Packet(p)) :
               /\ fifo' = fifo \o SubSeq(Packet(p), 1, m)
               /\ sent' = p
               /\ intact' = IF m < Len(Packet(p)) THEN 0 ELSE IF intact = 0 THEN 1 ELSE 2
    BY <2>1, Zenon
  <2>3. Packet(p) \in Seq(Bytes) /\ Len(Packet(p)) \in Nat
    BY LinkAssumption, PacketShape, LenProperties
  <2>4. CASE m < Len(Packet(p))
    BY <2>2, <2>4, Damaged
  <2>5. CASE ~(m < Len(Packet(p)))
    <3>1. m = Len(Packet(p))
      BY <2>3, <2>5
    <3>2. SubSeq(Packet(p), 1, Len(Packet(p))) = Packet(p)
      BY <2>3, SubSeqFull
    <3>3. fifo' = fifo \o Packet(p) /\ sent' = p /\ intact' = IF intact = 0 THEN 1 ELSE 2
      BY <2>2, <2>5, <3>1, <3>2
    <3> QED BY <1>1, <3>3, FrameWritten
  <2> QED BY <2>4, <2>5
<1> QED BY <1>2, <1>3 DEF PortWritten

\* The frame that heads the buffer is what is shown, whole.
LEMMA ShowsFrame ==
  ASSUME ReceiverTypeOK, Dispatch, NEW p \in Payloads, FrameAt(p, 0), FrameSize = FrameLen
  PROVE  pixels' = p
<1>1. /\ StateBytes \in Nat /\ HeaderLen \in Nat \ {0} /\ FrameLen = HeaderLen + StateBytes
      /\ BytesPerLed \in Nat \ {0} /\ StateBytes % BytesPerLed = 0 /\ FrameLen \in Nat
      /\ p \in [1 .. StateBytes -> Bytes]
  BY Lengths, FrameAssumption, LinkAssumption
<1>2. Declared[buf[HeaderLen]] = StateBytes
  <2>1. HasHeader
    BY DEF Dispatch
  <2> QED BY <1>1, <2>1, FrameSizeType DEF FrameSize
<1>3. ClampPayloadLen(StateBytes) = StateBytes
  BY <1>1 DEF ClampPayloadLen
<1>4. PICK len : len = ClampPayloadLen(Declared[buf[HeaderLen]])
  OBVIOUS
<1>5. len = StateBytes
  BY <1>2, <1>3, <1>4 DEF ClampPayloadLen
<1>6. pixels' = [i \in 1 .. StateBytes |-> IF i <= len THEN buf[HeaderLen + i] ELSE Zero]
  BY <1>4 DEF Dispatch, Payload
<1>7. ASSUME NEW i \in 1 .. StateBytes
      PROVE  buf[HeaderLen + i] = p[i]
  <2>1. PICK k : k = HeaderLen + i
    OBVIOUS
  <2>2. k \in 1 .. FrameLen /\ 0 + k = k /\ k \in 1 .. Len(buf)
    BY <1>1, <2>1, InboundType DEF Dispatch
  <2>3. Inbound[0 + k] = Packet(p)[k]
    BY <2>2 DEF FrameAt
  <2>4. Packet(p)[HeaderLen + i] = p[i]
    BY <1>1, PacketShape
  <2> QED BY <2>1, <2>2, <2>3, <2>4, InboundType
<1>8. \A i \in 1 .. StateBytes : pixels'[i] = p[i]
  BY <1>1, <1>5, <1>6, <1>7
<1> QED BY <1>1, <1>6, <1>8

\* Each turn of the receiver.
LEMMA ControllerRecovers ==
  ASSUME BufferInv, DamageInv, Controller, intact \in 0 .. 2
  PROVE  DamageInv'
<1>1. ReceiverTypeOK /\ UNCHANGED <<sent, intact>> /\ ReceiverNext
  BY DEF BufferInv, Controller, lineVars
<1>2. /\ buf \in Seq(Bytes) /\ fifo \in Seq(Bytes) /\ Len(buf) \in Nat
      /\ HeaderLen \in Nat \ {0} /\ FrameLen \in Nat
  BY <1>1, Lengths, InboundType
<1>3. PICK x \in Nat : \E n \in Nat : Frames(x, n) /\ Recovering(x, n)
  BY Zenon DEF DamageInv
<1>4. PICK n \in Nat : Frames(x, n) /\ Recovering(x, n)
  BY <1>3, Zenon
<1>5. CASE ReadFifo
  <2>1. Len(buf) # FrameLen
    BY <1>2, <1>5 DEF BufferInv, BufferNeverFull, ReadFifo
  <2>2. PICK m \in 1 .. Len(fifo) :
               /\ buf' = buf \o SubSeq(fifo, 1, m)
               /\ fifo' = SubSeq(fifo, m + 1, Len(fifo))
    BY <1>5, <2>1, Zenon DEF ReadFifo
  <2>3. m \in 0 .. Len(fifo)
    OBVIOUS
  <2>4. (buf \o SubSeq(fifo, 1, m)) \o SubSeq(fifo, m + 1, Len(fifo)) = buf \o fifo
    BY <1>2, <2>3, MoveFront
  <2>5. Inbound' = Inbound
    BY <2>2, <2>4 DEF Inbound
  <2> QED BY <1>1, <1>5, <2>5, FramesStay DEF ReadFifo
<1>6. CASE AwaitHeader \/ AwaitPayload
  <2>1. UNCHANGED <<buf, fifo, pixels>>
    BY <1>6 DEF AwaitHeader, AwaitPayload
  <2>2. Inbound' = Inbound
    BY <2>1 DEF Inbound
  <2> QED BY <1>1, <2>1, <2>2, FramesStay
<1>7. CASE ShiftByte
  <2>1. Len(buf) >= HeaderLen /\ ~HasHeader /\ pixels' = pixels /\ fifo' = fifo
    BY <1>7 DEF ShiftByte, HasHeader
  <2>2. x # 0
    BY <1>1, <1>4, <2>1, FrameHeads
  <2>3. buf' = SubSeq(buf, 1 + 1, Len(buf))
    <3>1. buf # <<>>
      BY <1>2, <2>1, EmptySeq
    <3>2. Tail(buf) = SubSeq(buf, 2, Len(buf))
      BY <1>2, <3>1, TailIsSubSeq
    <3> QED BY <1>7, <3>2 DEF ShiftByte
  <2>4. 1 \in 1 .. Len(buf)
    BY <1>2, <2>1
  <2> QED BY <1>1, <1>4, <2>1, <2>2, <2>3, <2>4, CutRecovers
<1>8. CASE DropOversized
  <2>1. Len(buf) >= HeaderLen /\ HasHeader /\ FrameSize > FrameLen /\ fifo' = fifo /\ buf' = <<>>
    BY <1>8 DEF DropOversized, HasHeader
  <2>2. FrameSize # FrameLen
    BY <1>1, <1>2, <2>1, FrameSizeType
  <2>3. x # 0
    BY <1>1, <1>4, <2>1, <2>2, FrameHeads
  <2>4. PICK d : d = Len(buf)
    OBVIOUS
  <2>5. d \in 1 .. Len(buf)
    BY <1>2, <2>1, <2>4
  <2>6. buf' = SubSeq(buf, d + 1, Len(buf))
    <3>1. d + 1 \in Int /\ Len(buf) \in Int /\ Len(buf) < d + 1
      BY <1>2, <2>4
    <3>2. SubSeq(buf, d + 1, Len(buf)) = <<>>
      BY <3>1, SubSeqEmpty
    <3> QED BY <2>1, <3>2
  <2> QED BY <1>1, <1>4, <2>1, <2>2, <2>3, <2>5, <2>6, CutRecovers
<1>9. CASE Dispatch
  <2>1. /\ Len(buf) >= HeaderLen /\ HasHeader /\ fifo' = fifo
        /\ Len(buf) >= FrameSize /\ buf' = SubSeq(buf, FrameSize + 1, Len(buf))
    BY <1>9 DEF Dispatch, HasHeader
  <2>2. PICK d : d = FrameSize
    OBVIOUS
  <2>3. d \in 1 .. Len(buf) /\ (FrameSize = FrameLen => d = FrameLen)
    BY <1>1, <1>2, <2>1, <2>2, FrameSizeType
  <2>4. x = 0 /\ n = 1 => pixels' = sent
    <3> SUFFICES ASSUME x = 0, n = 1
                 PROVE  pixels' = sent
      OBVIOUS
    <3>1. FrameSize = FrameLen /\ \E p \in Payloads : FrameAt(p, 0) /\ (n = 1 => p = sent)
      BY <1>1, <1>4, <2>1, FrameHeads
    <3>2. PICK p \in Payloads : FrameAt(p, 0) /\ p = sent
      BY <3>1
    <3> QED BY <1>1, <1>9, <3>1, <3>2, ShowsFrame
  <2>5. buf' = SubSeq(buf, d + 1, Len(buf))
    BY <2>1, <2>2
  <2> QED BY <1>1, <1>4, <2>1, <2>3, <2>4, <2>5, CutRecovers
<1> QED BY <1>1, <1>5, <1>6, <1>7, <1>8, <1>9 DEF ReceiverNext

\* In every behaviour the receiver recovers.
LEMMA DamageInvariant == Spec => []DamageInv
<1>1. Init => DamageInv
  <2> SUFFICES ASSUME Init
               PROVE  DamageInv
    OBVIOUS
  <2>1. buf = <<>> /\ fifo = <<>> /\ intact = 1
    BY DEF Init, ReceiverInit
  <2>2. FrameLen \in Nat \ {0} /\ 0 \in Nat
    BY Lengths, FrameAssumption
  <2>3. Inbound = <<>>
    BY <2>1 DEF Inbound
  <2>4. Frames(0, 0)
    <3>1. Len(Inbound) = 0 + 0 * FrameLen
      BY <2>2, <2>3
    <3> QED BY <3>1 DEF Frames
  <2>5. Recovering(0, 0)
    BY <2>1, <2>2 DEF Recovering, InStep
  <2> QED BY <2>2, <2>4, <2>5, Zenon DEF DamageInv
<1>2. TypeOK /\ TypeOK' /\ BufferInv /\ DamageInv /\ [Next]_vars => DamageInv'
  <2> SUFFICES ASSUME TypeOK, TypeOK', BufferInv, DamageInv, [Next]_vars
               PROVE  DamageInv'
    OBVIOUS
  <2>1. ReceiverTypeOK /\ ReceiverTypeOK' /\ intact \in 0 .. 2
    BY DEF TypeOK
  <2>2. CASE PortWritten
    BY <2>1, <2>2, PortRecovers
  <2>3. CASE Controller
    BY <2>1, <2>3, ControllerRecovers
  <2>4. CASE FeedbackTask \/ UNCHANGED vars
    <3>1. UNCHANGED <<buf, fifo, pixels, sent, intact>>
      BY <2>4 DEF FeedbackTask, vars, receiverVars, lineVars
    <3>2. Inbound' = Inbound
      BY <3>1 DEF Inbound
    <3> QED BY <3>1, <3>2, FramesStay
  <2> QED BY <2>2, <2>3, <2>4 DEF Next
<1> QED BY <1>1, <1>2, TypeCorrect, BufferInvariant, PTL DEF Spec

\* frame_loop: two whole frames behind any damage show the last of them, and leave the
\* receiver in step.
THEOREM RecoversAfterDamageHolds == Spec => []RecoversAfterDamage
<1>1. TypeOK /\ BufferInv /\ DamageInv => RecoversAfterDamage
  <2> SUFFICES ASSUME TypeOK, BufferInv, DamageInv, fifo = <<>>, ~scanning, intact = 2
               PROVE  pixels = sent /\ buf = <<>>
    BY DEF RecoversAfterDamage
  <2>1. PICK x \in Nat : \E n \in Nat : Frames(x, n) /\ Recovering(x, n)
    BY Zenon DEF DamageInv
  <2>2. PICK n \in Nat : Frames(x, n) /\ Recovering(x, n)
    BY <2>1, Zenon
  <2>3. /\ buf \in Seq(Bytes) /\ Len(buf) \in Nat /\ Len(buf) < FrameLen /\ FrameLen \in Nat
        /\ Len(Inbound) = Len(buf)
    BY Lengths, InboundType DEF BufferInv, BufferNeverFull
  <2>4. n = 0
    <3> SUFFICES ASSUME n >= 1
                 PROVE  FALSE
      OBVIOUS
    <3>1. PICK w : w = n * FrameLen
      OBVIOUS
    <3>2. w \in Nat /\ FrameLen <= w /\ Len(Inbound) = x + w
      <4>1. 0 \in 0 .. n - 1 /\ 0 * FrameLen = 0
        BY <2>3
      <4>2. 0 * FrameLen + FrameLen <= n * FrameLen /\ n * FrameLen \in Nat
        BY <2>3, <4>1, Blocks
      <4> QED BY <2>2, <2>3, <3>1, <4>1, <4>2 DEF Frames
    <3> QED BY <2>3, <3>2
  <2>5. x = 0 /\ pixels = sent
    BY <2>2, <2>4 DEF Recovering
  <2>6. Len(buf) = 0
    <3>1. Len(Inbound) = 0 + 0 * FrameLen
      BY <2>2, <2>4, <2>5 DEF Frames
    <3> QED BY <2>3, <3>1
  <2> QED BY <2>3, <2>5, <2>6, EmptySeq
<1> QED BY <1>1, TypeCorrect, BufferInvariant, DamageInvariant, PTL
==============================================================================
