----------------------------- MODULE FrameReceiver -----------------------------
(***************************************************************************)
(* The LED controller's receive loop (espled/src/bin/main.rs, frame_loop)  *)
(* over the frame format of ledcomm: it collects bytes, looks for a header *)
(* at the head of its buffer, shifts what is none, and turns each complete *)
(* frame into pixels and a record of write feedback.                       *)
(*                                                                         *)
(* A byte is a symbol; the two bytes of the length field are one symbol,   *)
(* decoded by Declared.  One step is one turn of the inner loop.           *)
(***************************************************************************)
EXTENDS Integers, SequencesExt

CONSTANTS
  Bytes,                \* symbols on the line
  Magic,                \* MAGIC
  Zero,                 \* a dark byte
  Declared,             \* the length a symbol declares as length field
  StateBytes,           \* STATE_BYTES
  BytesPerLed,          \* BYTES_PER_LED
  Record,               \* the bytes of one WriteFeedback
  Chunks                \* bound: what a read may return, besides all there is

ASSUME FrameAssumption ==
  /\ Zero \in Bytes
  /\ Magic \in Seq(Bytes) /\ Magic # <<>>
  /\ Declared \in [Bytes -> Nat]
  /\ StateBytes \in Nat /\ BytesPerLed \in Nat \ {0} /\ StateBytes % BytesPerLed = 0

VARIABLES
  fifo,                 \* bytes on their way to the controller
  buf,                  \* buf[..have]
  scanning,             \* in the inner loop
  frameInProgress,      \* frame_in_progress: the clock of a frame runs
  pixels,               \* the frame last written to the strip's SPI bus
  toHost                \* bytes on their way to the daemon

receiverVars == <<fifo, buf, scanning, frameInProgress, pixels, toHost>>

-------------------------------------------------------------------------------
HeaderLen == Len(Magic) + 1
FrameLen  == HeaderLen + StateBytes

\* clamp_payload_len
ClampPayloadLen(len) ==
  LET capped == IF len < StateBytes THEN len ELSE StateBytes
  IN  capped - (capped % BytesPerLed)

HeadsMagic == SubSeq(buf, 1, Len(Magic)) = Magic
HasHeader  == Len(buf) >= HeaderLen /\ HeadsMagic
FrameSize  == HeaderLen + Declared[buf[HeaderLen]]

\* The payload the buffer holds, zeros behind it.
Payload(len) ==
  [i \in 1 .. StateBytes |-> IF i <= len THEN buf[HeaderLen + i] ELSE Zero]

ReceiverTypeOK ==
  /\ fifo \in Seq(Bytes)
  /\ buf \in Seq(Bytes) /\ Len(buf) <= FrameLen
  /\ scanning \in BOOLEAN /\ frameInProgress \in BOOLEAN
  /\ pixels \in [1 .. StateBytes -> Bytes]

ReceiverInit ==
  /\ fifo = <<>> /\ buf = <<>>
  /\ scanning = FALSE /\ frameInProgress = FALSE
  /\ pixels = [i \in 1 .. StateBytes |-> Zero]

-------------------------------------------------------------------------------
\* Mutant: a read may return one byte more than there is room for.
ReadFifoPastEnd ==
  /\ ~scanning
  /\ \E n \in 1 .. Len(fifo) :
       /\ n <= FrameLen - Len(buf) + 1
       /\ buf' = buf \o SubSeq(fifo, 1, n)
       /\ fifo' = SubSeq(fifo, n + 1, Len(fifo))
  /\ scanning' = TRUE
  /\ UNCHANGED <<frameInProgress, pixels, toHost>>

\* The top of the loop: a full buffer is dropped, else there is something to read.
ReadFifo ==
  /\ ~scanning
  /\ IF Len(buf) = FrameLen
     THEN buf' = <<>> /\ frameInProgress' = FALSE /\ UNCHANGED <<fifo, scanning>>
     ELSE /\ \E n \in 1 .. Len(fifo) :
               /\ n <= FrameLen - Len(buf)
               /\ n \in Chunks \/ n = Len(fifo) \/ n = FrameLen - Len(buf)   \* bound
               /\ buf' = buf \o SubSeq(fifo, 1, n)
               /\ fifo' = SubSeq(fifo, n + 1, Len(fifo))
          /\ scanning' = TRUE
          /\ UNCHANGED frameInProgress
  /\ UNCHANGED <<pixels, toHost>>

\* Less than a header is left: the inner loop ends.
AwaitHeader ==
  /\ scanning
  /\ Len(buf) < HeaderLen
  /\ scanning' = FALSE
  /\ UNCHANGED <<fifo, buf, frameInProgress, pixels, toHost>>

\* Mutant: the bytes move, the count stays.
ShiftByteInPlace ==
  /\ scanning
  /\ Len(buf) >= HeaderLen /\ ~HeadsMagic
  /\ buf' = Append(Tail(buf), Last(buf))
  /\ UNCHANGED <<fifo, scanning, frameInProgress, pixels, toHost>>

\* Bad magic.
ShiftByte ==
  /\ scanning
  /\ Len(buf) >= HeaderLen /\ ~HeadsMagic
  /\ buf' = Tail(buf)
  /\ UNCHANGED <<fifo, scanning, frameInProgress, pixels, toHost>>

\* Mutant: an oversized frame is waited for like any other.
DropOversizedNever ==
  /\ scanning /\ HasHeader
  /\ FrameSize > FrameLen
  /\ scanning' = FALSE
  /\ frameInProgress' = TRUE
  /\ UNCHANGED <<fifo, buf, pixels, toHost>>

\* Mutant: the clock goes on when the buffer is dropped.
DropOversizedOnTheClock ==
  /\ scanning /\ HasHeader
  /\ FrameSize > FrameLen
  /\ buf' = <<>> /\ frameInProgress' = TRUE
  /\ scanning' = FALSE
  /\ UNCHANGED <<fifo, pixels, toHost>>

\* The declared frame is too large: everything received is dropped.
DropOversized ==
  /\ scanning /\ HasHeader
  /\ FrameSize > FrameLen
  /\ buf' = <<>> /\ frameInProgress' = FALSE
  /\ scanning' = FALSE
  /\ UNCHANGED <<fifo, pixels, toHost>>

\* The frame is not complete yet.
AwaitPayload ==
  /\ scanning /\ HasHeader
  /\ FrameSize <= FrameLen /\ Len(buf) < FrameSize
  /\ frameInProgress' = TRUE
  /\ scanning' = FALSE
  /\ UNCHANGED <<fifo, buf, pixels, toHost>>

\* Mutant: what remains starts one byte early.
DispatchKeepsByte ==
  /\ scanning /\ HasHeader
  /\ FrameSize <= FrameLen /\ Len(buf) >= FrameSize
  /\ pixels' = Payload(ClampPayloadLen(Declared[buf[HeaderLen]]))
  /\ toHost' = toHost \o Record
  /\ buf' = SubSeq(buf, FrameSize, Len(buf))
  /\ frameInProgress' = FALSE
  /\ UNCHANGED <<fifo, scanning>>

\* A frame is complete: shown, reported (a failing USB write is only logged) and
\* taken out of the buffer.
Dispatch ==
  /\ scanning /\ HasHeader
  /\ FrameSize <= FrameLen /\ Len(buf) >= FrameSize
  /\ pixels' = Payload(ClampPayloadLen(Declared[buf[HeaderLen]]))
  /\ toHost' \in {toHost \o Record, toHost}
  /\ buf' = SubSeq(buf, FrameSize + 1, Len(buf))
  /\ frameInProgress' = FALSE
  /\ UNCHANGED <<fifo, scanning>>

ReceiverNext ==
  \/ ReadFifo
  \/ AwaitHeader
  \/ ShiftByte
  \/ DropOversized
  \/ AwaitPayload
  \/ Dispatch

-------------------------------------------------------------------------------
(* Properties.                                                                *)

\* There is always room to read: "frame buffer overflow" never happens, whatever
\* lengths the line declares, since an incomplete frame is smaller than the buffer.
BufferNeverFull == ~scanning => Len(buf) < FrameLen

\* A frame's clock runs, between two reads, exactly while its header heads the
\* buffer: the ingest time reported is that of the frame it is reported for.
ClockRunsForHeader == ~scanning => (frameInProgress <=> HasHeader)
==============================================================================
