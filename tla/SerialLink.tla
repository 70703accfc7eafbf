------------------------------ MODULE SerialLink ------------------------------
(***************************************************************************)
(* The line between the daemon and the LED controller: Esp32Device writes  *)
(* frames, some cut short by a failing write; other programs and an earlier *)
(* run may have written to the port as well; the controller answers each   *)
(* frame with a record of write feedback, after what it printed at boot.   *)
(***************************************************************************)
EXTENDS FrameReceiver

CONSTANTS
  Payloads,             \* frames the daemon may send
  FullLen,              \* the length field of such a frame
  Noise,                \* what others may have written to the port
  Chatter,              \* what the controller may have printed when it booted
  FeedbackBytes, FeedbackMagic, RecordLen, RxBufferLen,
  MaxWaiting,           \* bound: bytes on the line when something is written
  MaxWrites             \* bound: writes to the port

VARIABLES
  backlog, parsing, done, listening,
  sent,                 \* history: the last frame written, whole or not
  intact,               \* history: whole frames written in a row, at most 2
  reported,             \* history: records the controller has written
  writes                \* bound's counter

Listener == INSTANCE FeedbackListener

lineVars == <<sent, intact, writes>>
vars == <<receiverVars, backlog, parsing, done, listening, reported, lineVars>>

Packet(payload) == Magic \o <<FullLen>> \o payload

ASSUME LinkAssumption ==
  /\ FullLen \in Bytes /\ Declared[FullLen] = StateBytes
  /\ \A p \in Payloads : p \in [1 .. StateBytes -> Bytes]
  /\ Noise \subseteq Seq(Bytes)
  /\ Record \in Seq(FeedbackBytes) /\ FeedbackMagic \in Seq(FeedbackBytes)
  /\ Chatter \subseteq Seq(FeedbackBytes)
  /\ FeedbackMagic # <<>> /\ Len(Record) = RecordLen /\ IsPrefix(FeedbackMagic, Record)
  /\ RxBufferLen \in Nat \ {0} /\ {MaxWaiting, MaxWrites} \subseteq Nat

\* What the controller printed contains no magic of a record, nor does one begin in it.
ASSUME ChatterAssumption ==
  \A text \in Chatter : \A i \in 1 .. Len(text) :
    SubSeq(text \o Record, i, i + Len(FeedbackMagic) - 1) # FeedbackMagic

\* No end of the magic is a beginning of it.
ASSUME MagicAssumption ==
  \A k \in 1 .. Len(Magic) - 1 : \E j \in 1 .. k : Magic[j] # Magic[Len(Magic) - k + j]

\* No frame contains the magic, so that a header is only ever where one was written.
ASSUME PayloadAssumption ==
  \A p \in Payloads : \A i \in 2 .. Len(Packet(p)) - Len(Magic) + 1 :
    SubSeq(Packet(p), i, i + Len(Magic) - 1) # Magic

TypeOK ==
  /\ ReceiverTypeOK /\ Listener!ListenerTypeOK
  /\ sent \in Payloads \cup {[i \in 1 .. StateBytes |-> Zero]}
  /\ intact \in 0 .. 2 /\ reported \in Nat
  /\ writes \in 0 .. MaxWrites

\* The controller starts in step, so that one whole frame is enough.
Init ==
  /\ ReceiverInit /\ Listener!ListenerInit
  /\ sent = [i \in 1 .. StateBytes |-> Zero] /\ intact = 1 /\ reported = 0
  /\ toHost \in Chatter /\ writes = 0

-------------------------------------------------------------------------------
\* write_frame: the packet, or as much of it as was written when the port failed.
WriteFrame ==
  \E p \in Payloads : \E n \in 1 .. Len(Packet(p)) :
    /\ fifo' = fifo \o SubSeq(Packet(p), 1, n)
    /\ sent' = p
    /\ intact' = IF n < Len(Packet(p)) THEN 0 ELSE IF intact = 0 THEN 1 ELSE 2

\* Somebody else writes to the port.
WriteNoise ==
  \E noise \in Noise : fifo' = fifo \o noise /\ intact' = 0 /\ UNCHANGED sent

PortWritten ==
  /\ writes < MaxWrites /\ Len(fifo \o toHost) <= MaxWaiting
  /\ WriteFrame \/ WriteNoise
  /\ writes' = writes + 1
  /\ UNCHANGED <<buf, scanning, frameInProgress, pixels, toHost, backlog, parsing, done,
                 listening, reported>>

Controller ==
  /\ ReceiverNext
  /\ reported' = IF toHost' = toHost THEN reported ELSE reported + 1
  /\ UNCHANGED <<backlog, parsing, done, listening, lineVars>>

FeedbackTask ==
  /\ Listener!ListenerNext
  /\ UNCHANGED <<fifo, buf, scanning, frameInProgress, pixels, reported, lineVars>>

Next == PortWritten \/ Controller \/ FeedbackTask

\* The firmware does nothing else, and the runtime polls the task when bytes come.
Fairness == WF_vars(Controller)

Spec     == Init /\ [][Next]_vars
FairSpec == Spec /\ Fairness

-------------------------------------------------------------------------------
(* Properties.                                                                *)

\* Damage costs one further frame at most: once two whole frames have followed a
\* cut-off frame or foreign bytes, the last of them is what the strip shows, and
\* the receiver is in step again.
RecoversAfterDamage ==
  fifo = <<>> /\ ~scanning /\ intact = 2 => pixels = sent /\ buf = <<>>

\* Each record makes one Done, however it is cut and whatever is printed around it.
EveryRecordCounted ==
  /\ done <= reported
  /\ toHost = <<>> /\ listening /\ ~parsing => done = reported

\* No bytes on the line keep the controller in its inner loop for ever.
InnerLoopEnds == []<>~scanning
==============================================================================
