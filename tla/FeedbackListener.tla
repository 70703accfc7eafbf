--------------------------- MODULE FeedbackListener ---------------------------
(***************************************************************************)
(* The task of the daemon that reads the controller's write feedback       *)
(* (spawn_feedback_listener in daemon/src/led/esp32.rs, with               *)
(* parse_write_feedback of ledcomm): it looks for records in a backlog of  *)
(* bytes, reports each to the handler and bounds what it keeps.            *)
(***************************************************************************)
EXTENDS Integers, SequencesExt

CONSTANTS
  FeedbackBytes,        \* symbols on the line
  FeedbackMagic,        \* FEEDBACK_MAGIC
  RecordLen,            \* WRITE_FEEDBACK_LEN
  RxBufferLen,          \* RX_BUFFER_LEN
  Chunks                \* bound: what a read may return, besides all there is

VARIABLES
  toHost,               \* bytes on their way to the daemon
  backlog,
  parsing,              \* in the inner loop
  done,                 \* Event::Done sent to the handler
  listening             \* the task runs

listenerVars == <<toHost, backlog, parsing, done, listening>>

-------------------------------------------------------------------------------
\* Where the magic stands in the backlog.
MagicAt ==
  {i \in 1 .. Len(backlog) - Len(FeedbackMagic) + 1 :
     SubSeq(backlog, i, i + Len(FeedbackMagic) - 1) = FeedbackMagic}

\* The end of the record parse_write_feedback finds: it starts at the first magic,
\* and is none yet when its end is still to come.
RecordEnds ==
  {i + RecordLen - 1 : i \in {j \in MagicAt : \A k \in MagicAt : j <= k}}
    \cap 1 .. Len(backlog)

\* What is kept of a backlog without a record.
MaxBacklog  == 4 * RecordLen
KeptBacklog == 2 * RecordLen

ListenerTypeOK ==
  /\ toHost \in Seq(FeedbackBytes)
  /\ backlog \in Seq(FeedbackBytes)
  /\ parsing \in BOOLEAN /\ listening \in BOOLEAN
  /\ done \in Nat

ListenerInit ==
  backlog = <<>> /\ parsing = FALSE /\ done = 0 /\ listening = TRUE

-------------------------------------------------------------------------------
\* Bytes are read into the backlog.
Receive ==
  /\ listening /\ ~parsing
  /\ \E n \in 1 .. Len(toHost) :
       /\ n <= RxBufferLen
       /\ n \in Chunks \/ n = Len(toHost) \/ n = RxBufferLen              \* bound
       /\ backlog' = backlog \o SubSeq(toHost, 1, n)
       /\ toHost' = SubSeq(toHost, n + 1, Len(toHost))
  /\ parsing' = TRUE
  /\ UNCHANGED <<done, listening>>

\* A record: its bytes and those before it are drained, and Done is sent, unless
\* the handler is gone.
ParseRecord ==
  /\ listening /\ parsing
  /\ \E end \in RecordEnds : backlog' = SubSeq(backlog, end + 1, Len(backlog))
  /\ \/ done' = done + 1 /\ UNCHANGED <<parsing, listening>>
     \/ listening' = FALSE /\ parsing' = FALSE /\ UNCHANGED done
  /\ UNCHANGED toHost

\* Mutant: keeps as much as one magic can take.
KeepTailShort ==
  /\ listening /\ parsing
  /\ RecordEnds = {}
  /\ backlog' = IF Len(backlog) > MaxBacklog
                THEN SubSeq(backlog, Len(backlog) - Len(FeedbackMagic) + 1, Len(backlog))
                ELSE backlog
  /\ parsing' = FALSE
  /\ UNCHANGED <<toHost, done, listening>>

\* No record: a long backlog is cut to its tail.
KeepTail ==
  /\ listening /\ parsing
  /\ RecordEnds = {}
  /\ backlog' = IF Len(backlog) > MaxBacklog
                THEN SubSeq(backlog, Len(backlog) - KeptBacklog + 1, Len(backlog))
                ELSE backlog
  /\ parsing' = FALSE
  /\ UNCHANGED <<toHost, done, listening>>

\* The stream is closed or failed, or the daemon shuts down.
StopListening ==
  /\ listening /\ ~parsing
  /\ listening' = FALSE
  /\ backlog' \in {backlog, <<>>}
  /\ UNCHANGED <<toHost, parsing, done>>

ListenerNext ==
  \/ Receive
  \/ ParseRecord
  \/ KeepTail
  \/ StopListening

==============================================================================
