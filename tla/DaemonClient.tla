------------------------------ MODULE DaemonClient ------------------------------
(***************************************************************************)
(* The library every program uses to talk to the daemon                    *)
(* (daemoncomm/src/client/mod.rs): one connection, a task that writes what *)
(* the program sends and a task that reads what the daemon answers.  The   *)
(* two share a token and nothing else.  Programs that use it, and what the *)
(* daemon answers, are in the modules that extend this one.                *)
(***************************************************************************)
EXTENDS Integers, Sequences

VARIABLES
  outbox,               \* the channel into the writer; what it left when it has ended
  writer, reader,       \* running, ended
  token,                \* the token is cancelled
  up, down,             \* the socket: not read by the daemon, not read by the reader
  incoming,             \* the channel out of the reader
  hungUp                \* the daemon has closed its end, or is dead

clientVars == <<outbox, writer, reader, token, up, down, incoming, hungUp>>

ClientTypes(Requests, Answers) ==
  /\ outbox \in Seq(Requests) /\ up \in Seq(Requests)
  /\ down \in Seq(Answers) /\ incoming \in Seq(Answers)
  /\ writer \in {"running", "ended"} /\ reader \in {"running", "ended"}
  /\ token \in BOOLEAN /\ hungUp \in BOOLEAN

Connected ==
  /\ outbox = <<>> /\ incoming = <<>> /\ up = <<>> /\ down = <<>>
  /\ writer = "running" /\ reader = "running"
  /\ token = FALSE /\ hungUp = FALSE

\* Hal1210Client::send fails once the writer has dropped its end of the channel.
CanSend == writer = "running"

\* Each task owns one half of the socket, which closes with the second.
SocketClosed == writer = "ended" /\ reader = "ended"

\* A write to a daemon that is gone fails, or is taken and read by nobody.
WriterSend ==
  /\ writer = "running" /\ outbox # <<>>
  /\ outbox' = Tail(outbox)
  /\ \/ ~hungUp /\ up' = Append(up, Head(outbox)) /\ UNCHANGED writer
     \/ hungUp /\ writer' \in {"running", "ended"} /\ UNCHANGED up
  /\ UNCHANGED <<reader, token, down, incoming, hungUp>>

\* select! is not biased: what is still in the channel is lost.
WriterCancelled ==
  /\ writer = "running" /\ token
  /\ writer' = "ended"
  /\ UNCHANGED <<outbox, reader, token, up, down, incoming, hungUp>>

ReaderForward ==
  /\ reader = "running" /\ down # <<>>
  /\ down' = Tail(down)
  /\ incoming' = Append(incoming, Head(down))
  /\ UNCHANGED <<outbox, writer, reader, token, up, hungUp>>

\* The end of the stream, or an error because it ends in a message, or the token.
ReaderEnd ==
  /\ reader = "running"
  /\ token \/ (hungUp /\ down = <<>>)
  /\ reader' = "ended"
  /\ UNCHANGED <<outbox, writer, token, up, down, incoming, hungUp>>

WriterStep == WriterSend \/ WriterCancelled
ReaderStep == ReaderForward \/ ReaderEnd

DaemonHangsUp ==
  /\ ~hungUp /\ hungUp' = TRUE
  /\ up' = <<>>
  /\ UNCHANGED <<outbox, writer, reader, token, down, incoming>>
===============================================================================
