------------------------------ MODULE ClientHandle ------------------------------
(***************************************************************************)
(* The core of the language bindings (bindings/core/src/lib.rs) with the   *)
(* listeners of the Python one (bindings/python/src/lib.rs; Node's are the *)
(* same): a task forwards what the daemon sends into a broadcast ring,     *)
(* which next_message and every listener read at their own pace.           *)
(*                                                                         *)
(* The daemon answers each request with two messages.  A message is the    *)
(* number of those sent before it, a request or call the number of its     *)
(* like.                                                                   *)
(***************************************************************************)
EXTENDS DaemonClient, SequencesExt

CONSTANTS
  Listeners,            \* what on_message may register
  Next_rx,              \* the receiver that all calls of next_message share
  Cap,                  \* the capacity of the ring, 64 in the code
  MaxAsked, MaxCalls    \* bounds: requests, calls of next_message

ASSUME HandleAssumption ==
  /\ Next_rx \notin Listeners
  /\ Cap \in Nat \ {0} /\ MaxAsked \in Nat /\ MaxCalls \in Nat

VARIABLES
  asked, called,        \* requests and calls so far
  sent,                 \* messages the daemon has sent
  ring, dispatched,     \* the newest messages of the broadcast, and how many there were
  at,                   \* where each receiver stands
  got,                  \* history: what each was given, 0 for a None
  waiting,              \* calls of next_message, in the order they wait for the lock
  threads,              \* those that hold the client object: a blocking call, a promise
  abandoned,            \* those of them whose outcome nobody will read
  listener,             \* none, running, ended
  stopped,              \* listeners whose token is cancelled
  dropped               \* the script holds its client no longer

handleVars == <<asked, called, sent, ring, dispatched, at, got, waiting, threads, abandoned,
                listener, stopped, dropped>>
vars == <<clientVars, handleVars>>

Readers == Listeners \cup {Next_rx}

TypeOK ==
  /\ ClientTypes(1 .. MaxAsked, 1 .. 2 * MaxAsked)
  /\ asked \in 0 .. MaxAsked /\ called \in 0 .. MaxCalls
  /\ sent \in 0 .. 2 * MaxAsked /\ dispatched \in 0 .. sent
  /\ ring \in Seq(1 .. sent) /\ Len(ring) <= Cap
  /\ at \in [Readers -> 0 .. dispatched]
  /\ got \in [Readers -> Seq(0 .. sent)]
  /\ waiting \in Seq(1 .. called) /\ threads \subseteq 1 .. called /\ abandoned \subseteq threads
  /\ listener \in [Listeners -> {"none", "running", "ended"}]
  /\ stopped \subseteq Listeners /\ dropped \in BOOLEAN

Init ==
  /\ Connected
  /\ asked = 0 /\ called = 0 /\ sent = 0
  /\ ring = <<>> /\ dispatched = 0
  /\ at = [r \in Readers |-> 0] /\ got = [r \in Readers |-> <<>>]
  /\ waiting = <<>> /\ threads = {} /\ abandoned = {}
  /\ listener = [l \in Listeners |-> "none"] /\ stopped = {}
  /\ dropped = FALSE

-------------------------------------------------------------------------------
(* The broadcast ring.                                                        *)

\* Mutant: the ring grows.
ForwardAll ==
  /\ incoming # <<>>
  /\ incoming' = Tail(incoming)
  /\ ring' = Append(ring, Head(incoming))
  /\ dispatched' = dispatched + 1
  /\ UNCHANGED <<outbox, writer, reader, token, up, down, hungUp, asked, called, sent, at, got,
                 waiting, threads, abandoned, listener, stopped, dropped>>

\* The forwarder; a full ring loses its oldest message.
Forward ==
  /\ incoming # <<>>
  /\ incoming' = Tail(incoming)
  /\ ring' = Append(IF Len(ring) = Cap THEN Tail(ring) ELSE ring, Head(incoming))
  /\ dispatched' = dispatched + 1
  /\ UNCHANGED <<outbox, writer, reader, token, up, down, hungUp, asked, called, sent, at, got,
                 waiting, threads, abandoned, listener, stopped, dropped>>

Oldest == dispatched - Len(ring)             \* what the messages of the ring come after

\* The outcome of rx.recv() once there is one: the next message, or Lagged, which
\* moves the receiver to the oldest message the ring still has.
Lagged(r)   == at[r] < Oldest
Receives(r) == at[r] < dispatched
Received(r) == ring[at[r] + 1 - Oldest]
Position(r) == IF Lagged(r) THEN Oldest ELSE at[r] + 1

-------------------------------------------------------------------------------
(* next_message.                                                              *)

\* A blocking call of Python and a promise of Node hold the client object, an
\* asyncio future only the handle in it.
Call ==
  /\ ~dropped /\ called < MaxCalls                                           \* bound
  /\ called' = called + 1
  /\ waiting' = Append(waiting, called + 1)
  /\ threads' \in {threads, threads \cup {called + 1}}
  /\ UNCHANGED <<clientVars, asked, sent, ring, dispatched, at, got, abandoned, listener, stopped,
                 dropped>>

Running == {l \in Listeners : listener[l] # "none"}

\* Once the script has let go of it, the last call that holds the client object drops
\* it, which stops the listeners; the last call of all drops ClientInner, which
\* cancels the token.
Leaves(held, rest) ==
  /\ stopped' = IF dropped /\ held = {} THEN stopped \cup Running ELSE stopped
  /\ token' = (token \/ (dropped /\ rest = <<>>))

\* The call at the head of the queue is over; what it was given is lost on a script
\* that gave it up.
Returns(answer) ==
  LET c == Head(waiting) IN
    /\ waiting' = Tail(waiting) /\ threads' = threads \ {c} /\ abandoned' = abandoned \ {c}
    /\ Leaves(threads \ {c}, Tail(waiting))
    /\ got' = IF c \in abandoned THEN got ELSE [got EXCEPT ![Next_rx] = Append(@, answer)]

\* Mutant: a receiver that lagged starts again with the next message to come.
ReturnFresh ==
  /\ waiting # <<>> /\ Receives(Next_rx)
  /\ at' = [at EXCEPT ![Next_rx] = IF Lagged(Next_rx) THEN dispatched ELSE @ + 1]
  /\ Returns(IF Lagged(Next_rx) THEN 0 ELSE Received(Next_rx))
  /\ UNCHANGED <<outbox, writer, reader, up, down, incoming, hungUp, asked, called, sent, ring,
                 dispatched, listener, dropped>>

\* The call that holds the lock has its message, or a None because it lagged.  There
\* is no other None: ClientInner has a sender, so the ring never closes.
Return ==
  /\ waiting # <<>> /\ Receives(Next_rx)
  /\ at' = [at EXCEPT ![Next_rx] = Position(Next_rx)]
  /\ Returns(IF Lagged(Next_rx) THEN 0 ELSE Received(Next_rx))
  /\ UNCHANGED <<outbox, writer, reader, up, down, incoming, hungUp, asked, called, sent, ring,
                 dispatched, listener, dropped>>

\* The script gives up a call that runs in a thread of its own (asyncio.wait_for over
\* asyncio.to_thread), or a promise; the call goes on.
Abandon(c) ==
  /\ c \in threads /\ c \notin abandoned
  /\ abandoned' = abandoned \cup {c}
  /\ UNCHANGED <<clientVars, asked, called, sent, ring, dispatched, at, got, waiting, threads,
                 listener, stopped, dropped>>

\* A future that is cancelled goes without a trace.
Withdraw(c) ==
  /\ c \notin threads
  /\ \E i \in 1 .. Len(waiting) :
       /\ waiting[i] = c
       /\ waiting' = RemoveAt(waiting, i) /\ Leaves(threads, RemoveAt(waiting, i))
  /\ UNCHANGED <<outbox, writer, reader, up, down, incoming, hungUp, asked, called, sent, ring,
                 dispatched, at, got, threads, abandoned, listener, dropped>>

-------------------------------------------------------------------------------
(* Listeners.                                                                 *)

\* on_message works on a client that is cancelled too.
OnMessage(l) ==
  /\ ~dropped /\ listener[l] = "none"
  /\ listener' = [listener EXCEPT ![l] = "running"]
  /\ at' = [at EXCEPT ![l] = dispatched]
  /\ UNCHANGED <<clientVars, asked, called, sent, ring, dispatched, got, waiting, threads,
                 abandoned, stopped, dropped>>

\* A message calls the callback, whose error ends the listener; Lagged is passed
\* over.  select! is not biased, so this may also happen behind stop.
Deliver(l) ==
  /\ listener[l] = "running" /\ Receives(l)
  /\ at' = [at EXCEPT ![l] = Position(l)]
  /\ \/ Lagged(l) /\ UNCHANGED <<got, listener>>
     \/ /\ ~Lagged(l)
        /\ got' = [got EXCEPT ![l] = Append(@, Received(l))]
        /\ listener' \in {listener, [listener EXCEPT ![l] = "ended"]}
  /\ UNCHANGED <<clientVars, asked, called, sent, ring, dispatched, waiting, threads, abandoned,
                 stopped, dropped>>

EndListener(l) ==
  /\ listener[l] = "running" /\ l \in stopped
  /\ listener' = [listener EXCEPT ![l] = "ended"]
  /\ UNCHANGED <<clientVars, asked, called, sent, ring, dispatched, at, got, waiting, threads,
                 abandoned, stopped, dropped>>

-------------------------------------------------------------------------------
(* The script and the daemon.                                                 *)

Send ==
  /\ ~dropped /\ CanSend /\ asked < MaxAsked                                 \* bound
  /\ asked' = asked + 1
  /\ outbox' = Append(outbox, asked + 1)
  /\ UNCHANGED <<writer, reader, token, up, down, incoming, hungUp, called, sent, ring, dispatched,
                 at, got, waiting, threads, abandoned, listener, stopped, dropped>>

\* cancel: the listeners there are, then the client.  Calls that wait are left waiting.
Cancel ==
  /\ ~dropped
  /\ stopped' = stopped \cup Running
  /\ token' = TRUE
  /\ UNCHANGED <<outbox, writer, reader, up, down, incoming, hungUp, asked, called, sent, ring,
                 dispatched, at, got, waiting, threads, abandoned, listener, dropped>>

\* Mutant: only the listeners end with the client.
DropClientOnly ==
  /\ ~dropped /\ dropped' = TRUE
  /\ stopped' = IF threads = {} THEN stopped \cup Running ELSE stopped
  /\ UNCHANGED <<clientVars, asked, called, sent, ring, dispatched, at, got, waiting, threads,
                 abandoned, listener>>

\* The script lets go of the client object; a call that holds it, or ClientInner, keeps
\* that alive.
DropClient ==
  /\ ~dropped /\ dropped' = TRUE
  /\ stopped' = IF threads = {} THEN stopped \cup Running ELSE stopped
  /\ token' = (token \/ waiting = <<>>)
  /\ UNCHANGED <<outbox, writer, reader, up, down, incoming, hungUp, asked, called, sent, ring,
                 dispatched, at, got, waiting, threads, abandoned, listener>>

Answer ==
  /\ ~hungUp /\ up # <<>>
  /\ up' = Tail(up)
  /\ sent' = sent + 2
  /\ down' = down \o <<sent + 1, sent + 2>>
  /\ UNCHANGED <<outbox, writer, reader, token, incoming, hungUp, asked, called, ring, dispatched,
                 at, got, waiting, threads, abandoned, listener, stopped, dropped>>

Next ==
  \/ Send \/ Call \/ Cancel \/ DropClient
  \/ \E c \in 1 .. MaxCalls : Abandon(c) \/ Withdraw(c)
  \/ \E l \in Listeners : OnMessage(l) \/ Deliver(l) \/ EndListener(l)
  \/ Forward \/ Return \/ Answer
  \/ (WriterStep \/ ReaderStep \/ DaemonHangsUp) /\ UNCHANGED handleVars

\* The runtime polls its tasks and picks each branch of a select! now and then, and no
\* write waits for ever on a full socket (WriterSend is one step).
Fairness ==
  /\ WF_vars(WriterCancelled /\ UNCHANGED handleVars)
  /\ WF_vars(ReaderEnd /\ UNCHANGED handleVars)
  /\ \A l \in Listeners : WF_vars(EndListener(l))

Spec     == Init /\ [][Next]_vars
FairSpec == Spec /\ Fairness

-------------------------------------------------------------------------------
(* Properties.                                                                *)

\* From the daemon to the script no message changes its place or is given twice, and
\* none is lost but where a reader is too slow, of which a call in progress is told, or
\* to a call that was given up, one each.
Mailbox == INSTANCE Mailbox WITH Told <- {Next_rx}
ImplementsMailbox == Mailbox!MailboxSpec

\* Nobody holds the client, and no call uses it.
LetGo == dropped /\ waiting = <<>>

\* A client that is cancelled or let go of closes its socket, with which the daemon
\* ends a manual mode the script left on, and its listeners end, though there may be
\* messages to be read: all of them when it is let go of, those registered by then when
\* it is cancelled.
CancelReleases ==
  (token \/ LetGo) ~>
    (SocketClosed /\ \A l \in Listeners : listener[l] = "running" => ~(l \in stopped \/ LetGo))

-------------------------------------------------------------------------------
(* What the log and the examples say, and the code does not keep.             *)

\* "next_message receiver closed"; "Daemon closed the connection before responding.":
\* a None tells the script that its connection is over.
NoneMeansClosed ==
  (\E i \in 1 .. Len(got[Next_rx]) : got[Next_rx][i] = 0) => hungUp \/ token
===============================================================================
