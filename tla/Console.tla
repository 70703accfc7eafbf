-------------------------------- MODULE Console --------------------------------
(***************************************************************************)
(* The terminal console (cli/src/main.rs): a loop that drains what the     *)
(* daemon answered, draws, and waits for a key.  It shows its own view of  *)
(* manual mode and idle inhibit, which only answers bring up to date, and  *)
(* gives both back when it leaves.                                         *)
(*                                                                         *)
(* The daemon is reduced to what its handler does with these requests      *)
(* (daemon/src/bridge.rs), to another client that may change the same      *)
(* state, and to the timer of an inhibit.  Colours, durations, the         *)
(* selection and the log are left out: a key that only edits or moves is   *)
(* NoKey, and Enter may send any command.                                  *)
(***************************************************************************)
EXTENDS DaemonClient, SequencesExt

CONSTANTS
  Menu,                 \* bound: the commands of the menu the user picks
  MaxAsked,             \* bound: requests the user makes
  MaxMeddled            \* bound: changes of the daemon's state by somebody else

VARIABLES
  \* the console
  pc,                   \* draining, reading, leaving, exited
  running,              \* App::running
  view,                 \* manual_state and idle_inhibit_state
  pending,              \* the requests it has no Ack or Nack for
  asked,                \* requests so far, which number them
  killed,               \* it did not leave by its own shutdown
  \* the daemon
  state,                \* manual mode and idle inhibit
  session,              \* of this connection: none, known, gone
  others,               \* another client has a session
  foreign,              \* changed by others since the console was last told
  meddled               \* changes by others so far

consoleVars == <<pc, running, view, pending, asked, killed>>
daemonVars  == <<state, session, others, foreign, meddled>>
vars        == <<clientVars, consoleVars, daemonVars>>

Modes    == {"manual", "inhibit"}
Views    == {"unknown", "enabling", "disabling", "enabled", "disabled"}

\* The commands of the menu that are supported: ask for a mode, set it, draw.
Commands == [about : Modes, ask : {"get", "on", "off"}] \cup {[about |-> "led", ask |-> "draw"]}

ASSUME ConsoleAssumption == Menu \subseteq Commands /\ MaxAsked \in Nat /\ MaxMeddled \in Nat

Ids      == 1 .. (MaxAsked + 2)              \* two of them at shutdown
Requests == [id : Ids, command : Commands]
Answers  == [id : Ids, what : {"ack", "nack"}] \cup [id : Ids, what : Modes, enabled : BOOLEAN]

TypeOK ==
  /\ ClientTypes(Requests, Answers)
  /\ pc \in {"draining", "reading", "leaving", "exited"}
  /\ running \in BOOLEAN /\ killed \in BOOLEAN
  /\ view \in [Modes -> Views]
  /\ asked \in 0 .. (MaxAsked + 2) /\ pending \subseteq 1 .. asked
  /\ state \in [Modes -> BOOLEAN]
  /\ session \in {"none", "known", "gone"} /\ others \in BOOLEAN
  /\ foreign \subseteq Modes /\ meddled \in 0 .. MaxMeddled

\* An inhibit may be left from an earlier client, manual mode belongs to somebody.
Init ==
  /\ Connected
  /\ pc = "draining" /\ running = TRUE /\ killed = FALSE
  /\ view = [x \in Modes |-> "unknown"]
  /\ pending = {} /\ asked = 0
  /\ state \in [Modes -> BOOLEAN] /\ session = "none" /\ others \in BOOLEAN
  /\ state["manual"] => others
  /\ foreign = {} /\ meddled = 0

-------------------------------------------------------------------------------
(* The console.                                                               *)

Wanted(ask) == IF ask = "on" THEN "enabling" ELSE "disabling"

\* Mutant: a request is noted before it is sent.
RequestNoted(commands) ==
  LET n == Len(commands) IN
  /\ pending' = pending \cup ((asked + 1) .. (asked + n))
  /\ IF CanSend
     THEN /\ outbox' = outbox \o [i \in 1 .. n |-> [id |-> asked + i, command |-> commands[i]]]
          /\ asked' = asked + n
          /\ view' = [x \in Modes |->
                        IF \E c \in ToSet(commands) : c.about = x /\ c.ask # "get"
                        THEN Wanted((CHOOSE c \in ToSet(commands) : c.about = x).ask)
                        ELSE view[x]]
     ELSE UNCHANGED <<outbox, asked, view>>

\* try_send of each, and the view of a mode that is to be set.  A request that
\* cannot be sent leaves only a line in the log.
Request(commands) ==
  LET n == Len(commands) IN
  IF CanSend
  THEN /\ outbox' = outbox \o [i \in 1 .. n |-> [id |-> asked + i, command |-> commands[i]]]
       /\ pending' = pending \cup ((asked + 1) .. (asked + n))
       /\ asked' = asked + n
       /\ view' = [x \in Modes |->
                     IF \E c \in ToSet(commands) : c.about = x /\ c.ask # "get"
                     THEN Wanted((CHOOSE c \in ToSet(commands) : c.about = x).ask)
                     ELSE view[x]]
  ELSE UNCHANGED <<outbox, pending, asked, view>>

\* The places of the answers about x that are drained: the last one counts.
Told(x) == {i \in 1 .. Len(incoming) : incoming[i].what = x}

\* Mutant: an answer is only looked at while a request is pending in the view.
DrainExpected ==
  /\ pc = "draining"
  /\ incoming' = <<>>
  /\ view' = [x \in Modes |->
                IF Told(x) = {} \/ view[x] \notin {"enabling", "disabling"} THEN view[x]
                ELSE IF incoming[Min(Told(x))].enabled THEN "enabled" ELSE "disabled"]
  /\ pending' = pending \ {a.id : a \in {b \in ToSet(incoming) : b.what \in {"ack", "nack"}}}
  /\ running' = (running /\ reader = "running")
  /\ pc' = "reading"
  /\ UNCHANGED <<outbox, writer, reader, token, up, down, hungUp, asked, killed, daemonVars>>

\* Mutant: the end of the channel is taken for an empty one.
DrainOn ==
  /\ pc = "draining"
  /\ incoming' = <<>>
  /\ view' = [x \in Modes |->
                IF Told(x) = {} THEN view[x]
                ELSE IF incoming[Max(Told(x))].enabled THEN "enabled" ELSE "disabled"]
  /\ pending' = pending \ {a.id : a \in {b \in ToSet(incoming) : b.what \in {"ack", "nack"}}}
  /\ pc' = "reading"
  /\ UNCHANGED <<outbox, writer, reader, token, up, down, hungUp, running, asked, killed,
                 daemonVars>>

\* drain_incoming, with handle_incoming_message for each message.
Drain ==
  /\ pc = "draining"
  /\ incoming' = <<>>
  /\ view' = [x \in Modes |->
                IF Told(x) = {} THEN view[x]
                ELSE IF incoming[Max(Told(x))].enabled THEN "enabled" ELSE "disabled"]
  /\ pending' = pending \ {a.id : a \in {b \in ToSet(incoming) : b.what \in {"ack", "nack"}}}
  /\ running' = (running /\ reader = "running")
  /\ pc' = "reading"
  /\ UNCHANGED <<outbox, writer, reader, token, up, down, hungUp, asked, killed, daemonVars>>

\* The loop has drawn, and looks at a key or waits in vain for one; it is left
\* when the key, or the drain before it, cleared running.
Read(on) ==
  /\ pc = "reading"
  /\ running' = on
  /\ pc' = IF on THEN "draining" ELSE "leaving"
  /\ UNCHANGED <<writer, reader, token, up, down, incoming, hungUp, killed, daemonVars>>

NoKey == Read(running) /\ UNCHANGED <<view, pending, asked, outbox>>

QuitKey == Read(FALSE) /\ UNCHANGED <<view, pending, asked, outbox>>

\* 'm' and 'i' set a mode to the opposite of what the console knows of it.
ToggleKey(x) ==
  LET off == IF x = "manual" THEN view[x] # "disabled" ELSE view[x] = "enabled" IN
  /\ Read(running)
  /\ view[x] \notin {"enabling", "disabling"} /\ asked < MaxAsked                \* bound
  /\ Request(<<[about |-> x, ask |-> IF off THEN "off" ELSE "on"]>>)

\* Enter: send_selected_command looks at no view.
EnterKey(c) ==
  /\ Read(running)
  /\ asked < MaxAsked                                                            \* bound
  /\ Request(<<c>>)

ReadInput ==
  \/ NoKey \/ QuitKey
  \/ \E x \in Modes : ToggleKey(x)
  \/ \E c \in Menu : EnterKey(c)

\* Drawing or reading the terminal fails, and run's closure returns the error.
TerminalFails ==
  /\ pc = "reading" /\ pc' = "leaving"
  /\ UNCHANGED <<clientVars, running, view, pending, asked, killed, daemonVars>>

GiveBack(x, held) == IF view[x] \in held THEN <<[about |-> x, ask |-> "off"]>> ELSE <<>>

\* Mutant: gives back only what the daemon has confirmed.
ShutdownConfirmed ==
  /\ pc = "leaving" /\ pc' = "exited"
  /\ LET held == {"enabled"} IN Request(GiveBack("manual", held) \o GiveBack("inhibit", held))
  /\ token' = TRUE
  /\ UNCHANGED <<writer, reader, up, down, incoming, hungUp, running, killed, daemonVars>>

\* shutdown: what it holds or has asked for is given back, unless it asked for
\* nothing or was told that it has nothing; then the token is cancelled at once.
Shutdown ==
  /\ pc = "leaving" /\ pc' = "exited"
  /\ LET held == {"enabled", "enabling", "disabling"}
     IN  Request(GiveBack("manual", held) \o GiveBack("inhibit", held))
  /\ token' = TRUE
  /\ UNCHANGED <<writer, reader, up, down, incoming, hungUp, running, killed, daemonVars>>

\* The runtime is dropped behind shutdown, and takes both tasks along wherever
\* they are.
DropRuntime ==
  /\ pc = "exited" /\ ~SocketClosed
  /\ writer' = "ended" /\ reader' = "ended"
  /\ UNCHANGED <<outbox, token, up, down, incoming, hungUp, consoleVars, daemonVars>>

Kill ==
  /\ pc # "exited" /\ pc' = "exited" /\ killed' = TRUE
  /\ writer' = "ended" /\ reader' = "ended"
  /\ UNCHANGED <<outbox, token, up, down, incoming, hungUp, running, view, pending, asked,
                 daemonVars>>

-------------------------------------------------------------------------------
(* The daemon.                                                                *)

Ack(id)  == [id |-> id, what |-> "ack"]
Nack(id) == [id |-> id, what |-> "nack"]
Say(id, x, on) == [id |-> id, what |-> x, enabled |-> on]

\* Every message registers the client.  A mode is answered with what it is now and
\* an Ack, a drawing with an Ack in manual mode and a Nack outside it.
Serve ==
  /\ ~hungUp /\ up # <<>>
  /\ up' = Tail(up)
  /\ session' = "known"
  /\ LET id == Head(up).id
         c == Head(up).command
         after == IF c.ask \in {"on", "off"} THEN [state EXCEPT ![c.about] = (c.ask = "on")] ELSE state
         answers == IF c.about = "led"
                    THEN <<IF state["manual"] THEN Ack(id) ELSE Nack(id)>>
                    ELSE <<Say(id, c.about, after[c.about]), Ack(id)>> IN
     /\ state' = after
     /\ down' = IF SocketClosed THEN down ELSE down \o answers
     /\ foreign' = foreign \ {c.about}
  /\ UNCHANGED <<outbox, writer, reader, token, incoming, hungUp, consoleVars, others, meddled>>

\* Mutant: the session is removed and nothing else.
ServeEndOnly ==
  /\ ~hungUp /\ up = <<>> /\ SocketClosed /\ session # "gone"
  /\ session' = "gone"
  /\ UNCHANGED <<clientVars, consoleVars, state, others, foreign, meddled>>

\* The disconnect: manual mode ends with the last client that ever said something.
ServeEnd ==
  /\ ~hungUp /\ up = <<>> /\ SocketClosed /\ session # "gone"
  /\ session' = "gone"
  /\ state' = IF session = "known" /\ ~others THEN [state EXCEPT !["manual"] = FALSE] ELSE state
  /\ UNCHANGED <<clientVars, consoleVars, others, foreign, meddled>>

Meddle(x, on) ==
  /\ ~hungUp /\ state[x] # on /\ meddled < MaxMeddled                            \* bound
  /\ meddled' = meddled + 1
  /\ state' = [state EXCEPT ![x] = on]
  /\ foreign' = foreign \cup {x}

OtherSets(x, on) ==
  /\ others /\ Meddle(x, on)
  /\ UNCHANGED <<clientVars, consoleVars, session, others>>

\* The timeout of an inhibit, whoever asked for it.
InhibitExpires ==
  /\ Meddle("inhibit", FALSE)
  /\ UNCHANGED <<clientVars, consoleVars, session, others>>

OtherLeaves ==
  /\ ~hungUp /\ others /\ others' = FALSE
  /\ IF state["manual"] /\ session # "known"
     THEN Meddle("manual", FALSE)
     ELSE UNCHANGED <<state, foreign, meddled>>
  /\ UNCHANGED <<clientVars, consoleVars, session>>

ConsoleStep == Drain \/ ReadInput \/ Shutdown \/ DropRuntime

Next ==
  \/ ConsoleStep \/ TerminalFails \/ Kill
  \/ (WriterStep \/ ReaderStep \/ DaemonHangsUp) /\ UNCHANGED <<consoleVars, daemonVars>>
  \/ Serve \/ ServeEnd
  \/ \E x \in Modes, on \in BOOLEAN : OtherSets(x, on)
  \/ InhibitExpires \/ OtherLeaves

\* The loop waits 100 ms for a key at most, the runtime polls its tasks, and the
\* daemon reads its clients.
Fairness ==
  /\ WF_vars(ConsoleStep)
  /\ WF_vars(WriterStep /\ UNCHANGED <<consoleVars, daemonVars>>)
  /\ WF_vars(ReaderStep /\ UNCHANGED <<consoleVars, daemonVars>>)
  /\ WF_vars(Serve) /\ WF_vars(ServeEnd)

Spec     == Init /\ [][Next]_vars
FairSpec == Spec /\ Fairness

-------------------------------------------------------------------------------
(* Properties.                                                                *)

\* A request about x, or an answer that says what x is, is on its way.
UnderWay(x) ==
  \/ \E m \in ToSet(outbox) \cup ToSet(up) : m.command.about = x
  \/ \E a \in ToSet(down) \cup ToSet(incoming) : a.what = x

\* With nothing under way the console shows what the daemon has, whatever was
\* asked in whatever order, unless somebody else changed it in the meantime: the
\* daemon tells only the client that asks.  In particular no view stays pending.
ViewIsCurrent ==
  pc # "exited" /\ ~hungUp =>
    \A x \in Modes \ foreign :
      UnderWay(x) \/ view[x] \in {"unknown", IF state[x] THEN "enabled" ELSE "disabled"}

\* Once the user stops asking, every request has its Ack or Nack, or the console
\* ends: also when the daemon goes, and with a request it could not send.
RequestsSettle ==
  (pending # {}) ~> (pending = {} \/ pc = "exited")

\* However the console ends, manual mode does not stay behind without a client,
\* although the request that gives it back may be lost.
ModeReleased ==
  pc = "exited" ~> (~state["manual"] \/ others \/ hungUp)

\* An idle inhibit has no owner, so it stays when the console goes without giving it
\* back: because it was killed, because the runtime was dropped before the request
\* was written, or because the console had last read that there was none.
InhibitLeftBehind ==
  /\ pc = "exited" /\ session = "gone" /\ ~hungUp
  /\ state["inhibit"] /\ "inhibit" \notin foreign
  => killed \/ outbox # <<>> \/ view["inhibit"] \in {"unknown", "disabled"}
===============================================================================
