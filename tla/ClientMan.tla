------------------------------- MODULE ClientMan -------------------------------
(***************************************************************************)
(* The daemon's end of the client connections (daemon/src/client/mod.rs):  *)
(* ClientMan, which accepts connections and keeps a table of them by       *)
(* address, and one ClientConn task per connection.  The clients and their *)
(* sockets are the environment, and so is the handler, which is reduced to *)
(* the set of clients it knows and an answer to every message.             *)
(*                                                                         *)
(* An event, a request and an answer carry an address in the code; here    *)
(* they carry the connection they come from, and the manager looks at      *)
(* nothing but its address.  Two connections may have one address: a port  *)
(* is free again once the client has closed its socket.                    *)
(***************************************************************************)
EXTENDS Integers, SequencesExt

CONSTANTS
  Conns,                \* the connections ever made
  Addrs,                \* the addresses clients connect from
  Ports,                \* the ways connections may share the addresses
  None,                 \* no connection
  Faulty,               \* connections that may carry bytes that are no message
  MaxSaid,              \* bound: messages the client of each connection sends
  Room                  \* bound: answers a socket takes that its client does not read

ASSUME ClientManAssumption ==
  /\ Ports \subseteq [Conns -> Addrs]
  /\ None \notin Conns \cup [conn : Conns, victim : Conns]
  /\ Faulty \subseteq Conns
  /\ MaxSaid \in [Conns -> Nat] /\ Room \in Nat \ {0}

VARIABLES
  \* the clients and their sockets
  socket,               \* unborn, open, closed
  up,                   \* written by the client and not read by the task
  down,                 \* written by the task and not read by the client
  said,                 \* messages the client has sent
  \* ClientConn, the task of each connection
  task,                 \* none, running, sending (waits for room in a socket), ended
  answers,              \* its channel ClientConn.rx
  failed,               \* connections whose decoder has reported an error
  cancelled,            \* connections whose own token is cancelled
  \* ClientMan
  clients,              \* the connection each address has an entry for
  events,               \* its channel client_rx
  removing,             \* the disconnect event whose connection's task it waits for
  manager,              \* running, draining, stopped
  stopping,             \* the token of the daemon is cancelled
  \* the handler and its two channels
  requests, responses,
  known,                \* the addresses it has a session for
  heard,                \* the messages it was given
  gone,                 \* connections it was told have ended
  addrOf,               \* the address of each connection, which never changes
  reused                \* history: connections accepted while their address was in use

socketVars  == <<socket, up, down, said>>
connVars    == <<task, answers, failed, cancelled>>
handlerVars == <<requests, responses, known, heard, gone>>
managerVars == <<clients, events, removing, manager, stopping>>

otherVars   == <<addrOf, reused>>

vars == <<socketVars, connVars, managerVars, handlerVars, otherVars>>

Damaged    == 0                               \* bytes that are no message
Disconnect == 0                               \* the event after the last message
Reports    == [conn : Conns, what : Nat]

Report(c, what) == [conn |-> c, what |-> what]

TypeOK ==
  /\ socket \in [Conns -> {"unborn", "open", "closed"}]
  /\ up \in [Conns -> Seq(Nat)]
  /\ down \in [Conns -> Seq(Conns)]
  /\ said \in [Conns -> Nat]
  /\ task \in [Conns -> {"none", "running", "sending", "ended"}]
  /\ answers \in [Conns -> Seq(Conns)]
  /\ failed \in SUBSET Conns /\ cancelled \in SUBSET Conns
  /\ clients \in [Addrs -> Conns \cup {None}]
  /\ events \in Seq(Reports) /\ requests \in Seq(Reports)
  /\ removing \in [conn : Conns, victim : Conns] \cup {None}
  /\ manager \in {"running", "draining", "stopped"}
  /\ stopping \in BOOLEAN
  /\ responses \in Seq(Conns)
  /\ known \in SUBSET Addrs
  /\ heard \in [Conns -> Seq(Nat)]
  /\ gone \in SUBSET Conns /\ reused \in SUBSET Conns
  /\ addrOf \in Ports

Init ==
  /\ socket = [c \in Conns |-> "unborn"]
  /\ up = [c \in Conns |-> <<>>] /\ down = [c \in Conns |-> <<>>]
  /\ said = [c \in Conns |-> 0]
  /\ task = [c \in Conns |-> "none"] /\ answers = [c \in Conns |-> <<>>]
  /\ failed = {} /\ cancelled = {}
  /\ clients = [a \in Addrs |-> None]
  /\ events = <<>> /\ removing = None
  /\ manager = "running" /\ stopping = FALSE
  /\ requests = <<>> /\ responses = <<>>
  /\ known = {} /\ heard = [c \in Conns |-> <<>>] /\ gone = {}
  /\ addrOf \in Ports /\ reused = {}

-------------------------------------------------------------------------------
(* The clients.                                                               *)

SameAddr(b, c) == addrOf[b] = addrOf[c]

Connect(c) ==
  /\ socket[c] = "unborn"
  /\ \A b \in Conns : SameAddr(b, c) => socket[b] # "open"
  /\ socket' = [socket EXCEPT ![c] = "open"]
  /\ UNCHANGED <<up, down, said, connVars, managerVars, handlerVars, otherVars>>

Say(c) ==
  /\ socket[c] = "open" /\ said[c] < MaxSaid[c]                            \* bound
  /\ said' = [said EXCEPT ![c] = @ + 1]
  /\ up' = [up EXCEPT ![c] = Append(@, said[c] + 1)]
  /\ UNCHANGED <<socket, down, connVars, managerVars, handlerVars, otherVars>>

\* A client of another version, or one that dies in the middle of a message.
SayDamaged(c) ==
  /\ c \in Faulty /\ socket[c] = "open" /\ ~Contains(up[c], Damaged) /\ c \notin failed
  /\ up' = [up EXCEPT ![c] = Append(@, Damaged)]
  /\ UNCHANGED <<socket, down, said, connVars, managerVars, handlerVars, otherVars>>

ReadAnswer(c) ==
  /\ socket[c] = "open" /\ down[c] # <<>>
  /\ down' = [down EXCEPT ![c] = Tail(@)]
  /\ UNCHANGED <<socket, up, said, connVars, managerVars, handlerVars, otherVars>>

\* What the client has written can still be read, what it has not read is lost.
Close(c) ==
  /\ socket[c] = "open"
  /\ socket' = [socket EXCEPT ![c] = "closed"]
  /\ down' = [down EXCEPT ![c] = <<>>]
  /\ UNCHANGED <<up, said, connVars, managerVars, handlerVars, otherVars>>

ClientStep(c) ==
  Connect(c) \/ Say(c) \/ SayDamaged(c) \/ ReadAnswer(c) \/ Close(c)

-------------------------------------------------------------------------------
(* ClientConn::run, one action per branch of its select!, which is not biased.  *)
(* A send is awaited inside its branch: until the socket takes the answer, the  *)
(* task looks neither at its socket nor at its token.                           *)

\* Mutant: a send to a client that is gone waits for it.
WriteAnswerOpen(c) ==
  /\ task[c] \in {"running", "sending"} /\ answers[c] # <<>>
  /\ socket[c] = "open" /\ Len(down[c]) < Room
  /\ down' = [down EXCEPT ![c] = Append(@, Head(answers[c]))]
  /\ answers' = [answers EXCEPT ![c] = Tail(@)]
  /\ task' = [task EXCEPT ![c] = "running"]
  /\ UNCHANGED <<socket, up, said, failed, cancelled, managerVars, handlerVars, otherVars>>

\* A send to a client that has closed its socket fails and is only logged.
WriteAnswer(c) ==
  /\ task[c] \in {"running", "sending"} /\ answers[c] # <<>>
  /\ \/ socket[c] = "closed" /\ UNCHANGED down
     \/ /\ socket[c] = "open" /\ Len(down[c]) < Room
        /\ down' = [down EXCEPT ![c] = Append(@, Head(answers[c]))]
  /\ answers' = [answers EXCEPT ![c] = Tail(@)]
  /\ task' = [task EXCEPT ![c] = "running"]
  /\ UNCHANGED <<socket, up, said, failed, cancelled, managerVars, handlerVars, otherVars>>

WaitForRoom(c) ==
  /\ task[c] = "running" /\ answers[c] # <<>>
  /\ socket[c] = "open" /\ Len(down[c]) = Room
  /\ task' = [task EXCEPT ![c] = "sending"]
  /\ UNCHANGED <<socketVars, answers, failed, cancelled, managerVars, handlerVars, otherVars>>

ReadMessage(c) ==
  /\ task[c] = "running" /\ c \notin failed
  /\ up[c] # <<>> /\ Head(up[c]) # Damaged
  /\ up' = [up EXCEPT ![c] = Tail(@)]
  /\ events' = Append(events, Report(c, Head(up[c])))
  /\ UNCHANGED <<socket, down, said, connVars, clients, removing, manager, stopping,
                 handlerVars, otherVars>>

\* The decoder reports an error once and then the end of the stream; the Nack is
\* sent in between.
ReadDamage(c) ==
  /\ task[c] = "running" /\ c \notin failed
  /\ up[c] # <<>> /\ Head(up[c]) = Damaged
  /\ up' = [up EXCEPT ![c] = <<>>]
  /\ failed' = failed \cup {c}
  /\ answers' = [answers EXCEPT ![c] = <<c>> \o @]
  /\ task' = [task EXCEPT ![c] = "sending"]
  /\ UNCHANGED <<socket, down, said, cancelled, managerVars, handlerVars, otherVars>>

EndTask(c) ==
  /\ task' = [task EXCEPT ![c] = "ended"]
  /\ answers' = [answers EXCEPT ![c] = <<>>]

\* Mutant: the disconnect has a channel of its own, read first.
ReadEndFirst(c) ==
  /\ task[c] = "running"
  /\ c \in failed \/ (up[c] = <<>> /\ socket[c] = "closed")
  /\ events' = <<Report(c, Disconnect)>> \o events
  /\ EndTask(c)
  /\ UNCHANGED <<socketVars, failed, cancelled, clients, removing, manager, stopping,
                 handlerVars, otherVars>>

ReadEnd(c) ==
  /\ task[c] = "running"
  /\ c \in failed \/ (up[c] = <<>> /\ socket[c] = "closed")
  /\ events' = Append(events, Report(c, Disconnect))
  /\ EndTask(c)
  /\ UNCHANGED <<socketVars, failed, cancelled, clients, removing, manager, stopping,
                 handlerVars, otherVars>>

\* Mutant: the connections share one token instead of having a child each.
SeeCancelledAny(c) ==
  /\ task[c] = "running" /\ (stopping \/ cancelled # {})
  /\ EndTask(c)
  /\ UNCHANGED <<socketVars, failed, cancelled, managerVars, handlerVars, otherVars>>

\* The token is a child of the daemon's, and its branch tells the manager nothing.
SeeCancelled(c) ==
  /\ task[c] = "running" /\ (stopping \/ c \in cancelled)
  /\ EndTask(c)
  /\ UNCHANGED <<socketVars, failed, cancelled, managerVars, handlerVars, otherVars>>

ConnStep(c) ==
  \/ WriteAnswer(c) \/ WaitForRoom(c)
  \/ ReadMessage(c) \/ ReadDamage(c) \/ ReadEnd(c)
  \/ SeeCancelled(c)

-------------------------------------------------------------------------------
(* ClientMan::run.                                                            *)

\* The manager is in its select!, and not in a branch that waits for a task.
Selecting == manager = "running" /\ removing = None

\* Something of an earlier connection from the address is still under way.
InUse(c) ==
  \E b \in Conns \ {c} :
    SameAddr(b, c) /\ task[b] # "none" /\ (b \notin gone \/ Contains(responses, b))

\* accept: the entry replaces one of the same address.
Accept(c) ==
  /\ Selecting
  /\ socket[c] # "unborn" /\ task[c] = "none"
  /\ task' = [task EXCEPT ![c] = "running"]
  /\ clients' = [clients EXCEPT ![addrOf[c]] = c]
  /\ reused' = IF InUse(c) THEN reused \cup {c} ELSE reused
  /\ UNCHANGED <<addrOf, socketVars, answers, failed, cancelled, events, removing, manager, stopping,
                 handlerVars>>

ForwardMessage ==
  /\ Selecting
  /\ events # <<>> /\ Head(events).what # Disconnect
  /\ events' = Tail(events)
  /\ requests' = Append(requests, Head(events))
  /\ UNCHANGED <<socketVars, connVars, clients, removing, manager, stopping, responses, known,
                 heard, gone, otherVars>>

\* Mutant: waits for a connection also when there is none to remove.
HandleDisconnectUnchecked ==
  /\ Selecting
  /\ events # <<>> /\ Head(events).what = Disconnect
  /\ events' = Tail(events)
  /\ LET c == Head(events).conn
         victim == clients[addrOf[c]] IN
     /\ clients' = [clients EXCEPT ![addrOf[c]] = None]
     /\ cancelled' = cancelled \cup ({victim} \ {None})
     /\ removing' = [conn |-> c, victim |-> victim]
  /\ UNCHANGED <<socketVars, task, answers, failed, manager, stopping, handlerVars, otherVars>>

\* A disconnect removes the entry of its address, whichever connection has it, and
\* waits for the task of that connection before it is forwarded.
HandleDisconnect ==
  /\ Selecting
  /\ events # <<>> /\ Head(events).what = Disconnect
  /\ events' = Tail(events)
  /\ LET c == Head(events).conn
         victim == clients[addrOf[c]] IN
     IF victim = None
     THEN /\ requests' = Append(requests, Head(events))
          /\ UNCHANGED <<clients, cancelled, removing>>
     ELSE /\ clients' = [clients EXCEPT ![addrOf[c]] = None]
          /\ cancelled' = cancelled \cup {victim}
          /\ removing' = [conn |-> c, victim |-> victim]
          /\ UNCHANGED requests
  /\ UNCHANGED <<socketVars, task, answers, failed, manager, stopping, responses, known, heard,
                 gone, otherVars>>

\* Mutant: does not forward the disconnect it has waited for.
FinishDisconnectQuiet ==
  /\ removing # None
  /\ task[removing.victim] = "ended"
  /\ removing' = None
  /\ UNCHANGED <<socketVars, connVars, clients, events, manager, stopping, handlerVars,
                 otherVars>>

FinishDisconnect ==
  /\ removing # None
  /\ task[removing.victim] = "ended"
  /\ requests' = Append(requests, Report(removing.conn, Disconnect))
  /\ removing' = None
  /\ UNCHANGED <<socketVars, connVars, clients, events, manager, stopping, responses, known,
                 heard, gone, otherVars>>

\* Mutant: looks for the host of the address and not for its port.
RouteResponseByHost ==
  /\ Selecting
  /\ responses # <<>>
  /\ responses' = Tail(responses)
  /\ LET c == clients[CHOOSE a \in Addrs : clients[a] # None \/ \A b \in Addrs : clients[b] = None] IN
     answers' = IF c # None /\ task[c] # "ended"
                THEN [answers EXCEPT ![c] = Append(@, Head(responses))]
                ELSE answers
  /\ UNCHANGED <<socketVars, task, failed, cancelled, managerVars, requests, known, heard, gone,
                 otherVars>>

\* A response to an address with no entry is dropped.
RouteResponse ==
  /\ Selecting
  /\ responses # <<>>
  /\ responses' = Tail(responses)
  /\ LET c == clients[addrOf[Head(responses)]] IN
     answers' = IF c # None /\ task[c] # "ended"
                THEN [answers EXCEPT ![c] = Append(@, Head(responses))]
                ELSE answers
  /\ UNCHANGED <<socketVars, task, failed, cancelled, managerVars, requests, known, heard, gone,
                 otherVars>>

\* The cancelled branch, and the first of the two loops behind the select! loop.
Stop ==
  /\ Selecting /\ stopping
  /\ manager' = "draining"
  /\ cancelled' = cancelled \cup {clients[a] : a \in {b \in Addrs : clients[b] # None}}
  /\ UNCHANGED <<socketVars, task, answers, failed, clients, events, removing, stopping,
                 handlerVars, otherVars>>

\* The second loop has awaited every task of the table.
FinishStop ==
  /\ manager = "draining"
  /\ \A a \in Addrs : clients[a] # None => task[clients[a]] = "ended"
  /\ manager' = "stopped"
  /\ clients' = [a \in Addrs |-> None]
  /\ UNCHANGED <<socketVars, connVars, events, removing, stopping, handlerVars, otherVars>>

ManagerStep ==
  \/ \E c \in Conns : Accept(c)
  \/ ForwardMessage \/ HandleDisconnect \/ FinishDisconnect
  \/ RouteResponse
  \/ Stop \/ FinishStop

-------------------------------------------------------------------------------
(* The handler, with ClientSessions: it answers every message and forgets a     *)
(* client it is told has gone.  It cancels the token when it leaves its loop.   *)

TakeRequest ==
  /\ ~stopping
  /\ requests # <<>>
  /\ requests' = Tail(requests)
  /\ LET c == Head(requests).conn
         what == Head(requests).what IN
     IF what = Disconnect
     THEN /\ known' = known \ {addrOf[c]}
          /\ gone' = gone \cup {c}
          /\ UNCHANGED <<heard, responses>>
     ELSE /\ known' = known \cup {addrOf[c]}
          /\ heard' = [heard EXCEPT ![c] = Append(@, what)]
          /\ responses' = Append(responses, c)
          /\ UNCHANGED gone
  /\ UNCHANGED <<socketVars, connVars, managerVars, otherVars>>

LeaveLoop ==
  /\ ~stopping /\ stopping' = TRUE
  /\ UNCHANGED <<socketVars, connVars, clients, events, removing, manager, handlerVars, otherVars>>

Next ==
  \/ \E c \in Conns : ClientStep(c) \/ ConnStep(c)
  \/ ManagerStep
  \/ TakeRequest \/ LeaveLoop

\* The runtime polls every task and the handler; clients read what they are sent
\* (daemoncomm's reader task does nothing else) or close their socket.
Fairness ==
  /\ \A c \in Conns : WF_vars(ConnStep(c))
  /\ WF_vars(ManagerStep)
  /\ WF_vars(TakeRequest)
  /\ \A c \in Conns : WF_vars(ReadAnswer(c))

Spec     == Init /\ [][Next]_vars
FairSpec == Spec /\ Fairness

-------------------------------------------------------------------------------
(* Properties.                                                                *)

\* Messages reach the handler in order and once, before the end of their
\* connection, whatever becomes of the table, its entries and their addresses.
Visits == INSTANCE Visits
ImplementsVisits == Visits!VisitsSpec

\* The connection of an address that belongs to no other.
Undisturbed(c) ==
  /\ c \notin reused
  /\ \A b \in reused : ~SameAddr(b, c)

\* The disconnect of a connection is on its way to the handler.
Leaving(c) ==
  \/ Contains(events, Report(c, Disconnect))
  \/ removing # None /\ removing.conn = c
  \/ Contains(requests, Report(c, Disconnect))

\* The handler knows a client only while its connection lives or its disconnect
\* is on its way: manual mode cannot be kept by a client that is not there.  An
\* address used again too early is the exception: the late disconnect then ends
\* the new connection, which tells nobody.
NoPhantomClient ==
  \A a \in known :
    stopping \/ \E c \in Conns :
      addrOf[c] = a /\ (c \in reused \/ task[c] \in {"running", "sending"} \/ Leaving(c))

\* An answer reaches the client that asked, unless its address was used again: the
\* manager looks for the address of an answer only when it sends it.
AnswersGoHome ==
  \A c \in Conns : Undisturbed(c) =>
    \A i \in 1 .. Len(down[c]) : down[c][i] = c

\* The daemon ends no connection of a client that is still there, unless it stops,
\* cannot read what the client sent, or the address was used again too early.
NobodyCutOff ==
  \A c \in Conns :
    task[c] = "ended" /\ Undisturbed(c) /\ ~stopping => socket[c] = "closed" \/ c \in failed

\* Once the handler has cancelled the token, every task ends and the manager
\* with them, also one that was waiting for a socket or in the middle of a removal.
StopCompletes ==
  stopping ~> (manager = "stopped" /\ \A c \in Conns : task[c] \in {"none", "ended"})
===============================================================================
