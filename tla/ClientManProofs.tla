---------------------------- MODULE ClientManProofs ----------------------------
(***************************************************************************)
(* Theorems about the daemon's end of the client connections, for every    *)
(* number of connections, ways they share addresses, messages, damage and  *)
(* answers.                                                                *)
(*   TypeOK      is inductive by itself;                                   *)
(*   OrderInv    what is on its way to the handler continues what it has   *)
(*               heard, so that ClientMan implements Visits;               *)
(*   TableInv    what the table of addresses says of the connections, from *)
(*               which the other invariants follow.                        *)
(***************************************************************************)
EXTENDS ClientMan, SequenceTheorems, TLAPS

-------------------------------------------------------------------------------
(* The invariants.                                                            *)

\* The disconnect that waits for a task, and all that is on its way to the handler.
Held == IF removing = None THEN <<>> ELSE <<Report(removing.conn, Disconnect)>>
Way  == requests \o (Held \o events)

\* Of each connection the messages on their way are in order and end with the
\* disconnect; each follows the one before it, or the last one heard.
Ordered ==
  \A i, j \in 1 .. Len(Way) :
    i < j /\ Way[i].conn = Way[j].conn =>
      /\ Way[i].what # Disconnect
      /\ Way[j].what = Disconnect \/ Way[i].what < Way[j].what

Follows ==
  \A i \in 1 .. Len(Way) : Way[i].what # Disconnect =>
    LET c == Way[i].conn
        k == Way[i].what IN
    /\ k \in Len(heard[c]) + 1 .. said[c]
    /\ k = Len(heard[c]) + 1 \/ \E j \in 1 .. i - 1 : Way[j] = Report(c, k - 1)

\* So do the messages in the socket, until the decoder fails.
Unread ==
  \A c \in Conns \ failed : \A i \in 1 .. Len(up[c]) : up[c][i] # Damaged =>
    LET k == up[c][i] IN
    /\ k \in Len(heard[c]) + 1 .. said[c]
    /\ \A j \in 1 .. Len(Way) : Way[j].conn = c => Way[j].what < k
    /\ \A j \in 1 .. i - 1 : up[c][j] < k
    /\ \/ k = Len(heard[c]) + 1
       \/ Contains(Way, Report(c, k - 1))
       \/ \E j \in 1 .. i - 1 : up[c][j] = k - 1

\* And the next message the client will send.
NextSaid ==
  \A c \in Conns \ failed :
    \/ said[c] = Len(heard[c])
    \/ Contains(Way, Report(c, said[c]))
    \/ Contains(up[c], said[c])

HeardOfSaid == \A c \in Conns : Len(heard[c]) <= said[c]

\* Only a connection that has a task and is not gone is on the way, and a disconnect
\* is the last thing its task does.
EndsOnce ==
  /\ \A i \in 1 .. Len(Way) :
       /\ task[Way[i].conn] # "none" /\ Way[i].conn \notin gone
       /\ Way[i].what = Disconnect => task[Way[i].conn] = "ended"
  /\ \A c \in gone : task[c] = "ended"

OrderInv == Ordered /\ Follows /\ Unread /\ NextSaid /\ HeardOfSaid /\ EndsOnce

\* The table has the last connection accepted from an address: unless the address
\* was used again too early, those before it are gone and have been answered.
LastAccepted ==
  \A a \in Addrs : clients[a] # None =>
    LET c == clients[a] IN
    /\ addrOf[c] = a /\ task[c] # "none"
    /\ c \in reused \/ \A b \in Conns \ {c} :
         SameAddr(b, c) /\ task[b] # "none" => b \in gone /\ ~Contains(responses, b)

Answered == \A b \in Conns : Contains(responses, b) => task[b] # "none"

\* A task that has ended has said so, and only such a task is cancelled, unless the
\* address was used again too early.
EndTold ==
  \A c \in Conns : task[c] = "ended" =>
    stopping \/ c \in reused \/ c \in gone \/ Contains(Way, Report(c, Disconnect))

CancelledEnded == \A c \in cancelled : stopping \/ c \in reused \/ task[c] = "ended"

\* A client the handler knows has a connection that it was not told has ended.
KnownHasConn ==
  \A a \in known : \E c \in Conns : addrOf[c] = a /\ c \notin gone /\ task[c] # "none"

OwnAnswers ==
  \A c \in Conns : Undisturbed(c) => \A i \in 1 .. Len(answers[c]) : answers[c][i] = c

TableInv ==
  /\ LastAccepted /\ Answered /\ EndTold /\ CancelledEnded /\ KnownHasConn
  /\ OwnAnswers /\ AnswersGoHome /\ NobodyCutOff
-------------------------------------------------------------------------------
(* Types.                                                                     *)

\* The clients and their sockets.
LEMMA ClientType ==
  ASSUME TypeOK, NEW c \in Conns, ClientStep(c)
  PROVE  TypeOK'
<1> USE DEF TypeOK, connVars, managerVars, handlerVars, otherVars
<1>1. CASE Connect(c)
  BY <1>1 DEF Connect
<1>2. CASE Say(c)
  <2>1. said[c] + 1 \in Nat /\ Append(up[c], said[c] + 1) \in Seq(Nat)
    BY AppendProperties
  <2>2. said' \in [Conns -> Nat] /\ up' \in [Conns -> Seq(Nat)]
    BY <1>2, <2>1 DEF Say
  <2> QED BY <1>2, <2>2 DEF Say
<1>3. CASE SayDamaged(c)
  <2>1. Append(up[c], Damaged) \in Seq(Nat)
    BY AppendProperties DEF Damaged
  <2>2. up' \in [Conns -> Seq(Nat)]
    BY <1>3, <2>1 DEF SayDamaged
  <2> QED BY <1>3, <2>2 DEF SayDamaged
<1>4. CASE ReadAnswer(c)
  <2>1. Tail(down[c]) \in Seq(Conns)
    BY <1>4, HeadTailProperties DEF ReadAnswer
  <2>2. down' \in [Conns -> Seq(Conns)]
    BY <1>4, <2>1 DEF ReadAnswer
  <2> QED BY <1>4, <2>2 DEF ReadAnswer
<1>5. CASE Close(c)
  BY <1>5 DEF Close
<1> QED BY <1>1, <1>2, <1>3, <1>4, <1>5 DEF ClientStep

\* A report of a connection, and one more of them in a queue.
LEMMA ReportType ==
  ASSUME NEW q \in Seq(Reports), NEW c \in Conns, NEW what \in Nat
  PROVE  Report(c, what) \in Reports /\ Append(q, Report(c, what)) \in Seq(Reports)
<1>1. Report(c, what) \in Reports
  BY DEF Report, Reports
<1> QED BY <1>1, AppendProperties

\* The tasks of the connections.
LEMMA ConnType ==
  ASSUME TypeOK, NEW c \in Conns, ConnStep(c)
  PROVE  TypeOK'
<1> USE DEF TypeOK, socketVars, managerVars, handlerVars, otherVars
<1>1. CASE WriteAnswer(c)
  <2>1. Head(answers[c]) \in Conns /\ Tail(answers[c]) \in Seq(Conns)
    BY <1>1, HeadTailProperties DEF WriteAnswer
  <2>2. Append(down[c], Head(answers[c])) \in Seq(Conns)
    BY <2>1, AppendProperties
  <2>3. answers' \in [Conns -> Seq(Conns)] /\ down' \in [Conns -> Seq(Conns)]
    BY <1>1, <2>1, <2>2, ZenonT(120) DEF WriteAnswer
  <2> QED BY <1>1, <2>3 DEF WriteAnswer
<1>2. CASE WaitForRoom(c)
  BY <1>2 DEF WaitForRoom
<1>3. CASE ReadMessage(c)
  <2>1. Head(up[c]) \in Nat /\ Tail(up[c]) \in Seq(Nat)
    BY <1>3, HeadTailProperties DEF ReadMessage
  <2>2. up' \in [Conns -> Seq(Nat)] /\ events' \in Seq(Reports)
    BY <1>3, <2>1, ReportType DEF ReadMessage
  <2> QED BY <1>3, <2>2 DEF ReadMessage, connVars
<1>4. CASE ReadDamage(c)
  <2>1. <<c>> \o answers[c] \in Seq(Conns)
    BY ConcatProperties
  <2>2. answers' \in [Conns -> Seq(Conns)] /\ up' \in [Conns -> Seq(Nat)]
    BY <1>4, <2>1 DEF ReadDamage
  <2> QED BY <1>4, <2>2 DEF ReadDamage
<1>5. CASE ReadEnd(c)
  <2>1. events' \in Seq(Reports)
    BY <1>5, ReportType DEF ReadEnd, Disconnect
  <2> QED BY <1>5, <2>1 DEF ReadEnd, EndTask
<1>6. CASE SeeCancelled(c)
  BY <1>6 DEF SeeCancelled, EndTask
<1> QED BY <1>1, <1>2, <1>3, <1>4, <1>5, <1>6 DEF ConnStep

\* The head of the manager's or the handler's queue is a report.
LEMMA HeadReport ==
  ASSUME NEW q \in Seq(Reports), q # <<>>
  PROVE  Head(q) \in Reports /\ Head(q).conn \in Conns /\ Head(q).what \in Nat
         /\ Tail(q) \in Seq(Reports) /\ Head(q) = Report(Head(q).conn, Head(q).what)
<1>1. Head(q) \in Reports /\ Tail(q) \in Seq(Reports)
  BY HeadTailProperties
<1> QED BY <1>1 DEF Reports, Report

\* Connections have addresses.
LEMMA AddrType == ASSUME TypeOK PROVE addrOf \in [Conns -> Addrs]
  BY ClientManAssumption DEF TypeOK

\* While a disconnect waits, it has a connection and waits for one.
LEMMA RemovingType ==
  ASSUME TypeOK, removing # None
  PROVE  removing.conn \in Conns /\ removing.victim \in Conns
  BY DEF TypeOK

\* The manager.
LEMMA ManagerType ==
  ASSUME TypeOK, ManagerStep
  PROVE  TypeOK'
<1> USE DEF TypeOK, socketVars, connVars, handlerVars, otherVars
<1>1. ASSUME NEW c \in Conns, Accept(c)
      PROVE  TypeOK'
  <2>1. clients' \in [Addrs -> Conns \cup {None}] /\ reused' \in SUBSET Conns
    BY <1>1, AddrType DEF Accept
  <2> QED BY <1>1, <2>1 DEF Accept
<1>2. CASE ForwardMessage
  <2>1. Tail(events) \in Seq(Reports) /\ Append(requests, Head(events)) \in Seq(Reports)
    BY <1>2, HeadReport, AppendProperties DEF ForwardMessage
  <2> QED BY <1>2, <2>1 DEF ForwardMessage
<1>3. CASE HandleDisconnect
  <2> DEFINE c == Head(events).conn
             victim == clients[addrOf[c]]
  <2>1. c \in Conns /\ Tail(events) \in Seq(Reports) /\ addrOf[c] \in Addrs
        /\ Append(requests, Head(events)) \in Seq(Reports)
    BY <1>3, HeadReport, AddrType, AppendProperties DEF HandleDisconnect
  <2>2. victim \in Conns \cup {None}
    BY <2>1
  <2>3. CASE victim = None
    BY <1>3, <2>1, <2>3 DEF HandleDisconnect
  <2>4. CASE victim # None
    <3>1. clients' = [clients EXCEPT ![addrOf[c]] = None] /\ cancelled' = cancelled \cup {victim}
          /\ removing' = [conn |-> c, victim |-> victim]
      BY <1>3, <2>4, Zenon DEF HandleDisconnect
    <3>2. clients' \in [Addrs -> Conns \cup {None}]
      BY <2>1, <3>1
    <3>3. cancelled' \in SUBSET Conns /\ victim \in Conns
      BY <2>2, <2>4, <3>1
    <3> HIDE DEF c, victim
    <3>4. removing' \in [conn : Conns, victim : Conns]
      BY <2>1, <3>1, <3>3
    <3> QED BY <1>3, <2>1, <2>4, <3>2, <3>3, <3>4 DEF HandleDisconnect, c, victim
  <2> QED BY <2>3, <2>4
<1>4. CASE FinishDisconnect
  <2>1. requests' \in Seq(Reports)
    BY <1>4, RemovingType, ReportType DEF FinishDisconnect, Disconnect
  <2> QED BY <1>4, <2>1 DEF FinishDisconnect
<1>5. CASE RouteResponse
  <2> DEFINE c == clients[addrOf[Head(responses)]]
  <2>1. Head(responses) \in Conns /\ Tail(responses) \in Seq(Conns)
    BY <1>5, HeadTailProperties DEF RouteResponse
  <2>2. ASSUME c # None
        PROVE  c \in Conns /\ Append(answers[c], Head(responses)) \in Seq(Conns)
    <3>1. c \in Conns
      BY <2>1, <2>2, AddrType
    <3>2. answers[c] \in Seq(Conns)
      BY <3>1
    <3> QED BY ONLY <2>1, <3>1, <3>2, AppendProperties
  <2>3. answers' \in [Conns -> Seq(Conns)]
    BY <1>5, <2>1, <2>2 DEF RouteResponse
  <2> QED BY <1>5, <2>1, <2>3 DEF RouteResponse, managerVars
<1>6. CASE Stop
  BY <1>6 DEF Stop
<1>7. CASE FinishStop
  BY <1>7 DEF FinishStop
<1> QED BY <1>1, <1>2, <1>3, <1>4, <1>5, <1>6, <1>7 DEF ManagerStep

\* The handler.
LEMMA HandlerType ==
  ASSUME TypeOK, TakeRequest \/ LeaveLoop
  PROVE  TypeOK'
<1> USE DEF TypeOK, socketVars, connVars, otherVars
<1>1. CASE TakeRequest
  <2> DEFINE c == Head(requests).conn
             what == Head(requests).what
  <2>1. c \in Conns /\ what \in Nat /\ Tail(requests) \in Seq(Reports) /\ addrOf[c] \in Addrs
    BY <1>1, HeadReport, AddrType DEF TakeRequest
  <2>2. CASE what = Disconnect
    BY <1>1, <2>1, <2>2 DEF TakeRequest, managerVars
  <2>3. CASE what # Disconnect
    <3>1. Append(heard[c], what) \in Seq(Nat) /\ Append(responses, c) \in Seq(Conns)
      BY <2>1, AppendProperties
    <3>2. heard' \in [Conns -> Seq(Nat)] /\ responses' \in Seq(Conns)
      BY <1>1, <2>1, <2>3, <3>1 DEF TakeRequest
    <3> QED BY <1>1, <2>1, <2>3, <3>2, ZenonT(120) DEF TakeRequest, managerVars
  <2> QED BY <2>2, <2>3
<1>2. CASE LeaveLoop
  BY <1>2 DEF LeaveLoop, handlerVars
<1> QED BY <1>1, <1>2

\* ClientMan, its tasks and channels keep their types.
THEOREM TypeCorrect == Spec => []TypeOK
<1>1. Init => TypeOK
  <2> SUFFICES ASSUME Init PROVE TypeOK
    OBVIOUS
  <2>1. <<>> \in Seq(Nat) /\ <<>> \in Seq(Conns) /\ <<>> \in Seq(Reports) /\ 0 \in Nat
    BY EmptySeq
  <2>2. up \in [Conns -> Seq(Nat)] /\ down \in [Conns -> Seq(Conns)] /\ said \in [Conns -> Nat]
        /\ answers \in [Conns -> Seq(Conns)] /\ heard \in [Conns -> Seq(Nat)]
        /\ events \in Seq(Reports) /\ requests \in Seq(Reports) /\ responses \in Seq(Conns)
    BY <2>1, Zenon DEF Init
  <2> QED BY <2>2, Zenon DEF Init, TypeOK
<1>2. TypeOK /\ [Next]_vars => TypeOK'
  <2> SUFFICES ASSUME TypeOK, [Next]_vars
               PROVE  TypeOK'
    OBVIOUS
  <2>1. CASE UNCHANGED vars
    BY <2>1 DEF TypeOK, vars, socketVars, connVars, managerVars, handlerVars, otherVars
  <2> QED
    BY <2>1, ClientType, ConnType, ManagerType, HandlerType DEF Next
<1> QED BY <1>1, <1>2, PTL DEF Spec
-------------------------------------------------------------------------------
(* The way to the handler.                                                    *)

\* Appending behind a concatenation.
LEMMA AppendBehind ==
  ASSUME NEW S, NEW s \in Seq(S), NEW t \in Seq(S), NEW e \in S
  PROVE  s \o Append(t, e) = Append(s \o t, e)
<1>1. <<e>> \in Seq(S) /\ s \o t \in Seq(S)
  BY ConcatProperties
<1>2. Append(t, e) = t \o <<e>> /\ Append(s \o t, e) = (s \o t) \o <<e>>
  BY <1>1, AppendIsConcat
<1> QED BY <1>1, <1>2, ConcatAssociative

\* Taking the head of a concatenation.
LEMMA TailBefore ==
  ASSUME NEW S, NEW s \in Seq(S), NEW t \in Seq(S), s # <<>>
  PROVE  s \o t # <<>> /\ Head(s \o t) = Head(s) /\ Tail(s \o t) = Tail(s) \o t
<1>1. Len(s) \in Nat \ {0} /\ Len(t) \in Nat /\ s \o t \in Seq(S)
      /\ Len(s \o t) = Len(s) + Len(t)
  BY EmptySeq, LenProperties, ConcatProperties
<1>2. s \o t # <<>>
  BY <1>1, EmptySeq
<1>3. Head(s \o t) = Head(s)
  BY <1>1, <1>2, ConcatProperties
<1>4. Tail(s) \in Seq(S) /\ Len(Tail(s)) = Len(s) - 1
      /\ \A i \in 1 .. Len(s) - 1 : Tail(s)[i] = s[i + 1]
  BY HeadTailProperties
<1>5. Tail(s \o t) \in Seq(S) /\ Len(Tail(s \o t)) = Len(s) + Len(t) - 1
      /\ \A i \in 1 .. Len(s) + Len(t) - 1 : Tail(s \o t)[i] = (s \o t)[i + 1]
  BY <1>1, <1>2, HeadTailProperties
<1>6. Tail(s) \o t \in Seq(S) /\ Len(Tail(s) \o t) = Len(s) + Len(t) - 1
      /\ \A i \in 1 .. Len(s) + Len(t) - 1 :
           (Tail(s) \o t)[i] = IF i <= Len(s) - 1 THEN Tail(s)[i] ELSE t[i - (Len(s) - 1)]
  BY <1>1, <1>4, ConcatProperties
<1>7. ASSUME NEW i \in 1 .. Len(s) + Len(t) - 1
      PROVE  Tail(s \o t)[i] = (Tail(s) \o t)[i]
  <2>1. i + 1 \in 1 .. Len(s) + Len(t)
    BY <1>1
  <2>2. (s \o t)[i + 1] = IF i + 1 <= Len(s) THEN s[i + 1] ELSE t[i + 1 - Len(s)]
    BY <2>1, ConcatProperties
  <2> QED BY <1>1, <1>4, <1>5, <1>6, <2>2
<1> QED BY <1>2, <1>3, <1>5, <1>6, <1>7, SeqEqual

\* Moving the head of one queue to the tail of the one before it.
LEMMA HandOver ==
  ASSUME NEW S, NEW s \in Seq(S), NEW t \in Seq(S), t # <<>>
  PROVE  Append(s, Head(t)) \o Tail(t) = s \o t /\ s \o (<<Head(t)>> \o Tail(t)) = s \o t
<1>1. Head(t) \in S /\ Tail(t) \in Seq(S) /\ <<Head(t)>> \in Seq(S)
  BY HeadTailProperties
<1>2. t = <<Head(t)>> \o Tail(t)
  BY <1>1, SeqEqual, HeadTailProperties, ConcatProperties
<1>3. Append(s, Head(t)) = s \o <<Head(t)>>
  BY <1>1, AppendIsConcat
<1>4. (s \o <<Head(t)>>) \o Tail(t) = s \o (<<Head(t)>> \o Tail(t))
  BY <1>1, ConcatAssociative
<1> QED BY <1>2, <1>3, <1>4

\* What is on its way are reports of connections.
LEMMA WayType ==
  ASSUME TypeOK
  PROVE  /\ Held \in Seq(Reports) /\ Held \o events \in Seq(Reports) /\ Way \in Seq(Reports)
         /\ Len(Way) \in Nat
         /\ \A i \in 1 .. Len(Way) : Way[i] \in Reports /\ Way[i].conn \in Conns
                                     /\ Way[i].what \in Nat
<1>1. Held \in Seq(Reports)
  <2>1. CASE removing = None
    BY <2>1 DEF Held
  <2>2. CASE removing # None
    <3>1. Report(removing.conn, Disconnect) \in Reports
      BY <2>2, RemovingType DEF Report, Reports, Disconnect
    <3> QED BY <2>2, <3>1 DEF Held
  <2> QED BY <2>1, <2>2
<1>2. Held \o events \in Seq(Reports) /\ Way \in Seq(Reports)
  BY <1>1, ConcatProperties DEF TypeOK, Way
<1>3. ASSUME NEW i \in 1 .. Len(Way)
      PROVE  Way[i] \in Reports
  BY <1>2, ElementOfSeq
<1> QED BY <1>1, <1>2, <1>3, LenProperties DEF Reports

\* A report sent to the manager is added to the end.
LEMMA ReportAdded ==
  ASSUME TypeOK, NEW c \in Conns, NEW what \in Nat, events' = Append(events, Report(c, what)),
         UNCHANGED <<requests, removing>>
  PROVE  Way' = Append(Way, Report(c, what))
<1>1. Report(c, what) \in Reports /\ events \in Seq(Reports) /\ requests \in Seq(Reports)
  BY DEF Report, Reports, TypeOK
<1>2. Held \o Append(events, Report(c, what)) = Append(Held \o events, Report(c, what))
  BY <1>1, WayType, AppendBehind
<1>3. requests \o Append(Held \o events, Report(c, what)) = Append(Way, Report(c, what))
  BY ONLY <1>1, WayType, AppendBehind, SMTT(30) DEF Way
<1>4. Held' = Held
  BY DEF Held
<1> QED BY <1>2, <1>3, <1>4 DEF Way

\* So is the message a task reads.
LEMMA MessageAdded ==
  ASSUME TypeOK, NEW c \in Conns, ReadMessage(c)
  PROVE  Head(up[c]) \in Nat /\ Way' = Append(Way, Report(c, Head(up[c])))
<1>1. Head(up[c]) \in Nat
  BY HeadTailProperties DEF ReadMessage, TypeOK
<1> QED BY <1>1, ReportAdded DEF ReadMessage, handlerVars

\* A sequence is not what is behind its first element.
LEMMA TailDiffers ==
  ASSUME NEW S, NEW s \in Seq(S), s # <<>>
  PROVE  Tail(s) # s
<1>1. Len(s) \in Nat /\ Len(Tail(s)) = Len(s) - 1
  BY HeadTailProperties, LenProperties, Zenon
<1> QED BY ONLY <1>1, SMTT(30)

\* What the handler takes is the first.
LEMMA RequestTaken ==
  ASSUME TypeOK, TakeRequest
  PROVE  requests # <<>> /\ Way # <<>> /\ Head(Way) = Head(requests) /\ Way' = Tail(Way)
<1>1. requests # <<>> /\ requests' = Tail(requests) /\ Held' = Held /\ events' = events
  BY DEF TakeRequest, managerVars, Held
<1>2. Way' = Tail(requests) \o (Held \o events)
  BY <1>1 DEF Way
<1>3. requests \in Seq(Reports) /\ Held \o events \in Seq(Reports)
  BY WayType DEF TypeOK
<1> QED BY <1>1, <1>2, <1>3, TailBefore DEF Way

\* The manager moves reports along and changes none; the tasks of the connections add
\* to the end, and the handler takes from the beginning.
LEMMA WayStep ==
  ASSUME TypeOK, [Next]_vars
  PROVE  \/ Way' = Way /\ UNCHANGED <<heard, gone>> /\ ~TakeRequest
         \/ \E c \in Conns : ReadMessage(c) /\ Way' = Append(Way, Report(c, Head(up[c])))
         \/ \E c \in Conns : ReadEnd(c) /\ Way' = Append(Way, Report(c, Disconnect))
         \/ TakeRequest /\ requests # <<>> /\ Way # <<>> /\ Head(Way) = Head(requests) /\ Way' = Tail(Way)
<1>1. events \in Seq(Reports) /\ requests \in Seq(Reports) /\ Held \in Seq(Reports)
      /\ Held \o events \in Seq(Reports)
  BY WayType DEF TypeOK
<1>2. ASSUME UNCHANGED <<requests, removing, events>>
      PROVE  Way' = Way
  BY <1>2 DEF Way, Held
<1>4. CASE \E c \in Conns : ClientStep(c)
  BY <1>2, <1>4
     DEF ClientStep, Connect, Say, SayDamaged, ReadAnswer, Close, TakeRequest, socketVars,
         managerVars, handlerVars
<1>5. ASSUME NEW c \in Conns, ConnStep(c), ~ReadMessage(c), ~ReadEnd(c)
      PROVE  Way' = Way /\ UNCHANGED <<heard, gone>> /\ ~TakeRequest
  BY <1>2, <1>5
     DEF ConnStep, WriteAnswer, WaitForRoom, ReadDamage, SeeCancelled, EndTask, TakeRequest,
         managerVars, handlerVars
<1>6. ASSUME NEW c \in Conns, ReadMessage(c)
      PROVE  Way' = Append(Way, Report(c, Head(up[c])))
  BY <1>6, MessageAdded
<1>7. ASSUME NEW c \in Conns, ReadEnd(c)
      PROVE  Way' = Append(Way, Report(c, Disconnect))
  BY <1>7, ReportAdded DEF ReadEnd, handlerVars, Disconnect
<1>8. CASE ManagerStep
  <2>1. UNCHANGED <<heard, gone>> /\ ~TakeRequest
    <3>1. UNCHANGED <<heard, gone>>
      BY <1>8, Zenon
         DEF ManagerStep, Accept, ForwardMessage, HandleDisconnect, FinishDisconnect,
             RouteResponse, Stop, FinishStop, handlerVars
    <3>2. TakeRequest =>
            requests # <<>> /\ requests' = Tail(requests) /\ UNCHANGED <<events, removing>>
      BY Zenon DEF TakeRequest, managerVars
    <3>3. \/ UNCHANGED requests
          \/ events # <<>> /\ events' = Tail(events)
          \/ removing # None /\ removing' = None
      BY <1>8, Zenon
         DEF ManagerStep, Accept, ForwardMessage, HandleDisconnect, FinishDisconnect,
             RouteResponse, Stop, FinishStop, handlerVars
    <3>4. (requests # <<>> => Tail(requests) # requests) /\ (events # <<>> => Tail(events) # events)
      BY <1>1, TailDiffers, Zenon
    <3> QED BY ONLY <3>1, <3>2, <3>3, <3>4, Zenon
  <2>2. ASSUME \/ \E c \in Conns : Accept(c)
               \/ RouteResponse \/ Stop \/ FinishStop
        PROVE  Way' = Way
    BY <1>2, <2>2 DEF Accept, RouteResponse, Stop, FinishStop, managerVars, handlerVars
  <2>3. CASE ForwardMessage
    <3>1. Held = <<>> /\ Held' = <<>> /\ events # <<>>
      BY <2>3 DEF ForwardMessage, Selecting, Held
    <3>2. Way = requests \o events /\ Way' = Append(requests, Head(events)) \o Tail(events)
      <4>1. Tail(events) \in Seq(Reports) /\ events' = Tail(events)
        BY <1>1, <2>3, <3>1, HeadTailProperties DEF ForwardMessage
      <4>2. <<>> \o events = events /\ <<>> \o Tail(events) = Tail(events)
        BY <1>1, <4>1, ConcatEmptySeq
      <4>3. requests' = Append(requests, Head(events))
        BY <2>3 DEF ForwardMessage
      <4> QED BY <3>1, <4>1, <4>2, <4>3, Zenon DEF Way
    <3> QED BY <1>1, <2>1, <3>1, <3>2, HandOver
  <2>4. CASE HandleDisconnect
    <3> DEFINE c == Head(events).conn
               victim == clients[addrOf[c]]
    <3>1. Held = <<>> /\ events # <<>> /\ events' = Tail(events)
      BY <2>4 DEF HandleDisconnect, Selecting, Held
    <3>2. Head(events) = Report(c, Disconnect) /\ Tail(events) \in Seq(Reports)
      BY <1>1, <2>4, <3>1, HeadReport DEF HandleDisconnect
    <3>3. Way = requests \o events
      <4>1. <<>> \o events = events
        BY <1>1, ConcatEmptySeq
      <4> QED BY <3>1, <4>1, Zenon DEF Way
    <3>4. CASE victim = None
      <4>1. requests' = Append(requests, Head(events)) /\ removing' = None
        BY <2>4, <3>4 DEF HandleDisconnect, Selecting
      <4>2. <<>> \o Tail(events) = Tail(events)
        BY <3>2, ConcatEmptySeq
      <4>3. Way' = Append(requests, Head(events)) \o Tail(events)
        BY <3>1, <4>1, <4>2, Zenon DEF Way, Held
      <4> QED BY <1>1, <2>1, <3>1, <3>3, <4>3, HandOver
    <3>5. CASE victim # None
      <4>1. removing' = [conn |-> c, victim |-> victim] /\ requests' = requests
        BY <2>4, <3>5, Zenon DEF HandleDisconnect
      <4>2. c \in Conns /\ victim \in Conns
        <5>1. c \in Conns /\ clients \in [Addrs -> Conns \cup {None}]
          BY <1>1, <3>1, HeadReport DEF TypeOK
        <5> QED BY <3>5, <5>1, AddrType
      <4>3. removing' # None /\ removing'.conn = c
        <5> HIDE DEF c, victim
        <5>1. [conn |-> c, victim |-> victim] \in [conn : Conns, victim : Conns]
          BY <4>2
        <5> QED BY <4>1, <5>1, ClientManAssumption
      <4>4. Held' = <<Head(events)>>
        BY <3>2, <4>3 DEF Held
      <4>5. Way' = requests \o (<<Head(events)>> \o Tail(events))
        BY <3>1, <4>1, <4>4 DEF Way
      <4> QED BY <1>1, <2>1, <3>1, <3>3, <4>5, HandOver
    <3> QED BY <3>4, <3>5
  <2>5. CASE FinishDisconnect
    <3> DEFINE r == Report(removing.conn, Disconnect)
    <3>1. removing # None /\ removing' = None /\ requests' = Append(requests, r)
          /\ events' = events
      BY <2>5 DEF FinishDisconnect
    <3>2. r \in Reports /\ Held = <<r>>
      BY <3>1, RemovingType DEF Report, Reports, Disconnect, Held
    <3>3. Way' = Append(requests, r) \o events
      <4>1. <<>> \o events = events
        BY <1>1, ConcatEmptySeq
      <4> QED BY <3>1, <4>1, Zenon DEF Way, Held
    <3> HIDE DEF r
    <3>4. Append(requests, r) = requests \o <<r>> /\ <<r>> \in Seq(Reports)
      BY <1>1, <3>2, AppendIsConcat
    <3>5. (requests \o <<r>>) \o events = requests \o (<<r>> \o events)
      BY <1>1, <3>4, ConcatAssociative
    <3> QED BY <2>1, <3>2, <3>3, <3>4, <3>5 DEF Way
  <2> QED BY <1>8, <2>1, <2>2, <2>3, <2>4, <2>5 DEF ManagerStep
<1>9. CASE TakeRequest
  BY <1>9, RequestTaken
<1>10. CASE LeaveLoop \/ UNCHANGED vars
  <2>1. UNCHANGED <<requests, removing, events, heard, gone>>
    BY <1>10 DEF LeaveLoop, vars, handlerVars, managerVars
  <2>2. ~TakeRequest
    BY <1>10 DEF LeaveLoop, TakeRequest, vars, handlerVars, managerVars
  <2> QED BY <1>2, <2>1, <2>2
<1> QED BY <1>4, <1>5, <1>6, <1>7, <1>8, <1>9, <1>10 DEF Next
-------------------------------------------------------------------------------
(* The order of the messages.                                                 *)

\* What only grows: messages said, failed decoders, connections gone, used again or
\* with a task, tasks ended, the end of the daemon.
LEMMA Monotone ==
  ASSUME TypeOK, [Next]_vars
  PROVE  /\ failed \subseteq failed' /\ gone \subseteq gone' /\ reused \subseteq reused'
         /\ stopping => stopping'
         /\ addrOf' = addrOf
         /\ \A c \in Conns :
              /\ said'[c] \in Nat /\ said[c] \in Nat /\ said[c] <= said'[c]
              /\ task[c] # "none" => task'[c] # "none"
              /\ task[c] = "ended" => task'[c] = "ended"
              /\ socket[c] = "closed" => socket'[c] = "closed"
<1> USE DEF TypeOK, socketVars, connVars, managerVars, handlerVars, otherVars
<1>1. ASSUME NEW c \in Conns, ClientStep(c)
      PROVE  /\ UNCHANGED <<failed, gone, reused, stopping, addrOf, task>>
             /\ \A d \in Conns : /\ said'[d] \in Nat /\ said[d] <= said'[d]
                                 /\ socket[d] = "closed" => socket'[d] = "closed"
  <2>1. CASE Say(c)
    BY <2>1, SMTT(60) DEF Say
  <2>2. CASE Connect(c)
    BY <2>2 DEF Connect
  <2>3. CASE SayDamaged(c) \/ ReadAnswer(c)
    <3>1. UNCHANGED <<failed, gone, reused, stopping, addrOf, task, said, socket>>
      BY <2>3, Zenon DEF SayDamaged, ReadAnswer
    <3> QED BY <3>1
  <2>4. CASE Close(c)
    BY <2>4 DEF Close
  <2> QED BY <1>1, <2>1, <2>2, <2>3, <2>4 DEF ClientStep
<1>2. ASSUME NEW c \in Conns, ConnStep(c)
      PROVE  /\ UNCHANGED <<gone, reused, stopping, addrOf, said, socket>>
             /\ failed \subseteq failed'
             /\ task[c] # "none" /\ task[c] # "ended"
             /\ \E to \in {"running", "sending", "ended"} : task' = [task EXCEPT ![c] = to]
  <2>1. CASE WriteAnswer(c)
    BY <1>2, <2>1, Zenon DEF WriteAnswer
  <2>2. CASE WaitForRoom(c)
    BY <2>2 DEF WaitForRoom
  <2>3. CASE ReadMessage(c)
    BY <2>3 DEF ReadMessage
  <2>4. CASE ReadDamage(c)
    BY <2>4 DEF ReadDamage
  <2>5. CASE ReadEnd(c) \/ SeeCancelled(c)
    BY <2>5 DEF ReadEnd, SeeCancelled, EndTask
  <2> QED BY <1>2, <2>1, <2>2, <2>3, <2>4, <2>5 DEF ConnStep
<1>3. CASE ManagerStep
  <2>1. UNCHANGED <<failed, gone, stopping, addrOf, said, socket>>
    BY <1>3
       DEF ManagerStep, Accept, ForwardMessage, HandleDisconnect, FinishDisconnect,
           RouteResponse, Stop, FinishStop
  <2>2. \/ UNCHANGED <<task, reused>>
        \/ \E c \in Conns : /\ task[c] = "none" /\ task' = [task EXCEPT ![c] = "running"]
                            /\ reused \subseteq reused'
    BY <1>3
       DEF ManagerStep, Accept, ForwardMessage, HandleDisconnect, FinishDisconnect,
           RouteResponse, Stop, FinishStop
  <2> QED BY <2>1, <2>2
<1>4. CASE TakeRequest
  BY <1>4 DEF TakeRequest
<1>5. CASE LeaveLoop \/ UNCHANGED vars
  BY <1>5 DEF LeaveLoop, vars
<1>6. CASE \E c \in Conns : ClientStep(c)
  BY <1>1, <1>6
<1>7. CASE \E c \in Conns : ConnStep(c)
  <2>1. PICK c \in Conns : ConnStep(c)
    BY <1>7
  <2>2. PICK to \in {"running", "sending", "ended"} : task' = [task EXCEPT ![c] = to]
    BY <1>2, <2>1
  <2>3. ASSUME NEW d \in Conns
        PROVE  /\ task[d] # "none" => task'[d] # "none"
               /\ task[d] = "ended" => task'[d] = "ended"
    BY <1>2, <2>1, <2>2
  <2>4. /\ UNCHANGED <<gone, reused, stopping, addrOf, said, socket>>
        /\ failed \subseteq failed'
    BY <1>2, <2>1
  <2> QED BY <2>3, <2>4
<1> HIDE DEF TypeOK
<1> QED BY <1>3, <1>4, <1>5, <1>6, <1>7, Zenon DEF Next

\* What a step does to the messages of a connection whose decoder works.
LEMMA MessageStep ==
  ASSUME TypeOK, [Next]_vars, NEW c \in Conns, c \notin failed'
  PROVE  \/ /\ ReadMessage(c) /\ Way' = Append(Way, Report(c, Head(up[c])))
            /\ said'[c] = said[c] /\ heard'[c] = heard[c]
         \/ /\ up'[c] = Append(up[c], said[c] + 1) /\ said'[c] = said[c] + 1
            /\ Way' = Way /\ heard'[c] = heard[c]
         \/ /\ up'[c] = Append(up[c], Damaged) /\ said'[c] = said[c]
            /\ Way' = Way /\ heard'[c] = heard[c]
         \/ /\ up'[c] = up[c] /\ said'[c] = said[c]
            /\ \/ Way' = Way /\ heard'[c] = heard[c]
               \/ /\ \E d \in Conns, w \in Nat : (d # c \/ w = Disconnect) /\ Way' = Append(Way, Report(d, w))
                  /\ heard'[c] = heard[c]
               \/ TakeRequest
<1> USE DEF TypeOK, socketVars, connVars, managerVars, handlerVars, otherVars
<1>1. ASSUME NEW d \in Conns, ClientStep(d)
      PROVE  /\ UNCHANGED <<requests, removing, events, heard>> /\ Way' = Way
             /\ \/ up'[c] = up[c] /\ said'[c] = said[c]
                \/ up'[c] = Append(up[c], said[c] + 1) /\ said'[c] = said[c] + 1
                \/ up'[c] = Append(up[c], Damaged) /\ said'[c] = said[c]
  <2>1. UNCHANGED <<requests, removing, events, heard>>
    BY <1>1 DEF ClientStep, Connect, Say, SayDamaged, ReadAnswer, Close
  <2>2. Way' = Way
    BY <2>1 DEF Way, Held
  <2>3. CASE Say(d)
    BY <2>1, <2>2, <2>3 DEF Say
  <2>4. CASE SayDamaged(d)
    BY <2>1, <2>2, <2>4 DEF SayDamaged
  <2>5. CASE Connect(d) \/ ReadAnswer(d) \/ Close(d)
    BY <2>1, <2>2, <2>5 DEF Connect, ReadAnswer, Close
  <2> QED BY <1>1, <2>3, <2>4, <2>5 DEF ClientStep
<1>2. CASE UNCHANGED <<up, said>>
  <2>1. CASE Way' = Way /\ UNCHANGED <<heard, gone>>
    BY <1>2, <2>1
  <2>2. ASSUME NEW d \in Conns, ReadMessage(d)
        PROVE  FALSE
    <3>1. up'[d] = Tail(up[d]) /\ up'[d] = up[d] /\ up[d] # <<>> /\ up[d] \in Seq(Nat)
      BY <1>2, <2>2, Zenon DEF ReadMessage
    <3> QED BY ONLY <3>1, TailDiffers, Zenon
  <2>3. ASSUME NEW d \in Conns, ReadEnd(d), Way' = Append(Way, Report(d, Disconnect))
        PROVE  heard'[c] = heard[c] /\ Disconnect \in Nat
    BY <2>3 DEF ReadEnd, Disconnect
  <2> QED BY <1>2, <2>1, <2>2, <2>3, WayStep
<1>3. ASSUME NEW d \in Conns, ReadMessage(d)
      PROVE  /\ Way' = Append(Way, Report(d, Head(up[d]))) /\ Head(up[d]) \in Nat
             /\ UNCHANGED <<said, heard>> /\ (d # c => up'[c] = up[c])
  BY <1>3, MessageAdded DEF ReadMessage
<1>4. ASSUME NEW d \in Conns, ReadDamage(d)
      PROVE  UNCHANGED <<said, heard>> /\ Way' = Way /\ up'[c] = up[c]
  <2>1. d # c
    BY <1>4 DEF ReadDamage
  <2> QED BY <1>4, <2>1 DEF ReadDamage, Way, Held
<1>5. ASSUME NEW d \in Conns, ConnStep(d), ~ReadMessage(d), ~ReadDamage(d)
      PROVE  UNCHANGED <<up, said>>
  BY <1>5 DEF ConnStep, WriteAnswer, WaitForRoom, ReadEnd, SeeCancelled
<1>6. ASSUME ManagerStep \/ TakeRequest \/ LeaveLoop \/ UNCHANGED vars
      PROVE  UNCHANGED <<up, said>>
  BY <1>6
     DEF ManagerStep, Accept, ForwardMessage, HandleDisconnect, FinishDisconnect,
         RouteResponse, Stop, FinishStop, TakeRequest, LeaveLoop, vars
<1>7. CASE \E d \in Conns : ClientStep(d)
  BY <1>1, <1>7
<1>8. CASE \E d \in Conns : ReadMessage(d)
  <2>1. PICK d \in Conns : ReadMessage(d)
    BY <1>8
  <2>2. CASE d = c
    BY <1>3, <2>1, <2>2
  <2>3. CASE d # c
    <3> HIDE DEF TypeOK
    <3>1. d \in Conns /\ Head(up[d]) \in Nat /\ Way' = Append(Way, Report(d, Head(up[d])))
          /\ up'[c] = up[c] /\ UNCHANGED <<said, heard>>
      BY <1>3, <2>1, <2>3, Zenon
    <3> QED BY <2>3, <3>1
  <2> QED BY <2>2, <2>3
<1>9. CASE \E d \in Conns : ReadDamage(d)
  BY <1>4, <1>9
<1> HIDE DEF TypeOK
<1> QED BY <1>2, <1>5, <1>6, <1>7, <1>8, <1>9, Zenon DEF Next

\* Which reports a queue holds.
LEMMA OnReports ==
  ASSUME NEW q \in Seq(Reports), NEW c \in Conns, NEW k \in Nat
  PROVE  /\ \A i \in 1 .. Len(q) : q[i] = Report(c, k) <=> q[i].conn = c /\ q[i].what = k
         /\ Contains(q, Report(c, k)) <=> \E i \in 1 .. Len(q) : q[i].conn = c /\ q[i].what = k
<1>1. ASSUME NEW i \in 1 .. Len(q)
      PROVE  q[i] = Report(c, k) <=> q[i].conn = c /\ q[i].what = k
  <2>1. q[i] \in Reports
    BY ElementOfSeq
  <2> QED BY <2>1 DEF Reports, Report
<1> QED BY <1>1 DEF Contains

\* The way after a report is added to it.
LEMMA Added ==
  ASSUME TypeOK, NEW c \in Conns, NEW k \in Nat, Way' = Append(Way, Report(c, k))
  PROVE  /\ Len(Way') = Len(Way) + 1
         /\ \A i \in 1 .. Len(Way) : Way'[i] = Way[i]
         /\ Way'[Len(Way) + 1] = Report(c, k)
         /\ Way'[Len(Way) + 1].conn = c /\ Way'[Len(Way) + 1].what = k
         /\ \A b \in Conns, w \in Nat :
              Contains(Way', Report(b, w)) <=> Contains(Way, Report(b, w)) \/ (b = c /\ w = k)
<1>1. Report(c, k) \in Reports /\ Report(c, k).conn = c /\ Report(c, k).what = k
  BY DEF Report, Reports
<1>2. /\ Way \in Seq(Reports) /\ Len(Way) \in Nat
      /\ Way' \in Seq(Reports)
      /\ Len(Way') = Len(Way) + 1
      /\ \A i \in 1 .. Len(Way) : Way'[i] = Way[i]
      /\ Way'[Len(Way) + 1] = Report(c, k)
  BY <1>1, WayType, AppendProperties
<1>3. ASSUME NEW b \in Conns, NEW w \in Nat
      PROVE  Contains(Way', Report(b, w)) <=> Contains(Way, Report(b, w)) \/ (b = c /\ w = k)
  <2>1. Contains(Way', Report(b, w))
          <=> \E i \in 1 .. Len(Way') : Way'[i].conn = b /\ Way'[i].what = w
    BY ONLY <1>2, OnReports, SMTT(30) DEF Contains
  <2>2. Contains(Way, Report(b, w))
          <=> \E i \in 1 .. Len(Way) : Way[i].conn = b /\ Way[i].what = w
    BY <1>2, OnReports
  <2> QED BY <1>1, <1>2, <2>1, <2>2
<1> QED BY <1>1, <1>2, <1>3

\* The way after its first report is taken: a message is the next one of its
\* connection.
LEMMA Taken ==
  ASSUME TypeOK, OrderInv, TakeRequest
  PROVE  LET c == Way[1].conn
             w == Way[1].what IN
         /\ c \in Conns /\ w \in Nat /\ Len(Way) \in Nat \ {0}
         /\ Len(Way') = Len(Way) - 1
         /\ \A i \in 1 .. Len(Way') : Way'[i] = Way[i + 1]
         /\ \A b \in Conns, v \in Nat :
              Contains(Way, Report(b, v)) <=> Contains(Way', Report(b, v)) \/ (b = c /\ v = w)
         /\ UNCHANGED <<said, up, task, failed>>
         /\ w = Disconnect => gone' = gone \cup {c} /\ heard' = heard
         /\ w # Disconnect =>
              /\ gone' = gone /\ w = Len(heard[c]) + 1 /\ w <= said[c]
              /\ heard' = [heard EXCEPT ![c] = Append(@, w)]
              /\ Len(heard'[c]) = w /\ \A b \in Conns \ {c} : heard'[b] = heard[b]
<1> DEFINE c == Way[1].conn
           w == Way[1].what
<1>1. /\ Way \in Seq(Reports) /\ Way # <<>> /\ Len(Way) \in Nat \ {0}
      /\ Way' = Tail(Way) /\ Way' \in Seq(Reports) /\ Way[1] = Head(requests)
      /\ Len(Way') = Len(Way) - 1
      /\ \A i \in 1 .. Len(Way') : Way'[i] = Way[i + 1]
  <2>1. Way \in Seq(Reports) /\ Way # <<>> /\ Way' = Tail(Way) /\ Head(Way) = Head(requests)
    BY WayType, RequestTaken
  <2>2. Len(Way) \in Nat \ {0} /\ Head(Way) = Way[1]
    BY <2>1, EmptySeq, LenProperties
  <2> QED BY <2>1, <2>2, HeadTailProperties
<1>2. c \in Conns /\ w \in Nat
  BY <1>1, WayType
<1>3. ASSUME NEW b \in Conns, NEW v \in Nat
      PROVE  Contains(Way, Report(b, v)) <=> Contains(Way', Report(b, v)) \/ (b = c /\ v = w)
  <2>1. Contains(Way', Report(b, v))
          <=> \E i \in 1 .. Len(Way') : Way'[i].conn = b /\ Way'[i].what = v
    BY <1>1, OnReports DEF Contains
  <2>2. Contains(Way, Report(b, v))
          <=> \E i \in 1 .. Len(Way) : Way[i].conn = b /\ Way[i].what = v
    BY <1>1, OnReports
  <2>3. ASSUME NEW i \in 1 .. Len(Way), i # 1
        PROVE  i - 1 \in 1 .. Len(Way') /\ Way'[i - 1] = Way[i]
    BY <1>1, <2>3
  <2>4. ASSUME NEW i \in 1 .. Len(Way')
        PROVE  i + 1 \in 1 .. Len(Way) /\ Way'[i] = Way[i + 1]
    BY <1>1
  <2>5. 1 \in 1 .. Len(Way)
    BY <1>1
  <2>6. Way[1].conn = c /\ Way[1].what = w
    OBVIOUS
  <2>7. ASSUME NEW i \in 1 .. Len(Way), Way[i].conn = b, Way[i].what = v
        PROVE  (\E k \in 1 .. Len(Way') : Way'[k].conn = b /\ Way'[k].what = v) \/ (b = c /\ v = w)
    <3>1. CASE i = 1
      BY <2>6, <2>7, <3>1, Zenon
    <3>2. CASE i # 1
      BY <2>3, <2>7, <3>2, Zenon
    <3> QED BY <3>1, <3>2, Zenon
  <2> HIDE DEF c, w
  <2>8. ASSUME NEW i \in 1 .. Len(Way'), Way'[i].conn = b, Way'[i].what = v
        PROVE  \E k \in 1 .. Len(Way) : Way[k].conn = b /\ Way[k].what = v
    BY <2>4, <2>8, Zenon
  <2>9. b = c /\ v = w => \E k \in 1 .. Len(Way) : Way[k].conn = b /\ Way[k].what = v
    BY <2>5, <2>6, Zenon
  <2> QED BY <2>1, <2>2, <2>7, <2>8, <2>9, Zenon
<1>4. UNCHANGED <<said, up, task, failed>>
  BY DEF TakeRequest, socketVars, connVars
<1>5. w = Disconnect => gone' = gone \cup {c} /\ heard' = heard
  BY <1>1 DEF TakeRequest
<1>6. ASSUME w # Disconnect
      PROVE  /\ gone' = gone /\ w = Len(heard[c]) + 1 /\ w <= said[c]
             /\ heard' = [heard EXCEPT ![c] = Append(@, w)]
             /\ Len(heard'[c]) = w /\ \A b \in Conns \ {c} : heard'[b] = heard[b]
  <2>1. gone' = gone /\ heard' = [heard EXCEPT ![c] = Append(@, w)]
    BY <1>1, <1>6 DEF TakeRequest
  <2>2. 1 \in 1 .. Len(Way) /\ 1 .. 1 - 1 = {}
    BY <1>1
  <2>3. w \in Len(heard[c]) + 1 .. said[c] /\ w = Len(heard[c]) + 1
    BY <1>6, <2>2 DEF OrderInv, Follows
  <2>4. said[c] \in Nat /\ heard[c] \in Seq(Nat) /\ heard \in [Conns -> Seq(Nat)]
    BY <1>2 DEF TypeOK
  <2>5. Len(Append(heard[c], w)) = w /\ w <= said[c]
    BY <1>2, <2>3, <2>4, AppendProperties, LenProperties
  <2> HIDE DEF w, c
  <2> QED BY <1>2, <2>1, <2>3, <2>4, <2>5
<1> QED BY <1>1, <1>2, <1>3, <1>4, <1>5, <1>6

\* A task adds the message k, or the end, of its connection to the way.
Adds(c, k) ==
  /\ Way' = Append(Way, Report(c, k)) /\ UNCHANGED <<heard, gone, said, failed>>
  /\ c \notin gone
  /\ \A i \in 1 .. Len(Way) : Way[i].conn = c =>
       Way[i].what # Disconnect /\ (k # Disconnect => Way[i].what < k)
  /\ IF k = Disconnect
     THEN task'[c] = "ended" /\ UNCHANGED up
     ELSE /\ ReadMessage(c) /\ k = Head(up[c]) /\ task[c] = "running"
          /\ k \in Len(heard[c]) + 1 .. said[c]
          /\ k = Len(heard[c]) + 1 \/ Contains(Way, Report(c, k - 1))

\* What a step does to the way, with what the invariant says of its reports.
LEMMA Moves ==
  ASSUME TypeOK, OrderInv, [Next]_vars
  PROVE  \/ Way' = Way /\ UNCHANGED <<heard, gone>>
         \/ \E c \in Conns, k \in Nat : Adds(c, k)
         \/ TakeRequest
<1>1. ASSUME NEW c \in Conns, task[c] = "running"
      PROVE  c \notin gone /\ \A i \in 1 .. Len(Way) : Way[i].conn = c => Way[i].what # Disconnect
  BY <1>1, WayType DEF OrderInv, EndsOnce
<1>2. ASSUME NEW c \in Conns, ReadMessage(c), Way' = Append(Way, Report(c, Head(up[c])))
      PROVE  Head(up[c]) \in Nat /\ Adds(c, Head(up[c]))
  <2>1. /\ UNCHANGED <<heard, gone, said, failed>>
        /\ task[c] = "running" /\ c \notin failed /\ up[c] # <<>> /\ Head(up[c]) # Damaged
    BY <1>2 DEF ReadMessage, connVars, handlerVars
  <2>2. up[c] \in Seq(Nat) /\ 1 \in 1 .. Len(up[c]) /\ up[c][1] = Head(up[c]) /\ 1 .. 1 - 1 = {}
    BY <2>1, EmptySeq, LenProperties DEF TypeOK
  <2>3. LET k == Head(up[c]) IN
        /\ k \in Len(heard[c]) + 1 .. said[c]
        /\ \A j \in 1 .. Len(Way) : Way[j].conn = c => Way[j].what < k
        /\ k = Len(heard[c]) + 1 \/ Contains(Way, Report(c, k - 1))
    BY <2>1, <2>2 DEF OrderInv, Unread
  <2> QED BY <1>1, <1>2, <2>1, <2>2, <2>3, MessageAdded DEF Damaged, Disconnect, Adds
<1>3. ASSUME NEW c \in Conns, ReadEnd(c), Way' = Append(Way, Report(c, Disconnect))
      PROVE  Disconnect \in Nat /\ Adds(c, Disconnect)
  <2>1. UNCHANGED <<heard, gone, said, failed, up>> /\ task[c] = "running" /\ task'[c] = "ended"
    BY <1>3 DEF ReadEnd, EndTask, TypeOK, handlerVars, socketVars
  <2> QED BY <1>1, <1>3, <2>1 DEF Adds, Disconnect
<1> QED BY <1>2, <1>3, WayStep

\* The messages on their way stay in order.
LEMMA OrderedStep ==
  ASSUME TypeOK, OrderInv, [Next]_vars
  PROVE  Ordered'
<1> USE WayType
<1>1. CASE Way' = Way /\ UNCHANGED <<heard, gone>>
  BY <1>1 DEF OrderInv, Ordered
<1>2. ASSUME NEW c \in Conns, NEW k \in Nat, Adds(c, k)
      PROVE  Ordered'
  <2>1. /\ Len(Way') = Len(Way) + 1
        /\ \A i \in 1 .. Len(Way) : Way'[i] = Way[i]
        /\ Way'[Len(Way) + 1].conn = c /\ Way'[Len(Way) + 1].what = k
    BY <1>2, Added DEF Adds
  <2>2. ASSUME NEW i \in 1 .. Len(Way'), NEW j \in 1 .. Len(Way'), i < j,
               Way'[i].conn = Way'[j].conn
        PROVE  Way'[i].what # Disconnect
               /\ (Way'[j].what = Disconnect \/ Way'[i].what < Way'[j].what)
    <3>1. i \in 1 .. Len(Way) /\ (j \in 1 .. Len(Way) \/ j = Len(Way) + 1)
      BY <2>1, <2>2
    <3> QED BY <1>2, <2>1, <2>2, <3>1 DEF Adds, OrderInv, Ordered
  <2> QED BY <2>2 DEF Ordered
<1>3. CASE TakeRequest
  <2>1. /\ Len(Way') = Len(Way) - 1
        /\ \A i \in 1 .. Len(Way') : Way'[i] = Way[i + 1]
    BY <1>3, Taken
  <2>2. ASSUME NEW i \in 1 .. Len(Way'), NEW j \in 1 .. Len(Way'), i < j,
               Way'[i].conn = Way'[j].conn
        PROVE  Way'[i].what # Disconnect
               /\ (Way'[j].what = Disconnect \/ Way'[i].what < Way'[j].what)
    <3>1. i + 1 \in 1 .. Len(Way) /\ j + 1 \in 1 .. Len(Way) /\ i + 1 < j + 1
          /\ Way'[i] = Way[i + 1] /\ Way'[j] = Way[j + 1]
      BY ONLY <2>1, <2>2, SMTT(30)
    <3> QED BY <2>2, <3>1 DEF OrderInv, Ordered
  <2> QED BY <2>2 DEF Ordered
<1> QED BY <1>1, <1>2, <1>3, Moves

\* Each message on its way follows the one before it.
LEMMA FollowsStep ==
  ASSUME TypeOK, OrderInv, [Next]_vars
  PROVE  Follows'
<1> USE WayType
<1>1. CASE Way' = Way /\ UNCHANGED <<heard, gone>>
  <2>1. ASSUME NEW i \in 1 .. Len(Way), Way[i].what # Disconnect
        PROVE  LET c == Way[i].conn
                   k == Way[i].what IN
               /\ k \in Len(heard[c]) + 1 .. said'[c]
               /\ k = Len(heard[c]) + 1 \/ \E j \in 1 .. i - 1 : Way[j] = Report(c, k - 1)
    <3>1. Way[i].conn \in Conns /\ Way[i].what \in Nat
      BY WayType
    <3>2. said[Way[i].conn] <= said'[Way[i].conn] /\ said[Way[i].conn] \in Nat
          /\ said'[Way[i].conn] \in Nat /\ Len(heard[Way[i].conn]) \in Nat
      BY <3>1, Monotone, LenProperties DEF TypeOK
    <3> QED BY <2>1, <3>1, <3>2, SMTT(60) DEF OrderInv, Follows
  <2> QED BY <1>1, <2>1 DEF Follows
<1>2. ASSUME NEW c \in Conns, NEW k \in Nat, Adds(c, k)
      PROVE  Follows'
  <2>1. /\ Len(Way') = Len(Way) + 1
        /\ \A i \in 1 .. Len(Way) : Way'[i] = Way[i]
        /\ Way'[Len(Way) + 1].conn = c /\ Way'[Len(Way) + 1].what = k
    BY <1>2, Added DEF Adds
  <2>2. UNCHANGED <<heard, said>>
    BY <1>2 DEF Adds
  <2>3. ASSUME NEW i \in 1 .. Len(Way'), Way'[i].what # Disconnect
        PROVE  LET b == Way'[i].conn
                   w == Way'[i].what IN
               /\ w \in Len(heard[b]) + 1 .. said[b]
               /\ w = Len(heard[b]) + 1 \/ \E j \in 1 .. i - 1 : Way'[j] = Report(b, w - 1)
    <3>1. CASE i \in 1 .. Len(Way)
      <4>1. \A j \in 1 .. i - 1 : j \in 1 .. Len(Way)
        BY <3>1
      <4> QED BY <2>1, <2>3, <3>1, <4>1 DEF OrderInv, Follows
    <3>2. CASE i = Len(Way) + 1
      <4>1. k # Disconnect
        BY <2>1, <2>3, <3>2
      <4>2. \A j \in 1 .. Len(Way) : j \in 1 .. i - 1 /\ Way'[j] = Way[j]
        BY <2>1, <3>2
      <4> QED BY <1>2, <2>1, <3>2, <4>1, <4>2 DEF Adds, Contains
    <3>3. i \in 1 .. Len(Way) \/ i = Len(Way) + 1
      BY ONLY <2>1, SMTT(30)
    <3> QED BY ONLY <3>1, <3>2, <3>3, Zenon
  <2> QED BY <2>2, <2>3 DEF Follows
<1>3. CASE TakeRequest
  <2> DEFINE c == Way[1].conn
             w == Way[1].what
  <2>1. /\ c \in Conns /\ w \in Nat /\ Len(Way) \in Nat \ {0}
        /\ Len(Way') = Len(Way) - 1 /\ UNCHANGED said
        /\ \A i \in 1 .. Len(Way') : Way'[i] = Way[i + 1]
    BY <1>3, Taken
  <2>2. w = Disconnect => heard' = heard
    BY <1>3, Taken
  <2>3. w # Disconnect => /\ w = Len(heard[c]) + 1 /\ Len(heard'[c]) = w
                          /\ \A b \in Conns \ {c} : heard'[b] = heard[b]
    BY <1>3, Taken
  <2>4. ASSUME NEW i \in 1 .. Len(Way'), Way'[i].what # Disconnect
        PROVE  LET b == Way'[i].conn
                   v == Way'[i].what IN
               /\ v \in Len(heard'[b]) + 1 .. said[b]
               /\ v = Len(heard'[b]) + 1 \/ \E j \in 1 .. i - 1 : Way'[j] = Report(b, v - 1)
    <3> DEFINE b == Way[i + 1].conn
               v == Way[i + 1].what
    <3>1. i + 1 \in 1 .. Len(Way) /\ 1 \in 1 .. Len(Way) /\ Way'[i] = Way[i + 1]
      BY <2>1
    <3>2. b \in Conns /\ v \in Nat \ {0} /\ Len(heard[b]) \in Nat /\ said[b] \in Nat
      BY <2>4, <3>1, LenProperties DEF TypeOK, Disconnect
    <3>3. /\ v \in Len(heard[b]) + 1 .. said[b]
          /\ v = Len(heard[b]) + 1 \/ \E j \in 1 .. i : Way[j] = Report(b, v - 1)
      BY <2>4, <3>1 DEF OrderInv, Follows
    <3>4. b = c => w # Disconnect /\ w < v
      BY <2>4, <3>1, <3>2 DEF OrderInv, Ordered
    <3>5. ASSUME NEW j \in 1 .. i, Way[j] = Report(b, v - 1), j # 1
          PROVE  j - 1 \in 1 .. i - 1 /\ Way'[j - 1] = Report(b, v - 1)
      <4>1. j - 1 \in 1 .. i - 1 /\ j - 1 \in 1 .. Len(Way') /\ (j - 1) + 1 = j
        BY <2>1, <3>5
      <4>2. Way'[j - 1] = Way[(j - 1) + 1]
        BY <2>1, <4>1
      <4> QED BY <3>5, <4>1, <4>2
    <3>6. Way[1] = Report(b, v - 1) => b = c /\ v = w + 1
      BY <3>2 DEF Report
    <3>7. CASE b = c
      <4>1. Len(heard'[b]) = w
        BY <2>3, <3>4, <3>7
      <4>2. v \in w + 1 .. said[b]
        BY ONLY <2>1, <3>2, <3>3, <3>4, <3>7, SMTT(30)
      <4>3. v # Len(heard[b]) + 1
        BY <2>1, <2>3, <3>2, <3>4, <3>7
      <4>4. v = w + 1 \/ \E j \in 1 .. i - 1 : Way'[j] = Report(b, v - 1)
        BY <3>3, <3>5, <3>6, <4>3
      <4> QED BY <3>1, <4>1, <4>2, <4>4
    <3>8. CASE b # c
      <4>1. heard'[b] = heard[b]
        BY <2>2, <2>3, <3>2, <3>8
      <4>2. v = Len(heard[b]) + 1 \/ \E j \in 1 .. i - 1 : Way'[j] = Report(b, v - 1)
        BY <3>3, <3>5, <3>6, <3>8
      <4> QED BY <3>1, <3>3, <4>1, <4>2
    <3> QED BY <3>7, <3>8
  <2> QED BY <2>1, <2>4 DEF Follows
<1> QED BY <1>1, <1>2, <1>3, Moves

\* So do the messages that no task has read.
LEMMA UnreadStep ==
  ASSUME TypeOK, OrderInv, [Next]_vars
  PROVE  Unread'
<1> SUFFICES ASSUME NEW c \in Conns, c \notin failed',
                    NEW i \in 1 .. Len(up'[c]), up'[c][i] # Damaged
             PROVE  LET k == up'[c][i] IN
                    /\ k \in Len(heard'[c]) + 1 .. said'[c]
                    /\ \A j \in 1 .. Len(Way') : Way'[j].conn = c => Way'[j].what < k
                    /\ \A j \in 1 .. i - 1 : up'[c][j] < k
                    /\ \/ k = Len(heard'[c]) + 1
                       \/ Contains(Way', Report(c, k - 1))
                       \/ \E j \in 1 .. i - 1 : up'[c][j] = k - 1
  BY DEF Unread
<1>1. /\ c \notin failed /\ up[c] \in Seq(Nat) /\ Len(up[c]) \in Nat
      /\ \A j \in 1 .. Len(up[c]) : up[c][j] \in Nat
      /\ Len(heard[c]) \in Nat /\ said[c] \in Nat
  <2>1. c \notin failed
    BY Monotone
  <2>2. up[c] \in Seq(Nat) /\ heard[c] \in Seq(Nat) /\ said[c] \in Nat
    BY DEF TypeOK
  <2> QED BY <2>1, <2>2, LenProperties
<1>2. ASSUME NEW j \in 1 .. Len(up[c]), up[c][j] # Damaged
      PROVE  LET k == up[c][j] IN
             /\ k \in Nat \ {0} /\ k \in Len(heard[c]) + 1 .. said[c]
             /\ \A l \in 1 .. Len(Way) : Way[l].conn = c => Way[l].what < k
             /\ \A l \in 1 .. j - 1 : up[c][l] < k
             /\ \/ k = Len(heard[c]) + 1
                \/ Contains(Way, Report(c, k - 1))
                \/ \E l \in 1 .. j - 1 : up[c][l] = k - 1
  BY <1>1, <1>2 DEF OrderInv, Unread, Damaged
<1> DEFINE k == up'[c][i]
<1>3. CASE /\ ReadMessage(c) /\ Way' = Append(Way, Report(c, Head(up[c])))
           /\ said'[c] = said[c] /\ heard'[c] = heard[c]
  <2>1. /\ up[c] # <<>> /\ up'[c] = Tail(up[c]) /\ Head(up[c]) \in Nat
    BY <1>3, MessageAdded DEF ReadMessage, TypeOK
  <2>2. i \in Nat /\ i + 1 \in 1 .. Len(up[c]) /\ k = up[c][i + 1] /\ Head(up[c]) = up[c][1]
        /\ \A j \in 1 .. i - 1 : j + 1 \in 1 .. i /\ up'[c][j] = up[c][j + 1]
    <3>1. Len(Tail(up[c])) = Len(up[c]) - 1
          /\ \A j \in 1 .. Len(up[c]) - 1 : Tail(up[c])[j] = up[c][j + 1]
      BY <1>1, <2>1, HeadTailProperties
    <3>2. i \in 1 .. Len(up[c]) - 1 /\ i \in Nat
      BY <1>1, <2>1, <3>1
    <3>3. \A j \in 1 .. i - 1 : j \in 1 .. Len(up[c]) - 1 /\ j + 1 \in 1 .. i
      BY <1>1, <3>2
    <3> QED BY ONLY <1>1, <2>1, <3>1, <3>2, <3>3, SMTT(30)
  <2>3. /\ Len(Way') = Len(Way) + 1
        /\ \A j \in 1 .. Len(Way) : Way'[j] = Way[j]
        /\ Way'[Len(Way) + 1].what = up[c][1]
        /\ \A w \in Nat : Contains(Way', Report(c, w))
                            <=> Contains(Way, Report(c, w)) \/ w = up[c][1]
    BY <1>3, <2>1, <2>2, Added, SMTT(60)
  <2> DEFINE w == up[c][i + 1]
  <2>4. /\ w \in Nat \ {0} /\ w \in Len(heard[c]) + 1 .. said[c]
        /\ \A l \in 1 .. Len(Way) : Way[l].conn = c => Way[l].what < w
        /\ \A l \in 1 .. i : up[c][l] < w
        /\ \/ w = Len(heard[c]) + 1
           \/ Contains(Way, Report(c, w - 1))
           \/ \E l \in 1 .. i : up[c][l] = w - 1
    BY <1>2, <2>2
  <2>5. \A j \in 1 .. Len(Way') : Way'[j].conn = c => Way'[j].what < w
    <3>1. up[c][1] < w
      BY <2>2, <2>4
    <3>2. ASSUME NEW j \in 1 .. Len(Way'), Way'[j].conn = c
          PROVE  Way'[j].what < w
      <4>1. j \in 1 .. Len(Way) \/ j = Len(Way) + 1
        BY <2>3, WayType
      <4> QED BY <2>3, <2>4, <3>1, <3>2, <4>1
    <3> QED BY <3>2
  <2>6. \A j \in 1 .. i - 1 : up'[c][j] < w
    BY <2>2, <2>4
  <2>7. \/ w = Len(heard[c]) + 1
        \/ Contains(Way', Report(c, w - 1))
        \/ \E j \in 1 .. i - 1 : up'[c][j] = w - 1
    <3>1. ASSUME NEW l \in 1 .. i, up[c][l] = w - 1, l # 1
          PROVE  l - 1 \in 1 .. i - 1 /\ up'[c][l - 1] = w - 1
      <4>1. l - 1 \in 1 .. i - 1 /\ (l - 1) + 1 = l
        BY <2>2, <3>1
      <4> QED BY <2>2, <3>1, <4>1
    <3>2. w - 1 \in Nat
      BY <2>4
    <3> QED BY <2>3, <2>4, <3>1, <3>2
  <2> QED BY <1>3, <2>2, <2>4, <2>5, <2>6, <2>7
<1>4. CASE /\ up'[c] = Append(up[c], said[c] + 1) /\ said'[c] = said[c] + 1
           /\ Way' = Way /\ heard'[c] = heard[c]
  <2>1. /\ Len(up'[c]) = Len(up[c]) + 1
        /\ \A j \in 1 .. Len(up[c]) : up'[c][j] = up[c][j]
        /\ up'[c][Len(up[c]) + 1] = said[c] + 1
    BY <1>1, <1>4, AppendProperties
  <2>2. CASE i \in 1 .. Len(up[c])
    <3>1. k = up[c][i] /\ \A j \in 1 .. i - 1 : up'[c][j] = up[c][j]
      <4>1. \A j \in 1 .. i - 1 : j \in 1 .. Len(up[c])
        BY <1>1, <2>2
      <4> QED BY <2>1, <2>2, <4>1
    <3>2. /\ k \in Nat \ {0} /\ k \in Len(heard[c]) + 1 .. said[c]
          /\ \A l \in 1 .. Len(Way) : Way[l].conn = c => Way[l].what < k
          /\ \A l \in 1 .. i - 1 : up'[c][l] < k
          /\ \/ k = Len(heard[c]) + 1
             \/ Contains(Way, Report(c, k - 1))
             \/ \E l \in 1 .. i - 1 : up'[c][l] = k - 1
      <4> DEFINE w == up[c][i]
      <4>1. /\ w \in Nat \ {0} /\ w \in Len(heard[c]) + 1 .. said[c]
            /\ \A l \in 1 .. Len(Way) : Way[l].conn = c => Way[l].what < w
            /\ \A l \in 1 .. i - 1 : up[c][l] < w
            /\ \/ w = Len(heard[c]) + 1
               \/ Contains(Way, Report(c, w - 1))
               \/ \E l \in 1 .. i - 1 : up[c][l] = w - 1
        <5>1. w # Damaged
          BY <3>1
        <5> QED BY <1>2, <2>2, <5>1
      <4>2. w = k /\ \A l \in 1 .. i - 1 : up'[c][l] = up[c][l]
        BY <3>1
      <4> HIDE DEF w, k
      <4>3. \A l \in 1 .. i - 1 : up'[c][l] < w
        BY <4>1, <4>2
      <4>4. \/ w = Len(heard[c]) + 1
            \/ Contains(Way, Report(c, w - 1))
            \/ \E l \in 1 .. i - 1 : up'[c][l] = w - 1
        BY <4>1, <4>2
      <4> QED BY <4>1, <4>2, <4>3, <4>4 DEF Contains
    <3> HIDE DEF k
    <3>3. k \in Len(heard[c]) + 1 .. said'[c]
      BY <1>1, <1>4, <3>2
    <3> QED BY <1>4, <3>2, <3>3 DEF Contains, k
  <2>3. CASE i = Len(up[c]) + 1
    <3>1. k = said[c] + 1 /\ \A j \in 1 .. i - 1 : up'[c][j] = up[c][j] /\ j \in 1 .. Len(up[c])
      BY ONLY <1>1, <2>1, <2>3, SMTT(30)
    <3>2. k \in Len(heard[c]) + 1 .. said'[c]
      BY <1>1, <1>4, <3>1, SMTT(60) DEF OrderInv, HeardOfSaid
    <3>3. ASSUME NEW j \in 1 .. Len(Way), Way[j].conn = c
          PROVE  Way[j].what < k
      <4>1. Way[j].what = Disconnect \/ Way[j].what \in Len(heard[c]) + 1 .. said[c]
        BY <3>3 DEF OrderInv, Follows
      <4> QED BY <1>1, <3>1, <4>1 DEF Disconnect
    <3>4. ASSUME NEW j \in 1 .. i - 1
          PROVE  up'[c][j] < k
      <4>1. up'[c][j] = up[c][j] /\ j \in 1 .. Len(up[c])
        BY <3>1
      <4>2. up[c][j] = Damaged \/ up[c][j] \in Len(heard[c]) + 1 .. said[c]
        BY <1>2, <4>1
      <4> QED BY <1>1, <3>1, <4>1, <4>2 DEF Damaged
    <3>5. \/ said[c] = Len(heard[c])
          \/ Contains(Way, Report(c, said[c]))
          \/ \E j \in 1 .. Len(up[c]) : up[c][j] = said[c]
      BY <1>1 DEF OrderInv, NextSaid, Contains
    <3>6. k - 1 = said[c]
      BY <1>1, <3>1
    <3>7. \A j \in 1 .. Len(up[c]) : j \in 1 .. i - 1
      BY <1>1, <2>3
    <3> QED BY <1>1, <1>4, <3>1, <3>2, <3>3, <3>4, <3>5, <3>6, <3>7 DEF Contains
  <2> QED BY <1>1, <2>1, <2>2, <2>3
<1>5. CASE /\ up'[c] = Append(up[c], Damaged) /\ said'[c] = said[c]
           /\ Way' = Way /\ heard'[c] = heard[c]
  <2>1. i \in 1 .. Len(up[c]) /\ \A j \in 1 .. i : up'[c][j] = up[c][j]
    BY <1>1, <1>5, AppendProperties DEF Damaged
  <2> QED BY <1>2, <1>5, <2>1 DEF Contains
<1>6. ASSUME up'[c] = up[c], said'[c] = said[c]
      PROVE  /\ k = up[c][i] /\ i \in 1 .. Len(up[c]) /\ k \in Nat \ {0}
             /\ k \in Len(heard[c]) + 1 .. said'[c]
             /\ \A j \in 1 .. Len(Way) : Way[j].conn = c => Way[j].what < k
             /\ \A j \in 1 .. i - 1 : up'[c][j] < k
             /\ \/ k = Len(heard[c]) + 1
                \/ Contains(Way, Report(c, k - 1))
                \/ \E j \in 1 .. i - 1 : up'[c][j] = k - 1
  BY <1>2, <1>6
<1>7. CASE /\ up'[c] = up[c] /\ said'[c] = said[c]
           /\ Way' = Way /\ heard'[c] = heard[c]
  BY <1>6, <1>7 DEF Contains
<1>8. ASSUME up'[c] = up[c], said'[c] = said[c], heard'[c] = heard[c],
             NEW d \in Conns, NEW w \in Nat, d # c \/ w = Disconnect,
             Way' = Append(Way, Report(d, w))
      PROVE  /\ k \in Len(heard'[c]) + 1 .. said'[c]
             /\ \A j \in 1 .. Len(Way') : Way'[j].conn = c => Way'[j].what < k
             /\ \A j \in 1 .. i - 1 : up'[c][j] < k
             /\ \/ k = Len(heard'[c]) + 1
                \/ Contains(Way', Report(c, k - 1))
                \/ \E j \in 1 .. i - 1 : up'[c][j] = k - 1
  <2>1. /\ Len(Way') = Len(Way) + 1
        /\ \A j \in 1 .. Len(Way) : Way'[j] = Way[j]
        /\ Way'[Len(Way) + 1].conn = d /\ Way'[Len(Way) + 1].what = w
        /\ \A v \in Nat : Contains(Way, Report(c, v)) => Contains(Way', Report(c, v))
    BY <1>8, Added
  <2>2. k \in Nat \ {0} /\ k - 1 \in Nat /\ \A j \in 1 .. Len(Way) : Way[j].conn = c => Way[j].what < k
    BY <1>6, <1>8
  <2>3. \A j \in 1 .. Len(Way') : Way'[j].conn = c => Way'[j].what < k
    BY <1>8, <2>1, <2>2, WayType DEF Disconnect
  <2> QED BY <1>6, <1>8, <2>1, <2>2, <2>3
<1>9. CASE up'[c] = up[c] /\ said'[c] = said[c] /\ TakeRequest
  <2> DEFINE b == Way[1].conn
             w == Way[1].what
  <2>1. /\ b \in Conns /\ w \in Nat /\ Len(Way) \in Nat \ {0}
        /\ Len(Way') = Len(Way) - 1
        /\ \A j \in 1 .. Len(Way') : Way'[j] = Way[j + 1]
        /\ \A v \in Nat :
             Contains(Way, Report(c, v)) <=> Contains(Way', Report(c, v)) \/ (c = b /\ v = w)
    BY <1>9, Taken
  <2>2. w = Disconnect => heard' = heard
    BY <1>9, Taken
  <2>3. w # Disconnect => /\ w = Len(heard[b]) + 1 /\ Len(heard'[b]) = w
                          /\ \A d \in Conns \ {b} : heard'[d] = heard[d]
    BY <1>9, Taken
  <2>4. /\ k \in Nat \ {0} /\ k - 1 \in Nat /\ k \in Len(heard[c]) + 1 .. said'[c]
        /\ \A j \in 1 .. Len(Way) : Way[j].conn = c => Way[j].what < k
        /\ \A j \in 1 .. i - 1 : up'[c][j] < k
        /\ \/ k = Len(heard[c]) + 1
           \/ Contains(Way, Report(c, k - 1))
           \/ \E j \in 1 .. i - 1 : up'[c][j] = k - 1
    BY <1>6, <1>9
  <2>5. ASSUME NEW j \in 1 .. Len(Way'), Way'[j].conn = c
        PROVE  Way'[j].what < k
    <3>1. j + 1 \in 1 .. Len(Way) /\ Way'[j] = Way[j + 1]
      BY <2>1
    <3> QED BY <2>4, <2>5, <3>1
  <2> HIDE DEF b, w, k
  <2>6. CASE b = c /\ w # Disconnect
    <3>1. w < k
      BY <2>1, <2>4, <2>6 DEF b, w
    <3> QED BY <1>1, <2>1, <2>3, <2>4, <2>5, <2>6, <3>1, SMTT(120) DEF k
  <2>7. CASE b # c \/ w = Disconnect
    <3>1. heard'[c] = heard[c]
      BY <2>2, <2>3, <2>7
    <3>2. Contains(Way, Report(c, k - 1)) => Contains(Way', Report(c, k - 1)) \/ k = Len(heard[c]) + 1
      BY <1>1, <2>1, <2>4, <2>7 DEF Disconnect
    <3> QED BY <2>4, <2>5, <3>1, <3>2 DEF k
  <2> QED BY <2>6, <2>7
<1> QED BY <1>3, <1>4, <1>5, <1>7, <1>8, <1>9, MessageStep

\* And the next message, which the client has yet to send.
LEMMA NextSaidStep ==
  ASSUME TypeOK, OrderInv, [Next]_vars
  PROVE  NextSaid'
<1> SUFFICES ASSUME NEW c \in Conns, c \notin failed'
             PROVE  \/ said'[c] = Len(heard'[c])
                    \/ Contains(Way', Report(c, said'[c]))
                    \/ \E i \in 1 .. Len(up'[c]) : up'[c][i] = said'[c]
  BY DEF NextSaid, Contains
<1>1. up[c] \in Seq(Nat) /\ Len(up[c]) \in Nat /\ Len(heard[c]) \in Nat /\ said[c] \in Nat
  <2>1. up[c] \in Seq(Nat) /\ heard[c] \in Seq(Nat) /\ said[c] \in Nat
    BY DEF TypeOK
  <2> QED BY <2>1, LenProperties
<1>2. \/ said[c] = Len(heard[c])
      \/ Contains(Way, Report(c, said[c]))
      \/ \E i \in 1 .. Len(up[c]) : up[c][i] = said[c]
  BY Monotone DEF OrderInv, NextSaid, Contains
<1>3. CASE /\ ReadMessage(c) /\ Way' = Append(Way, Report(c, Head(up[c])))
           /\ said'[c] = said[c] /\ heard'[c] = heard[c]
  <2>1. up[c] # <<>> /\ up'[c] = Tail(up[c]) /\ Head(up[c]) \in Nat
    BY <1>3, MessageAdded DEF ReadMessage, TypeOK
  <2>2. Head(up[c]) = up[c][1] /\ Len(up'[c]) = Len(up[c]) - 1
        /\ \A j \in 1 .. Len(up[c]) - 1 : up'[c][j] = up[c][j + 1]
    BY <1>1, <2>1, HeadTailProperties
  <2>3. \A w \in Nat : Contains(Way', Report(c, w)) <=> Contains(Way, Report(c, w)) \/ w = up[c][1]
    BY <1>3, <2>1, <2>2, Added
  <2>4. ASSUME NEW i \in 1 .. Len(up[c]), up[c][i] = said[c], i # 1
        PROVE  i - 1 \in 1 .. Len(up'[c]) /\ up'[c][i - 1] = said[c]
    <3>1. i - 1 \in 1 .. Len(up[c]) - 1 /\ (i - 1) + 1 = i
      BY <1>1, <2>4
    <3> QED BY <2>2, <2>4, <3>1
  <2> QED BY <1>1, <1>2, <1>3, <2>3, <2>4
<1>4. CASE /\ up'[c] = Append(up[c], said[c] + 1) /\ said'[c] = said[c] + 1
  <2>1. Len(up'[c]) = Len(up[c]) + 1 /\ up'[c][Len(up[c]) + 1] = said'[c]
    BY <1>1, <1>4, AppendProperties
  <2> QED BY <1>1, <2>1
<1>5. CASE /\ up'[c] = Append(up[c], Damaged) /\ said'[c] = said[c]
           /\ Way' = Way /\ heard'[c] = heard[c]
  <2>1. Len(up'[c]) = Len(up[c]) + 1 /\ \A j \in 1 .. Len(up[c]) : up'[c][j] = up[c][j]
    BY <1>1, <1>5, AppendProperties DEF Damaged
  <2> QED BY <1>1, <1>2, <1>5, <2>1 DEF Contains
<1>6. CASE /\ up'[c] = up[c] /\ said'[c] = said[c]
           /\ Way' = Way /\ heard'[c] = heard[c]
  BY <1>2, <1>6 DEF Contains
<1>7. ASSUME up'[c] = up[c], said'[c] = said[c], heard'[c] = heard[c],
             NEW d \in Conns, NEW w \in Nat, Way' = Append(Way, Report(d, w))
      PROVE  \/ said'[c] = Len(heard'[c])
             \/ Contains(Way', Report(c, said'[c]))
             \/ \E i \in 1 .. Len(up'[c]) : up'[c][i] = said'[c]
  <2>1. \A v \in Nat : Contains(Way, Report(c, v)) => Contains(Way', Report(c, v))
    BY <1>7, Added
  <2> QED BY <1>1, <1>2, <1>7, <2>1
<1>8. CASE up'[c] = up[c] /\ said'[c] = said[c] /\ TakeRequest
  <2> DEFINE b == Way[1].conn
             w == Way[1].what
  <2>1. /\ b \in Conns /\ w \in Nat
        /\ \A v \in Nat :
             Contains(Way, Report(c, v)) <=> Contains(Way', Report(c, v)) \/ (c = b /\ v = w)
    BY <1>8, Taken
  <2>2. w = Disconnect => heard' = heard
    BY <1>8, Taken
  <2>3. w # Disconnect => /\ w = Len(heard[b]) + 1 /\ Len(heard'[b]) = w /\ w <= said[b]
                          /\ \A d \in Conns \ {b} : heard'[d] = heard[d]
    BY <1>8, Taken
  <2> HIDE DEF b, w
  <2>4. Len(heard[c]) <= said[c]
    BY DEF OrderInv, HeardOfSaid
  <2>5. CASE b = c /\ w # Disconnect
    BY <1>1, <1>2, <1>8, <2>1, <2>3, <2>5
  <2>6. CASE b # c
    <3>1. heard'[c] = heard[c]
      BY <2>2, <2>3, <2>6
    <3> QED BY <1>1, <1>2, <1>8, <2>1, <2>6, <3>1
  <2>7. CASE b = c /\ w = Disconnect
    BY <1>1, <1>2, <1>8, <2>1, <2>2, <2>4, <2>7 DEF Disconnect
  <2> QED BY <2>5, <2>6, <2>7
<1> QED BY <1>3, <1>4, <1>5, <1>6, <1>7, <1>8, MessageStep

\* The handler hears what was said.
LEMMA HeardOfSaidStep ==
  ASSUME TypeOK, OrderInv, [Next]_vars
  PROVE  HeardOfSaid'
<1> SUFFICES ASSUME NEW c \in Conns
             PROVE  Len(heard'[c]) <= said'[c]
  BY DEF HeardOfSaid
<1>1. /\ Len(heard[c]) <= said[c] /\ said[c] <= said'[c]
      /\ said[c] \in Nat /\ said'[c] \in Nat /\ Len(heard[c]) \in Nat
  BY Monotone, LenProperties DEF OrderInv, HeardOfSaid, TypeOK
<1>2. CASE heard'[c] = heard[c]
  BY <1>1, <1>2
<1>3. CASE TakeRequest
  <2> DEFINE b == Way[1].conn
             w == Way[1].what
  <2>1. b \in Conns /\ w \in Nat /\ (w = Disconnect => heard' = heard)
    BY <1>3, Taken
  <2>2. w # Disconnect => /\ Len(heard'[b]) = w /\ w <= said[b]
                          /\ \A d \in Conns \ {b} : heard'[d] = heard[d]
    BY <1>3, Taken
  <2> HIDE DEF b, w
  <2>3. CASE b = c /\ w # Disconnect
    BY <1>1, <2>1, <2>2, <2>3
  <2> QED BY <1>2, <2>1, <2>2, <2>3
<1> QED BY <1>2, <1>3, Moves DEF Adds

\* A connection is told to have ended once, after its task has ended.
LEMMA EndsOnceStep ==
  ASSUME TypeOK, OrderInv, [Next]_vars
  PROVE  EndsOnce'
<1> USE WayType
<1>1. /\ \A c \in Conns : task[c] # "none" => task'[c] # "none"
      /\ \A c \in Conns : task[c] = "ended" => task'[c] = "ended"
      /\ gone \subseteq Conns
  BY Monotone DEF TypeOK
<1>2. CASE Way' = Way /\ UNCHANGED <<heard, gone>>
  BY <1>1, <1>2 DEF OrderInv, EndsOnce
<1>3. ASSUME NEW c \in Conns, NEW k \in Nat, Adds(c, k)
      PROVE  EndsOnce'
  <2>1. /\ Len(Way') = Len(Way) + 1
        /\ \A i \in 1 .. Len(Way) : Way'[i] = Way[i]
        /\ Way'[Len(Way) + 1].conn = c /\ Way'[Len(Way) + 1].what = k
    BY <1>3, Added DEF Adds
  <2>2. gone' = gone /\ c \notin gone /\ (k = Disconnect => task'[c] = "ended")
        /\ task'[c] # "none"
    BY <1>1, <1>3 DEF Adds
  <2>3. ASSUME NEW i \in 1 .. Len(Way')
        PROVE  /\ task'[Way'[i].conn] # "none" /\ Way'[i].conn \notin gone
               /\ Way'[i].what = Disconnect => task'[Way'[i].conn] = "ended"
    <3>1. i \in 1 .. Len(Way) \/ i = Len(Way) + 1
      BY <2>1
    <3> QED BY <1>1, <2>1, <2>2, <3>1 DEF OrderInv, EndsOnce
  <2>4. \A b \in gone : task'[b] = "ended"
    BY <1>1 DEF OrderInv, EndsOnce
  <2> QED BY <2>2, <2>3, <2>4 DEF EndsOnce
<1>4. CASE TakeRequest
  <2> DEFINE c == Way[1].conn
             w == Way[1].what
  <2>1. /\ c \in Conns /\ w \in Nat /\ Len(Way) \in Nat \ {0}
        /\ Len(Way') = Len(Way) - 1 /\ UNCHANGED task
        /\ \A i \in 1 .. Len(Way') : Way'[i] = Way[i + 1]
    BY <1>4, Taken
  <2>2. gone' = gone \/ (w = Disconnect /\ gone' = gone \cup {c})
    BY <1>4, Taken
  <2>3. 1 \in 1 .. Len(Way)
    BY <2>1
  <2>4. ASSUME NEW i \in 1 .. Len(Way')
        PROVE  /\ task[Way'[i].conn] # "none" /\ Way'[i].conn \notin gone'
               /\ Way'[i].what = Disconnect => task[Way'[i].conn] = "ended"
    <3>1. i + 1 \in 1 .. Len(Way) /\ Way'[i] = Way[i + 1] /\ 1 < i + 1
      BY <2>1
    <3>2. w = Disconnect => Way[i + 1].conn # c
      BY <2>3, <3>1 DEF OrderInv, Ordered
    <3> QED BY <2>2, <3>1, <3>2 DEF OrderInv, EndsOnce
  <2>5. w = Disconnect => task[c] = "ended"
    BY <2>3 DEF OrderInv, EndsOnce
  <2>6. \A b \in gone' : task[b] = "ended"
    BY <2>2, <2>5 DEF OrderInv, EndsOnce
  <2> QED BY <2>1, <2>4, <2>6 DEF EndsOnce
<1> QED BY <1>2, <1>3, <1>4, Moves

\* The order of the messages is an invariant.
LEMMA OrderHolds == Spec => []OrderInv
<1>1. Init => OrderInv
  <2> SUFFICES ASSUME Init
               PROVE  OrderInv
    OBVIOUS
  <2>1. Way = <<>> /\ Len(Way) = 0
    <3>1. requests = <<>> /\ Held = <<>> /\ events = <<>>
      BY DEF Init, Held
    <3>2. <<>> \o <<>> = <<>>
      BY ConcatEmptySeq, EmptySeq
    <3> QED BY <3>1, <3>2, EmptySeq DEF Way
  <2>2. 1 .. Len(Way) = {}
    BY <2>1
  <2>3. Ordered /\ Follows /\ EndsOnce
    BY <2>2 DEF Ordered, Follows, EndsOnce, Init
  <2>4. \A c \in Conns : Len(heard[c]) = 0 /\ said[c] = 0 /\ Len(up[c]) = 0
    BY EmptySeq DEF Init
  <2>5. Unread /\ NextSaid /\ HeardOfSaid
    BY <2>4 DEF Unread, NextSaid, HeardOfSaid
  <2> QED BY <2>3, <2>5 DEF OrderInv
<1>2. TypeOK /\ OrderInv /\ [Next]_vars => OrderInv'
  BY OrderedStep, FollowsStep, UnreadStep, NextSaidStep, HeardOfSaidStep, EndsOnceStep DEF OrderInv
<1> QED BY <1>1, <1>2, TypeCorrect, PTL DEF Spec

\* Only the clients send messages.
LEMMA SaidStep ==
  ASSUME [Next]_vars
  PROVE  UNCHANGED said \/ \E c \in Conns : Say(c)
<1> USE DEF socketVars
<1>1. ASSUME NEW c \in Conns, ClientStep(c)
      PROVE  UNCHANGED said \/ Say(c)
  BY <1>1 DEF ClientStep, Connect, SayDamaged, ReadAnswer, Close
<1>2. ASSUME NEW c \in Conns, ConnStep(c)
      PROVE  UNCHANGED said
  BY <1>2
     DEF ConnStep, WriteAnswer, WaitForRoom, ReadMessage, ReadDamage, ReadEnd, SeeCancelled
<1>3. ASSUME ManagerStep \/ TakeRequest \/ LeaveLoop \/ UNCHANGED vars
      PROVE  UNCHANGED said
  BY <1>3
     DEF ManagerStep, Accept, ForwardMessage, HandleDisconnect, FinishDisconnect, RouteResponse,
         Stop, FinishStop, TakeRequest, LeaveLoop, vars
<1> QED BY <1>1, <1>2, <1>3 DEF Next

\* A step of the daemon is a step of what the handler may rely on, or changes nothing
\* of it.
LEMMA VisitsStep ==
  ASSUME TypeOK, OrderInv, [Next]_vars
  PROVE  [Visits!VisitsNext]_(Visits!visits)
<1> USE DEF Visits!VisitsNext, Visits!visits, Visits!SayOne, Visits!HearOne, Visits!Leave
<1>1. CASE UNCHANGED <<heard, gone>>
  BY <1>1, SaidStep DEF Say
<1>2. ASSUME NEW c \in Conns, NEW k \in Nat, Adds(c, k)
      PROVE  UNCHANGED <<heard, gone>>
  BY <1>2 DEF Adds
<1>3. CASE TakeRequest
  <2> DEFINE c == Way[1].conn
             w == Way[1].what
  <2>1. c \in Conns /\ UNCHANGED said /\ 1 \in 1 .. Len(Way)
    BY <1>3, Taken
  <2>2. c \notin gone
    BY <2>1 DEF OrderInv, EndsOnce
  <2>3. CASE w = Disconnect
    <3>1. gone' = gone \cup {c} /\ heard' = heard
      BY <1>3, <2>3, Taken
    <3> QED BY <2>1, <2>2, <3>1
  <2>4. CASE w # Disconnect
    <3>1. /\ gone' = gone /\ w = Len(heard[c]) + 1 /\ w <= said[c]
          /\ heard' = [heard EXCEPT ![c] = Append(@, w)]
      BY <1>3, <2>4, Taken
    <3>2. Len(heard[c]) \in Nat /\ said[c] \in Nat
      BY <2>1, LenProperties DEF TypeOK
    <3> HIDE DEF c, w
    <3>3. Len(heard[c]) < said[c] /\ heard' = [heard EXCEPT ![c] = Append(@, Len(@) + 1)]
      BY <3>1, <3>2
    <3> QED BY <2>1, <2>2, <3>1, <3>3
  <2> QED BY <2>3, <2>4
<1> QED BY <1>1, <1>2, <1>3, Moves

\* ClientMan implements Visits: the handler hears the messages of a connection in
\* order and once, before the end of the connection, which it hears once.
THEOREM ImplementsVisitsHolds == Spec => ImplementsVisits
<1>1. Init => Visits!VisitsInit
  BY DEF Init, Visits!VisitsInit
<1>2. TypeOK /\ OrderInv /\ [Next]_vars => [Visits!VisitsNext]_(Visits!visits)
  BY VisitsStep
<1> QED BY <1>1, <1>2, TypeCorrect, OrderHolds, PTL DEF Spec, ImplementsVisits, Visits!VisitsSpec
-------------------------------------------------------------------------------
(* The table of addresses.                                                    *)

\* A task begins when its connection is accepted, and ends at the end of its socket
\* or when it is cancelled.
LEMMA TaskStep ==
  ASSUME TypeOK, [Next]_vars, NEW c \in Conns
  PROVE  /\ task[c] = "none" /\ task'[c] # "none" => Accept(c)
         /\ task[c] # "ended" /\ task'[c] = "ended" => ReadEnd(c) \/ SeeCancelled(c)
<1> USE DEF connVars
<1>1. CASE UNCHANGED task
  BY <1>1
<1>2. ASSUME NEW d \in Conns, ClientStep(d)
      PROVE  UNCHANGED task
  BY <1>2 DEF ClientStep, Connect, Say, SayDamaged, ReadAnswer, Close
<1>3. ASSUME NEW d \in Conns, ConnStep(d)
      PROVE  /\ task[c] = "none" => task'[c] = "none"
             /\ task[c] # "ended" /\ task'[c] = "ended" => ReadEnd(c) \/ SeeCancelled(c)
  <2>1. CASE WriteAnswer(d)
    BY <2>1 DEF WriteAnswer, TypeOK
  <2>2. CASE WaitForRoom(d)
    BY <2>2 DEF WaitForRoom, TypeOK
  <2>3. CASE ReadMessage(d)
    BY <2>3 DEF ReadMessage
  <2>4. CASE ReadDamage(d)
    BY <2>4 DEF ReadDamage, TypeOK
  <2>5. CASE ReadEnd(d)
    <3>1. task[d] = "running" /\ task' = [task EXCEPT ![d] = "ended"]
      BY <2>5 DEF ReadEnd, EndTask
    <3> QED BY <2>5, <3>1 DEF TypeOK
  <2>6. CASE SeeCancelled(d)
    <3>1. task[d] = "running" /\ task' = [task EXCEPT ![d] = "ended"]
      BY <2>6 DEF SeeCancelled, EndTask
    <3> QED BY <2>6, <3>1 DEF TypeOK
  <2> QED BY <1>3, <2>1, <2>2, <2>3, <2>4, <2>5, <2>6 DEF ConnStep
<1>4. ASSUME NEW d \in Conns, Accept(d)
      PROVE  /\ task[c] = "none" /\ task'[c] # "none" => c = d
             /\ task[c] # "ended" => task'[c] # "ended"
  BY <1>4 DEF Accept, TypeOK
<1>5. ASSUME ManagerStep, ~ \E d \in Conns : Accept(d)
      PROVE  UNCHANGED task
  BY <1>5
     DEF ManagerStep, ForwardMessage, HandleDisconnect, FinishDisconnect, RouteResponse, Stop,
         FinishStop
<1>6. ASSUME TakeRequest \/ LeaveLoop \/ UNCHANGED vars
      PROVE  UNCHANGED task
  BY <1>6 DEF TakeRequest, LeaveLoop, vars
<1>7. CASE \E d \in Conns : Accept(d)
  BY <1>4, <1>7
<1> QED BY <1>1, <1>2, <1>3, <1>5, <1>6, <1>7 DEF Next

\* The table changes when a connection is accepted, else only loses entries.
LEMMA ClientsStep ==
  ASSUME TypeOK, [Next]_vars, NEW a \in Addrs, clients'[a] # None
  PROVE  clients'[a] = clients[a] \/ \E c \in Conns : Accept(c) /\ a = addrOf[c] /\ clients'[a] = c
<1> USE DEF managerVars
<1>1. CASE UNCHANGED clients
  BY <1>1
<1>2. ASSUME NEW d \in Conns, ClientStep(d) \/ ConnStep(d)
      PROVE  UNCHANGED clients
  BY <1>2
     DEF ClientStep, Connect, Say, SayDamaged, ReadAnswer, Close, ConnStep, WriteAnswer,
         WaitForRoom, ReadMessage, ReadDamage, ReadEnd, SeeCancelled
<1>3. ASSUME NEW d \in Conns, Accept(d)
      PROVE  clients'[a] = clients[a] \/ (a = addrOf[d] /\ clients'[a] = d)
  BY <1>3 DEF Accept, TypeOK
<1>4. CASE HandleDisconnect
  BY <1>4 DEF HandleDisconnect, TypeOK
<1>5. CASE FinishStop
  BY <1>5 DEF FinishStop
<1>6. ASSUME ForwardMessage \/ FinishDisconnect \/ RouteResponse \/ Stop \/ TakeRequest
               \/ LeaveLoop \/ UNCHANGED vars
      PROVE  UNCHANGED clients
  BY <1>6 DEF ForwardMessage, FinishDisconnect, RouteResponse, Stop, TakeRequest, LeaveLoop, vars
<1> QED BY <1>1, <1>2, <1>3, <1>4, <1>5, <1>6 DEF Next, ManagerStep

\* A response is to a message the handler takes, of a connection that is not gone.
LEMMA ResponsesStep ==
  ASSUME TypeOK, OrderInv, [Next]_vars, NEW b \in Conns, Contains(responses', b)
  PROVE  Contains(responses, b) \/ (task[b] # "none" /\ b \notin gone)
<1> USE DEF handlerVars
<1>1. CASE UNCHANGED responses
  BY <1>1 DEF Contains
<1>2. CASE TakeRequest
  <2>1. 1 \in 1 .. Len(Way) /\ Way[1] = Head(requests)
    BY <1>2, Taken, RequestTaken
  <2>2. task[Way[1].conn] # "none" /\ Way[1].conn \notin gone /\ Way[1].conn \in Conns
    BY <2>1, WayType DEF OrderInv, EndsOnce
  <2>3. responses' = responses \/ responses' = Append(responses, Way[1].conn)
    BY <1>2, <2>1 DEF TakeRequest
  <2>4. CASE responses' = Append(responses, Way[1].conn)
    <3>1. /\ Len(responses') = Len(responses) + 1 /\ Len(responses) \in Nat
          /\ \A i \in 1 .. Len(responses) : responses'[i] = responses[i]
          /\ responses'[Len(responses) + 1] = Way[1].conn
      BY <2>2, <2>4, AppendProperties, LenProperties DEF TypeOK
    <3>2. PICK i \in 1 .. Len(responses') : responses'[i] = b
      BY DEF Contains
    <3>3. CASE i \in 1 .. Len(responses)
      BY <3>1, <3>2, <3>3 DEF Contains
    <3>4. CASE i = Len(responses) + 1
      BY <2>2, <3>1, <3>2, <3>4
    <3> QED BY <3>1, <3>3, <3>4
  <2> QED BY <1>1, <2>3, <2>4
<1>3. CASE RouteResponse
  <2>1. responses \in Seq(Conns) /\ responses # <<>> /\ responses' = Tail(responses)
    BY <1>3 DEF RouteResponse, TypeOK
  <2>2. Len(responses) \in Nat /\ Len(responses') = Len(responses) - 1
        /\ \A i \in 1 .. Len(responses) - 1 : responses'[i] = responses[i + 1]
    BY <2>1, HeadTailProperties, LenProperties
  <2>3. ASSUME NEW i \in 1 .. Len(responses'), responses'[i] = b
        PROVE  i + 1 \in 1 .. Len(responses) /\ responses[i + 1] = b
    BY <2>2, <2>3
  <2> QED BY <2>3 DEF Contains
<1>4. ASSUME NEW d \in Conns, ClientStep(d) \/ ConnStep(d)
      PROVE  UNCHANGED responses
  BY <1>4
     DEF ClientStep, Connect, Say, SayDamaged, ReadAnswer, Close, ConnStep, WriteAnswer,
         WaitForRoom, ReadMessage, ReadDamage, ReadEnd, SeeCancelled
<1>5. ASSUME ManagerStep, ~RouteResponse
      PROVE  UNCHANGED responses
  BY <1>5 DEF ManagerStep, Accept, ForwardMessage, HandleDisconnect, FinishDisconnect, Stop, FinishStop
<1>6. ASSUME LeaveLoop \/ UNCHANGED vars
      PROVE  UNCHANGED responses
  BY <1>6 DEF LeaveLoop, vars
<1> QED BY <1>1, <1>2, <1>3, <1>4, <1>5, <1>6 DEF Next

\* The table has the last connection accepted from an address.
LEMMA LastAcceptedStep ==
  ASSUME TypeOK, OrderInv, TableInv, [Next]_vars
  PROVE  LastAccepted'
<1> SUFFICES ASSUME NEW a \in Addrs, clients'[a] # None
             PROVE  LET c == clients'[a] IN
                    /\ addrOf[c] = a /\ task'[c] # "none"
                    /\ c \in reused' \/ \A b \in Conns \ {c} :
                         addrOf[b] = addrOf[c] /\ task'[b] # "none"
                           => b \in gone' /\ ~Contains(responses', b)
  BY Monotone DEF LastAccepted, SameAddr
<1> DEFINE c == clients'[a]
<1>1. CASE clients'[a] = clients[a]
  <2>1. c \in Conns /\ addrOf[c] = a /\ task[c] # "none" /\ task'[c] # "none"
    BY <1>1, Monotone DEF TypeOK, TableInv, LastAccepted
  <2>2. ASSUME NEW b \in Conns \ {c}, c \notin reused', addrOf[b] = addrOf[c], task'[b] # "none"
        PROVE  b \in gone' /\ ~Contains(responses', b)
    <3>1. c \notin reused /\ gone \subseteq gone'
      BY <2>2, Monotone
    <3>2. task[b] # "none"
      <4>1. ASSUME Accept(b)
            PROVE  FALSE
        BY <1>1, <2>1, <2>2, <4>1 DEF Accept, TypeOK
      <4> QED BY <2>2, <4>1, TaskStep
    <3>3. b \in gone /\ ~Contains(responses, b)
      BY <1>1, <2>1, <2>2, <3>1, <3>2 DEF TableInv, LastAccepted, SameAddr
    <3> QED BY <3>1, <3>3, ResponsesStep
  <2> QED BY <2>1, <2>2
<1>2. ASSUME NEW d \in Conns, Accept(d), a = addrOf[d], c = d
      PROVE  /\ addrOf[d] = a /\ task'[d] # "none"
             /\ d \in reused' \/ \A b \in Conns \ {d} :
                  addrOf[b] = addrOf[d] /\ task'[b] # "none"
                    => b \in gone' /\ ~Contains(responses', b)
  <2>1. /\ task' = [task EXCEPT ![d] = "running"] /\ UNCHANGED <<gone, responses>>
        /\ d \in reused' \/ ~InUse(d)
    BY <1>2 DEF Accept, handlerVars
  <2>2. task'[d] # "none" /\ \A b \in Conns \ {d} : task'[b] = task[b]
    BY <2>1 DEF TypeOK
  <2> QED BY <1>2, <2>1, <2>2 DEF InUse, SameAddr, Contains
<1> QED BY <1>1, <1>2, ClientsStep

\* Who is sent an answer has been accepted.
LEMMA AnsweredStep ==
  ASSUME TypeOK, OrderInv, TableInv, [Next]_vars
  PROVE  Answered'
<1>1. ASSUME NEW b \in Conns, Contains(responses', b)
      PROVE  task'[b] # "none"
  BY <1>1, ResponsesStep, Monotone DEF TableInv, Answered
<1> QED BY <1>1 DEF Answered

\* A removal cancels only a task that has ended, unless its address was used again.
LEMMA VictimEnded ==
  ASSUME TypeOK, OrderInv, TableInv, HandleDisconnect
  PROVE  LET victim == clients[addrOf[Head(events).conn]] IN
         victim = None \/ victim \in reused \/ task[victim] = "ended"
<1> DEFINE c == Head(events).conn
           victim == clients[addrOf[c]]
<1>1. /\ events \in Seq(Reports) /\ events # <<>> /\ Head(events) \in Reports
      /\ removing = None /\ Head(events).what = Disconnect /\ c \in Conns
  BY HeadReport DEF HandleDisconnect, Selecting, TypeOK
<1>2. c \notin gone /\ task[c] = "ended"
  <2>1. PICK i \in 1 .. Len(Way) : Way[i] = Head(events)
    <3>1. Way = requests \o events
      <4>1. <<>> \o events = events
        BY <1>1, ConcatEmptySeq
      <4> QED BY <1>1, <4>1, Zenon DEF Way, Held
    <3>2. requests \in Seq(Reports) /\ Len(requests) \in Nat /\ Len(events) \in Nat \ {0}
      BY <1>1, EmptySeq, LenProperties DEF TypeOK
    <3>3. Len(requests) + 1 \in 1 .. Len(Way) /\ Way[Len(requests) + 1] = events[1]
      BY <1>1, <3>1, <3>2, ConcatProperties
    <3> QED BY <1>1, <3>2, <3>3
  <2> QED BY <1>1, <2>1 DEF OrderInv, EndsOnce
<1>3. addrOf[c] \in Addrs
  BY <1>1, AddrType
<1>4. ASSUME victim # None, victim \notin reused, victim # c
      PROVE  FALSE
  <2>1. victim \in Conns /\ addrOf[victim] = addrOf[c]
    BY <1>3, <1>4 DEF TypeOK, TableInv, LastAccepted
  <2> QED BY <1>1, <1>2, <1>3, <1>4, <2>1 DEF TableInv, LastAccepted, SameAddr
<1> QED BY <1>2, <1>4

\* Only a task that has ended is cancelled.
LEMMA CancelledStep ==
  ASSUME TypeOK, OrderInv, TableInv, [Next]_vars
  PROVE  CancelledEnded'
<1> USE DEF connVars
<1>1. ASSUME NEW c \in cancelled
      PROVE  stopping' \/ c \in reused' \/ task'[c] = "ended"
  BY <1>1, Monotone DEF TypeOK, TableInv, CancelledEnded
<1>2. CASE cancelled' = cancelled
  BY <1>1, <1>2 DEF CancelledEnded
<1>3. ASSUME NEW d \in Conns, ClientStep(d) \/ ConnStep(d)
      PROVE  cancelled' = cancelled
  BY <1>3
     DEF ClientStep, Connect, Say, SayDamaged, ReadAnswer, Close, ConnStep, WriteAnswer,
         WaitForRoom, ReadMessage, ReadDamage, ReadEnd, SeeCancelled
<1>4. CASE HandleDisconnect
  <2> DEFINE victim == clients[addrOf[Head(events).conn]]
  <2>1. cancelled' = cancelled \/ (victim # None /\ cancelled' = cancelled \cup {victim})
    BY <1>4, Zenon DEF HandleDisconnect
  <2>2. reused' = reused /\ task' = task
    BY <1>4 DEF HandleDisconnect, otherVars
  <2>3. victim # None => victim \in reused' \/ task'[victim] = "ended"
    BY <1>4, <2>2, VictimEnded
  <2> HIDE DEF victim
  <2> QED BY <1>1, <1>2, <2>1, <2>3 DEF CancelledEnded
<1>5. CASE Stop
  <2>1. stopping'
    BY <1>5 DEF Stop
  <2> QED BY <2>1 DEF CancelledEnded
<1>6. ASSUME ManagerStep, ~HandleDisconnect, ~Stop
      PROVE  cancelled' = cancelled
  BY <1>6 DEF ManagerStep, Accept, ForwardMessage, FinishDisconnect, RouteResponse, FinishStop
<1>7. ASSUME TakeRequest \/ LeaveLoop \/ UNCHANGED vars
      PROVE  cancelled' = cancelled
  BY <1>7 DEF TakeRequest, LeaveLoop, vars
<1> QED BY <1>2, <1>3, <1>4, <1>5, <1>6, <1>7 DEF Next

\* A task that has ended has said so.
LEMMA EndToldStep ==
  ASSUME TypeOK, OrderInv, TableInv, [Next]_vars
  PROVE  EndTold'
<1> SUFFICES ASSUME NEW c \in Conns, task'[c] = "ended"
             PROVE  stopping' \/ c \in reused' \/ c \in gone' \/ Contains(Way', Report(c, Disconnect))
  BY DEF EndTold
<1>1. (stopping => stopping') /\ reused \subseteq reused' /\ gone \subseteq gone'
  BY Monotone
<1>2. CASE Contains(Way, Report(c, Disconnect))
  <2>1. CASE Way' = Way
    BY <1>2, <2>1 DEF Contains
  <2>2. ASSUME NEW d \in Conns, NEW k \in Nat, Adds(d, k)
        PROVE  Contains(Way', Report(c, Disconnect))
    BY <1>2, <2>2, Added DEF Adds, Disconnect
  <2>3. CASE TakeRequest
    BY <1>2, <2>3, Taken DEF Disconnect
  <2> QED BY <2>1, <2>2, <2>3, Moves
<1>3. CASE task[c] = "ended"
  BY <1>1, <1>2, <1>3 DEF TableInv, EndTold
<1>4. CASE ReadEnd(c)
  <2>1. Way' = Append(Way, Report(c, Disconnect))
    BY <1>4, ReportAdded DEF ReadEnd, handlerVars, Disconnect
  <2> QED BY <2>1, Added DEF Disconnect
<1>5. CASE SeeCancelled(c)
  BY <1>1, <1>5 DEF SeeCancelled, TableInv, CancelledEnded
<1> QED BY <1>3, <1>4, <1>5, TaskStep

\* A client the handler knows has a connection.
LEMMA KnownStep ==
  ASSUME TypeOK, OrderInv, TableInv, [Next]_vars
  PROVE  KnownHasConn'
<1>1. \A c \in Conns : task[c] # "none" => task'[c] # "none"
  BY Monotone
<1>2. addrOf' = addrOf
  BY Monotone
<1>3. CASE UNCHANGED <<known, gone>>
  BY <1>1, <1>2, <1>3 DEF TableInv, KnownHasConn
<1>4. CASE TakeRequest
  <2> DEFINE b == Way[1].conn
             w == Way[1].what
  <2>1. Way[1] = Head(requests) /\ 1 \in 1 .. Len(Way) /\ b \in Conns
    BY <1>4, Taken, RequestTaken, WayType
  <2>2. b \notin gone /\ task[b] # "none"
    BY <2>1 DEF OrderInv, EndsOnce
  <2>3. \/ known' = known \ {addrOf[b]} /\ gone' = gone \cup {b}
        \/ known' = known \cup {addrOf[b]} /\ gone' = gone
    BY <1>4, <2>1 DEF TakeRequest
  <2> HIDE DEF b
  <2> QED BY <1>1, <1>2, <2>1, <2>2, <2>3 DEF TableInv, KnownHasConn
<1>5. ASSUME NEW d \in Conns, ClientStep(d) \/ ConnStep(d)
      PROVE  UNCHANGED <<known, gone>>
  BY <1>5
     DEF ClientStep, Connect, Say, SayDamaged, ReadAnswer, Close, ConnStep, WriteAnswer,
         WaitForRoom, ReadMessage, ReadDamage, ReadEnd, SeeCancelled, handlerVars
<1>6. ASSUME ManagerStep \/ LeaveLoop \/ UNCHANGED vars
      PROVE  UNCHANGED <<known, gone>>
  BY <1>6
     DEF ManagerStep, Accept, ForwardMessage, HandleDisconnect, FinishDisconnect, RouteResponse,
         Stop, FinishStop, LeaveLoop, vars, handlerVars
<1> QED BY <1>3, <1>4, <1>5, <1>6 DEF Next

\* The daemon cuts off no client that is there.
LEMMA CutOffStep ==
  ASSUME TypeOK, TableInv, [Next]_vars
  PROVE  NobodyCutOff'
<1> SUFFICES ASSUME NEW c \in Conns, task'[c] = "ended", Undisturbed(c)', ~stopping'
             PROVE  socket'[c] = "closed" \/ c \in failed'
  BY DEF NobodyCutOff
<1>1. /\ ~stopping /\ failed \subseteq failed' /\ (socket[c] = "closed" => socket'[c] = "closed")
      /\ c \notin reused
  BY Monotone DEF Undisturbed
<1>2. CASE task[c] = "ended"
  <2>1. Undisturbed(c)
    BY Monotone DEF Undisturbed, SameAddr
  <2> QED BY <1>1, <1>2, <2>1 DEF TableInv, NobodyCutOff
<1>3. CASE ReadEnd(c)
  BY <1>1, <1>3 DEF ReadEnd
<1>4. CASE SeeCancelled(c)
  BY <1>1, <1>4 DEF SeeCancelled, TableInv, CancelledEnded
<1> QED BY <1>2, <1>3, <1>4, TaskStep

\* An undisturbed connection is sent its own answers.
LEMMA OwnAnswersStep ==
  ASSUME TypeOK, OrderInv, TableInv, [Next]_vars
  PROVE  OwnAnswers'
<1> SUFFICES ASSUME NEW c \in Conns, Undisturbed(c)', NEW i \in 1 .. Len(answers'[c])
             PROVE  answers'[c][i] = c
  BY DEF OwnAnswers
<1>1. Undisturbed(c) /\ addrOf' = addrOf
  BY Monotone DEF Undisturbed, SameAddr
<1>2. answers[c] \in Seq(Conns) /\ Len(answers[c]) \in Nat
      /\ \A j \in 1 .. Len(answers[c]) : answers[c][j] = c
  BY <1>1, LenProperties DEF TypeOK, TableInv, OwnAnswers
<1>3. CASE answers'[c] = answers[c]
  BY <1>2, <1>3
<1>4. ASSUME NEW d \in Conns, WriteAnswer(d)
      PROVE  answers'[c][i] = c
  <2>1. CASE d = c
    <3>1. answers[c] # <<>> /\ answers'[c] = Tail(answers[c])
      BY <1>4, <2>1 DEF WriteAnswer, TypeOK
    <3>2. Len(answers'[c]) = Len(answers[c]) - 1
          /\ \A j \in 1 .. Len(answers[c]) - 1 : answers'[c][j] = answers[c][j + 1]
      BY <1>2, <3>1, HeadTailProperties
    <3> QED BY <1>2, <3>2
  <2>2. CASE d # c
    BY <1>3, <1>4, <2>2 DEF WriteAnswer, TypeOK
  <2> QED BY <2>1, <2>2
<1>5. ASSUME NEW d \in Conns, ReadDamage(d)
      PROVE  answers'[c][i] = c
  <2>1. CASE d = c
    <3>1. answers'[c] = <<c>> \o answers[c] /\ <<c>> \in Seq(Conns) /\ Len(<<c>>) = 1
      BY <1>5, <2>1 DEF ReadDamage, TypeOK
    <3>2. Len(answers'[c]) = 1 + Len(answers[c])
          /\ answers'[c][1] = c
          /\ \A j \in 2 .. 1 + Len(answers[c]) : answers'[c][j] = answers[c][j - 1]
      BY <1>2, <3>1, ConcatProperties
    <3> QED BY ONLY <1>2, <3>2, SMTT(30)
  <2>2. CASE d # c
    BY <1>3, <1>5, <2>2 DEF ReadDamage, TypeOK
  <2> QED BY <2>1, <2>2
<1>6. ASSUME NEW d \in Conns, EndTask(d)
      PROVE  answers'[c][i] = c
  <2>1. answers'[c] = <<>> \/ answers'[c] = answers[c]
    BY <1>6 DEF EndTask, TypeOK
  <2> QED BY <1>3, <2>1, EmptySeq
<1>7. CASE RouteResponse
  <2> DEFINE r == Head(responses)
             v == clients[addrOf[r]]
  <2>1. r \in Conns /\ Contains(responses, r)
    <3>1. responses \in Seq(Conns) /\ responses # <<>>
      BY <1>7 DEF RouteResponse, TypeOK
    <3>2. r \in Conns /\ r = responses[1] /\ 1 \in 1 .. Len(responses)
      BY <3>1, HeadTailProperties, EmptySeq, LenProperties
    <3> QED BY <3>2 DEF Contains
  <2>2. CASE v = c
    <3>1. addrOf[r] \in Addrs /\ c # None
      BY <2>1, AddrType, ClientManAssumption
    <3>2. r = c
      <4>1. task[r] # "none"
        BY <2>1 DEF TableInv, Answered
      <4>2. addrOf[c] = addrOf[r] /\ c \notin reused
        BY <1>1, <2>2, <3>1 DEF TableInv, LastAccepted, Undisturbed
      <4> QED BY <2>1, <2>2, <3>1, <4>1, <4>2 DEF TableInv, LastAccepted, SameAddr
    <3>3. answers'[c] = answers[c] \/ answers'[c] = Append(answers[c], c)
      BY <1>7, <2>2, <3>1, <3>2 DEF RouteResponse, TypeOK
    <3>4. CASE answers'[c] = Append(answers[c], c)
      <4>1. Len(answers'[c]) = Len(answers[c]) + 1 /\ answers'[c][Len(answers[c]) + 1] = c
            /\ \A j \in 1 .. Len(answers[c]) : answers'[c][j] = answers[c][j]
        BY <1>2, <3>4, AppendProperties
      <4> QED BY ONLY <1>2, <4>1, SMTT(30)
    <3> QED BY <1>3, <3>3, <3>4
  <2>3. CASE v # c
    <3>1. answers'[c] = answers[c]
      BY <1>7, <2>3 DEF RouteResponse, TypeOK
    <3> QED BY <1>3, <3>1
  <2> QED BY <2>2, <2>3
<1>8. ASSUME NEW d \in Conns, ClientStep(d) \/ WaitForRoom(d) \/ ReadMessage(d) \/ Accept(d)
      PROVE  UNCHANGED answers
  BY <1>8
     DEF ClientStep, Connect, Say, SayDamaged, ReadAnswer, Close, WaitForRoom, ReadMessage, Accept,
         connVars
<1>9. ASSUME ForwardMessage \/ HandleDisconnect \/ FinishDisconnect \/ Stop \/ FinishStop
               \/ TakeRequest \/ LeaveLoop \/ UNCHANGED vars
      PROVE  UNCHANGED answers
  BY <1>9
     DEF ForwardMessage, HandleDisconnect, FinishDisconnect, Stop, FinishStop, TakeRequest,
         LeaveLoop, vars, connVars
<1> QED BY <1>3, <1>4, <1>5, <1>6, <1>7, <1>8, <1>9
         DEF Next, ConnStep, ReadEnd, SeeCancelled, ManagerStep

\* What an undisturbed client is sent is its own.
LEMMA GoHomeStep ==
  ASSUME TypeOK, TableInv, [Next]_vars
  PROVE  AnswersGoHome'
<1> USE DEF socketVars
<1> SUFFICES ASSUME NEW c \in Conns, Undisturbed(c)', NEW i \in 1 .. Len(down'[c])
             PROVE  down'[c][i] = c
  BY DEF AnswersGoHome
<1>1. Undisturbed(c)
  BY Monotone DEF Undisturbed, SameAddr
<1>2. down[c] \in Seq(Conns) /\ Len(down[c]) \in Nat
      /\ \A j \in 1 .. Len(down[c]) : down[c][j] = c
  BY <1>1, LenProperties DEF TypeOK, TableInv, AnswersGoHome
<1>3. CASE down'[c] = down[c]
  BY <1>2, <1>3
<1>4. ASSUME NEW d \in Conns, ReadAnswer(d)
      PROVE  down'[c][i] = c
  <2>1. CASE d = c
    <3>1. down[c] # <<>> /\ down'[c] = Tail(down[c])
      BY <1>4, <2>1 DEF ReadAnswer, TypeOK
    <3>2. Len(down'[c]) = Len(down[c]) - 1
          /\ \A j \in 1 .. Len(down[c]) - 1 : down'[c][j] = down[c][j + 1]
      BY <1>2, <3>1, HeadTailProperties
    <3> QED BY <1>2, <3>2
  <2>2. CASE d # c
    BY <1>3, <1>4, <2>2 DEF ReadAnswer, TypeOK
  <2> QED BY <2>1, <2>2
<1>5. ASSUME NEW d \in Conns, Close(d)
      PROVE  down'[c][i] = c
  <2>1. down'[c] = <<>> \/ down'[c] = down[c]
    BY <1>5 DEF Close, TypeOK
  <2> QED BY <1>3, <2>1, EmptySeq
<1>6. ASSUME NEW d \in Conns, WriteAnswer(d)
      PROVE  down'[c][i] = c
  <2>1. CASE d = c
    <3>1. answers[c] \in Seq(Conns) /\ answers[c] # <<>>
      BY <1>6, <2>1 DEF WriteAnswer, TypeOK
    <3>2. Head(answers[c]) = answers[c][1] /\ 1 \in 1 .. Len(answers[c])
      BY <3>1, EmptySeq, LenProperties
    <3>3. Head(answers[c]) = c
      BY <1>1, <3>2 DEF TableInv, OwnAnswers
    <3>4. down'[c] = down[c] \/ down'[c] = Append(down[c], c)
      BY <1>6, <2>1, <3>3, ZenonT(60) DEF WriteAnswer, TypeOK
    <3>5. CASE down'[c] = Append(down[c], c)
      <4>1. Len(down'[c]) = Len(down[c]) + 1 /\ down'[c][Len(down[c]) + 1] = c
            /\ \A j \in 1 .. Len(down[c]) : down'[c][j] = down[c][j]
        BY <1>2, <3>5, AppendProperties
      <4> QED BY ONLY <1>2, <4>1, SMTT(60)
    <3> QED BY <1>3, <3>4, <3>5
  <2>2. CASE d # c
    BY <1>3, <1>6, <2>2 DEF WriteAnswer, TypeOK
  <2> QED BY <2>1, <2>2
<1>7. ASSUME NEW d \in Conns, Connect(d) \/ Say(d) \/ SayDamaged(d)
      PROVE  UNCHANGED down
  BY <1>7 DEF Connect, Say, SayDamaged
<1>8. ASSUME NEW d \in Conns, ConnStep(d), ~WriteAnswer(d)
      PROVE  UNCHANGED down
  BY <1>8 DEF ConnStep, WaitForRoom, ReadMessage, ReadDamage, ReadEnd, SeeCancelled
<1>9. ASSUME ManagerStep \/ TakeRequest \/ LeaveLoop \/ UNCHANGED vars
      PROVE  UNCHANGED down
  BY <1>9
     DEF ManagerStep, Accept, ForwardMessage, HandleDisconnect, FinishDisconnect, RouteResponse,
         Stop, FinishStop, TakeRequest, LeaveLoop, vars
<1> QED BY <1>3, <1>4, <1>5, <1>6, <1>7, <1>8, <1>9 DEF Next, ClientStep

\* What the table says of the connections is an invariant.
LEMMA TableHolds == Spec => []TableInv
<1>1. Init => TableInv
  <2> SUFFICES ASSUME Init
               PROVE  TableInv
    OBVIOUS
  <2>1. LastAccepted /\ EndTold /\ CancelledEnded /\ KnownHasConn /\ NobodyCutOff
    BY DEF Init, LastAccepted, EndTold, CancelledEnded, KnownHasConn, NobodyCutOff
  <2>2. responses = <<>> /\ \A c \in Conns : answers[c] = <<>> /\ down[c] = <<>>
    BY DEF Init
  <2>3. Len(responses) = 0 /\ \A c \in Conns : Len(answers[c]) = 0 /\ Len(down[c]) = 0
    BY <2>2, EmptySeq
  <2> QED BY <2>1, <2>3 DEF TableInv, Answered, OwnAnswers, AnswersGoHome, Contains
<1>2. TypeOK /\ OrderInv /\ TableInv /\ [Next]_vars => TableInv'
  BY LastAcceptedStep, AnsweredStep, EndToldStep, CancelledStep, KnownStep, OwnAnswersStep,
     GoHomeStep, CutOffStep DEF TableInv
<1> QED BY <1>1, <1>2, TypeCorrect, OrderHolds, PTL DEF Spec

\* A disconnect on its way is in one of three places.
LEMMA OnItsWay ==
  ASSUME TypeOK, NEW c \in Conns, Contains(Way, Report(c, Disconnect))
  PROVE  Leaving(c)
<1> DEFINE r == Report(c, Disconnect)
<1>1. /\ requests \in Seq(Reports) /\ Held \in Seq(Reports) /\ events \in Seq(Reports)
      /\ Len(requests) \in Nat /\ Len(Held) \in Nat /\ Len(events) \in Nat
      /\ Held \o events \in Seq(Reports)
  BY WayType, LenProperties DEF TypeOK
<1> PICK i \in 1 .. Len(Way) : Way[i] = r
  BY DEF Contains
<1>2. CASE i <= Len(requests)
  <2>1. i \in 1 .. Len(requests) /\ requests[i] = r
    BY <1>1, <1>2, ConcatProperties DEF Way
  <2> QED BY <2>1 DEF Leaving, Contains
<1>3. CASE i > Len(requests)
  <2> DEFINE j == i - Len(requests)
  <2>1. j \in 1 .. Len(Held \o events) /\ (Held \o events)[j] = r
    BY <1>1, <1>3, ConcatProperties DEF Way
  <2>2. CASE j <= Len(Held)
    <3>1. j \in 1 .. Len(Held) /\ Held[j] = r
      BY <1>1, <2>1, <2>2, ConcatProperties
    <3>2. removing # None
      BY <3>1, EmptySeq DEF Held
    <3>3. Held = <<Report(removing.conn, Disconnect)>>
      BY <3>2 DEF Held
    <3>4. removing.conn = c
      BY <3>1, <3>3 DEF Report
    <3> QED BY <3>2, <3>4 DEF Leaving
  <2>3. CASE j > Len(Held)
    <3>1. j - Len(Held) \in 1 .. Len(events) /\ events[j - Len(Held)] = r
      BY <1>1, <2>1, <2>3, ConcatProperties
    <3> QED BY <3>1 DEF Leaving, Contains
  <2> QED BY <1>1, <2>1, <2>2, <2>3
<1> QED BY <1>1, <1>2, <1>3

\* The handler keeps no client whose connection is over and whose end is not on its
\* way to it.
THEOREM NoPhantomClientHolds == Spec => []NoPhantomClient
<1>1. TypeOK /\ OrderInv /\ TableInv => NoPhantomClient
  <2> SUFFICES ASSUME TypeOK, OrderInv, TableInv, NEW a \in known, ~stopping
               PROVE  \E c \in Conns :
                        addrOf[c] = a /\ (c \in reused \/ task[c] \in {"running", "sending"}
                                          \/ Leaving(c))
    BY DEF NoPhantomClient
  <2>1. PICK c \in Conns : addrOf[c] = a /\ c \notin gone /\ task[c] # "none"
    BY DEF TableInv, KnownHasConn
  <2>2. task[c] \in {"running", "sending"} \/ task[c] = "ended"
    BY <2>1 DEF TypeOK
  <2>3. task[c] = "ended" => c \in reused \/ Leaving(c)
    BY <2>1, OnItsWay DEF TableInv, EndTold
  <2> QED BY <2>1, <2>2, <2>3
<1> QED BY <1>1, TypeCorrect, OrderHolds, TableHolds, PTL

\* Answers reach the clients that asked, unless an address was used again too early.
THEOREM AnswersGoHomeHolds == Spec => []AnswersGoHome
<1>1. TableInv => AnswersGoHome
  BY DEF TableInv
<1> QED BY <1>1, TableHolds, PTL

\* The daemon ends no connection of a client that is there, with the same exception.
THEOREM NobodyCutOffHolds == Spec => []NobodyCutOff
<1>1. TableInv => NobodyCutOff
  BY DEF TableInv
<1> QED BY <1>1, TableHolds, PTL
===============================================================================
