------------------------------ MODULE ConsoleProofs ------------------------------
(***************************************************************************)
(* Theorems about the terminal console, for every menu and however much is *)
(* asked and changed by others.  While the console runs and the daemon is  *)
(* there both tasks of the client run (Linked), so that every request is   *)
(* served and answered; the last answer about a mode that is on its way    *)
(* says what the mode is, unless others changed it since (Truth).          *)
(***************************************************************************)
EXTENDS Console, SequenceTheorems, WellFoundedInduction, TLAPS

\* The shutdown has its two numbers left.
Asked == pc # "exited" => asked <= MaxAsked

\* Only the token or the daemon's end stop a task of the client.
Linked == pc # "exited" /\ ~hungUp => writer = "running" /\ reader = "running" /\ ~token

\* The last answer about x, in the channel or behind it in the socket, is true.
TrueInSocket(x) ==
  \A i \in 1 .. Len(down) : down[i].what = x =>
    down[i].enabled = state[x] \/ \E j \in i + 1 .. Len(down) : down[j].what = x

TrueInChannel(x) ==
  \A i \in 1 .. Len(incoming) : incoming[i].what = x =>
    \/ incoming[i].enabled = state[x]
    \/ \E j \in i + 1 .. Len(incoming) : incoming[j].what = x
    \/ \E j \in 1 .. Len(down) : down[j].what = x

\* UnderWay, by the places in the four queues.
InQueues(x) ==
  \/ \E i \in 1 .. Len(outbox) : outbox[i].command.about = x
  \/ \E i \in 1 .. Len(up) : up[i].command.about = x
  \/ \E i \in 1 .. Len(down) : down[i].what = x
  \/ \E i \in 1 .. Len(incoming) : incoming[i].what = x

Current(x) == InQueues(x) \/ view[x] \in {"unknown", IF state[x] THEN "enabled" ELSE "disabled"}

Truth ==
  pc # "exited" /\ ~hungUp =>
    \A x \in Modes \ foreign : TrueInSocket(x) /\ TrueInChannel(x) /\ Current(x)

\* The request that gives the inhibit back.
Returns(r) == r.command.about = "inhibit" /\ r.command.ask = "off"

\* What the console held when it left is on its way to the daemon as the last it
\* says, or was given back.
Returned ==
  pc = "exited" /\ ~hungUp /\ ~killed /\ view["inhibit"] \notin {"unknown", "disabled"} =>
    \/ outbox # <<>> /\ Returns(outbox[Len(outbox)])
    \/ outbox = <<>> /\ up # <<>> /\ Returns(up[Len(up)])
    \/ outbox = <<>> /\ up = <<>> /\ (state["inhibit"] => "inhibit" \in foreign)

\* The daemon hears of the end of the connection behind all that was said on it.
Over == session = "gone" => SocketClosed /\ up = <<>>

TypeInv == TypeOK /\ Asked

-------------------------------------------------------------------------------
(* Sequences.                                                                 *)

\* A set of places that is not empty has a last one.
LEMMA LastPlace ==
  ASSUME NEW n \in Nat, NEW S, S \subseteq 1 .. n, S # {}
  PROVE  Max(S) \in S /\ \A i \in S : i <= Max(S)
<1> DEFINE T == {n - i : i \in S}
<1>1. T \subseteq Nat /\ T # {}
  <2>1. \A i \in S : n - i \in Nat
    OBVIOUS
  <2>2. \E i \in S : TRUE
    OBVIOUS
  <2> QED BY <2>1, <2>2
<1>2. PICK t \in T : \A u \in T : <<u, t>> \notin OpToRel(<, Nat)
  <2> HIDE DEF T
  <2> QED BY <1>1, NatLessThanWellFounded, WFMin
<1>3. PICK m \in S : t = n - m
  BY <1>2
<1>4. ASSUME NEW i \in S
      PROVE  i <= m
  <2>1. n - i \in Nat /\ t \in Nat /\ n - i \in T
    BY <1>3
  <2>2. ~(n - i < t)
    BY <1>2, <2>1 DEF OpToRel
  <2> QED BY <1>3, <2>1, <2>2
<1> QED BY <1>4 DEF Max

\* A sequence without its head.
LEMMA TailIs ==
  ASSUME NEW S, NEW s \in Seq(S), s # <<>>
  PROVE  /\ Tail(s) \in Seq(S) /\ Head(s) \in S /\ Head(s) = s[1]
         /\ Len(s) \in Nat \ {0} /\ Len(Tail(s)) = Len(s) - 1
         /\ \A i \in 1 .. Len(Tail(s)) : Tail(s)[i] = s[i + 1]
<1>1. Len(s) \in Nat \ {0}
  BY EmptySeq, LenProperties
<1> QED BY <1>1, HeadTailProperties

\* A sequence with one more element.
LEMMA AppendIs ==
  ASSUME NEW S, NEW s \in Seq(S), NEW e \in S
  PROVE  /\ Append(s, e) \in Seq(S) /\ Len(s) \in Nat
         /\ Len(Append(s, e)) = Len(s) + 1
         /\ \A i \in 1 .. Len(s) : Append(s, e)[i] = s[i]
         /\ Append(s, e)[Len(s) + 1] = e
  BY AppendProperties, LenProperties

\* A sequence over a set is one over every larger set.
LEMMA LargerSet ==
  ASSUME NEW S, NEW T, S \subseteq T, NEW s \in Seq(S)
  PROVE  s \in Seq(T)
<1>1. Len(s) \in Nat /\ s \in [1 .. Len(s) -> S]
  BY LenProperties
<1>2. s \in [1 .. Len(s) -> T]
  BY <1>1
<1> QED BY <1>1, <1>2, SeqDef

\* The elements of a sequence are those at its places.
LEMMA Elements ==
  ASSUME NEW S, NEW s \in Seq(S)
  PROVE  ToSet(s) = {s[i] : i \in 1 .. Len(s)}
  BY LenProperties DEF ToSet

-------------------------------------------------------------------------------
(* Types.                                                                     *)

\* What a request adds to the writer's channel.
Numbered(commands) == [i \in 1 .. Len(commands) |-> [id |-> asked + i, command |-> commands[i]]]

\* A request, or two at shutdown, fits the types.
LEMMA RequestTypes ==
  ASSUME TypeOK, asked <= MaxAsked, NEW commands \in Seq(Commands),
         Len(commands) <= 2, Request(commands)
  PROVE  /\ outbox' \in Seq(Requests) /\ view' \in [Modes -> Views]
         /\ asked' \in 0 .. (MaxAsked + 2) /\ asked' <= asked + Len(commands)
         /\ pending' \subseteq 1 .. asked'
<1>1. /\ Len(commands) \in Nat /\ asked \in Nat /\ MaxAsked \in Nat
      /\ outbox \in Seq(Requests) /\ view \in [Modes -> Views] /\ pending \subseteq 1 .. asked
  BY LenProperties, ConsoleAssumption DEF TypeOK, ClientTypes
<1>2. CASE ~CanSend
  <2>1. outbox' = outbox /\ pending' = pending /\ asked' = asked /\ view' = view
    BY <1>2 DEF Request
  <2>2. asked \in 0 .. (MaxAsked + 2) /\ asked <= asked + Len(commands)
    BY <1>1
  <2> QED BY <1>1, <2>1, <2>2
<1>3. CASE CanSend
  <2>1. Numbered(commands) \in Seq(Requests)
    <3>1. ASSUME NEW i \in 1 .. Len(commands)
          PROVE  [id |-> asked + i, command |-> commands[i]] \in Requests
      <4>1. asked + i \in Ids /\ commands[i] \in Commands
        BY <1>1, ElementOfSeq DEF Ids
      <4> QED BY <4>1 DEF Requests
    <3>2. Numbered(commands) \in [1 .. Len(commands) -> Requests]
      BY <3>1 DEF Numbered
    <3> QED BY <1>1, <3>2, SeqDef
  <2>2. outbox' \in Seq(Requests)
    BY <1>1, <1>3, <2>1, ConcatProperties, ZenonT(120) DEF Request, Numbered
  <2>3. view' \in [Modes -> Views]
    <3>1. \A a : Wanted(a) \in Views
      BY DEF Wanted, Views
    <3> QED BY <1>1, <1>3, <3>1 DEF Request
  <2>4. asked' = asked + Len(commands) /\ pending' = pending \cup ((asked + 1) .. (asked + Len(commands)))
    BY <1>3 DEF Request
  <2>5. /\ asked' \in 0 .. (MaxAsked + 2) /\ asked' <= asked + Len(commands)
        /\ 1 .. asked \subseteq 1 .. asked' /\ (asked + 1) .. (asked + Len(commands)) \subseteq 1 .. asked'
    BY <1>1, <2>4
  <2>6. pending' \subseteq 1 .. asked'
    BY <1>1, <2>4, <2>5
  <2> QED BY <2>2, <2>3, <2>5, <2>6
<1> QED BY <1>2, <1>3

\* The two requests of the shutdown.
Parting == LET held == {"enabled", "enabling", "disabling"}
           IN  GiveBack("manual", held) \o GiveBack("inhibit", held)

\* They are one command for each mode that is held, that of the inhibit last.
LEMMA PartingIs ==
  /\ Parting \in Seq(Commands) /\ Len(Parting) <= 2
  /\ view["inhibit"] \in {"enabled", "enabling", "disabling"} =>
       /\ Len(Parting) >= 1
       /\ Parting[Len(Parting)] = [about |-> "inhibit", ask |-> "off"]
       /\ \E i \in 1 .. Len(Parting) : Parting[i].about = "inhibit"
  /\ view["inhibit"] \notin {"enabled", "enabling", "disabling"} =>
       \A i \in 1 .. Len(Parting) : Parting[i].about # "inhibit"
<1> DEFINE held == {"enabled", "enabling", "disabling"}
           first == GiveBack("manual", held)
           second == GiveBack("inhibit", held)
<1>1. /\ [about |-> "manual", ask |-> "off"] \in Commands
      /\ [about |-> "inhibit", ask |-> "off"] \in Commands
  BY DEF Commands, Modes
<1>2. \/ first = <<>>
      \/ first = <<[about |-> "manual", ask |-> "off"]>>
  BY DEF GiveBack
<1>3. \/ second = <<>> /\ view["inhibit"] \notin held
      \/ second = <<[about |-> "inhibit", ask |-> "off"]>> /\ view["inhibit"] \in held
  BY DEF GiveBack
<1>4. Parting = first \o second
  BY DEF Parting
<1> HIDE DEF first, second
<1>5. first \in Seq(Commands) /\ second \in Seq(Commands)
  <2>1. <<>> \in Seq(Commands) /\ \A c \in Commands : <<c>> \in Seq(Commands)
    OBVIOUS
  <2> QED BY <1>1, <1>2, <1>3, <2>1
<1>6. Parting \in Seq(Commands) /\ Len(Parting) = Len(first) + Len(second)
      /\ \A i \in 1 .. Len(Parting) :
           Parting[i] = IF i <= Len(first) THEN first[i] ELSE second[i - Len(first)]
  BY <1>4, <1>5, ConcatProperties
<1> QED BY <1>2, <1>3, <1>6

\* What the client's tasks do, and the daemon's end, fits the types.
LEMMA ClientKeepsTypes ==
  ASSUME TypeInv, (WriterStep \/ ReaderStep \/ DaemonHangsUp) /\ UNCHANGED <<consoleVars, daemonVars>>
  PROVE  TypeInv'
<1>1. /\ outbox \in Seq(Requests) /\ up \in Seq(Requests)
      /\ down \in Seq(Answers) /\ incoming \in Seq(Answers)
  BY DEF TypeInv, TypeOK, ClientTypes
<1>2. CASE WriterSend
  <2>1. outbox' \in Seq(Requests) /\ Head(outbox) \in Requests
    BY <1>1, <1>2, TailIs DEF WriterSend
  <2>2. up' \in Seq(Requests)
    <3>1. Append(up, Head(outbox)) \in Seq(Requests)
      BY <1>1, <2>1, AppendIs
    <3>2. up' = up \/ up' = Append(up, Head(outbox))
      BY <1>2 DEF WriterSend
    <3> QED BY <1>1, <3>1, <3>2
  <2> QED BY <1>2, <2>1, <2>2 DEF WriterSend, TypeInv, TypeOK, ClientTypes, Asked, consoleVars, daemonVars
<1>3. CASE WriterCancelled
  BY <1>3 DEF WriterCancelled, TypeInv, TypeOK, ClientTypes, Asked, consoleVars, daemonVars
<1>4. CASE ReaderForward
  <2>1. down' \in Seq(Answers) /\ Head(down) \in Answers
    BY <1>1, <1>4, TailIs DEF ReaderForward
  <2>2. incoming' \in Seq(Answers)
    BY <1>1, <1>4, <2>1, AppendIs DEF ReaderForward
  <2> QED BY <1>4, <2>1, <2>2 DEF ReaderForward, TypeInv, TypeOK, ClientTypes, Asked, consoleVars, daemonVars
<1>5. CASE ReaderEnd
  BY <1>5 DEF ReaderEnd, TypeInv, TypeOK, ClientTypes, Asked, consoleVars, daemonVars
<1>6. CASE DaemonHangsUp
  <2>1. <<>> \in Seq(Requests)
    OBVIOUS
  <2> QED BY <1>6, <2>1 DEF DaemonHangsUp, TypeInv, TypeOK, ClientTypes, Asked, consoleVars, daemonVars
<1> QED BY <1>2, <1>3, <1>4, <1>5, <1>6 DEF WriterStep, ReaderStep

\* The same for the console.
LEMMA ConsoleKeepsTypes ==
  ASSUME TypeInv, ConsoleStep \/ TerminalFails \/ Kill
  PROVE  TypeInv'
<1>1. CASE Drain
  <2>1. incoming' \in Seq(Answers)
    BY <1>1 DEF Drain
  <2>2. view' \in [Modes -> Views]
    BY <1>1 DEF Drain, TypeInv, TypeOK, Views
  <2>3. pending' \subseteq 1 .. asked' /\ running' \in BOOLEAN /\ pc' = "reading"
    BY <1>1 DEF Drain, TypeInv, TypeOK
  <2> QED BY <1>1, <2>1, <2>2, <2>3 DEF Drain, TypeInv, TypeOK, ClientTypes, Asked, daemonVars
<1>2. CASE ReadInput
  <2>1. PICK on \in BOOLEAN : Read(on)
    BY <1>2 DEF ReadInput, NoKey, QuitKey, ToggleKey, EnterKey, TypeInv, TypeOK
  <2>2. /\ asked' \in 0 .. (MaxAsked + 2) /\ asked' <= MaxAsked
        /\ outbox' \in Seq(Requests) /\ view' \in [Modes -> Views] /\ pending' \subseteq 1 .. asked'
    <3>1. CASE NoKey \/ QuitKey
      BY <2>1, <3>1 DEF NoKey, QuitKey, Read, TypeInv, TypeOK, ClientTypes, Asked
    <3>2. ASSUME NEW c \in Commands, asked < MaxAsked, Request(<<c>>)
          PROVE  /\ asked' \in 0 .. (MaxAsked + 2) /\ asked' <= MaxAsked
                 /\ outbox' \in Seq(Requests) /\ view' \in [Modes -> Views] /\ pending' \subseteq 1 .. asked'
      <4>1. PICK one : one = <<c>>
        OBVIOUS
      <4>2. one \in Seq(Commands) /\ Len(one) = 1 /\ Request(one)
        BY <3>2, <4>1
      <4>3. asked \in Nat /\ MaxAsked \in Nat
        BY ConsoleAssumption DEF TypeInv, TypeOK
      <4>4. /\ asked' \in 0 .. (MaxAsked + 2) /\ asked' <= asked + 1
            /\ outbox' \in Seq(Requests) /\ view' \in [Modes -> Views] /\ pending' \subseteq 1 .. asked'
        BY <3>2, <4>2, <4>3, RequestTypes DEF TypeInv
      <4>5. asked' <= MaxAsked
        BY <3>2, <4>3, <4>4
      <4> QED BY <4>4, <4>5
    <3>3. ASSUME NEW x \in Modes, ToggleKey(x)
          PROVE  \E c \in Commands : asked < MaxAsked /\ Request(<<c>>)
      BY <3>3 DEF ToggleKey, Commands
    <3>4. ASSUME NEW c \in Menu, EnterKey(c)
          PROVE  c \in Commands /\ asked < MaxAsked /\ Request(<<c>>)
      BY <3>4, ConsoleAssumption DEF EnterKey
    <3> QED BY <1>2, <3>1, <3>2, <3>3, <3>4 DEF ReadInput
  <2> QED BY <2>1, <2>2 DEF Read, TypeInv, TypeOK, ClientTypes, Asked, daemonVars
<1>3. CASE Shutdown
  <2>1. pc = "leaving" /\ pc' = "exited" /\ Request(Parting)
    BY <1>3 DEF Shutdown, Parting
  <2>2. /\ asked' \in 0 .. (MaxAsked + 2)
        /\ outbox' \in Seq(Requests) /\ view' \in [Modes -> Views] /\ pending' \subseteq 1 .. asked'
    BY <2>1, PartingIs, RequestTypes DEF TypeInv, Asked
  <2> QED BY <1>3, <2>1, <2>2 DEF Shutdown, TypeInv, TypeOK, ClientTypes, Asked, daemonVars
<1>4. CASE DropRuntime
  BY <1>4 DEF DropRuntime, TypeInv, TypeOK, ClientTypes, Asked, consoleVars, daemonVars
<1>5. CASE TerminalFails
  BY <1>5 DEF TerminalFails, TypeInv, TypeOK, ClientTypes, clientVars, Asked, daemonVars
<1>6. CASE Kill
  BY <1>6 DEF Kill, TypeInv, TypeOK, ClientTypes, Asked, daemonVars
<1> QED BY <1>1, <1>2, <1>3, <1>4, <1>5, <1>6 DEF ConsoleStep

\* The request that is served, the mode it leaves, and what it is answered.
Command      == Head(up).command
After        == IF Command.ask \in {"on", "off"}
                THEN [state EXCEPT ![Command.about] = (Command.ask = "on")]
                ELSE state
Reply        == IF Command.about = "led"
                THEN <<IF state["manual"] THEN Ack(Head(up).id) ELSE Nack(Head(up).id)>>
                ELSE <<Say(Head(up).id, Command.about, After[Command.about]), Ack(Head(up).id)>>

\* What is served is a request, and its answers are answers; only the mode it is
\* about can change, and a mode is told as it is.
LEMMA Served ==
  ASSUME TypeOK, up # <<>>
  PROVE  /\ Head(up).id \in Ids /\ Command \in Commands
         /\ After \in [Modes -> BOOLEAN] /\ \A x \in Modes \ {Command.about} : After[x] = state[x]
         /\ Reply \in Seq(Answers)
         /\ \A i \in 1 .. Len(Reply) : \A x \in Modes : Reply[i].what = x =>
              x = Command.about /\ Reply[i].enabled = After[x]
         /\ Command.about \in Modes => Len(Reply) = 2 /\ Reply[1].what = Command.about
         /\ Command.ask = "off" => After[Command.about] = FALSE
<1>1. Head(up) \in Requests
  BY TailIs DEF TypeOK, ClientTypes
<1>2. Head(up).id \in Ids /\ Command \in Commands
  BY <1>1 DEF Requests, Command
<1>3. \/ Command.about \in Modes /\ Command.ask \in {"get", "on", "off"}
      \/ Command.about = "led" /\ Command.ask = "draw"
  <2>1. CASE Command \in [about : Modes, ask : {"get", "on", "off"}]
    BY <2>1
  <2>2. CASE Command = [about |-> "led", ask |-> "draw"]
    BY <2>2
  <2> QED BY <1>2, <2>1, <2>2 DEF Commands
<1>4. /\ After \in [Modes -> BOOLEAN] /\ \A x \in Modes \ {Command.about} : After[x] = state[x]
      /\ Command.ask = "off" => After[Command.about] = FALSE
  BY <1>3 DEF After, TypeOK
<1>5. CASE Command.about = "led"
  <2>1. PICK a \in Answers : a.what \in {"ack", "nack"} /\ Reply = <<a>>
    <3>1. Ack(Head(up).id) \in Answers /\ Nack(Head(up).id) \in Answers
      BY <1>2 DEF Answers, Ack, Nack
    <3>2. Ack(Head(up).id).what = "ack" /\ Nack(Head(up).id).what = "nack"
      BY DEF Ack, Nack
    <3>3. \/ Reply = <<Ack(Head(up).id)>>
          \/ Reply = <<Nack(Head(up).id)>>
      BY <1>5 DEF Reply
    <3> QED BY <3>1, <3>2, <3>3
  <2> QED BY <1>2, <1>4, <1>5, <2>1 DEF Modes
<1>6. CASE Command.about \in Modes
  <2> DEFINE said == Say(Head(up).id, Command.about, After[Command.about])
             ack  == Ack(Head(up).id)
  <2>1. /\ said \in Answers /\ said.what = Command.about /\ said.enabled = After[Command.about]
        /\ ack \in Answers /\ ack.what = "ack"
    BY <1>2, <1>4, <1>6 DEF Answers, Say, Ack
  <2>2. Reply = <<said, ack>>
    BY <1>6 DEF Reply, Modes
  <2> HIDE DEF said, ack
  <2>3. Reply \in Seq(Answers) /\ Len(Reply) = 2 /\ Reply[1] = said /\ Reply[2] = ack
    BY <2>1, <2>2
  <2>4. \A x \in Modes : ack.what # x
    BY <2>1 DEF Modes
  <2> QED BY <1>2, <1>4, <1>6, <2>1, <2>3, <2>4
<1> QED BY <1>3, <1>5, <1>6

\* The same for the daemon, the other client and the timer.
LEMMA DaemonKeepsTypes ==
  ASSUME TypeInv,
         \/ Serve \/ ServeEnd \/ InhibitExpires \/ OtherLeaves
         \/ \E x \in Modes, on \in BOOLEAN : OtherSets(x, on)
  PROVE  TypeInv'
<1>1. CASE Serve
  <2>1. /\ up # <<>> /\ up' = Tail(up) /\ state' = After /\ foreign' = foreign \ {Command.about}
        /\ down' = IF SocketClosed THEN down ELSE down \o Reply
        /\ session' = "known"
    BY <1>1 DEF Serve, After, Reply, Command
  <2>2. up' \in Seq(Requests) /\ down' \in Seq(Answers)
    BY <2>1, Served, TailIs, ConcatProperties DEF TypeInv, TypeOK, ClientTypes
  <2>3. state' \in [Modes -> BOOLEAN]
    BY <2>1, Served DEF TypeInv
  <2> QED BY <1>1, <2>1, <2>2, <2>3 DEF Serve, TypeInv, TypeOK, ClientTypes, Asked, consoleVars
<1>2. CASE ServeEnd
  BY <1>2 DEF ServeEnd, TypeInv, TypeOK, ClientTypes, Asked, clientVars, consoleVars
<1>3. ASSUME NEW x \in Modes, NEW on \in BOOLEAN, Meddle(x, on)
      PROVE  /\ meddled' \in 0 .. MaxMeddled /\ state' \in [Modes -> BOOLEAN] /\ foreign' \subseteq Modes
  BY <1>3, ConsoleAssumption DEF Meddle, TypeInv, TypeOK
<1>4. ASSUME NEW x \in Modes, NEW on \in BOOLEAN, OtherSets(x, on)
      PROVE  TypeInv'
  BY <1>3, <1>4 DEF OtherSets, TypeInv, TypeOK, ClientTypes, Asked, clientVars, consoleVars
<1>5. CASE InhibitExpires
  <2>1. "inhibit" \in Modes /\ Meddle("inhibit", FALSE)
    BY <1>5 DEF InhibitExpires, Modes
  <2> QED BY <1>3, <1>5, <2>1, ZenonT(120) DEF InhibitExpires, TypeInv, TypeOK, ClientTypes, Asked, clientVars, consoleVars
<1>6. CASE OtherLeaves
  <2>1. "manual" \in Modes
    BY DEF Modes
  <2>2. meddled' \in 0 .. MaxMeddled /\ state' \in [Modes -> BOOLEAN] /\ foreign' \subseteq Modes
    BY <1>3, <1>6, <2>1 DEF OtherLeaves, TypeInv, TypeOK
  <2> QED BY <1>6, <2>2 DEF OtherLeaves, TypeInv, TypeOK, ClientTypes, Asked, clientVars, consoleVars
<1> QED BY <1>1, <1>2, <1>4, <1>5, <1>6

\* The types are inductive.
LEMMA TypesHold == Spec => []TypeInv
<1>1. Init => TypeInv
  <2>1. <<>> \in Seq(Requests) /\ <<>> \in Seq(Answers)
    OBVIOUS
  <2>2. 0 \in 0 .. (MaxAsked + 2) /\ 0 \in 0 .. MaxMeddled /\ 0 <= MaxAsked
    BY ConsoleAssumption
  <2> QED BY <2>1, <2>2 DEF Init, Connected, TypeInv, TypeOK, ClientTypes, Asked, Views
<1>2. TypeInv /\ [Next]_vars => TypeInv'
  <2> SUFFICES ASSUME TypeInv, [Next]_vars
               PROVE  TypeInv'
    OBVIOUS
  <2>1. CASE UNCHANGED vars
    BY <2>1 DEF vars, clientVars, consoleVars, daemonVars, TypeInv, TypeOK, ClientTypes, Asked
  <2> QED BY <2>1, ClientKeepsTypes, ConsoleKeepsTypes, DaemonKeepsTypes DEF Next
<1> QED BY <1>1, <1>2, PTL DEF Spec

\* The console, its client and the daemon keep their types.
THEOREM TypeCorrect == Spec => []TypeOK
<1>1. TypeInv => TypeOK
  BY DEF TypeInv
<1> QED BY <1>1, TypesHold, PTL

-------------------------------------------------------------------------------
(* Both tasks run while the console does.                                     *)

\* Nothing but the end of the console or of the daemon ends a task.
LEMMA LinkedHolds == Spec => []Linked
<1>1. Init => Linked
  BY DEF Init, Connected, Linked
<1>2. Linked /\ [Next]_vars => Linked'
  <2> SUFFICES ASSUME Linked, [Next]_vars
               PROVE  Linked'
    OBVIOUS
  <2>1. CASE UNCHANGED vars
    BY <2>1 DEF vars, clientVars, consoleVars, Linked
  <2>2. CASE ConsoleStep \/ TerminalFails \/ Kill
    <3>1. CASE Drain
      BY <3>1 DEF Drain, Linked
    <3>2. CASE ReadInput
      BY <3>2 DEF ReadInput, NoKey, QuitKey, ToggleKey, EnterKey, Read, Linked
    <3>3. CASE TerminalFails
      BY <3>3 DEF TerminalFails, clientVars, Linked
    <3>4. CASE Shutdown \/ DropRuntime \/ Kill
      BY <3>4 DEF Shutdown, DropRuntime, Kill, consoleVars, Linked
    <3> QED BY <2>2, <3>1, <3>2, <3>3, <3>4 DEF ConsoleStep
  <2>3. CASE (WriterStep \/ ReaderStep \/ DaemonHangsUp) /\ UNCHANGED <<consoleVars, daemonVars>>
    BY <2>3 DEF WriterStep, WriterSend, WriterCancelled, ReaderStep, ReaderForward, ReaderEnd,
                DaemonHangsUp, consoleVars, Linked
  <2>4. ASSUME \/ Serve \/ ServeEnd \/ InhibitExpires \/ OtherLeaves
               \/ \E x \in Modes, on \in BOOLEAN : OtherSets(x, on)
        PROVE  UNCHANGED <<pc, hungUp, writer, reader, token>>
    BY <2>4 DEF Serve, ServeEnd, InhibitExpires, OtherLeaves, OtherSets, clientVars, consoleVars
  <2> QED BY <2>1, <2>2, <2>3, <2>4 DEF Next, Linked
<1> QED BY <1>1, <1>2, PTL DEF Spec

-------------------------------------------------------------------------------
(* The view.                                                                  *)

\* What is true of one mode while the console runs and the daemon is there.
Known(x) == TrueInSocket(x) /\ TrueInChannel(x) /\ Current(x)

\* UnderWay speaks of the places in the queues.
LEMMA UnderWayIs ==
  ASSUME TypeOK, NEW x \in Modes
  PROVE  UnderWay(x) <=> InQueues(x)
<1>1. /\ ToSet(outbox) = {outbox[i] : i \in 1 .. Len(outbox)}
      /\ ToSet(up) = {up[i] : i \in 1 .. Len(up)}
      /\ ToSet(down) = {down[i] : i \in 1 .. Len(down)}
      /\ ToSet(incoming) = {incoming[i] : i \in 1 .. Len(incoming)}
  BY Elements DEF TypeOK, ClientTypes
<1>2. /\ (\E m \in ToSet(outbox) : m.command.about = x) <=>
           \E i \in 1 .. Len(outbox) : outbox[i].command.about = x
      /\ (\E m \in ToSet(up) : m.command.about = x) <=>
           \E i \in 1 .. Len(up) : up[i].command.about = x
      /\ (\E a \in ToSet(down) : a.what = x) <=> \E i \in 1 .. Len(down) : down[i].what = x
      /\ (\E a \in ToSet(incoming) : a.what = x) <=>
           \E i \in 1 .. Len(incoming) : incoming[i].what = x
  BY <1>1
<1> QED BY <1>2 DEF UnderWay, InQueues

\* The drain shows the last answer about x, which is true unless another is behind it.
LEMMA DrainKnows ==
  ASSUME TypeOK, NEW x \in Modes, Known(x), Drain
  PROVE  Known(x)'
<1>1. /\ incoming' = <<>> /\ UNCHANGED <<outbox, up, down, state>>
      /\ view'[x] = IF Told(x) = {} THEN view[x]
                    ELSE IF incoming[Max(Told(x))].enabled THEN "enabled" ELSE "disabled"
  BY DEF Drain, daemonVars
<1>2. TrueInSocket(x)' /\ TrueInChannel(x)'
  BY <1>1 DEF Known, TrueInSocket, TrueInChannel
<1>3. CASE InQueues(x)'
  BY <1>2, <1>3 DEF Known, Current
<1>4. CASE ~InQueues(x)'
  <2>1. /\ ~\E i \in 1 .. Len(outbox) : outbox[i].command.about = x
        /\ ~\E i \in 1 .. Len(up) : up[i].command.about = x
        /\ ~\E i \in 1 .. Len(down) : down[i].what = x
    BY <1>1, <1>4 DEF InQueues
  <2>2. CASE Told(x) = {}
    <3>1. ~InQueues(x)
      BY <2>1, <2>2 DEF InQueues, Told
    <3> QED BY <1>1, <1>2, <2>2, <3>1 DEF Known, Current
  <2>3. CASE Told(x) # {}
    <3>1. Len(incoming) \in Nat /\ state[x] \in BOOLEAN
      BY LenProperties DEF TypeOK, ClientTypes
    <3>2. Told(x) \subseteq 1 .. Len(incoming)
      BY DEF Told
    <3>3. PICK last \in Told(x) : last = Max(Told(x)) /\ \A i \in Told(x) : i <= last
      BY <2>3, <3>1, <3>2, LastPlace
    <3>4. ~\E j \in last + 1 .. Len(incoming) : incoming[j].what = x
      <4> SUFFICES ASSUME NEW j \in last + 1 .. Len(incoming), incoming[j].what = x
                   PROVE  FALSE
        OBVIOUS
      <4>1. j \in 1 .. Len(incoming) /\ ~(j <= last)
        BY <3>1, <3>2
      <4>2. j \in Told(x)
        BY <4>1 DEF Told
      <4> QED BY <3>3, <4>1, <4>2
    <3>5. incoming[last].enabled = state[x]
      <4>1. last \in 1 .. Len(incoming) /\ incoming[last].what = x
        BY DEF Told
      <4> QED BY <2>1, <3>4, <4>1 DEF Known, TrueInChannel
    <3>6. view'[x] = IF state[x] THEN "enabled" ELSE "disabled"
      BY <1>1, <2>3, <3>3, <3>5
    <3> QED BY <1>1, <1>2, <3>6 DEF Known, Current
  <2> QED BY <2>2, <2>3
<1> QED BY <1>3, <1>4

\* A key keeps the view true: what it asks about is under way.
LEMMA KeyKnows ==
  ASSUME TypeOK, NEW x \in Modes, Known(x), CanSend, ReadInput
  PROVE  Known(x)'
<1>1. UNCHANGED <<up, down, incoming, state>>
  BY DEF ReadInput, NoKey, QuitKey, ToggleKey, EnterKey, Read, daemonVars
<1>2. TrueInSocket(x)' /\ TrueInChannel(x)'
  BY <1>1 DEF Known, TrueInSocket, TrueInChannel
<1>3. CASE UNCHANGED <<outbox, view>>
  <2>1. InQueues(x) <=> InQueues(x)'
    BY <1>1, <1>3 DEF InQueues
  <2> QED BY <1>1, <1>2, <1>3, <2>1 DEF Known, Current
<1>4. ASSUME NEW c \in Commands, Request(<<c>>)
      PROVE  Current(x)'
  <2>1. PICK one : one = <<c>>
    OBVIOUS
  <2>2. one \in Seq(Commands) /\ Len(one) = 1 /\ one[1] = c
    BY <2>1
  <2>3. /\ outbox' = outbox \o Numbered(one)
        /\ view' = [y \in Modes |->
                      IF \E d \in ToSet(one) : d.about = y /\ d.ask # "get"
                      THEN Wanted((CHOOSE d \in ToSet(one) : d.about = y).ask)
                      ELSE view[y]]
    BY <1>4, <2>1 DEF Request, Numbered
  <2>4. ToSet(one) = {c}
    BY <2>2 DEF ToSet
  <2>5. c.about # x => view'[x] = view[x]
    BY <2>3, <2>4
  <2>6. /\ Numbered(one) \in Seq({[id |-> asked + 1, command |-> c]})
        /\ Len(Numbered(one)) = 1 /\ Numbered(one)[1] = [id |-> asked + 1, command |-> c]
    <3>1. Numbered(one) = [i \in 1 .. 1 |-> [id |-> asked + i, command |-> one[i]]]
      BY <2>2 DEF Numbered
    <3>2. \A i \in 1 .. 1 : [id |-> asked + i, command |-> one[i]] = [id |-> asked + 1, command |-> c]
      BY <2>2
    <3>3. Numbered(one) \in [1 .. 1 -> {[id |-> asked + 1, command |-> c]}]
      BY <3>1, <3>2
    <3>4. Numbered(one) \in Seq({[id |-> asked + 1, command |-> c]})
      BY <3>3, SeqDef
    <3> QED BY <3>1, <3>2, <3>3, <3>4, LenProperties
  <2>7. /\ Len(outbox) \in Nat /\ Len(outbox') = Len(outbox) + 1
        /\ \A i \in 1 .. Len(outbox) : outbox'[i] = outbox[i]
        /\ outbox'[Len(outbox) + 1].command = c
    <3>1. outbox \in Seq(Requests) /\ Len(outbox) \in Nat
      BY LenProperties DEF TypeOK, ClientTypes
    <3>2. /\ Len(outbox') = Len(outbox) + Len(Numbered(one))
          /\ \A i \in 1 .. Len(outbox) + Len(Numbered(one)) :
               outbox'[i] = IF i <= Len(outbox) THEN outbox[i] ELSE Numbered(one)[i - Len(outbox)]
      <4>1. outbox \in Seq(Requests \cup {[id |-> asked + 1, command |-> c]})
        BY <3>1, LargerSet
      <4>2. Numbered(one) \in Seq(Requests \cup {[id |-> asked + 1, command |-> c]})
        BY <2>6, LargerSet
      <4> QED BY <2>3, <4>1, <4>2, ConcatProperties
    <3>3. Len(outbox) + 1 \in 1 .. Len(outbox) + 1 /\ ~(Len(outbox) + 1 <= Len(outbox))
          /\ Len(outbox) + 1 - Len(outbox) = 1
          /\ \A i \in 1 .. Len(outbox) : i \in 1 .. Len(outbox) + 1 /\ i <= Len(outbox)
      BY <3>1
    <3> QED BY <2>6, <3>1, <3>2, <3>3
  <2>8. CASE c.about = x
    <3>1. Len(outbox) + 1 \in 1 .. Len(outbox')
      BY <2>7
    <3> QED BY <2>7, <2>8, <3>1 DEF Current, InQueues
  <2>9. CASE c.about # x
    <3>1. InQueues(x) => InQueues(x)'
      <4>1. \A i \in 1 .. Len(outbox) : i \in 1 .. Len(outbox') /\ outbox'[i] = outbox[i]
        BY <2>7
      <4> QED BY <1>1, <4>1 DEF InQueues
    <3> QED BY <1>1, <2>5, <2>9, <3>1 DEF Known, Current
  <2> QED BY <2>8, <2>9
<1>5. \/ UNCHANGED <<outbox, view>>
      \/ \E c \in Commands : Request(<<c>>)
  <2>1. ASSUME NEW y \in Modes, ToggleKey(y)
        PROVE  \E c \in Commands : Request(<<c>>)
    BY <2>1 DEF ToggleKey, Commands
  <2>2. ASSUME NEW c \in Menu, EnterKey(c)
        PROVE  c \in Commands /\ Request(<<c>>)
    BY <2>2, ConsoleAssumption DEF EnterKey
  <2> QED BY <2>1, <2>2 DEF ReadInput, NoKey, QuitKey
<1> QED BY <1>2, <1>3, <1>4, <1>5 DEF Known

\* The client's tasks hand on what is under way.
LEMMA TasksKnow ==
  ASSUME TypeOK, NEW x \in Modes, Known(x), WriterStep \/ ReaderStep, UNCHANGED <<view, state>>, ~hungUp
  PROVE  Known(x)'
<1>1. CASE WriterSend
  <2>1. /\ outbox # <<>> /\ outbox' = Tail(outbox) /\ up' = Append(up, Head(outbox))
        /\ UNCHANGED <<down, incoming>>
    BY <1>1 DEF WriterSend
  <2>2. /\ Len(outbox) \in Nat \ {0} /\ Len(outbox') = Len(outbox) - 1
        /\ Head(outbox) = outbox[1] /\ Head(outbox) \in Requests
        /\ \A i \in 1 .. Len(outbox') : outbox'[i] = outbox[i + 1]
    BY <2>1, TailIs DEF TypeOK, ClientTypes
  <2>3. /\ Len(up) \in Nat /\ Len(up') = Len(up) + 1 /\ up'[Len(up) + 1] = Head(outbox)
        /\ \A i \in 1 .. Len(up) : up'[i] = up[i]
    BY <2>1, <2>2, AppendIs DEF TypeOK, ClientTypes
  <2>4. TrueInSocket(x)' /\ TrueInChannel(x)'
    BY <2>1 DEF Known, TrueInSocket, TrueInChannel
  <2>5. InQueues(x) => InQueues(x)'
    <3>1. ASSUME NEW i \in 1 .. Len(outbox), outbox[i].command.about = x
          PROVE  InQueues(x)'
      <4>1. CASE i = 1
        <5>1. Len(up) + 1 \in 1 .. Len(up') /\ up'[Len(up) + 1].command.about = x
          BY <2>2, <2>3, <3>1, <4>1
        <5> QED BY <5>1 DEF InQueues
      <4>2. CASE i # 1
        <5>1. i - 1 \in 1 .. Len(outbox') /\ i - 1 + 1 = i
          BY <2>2, <4>2
        <5>2. outbox'[i - 1] = outbox[i - 1 + 1]
          BY <2>2, <5>1
        <5>3. outbox'[i - 1].command.about = x
          BY <3>1, <5>1, <5>2
        <5> QED BY <5>1, <5>3 DEF InQueues
      <4> QED BY <4>1, <4>2
    <3>2. ASSUME NEW i \in 1 .. Len(up), up[i].command.about = x
          PROVE  InQueues(x)'
      <4>1. i \in 1 .. Len(up') /\ up'[i].command.about = x
        BY <2>3, <3>2
      <4> QED BY <4>1 DEF InQueues
    <3>3. UNCHANGED <<down, incoming>>
      BY <2>1
    <3> QED BY <3>1, <3>2, <3>3 DEF InQueues
  <2> QED BY <2>4, <2>5 DEF Known, Current
<1>2. CASE ReaderForward
  <2>1. /\ down # <<>> /\ down' = Tail(down) /\ incoming' = Append(incoming, Head(down))
        /\ UNCHANGED <<outbox, up>>
    BY <1>2 DEF ReaderForward
  <2>2. /\ Len(down) \in Nat \ {0} /\ Len(down') = Len(down) - 1
        /\ Head(down) = down[1] /\ Head(down) \in Answers
        /\ \A i \in 1 .. Len(down') : down'[i] = down[i + 1]
    BY <2>1, TailIs DEF TypeOK, ClientTypes
  <2>3. /\ Len(incoming) \in Nat /\ Len(incoming') = Len(incoming) + 1
        /\ incoming'[Len(incoming) + 1] = down[1]
        /\ \A i \in 1 .. Len(incoming) : incoming'[i] = incoming[i]
    BY <2>1, <2>2, AppendIs DEF TypeOK, ClientTypes
  <2>4. \A j \in 1 .. Len(down) : j # 1 =>
          j - 1 \in 1 .. Len(down') /\ down'[j - 1] = down[j]
    <3> TAKE j \in 1 .. Len(down)
    <3> HAVE j # 1
    <3>1. j - 1 \in 1 .. Len(down') /\ j - 1 + 1 = j
      BY <2>2
    <3>2. down'[j - 1] = down[j - 1 + 1]
      BY <2>2, <3>1
    <3> QED BY <3>1, <3>2
  <2>5. TrueInSocket(x)'
    <3> SUFFICES ASSUME NEW i \in 1 .. Len(down'), down'[i].what = x, down'[i].enabled # state[x]
                 PROVE  \E j \in i + 1 .. Len(down') : down'[j].what = x
      BY DEF TrueInSocket
    <3>1. i + 1 \in 1 .. Len(down) /\ down[i + 1].what = x /\ down[i + 1].enabled # state[x]
      BY <2>2
    <3>2. PICK j \in i + 1 + 1 .. Len(down) : down[j].what = x
      BY <3>1 DEF Known, TrueInSocket
    <3>3. j \in 1 .. Len(down) /\ j # 1 /\ j - 1 \in i + 1 .. Len(down')
      BY <2>2, <3>2
    <3> QED BY <2>4, <3>2, <3>3
  <2>6. TrueInChannel(x)'
    <3> SUFFICES ASSUME NEW i \in 1 .. Len(incoming'), incoming'[i].what = x,
                        incoming'[i].enabled # state[x],
                        ~\E j \in i + 1 .. Len(incoming') : incoming'[j].what = x
                 PROVE  \E j \in 1 .. Len(down') : down'[j].what = x
      BY DEF TrueInChannel
    <3>1. CASE i = Len(incoming) + 1
      <4>1. 1 \in 1 .. Len(down) /\ down[1].what = x /\ down[1].enabled # state[x]
        BY <2>2, <2>3, <3>1
      <4>2. PICK j \in 1 + 1 .. Len(down) : down[j].what = x
        BY <4>1 DEF Known, TrueInSocket
      <4>3. j \in 1 .. Len(down) /\ j # 1
        BY <2>2, <4>2
      <4> QED BY <2>4, <4>2, <4>3
    <3>2. CASE i # Len(incoming) + 1
      <4>1. /\ i \in 1 .. Len(incoming) /\ incoming[i].what = x /\ incoming[i].enabled # state[x]
            /\ \A j \in i + 1 .. Len(incoming) : j \in i + 1 .. Len(incoming') /\ incoming'[j] = incoming[j]
            /\ Len(incoming) + 1 \in i + 1 .. Len(incoming')
        BY <2>3, <3>2
      <4>2. ~\E j \in i + 1 .. Len(incoming) : incoming[j].what = x
        BY <4>1
      <4>3. PICK j \in 1 .. Len(down) : down[j].what = x
        BY <4>1, <4>2 DEF Known, TrueInChannel
      <4>4. j # 1
        BY <2>3, <4>1, <4>3
      <4> QED BY <2>4, <4>3, <4>4
    <3> QED BY <3>1, <3>2
  <2>7. InQueues(x) => InQueues(x)'
    <3>1. ASSUME NEW i \in 1 .. Len(down), down[i].what = x
          PROVE  InQueues(x)'
      <4>1. CASE i = 1
        <5>1. Len(incoming) + 1 \in 1 .. Len(incoming') /\ incoming'[Len(incoming) + 1].what = x
          BY <2>3, <3>1, <4>1
        <5> QED BY <5>1 DEF InQueues
      <4>2. CASE i # 1
        <5>1. i - 1 \in 1 .. Len(down') /\ down'[i - 1].what = x
          BY <2>4, <3>1, <4>2
        <5> QED BY <5>1 DEF InQueues
      <4> QED BY <4>1, <4>2
    <3>2. ASSUME NEW i \in 1 .. Len(incoming), incoming[i].what = x
          PROVE  InQueues(x)'
      <4>1. i \in 1 .. Len(incoming') /\ incoming'[i].what = x
        BY <2>3, <3>2
      <4> QED BY <4>1 DEF InQueues
    <3>3. UNCHANGED <<outbox, up>>
      BY <2>1
    <3> QED BY <3>1, <3>2, <3>3 DEF InQueues
  <2> QED BY <2>5, <2>6, <2>7 DEF Known, Current
<1>3. CASE WriterCancelled \/ ReaderEnd
  <2>1. UNCHANGED <<outbox, up, down, incoming>>
    BY <1>3 DEF WriterCancelled, ReaderEnd
  <2> QED BY <2>1 DEF Known, TrueInSocket, TrueInChannel, Current, InQueues
<1> QED BY <1>1, <1>2, <1>3 DEF WriterStep, ReaderStep

\* What the daemon serves it answers, and the answer is true and under way; it knows
\* the mode again, whoever changed it before.
LEMMA ServeKnows ==
  ASSUME TypeOK, ~SocketClosed, Serve, NEW x \in Modes, x \notin foreign \/ x = Command.about,
         x \in foreign \/ Known(x)
  PROVE  Known(x)'
<1>1. /\ up # <<>> /\ up' = Tail(up) /\ down' = down \o Reply /\ state' = After
      /\ UNCHANGED <<outbox, incoming, view>>
  BY DEF Serve, After, Reply, Command, consoleVars
<1>2. /\ Head(up) \in Requests /\ Command = up[1].command
      /\ Len(up) \in Nat \ {0} /\ Len(up') = Len(up) - 1
      /\ \A i \in 1 .. Len(up') : up'[i] = up[i + 1]
  BY <1>1, TailIs DEF TypeOK, ClientTypes, Command
<1>3. /\ Len(down) \in Nat /\ Len(Reply) \in Nat /\ Len(down') = Len(down) + Len(Reply)
      /\ \A i \in 1 .. Len(down) + Len(Reply) :
           down'[i] = IF i <= Len(down) THEN down[i] ELSE Reply[i - Len(down)]
  BY <1>1, Served, ConcatProperties, LenProperties DEF TypeOK, ClientTypes
<1>4. /\ \A i \in 1 .. Len(down) : i \in 1 .. Len(down') /\ down'[i] = down[i]
      /\ \A i \in 1 .. Len(down') : i \notin 1 .. Len(down) =>
           i - Len(down) \in 1 .. Len(Reply) /\ down'[i] = Reply[i - Len(down)]
  BY <1>3
<1>5. CASE x = Command.about
  <2>1. /\ Len(Reply) = 2 /\ Reply[1].what = x
        /\ \A i \in 1 .. Len(Reply) : Reply[i].what = x => Reply[i].enabled = state'[x]
    BY <1>1, <1>5, Served
  <2> DEFINE first == Len(down) + 1
  <2>2. first \in 1 .. Len(down') /\ down'[first].what = x
    <3>1. /\ first \in 1 .. Len(down) + Len(Reply) /\ ~(first <= Len(down))
          /\ first - Len(down) = 1 /\ first \in 1 .. Len(down')
      BY <1>3, <2>1
    <3> QED BY <1>3, <2>1, <3>1
  <2>3. TrueInSocket(x)'
    <3> SUFFICES ASSUME NEW i \in 1 .. Len(down'), down'[i].what = x
                 PROVE  down'[i].enabled = state'[x] \/ \E j \in i + 1 .. Len(down') : down'[j].what = x
      BY DEF TrueInSocket
    <3>1. CASE i \in 1 .. Len(down)
      <4>1. first \in i + 1 .. Len(down')
        BY <1>3, <2>1, <3>1
      <4> QED BY <2>2, <4>1
    <3>2. CASE i \notin 1 .. Len(down)
      BY <1>4, <2>1, <3>2
    <3> QED BY <3>1, <3>2
  <2> QED BY <2>2, <2>3 DEF Known, TrueInChannel, Current, InQueues
<1>6. CASE x # Command.about
  <2>1. Known(x) /\ state'[x] = state[x] /\ \A i \in 1 .. Len(Reply) : Reply[i].what # x
    BY <1>1, <1>6, Served
  <2>2. \A i \in 1 .. Len(down') : down'[i].what = x => i \in 1 .. Len(down) /\ down[i].what = x
    BY <1>4, <2>1
  <2>3. TrueInSocket(x)'
    <3> SUFFICES ASSUME NEW i \in 1 .. Len(down'), down'[i].what = x, down'[i].enabled # state'[x]
                 PROVE  \E j \in i + 1 .. Len(down') : down'[j].what = x
      BY DEF TrueInSocket
    <3>1. i \in 1 .. Len(down) /\ down[i].what = x /\ down[i].enabled # state[x]
      BY <1>4, <2>1, <2>2
    <3>2. PICK j \in i + 1 .. Len(down) : down[j].what = x
      BY <2>1, <3>1 DEF Known, TrueInSocket
    <3>3. j \in 1 .. Len(down) /\ j \in i + 1 .. Len(down')
      BY <1>3, <3>1, <3>2
    <3> QED BY <1>4, <3>2, <3>3
  <2>4. TrueInChannel(x)'
    <3>1. (\E j \in 1 .. Len(down) : down[j].what = x) => \E j \in 1 .. Len(down') : down'[j].what = x
      BY <1>4
    <3> QED BY <1>1, <2>1, <3>1 DEF Known, TrueInChannel
  <2>5. InQueues(x) => InQueues(x)'
    <3>1. ASSUME NEW i \in 1 .. Len(up), up[i].command.about = x
          PROVE  InQueues(x)'
      <4>1. i # 1
        BY <1>2, <1>6, <3>1
      <4>2. i - 1 \in 1 .. Len(up') /\ i - 1 + 1 = i
        BY <1>2, <4>1
      <4>3. up'[i - 1] = up[i - 1 + 1]
        BY <1>2, <4>2
      <4>4. up'[i - 1].command.about = x
        BY <3>1, <4>2, <4>3
      <4> QED BY <4>2, <4>4 DEF InQueues
    <3>2. ASSUME NEW i \in 1 .. Len(down), down[i].what = x
          PROVE  InQueues(x)'
      <4>1. i \in 1 .. Len(down') /\ down'[i].what = x
        BY <1>4, <3>2
      <4> QED BY <4>1 DEF InQueues
    <3> QED BY <1>1, <3>1, <3>2 DEF InQueues
  <2> QED BY <1>1, <2>1, <2>3, <2>4, <2>5 DEF Known, Current
<1> QED BY <1>5, <1>6

\* A step of the others leaves the modes they do not change as they are.
LEMMA OthersKnow ==
  ASSUME NEW x \in Modes, Known(x), UNCHANGED clientVars, view' = view, state'[x] = state[x]
  PROVE  Known(x)'
  BY DEF clientVars, Known, TrueInSocket, TrueInChannel, Current, InQueues

\* The invariant behind the view.
LEMMA TruthHolds == Spec => []Truth
<1>1. Init => Truth
  <2> SUFFICES ASSUME Init
               PROVE  Truth
    OBVIOUS
  <2>1. down = <<>> /\ incoming = <<>> /\ \A x \in Modes : view[x] = "unknown"
    BY DEF Init, Connected
  <2> QED BY <2>1 DEF Truth, TrueInSocket, TrueInChannel, Current
<1>2. TypeInv /\ Linked /\ Truth /\ [Next]_vars => Truth'
  <2> SUFFICES ASSUME TypeInv, Linked, Truth, [Next]_vars, pc' # "exited", ~hungUp',
                      NEW x \in Modes, x \notin foreign'
               PROVE  Known(x)'
    BY DEF Truth, Known
  <2>1. TypeOK
    BY DEF TypeInv
  <2>2. ASSUME pc # "exited", ~hungUp
        PROVE  CanSend /\ ~SocketClosed /\ (x \notin foreign => Known(x))
    BY <2>2 DEF Linked, CanSend, SocketClosed, Truth, Known
  <2>3. CASE UNCHANGED vars
    <3>1. pc # "exited" /\ ~hungUp /\ x \notin foreign /\ UNCHANGED clientVars /\ view' = view /\ state' = state
      BY <2>3 DEF vars, clientVars, consoleVars, daemonVars
    <3> QED BY <2>2, <3>1, OthersKnow
  <2>4. CASE ConsoleStep \/ TerminalFails \/ Kill
    <3>1. CASE Drain
      <4>1. pc # "exited" /\ ~hungUp /\ x \notin foreign
        BY <3>1 DEF Drain, daemonVars
      <4> QED BY <2>1, <2>2, <3>1, <4>1, DrainKnows
    <3>2. CASE ReadInput
      <4>1. PICK on \in BOOLEAN : Read(on)
        BY <2>1, <3>2 DEF ReadInput, NoKey, QuitKey, ToggleKey, EnterKey, TypeOK
      <4>2. pc # "exited" /\ ~hungUp /\ x \notin foreign
        BY <4>1 DEF Read, daemonVars
      <4> QED BY <2>1, <2>2, <3>2, <4>2, KeyKnows
    <3>3. CASE TerminalFails
      <4>1. /\ pc # "exited" /\ ~hungUp /\ x \notin foreign
            /\ UNCHANGED clientVars /\ view' = view /\ state' = state
        BY <3>3 DEF TerminalFails, clientVars, daemonVars
      <4> QED BY <2>2, <4>1, OthersKnow
    <3>4. CASE Shutdown \/ DropRuntime \/ Kill
      BY <3>4 DEF Shutdown, DropRuntime, Kill, consoleVars
    <3> QED BY <2>4, <3>1, <3>2, <3>3, <3>4 DEF ConsoleStep
  <2>5. CASE (WriterStep \/ ReaderStep \/ DaemonHangsUp) /\ UNCHANGED <<consoleVars, daemonVars>>
    <3>1. ~DaemonHangsUp /\ UNCHANGED <<view, state, foreign, pc>>
      BY <2>5 DEF DaemonHangsUp, consoleVars, daemonVars
    <3>2. hungUp' = hungUp
      BY <2>5, <3>1 DEF WriterStep, WriterSend, WriterCancelled, ReaderStep, ReaderForward, ReaderEnd
    <3>3. pc # "exited" /\ ~hungUp /\ x \notin foreign
      BY <3>1, <3>2
    <3> QED BY <2>1, <2>2, <2>5, <3>1, <3>3, TasksKnow
  <2>6. CASE Serve
    <3>1. pc # "exited" /\ ~hungUp /\ foreign' = foreign \ {Command.about}
      BY <2>6 DEF Serve, Command, consoleVars
    <3> QED BY <2>1, <2>2, <2>6, <3>1, ServeKnows
  <2>7. CASE ServeEnd
    <3>1. pc # "exited" /\ ~hungUp /\ SocketClosed
      BY <2>7 DEF ServeEnd, clientVars, consoleVars
    <3> QED BY <2>2, <3>1
  <2>8. ASSUME NEW y \in Modes, NEW on \in BOOLEAN, Meddle(y, on)
        PROVE  x \notin foreign /\ state'[x] = state[x]
    BY <2>1, <2>8 DEF Meddle, TypeOK
  <2>9. ASSUME UNCHANGED <<clientVars, consoleVars>>,
               \/ UNCHANGED <<state, foreign>>
               \/ \E y \in Modes, on \in BOOLEAN : Meddle(y, on)
        PROVE  Known(x)'
    <3>1. pc # "exited" /\ ~hungUp /\ view' = view
      BY <2>9 DEF clientVars, consoleVars
    <3>2. x \notin foreign /\ state'[x] = state[x]
      BY <2>8, <2>9
    <3> QED BY <2>2, <2>9, <3>1, <3>2, OthersKnow
  <2>10. "manual" \in Modes /\ "inhibit" \in Modes
    BY DEF Modes
  <2>11. CASE InhibitExpires \/ \E y \in Modes, on \in BOOLEAN : OtherSets(y, on)
    BY <2>9, <2>10, <2>11 DEF InhibitExpires, OtherSets
  <2>12. CASE OtherLeaves
    <3>1. UNCHANGED <<clientVars, consoleVars>>
      BY <2>12 DEF OtherLeaves
    <3>2. Meddle("manual", FALSE) \/ UNCHANGED <<state, foreign>>
      BY <2>12 DEF OtherLeaves
    <3> QED BY <2>9, <2>10, <3>1, <3>2
  <2> QED BY <2>3, <2>4, <2>5, <2>6, <2>7, <2>11, <2>12 DEF Next
<1> QED BY <1>1, <1>2, TypesHold, LinkedHolds, PTL DEF Spec

\* With nothing under way the console shows what the daemon has, unless others changed
\* it since.
THEOREM ViewIsCurrentHolds == Spec => []ViewIsCurrent
<1>1. TypeInv /\ Truth => ViewIsCurrent
  <2> SUFFICES ASSUME TypeInv, Truth, pc # "exited", ~hungUp, NEW x \in Modes \ foreign, ~UnderWay(x)
               PROVE  view[x] \in {"unknown", IF state[x] THEN "enabled" ELSE "disabled"}
    BY DEF ViewIsCurrent
  <2>1. ~InQueues(x)
    BY UnderWayIs DEF TypeInv
  <2> QED BY <2>1 DEF Truth, Current
<1> QED BY <1>1, TypesHold, TruthHolds, PTL

-------------------------------------------------------------------------------
(* The inhibit that is given back.                                            *)

\* The shutdown queues the request that gives the inhibit back as its last, and is
\* never refused while the daemon is there.
LEMMA ShutdownReturns ==
  ASSUME TypeInv, Linked, Shutdown, ~hungUp, view'["inhibit"] \notin {"unknown", "disabled"}
  PROVE  outbox' # <<>> /\ Returns(outbox'[Len(outbox')])
<1>1. pc = "leaving" /\ Request(Parting)
  BY DEF Shutdown, Parting
<1>2. CanSend
  BY <1>1 DEF Linked, CanSend
<1>3. /\ outbox' = outbox \o Numbered(Parting)
      /\ view' = [x \in Modes |->
                    IF \E c \in ToSet(Parting) : c.about = x /\ c.ask # "get"
                    THEN Wanted((CHOOSE c \in ToSet(Parting) : c.about = x).ask)
                    ELSE view[x]]
  BY <1>1, <1>2 DEF Request, Numbered
<1>4. Parting \in Seq(Commands) /\ ToSet(Parting) = {Parting[i] : i \in 1 .. Len(Parting)}
  BY PartingIs, Elements
<1>5. "inhibit" \in Modes /\ view["inhibit"] \in Views
  BY DEF Modes, TypeInv, TypeOK
<1>6. view["inhibit"] \in {"enabled", "enabling", "disabling"}
  <2> SUFFICES ASSUME view["inhibit"] \notin {"enabled", "enabling", "disabling"}
               PROVE  FALSE
    OBVIOUS
  <2>1. \A c \in ToSet(Parting) : c.about # "inhibit"
    BY <1>4, PartingIs
  <2>2. view'["inhibit"] = view["inhibit"]
    BY <1>3, <1>5, <2>1
  <2> QED BY <1>5, <2>2 DEF Views
<1>7. /\ Len(Parting) \in Nat /\ Len(Parting) >= 1
      /\ Parting[Len(Parting)] = [about |-> "inhibit", ask |-> "off"]
  BY <1>4, <1>6, PartingIs, LenProperties
<1>8. /\ Len(Numbered(Parting)) = Len(Parting)
      /\ Numbered(Parting) \in Seq({[id |-> asked + i, command |-> Parting[i]] : i \in 1 .. Len(Parting)})
      /\ Numbered(Parting)[Len(Parting)].command = [about |-> "inhibit", ask |-> "off"]
  <2> DEFINE S == {[id |-> asked + i, command |-> Parting[i]] : i \in 1 .. Len(Parting)}
  <2>1. Numbered(Parting) \in [1 .. Len(Parting) -> S]
    BY DEF Numbered
  <2>2. Numbered(Parting)[Len(Parting)].command = [about |-> "inhibit", ask |-> "off"]
    BY <1>7 DEF Numbered
  <2> HIDE DEF S
  <2>3. Numbered(Parting) \in Seq(S)
    BY <1>7, <2>1, SeqDef
  <2>4. Len(Numbered(Parting)) = Len(Parting)
    BY <1>7, <2>1, <2>3, LenProperties
  <2> QED BY <2>2, <2>3, <2>4 DEF S
<1>9. outbox \in Seq(Requests) /\ Len(outbox) \in Nat
  BY LenProperties DEF TypeInv, TypeOK, ClientTypes
<1>10. /\ Len(outbox') = Len(outbox) + Len(Parting)
       /\ outbox'[Len(outbox) + Len(Parting)] = Numbered(Parting)[Len(Parting)]
  <2> DEFINE S == Requests \cup {[id |-> asked + i, command |-> Parting[i]] : i \in 1 .. Len(Parting)}
  <2>1. outbox \in Seq(S) /\ Numbered(Parting) \in Seq(S)
    BY <1>8, <1>9, LargerSet
  <2> HIDE DEF S
  <2>2. /\ Len(outbox') = Len(outbox) + Len(Parting)
        /\ \A i \in 1 .. Len(outbox) + Len(Parting) :
             outbox'[i] = IF i <= Len(outbox) THEN outbox[i] ELSE Numbered(Parting)[i - Len(outbox)]
    <3>1. PICK more : more = Numbered(Parting)
      OBVIOUS
    <3>2. more \in Seq(S) /\ Len(more) = Len(Parting) /\ outbox' = outbox \o more
      BY <1>3, <1>8, <2>1, <3>1
    <3>3. /\ Len(outbox \o more) = Len(outbox) + Len(more)
          /\ \A i \in 1 .. Len(outbox) + Len(more) :
               (outbox \o more)[i] = IF i <= Len(outbox) THEN outbox[i] ELSE more[i - Len(outbox)]
      BY ONLY <2>1, <3>2, ConcatProperties, Zenon
    <3> QED BY <3>1, <3>2, <3>3
  <2>3. /\ Len(outbox) + Len(Parting) \in 1 .. Len(outbox) + Len(Parting)
        /\ ~(Len(outbox) + Len(Parting) <= Len(outbox))
        /\ Len(outbox) + Len(Parting) - Len(outbox) = Len(Parting)
    BY <1>7, <1>9
  <2> QED BY <2>2, <2>3
<1>11. outbox' # <<>>
  BY <1>7, <1>9, <1>10
<1> QED BY <1>7, <1>8, <1>10, <1>11 DEF Returns

\* The writer hands it on as the last it writes, and the daemon serves it as the last.
LEMMA ReturnsOn ==
  ASSUME TypeInv, Returned, pc = "exited", ~hungUp', ~killed, view["inhibit"] \notin {"unknown", "disabled"},
         \/ WriterSend /\ UNCHANGED <<consoleVars, daemonVars>>
         \/ Serve
  PROVE  Returned'
<1>1. /\ outbox \in Seq(Requests) /\ up \in Seq(Requests)
      /\ Len(outbox) \in Nat /\ Len(up) \in Nat
      /\ (outbox = <<>> <=> Len(outbox) = 0) /\ (up = <<>> <=> Len(up) = 0)
  BY LenProperties, EmptySeq DEF TypeInv, TypeOK, ClientTypes
<1>2. CASE WriterSend /\ UNCHANGED <<consoleVars, daemonVars>>
  <2>1. /\ outbox # <<>> /\ outbox' = Tail(outbox) /\ up' = Append(up, Head(outbox)) /\ ~hungUp
    BY <1>2 DEF WriterSend
  <2>2. Returns(outbox[Len(outbox)])
    BY <2>1 DEF Returned
  <2>3. /\ outbox' \in Seq(Requests) /\ Len(outbox') = Len(outbox) - 1 /\ Head(outbox) = outbox[1]
        /\ Head(outbox) \in Requests /\ Len(outbox) \in Nat \ {0}
        /\ \A i \in 1 .. Len(outbox') : outbox'[i] = outbox[i + 1]
    BY <1>1, <2>1, TailIs
  <2>4. CASE Len(outbox) = 1
    <3>1. up' # <<>> /\ Len(up') = Len(up) + 1 /\ up'[Len(up) + 1] = outbox[1]
      BY <1>1, <2>1, <2>3, AppendIs, AppendProperties
    <3>2. outbox' = <<>>
      BY <2>3, <2>4, EmptySeq
    <3> QED BY <2>2, <2>4, <3>1, <3>2 DEF Returned
  <2>5. CASE Len(outbox) # 1
    <3>1. Len(outbox') \in 1 .. Len(outbox') /\ Len(outbox') + 1 = Len(outbox)
      BY <2>3, <2>5
    <3>2. outbox'[Len(outbox')] = outbox[Len(outbox') + 1]
      BY <2>3, <3>1
    <3>3. outbox' # <<>>
      BY <2>3, <3>1
    <3> QED BY <2>2, <3>1, <3>2, <3>3 DEF Returned
  <2> QED BY <2>4, <2>5
<1>3. CASE Serve
  <2>1. /\ up # <<>> /\ up' = Tail(up) /\ state' = After /\ ~hungUp
        /\ UNCHANGED outbox
    BY <1>3 DEF Serve, After, Command
  <2>2. /\ Len(up') = Len(up) - 1 /\ Command = up[1].command /\ Len(up) \in Nat \ {0}
        /\ \A i \in 1 .. Len(up') : up'[i] = up[i + 1]
        /\ up' \in Seq(Requests)
    BY <1>1, <2>1, TailIs DEF Command
  <2>3. CASE outbox # <<>>
    BY <2>1, <2>3 DEF Returned
  <2>4. CASE outbox = <<>>
    <3>1. Returns(up[Len(up)])
      BY <2>1, <2>4 DEF Returned
    <3>2. CASE Len(up) = 1
      <4>1. up' = <<>>
        BY <2>2, <3>2, EmptySeq
      <4>2. Command.about = "inhibit" /\ Command.ask = "off"
        BY <2>2, <3>1, <3>2 DEF Returns
      <4>3. state'["inhibit"] = FALSE
        BY <2>1, <4>2, Served DEF TypeInv
      <4> QED BY <2>1, <2>4, <4>1, <4>3 DEF Returned
    <3>3. CASE Len(up) # 1
      <4>1. Len(up') \in 1 .. Len(up') /\ Len(up') + 1 = Len(up)
        BY <2>2, <3>3
      <4>2. up'[Len(up')] = up[Len(up') + 1]
        BY <2>2, <4>1
      <4>3. up' # <<>>
        BY <2>2, <4>1
      <4> QED BY <2>1, <2>4, <3>1, <4>1, <4>2, <4>3 DEF Returned
    <3> QED BY <3>2, <3>3
  <2> QED BY <2>3, <2>4
<1> QED BY <1>2, <1>3

\* The invariant behind the inhibit.
LEMMA ReturnedHolds == Spec => []Returned
<1>1. Init => Returned
  BY DEF Init, Returned
<1>2. TypeInv /\ Linked /\ Returned /\ [Next]_vars => Returned'
  <2> SUFFICES ASSUME TypeInv, Linked, Returned, [Next]_vars, pc' = "exited", ~hungUp', ~killed',
                      view'["inhibit"] \notin {"unknown", "disabled"}
               PROVE  Returned'
    BY DEF Returned
  <2>1. ASSUME UNCHANGED <<outbox, up, pc, killed, view, hungUp>>,
               state'["inhibit"] => state["inhibit"] \/ "inhibit" \in foreign',
               "inhibit" \in foreign => "inhibit" \in foreign'
        PROVE  Returned'
    BY <2>1 DEF Returned
  <2>2. CASE UNCHANGED vars
    BY <2>1, <2>2 DEF vars, clientVars, consoleVars, daemonVars
  <2>3. CASE ConsoleStep \/ TerminalFails \/ Kill
    <3>1. CASE Drain \/ ReadInput \/ TerminalFails \/ Kill
      BY <3>1 DEF Drain, ReadInput, NoKey, QuitKey, ToggleKey, EnterKey, Read, TerminalFails, Kill
    <3>2. CASE Shutdown
      <4>1. ~hungUp
        BY <3>2 DEF Shutdown
      <4> QED BY <3>2, <4>1, ShutdownReturns DEF Returned
    <3>3. CASE DropRuntime
      BY <2>1, <3>3 DEF DropRuntime, consoleVars, daemonVars
    <3> QED BY <2>3, <3>1, <3>2, <3>3 DEF ConsoleStep
  <2>4. CASE (WriterStep \/ ReaderStep \/ DaemonHangsUp) /\ UNCHANGED <<consoleVars, daemonVars>>
    <3>1. CASE WriterSend
      <4>1. pc = "exited" /\ ~killed /\ view["inhibit"] \notin {"unknown", "disabled"}
        BY <2>4 DEF consoleVars
      <4> QED BY <2>4, <3>1, <4>1, ReturnsOn
    <3>2. CASE WriterCancelled \/ ReaderStep
      BY <2>1, <2>4, <3>2 DEF WriterCancelled, ReaderStep, ReaderForward, ReaderEnd, consoleVars, daemonVars
    <3>3. ~DaemonHangsUp
      BY DEF DaemonHangsUp
    <3> QED BY <2>4, <3>1, <3>2, <3>3 DEF WriterStep
  <2>5. CASE Serve
    <3>1. pc = "exited" /\ ~killed /\ view["inhibit"] \notin {"unknown", "disabled"}
      BY <2>5 DEF Serve, consoleVars
    <3> QED BY <2>5, <3>1, ReturnsOn
  <2>6. state \in [Modes -> BOOLEAN] /\ "manual" \in Modes /\ "inhibit" \in Modes
    BY DEF TypeInv, TypeOK, Modes
  <2>7. ASSUME UNCHANGED <<clientVars, consoleVars>>,
               \/ UNCHANGED foreign /\ (state' = state \/ state' = [state EXCEPT !["manual"] = FALSE])
               \/ \E y \in Modes, on \in BOOLEAN : Meddle(y, on)
        PROVE  Returned'
    <3>1. UNCHANGED <<outbox, up, pc, killed, view, hungUp>>
      BY <2>7 DEF clientVars, consoleVars
    <3>2. CASE UNCHANGED foreign /\ (state' = state \/ state' = [state EXCEPT !["manual"] = FALSE])
      BY <2>1, <2>6, <3>1, <3>2
    <3>3. ASSUME NEW y \in Modes, NEW on \in BOOLEAN, Meddle(y, on)
          PROVE  Returned'
      BY <2>1, <2>6, <3>1, <3>3 DEF Meddle
    <3> QED BY <2>7, <3>2, <3>3
  <2>8. CASE ServeEnd
    <3>1. /\ UNCHANGED <<clientVars, consoleVars, foreign>>
          /\ state' = state \/ state' = [state EXCEPT !["manual"] = FALSE]
      BY <2>8 DEF ServeEnd
    <3> QED BY <2>7, <3>1
  <2>9. CASE InhibitExpires \/ \E y \in Modes, on \in BOOLEAN : OtherSets(y, on)
    BY <2>6, <2>7, <2>9 DEF InhibitExpires, OtherSets
  <2>10. CASE OtherLeaves
    <3>1. UNCHANGED <<clientVars, consoleVars>>
      BY <2>10 DEF OtherLeaves
    <3>2. Meddle("manual", FALSE) \/ UNCHANGED <<state, foreign>>
      BY <2>10 DEF OtherLeaves
    <3> QED BY <2>6, <2>7, <3>1, <3>2
  <2> QED BY <2>2, <2>3, <2>4, <2>5, <2>8, <2>9, <2>10 DEF Next
<1> QED BY <1>1, <1>2, TypesHold, LinkedHolds, PTL DEF Spec

\* Nothing is said on a connection that is over.
LEMMA OverHolds == Spec => []Over
<1>1. Init => Over
  BY DEF Init, Over
<1>2. Over /\ [Next]_vars => Over'
  <2> SUFFICES ASSUME Over, [Next]_vars
               PROVE  Over'
    OBVIOUS
  <2>1. CASE UNCHANGED vars
    BY <2>1 DEF vars, clientVars, daemonVars, Over, SocketClosed
  <2>2. CASE ConsoleStep \/ TerminalFails \/ Kill
    <3>1. CASE DropRuntime \/ Kill
      BY <3>1 DEF DropRuntime, Kill, daemonVars, Over, SocketClosed
    <3>2. ASSUME Drain \/ ReadInput \/ Shutdown \/ TerminalFails
          PROVE  UNCHANGED <<session, up, writer, reader>>
      BY <3>2 DEF Drain, ReadInput, NoKey, QuitKey, ToggleKey, EnterKey, Read, Shutdown, TerminalFails,
                  clientVars, daemonVars
    <3> QED BY <2>2, <3>1, <3>2 DEF ConsoleStep, Over, SocketClosed
  <2>3. CASE (WriterStep \/ ReaderStep \/ DaemonHangsUp) /\ UNCHANGED <<consoleVars, daemonVars>>
    BY <2>3 DEF WriterStep, WriterSend, WriterCancelled, ReaderStep, ReaderForward, ReaderEnd,
                DaemonHangsUp, daemonVars, Over, SocketClosed
  <2>4. CASE Serve
    BY <2>4 DEF Serve, Over
  <2>5. CASE ServeEnd
    BY <2>5 DEF ServeEnd, clientVars, Over, SocketClosed
  <2>6. ASSUME InhibitExpires \/ OtherLeaves \/ \E x \in Modes, on \in BOOLEAN : OtherSets(x, on)
        PROVE  UNCHANGED <<session, up, writer, reader>>
    BY <2>6 DEF InhibitExpires, OtherLeaves, OtherSets, clientVars
  <2> QED BY <2>1, <2>2, <2>3, <2>4, <2>5, <2>6 DEF Next, Over, SocketClosed
<1> QED BY <1>1, <1>2, PTL DEF Spec

\* An inhibit the console knew of, or had asked for, stays behind only when it was
\* killed, when its request was not written, or when others set it.
THEOREM InhibitLeftBehindHolds == Spec => []InhibitLeftBehind
<1>1. Returned /\ Over => InhibitLeftBehind
  BY DEF Returned, Over, InhibitLeftBehind
<1> QED BY <1>1, ReturnedHolds, OverHolds, PTL
================================================================================
