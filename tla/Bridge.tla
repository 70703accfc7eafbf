-------------------------------- MODULE Bridge --------------------------------
(***************************************************************************)
(* The daemon's Handler (daemon/src/bridge.rs): the task that owns the     *)
(* idle, idle-inhibit and manual-mode state, the frame tasks it spawns,    *)
(* the timers it starts, and the channels it reads and writes.  Wayland,   *)
(* the LED manager and the client connections are environments, abstracted *)
(* to what they put into and take out of those channels.                   *)
(*                                                                         *)
(* Channels are unbounded FIFO queues.  The select! of Handler::run is     *)
(* `biased`: a branch is taken only when the channels before it are empty. *)
(* A handler runs as one step: between its first and last statement the    *)
(* other tasks only see its sends and the manual flag.                     *)
(***************************************************************************)
EXTENDS Integers, SequencesExt

CONSTANTS
  Clients,              \* socket addresses clients connect from
  Requests,             \* the messages they may send; see AllRequests
  Timeouts,             \* the Some(ms) values of SetIdleInhibit, 0 for Some(0)
  NoTimeout,            \* its None
  Faults,               \* the GPU and capture calls that may fail
  MaxFrames,            \* bound: frames the handler accepts
  MaxWaylandEvents,     \* bound: events Wayland sends besides FrameReady
  MaxRequests,          \* bound: client messages and disconnects
  MaxQueued,            \* bound: client or Wayland events, or answers, waiting when one is sent
  MaxLedEvents,         \* bound: LED events
  MaxSignals            \* bound: SIGTERMs sent, 0 or 1

ASSUME ConstantsAssumption ==
  /\ Timeouts \subseteq Nat
  /\ NoTimeout \notin Timeouts
  /\ {MaxFrames, MaxWaylandEvents, MaxRequests, MaxQueued, MaxLedEvents} \subseteq Nat
  /\ MaxSignals \in {0, 1}

VARIABLES
  \* Handler: idle state
  idle,                 \* the effective idle state
  seatIdle,             \* what the compositor last said of the seat
  pendingFadeIn,        \* the next automatic frame fades in
  \* Handler: idle inhibit
  idleInhibit,
  requestedTimeout,     \* idle_inhibit_requested_timeout
  hasDeadline,          \* idle_inhibit_deadline is Some
  timer,                \* the task idle_inhibit_task holds: none, sleeping, fired
  orphans,              \* sleeping timers whose handle was overwritten with None
  \* Handler: sessions and manual mode
  clients,              \* ClientSessions.clients
  manualEnabled,        \* ClientSessions.manual_enabled
  manualFlag,           \* the AtomicBool shared with the frame tasks
  manualStartedWhileIdle,
  \* Handler: frames
  lastAutoFrame,
  frameCounter,
  frameStarts,          \* the keys of frame_starts
  framesInflight,       \* the ids of frames_inflight, oldest first
  \* Compute
  inFlight, screenDmabuf, waiter,
  \* the spawned await_compute_dispatch tasks
  task,                 \* where the task of each frame is
  fading,               \* frames whose task captured fade_in = true
  \* channels
  frameStages, ledEvents, clientReqs, waylandEvents, idleTimeouts,
  ledCmds,
  replies,              \* per client, those ClientMan has not taken
  captures,             \* ComputeDone commands and captures under way
  \* the rest of the process
  phase,                \* running, importing, draining (out of the loop), stopped
  signal,               \* SIGTERM and who waits for it; see AwaitSignal
  strip,                \* what the LED manager was last told to show
  frameLost,            \* history: an error ended a frame without ComputeDone
  waylandSent, requestsSent, ledSent    \* bounds' counters

idleVars    == <<idle, seatIdle, pendingFadeIn>>
inhibitVars == <<idleInhibit, requestedTimeout, hasDeadline, timer, orphans>>
sessionVars == <<clients, manualEnabled, manualFlag, manualStartedWhileIdle>>
frameVars   == <<lastAutoFrame, frameCounter, frameStarts, framesInflight>>
computeVars == <<inFlight, screenDmabuf, waiter>>
taskVars    == <<task, fading>>
inputs      == <<frameStages, ledEvents, clientReqs, waylandEvents, idleTimeouts>>
outputs     == <<ledCmds, replies, captures>>
processVars == <<phase, signal>>
envVars     == <<strip, waylandSent, requestsSent, ledSent>>

vars == <<idleVars, inhibitVars, sessionVars, frameVars, computeVars, taskVars,
          inputs, outputs, processVars, frameLost, envVars>>

Compute == INSTANCE Compute

-------------------------------------------------------------------------------
(* Messages.  A picture is the frame it was computed from, Black, or whatever *)
(* a client chose to show.                                                    *)

Frames        == 0 .. MaxFrames - 1
Black         == -1
ClientPicture == -2
Pictures      == Frames \cup {Black, ClientPicture}

LedCommands ==
  [op : {"SetStripState", "FadeIn", "FadeOut", "FromClient"}, picture : Pictures]

SetStripState(p) == [op |-> "SetStripState", picture |-> p]
FadeIn(p)        == [op |-> "FadeIn", picture |-> p]
FadeOut          == [op |-> "FadeOut", picture |-> Black]
FromClient       == [op |-> "FromClient", picture |-> ClientPicture]

TimeoutChoices == Timeouts \cup {NoTimeout}

AllRequests ==
  [type : {"Led", "GetManualMode", "GetIdleInhibit"}]
    \cup [type : {"SetManualMode"}, enabled : BOOLEAN]
    \cup [type : {"SetIdleInhibit"}, enabled : BOOLEAN, timeout : TimeoutChoices]

ClientReqs ==
  [client : Clients, type : {"Disconnected"}]
    \cup [client : Clients, type : {"Message"}, msg : AllRequests]

Replies ==
  [type : {"Ack", "Nack"}]
    \cup [type : {"ManualMode"}, enabled : BOOLEAN]
    \cup [type : {"IdleInhibit"}, enabled : BOOLEAN, timed : BOOLEAN]

Ack  == [type |-> "Ack"]
Nack == [type |-> "Nack"]

Stages == [kind : {"LedDispatched", "Aborted"}, frame : Frames]

WaylandEvents == {"Idle", "Active", "DmabufCreated", "FrameReady"}
LedEvents     == {"Done", "Error"}

TaskStates ==
  {"none", "waiting", "ready", "closed", "lighting", "staging", "finishing"}

ASSUME RequestsAssumption == Requests \subseteq AllRequests

IdleTypeOK ==
  idle \in BOOLEAN /\ seatIdle \in BOOLEAN /\ pendingFadeIn \in BOOLEAN

InhibitTypeOK ==
  /\ idleInhibit \in BOOLEAN /\ hasDeadline \in BOOLEAN
  /\ requestedTimeout \in TimeoutChoices
  /\ timer \in {"none", "sleeping", "fired"} /\ orphans \in Nat

SessionTypeOK ==
  /\ clients \in SUBSET Clients
  /\ manualEnabled \in BOOLEAN /\ manualFlag \in BOOLEAN
  /\ manualStartedWhileIdle \in BOOLEAN

FrameTypeOK ==
  /\ lastAutoFrame \in Pictures
  /\ frameCounter \in 0 .. MaxFrames
  /\ frameStarts \in SUBSET Frames
  /\ framesInflight \in Seq(Frames)

TaskTypeOK == task \in [Frames -> TaskStates] /\ fading \in SUBSET Frames

InputTypeOK ==
  /\ frameStages \in Seq(Stages)
  /\ ledEvents \in Seq(LedEvents)
  /\ clientReqs \in Seq(ClientReqs)
  /\ waylandEvents \in Seq(WaylandEvents)
  /\ idleTimeouts \in Nat

OutputTypeOK ==
  /\ ledCmds \in Seq(LedCommands)
  /\ replies \in [Clients -> Seq(Replies)]
  /\ captures \in Nat

ProcessTypeOK ==
  /\ phase \in {"running", "importing", "draining", "stopped"}
  /\ signal \in {"unhandled", "unawaited", "awaited", "pending", "lost", "caught"}

EnvTypeOK ==
  /\ strip \in Pictures
  /\ frameLost \in BOOLEAN
  /\ waylandSent \in Nat /\ requestsSent \in Nat /\ ledSent \in Nat

TypeOK ==
  /\ IdleTypeOK /\ InhibitTypeOK /\ SessionTypeOK /\ FrameTypeOK
  /\ Compute!ComputeTypeOK /\ TaskTypeOK
  /\ InputTypeOK /\ OutputTypeOK /\ ProcessTypeOK /\ EnvTypeOK

(***************************************************************************)
(* The first capture is requested when the output is bound, and its buffer *)
(* event sends DmabufCreated before the frame can be ready.                *)
(***************************************************************************)
Init ==
  /\ idle = FALSE /\ seatIdle = FALSE /\ pendingFadeIn = FALSE
  /\ idleInhibit = FALSE /\ requestedTimeout = NoTimeout /\ hasDeadline = FALSE
  /\ timer = "none" /\ orphans = 0
  /\ clients = {} /\ manualEnabled = FALSE /\ manualFlag = FALSE
  /\ manualStartedWhileIdle = FALSE
  /\ lastAutoFrame = Black /\ frameCounter = 0
  /\ frameStarts = {} /\ framesInflight = <<>>
  /\ Compute!ComputeInit
  /\ task = [f \in Frames |-> "none"] /\ fading = {}
  /\ frameStages = <<>> /\ ledEvents = <<>> /\ clientReqs = <<>>
  /\ waylandEvents = <<"DmabufCreated">> /\ idleTimeouts = 0
  /\ ledCmds = <<>> /\ replies = [c \in Clients |-> <<>>] /\ captures = 1
  /\ phase = "running" /\ signal = "unhandled"
  /\ strip = Black /\ frameLost = FALSE
  /\ waylandSent = 0 /\ requestsSent = 0 /\ ledSent = 0

-------------------------------------------------------------------------------
(* What the handlers do to shared pieces of state.                            *)

\* on_enter_idle
OnEnterIdle ==
  /\ ledCmds' = IF manualEnabled THEN ledCmds ELSE Append(ledCmds, FadeOut)
  /\ UNCHANGED <<captures, frameLost, pendingFadeIn, manualStartedWhileIdle>>

\* A ComputeDone command makes Wayland capture the next frame.
SendComputeDone ==
  /\ captures' = captures + 1
  /\ frameLost' = FALSE

\* Mutant: fades in after every idle period, one spent in manual mode too.
OnExitIdleFades ==
  /\ pendingFadeIn' = TRUE
  /\ SendComputeDone
  /\ UNCHANGED <<ledCmds, manualStartedWhileIdle>>

\* Mutant: leaves idle without restarting the frame loop.
OnExitIdleQuiet ==
  /\ pendingFadeIn' = TRUE
  /\ UNCHANGED <<ledCmds, captures, frameLost, manualStartedWhileIdle>>

\* on_exit_idle
OnExitIdle ==
  /\ IF manualEnabled
     THEN /\ manualStartedWhileIdle' = FALSE
          /\ UNCHANGED pendingFadeIn
     ELSE /\ pendingFadeIn' = TRUE
          /\ UNCHANGED manualStartedWhileIdle
  /\ SendComputeDone
  /\ UNCHANGED ledCmds

\* Mutant: an inhibit keeps the daemon awake but does not wake it.
StillIdle == seatIdle' /\ (idle \/ ~idleInhibit')

\* Whether the daemon should sleep, by the values just assigned.
EffectivelyIdle == seatIdle' /\ ~idleInhibit'

\* update_effective_idle_state, once seat_idle and idle_inhibit are assigned
UpdateEffectiveIdleState ==
  /\ idle' = EffectivelyIdle
  /\ \/ EffectivelyIdle /\ ~idle /\ OnEnterIdle
     \/ ~EffectivelyIdle /\ idle /\ OnExitIdle
     \/ /\ EffectivelyIdle = idle
        /\ UNCHANGED <<ledCmds, captures, frameLost, pendingFadeIn, manualStartedWhileIdle>>

\* Mutant: leaving manual mode while idle sends nothing.
RestoreCommandsAwake == IF idle THEN <<>> ELSE <<SetStripState(lastAutoFrame)>>

\* What the end of manual mode sends to the LED manager.
RestoreCommands ==
  CASE idle /\ manualStartedWhileIdle  -> <<FadeOut>>
    [] idle /\ ~manualStartedWhileIdle -> <<SetStripState(lastAutoFrame), FadeOut>>
    [] OTHER                           -> <<SetStripState(lastAutoFrame)>>

\* on_manual_state_changed
OnManualStateChanged(enabled) ==
  /\ manualFlag' = enabled
  /\ IF enabled
     THEN /\ pendingFadeIn' = FALSE
          /\ manualStartedWhileIdle' = idle
          /\ UNCHANGED <<ledCmds, captures, frameLost>>
     ELSE /\ pendingFadeIn' = idle
          /\ manualStartedWhileIdle' = FALSE
          /\ ledCmds' = ledCmds \o RestoreCommands
          /\ IF idle THEN UNCHANGED <<captures, frameLost>> ELSE SendComputeDone

\* cancel_idle_inhibit_timer: abort() stops a sleeping task, and does not take
\* back what a task that already fired has sent.
CancelIdleInhibitTimer == timer' = "none"

\* Mutant: a timeout of 0 ms records its deadline and starts nothing.
StartIdleInhibitTimerLazily(ms) ==
  /\ hasDeadline' = TRUE
  /\ timer' = IF ms = 0 THEN "none" ELSE "sleeping"
  /\ UNCHANGED idleTimeouts

\* Mutant: cancels the old timer after starting the new one.
StartIdleInhibitTimerThenCancel(ms) ==
  /\ hasDeadline' = TRUE
  /\ timer' = "none"
  /\ idleTimeouts' = IF ms = 0 THEN idleTimeouts + 1 ELSE idleTimeouts

\* start_idle_inhibit_timer
StartIdleInhibitTimer(ms) ==
  /\ hasDeadline' = TRUE
  /\ IF ms = 0
     THEN CancelIdleInhibitTimer /\ idleTimeouts' = idleTimeouts + 1
     ELSE timer' = "sleeping" /\ UNCHANGED idleTimeouts

\* apply_idle_inhibit_state
ApplyIdleInhibitState(enabled, timeout) ==
  /\ idleInhibit' = enabled
  /\ requestedTimeout' = IF enabled THEN timeout ELSE NoTimeout
  /\ IF enabled /\ timeout # NoTimeout
     THEN StartIdleInhibitTimer(timeout)
     ELSE /\ CancelIdleInhibitTimer
          /\ hasDeadline' = FALSE
          /\ UNCHANGED idleTimeouts
  /\ UNCHANGED <<seatIdle, orphans>>
  /\ UpdateEffectiveIdleState

-------------------------------------------------------------------------------
(* The branches of the select! loop.                                          *)

NothingQueued ==
  /\ frameStages = <<>> /\ ledEvents = <<>> /\ clientReqs = <<>> /\ waylandEvents = <<>>
  /\ idleTimeouts = 0

\* Each iteration makes a wait_for_signal of its own, last of the branches and so
\* polled once every channel was found empty.  The first poll of all replaces the
\* default action of SIGTERM; each poll of a new one opens a stream that is told of
\* the signals that come after it.
AwaitSignal ==
  /\ phase = "running" /\ NothingQueued
  /\ signal \in {"unhandled", "unawaited"}
  /\ MaxSignals = 1                       \* bound: of no consequence without a signal
  /\ signal' = "awaited"
  /\ UNCHANGED <<idleVars, inhibitVars, sessionVars, frameVars, computeVars, taskVars, inputs,
                 outputs, phase, frameLost, envVars>>

\* Taking another branch drops the future, with a signal it was told of.
DropSignalFuture ==
  signal' = CASE signal = "awaited" -> "unawaited"
              [] signal = "pending" -> "lost"
              [] OTHER              -> signal

Awake == phase = "running" /\ DropSignalFuture

\* handle_frame_stage
HandleFrameStage ==
  /\ Awake
  /\ frameStages # <<>>
  /\ frameStages' = Tail(frameStages)
  /\ LET stage == Head(frameStages) IN
     /\ frameStarts' = frameStarts \ {stage.frame}
     /\ IF stage.kind = "LedDispatched"
        THEN /\ lastAutoFrame' = stage.frame
             /\ framesInflight' = IF stage.frame \in frameStarts
                                  THEN Append(framesInflight, stage.frame)
                                  ELSE framesInflight
        ELSE /\ framesInflight' = IF stage.frame \in frameStarts
                                  THEN framesInflight
                                  ELSE RemoveFirst(framesInflight, stage.frame)
             /\ UNCHANGED lastAutoFrame
  /\ UNCHANGED <<frameCounter, idleVars, inhibitVars, sessionVars, computeVars, taskVars,
                 ledEvents, clientReqs, waylandEvents, idleTimeouts, outputs,
                 phase, frameLost, envVars>>

\* handle_led_event: Done completes the oldest frame in flight, outside manual mode
HandleLedEvent ==
  /\ Awake
  /\ frameStages = <<>>
  /\ ledEvents # <<>>
  /\ ledEvents' = Tail(ledEvents)
  /\ framesInflight' =
       IF Head(ledEvents) = "Done" /\ ~manualEnabled /\ framesInflight # <<>>
       THEN Tail(framesInflight)
       ELSE framesInflight
  /\ UNCHANGED <<lastAutoFrame, frameCounter, frameStarts, idleVars, inhibitVars,
                 sessionVars, computeVars, taskVars, frameStages, clientReqs,
                 waylandEvents, idleTimeouts, outputs, phase, frameLost, envVars>>

Reply(c, answer) == replies' = [replies EXCEPT ![c] = @ \o answer]

\* handle_client_led
HandleLed(c) ==
  /\ IF manualEnabled
     THEN Reply(c, <<Ack>>) /\ ledCmds' = Append(ledCmds, FromClient)
     ELSE Reply(c, <<Nack>>) /\ UNCHANGED ledCmds
  /\ UNCHANGED <<manualEnabled, manualFlag, manualStartedWhileIdle, idleVars, inhibitVars,
                 idleTimeouts, captures, frameLost>>

\* handle_manual_mode_request
HandleManualModeRequest(c, enabled) ==
  /\ manualEnabled' = enabled
  /\ IF enabled # manualEnabled
     THEN OnManualStateChanged(enabled)
     ELSE UNCHANGED <<manualFlag, manualStartedWhileIdle, pendingFadeIn, ledCmds,
                      captures, frameLost>>
  /\ Reply(c, <<[type |-> "ManualMode", enabled |-> enabled], Ack>>)
  /\ UNCHANGED <<idle, seatIdle, inhibitVars, idleTimeouts>>

\* handle_idle_inhibit_request; the remaining time is told as timed or not
HandleIdleInhibitRequest(c, enabled, timeout) ==
  /\ ApplyIdleInhibitState(enabled, timeout)
  /\ Reply(c, <<[type |-> "IdleInhibit", enabled |-> enabled,
                 timed |-> enabled /\ hasDeadline'], Ack>>)
  /\ UNCHANGED <<manualEnabled, manualFlag>>

\* the two queries of handle_client_message
HandleQuery(c, state) ==
  /\ Reply(c, <<state, Ack>>)
  /\ UNCHANGED <<manualEnabled, manualFlag, manualStartedWhileIdle, idleVars, inhibitVars,
                 idleTimeouts, ledCmds, captures, frameLost>>

\* handle_client_message, after register_client
HandleMessage(c, msg) ==
  /\ clients' = clients \cup {c}
  /\ \/ msg.type = "Led" /\ HandleLed(c)
     \/ msg.type = "SetManualMode" /\ HandleManualModeRequest(c, msg.enabled)
     \/ /\ msg.type = "GetManualMode"
        /\ HandleQuery(c, [type |-> "ManualMode", enabled |-> manualEnabled])
     \/ /\ msg.type = "SetIdleInhibit"
        /\ HandleIdleInhibitRequest(c, msg.enabled, msg.timeout)
     \/ /\ msg.type = "GetIdleInhibit"
        /\ HandleQuery(c, [type |-> "IdleInhibit", enabled |-> idleInhibit,
                           timed |-> idleInhibit /\ hasDeadline])

\* Mutant: removes the client and leaves manual mode as it is.
HandleDisconnectOnly(c) ==
  /\ clients' = clients \ {c}
  /\ UNCHANGED <<manualEnabled, manualFlag, manualStartedWhileIdle, idleVars, inhibitVars,
                 ledCmds, captures, frameLost, idleTimeouts, replies>>

\* handle_client_disconnect, with ClientSessions::remove
HandleDisconnect(c) ==
  /\ clients' = clients \ {c}
  /\ IF c \in clients /\ clients = {c} /\ manualEnabled
     THEN manualEnabled' = FALSE /\ OnManualStateChanged(FALSE)
     ELSE UNCHANGED <<manualEnabled, manualFlag, manualStartedWhileIdle, pendingFadeIn,
                      ledCmds, captures, frameLost>>
  /\ UNCHANGED <<idle, seatIdle, inhibitVars, idleTimeouts, replies>>

\* handle_client_command
HandleClientCommand ==
  /\ Awake
  /\ frameStages = <<>> /\ ledEvents = <<>>
  /\ clientReqs # <<>>
  /\ clientReqs' = Tail(clientReqs)
  /\ LET req == Head(clientReqs) IN
     \/ req.type = "Message" /\ HandleMessage(req.client, req.msg)
     \/ req.type = "Disconnected" /\ HandleDisconnect(req.client)
  /\ UNCHANGED <<frameVars, computeVars, taskVars, frameStages, ledEvents, waylandEvents,
                 phase, envVars>>

\* What every branch that takes a Wayland event shares.
TakeWaylandEvent(event) ==
  /\ Awake
  /\ frameStages = <<>> /\ ledEvents = <<>> /\ clientReqs = <<>>
  /\ waylandEvents # <<>>
  /\ Head(waylandEvents) = event
  /\ waylandEvents' = Tail(waylandEvents)
  /\ UNCHANGED <<inhibitVars, clients, manualEnabled, manualFlag, lastAutoFrame,
                 framesInflight, frameStages, ledEvents, clientReqs, idleTimeouts,
                 replies, envVars>>

\* handle_wayland_event: IdleEvent::Idle and IdleEvent::Active
HandleSeatEvent ==
  \E event \in {"Idle", "Active"} :
    /\ TakeWaylandEvent(event)
    /\ seatIdle' = (event = "Idle")
    /\ UpdateEffectiveIdleState
    /\ UNCHANGED <<frameCounter, frameStarts, computeVars, taskVars, phase>>

\* handle_wayland_event: DmabufCreated enters set_screen_dmabuf, which blocks the
\* task in wait_for_idle ...
HandleDmabufCreated ==
  /\ TakeWaylandEvent("DmabufCreated")
  /\ phase' = "importing"
  /\ UNCHANGED <<idleVars, manualStartedWhileIdle, frameCounter, frameStarts, computeVars,
                 taskVars, ledCmds, captures, frameLost>>

\* ... until no dispatch is in flight.
FinishImport ==
  /\ phase = "importing"
  /\ Compute!SetScreenDmabuf
  /\ phase' = "running"
  /\ UNCHANGED <<idleVars, inhibitVars, sessionVars, frameVars, taskVars, inputs, outputs,
                 signal, frameLost, envVars>>

\* handle_wayland_event: FrameReady, while idle or in manual mode
SkipFrame ==
  /\ TakeWaylandEvent("FrameReady")
  /\ idle \/ manualEnabled
  /\ UNCHANGED <<idleVars, manualStartedWhileIdle, frameCounter, frameStarts, computeVars,
                 taskVars, ledCmds, captures, phase, frameLost>>

\* Mutant: a frame that finds another one in flight is counted twice.
NextFrameTwice ==
  /\ frameCounter < MaxFrames
  /\ frameCounter' = IF inFlight THEN frameCounter + 2 ELSE frameCounter + 1

\* Every frame the handler accepts takes an id, dispatched or not.
NextFrame ==
  /\ frameCounter < MaxFrames      \* bound; CaptureReady already stops there
  /\ frameCounter' = frameCounter + 1

\* handle_wayland_event: FrameReady, dispatched
DispatchFrame ==
  /\ TakeWaylandEvent("FrameReady")
  /\ ~idle /\ ~manualEnabled
  /\ Compute!Dispatch
  /\ NextFrame
  /\ frameStarts' = frameStarts \cup {frameCounter}
  /\ task' = [task EXCEPT ![frameCounter] = "waiting"]
  /\ fading' = IF pendingFadeIn THEN fading \cup {frameCounter} ELSE fading
  /\ pendingFadeIn' = FALSE
  /\ UNCHANGED <<idle, seatIdle, manualStartedWhileIdle, ledCmds, captures, phase, frameLost>>

\* handle_wayland_event: FrameReady, and dispatch() returned an error
DispatchFrameFails ==
  /\ TakeWaylandEvent("FrameReady")
  /\ ~idle /\ ~manualEnabled
  /\ Compute!DispatchFails
  /\ NextFrame
  /\ frameLost' = TRUE
  /\ UNCHANGED <<idleVars, manualStartedWhileIdle, frameStarts, taskVars, ledCmds, captures,
                 phase>>

\* on_idle_inhibit_timeout
OnIdleInhibitTimeout ==
  /\ Awake
  /\ frameStages = <<>> /\ ledEvents = <<>> /\ clientReqs = <<>> /\ waylandEvents = <<>>
  /\ idleTimeouts > 0
  /\ idleTimeouts' = idleTimeouts - 1
  /\ timer' = "none"
  /\ orphans' = IF timer = "sleeping" THEN orphans + 1 ELSE orphans
  /\ UNCHANGED seatIdle
  /\ IF idleInhibit
     THEN /\ idleInhibit' = FALSE
          /\ requestedTimeout' = NoTimeout
          /\ hasDeadline' = FALSE
          /\ UpdateEffectiveIdleState
     ELSE UNCHANGED <<idle, pendingFadeIn, idleInhibit, requestedTimeout, hasDeadline,
                      manualStartedWhileIdle, ledCmds, captures, frameLost>>
  /\ UNCHANGED <<clients, manualEnabled, manualFlag, frameVars, computeVars, taskVars,
                 frameStages, ledEvents, clientReqs, waylandEvents, replies, phase, envVars>>

\* The signal branch: leave the loop, cancel every task and timer.
StopOnSignal ==
  /\ phase = "running" /\ NothingQueued
  /\ signal = "pending"
  /\ signal' = "caught"
  /\ phase' = "draining"
  /\ timer' = "none" /\ orphans' = 0
  /\ UNCHANGED <<idleVars, idleInhibit, requestedTimeout, hasDeadline, sessionVars, frameVars,
                 computeVars, taskVars, inputs, outputs, frameLost, envVars>>

\* compute.wait_for_idle() after the loop.
FinishDraining ==
  /\ phase = "draining"
  /\ ~inFlight
  /\ phase' = "stopped"
  /\ UNCHANGED <<idleVars, inhibitVars, sessionVars, frameVars, computeVars, taskVars,
                 inputs, outputs, signal, frameLost, envVars>>

HandlerStep ==
  \/ HandleFrameStage
  \/ HandleLedEvent
  \/ HandleClientCommand
  \/ HandleSeatEvent
  \/ HandleDmabufCreated
  \/ FinishImport
  \/ SkipFrame
  \/ DispatchFrame
  \/ DispatchFrameFails
  \/ OnIdleInhibitTimeout
  \/ AwaitSignal
  \/ StopOnSignal
  \/ FinishDraining

-------------------------------------------------------------------------------
(* await_compute_dispatch: one task per dispatched frame, on any thread.      *)

TaskStep(f, from, to) ==
  /\ task[f] = from
  /\ task' = [task EXCEPT ![f] = to]
  /\ UNCHANGED <<idleVars, inhibitVars, sessionVars, frameVars, ledEvents, clientReqs,
                 waylandEvents, idleTimeouts, replies, processVars, envVars>>

\* The oneshot resolves: with a result, or closed.
ResultArrives(f) ==
  /\ Compute!SendOutput
  /\ TaskStep(f, "waiting", "ready")
  /\ UNCHANGED <<fading, frameStages, ledCmds, captures, frameLost>>

ResultLost(f) ==
  /\ Compute!LoseOutput
  /\ TaskStep(f, "waiting", "closed")
  /\ UNCHANGED <<fading, frameStages, ledCmds, captures, frameLost>>

\* manual_flag.load; the captured idle is FALSE for every dispatched frame
CheckManualFlag(f) ==
  /\ TaskStep(f, "ready", IF manualFlag THEN "finishing" ELSE "lighting")
  /\ UNCHANGED <<computeVars, fading, frameStages, ledCmds, captures, frameLost>>

\* led_tx.send succeeds while the LED manager holds its end of the channel ...
LightFrame(f) ==
  /\ TaskStep(f, "lighting", "staging")
  /\ ledCmds' = Append(ledCmds, IF f \in fading THEN FadeIn(f) ELSE SetStripState(f))
  /\ UNCHANGED <<computeVars, fading, frameStages, captures, frameLost>>

\* ... which it may have dropped once it is cancelled.
LightFrameFails(f) ==
  /\ phase \in {"draining", "stopped"}
  /\ TaskStep(f, "lighting", "finishing")
  /\ frameStages' = Append(frameStages, [kind |-> "Aborted", frame |-> f])
  /\ UNCHANGED <<computeVars, fading, ledCmds, captures, frameLost>>

\* frame_stage_tx.send(LedDispatched)
StageFrame(f) ==
  /\ TaskStep(f, "staging", "finishing")
  /\ frameStages' = Append(frameStages, [kind |-> "LedDispatched", frame |-> f])
  /\ UNCHANGED <<computeVars, fading, ledCmds, captures, frameLost>>

\* Mutant: also reports the end of the frame as a stage.
FinishFrameReports(f) ==
  /\ TaskStep(f, "finishing", "none")
  /\ fading' = fading \ {f}
  /\ frameStages' = Append(frameStages, [kind |-> "Aborted", frame |-> f])
  /\ SendComputeDone
  /\ UNCHANGED <<computeVars, ledCmds>>

\* Mutant: a finished frame does not ask for the next one.
FinishFrameQuiet(f) ==
  /\ TaskStep(f, "finishing", "none")
  /\ fading' = fading \ {f}
  /\ UNCHANGED <<computeVars, frameStages, ledCmds, captures, frameLost>>

\* wayland_tx.send(ComputeDone)
FinishFrame(f) ==
  /\ TaskStep(f, "finishing", "none")
  /\ fading' = fading \ {f}
  /\ SendComputeDone
  /\ UNCHANGED <<computeVars, frameStages, ledCmds>>

\* The Err arm: no ComputeDone is sent.
AbortFrame(f) ==
  /\ TaskStep(f, "closed", "none")
  /\ fading' = fading \ {f}
  /\ frameStages' = Append(frameStages, [kind |-> "Aborted", frame |-> f])
  /\ frameLost' = TRUE
  /\ UNCHANGED <<computeVars, ledCmds, captures>>

FrameTask(f) ==
  \/ ResultArrives(f)
  \/ ResultLost(f)
  \/ CheckManualFlag(f)
  \/ LightFrame(f)
  \/ LightFrameFails(f)
  \/ StageFrame(f)
  \/ FinishFrame(f)
  \/ AbortFrame(f)

\* The blocking thread's last statement.
FreeCommandBuffer ==
  /\ Compute!ClearInFlight
  /\ UNCHANGED <<idleVars, inhibitVars, sessionVars, frameVars, taskVars, inputs, outputs,
                 processVars, frameLost, envVars>>

\* The spawned sleep of start_idle_inhibit_timer elapses.
TimerFires ==
  /\ \/ timer = "sleeping" /\ timer' = "fired" /\ UNCHANGED orphans
     \/ orphans > 0 /\ orphans' = orphans - 1 /\ UNCHANGED timer
  /\ idleTimeouts' = idleTimeouts + 1
  /\ UNCHANGED <<idleVars, idleInhibit, requestedTimeout, hasDeadline, sessionVars, frameVars,
                 computeVars, taskVars, frameStages, ledEvents, clientReqs, waylandEvents,
                 outputs, processVars, frameLost, envVars>>

-------------------------------------------------------------------------------
(* The environment.                                                           *)

FramesQueued == Len(SelectSeq(waylandEvents, LAMBDA e : e = "FrameReady"))

\* The compositor has copied a frame.
CaptureReady ==
  /\ captures > 0
  /\ frameCounter + FramesQueued < MaxFrames
  /\ captures' = captures - 1
  /\ waylandEvents' = Append(waylandEvents, "FrameReady")
  /\ UNCHANGED <<idleVars, inhibitVars, sessionVars, frameVars, computeVars, taskVars,
                 frameStages, ledEvents, clientReqs, idleTimeouts, ledCmds, replies,
                 processVars, frameLost, envVars>>

\* A capture is given up: superseded by another one under way, or failed.
CaptureEnds ==
  /\ captures' = captures - 1
  /\ \/ captures > 1 /\ UNCHANGED frameLost
     \/ captures > 0 /\ "capture" \in Faults /\ frameLost' = TRUE
  /\ UNCHANGED <<idleVars, inhibitVars, sessionVars, frameVars, computeVars, taskVars, inputs,
                 ledCmds, replies, processVars, envVars>>

\* The compositor reports the seat, or a new output needs a new buffer.
WaylandSends ==
  /\ waylandSent < MaxWaylandEvents
  /\ Len(waylandEvents) < MaxQueued
  /\ \E event \in WaylandEvents \ {"FrameReady"} :
       waylandEvents' = Append(waylandEvents, event)
  /\ waylandSent' = waylandSent + 1
  /\ UNCHANGED <<idleVars, inhibitVars, sessionVars, frameVars, computeVars, taskVars,
                 frameStages, ledEvents, clientReqs, idleTimeouts, outputs, processVars,
                 frameLost, strip, requestsSent, ledSent>>

\* A client's message, or the end of its connection, forwarded by ClientMan.
ClientSends ==
  /\ requestsSent < MaxRequests
  /\ Len(clientReqs) < MaxQueued /\ \A c \in Clients : Len(replies[c]) < MaxQueued
  /\ \E c \in Clients :
       \/ \E msg \in Requests :
            clientReqs' = Append(clientReqs, [client |-> c, type |-> "Message", msg |-> msg])
       \/ clientReqs' = Append(clientReqs, [client |-> c, type |-> "Disconnected"])
  /\ requestsSent' = requestsSent + 1
  /\ UNCHANGED <<idleVars, inhibitVars, sessionVars, frameVars, computeVars, taskVars,
                 frameStages, ledEvents, waylandEvents, idleTimeouts, outputs, processVars,
                 frameLost, strip, waylandSent, ledSent>>

\* The LED manager takes a command; the picture is where the command leads to.
LedTakes ==
  /\ ledCmds # <<>>
  /\ strip' = Head(ledCmds).picture
  /\ ledCmds' = Tail(ledCmds)
  /\ UNCHANGED <<idleVars, inhibitVars, sessionVars, frameVars, computeVars, taskVars, inputs,
                 replies, captures, processVars, frameLost, waylandSent, requestsSent,
                 ledSent>>

\* ClientMan takes the answers to a client.
RepliesTaken ==
  /\ \E c \in Clients : replies[c] # <<>> /\ replies' = [replies EXCEPT ![c] = <<>>]
  /\ UNCHANGED <<idleVars, inhibitVars, sessionVars, frameVars, computeVars, taskVars, inputs,
                 ledCmds, captures, processVars, frameLost, envVars>>

\* Writes are confirmed by the strip at any time: animations make many writes
\* per command, a retargeted fade makes none, and a confirmation may be lost.
LedReports ==
  /\ ledSent < MaxLedEvents
  /\ ledSent' = ledSent + 1
  /\ \E event \in LedEvents : ledEvents' = Append(ledEvents, event)
  /\ UNCHANGED <<idleVars, inhibitVars, sessionVars, frameVars, computeVars, taskVars,
                 frameStages, clientReqs, waylandEvents, idleTimeouts, outputs, processVars,
                 frameLost, strip, waylandSent, requestsSent>>

\* SIGTERM, once.  While the loop is in a handler, or has not polled the future of
\* this iteration, nothing is told of it.  Before the first poll it ends the process,
\* and with it the behaviour.
Signal ==
  /\ MaxSignals = 1
  /\ \/ signal = "awaited" /\ signal' = "pending"
     \/ signal = "unawaited" /\ signal' = "lost"
  /\ UNCHANGED <<idleVars, inhibitVars, sessionVars, frameVars, computeVars, taskVars, inputs,
                 outputs, phase, frameLost, envVars>>

Environment ==
  \/ CaptureReady
  \/ CaptureEnds
  \/ WaylandSends
  \/ ClientSends
  \/ LedTakes
  \/ RepliesTaken
  \/ LedReports
  \/ Signal

Next ==
  \/ HandlerStep
  \/ \E f \in Frames : FrameTask(f)
  \/ FreeCommandBuffer
  \/ TimerFires
  \/ Environment

Spec == Init /\ [][Next]_vars

(***************************************************************************)
(* The runtime polls every ready task; sleeping timers elapse, the GPU     *)
(* signals its fence and the compositor completes a capture (it waits for  *)
(* damage: the screen keeps changing).  Clients, the seat, the LED events  *)
(* and the signal are under no obligation.                                 *)
(***************************************************************************)
Fairness ==
  /\ WF_vars(HandlerStep)
  /\ \A f \in Frames : WF_vars(FrameTask(f))
  /\ WF_vars(FreeCommandBuffer)
  /\ WF_vars(TimerFires)
  /\ WF_vars(CaptureReady)

FairSpec == Spec /\ Fairness

-------------------------------------------------------------------------------
(* Properties.                                                                *)

\* The daemon sleeps exactly when the seat is idle and nothing inhibits it,
\* whichever of the seat, a request or a timer changed last
\* (update_effective_idle_state is called by three handlers).
EffectiveIdle == idle <=> seatIdle /\ ~idleInhibit

\* The flag the frame tasks read is the mode the handler keeps, and manual mode
\* belongs to a registered client: it never outlives the last one, on any path
\* of requests and disconnects.
ManualModeOwned ==
  /\ manualFlag <=> manualEnabled
  /\ manualEnabled => clients # {}

\* The two flags that steer the hand-over between modes never describe a mode
\* that is over: a fade-in is only pending for the automatic mode, and manual mode
\* only counts as started while idle as long as that idle period and it last.
HandOverFlags ==
  /\ pendingFadeIn => ~manualEnabled
  /\ manualStartedWhileIdle => manualEnabled /\ idle

\* An idle inhibit with a timeout always has an end in sight: its timer sleeps
\* or an expiry is queued; and request, deadline and inhibit agree.
InhibitWillEnd ==
  /\ hasDeadline <=> requestedTimeout # NoTimeout
  /\ ~idleInhibit => requestedTimeout = NoTimeout
  /\ hasDeadline /\ phase \in {"running", "importing"} =>
       timer = "sleeping" \/ idleTimeouts > 0

\* The picture the strip shows once the queued commands are carried out.
FinalPicture == IF ledCmds = <<>> THEN strip ELSE Last(ledCmds).picture

\* When manual mode is off, however it ended, nothing a client drew is left on
\* the strip or on its way there.
NoClientPictureLeft == ~manualEnabled => FinalPicture # ClientPicture

\* What keeps the frame loop going: a capture, its event, or a frame's task.
LoopAlive ==
  \/ captures > 0
  \/ \E i \in 1 .. Len(waylandEvents) : waylandEvents[i] = "FrameReady"
  \/ \E f \in Frames : task[f] # "none"

Automatic == phase \in {"running", "importing"} /\ ~idle /\ ~manualEnabled

\* The loop consumes its token whenever a frame arrives while idle or in manual
\* mode; every way back to automatic operation must have put one in again.
FrameLoopAlive == Automatic /\ ~frameLost => LoopAlive

\* A frame's stage always finds the frame's start, so that a frame is timed once:
\* no frame is in both tables, and no stage is queued twice.
StagesMatchStarts ==
  /\ \A i \in 1 .. Len(frameStages) :
       /\ frameStages[i].frame \in frameStarts
       /\ \A j \in 1 .. i - 1 : frameStages[i].frame # frameStages[j].frame
  /\ \A i \in 1 .. Len(framesInflight) :
       /\ framesInflight[i] \notin frameStarts
       /\ \A j \in 1 .. i - 1 : framesInflight[i] # framesInflight[j]

\* An idle inhibit that has a timeout ends, or is replaced by one that has none.
TimedInhibitEnds ==
  hasDeadline ~> ~hasDeadline \/ phase \in {"draining", "stopped"}

\* A failed call left in_flight set and no thread to clear it: every dispatch fails
\* from here on, and an import waits for ever.
InFlightLeaked == inFlight /\ waiter = "none"

\* Automatic operation goes on: as long as frames are left to accept one is, unless
\* the mode changes, an error ends a frame or in_flight stays set.
FramesKeepComing ==
  (Automatic /\ ~frameLost /\ frameCounter < MaxFrames)
    ~> (~Automatic \/ frameLost \/ InFlightLeaked \/ frameCounter = MaxFrames)

-------------------------------------------------------------------------------
(* What messages and comments of the code say, and the code does not keep.    *)

\* "turning off leds since seat is idle", and a result that arrives then is
\* ignored: an idle daemon outside manual mode leaves the strip dark.
IdleStripDark ==
  idle /\ ~manualEnabled /\ ledCmds = <<>> /\ frameStages = <<>>
    /\ (\A f \in Frames : task[f] = "none")
    => strip = Black

\* "shutdown signal received, stopping...": a SIGTERM that the daemon has a handler
\* for stops it.
SignalIsSeen == signal # "lost"
==============================================================================
