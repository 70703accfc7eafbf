----------------------------- MODULE BridgeProofs -----------------------------
(***************************************************************************)
(* Bridge, for every value of its constants.  First its types: TypeOK is   *)
(* inductive by itself.  There is one lemma per action; the handlers that  *)
(* share helpers (update_effective_idle_state and the others) cite one     *)
(* lemma per helper.  A step that assigns Boolean literals and numbers     *)
(* proves the two kinds of membership apart: Zenon knows the first, the    *)
(* SMT solver the second.                                                  *)
(*                                                                         *)
(* Then its safety invariants, each strengthened to an inductive one over  *)
(* the typed states; each part of Next that can disturb it has a lemma:    *)
(*   ModeInv     the idle, manual-mode and inhibit flags agree;            *)
(*   StageInv    frames pass through frame_starts, the stage queue and     *)
(*               frames_inflight once each, in that order;                 *)
(*   PictureInv  no picture of a client outlives manual mode;              *)
(*   FrameLoopAlive is inductive as it stands.                             *)
(***************************************************************************)
EXTENDS Bridge, SequenceTheorems, WellFoundedInduction, TLAPS

-------------------------------------------------------------------------------
(* Sequences.                                                                 *)

\* A nonempty set of naturals has a least element, so Min picks a member.
LEMMA LeastNatural ==
  ASSUME NEW T, T \subseteq Nat, T # {}
  PROVE  Min(T) \in T
<1>. DEFINE R == OpToRel(<, Nat)
<1>1. IsWellFoundedOn(R, Nat)
  BY NatLessThanWellFounded
<1>2. ASSUME NEW n \in Nat, NEW m \in Nat, n < m
      PROVE  <<n, m>> \in R
  BY <1>2 DEF OpToRel
<1>. HIDE DEF R
<1>3. PICK m \in T : \A n \in T : ~(<<n, m>> \in R)
  BY <1>1, WFMin
<1>4. ASSUME NEW n \in T
      PROVE  m =< n
  <2>1. n \in Nat /\ m \in Nat /\ ~(n < m)
    BY <1>2, <1>3
  <2>. QED
    BY <2>1
<1>. QED
  BY <1>4 DEF Min

\* Removing the first occurrence of an element keeps a sequence's type.
LEMMA RemoveFirstType ==
  ASSUME NEW S, NEW s \in Seq(S), NEW e
  PROVE  RemoveFirst(s, e) \in Seq(S)
<1>. DEFINE I == {i \in 1 .. Len(s) : s[i] = e}
<1>1. CASE I = {}
  BY <1>1 DEF RemoveFirst
<1>2. CASE I # {}
  <2>1. I \subseteq Nat
    OBVIOUS
  <2>2. Min(I) \in 1 .. Len(s)
    BY <1>2, <2>1, LeastNatural
  <2>3. SelectInSeq(s, LAMBDA v : v = e) = Min(I)
    BY <1>2 DEF SelectInSeq
  <2>4. RemoveAt(s, Min(I)) \in Seq(S)
    <3>. DEFINE m == Min(I)
    <3>1. m \in 1 .. Len(s)
      BY <2>2
    <3>. HIDE DEF m
    <3>2. SubSeq(s, 1, m - 1) \in Seq(S) /\ SubSeq(s, m + 1, Len(s)) \in Seq(S)
      BY <3>1, SubSeqProperties
    <3>3. RemoveAt(s, m) \in Seq(S)
      BY <3>2, ConcatProperties DEF RemoveAt
    <3>. QED
      BY <3>3 DEF m
  <2>. QED
    BY <2>3, <2>4 DEF RemoveFirst
<1>. QED
  BY <1>1, <1>2

-------------------------------------------------------------------------------
(* The handlers' helpers.                                                     *)

\* The commands the handler and the clients send.
LEMMA CommandTypes ==
  /\ FadeOut \in LedCommands
  /\ FromClient \in LedCommands
  /\ \A p \in Pictures : SetStripState(p) \in LedCommands
  BY DEF FadeOut, FromClient, SetStripState, LedCommands, Pictures, Black, ClientPicture

\* What the end of manual mode sends.
LEMMA RestoreType ==
  ASSUME TypeOK
  PROVE  RestoreCommands \in Seq(LedCommands)
<1>1. FadeOut \in LedCommands
  BY CommandTypes
<1>2. SetStripState(lastAutoFrame) \in LedCommands
  BY CommandTypes DEF TypeOK, FrameTypeOK
<1>3. /\ <<FadeOut>> \in Seq(LedCommands)
      /\ <<SetStripState(lastAutoFrame)>> \in Seq(LedCommands)
      /\ <<SetStripState(lastAutoFrame), FadeOut>> \in Seq(LedCommands)
  BY <1>1, <1>2
<1>. QED
  BY <1>3 DEF RestoreCommands

\* update_effective_idle_state and the two hooks it calls.
LEMMA UpdateType ==
  ASSUME TypeOK, UpdateEffectiveIdleState
  PROVE  /\ idle' \in BOOLEAN /\ pendingFadeIn' \in BOOLEAN
         /\ manualStartedWhileIdle' \in BOOLEAN /\ frameLost' \in BOOLEAN
         /\ ledCmds' \in Seq(LedCommands) /\ captures' \in Nat
<1>. USE DEF TypeOK, IdleTypeOK, SessionTypeOK, OutputTypeOK, EnvTypeOK
<1>1. idle' \in BOOLEAN
  BY DEF UpdateEffectiveIdleState, EffectivelyIdle
<1>2. Append(ledCmds, FadeOut) \in Seq(LedCommands)
  <2>1. FadeOut \in LedCommands
    BY CommandTypes
  <2>. QED
    BY <2>1, AppendProperties
<1>3. CASE OnEnterIdle
  <2>1. ledCmds' \in Seq(LedCommands) /\ captures' \in Nat
    BY <1>2, <1>3 DEF OnEnterIdle
  <2>2. pendingFadeIn' \in BOOLEAN /\ manualStartedWhileIdle' \in BOOLEAN /\ frameLost' \in BOOLEAN
    BY <1>3 DEF OnEnterIdle
  <2>. QED
    BY <1>1, <2>1, <2>2
<1>4. CASE OnExitIdle
  <2>1. ledCmds' \in Seq(LedCommands) /\ captures' \in Nat
    BY <1>4 DEF OnExitIdle, SendComputeDone
  <2>2. pendingFadeIn' \in BOOLEAN /\ manualStartedWhileIdle' \in BOOLEAN /\ frameLost' \in BOOLEAN
    BY <1>4 DEF OnExitIdle, SendComputeDone
  <2>. QED
    BY <1>1, <2>1, <2>2
<1>5. CASE UNCHANGED <<ledCmds, captures, frameLost, pendingFadeIn, manualStartedWhileIdle>>
  BY <1>1, <1>5
<1>. QED
  BY <1>3, <1>4, <1>5 DEF UpdateEffectiveIdleState

\* on_manual_state_changed.
LEMMA ManualStateType ==
  ASSUME TypeOK, NEW enabled \in BOOLEAN, OnManualStateChanged(enabled)
  PROVE  /\ manualFlag' \in BOOLEAN /\ pendingFadeIn' \in BOOLEAN
         /\ manualStartedWhileIdle' \in BOOLEAN /\ frameLost' \in BOOLEAN
         /\ ledCmds' \in Seq(LedCommands) /\ captures' \in Nat
<1>. USE DEF TypeOK, IdleTypeOK, SessionTypeOK, OutputTypeOK, EnvTypeOK
<1>1. /\ manualFlag' \in BOOLEAN /\ pendingFadeIn' \in BOOLEAN
      /\ manualStartedWhileIdle' \in BOOLEAN
  BY DEF OnManualStateChanged
<1>2. frameLost' \in BOOLEAN
  BY DEF OnManualStateChanged, SendComputeDone
<1>3. captures' \in Nat
  BY DEF OnManualStateChanged, SendComputeDone
<1>4. ledCmds \o RestoreCommands \in Seq(LedCommands)
  BY RestoreType, ConcatProperties
<1>5. ledCmds' \in Seq(LedCommands)
  BY <1>4 DEF OnManualStateChanged
<1>. QED
  BY <1>1, <1>2, <1>3, <1>5

\* apply_idle_inhibit_state.
LEMMA ApplyType ==
  ASSUME TypeOK, NEW enabled \in BOOLEAN, NEW timeout \in TimeoutChoices,
         ApplyIdleInhibitState(enabled, timeout)
  PROVE  /\ IdleTypeOK' /\ InhibitTypeOK' /\ idleTimeouts' \in Nat
         /\ manualStartedWhileIdle' \in BOOLEAN /\ frameLost' \in BOOLEAN
         /\ ledCmds' \in Seq(LedCommands) /\ captures' \in Nat
<1>1. UpdateEffectiveIdleState
  BY DEF ApplyIdleInhibitState
<1>2. IdleTypeOK'
  BY <1>1, UpdateType DEF ApplyIdleInhibitState, TypeOK, IdleTypeOK
<1>3. idleInhibit' \in BOOLEAN /\ hasDeadline' \in BOOLEAN
  BY DEF ApplyIdleInhibitState, StartIdleInhibitTimer
<1>4. timer' \in {"none", "sleeping", "fired"} /\ idleTimeouts' \in Nat /\ orphans' \in Nat
  BY DEF ApplyIdleInhibitState, StartIdleInhibitTimer, CancelIdleInhibitTimer, TypeOK,
         InhibitTypeOK, InputTypeOK
<1>5. requestedTimeout' \in TimeoutChoices
  BY DEF ApplyIdleInhibitState, TimeoutChoices
<1>. QED
  BY <1>1, <1>2, <1>3, <1>4, <1>5, UpdateType DEF InhibitTypeOK

-------------------------------------------------------------------------------
(* Client requests.                                                           *)

\* What a client request may change besides its own queue.
HandledTypeOK ==
  /\ IdleTypeOK /\ InhibitTypeOK /\ SessionTypeOK /\ OutputTypeOK
  /\ idleTimeouts \in Nat /\ frameLost \in BOOLEAN

\* Every answer is a sequence of replies.
LEMMA ReplyTypes ==
  /\ <<Ack>> \in Seq(Replies) /\ <<Nack>> \in Seq(Replies)
  /\ \A b \in BOOLEAN : <<[type |-> "ManualMode", enabled |-> b], Ack>> \in Seq(Replies)
  /\ \A b \in BOOLEAN, t \in BOOLEAN :
       <<[type |-> "IdleInhibit", enabled |-> b, timed |-> t], Ack>> \in Seq(Replies)
<1>1. Ack \in Replies /\ Nack \in Replies
  BY DEF Ack, Nack, Replies
<1>2. ASSUME NEW b \in BOOLEAN
      PROVE  [type |-> "ManualMode", enabled |-> b] \in Replies
  BY <1>2 DEF Replies
<1>3. ASSUME NEW b \in BOOLEAN, NEW t \in BOOLEAN
      PROVE  [type |-> "IdleInhibit", enabled |-> b, timed |-> t] \in Replies
  BY <1>3 DEF Replies
<1>. QED
  BY <1>1, <1>2, <1>3

\* An answer reaches the client it is addressed to.
LEMMA ReplyType ==
  ASSUME TypeOK, NEW c \in Clients, NEW answer \in Seq(Replies), Reply(c, answer)
  PROVE  replies' \in [Clients -> Seq(Replies)]
  BY DEF Reply, TypeOK, OutputTypeOK

\* handle_client_message.
LEMMA MessageType ==
  ASSUME TypeOK, NEW c \in Clients, NEW msg \in AllRequests, HandleMessage(c, msg)
  PROVE  HandledTypeOK'
<1>. USE DEF HandledTypeOK
<1>1. clients' \in SUBSET Clients
  BY DEF HandleMessage, TypeOK, SessionTypeOK
<1>2. CASE HandleLed(c)
  <2>1. replies' \in [Clients -> Seq(Replies)]
    BY <1>2, ReplyType, ReplyTypes DEF HandleLed
  <2>2. Append(ledCmds, FromClient) \in Seq(LedCommands)
    <3>1. FromClient \in LedCommands
      BY CommandTypes
    <3>. QED
      BY <3>1, AppendProperties DEF TypeOK, OutputTypeOK
  <2>3. ledCmds' \in Seq(LedCommands)
    BY <1>2, <2>2 DEF HandleLed, TypeOK, OutputTypeOK
  <2>. QED
    BY <1>1, <1>2, <2>1, <2>3
       DEF HandleLed, TypeOK, IdleTypeOK, InhibitTypeOK, SessionTypeOK, OutputTypeOK,
           InputTypeOK, EnvTypeOK, idleVars, inhibitVars
<1>3. ASSUME NEW enabled \in BOOLEAN, HandleManualModeRequest(c, enabled)
      PROVE  HandledTypeOK'
  <2>1. replies' \in [Clients -> Seq(Replies)]
    <3>1. <<[type |-> "ManualMode", enabled |-> enabled], Ack>> \in Seq(Replies)
      BY ReplyTypes
    <3>. QED
      BY <1>3, <3>1, ReplyType DEF HandleManualModeRequest
  <2>2. /\ manualFlag' \in BOOLEAN /\ pendingFadeIn' \in BOOLEAN
         /\ manualStartedWhileIdle' \in BOOLEAN /\ frameLost' \in BOOLEAN
         /\ ledCmds' \in Seq(LedCommands) /\ captures' \in Nat
    <3>1. CASE OnManualStateChanged(enabled)
      BY <3>1, ManualStateType
    <3>2. CASE ~OnManualStateChanged(enabled)
      BY <1>3, <3>2
         DEF HandleManualModeRequest, TypeOK, IdleTypeOK, SessionTypeOK, OutputTypeOK,
             EnvTypeOK
    <3>. QED
      BY <3>1, <3>2
  <2>. QED
    BY <1>1, <1>3, <2>1, <2>2
       DEF HandleManualModeRequest, TypeOK, IdleTypeOK, InhibitTypeOK, SessionTypeOK,
           OutputTypeOK, InputTypeOK, inhibitVars
<1>4. ASSUME NEW enabled \in BOOLEAN, NEW timeout \in TimeoutChoices,
             HandleIdleInhibitRequest(c, enabled, timeout)
      PROVE  HandledTypeOK'
  <2>1. ApplyIdleInhibitState(enabled, timeout)
    BY <1>4 DEF HandleIdleInhibitRequest
  <2>2. replies' \in [Clients -> Seq(Replies)]
    <3>1. (enabled /\ hasDeadline') \in BOOLEAN
      OBVIOUS
    <3>2. <<[type |-> "IdleInhibit", enabled |-> enabled, timed |-> enabled /\ hasDeadline'], Ack>> \in Seq(Replies)
      BY <3>1, ReplyTypes
    <3>. QED
      BY <1>4, <3>2, ReplyType DEF HandleIdleInhibitRequest
  <2>. QED
    BY <1>1, <1>4, <2>1, <2>2, ApplyType
       DEF HandleIdleInhibitRequest, TypeOK, SessionTypeOK, OutputTypeOK
<1>5. ASSUME NEW state \in Replies, HandleQuery(c, state)
      PROVE  HandledTypeOK'
  <2>1. <<state, Ack>> \in Seq(Replies)
     BY DEF Ack, Replies
  <2>2. replies' \in [Clients -> Seq(Replies)]
     BY <1>5, <2>1, ReplyType DEF HandleQuery
  <2>. QED
    BY <1>1, <1>5, <2>2
       DEF HandleQuery, TypeOK, IdleTypeOK, InhibitTypeOK, SessionTypeOK, OutputTypeOK,
           InputTypeOK, EnvTypeOK, idleVars, inhibitVars
<1>6. msg.type = "SetManualMode" => msg.enabled \in BOOLEAN
  BY DEF AllRequests
<1>7. msg.type = "SetIdleInhibit" => msg.enabled \in BOOLEAN /\ msg.timeout \in TimeoutChoices
  BY DEF AllRequests
<1>8. [type |-> "ManualMode", enabled |-> manualEnabled] \in Replies
  BY DEF TypeOK, SessionTypeOK, Replies
<1>9. [type |-> "IdleInhibit", enabled |-> idleInhibit, timed |-> idleInhibit /\ hasDeadline] \in Replies
  <2>1. idleInhibit \in BOOLEAN /\ (idleInhibit /\ hasDeadline) \in BOOLEAN
    BY DEF TypeOK, InhibitTypeOK
  <2>. QED
    BY <2>1 DEF Replies
<1>. QED
  BY <1>2, <1>3, <1>4, <1>5, <1>6, <1>7, <1>8, <1>9 DEF HandleMessage

\* handle_client_disconnect.
LEMMA DisconnectType ==
  ASSUME TypeOK, NEW c \in Clients, HandleDisconnect(c)
  PROVE  HandledTypeOK'
<1>. USE DEF HandledTypeOK
<1>1. clients' \in SUBSET Clients
  BY DEF HandleDisconnect, TypeOK, SessionTypeOK
<1>2. CASE manualEnabled' = FALSE /\ OnManualStateChanged(FALSE)
  <2>1. manualEnabled' \in BOOLEAN
    BY <1>2
  <2>2. /\ manualFlag' \in BOOLEAN /\ pendingFadeIn' \in BOOLEAN
         /\ manualStartedWhileIdle' \in BOOLEAN /\ frameLost' \in BOOLEAN
         /\ ledCmds' \in Seq(LedCommands) /\ captures' \in Nat
    BY <1>2, ManualStateType
  <2>. QED
    BY <1>1, <2>1, <2>2
       DEF HandleDisconnect, TypeOK, IdleTypeOK, InhibitTypeOK, SessionTypeOK, OutputTypeOK,
           InputTypeOK, inhibitVars
<1>3. CASE UNCHANGED <<manualEnabled, manualFlag, manualStartedWhileIdle, pendingFadeIn,
                      ledCmds, captures, frameLost>>
  BY <1>1, <1>3
     DEF HandleDisconnect, TypeOK, IdleTypeOK, InhibitTypeOK, SessionTypeOK, OutputTypeOK,
         InputTypeOK, EnvTypeOK, inhibitVars
<1>. QED
  BY <1>2, <1>3 DEF HandleDisconnect

\* handle_client_command.
LEMMA ClientCommandType == TypeOK /\ HandleClientCommand => TypeOK'
<1>. SUFFICES ASSUME TypeOK, HandleClientCommand
              PROVE  TypeOK'
  OBVIOUS
<1>. DEFINE req == Head(clientReqs)
<1>1. req \in ClientReqs /\ clientReqs' \in Seq(ClientReqs)
  BY DEF HandleClientCommand, TypeOK, InputTypeOK
<1>2. ASSUME req.type = "Message", HandleMessage(req.client, req.msg)
      PROVE  HandledTypeOK'
  <2>1. req.client \in Clients /\ req.msg \in AllRequests
    BY <1>1, <1>2 DEF ClientReqs
  <2>. QED
    BY <1>2, <2>1, MessageType
<1>3. ASSUME req.type = "Disconnected", HandleDisconnect(req.client)
      PROVE  HandledTypeOK'
  <2>1. req.client \in Clients
    BY <1>1, <1>3 DEF ClientReqs
  <2>. QED
    BY <1>3, <2>1, DisconnectType
<1>4. HandledTypeOK'
  BY <1>2, <1>3 DEF HandleClientCommand
<1>. QED
  BY <1>1, <1>4
     DEF HandledTypeOK, HandleClientCommand, Awake, DropSignalFuture, TypeOK, FrameTypeOK,
         TaskTypeOK, InputTypeOK, ProcessTypeOK, EnvTypeOK, Compute!ComputeTypeOK,
         frameVars, computeVars, taskVars, envVars

-------------------------------------------------------------------------------
(* The other branches of the select! loop.                                    *)

\* The lemmas from here to the theorem look into the types and the variable groups.
USE DEF TypeOK, IdleTypeOK, InhibitTypeOK, SessionTypeOK, FrameTypeOK, TaskTypeOK,
        InputTypeOK, OutputTypeOK, ProcessTypeOK, EnvTypeOK, Compute!ComputeTypeOK,
        Compute!WaiterStates, idleVars, inhibitVars, sessionVars, frameVars, computeVars,
        taskVars, inputs, outputs, processVars, envVars

\* handle_frame_stage.
LEMMA FrameStageType == TypeOK /\ HandleFrameStage => TypeOK'
<1>. SUFFICES ASSUME TypeOK, HandleFrameStage
              PROVE  TypeOK'
  OBVIOUS
<1>. DEFINE stage == Head(frameStages)
<1>1. stage \in Stages /\ frameStages' \in Seq(Stages)
  BY DEF HandleFrameStage
<1>2. stage.frame \in Frames
  BY <1>1 DEF Stages
<1>3. framesInflight' \in Seq(Frames)
  <2>1. framesInflight \in Seq(Frames)
    OBVIOUS
  <2>2. RemoveFirst(framesInflight, stage.frame) \in Seq(Frames)
    BY <2>1, RemoveFirstType
  <2>3. Append(framesInflight, stage.frame) \in Seq(Frames)
    BY <1>2, <2>1, AppendProperties
  <2>. QED
    BY <2>1, <2>2, <2>3 DEF HandleFrameStage
<1>4. lastAutoFrame' \in Pictures
  BY <1>2 DEF HandleFrameStage, Pictures
<1>5. FrameTypeOK'
  BY <1>2, <1>3, <1>4 DEF HandleFrameStage
<1>. QED
  BY <1>1, <1>5, SMTT(60) DEF HandleFrameStage, Awake, DropSignalFuture

\* handle_led_event.
LEMMA HandleLedEventType == TypeOK /\ HandleLedEvent => TypeOK'
  BY DEF HandleLedEvent, Awake, DropSignalFuture

\* The seat's events.
LEMMA SeatEventType == TypeOK /\ HandleSeatEvent => TypeOK'
<1>. SUFFICES ASSUME TypeOK, NEW event \in {"Idle", "Active"}, TakeWaylandEvent(event),
                     seatIdle' = (event = "Idle"), UpdateEffectiveIdleState,
                     UNCHANGED <<frameCounter, frameStarts, computeVars, taskVars, phase>>
              PROVE  TypeOK'
  BY DEF HandleSeatEvent
<1>1. seatIdle' \in BOOLEAN
  OBVIOUS
<1>. QED
  BY <1>1, UpdateType DEF TakeWaylandEvent, Awake, DropSignalFuture

\* DmabufCreated, up to wait_for_idle.
LEMMA HandleDmabufCreatedType == TypeOK /\ HandleDmabufCreated => TypeOK'
  BY DEF HandleDmabufCreated, Awake, DropSignalFuture, TakeWaylandEvent

\* The import itself.
LEMMA FinishImportType == TypeOK /\ FinishImport => TypeOK'
<1>. SUFFICES ASSUME TypeOK, FinishImport
              PROVE  TypeOK'
  OBVIOUS
<1>1. Compute!ComputeTypeOK'
  BY DEF FinishImport, Compute!SetScreenDmabuf
<1>. QED
  BY <1>1 DEF FinishImport

\* FrameReady, skipped.
LEMMA SkipFrameType == TypeOK /\ SkipFrame => TypeOK'
  BY DEF SkipFrame, Awake, DropSignalFuture, TakeWaylandEvent

\* FrameReady, dispatched: the new frame's id is below the bound.
LEMMA DispatchFrameType == TypeOK /\ DispatchFrame => TypeOK'
<1>. SUFFICES ASSUME TypeOK, DispatchFrame
              PROVE  TypeOK'
  OBVIOUS
<1>1. frameCounter \in Frames /\ frameCounter' \in 0 .. MaxFrames
  BY ConstantsAssumption DEF DispatchFrame, NextFrame, Frames
<1>2. frameStarts' \in SUBSET Frames /\ fading' \in SUBSET Frames
  BY <1>1 DEF DispatchFrame
<1>3. task' \in [Frames -> TaskStates]
  BY <1>1 DEF DispatchFrame, TaskStates
<1>4. pendingFadeIn' \in BOOLEAN
  BY DEF DispatchFrame
<1>5. Compute!ComputeTypeOK'
  BY DEF DispatchFrame, Compute!Dispatch
<1>. QED
  BY <1>1, <1>2, <1>3, <1>4, <1>5
     DEF DispatchFrame, TakeWaylandEvent, Awake, DropSignalFuture

\* FrameReady, dispatch failed.
LEMMA DispatchFrameFailsType == TypeOK /\ DispatchFrameFails => TypeOK'
<1>. SUFFICES ASSUME TypeOK, DispatchFrameFails
              PROVE  TypeOK'
  OBVIOUS
<1>1. frameCounter' \in 0 .. MaxFrames
  BY ConstantsAssumption DEF DispatchFrameFails, NextFrame
<1>2. frameLost' \in BOOLEAN
  BY DEF DispatchFrameFails
<1>3. Compute!ComputeTypeOK'
  BY DEF DispatchFrameFails, Compute!DispatchFails, Compute!DispatchInFlight,
         Compute!DispatchNoDmabuf, Compute!DispatchRecordError, Compute!DispatchSubmitError,
         Compute!computeVars
<1>. QED
  BY <1>1, <1>2, <1>3 DEF DispatchFrameFails, TakeWaylandEvent, Awake, DropSignalFuture

\* on_idle_inhibit_timeout.
LEMMA TimeoutType == TypeOK /\ OnIdleInhibitTimeout => TypeOK'
<1>. SUFFICES ASSUME TypeOK, OnIdleInhibitTimeout
              PROVE  TypeOK'
  OBVIOUS
<1>1. orphans' \in Nat /\ idleTimeouts' \in Nat /\ timer' \in {"none", "sleeping", "fired"}
  BY DEF OnIdleInhibitTimeout
<1>2. /\ idleInhibit' \in BOOLEAN /\ hasDeadline' \in BOOLEAN 
  BY DEF OnIdleInhibitTimeout
<1>3. requestedTimeout' \in TimeoutChoices
  BY DEF OnIdleInhibitTimeout, TimeoutChoices
<1>4. /\ idle' \in BOOLEAN /\ pendingFadeIn' \in BOOLEAN
      /\ manualStartedWhileIdle' \in BOOLEAN /\ frameLost' \in BOOLEAN
      /\ ledCmds' \in Seq(LedCommands) /\ captures' \in Nat
  <2>1. CASE UpdateEffectiveIdleState
    BY <2>1, UpdateType
  <2>2. CASE ~UpdateEffectiveIdleState
    BY <2>2 DEF OnIdleInhibitTimeout
  <2>. QED
    BY <2>1, <2>2
<1>. QED
  BY <1>1, <1>2, <1>3, <1>4 DEF OnIdleInhibitTimeout, Awake, DropSignalFuture

\* The signal branch is polled,
LEMMA AwaitSignalType == TypeOK /\ AwaitSignal => TypeOK'
  BY DEF AwaitSignal

\* and taken.
LEMMA StopOnSignalType == TypeOK /\ StopOnSignal => TypeOK'
  BY DEF StopOnSignal

\* The wait_for_idle that ends run keeps the types.
LEMMA FinishDrainingType == TypeOK /\ FinishDraining => TypeOK'
  BY DEF FinishDraining

-------------------------------------------------------------------------------
(* The frame tasks, the GPU thread and the timers.                            *)

\* One lemma per step of await_compute_dispatch.
LEMMA ResultArrivesType ==
  ASSUME TypeOK, NEW f \in Frames, ResultArrives(f)
  PROVE  TypeOK'
  BY DEF ResultArrives, TaskStep, TaskStates, Compute!SendOutput

\* A task whose oneshot closed ends without ComputeDone.
LEMMA ResultLostType ==
  ASSUME TypeOK, NEW f \in Frames, ResultLost(f)
  PROVE  TypeOK'
  BY DEF ResultLost, TaskStep, TaskStates, Compute!LoseOutput

\* A task with a result reads the manual flag.
LEMMA CheckManualFlagType ==
  ASSUME TypeOK, NEW f \in Frames, CheckManualFlag(f)
  PROVE  TypeOK'
  BY DEF CheckManualFlag, TaskStep, TaskStates

\* It sends the picture to the LED manager,
LEMMA LightFrameType ==
  ASSUME TypeOK, NEW f \in Frames, LightFrame(f)
  PROVE  TypeOK'
  BY DEF LightFrame, TaskStep, TaskStates, FadeIn, SetStripState, LedCommands, Pictures

\* or ends when that channel is closed.
LEMMA LightFrameFailsType ==
  ASSUME TypeOK, NEW f \in Frames, LightFrameFails(f)
  PROVE  TypeOK'
  BY DEF LightFrameFails, TaskStep, TaskStates, Stages

\* It reports that its frame was dispatched,
LEMMA StageFrameType ==
  ASSUME TypeOK, NEW f \in Frames, StageFrame(f)
  PROVE  TypeOK'
  BY DEF StageFrame, TaskStep, TaskStates, Stages

\* and asks for the next capture.
LEMMA FinishFrameType == 
  ASSUME TypeOK, NEW f \in Frames, FinishFrame(f)
  PROVE  TypeOK'
<1>1. frameLost' \in BOOLEAN
  BY DEF FinishFrame, SendComputeDone
<1>2. captures' \in Nat /\ TaskTypeOK'
  BY DEF FinishFrame, SendComputeDone, TaskStep, TaskStates
<1>. QED
  BY <1>1, <1>2 DEF FinishFrame, TaskStep

\* A failed computation is reported as aborted.
LEMMA AbortFrameType ==
  ASSUME TypeOK, NEW f \in Frames, AbortFrame(f)
  PROVE  TypeOK'
  BY DEF AbortFrame, TaskStep, TaskStates, Stages

\* The blocking thread frees the command buffer.
LEMMA FreeCommandBufferType == TypeOK /\ FreeCommandBuffer => TypeOK'
<1>. SUFFICES ASSUME TypeOK, FreeCommandBuffer
              PROVE  TypeOK'
  OBVIOUS
<1>1. Compute!ComputeTypeOK'
  BY DEF FreeCommandBuffer, Compute!ClearInFlight
<1>. QED
  BY <1>1 DEF FreeCommandBuffer

\* A timer fires.
LEMMA TimerFiresType == TypeOK /\ TimerFires => TypeOK'
  BY DEF TimerFires

-------------------------------------------------------------------------------
(* The environment.                                                           *)

\* One lemma per action of the environment.
LEMMA CaptureReadyType == TypeOK /\ CaptureReady => TypeOK'
  BY DEF CaptureReady, WaylandEvents

\* The compositor answers a capture, or loses it.
LEMMA CaptureEndsType == TypeOK /\ CaptureEnds => TypeOK'
<1>. SUFFICES ASSUME TypeOK, CaptureEnds
              PROVE  TypeOK'
  OBVIOUS
<1>1. frameLost' \in BOOLEAN
  BY DEF CaptureEnds
<1>2. captures' \in Nat
  BY DEF CaptureEnds
<1>. QED
  BY <1>1, <1>2 DEF CaptureEnds

\* The other events of Wayland.
LEMMA WaylandSendsType == TypeOK /\ WaylandSends => TypeOK'
  BY DEF WaylandSends, WaylandEvents

\* Messages and disconnects of clients.
LEMMA ClientSendsType == TypeOK /\ ClientSends => TypeOK'
<1>. SUFFICES ASSUME TypeOK, ClientSends
              PROVE  TypeOK'
  OBVIOUS
<1>1. clientReqs' \in Seq(ClientReqs)
  <2>1. ASSUME NEW r \in ClientReqs
        PROVE  Append(clientReqs, r) \in Seq(ClientReqs)
    BY AppendProperties
  <2>2. ASSUME NEW c \in Clients
        PROVE  [client |-> c, type |-> "Disconnected"] \in ClientReqs
    BY DEF ClientReqs
  <2>3. ASSUME NEW c \in Clients, NEW msg \in Requests
        PROVE  [client |-> c, type |-> "Message", msg |-> msg] \in ClientReqs
    BY RequestsAssumption DEF ClientReqs
  <2>. QED
    BY <2>1, <2>2, <2>3 DEF ClientSends
<1>. QED
  BY <1>1 DEF ClientSends

\* What the LED manager takes is a command,
LEMMA LedTakesType == TypeOK /\ LedTakes => TypeOK'
<1>. SUFFICES ASSUME TypeOK, LedTakes
              PROVE  TypeOK'
  OBVIOUS
<1>1. Head(ledCmds) \in LedCommands /\ ledCmds' \in Seq(LedCommands)
  BY DEF LedTakes
<1>2. strip' \in Pictures
  BY <1>1 DEF LedTakes, LedCommands
<1>. QED
  BY <1>1, <1>2 DEF LedTakes

\* what ClientMan takes leaves nothing,
LEMMA RepliesTakenType == TypeOK /\ RepliesTaken => TypeOK'
  BY DEF RepliesTaken

\* and what the LED manager reports is an LED event.
LEMMA LedReportsType == TypeOK /\ LedReports => TypeOK'
  BY DEF LedReports, LedEvents

\* SIGTERM is delivered, or lost.
LEMMA SignalType == TypeOK /\ Signal => TypeOK'
  BY DEF Signal

HIDE DEF TypeOK, IdleTypeOK, InhibitTypeOK, SessionTypeOK, FrameTypeOK, TaskTypeOK,
         InputTypeOK, OutputTypeOK, ProcessTypeOK, EnvTypeOK, Compute!ComputeTypeOK,
         Compute!WaiterStates, idleVars, inhibitVars, sessionVars, frameVars, computeVars,
         taskVars, inputs, outputs, processVars, envVars

-------------------------------------------------------------------------------
(* The theorem.                                                               *)

\* The initial values are typed.
LEMMA InitType == Init => TypeOK
<1>. SUFFICES ASSUME Init
              PROVE  TypeOK
  OBVIOUS
<1>1. IdleTypeOK /\ SessionTypeOK
  BY DEF Init, IdleTypeOK, SessionTypeOK
<1>2. InhibitTypeOK
  BY DEF Init, InhibitTypeOK, TimeoutChoices
<1>3. FrameTypeOK
  BY ConstantsAssumption DEF Init, FrameTypeOK, Pictures
<1>4. Compute!ComputeTypeOK
  BY DEF Init, Compute!ComputeInit, Compute!ComputeTypeOK, Compute!WaiterStates
<1>5. TaskTypeOK
  BY DEF Init, TaskTypeOK, TaskStates
<1>6. InputTypeOK
  BY DEF Init, InputTypeOK, WaylandEvents
<1>7. OutputTypeOK
  BY DEF Init, OutputTypeOK
<1>8. ProcessTypeOK
  BY DEF Init, ProcessTypeOK
<1>9. EnvTypeOK
  BY DEF Init, EnvTypeOK, Pictures
<1>. QED
  BY <1>1, <1>2, <1>3, <1>4, <1>5, <1>6, <1>7, <1>8, <1>9 DEF TypeOK

\* Every step keeps the types.
LEMMA NextType == TypeOK /\ [Next]_vars => TypeOK'
<1>. SUFFICES ASSUME TypeOK, [Next]_vars
              PROVE  TypeOK'
  OBVIOUS
<1>1. CASE HandlerStep
  BY <1>1, FrameStageType, HandleLedEventType, ClientCommandType, SeatEventType,
     HandleDmabufCreatedType, FinishImportType, SkipFrameType, DispatchFrameType,
     DispatchFrameFailsType, TimeoutType, AwaitSignalType, StopOnSignalType,
     FinishDrainingType
     DEF HandlerStep
<1>2. CASE \E f \in Frames : FrameTask(f)
  BY <1>2, ResultArrivesType, ResultLostType, CheckManualFlagType, LightFrameType,
     LightFrameFailsType, StageFrameType, FinishFrameType, AbortFrameType
     DEF FrameTask
<1>3. CASE FreeCommandBuffer
  BY <1>3, FreeCommandBufferType
<1>4. CASE TimerFires
  BY <1>4, TimerFiresType
<1>5. CASE Environment
  BY <1>5, CaptureReadyType, CaptureEndsType, WaylandSendsType, ClientSendsType,
     LedTakesType, RepliesTakenType, LedReportsType, SignalType
     DEF Environment
<1>6. CASE UNCHANGED vars
  BY <1>6
     DEF vars, TypeOK, IdleTypeOK, InhibitTypeOK, SessionTypeOK, FrameTypeOK, TaskTypeOK,
         InputTypeOK, OutputTypeOK, ProcessTypeOK, EnvTypeOK, Compute!ComputeTypeOK,
         idleVars, inhibitVars, sessionVars, frameVars, computeVars, taskVars, inputs,
         outputs, processVars, envVars
<1>. QED
  BY <1>1, <1>2, <1>3, <1>4, <1>5, <1>6 DEF Next

\* Handler, tasks, channels and environment keep their types (bridge.rs and the
\* parts of gpu/mod.rs it calls), whatever the clients, faults and bounds are.
THEOREM TypeCorrect == Spec => []TypeOK
<1>. QED
  BY InitType, NextType, PTL DEF Spec

-------------------------------------------------------------------------------
(* The modes.                                                                 *)

ModeInv == EffectiveIdle /\ ManualModeOwned /\ HandOverFlags /\ InhibitWillEnd

\* update_effective_idle_state makes the idle state exact and keeps the flags.
LEMMA UpdateKeepsModes ==
  ASSUME HandOverFlags, UpdateEffectiveIdleState, UNCHANGED manualEnabled
  PROVE  EffectiveIdle' /\ HandOverFlags'
<1>1. EffectiveIdle'
  BY DEF UpdateEffectiveIdleState, EffectivelyIdle, EffectiveIdle
<1>2. CASE OnEnterIdle /\ EffectivelyIdle /\ ~idle
  BY <1>1, <1>2 DEF OnEnterIdle, HandOverFlags
<1>3. CASE OnExitIdle
  BY <1>1, <1>3 DEF OnExitIdle, HandOverFlags
<1>4. CASE /\ EffectivelyIdle = idle
           /\ UNCHANGED <<ledCmds, captures, frameLost, pendingFadeIn, manualStartedWhileIdle>>
  BY <1>1, <1>4 DEF HandOverFlags, UpdateEffectiveIdleState
<1>. QED
  BY <1>1, <1>2, <1>3, <1>4 DEF UpdateEffectiveIdleState

\* on_manual_state_changed stores the flag and resets the hand-over.
LEMMA ManualStateKeepsModes ==
  ASSUME NEW enabled \in BOOLEAN, OnManualStateChanged(enabled), manualEnabled' = enabled,
         UNCHANGED idle
  PROVE  /\ manualFlag' <=> manualEnabled'
         /\ HandOverFlags'
  BY DEF OnManualStateChanged, HandOverFlags

\* apply_idle_inhibit_state leaves every timed inhibit a timer or an expiry.
LEMMA ApplyKeepsModes ==
  ASSUME TypeOK, ModeInv, UNCHANGED manualEnabled,
         NEW enabled \in BOOLEAN, NEW timeout \in TimeoutChoices,
         ApplyIdleInhibitState(enabled, timeout)
  PROVE  EffectiveIdle' /\ HandOverFlags' /\ InhibitWillEnd'
<1>1. UpdateEffectiveIdleState
  BY DEF ApplyIdleInhibitState
<1>2. EffectiveIdle' /\ HandOverFlags'
  BY <1>1, UpdateKeepsModes DEF ModeInv
<1>3. ASSUME enabled /\ timeout # NoTimeout
      PROVE  InhibitWillEnd'
  <2>1. hasDeadline' /\ idleInhibit' /\ requestedTimeout' # NoTimeout
    BY <1>3 DEF ApplyIdleInhibitState, StartIdleInhibitTimer
  <2>2. timer' = "sleeping" \/ idleTimeouts' > 0
    BY <1>3 DEF ApplyIdleInhibitState, StartIdleInhibitTimer, TypeOK, InputTypeOK
  <2>. QED
    BY <2>1, <2>2 DEF InhibitWillEnd
<1>4. ASSUME ~(enabled /\ timeout # NoTimeout)
      PROVE  InhibitWillEnd'
  BY <1>4 DEF ApplyIdleInhibitState, InhibitWillEnd
<1>. QED
  BY <1>2, <1>3, <1>4

\* A message registers its client before it is handled.
LEMMA MessageKeepsModes ==
  ASSUME TypeOK, ModeInv, NEW c \in Clients, NEW msg \in AllRequests, HandleMessage(c, msg),
         UNCHANGED phase
  PROVE  ModeInv'
<1>. USE DEF ModeInv
<1>1. clients' # {}
  BY DEF HandleMessage
<1>2. CASE UNCHANGED <<idleVars, inhibitVars, manualEnabled, manualFlag,
                       manualStartedWhileIdle, idleTimeouts>>
  BY <1>1, <1>2
     DEF EffectiveIdle, ManualModeOwned, HandOverFlags, InhibitWillEnd, idleVars,
         inhibitVars
<1>3. ASSUME NEW enabled \in BOOLEAN, HandleManualModeRequest(c, enabled)
      PROVE  ModeInv'
  <2>1. EffectiveIdle' /\ InhibitWillEnd'
    BY <1>3 DEF HandleManualModeRequest, EffectiveIdle, InhibitWillEnd, inhibitVars
  <2>2. CASE OnManualStateChanged(enabled)
    BY <1>1, <1>3, <2>1, <2>2, ManualStateKeepsModes
       DEF HandleManualModeRequest, ManualModeOwned
  <2>3. CASE /\ enabled = manualEnabled
             /\ UNCHANGED <<manualFlag, manualStartedWhileIdle, pendingFadeIn>>
    BY <1>1, <1>3, <2>1, <2>3 DEF HandleManualModeRequest, ManualModeOwned, HandOverFlags
  <2>. QED
    BY <1>3, <2>2, <2>3 DEF HandleManualModeRequest
<1>4. ASSUME NEW enabled \in BOOLEAN, NEW timeout \in TimeoutChoices,
             HandleIdleInhibitRequest(c, enabled, timeout)
      PROVE  ModeInv'
  BY <1>1, <1>4, ApplyKeepsModes DEF HandleIdleInhibitRequest, ManualModeOwned
<1>5. msg.type = "SetManualMode" => msg.enabled \in BOOLEAN
  BY DEF AllRequests
<1>6. msg.type = "SetIdleInhibit" => msg.enabled \in BOOLEAN /\ msg.timeout \in TimeoutChoices
  BY DEF AllRequests
<1>. QED
  BY <1>2, <1>3, <1>4, <1>5, <1>6 DEF HandleMessage, HandleLed, HandleQuery

\* The last client takes manual mode with it.
LEMMA DisconnectKeepsModes ==
  ASSUME ModeInv, NEW c \in Clients, HandleDisconnect(c), UNCHANGED phase
  PROVE  ModeInv'
<1>. USE DEF ModeInv
<1>1. EffectiveIdle' /\ InhibitWillEnd'
  BY DEF HandleDisconnect, EffectiveIdle, InhibitWillEnd, inhibitVars
<1>2. CASE manualEnabled' = FALSE /\ OnManualStateChanged(FALSE)
  BY <1>1, <1>2, ManualStateKeepsModes DEF HandleDisconnect, ManualModeOwned
<1>3. CASE /\ ~(c \in clients /\ clients = {c} /\ manualEnabled)
           /\ UNCHANGED <<manualEnabled, manualFlag, manualStartedWhileIdle, pendingFadeIn>>
  BY <1>1, <1>3 DEF HandleDisconnect, ManualModeOwned, HandOverFlags
<1>. QED
  BY <1>2, <1>3 DEF HandleDisconnect

\* The branches of the select! loop.
LEMMA HandlerKeepsModes ==
  ASSUME TypeOK, ModeInv, HandlerStep
  PROVE  ModeInv'
<1>. USE DEF ModeInv
<1>1. CASE HandleFrameStage
  BY <1>1
     DEF HandleFrameStage, EffectiveIdle, ManualModeOwned, HandOverFlags, InhibitWillEnd,
         idleVars, inhibitVars, sessionVars
<1>2. CASE HandleLedEvent
  BY <1>2
     DEF HandleLedEvent, EffectiveIdle, ManualModeOwned, HandOverFlags, InhibitWillEnd,
         idleVars, inhibitVars, sessionVars
<1>3. CASE HandleClientCommand
  <2>. DEFINE req == Head(clientReqs)
  <2>1. req \in ClientReqs
    BY <1>3 DEF HandleClientCommand, TypeOK, InputTypeOK
  <2>2. UNCHANGED phase
    BY <1>3 DEF HandleClientCommand
  <2>3. ASSUME req.type = "Message", HandleMessage(req.client, req.msg)
        PROVE  ModeInv'
    <3>1. req.client \in Clients /\ req.msg \in AllRequests
      BY <2>1, <2>3 DEF ClientReqs
    <3>. QED
      BY <2>2, <2>3, <3>1, MessageKeepsModes
  <2>4. ASSUME req.type = "Disconnected", HandleDisconnect(req.client)
        PROVE  ModeInv'
    <3>1. req.client \in Clients
      BY <2>1, <2>4 DEF ClientReqs
    <3>. QED
      BY <2>2, <2>4, <3>1, DisconnectKeepsModes
  <2>. QED
    BY <1>3, <2>3, <2>4 DEF HandleClientCommand
<1>4. CASE HandleSeatEvent
  <2>1. UpdateEffectiveIdleState /\ UNCHANGED <<inhibitVars, clients, manualEnabled, manualFlag,
                                                idleTimeouts, phase>>
    BY <1>4 DEF HandleSeatEvent, TakeWaylandEvent
  <2>2. ManualModeOwned' /\ InhibitWillEnd'
    BY <2>1 DEF ManualModeOwned, InhibitWillEnd, inhibitVars
  <2>. QED
    BY <2>1, <2>2, UpdateKeepsModes
<1>5. CASE HandleDmabufCreated
  BY <1>5
     DEF HandleDmabufCreated, TakeWaylandEvent, Awake, EffectiveIdle, ManualModeOwned,
         HandOverFlags, InhibitWillEnd, idleVars, inhibitVars
<1>6. CASE FinishImport
  BY <1>6
     DEF FinishImport, EffectiveIdle, ManualModeOwned, HandOverFlags, InhibitWillEnd,
         idleVars, inhibitVars, sessionVars, inputs
<1>7. CASE SkipFrame
  BY <1>7
     DEF SkipFrame, TakeWaylandEvent, EffectiveIdle, ManualModeOwned, HandOverFlags,
         InhibitWillEnd, idleVars, inhibitVars
<1>8. CASE DispatchFrame
  BY <1>8
     DEF DispatchFrame, TakeWaylandEvent, EffectiveIdle, ManualModeOwned, HandOverFlags,
         InhibitWillEnd, inhibitVars
<1>9. CASE DispatchFrameFails
  BY <1>9
     DEF DispatchFrameFails, TakeWaylandEvent, EffectiveIdle, ManualModeOwned,
         HandOverFlags, InhibitWillEnd, idleVars, inhibitVars
<1>10. CASE OnIdleInhibitTimeout
  <2>1. ManualModeOwned'
    BY <1>10 DEF OnIdleInhibitTimeout, ManualModeOwned
  <2>2. InhibitWillEnd'
    BY <1>10 DEF OnIdleInhibitTimeout, InhibitWillEnd
  <2>3. EffectiveIdle' /\ HandOverFlags'
    <3>1. CASE idleInhibit
      BY <1>10, <3>1, UpdateKeepsModes DEF OnIdleInhibitTimeout
    <3>2. CASE ~idleInhibit
      BY <1>10, <3>2 DEF OnIdleInhibitTimeout, EffectiveIdle, HandOverFlags
    <3>. QED
      BY <3>1, <3>2
  <2>. QED
    BY <2>1, <2>2, <2>3
<1>11. CASE StopOnSignal
  BY <1>11
     DEF StopOnSignal, EffectiveIdle, ManualModeOwned, HandOverFlags, InhibitWillEnd,
         idleVars, sessionVars
<1>12. CASE FinishDraining
  BY <1>12
     DEF FinishDraining, EffectiveIdle, ManualModeOwned, HandOverFlags, InhibitWillEnd,
         idleVars, inhibitVars, sessionVars
<1>13. CASE AwaitSignal
  BY <1>13
     DEF AwaitSignal, EffectiveIdle, ManualModeOwned, HandOverFlags, InhibitWillEnd,
         idleVars, inhibitVars, sessionVars, inputs
<1>. QED
  BY <1>1, <1>2, <1>3, <1>4, <1>5, <1>6, <1>7, <1>8, <1>9, <1>10, <1>11, <1>12, <1>13
     DEF HandlerStep

\* A timer that fires leaves an expiry in its place.
LEMMA TimerKeepsModes == TypeOK /\ ModeInv /\ TimerFires => ModeInv'
  BY DEF TypeOK, InputTypeOK, TimerFires, ModeInv, EffectiveIdle, ManualModeOwned,
         HandOverFlags, InhibitWillEnd, idleVars, sessionVars, processVars

\* The modes are the handler's own: tasks and environment leave them alone.
modeVars == <<idleVars, inhibitVars, sessionVars, idleTimeouts, phase>>

\* The tasks, the timers that fire and the environment do not touch the modes.
LEMMA OthersLeaveModes ==
  ASSUME \/ \E f \in Frames : FrameTask(f)
         \/ FreeCommandBuffer
         \/ Environment
  PROVE  UNCHANGED modeVars
  BY DEF FrameTask, ResultArrives, ResultLost, CheckManualFlag, LightFrame, LightFrameFails,
         StageFrame, FinishFrame, AbortFrame, TaskStep, FreeCommandBuffer, Environment,
         CaptureReady, CaptureEnds, WaylandSends, ClientSends, LedTakes, RepliesTaken,
         LedReports, Signal, modeVars, inputs, processVars

\* A stuttering step keeps them too.
LEMMA ModesStutter == ModeInv /\ UNCHANGED modeVars => ModeInv'
  BY DEF ModeInv, EffectiveIdle, ManualModeOwned, HandOverFlags, InhibitWillEnd, modeVars,
         idleVars, inhibitVars, sessionVars

\* Handler::new starts in consistent modes.
LEMMA InitModes == Init => ModeInv
  BY DEF Init, ModeInv, EffectiveIdle, ManualModeOwned, HandOverFlags, InhibitWillEnd

\* The modes stay consistent.
LEMMA ModesInvariant == Spec => []ModeInv
<1>1. TypeOK /\ ModeInv /\ [Next]_vars => ModeInv'
  <2>. SUFFICES ASSUME TypeOK, ModeInv, [Next]_vars
                PROVE  ModeInv'
    OBVIOUS
  <2>1. CASE HandlerStep
    BY <2>1, HandlerKeepsModes
  <2>2. CASE TimerFires
    BY <2>2, TimerKeepsModes
  <2>3. CASE (\E f \in Frames : FrameTask(f)) \/ FreeCommandBuffer \/ Environment
    BY <2>3, OthersLeaveModes, ModesStutter
  <2>4. CASE UNCHANGED vars
    <3>1. UNCHANGED modeVars
      BY <2>4 DEF vars, modeVars, inputs, processVars
    <3>. QED
      BY <3>1, ModesStutter
  <2>. QED
    BY <2>1, <2>2, <2>3, <2>4 DEF Next
<1>. QED
  BY <1>1, InitModes, TypeCorrect, PTL DEF Spec

\* update_effective_idle_state: the daemon sleeps exactly when the seat is idle
\* and nothing inhibits it, for any number of clients, requests and timers.
THEOREM EffectiveIdleHolds == Spec => []EffectiveIdle
<1>1. ModeInv => EffectiveIdle
  BY DEF ModeInv
<1>. QED
  BY <1>1, ModesInvariant, PTL

\* ClientSessions and manual_flag: manual mode belongs to a registered client,
\* and the frame tasks read the mode the handler keeps.
THEOREM ManualModeOwnedHolds == Spec => []ManualModeOwned
<1>1. ModeInv => ManualModeOwned
  BY DEF ModeInv
<1>. QED
  BY <1>1, ModesInvariant, PTL

\* on_exit_idle and on_manual_state_changed: the hand-over flags never describe
\* a mode that is over.
THEOREM HandOverFlagsHolds == Spec => []HandOverFlags
<1>1. ModeInv => HandOverFlags
  BY DEF ModeInv
<1>. QED
  BY <1>1, ModesInvariant, PTL

\* start_idle_inhibit_timer and cancel_idle_inhibit_timer: no deadline without a
\* timer or a queued expiry, in any order of requests and expiries.
THEOREM InhibitWillEndHolds == Spec => []InhibitWillEnd
<1>1. ModeInv => InhibitWillEnd
  BY DEF ModeInv
<1>. QED
  BY <1>1, ModesInvariant, PTL

-------------------------------------------------------------------------------
(* Frame bookkeeping.                                                         *)

\* The places of a frame's task from which it still owes a stage, or reports none.
Unstaged == {"waiting", "ready", "closed", "lighting", "staging"}

(***************************************************************************)
(* A frame whose task has not reported is in frame_starts and not queued,  *)
(* and an id not given yet is nowhere: so the next dispatch takes a fresh  *)
(* one, and the stage a task sends finds its start.                        *)
(***************************************************************************)
StageInv ==
  /\ \A f \in Frames : task[f] \in Unstaged =>
       /\ f \in frameStarts
       /\ \A i \in 1 .. Len(frameStages) : frameStages[i].frame # f
  /\ \A f \in Frames : f >= frameCounter =>
       /\ task[f] = "none"
       /\ f \notin frameStarts
       /\ \A i \in 1 .. Len(framesInflight) : framesInflight[i] # f
  /\ StagesMatchStarts

stageVars == <<frameCounter, frameStarts, framesInflight, frameStages, task>>

\* A step that leaves the bookkeeping alone.
LEMMA StagesStutter == StageInv /\ UNCHANGED stageVars => StageInv'
  BY DEF StageInv, StagesMatchStarts, stageVars

\* Nothing is dispatched at first.
LEMMA StagesInit == Init => StageInv
  BY DEF Init, StageInv, StagesMatchStarts, Unstaged

\* handle_frame_stage takes the head's frame out of frame_starts; the other
\* queued stages are of other frames.
LEMMA StageHandled ==
  ASSUME TypeOK, StageInv, HandleFrameStage
  PROVE  StageInv'
<1>. DEFINE stage == Head(frameStages)
            rest == Tail(frameStages)
<1>1. /\ frameStages \in Seq(Stages) /\ frameStages # <<>>
      /\ framesInflight \in Seq(Frames)
      /\ frameStages' = rest /\ UNCHANGED <<task, frameCounter>>
      /\ frameStarts' = frameStarts \ {stage.frame}
  BY DEF HandleFrameStage, TypeOK, InputTypeOK, FrameTypeOK, taskVars
<1>2. /\ stage = frameStages[1] /\ Len(frameStages) \in Nat /\ Len(frameStages) > 0
      /\ Len(rest) = Len(frameStages) - 1
      /\ \A i \in 1 .. Len(rest) : rest[i] = frameStages[i + 1]
  BY <1>1
<1>3. stage.frame \in frameStarts /\ stage.frame \in Frames
  <2>1. 1 \in 1 .. Len(frameStages)
    BY <1>2
  <2>2. stage.frame \in frameStarts
    BY <1>2, <2>1 DEF StageInv, StagesMatchStarts
  <2>3. stage \in Stages
    BY <1>1, HeadTailProperties
  <2>. QED
    BY <2>2, <2>3 DEF Stages
<1>4. \A i \in 1 .. Len(rest) : rest[i].frame # stage.frame
  <2>1. ASSUME NEW i \in 1 .. Len(rest)
        PROVE  rest[i].frame # stage.frame
    <3>1. i + 1 \in 1 .. Len(frameStages) /\ 1 \in 1 .. i + 1 - 1
      BY <1>2
    <3>2. frameStages[i + 1].frame # frameStages[1].frame
      BY <3>1 DEF StageInv, StagesMatchStarts
    <3>. QED
      BY <1>2, <3>2
  <2>. QED
    BY <2>1
<1>5. \A i \in 1 .. Len(rest) :
        /\ rest[i].frame \in frameStarts'
        /\ \A j \in 1 .. i - 1 : rest[i].frame # rest[j].frame
  <2>1. ASSUME NEW i \in 1 .. Len(rest)
        PROVE  rest[i].frame \in frameStarts'
    <3>1. i + 1 \in 1 .. Len(frameStages)
      BY <1>2
    <3>2. frameStages[i + 1].frame \in frameStarts
      BY <3>1 DEF StageInv, StagesMatchStarts
    <3>. QED
      BY <1>1, <1>2, <1>4, <3>2
  <2>2. ASSUME NEW i \in 1 .. Len(rest), NEW j \in 1 .. i - 1
        PROVE  rest[i].frame # rest[j].frame
    <3>1. /\ i + 1 \in 1 .. Len(frameStages) /\ j + 1 \in 1 .. i + 1 - 1
          /\ j \in 1 .. Len(rest)
      BY <1>2
    <3>2. frameStages[i + 1].frame # frameStages[j + 1].frame
      BY <3>1 DEF StageInv, StagesMatchStarts
    <3>. QED
      BY <1>2, <3>1, <3>2
  <2>. QED
    BY <2>1, <2>2
<1>6. \A f \in Frames : task'[f] \in Unstaged =>
        /\ f \in frameStarts'
        /\ \A i \in 1 .. Len(rest) : rest[i].frame # f
  <2>1. ASSUME NEW f \in Frames, task[f] \in Unstaged
        PROVE  f \in frameStarts /\ f # stage.frame /\ \A i \in 1 .. Len(rest) : rest[i].frame # f
    <3>1. f \in frameStarts /\ \A i \in 1 .. Len(frameStages) : frameStages[i].frame # f
      BY <2>1 DEF StageInv
    <3>. QED
      BY <1>2, <3>1
  <2>. QED
    BY <1>1, <2>1
<1>7. \A i \in 1 .. Len(framesInflight) : framesInflight[i] # stage.frame
  BY <1>3 DEF StageInv, StagesMatchStarts
<1>8. \/ framesInflight' = framesInflight
      \/ framesInflight' = Append(framesInflight, stage.frame)
  BY <1>3 DEF HandleFrameStage
<1>9. \A i \in 1 .. Len(framesInflight') :
        /\ framesInflight'[i] \notin frameStarts'
        /\ \A j \in 1 .. i - 1 : framesInflight'[i] # framesInflight'[j]
  <2>1. CASE framesInflight' = framesInflight
    BY <1>1, <2>1 DEF StageInv, StagesMatchStarts
  <2>2. CASE framesInflight' = Append(framesInflight, stage.frame)
    BY <1>1, <1>3, <1>7, <2>2, AppendProperties DEF StageInv, StagesMatchStarts
  <2>. QED
    BY <1>8, <2>1, <2>2
<1>10. \A f \in Frames : f >= frameCounter =>
         /\ task[f] = "none"
         /\ f \notin frameStarts'
         /\ \A i \in 1 .. Len(framesInflight') : framesInflight'[i] # f
  <2>1. ASSUME NEW f \in Frames, f >= frameCounter
        PROVE  /\ task[f] = "none" /\ f \notin frameStarts /\ f # stage.frame
               /\ \A i \in 1 .. Len(framesInflight) : framesInflight[i] # f
    BY <1>3, <2>1 DEF StageInv
  <2>2. CASE framesInflight' = framesInflight
    BY <1>1, <2>1, <2>2
  <2>3. CASE framesInflight' = Append(framesInflight, stage.frame)
    BY <1>1, <1>3, <2>1, <2>3, AppendProperties
  <2>. QED
    BY <1>8, <2>2, <2>3
<1>. QED
  BY <1>1, <1>5, <1>6, <1>9, <1>10 DEF StageInv, StagesMatchStarts

\* handle_led_event pops the oldest frame in flight.
LEMMA LedEventStages ==
  ASSUME TypeOK, StageInv, HandleLedEvent
  PROVE  StageInv'
<1>1. framesInflight \in Seq(Frames) /\ UNCHANGED <<frameCounter, frameStarts, frameStages, task>>
  BY DEF HandleLedEvent, TypeOK, FrameTypeOK, taskVars
<1>2. CASE framesInflight' = framesInflight
  BY <1>1, <1>2, StagesStutter DEF stageVars
<1>3. CASE framesInflight # <<>> /\ framesInflight' = Tail(framesInflight)
  <2>1. /\ Len(framesInflight') = Len(framesInflight) - 1
        /\ Len(framesInflight) \in Nat
        /\ \A i \in 1 .. Len(framesInflight') : framesInflight'[i] = framesInflight[i + 1]
    BY <1>1, <1>3
  <2>2. ASSUME NEW i \in 1 .. Len(framesInflight')
        PROVE  /\ framesInflight'[i] \notin frameStarts
               /\ \A j \in 1 .. i - 1 : framesInflight'[i] # framesInflight'[j]
    <3>1. i + 1 \in 1 .. Len(framesInflight)
      BY <2>1
    <3>2. /\ framesInflight[i + 1] \notin frameStarts
          /\ \A j \in 1 .. i : framesInflight[i + 1] # framesInflight[j]
      BY <3>1 DEF StageInv, StagesMatchStarts
    <3>3. ASSUME NEW j \in 1 .. i - 1
          PROVE  framesInflight'[i] # framesInflight'[j]
      <4>1. j + 1 \in 1 .. i /\ j \in 1 .. Len(framesInflight')
        BY <2>1
      <4>. QED
        BY <2>1, <3>2, <4>1
    <3>. QED
      BY <2>1, <3>2, <3>3
  <2>3. ASSUME NEW f \in Frames, f >= frameCounter, NEW i \in 1 .. Len(framesInflight')
        PROVE  framesInflight'[i] # f
    <3>1. i + 1 \in 1 .. Len(framesInflight)
      BY <2>1
    <3>. QED
      BY <2>1, <2>3, <3>1 DEF StageInv
  <2>. QED
    BY <1>1, <2>2, <2>3 DEF StageInv, StagesMatchStarts
<1>. QED
  BY <1>2, <1>3 DEF HandleLedEvent

\* A dispatched frame has a fresh id.
LEMMA DispatchStages ==
  ASSUME TypeOK, StageInv, DispatchFrame
  PROVE  StageInv'
<1>. DEFINE n == frameCounter
<1>1. /\ n \in Frames /\ n \in Nat /\ frameCounter' = n + 1
      /\ frameStarts' = frameStarts \cup {n}
      /\ task \in [Frames -> TaskStates] /\ task' = [task EXCEPT ![n] = "waiting"]
      /\ UNCHANGED <<frameStages, framesInflight>>
  BY ConstantsAssumption
     DEF DispatchFrame, NextFrame, TakeWaylandEvent, TypeOK, FrameTypeOK, TaskTypeOK, Frames
<1>2. /\ n \notin frameStarts
      /\ \A i \in 1 .. Len(framesInflight) : framesInflight[i] # n
  BY <1>1 DEF StageInv
<1>3. \A i \in 1 .. Len(frameStages) : frameStages[i].frame # n
  BY <1>2 DEF StageInv, StagesMatchStarts
<1>4. StagesMatchStarts'
  BY <1>1, <1>2 DEF StageInv, StagesMatchStarts
<1>5. \A f \in Frames : task'[f] \in Unstaged =>
        f \in frameStarts' /\ \A i \in 1 .. Len(frameStages) : frameStages[i].frame # f
  BY <1>1, <1>3 DEF StageInv
<1>6. \A f \in Frames : f >= frameCounter' =>
        /\ task'[f] = "none"
        /\ f \notin frameStarts'
        /\ \A i \in 1 .. Len(framesInflight) : framesInflight[i] # f
  BY <1>1 DEF StageInv, Frames
<1>. QED
  BY <1>1, <1>4, <1>5, <1>6 DEF StageInv

\* A frame that is not dispatched uses up an id.
LEMMA DispatchFailsStages ==
  ASSUME TypeOK, StageInv, DispatchFrameFails
  PROVE  StageInv'
<1>1. /\ frameCounter \in Nat /\ frameCounter' = frameCounter + 1
      /\ UNCHANGED <<frameStarts, framesInflight, frameStages, task>>
  BY DEF DispatchFrameFails, NextFrame, TakeWaylandEvent, TypeOK, FrameTypeOK, taskVars
<1>. QED
  BY <1>1 DEF StageInv, StagesMatchStarts, Frames

\* A task reports at most one stage, and only of a frame it has not reported.
LEMMA TaskStages ==
  ASSUME TypeOK, StageInv, NEW f \in Frames, FrameTask(f)
  PROVE  StageInv'
<1>1. /\ task \in [Frames -> TaskStates] /\ frameStages \in Seq(Stages)
      /\ UNCHANGED <<frameCounter, frameStarts, framesInflight>>
  BY DEF FrameTask, ResultArrives, ResultLost, CheckManualFlag, LightFrame, LightFrameFails,
         StageFrame, FinishFrame, AbortFrame, TaskStep, frameVars, TypeOK, TaskTypeOK,
         InputTypeOK
<1>2. task[f] # "none" 
  BY DEF FrameTask, ResultArrives, ResultLost, CheckManualFlag, LightFrame, LightFrameFails,
         StageFrame, FinishFrame, AbortFrame, TaskStep
<1>3. \E s \in TaskStates : task' = [task EXCEPT ![f] = s]
  BY DEF FrameTask, ResultArrives, ResultLost, CheckManualFlag, LightFrame, LightFrameFails,
         StageFrame, FinishFrame, AbortFrame, TaskStep, TaskStates
<1>4. \A g \in Frames : g # f => task'[g] = task[g]
  BY <1>1, <1>3
<1>5. ~(f >= frameCounter)
  BY <1>2 DEF StageInv
<1>6. ASSUME UNCHANGED frameStages, task'[f] \in Unstaged => task[f] \in Unstaged
      PROVE  StageInv'
  <2>1. StagesMatchStarts'
    <3>1. StagesMatchStarts /\ UNCHANGED <<frameStarts, framesInflight, frameStages>>
      BY <1>1, <1>6, Zenon DEF StageInv
    <3> QED BY ONLY <3>1, SMTT(30) DEF StagesMatchStarts
  <2>2. ASSUME NEW g \in Frames, task'[g] \in Unstaged
        PROVE  g \in frameStarts /\ \A i \in 1 .. Len(frameStages) : frameStages[i].frame # g
    <3>1. task[g] \in Unstaged
      BY <1>4, <1>6, <2>2
    <3>. QED
      BY <3>1 DEF StageInv
  <2>3. ASSUME NEW g \in Frames, g >= frameCounter
        PROVE  /\ task'[g] = "none" /\ g \notin frameStarts
               /\ \A i \in 1 .. Len(framesInflight) : framesInflight[i] # g
    BY <1>4, <1>5, <2>3 DEF StageInv
  <2>. QED
    BY <1>1, <1>6, <2>1, <2>2, <2>3 DEF StageInv
<1>7. ASSUME NEW kind \in {"LedDispatched", "Aborted"}, task[f] \in Unstaged,
             task'[f] \notin Unstaged,
             frameStages' = Append(frameStages, [kind |-> kind, frame |-> f])
      PROVE  StageInv'
  <2>. DEFINE n == Len(frameStages)
  <2>1. /\ n \in Nat /\ Len(frameStages') = n + 1
        /\ \A i \in 1 .. n : frameStages'[i] = frameStages[i]
        /\ frameStages'[n + 1].frame = f
    BY <1>1, <1>7
  <2>2. f \in frameStarts /\ \A i \in 1 .. n : frameStages[i].frame # f
    BY <1>7 DEF StageInv
  <2>3. ASSUME NEW i \in 1 .. n + 1
        PROVE  /\ frameStages'[i].frame \in frameStarts
               /\ \A j \in 1 .. i - 1 : frameStages'[i].frame # frameStages'[j].frame
    BY <2>1, <2>2 DEF StageInv, StagesMatchStarts
  <2>4. ASSUME NEW g \in Frames, task'[g] \in Unstaged
        PROVE  g \in frameStarts /\ \A i \in 1 .. n + 1 : frameStages'[i].frame # g
    <3>1. g # f /\ task[g] \in Unstaged
      BY <1>4, <1>7, <2>4
    <3>. QED
      BY <2>1, <3>1 DEF StageInv
  <2>5. StagesMatchStarts'
    BY <1>1, <2>1, <2>3 DEF StageInv, StagesMatchStarts
  <2>. QED
    BY <1>1, <1>4, <1>5, <2>1, <2>4, <2>5 DEF StageInv
<1>8. CASE ResultArrives(f) \/ ResultLost(f) \/ CheckManualFlag(f) \/ LightFrame(f) \/ FinishFrame(f)
  <2>1. UNCHANGED frameStages
    BY <1>8 DEF ResultArrives, ResultLost, CheckManualFlag, LightFrame, FinishFrame
  <2>2. task'[f] \in Unstaged => task[f] \in Unstaged
    BY <1>1, <1>8
       DEF ResultArrives, ResultLost, CheckManualFlag, LightFrame, FinishFrame, TaskStep,
           Unstaged
  <2>. QED
    BY <1>6, <2>1, <2>2
<1>9. CASE LightFrameFails(f)
  BY <1>1, <1>7, <1>9 DEF LightFrameFails, TaskStep, Unstaged
<1>10. CASE StageFrame(f)
  BY <1>1, <1>7, <1>10 DEF StageFrame, TaskStep, Unstaged
<1>11. CASE AbortFrame(f)
  BY <1>1, <1>7, <1>11 DEF AbortFrame, TaskStep, Unstaged
<1>. QED
  BY <1>8, <1>9, <1>10, <1>11 DEF FrameTask

\* Frames stay where their task, table and stage say they are.
LEMMA StagesInvariant == Spec => []StageInv
<1>1. TypeOK /\ StageInv /\ [Next]_vars => StageInv'
  <2>. SUFFICES ASSUME TypeOK, StageInv, [Next]_vars
                PROVE  StageInv'
    OBVIOUS
  <2>1. CASE HandleFrameStage
    BY <2>1, StageHandled
  <2>2. CASE HandleLedEvent
    BY <2>2, LedEventStages
  <2>3. CASE DispatchFrame
    BY <2>3, DispatchStages
  <2>4. CASE DispatchFrameFails
    BY <2>4, DispatchFailsStages
  <2>5. CASE \E f \in Frames : FrameTask(f)
    BY <2>5, TaskStages
  <2>6. CASE UNCHANGED stageVars
    BY <2>6, StagesStutter
  <2>. QED
    BY <2>1, <2>2, <2>3, <2>4, <2>5, <2>6
       DEF Next, HandlerStep, HandleClientCommand, HandleSeatEvent, HandleDmabufCreated,
           FinishImport, SkipFrame, OnIdleInhibitTimeout, AwaitSignal, StopOnSignal,
           FinishDraining, TakeWaylandEvent, FreeCommandBuffer, TimerFires, Environment, CaptureReady,
           CaptureEnds, WaylandSends, ClientSends, LedTakes, RepliesTaken, LedReports,
           Signal, stageVars, vars, frameVars, taskVars, inputs
<1>. QED
  BY <1>1, StagesInit, TypeCorrect, PTL DEF Spec

\* frame_starts and frames_inflight (bridge.rs): the "stage without matching frame
\* start" branch and the removal of an aborted frame in flight are never reached,
\* for any number of frames and any order of their tasks.
THEOREM StagesMatchStartsHolds == Spec => []StagesMatchStarts
<1>1. StageInv => StagesMatchStarts
  BY DEF StageInv
<1>. QED
  BY <1>1, StagesInvariant, PTL

-------------------------------------------------------------------------------
(* What the strip is left with.                                               *)

\* The frame restored at the end of manual mode is never a client's.
PictureInv == NoClientPictureLeft /\ lastAutoFrame # ClientPicture

\* The last command queued decides the final picture.
LEMMA AppendPicture ==
  ASSUME TypeOK, NEW cmd \in LedCommands, ledCmds' = Append(ledCmds, cmd)
  PROVE  FinalPicture' = cmd.picture
<1>1. ledCmds' # <<>> /\ ledCmds'[Len(ledCmds')] = cmd
  BY AppendProperties DEF TypeOK, OutputTypeOK
<1>. QED
  BY <1>1 DEF FinalPicture, Last

\* What the end of manual mode sends leads to the last automatic frame or to black.
LEMMA RestorePicture ==
  ASSUME TypeOK, lastAutoFrame # ClientPicture, ledCmds' = ledCmds \o RestoreCommands
  PROVE  FinalPicture' # ClientPicture
<1>1. RestoreCommands \in Seq(LedCommands) /\ ledCmds \in Seq(LedCommands)
  BY RestoreType DEF TypeOK, OutputTypeOK
<1>. DEFINE n == Len(RestoreCommands)
<1>2. n \in Nat /\ n > 0 /\ RestoreCommands[n].picture # ClientPicture
  BY DEF RestoreCommands, SetStripState, FadeOut, Black, ClientPicture
<1>3. /\ Len(ledCmds') = Len(ledCmds) + n
      /\ ledCmds'[Len(ledCmds')] = RestoreCommands[n]
  BY <1>1, <1>2, ConcatProperties
<1>4. ledCmds' # <<>>
  BY <1>1, <1>2, <1>3, ConcatProperties
<1>. QED
  BY <1>2, <1>3, <1>4 DEF FinalPicture, Last

\* Entering idle outside manual mode fades out.
LEMMA UpdatePicture ==
  ASSUME TypeOK, NoClientPictureLeft, UpdateEffectiveIdleState, UNCHANGED <<strip, manualEnabled>>
  PROVE  NoClientPictureLeft'
<1>1. CASE UNCHANGED ledCmds
  BY <1>1 DEF NoClientPictureLeft, FinalPicture
<1>2. CASE ledCmds' = Append(ledCmds, FadeOut)
  <2>1. FadeOut \in LedCommands
    BY CommandTypes
  <2>2. FinalPicture' = FadeOut.picture
    BY <1>2, <2>1, AppendPicture
  <2>. QED
    BY <2>2 DEF NoClientPictureLeft, FadeOut, Black, ClientPicture
<1>. QED
  BY <1>1, <1>2 DEF UpdateEffectiveIdleState, OnEnterIdle, OnExitIdle

\* Leaving manual mode restores.
LEMMA ManualPicture ==
  ASSUME TypeOK, PictureInv, NEW enabled \in BOOLEAN, OnManualStateChanged(enabled),
         manualEnabled' = enabled
  PROVE  NoClientPictureLeft'
<1>1. CASE enabled
  BY <1>1 DEF NoClientPictureLeft
<1>2. CASE ~enabled
  BY <1>2, RestorePicture DEF OnManualStateChanged, PictureInv, NoClientPictureLeft
<1>. QED
  BY <1>1, <1>2

\* Client requests: a picture of theirs is queued in manual mode only.
LEMMA ClientPictures ==
  ASSUME TypeOK, PictureInv, HandleClientCommand
  PROVE  PictureInv'
<1>. DEFINE req == Head(clientReqs)
<1>1. req \in ClientReqs /\ UNCHANGED <<strip, lastAutoFrame>>
  BY DEF HandleClientCommand, TypeOK, InputTypeOK, envVars, frameVars
<1>2. CASE UNCHANGED <<ledCmds, manualEnabled>>
  BY <1>1, <1>2 DEF PictureInv, NoClientPictureLeft, FinalPicture
<1>3. ASSUME NEW c, NEW enabled \in BOOLEAN, HandleManualModeRequest(c, enabled)
      PROVE  PictureInv'
  <2>1. CASE OnManualStateChanged(enabled)
    BY <1>1, <1>3, <2>1, ManualPicture DEF HandleManualModeRequest, PictureInv
  <2>2. CASE enabled = manualEnabled /\ UNCHANGED ledCmds
    BY <1>2, <1>3, <2>2 DEF HandleManualModeRequest
  <2>. QED
    BY <1>3, <2>1, <2>2 DEF HandleManualModeRequest
<1>4. ASSUME NEW c, NEW enabled, NEW timeout, HandleIdleInhibitRequest(c, enabled, timeout)
      PROVE  PictureInv'
  BY <1>1, <1>4, UpdatePicture
     DEF HandleIdleInhibitRequest, ApplyIdleInhibitState, PictureInv
<1>5. ASSUME NEW c, HandleDisconnect(c)
      PROVE  PictureInv'
  <2>1. CASE manualEnabled' = FALSE /\ OnManualStateChanged(FALSE)
    BY <1>1, <1>5, <2>1, ManualPicture DEF PictureInv
  <2>2. CASE UNCHANGED <<manualEnabled, ledCmds>>
    BY <1>2, <2>2
  <2>. QED
    BY <1>5, <2>1, <2>2 DEF HandleDisconnect
<1>6. ASSUME NEW c, HandleLed(c)
      PROVE  PictureInv'
  <2>1. CASE manualEnabled
    BY <1>1, <1>6, <2>1 DEF HandleLed, PictureInv, NoClientPictureLeft
  <2>2. CASE ~manualEnabled
    BY <1>2, <1>6, <2>2 DEF HandleLed
  <2>. QED
    BY <2>1, <2>2
<1>7. ASSUME req.type = "Message", HandleMessage(req.client, req.msg)
      PROVE  PictureInv'
  <2>1. req.msg \in AllRequests
    BY <1>1, <1>7 DEF ClientReqs
  <2>2. req.msg.type = "SetManualMode" => req.msg.enabled \in BOOLEAN
    BY <2>1 DEF AllRequests
  <2>. QED
    BY <1>2, <1>3, <1>4, <1>6, <1>7, <2>2 DEF HandleMessage, HandleQuery
<1>. QED
  BY <1>5, <1>7 DEF HandleClientCommand

\* The whole next-state relation.
LEMMA PictureStep ==
  ASSUME TypeOK, PictureInv, Next
  PROVE  PictureInv'
<1>1. CASE HandleClientCommand
  BY <1>1, ClientPictures
<1>2. CASE HandleFrameStage
  <2>1. Head(frameStages) \in Stages
    BY <1>2 DEF HandleFrameStage, TypeOK, InputTypeOK
  <2>2. Head(frameStages).frame \in Nat
    BY <2>1, ConstantsAssumption DEF Stages, Frames
  <2>3. lastAutoFrame' # ClientPicture
    BY <1>2, <2>2 DEF HandleFrameStage, PictureInv, ClientPicture
  <2>. QED
    BY <1>2, <2>3
       DEF HandleFrameStage, PictureInv, NoClientPictureLeft, FinalPicture, outputs,
           envVars, sessionVars
<1>3. CASE HandleSeatEvent
  BY <1>3, UpdatePicture DEF HandleSeatEvent, TakeWaylandEvent, PictureInv, envVars
<1>4. CASE OnIdleInhibitTimeout
  <2>1. UNCHANGED <<strip, manualEnabled, lastAutoFrame>>
    BY <1>4 DEF OnIdleInhibitTimeout, envVars, frameVars
  <2>2. CASE UpdateEffectiveIdleState
    BY <2>1, <2>2, UpdatePicture DEF PictureInv
  <2>3. CASE UNCHANGED ledCmds
    BY <2>1, <2>3 DEF PictureInv, NoClientPictureLeft, FinalPicture
  <2>. QED
    BY <1>4, <2>2, <2>3 DEF OnIdleInhibitTimeout
<1>5. CASE \E f \in Frames : LightFrame(f)
  <2>1. PICK f \in Frames : LightFrame(f)
    BY <1>5
  <2>2. PICK cmd \in LedCommands : ledCmds' = Append(ledCmds, cmd) /\ cmd.picture = f
    <3>1. FadeIn(f) \in LedCommands /\ SetStripState(f) \in LedCommands
      BY DEF FadeIn, SetStripState, LedCommands, Pictures
    <3>2. FadeIn(f).picture = f /\ SetStripState(f).picture = f
      BY DEF FadeIn, SetStripState
    <3>. QED
      BY <2>1, <3>1, <3>2 DEF LightFrame
  <2>3. FinalPicture' = f
    BY <2>2, AppendPicture
  <2>4. f # ClientPicture
    BY ConstantsAssumption DEF Frames, ClientPicture
  <2>. QED
    BY <2>1, <2>3, <2>4 DEF LightFrame, TaskStep, frameVars, PictureInv, NoClientPictureLeft
<1>6. CASE LedTakes
  <2>1. /\ ledCmds \in Seq(LedCommands) /\ ledCmds # <<>>
        /\ ledCmds' = Tail(ledCmds) /\ strip' = Head(ledCmds).picture
    BY <1>6 DEF LedTakes, TypeOK, OutputTypeOK
  <2>2. FinalPicture' = FinalPicture
    <3>1. CASE ledCmds' = <<>>
      BY <2>1, <3>1 DEF FinalPicture, Last
    <3>2. CASE ledCmds' # <<>>
      <4>1. ledCmds'[Len(ledCmds')] = ledCmds[Len(ledCmds)]
        BY <2>1, <3>2
      <4>. QED
        BY <2>1, <3>2, <4>1 DEF FinalPicture, Last
    <3>. QED
      BY <3>1, <3>2
  <2>. QED
    BY <1>6, <2>2 DEF LedTakes, sessionVars, frameVars, PictureInv, NoClientPictureLeft
<1>7. CASE UNCHANGED <<ledCmds, strip, lastAutoFrame, manualEnabled>>
  BY <1>7 DEF PictureInv, NoClientPictureLeft, FinalPicture
<1>. QED
  BY <1>1, <1>2, <1>3, <1>4, <1>5, <1>6, <1>7
     DEF Next, HandlerStep, HandleLedEvent, HandleDmabufCreated, FinishImport, SkipFrame,
         DispatchFrame, DispatchFrameFails, AwaitSignal, StopOnSignal, FinishDraining,
         TakeWaylandEvent,
         FrameTask, ResultArrives, ResultLost, CheckManualFlag, LightFrameFails, StageFrame,
         FinishFrame, AbortFrame, TaskStep, FreeCommandBuffer, TimerFires, Environment,
         CaptureReady, CaptureEnds, WaylandSends, ClientSends, RepliesTaken, LedReports,
         Signal, sessionVars, frameVars, outputs, envVars

\* on_manual_state_changed and handle_client_disconnect: however manual mode ends,
\* what is queued for the LED manager replaces every picture of a client.
THEOREM NoClientPictureLeftHolds == Spec => []NoClientPictureLeft
<1>1. Init => PictureInv
  BY DEF Init, PictureInv, NoClientPictureLeft, FinalPicture, Black, ClientPicture
<1>2. PictureInv /\ UNCHANGED vars => PictureInv'
  BY DEF vars, PictureInv, NoClientPictureLeft, FinalPicture, sessionVars, frameVars,
         outputs, envVars
<1>3. PictureInv => NoClientPictureLeft
  BY DEF PictureInv
<1>4. TypeOK /\ PictureInv /\ [Next]_vars => PictureInv'
  BY <1>2, PictureStep
<1>. QED
  BY <1>1, <1>3, <1>4, TypeCorrect, PTL DEF Spec

-------------------------------------------------------------------------------
(* The frame loop.                                                            *)

frameLoopVars == <<captures, waylandEvents, task, phase, idle, manualEnabled, frameLost>>

\* A step that leaves the loop's own state alone.
LEMMA LoopStutter ==
  FrameLoopAlive /\ UNCHANGED frameLoopVars => FrameLoopAlive'
  BY DEF FrameLoopAlive, LoopAlive, Automatic, frameLoopVars

\* A capture under way keeps the loop alive.
LEMMA CaptureKeepsLoop ==
  ASSUME TypeOK, captures' > 0
  PROVE  FrameLoopAlive'
  BY DEF FrameLoopAlive, LoopAlive

\* update_effective_idle_state only starts automatic operation with a ComputeDone.
LEMMA UpdateLoop ==
  ASSUME TypeOK, UpdateEffectiveIdleState, UNCHANGED <<phase, manualEnabled>>
  PROVE  \/ captures' > 0
         \/ UNCHANGED <<captures, frameLost>> /\ (Automatic' => Automatic)
<1>1. CASE OnEnterIdle /\ EffectivelyIdle /\ ~idle
  BY <1>1 DEF OnEnterIdle, UpdateEffectiveIdleState, Automatic
<1>2. CASE OnExitIdle
  BY <1>2 DEF OnExitIdle, SendComputeDone, TypeOK, OutputTypeOK
<1>3. CASE /\ EffectivelyIdle = idle
           /\ UNCHANGED <<ledCmds, captures, frameLost, pendingFadeIn, manualStartedWhileIdle>>
  BY <1>3 DEF UpdateEffectiveIdleState, Automatic
<1>. QED
  BY <1>1, <1>2, <1>3 DEF UpdateEffectiveIdleState

\* So does on_manual_state_changed, when the seat is awake.
LEMMA ManualLoop ==
  ASSUME TypeOK, NEW enabled \in BOOLEAN, OnManualStateChanged(enabled), manualEnabled' = enabled,
         UNCHANGED <<phase, idle>>
  PROVE  \/ captures' > 0
         \/ UNCHANGED <<captures, frameLost>> /\ (Automatic' => Automatic)
  BY DEF OnManualStateChanged, SendComputeDone, Automatic, TypeOK, OutputTypeOK

\* Client requests.
LEMMA ClientLoop ==
  ASSUME TypeOK, FrameLoopAlive, HandleClientCommand
  PROVE  FrameLoopAlive'
<1>. DEFINE req == Head(clientReqs)
<1>1. req \in ClientReqs /\ UNCHANGED <<phase, task, waylandEvents>>
  BY DEF HandleClientCommand, TypeOK, InputTypeOK, taskVars
<1>2. ASSUME \/ captures' > 0
             \/ UNCHANGED <<captures, frameLost>> /\ (Automatic' => Automatic)
      PROVE  FrameLoopAlive'
  BY <1>1, <1>2, CaptureKeepsLoop DEF FrameLoopAlive, LoopAlive
<1>3. CASE UNCHANGED <<captures, frameLost, idle, manualEnabled>>
  BY <1>1, <1>2, <1>3 DEF Automatic
<1>4. ASSUME NEW c, NEW enabled \in BOOLEAN, HandleManualModeRequest(c, enabled)
      PROVE  FrameLoopAlive'
  <2>1. CASE OnManualStateChanged(enabled)
    BY <1>1, <1>2, <1>4, <2>1, ManualLoop DEF HandleManualModeRequest
  <2>2. CASE enabled = manualEnabled /\ UNCHANGED <<captures, frameLost>>
    BY <1>2, <1>1, <1>4, <2>2 DEF HandleManualModeRequest, Automatic
  <2>. QED
    BY <1>4, <2>1, <2>2 DEF HandleManualModeRequest
<1>5. ASSUME NEW c, NEW enabled, NEW timeout, HandleIdleInhibitRequest(c, enabled, timeout)
      PROVE  FrameLoopAlive'
  BY <1>1, <1>2, <1>5, UpdateLoop DEF HandleIdleInhibitRequest, ApplyIdleInhibitState
<1>6. ASSUME NEW c, HandleDisconnect(c)
      PROVE  FrameLoopAlive'
  <2>1. CASE manualEnabled' = FALSE /\ OnManualStateChanged(FALSE)
    BY <1>1, <1>2, <1>6, <2>1, ManualLoop DEF HandleDisconnect
  <2>2. CASE UNCHANGED <<manualEnabled, captures, frameLost>>
    BY <1>3, <1>6, <2>2 DEF HandleDisconnect
  <2>. QED
    BY <1>6, <2>1, <2>2 DEF HandleDisconnect
<1>7. ASSUME req.type = "Message", HandleMessage(req.client, req.msg)
      PROVE  FrameLoopAlive'
  <2>1. req.msg \in AllRequests
    BY <1>1, <1>7 DEF ClientReqs
  <2>2. req.msg.type = "SetManualMode" => req.msg.enabled \in BOOLEAN
    BY <2>1 DEF AllRequests
  <2>. QED
    BY <1>3, <1>4, <1>5, <1>7, <2>2 DEF HandleMessage, HandleLed, HandleQuery, idleVars
<1>. QED
  BY <1>6, <1>7 DEF HandleClientCommand

\* The branches of the select! loop: a frame is consumed by a task, by an error, or
\* outside automatic operation.
LEMMA HandlerLoop ==
  ASSUME TypeOK, FrameLoopAlive, HandlerStep
  PROVE  FrameLoopAlive'
<1>1. CASE HandleFrameStage \/ HandleLedEvent \/ AwaitSignal \/ FinishDraining
  BY <1>1, LoopStutter
     DEF HandleFrameStage, HandleLedEvent, AwaitSignal, FinishDraining, frameLoopVars, idleVars,
         sessionVars, taskVars, inputs, outputs, Automatic, FrameLoopAlive, LoopAlive
<1>2. CASE FinishImport
  BY <1>2
     DEF FinishImport, FrameLoopAlive, LoopAlive, Automatic, idleVars, sessionVars,
         taskVars, inputs, outputs
<1>3. CASE StopOnSignal
  BY <1>3 DEF StopOnSignal, FrameLoopAlive, Automatic
<1>4. CASE HandleClientCommand
  BY <1>4, ClientLoop
<1>5. CASE OnIdleInhibitTimeout
  <2>1. UNCHANGED <<phase, manualEnabled, task, waylandEvents>>
    BY <1>5 DEF OnIdleInhibitTimeout, taskVars
  <2>2. \/ captures' > 0
        \/ UNCHANGED <<captures, frameLost>> /\ (Automatic' => Automatic)
    <3>1. CASE UpdateEffectiveIdleState
      BY <2>1, <3>1, UpdateLoop
    <3>2. CASE UNCHANGED <<idle, captures, frameLost>>
      BY <2>1, <3>2 DEF Automatic
    <3>. QED
      BY <1>5, <3>1, <3>2 DEF OnIdleInhibitTimeout
  <2>. QED
    BY <2>1, <2>2 DEF FrameLoopAlive, LoopAlive
<1>6. CASE HandleSeatEvent \/ HandleDmabufCreated \/ SkipFrame \/ DispatchFrame \/ DispatchFrameFails
  <2>1. PICK event \in WaylandEvents : TakeWaylandEvent(event)
    BY <1>6
       DEF HandleSeatEvent, HandleDmabufCreated, SkipFrame, DispatchFrame,
           DispatchFrameFails, WaylandEvents
  <2>2. /\ waylandEvents \in Seq(WaylandEvents) /\ waylandEvents # <<>>
        /\ Head(waylandEvents) = event /\ waylandEvents' = Tail(waylandEvents)
        /\ UNCHANGED manualEnabled /\ phase = "running"
    BY <2>1 DEF TakeWaylandEvent, Awake, TypeOK, InputTypeOK
  <2>3. ASSUME event # "FrameReady"
        PROVE  (\E i \in 1 .. Len(waylandEvents) : waylandEvents[i] = "FrameReady") =>
                  \E i \in 1 .. Len(waylandEvents') : waylandEvents'[i] = "FrameReady"
    <3>1. ASSUME NEW i \in 1 .. Len(waylandEvents), waylandEvents[i] = "FrameReady"
          PROVE  \E j \in 1 .. Len(waylandEvents') : waylandEvents'[j] = "FrameReady"
      <4>1. i # 1 /\ Len(waylandEvents') = Len(waylandEvents) - 1 /\ Len(waylandEvents) \in Nat
        BY <2>2, <2>3, <3>1
      <4>2. i - 1 \in 1 .. Len(waylandEvents')
        BY <4>1
      <4>3. waylandEvents'[i - 1] = "FrameReady"
        BY <2>2, <3>1, <4>2
      <4>. QED
        BY <4>2, <4>3
    <3>. QED
      BY <3>1
  <2>4. CASE HandleSeatEvent
    <3>1. event # "FrameReady" /\ UpdateEffectiveIdleState /\ UNCHANGED <<phase, task>>
      BY <2>1, <2>4 DEF HandleSeatEvent, taskVars, TakeWaylandEvent
    <3>2. \/ captures' > 0
          \/ UNCHANGED <<captures, frameLost>> /\ (Automatic' => Automatic)
      BY <2>2, <3>1, UpdateLoop
    <3>. QED
      BY <2>3, <3>1, <3>2 DEF FrameLoopAlive, LoopAlive
  <2>5. CASE HandleDmabufCreated
    <3>1. event # "FrameReady" /\ UNCHANGED <<task, captures, frameLost, idle, manualEnabled>> /\ phase' = "importing"
      BY <2>1, <2>5 DEF HandleDmabufCreated, taskVars, idleVars, TakeWaylandEvent
    <3>. QED
      BY <2>2, <2>3, <3>1 DEF FrameLoopAlive, LoopAlive, Automatic
  <2>6. CASE SkipFrame
    BY <2>6 DEF SkipFrame, TakeWaylandEvent, idleVars, FrameLoopAlive, Automatic
  <2>7. CASE DispatchFrame
    <3>1. frameCounter \in Frames /\ task'[frameCounter] = "waiting"
      BY <2>7, ConstantsAssumption
         DEF DispatchFrame, NextFrame, TypeOK, FrameTypeOK, TaskTypeOK, Frames
    <3>. QED
      BY <3>1 DEF FrameLoopAlive, LoopAlive
  <2>8. CASE DispatchFrameFails
    BY <2>8 DEF DispatchFrameFails, FrameLoopAlive
  <2>. QED
    BY <1>6, <2>4, <2>5, <2>6, <2>7, <2>8
<1>. QED
  BY <1>1, <1>2, <1>3, <1>4, <1>5, <1>6 DEF HandlerStep

\* A frame's task ends by asking for the next capture, or by an error.
LEMMA TaskLoop ==
  ASSUME TypeOK, FrameLoopAlive, NEW f \in Frames, FrameTask(f)
  PROVE  FrameLoopAlive'
<1>1. task \in [Frames -> TaskStates] /\ captures \in Nat
  BY DEF TypeOK, TaskTypeOK, OutputTypeOK
<1>2. CASE ResultArrives(f) \/ ResultLost(f) \/ CheckManualFlag(f) \/ LightFrame(f)
           \/ LightFrameFails(f) \/ StageFrame(f)
  <2>1. task'[f] # "none"
    BY <1>1, <1>2
       DEF ResultArrives, ResultLost, CheckManualFlag, LightFrame, LightFrameFails,
           StageFrame, TaskStep
  <2>. QED
    BY <2>1 DEF FrameLoopAlive, LoopAlive
<1>3. CASE FinishFrame(f)
  BY <1>1, <1>3 DEF FinishFrame, SendComputeDone, FrameLoopAlive, LoopAlive
<1>4. CASE AbortFrame(f)
  BY <1>4 DEF AbortFrame, FrameLoopAlive
<1>. QED
  BY <1>2, <1>3, <1>4 DEF FrameTask

\* Captures become events; the rest of the environment does not matter.
LEMMA OthersLoop ==
  ASSUME TypeOK, FrameLoopAlive, FreeCommandBuffer \/ TimerFires \/ Environment
  PROVE  FrameLoopAlive'
<1>1. CASE \/ FreeCommandBuffer \/ TimerFires \/ ClientSends
          \/ LedTakes \/ RepliesTaken \/ LedReports \/ Signal
  <2>1. UNCHANGED frameLoopVars
    BY <1>1
       DEF FreeCommandBuffer, TimerFires, ClientSends, LedTakes, RepliesTaken, LedReports,
           Signal, idleVars, sessionVars, taskVars, inputs, outputs, processVars, frameLoopVars
  <2>. QED
    BY <2>1, LoopStutter
<1>2. CASE CaptureReady
  <2>1. waylandEvents'[Len(waylandEvents')] = "FrameReady" /\ Len(waylandEvents') \in 1 .. Len(waylandEvents')
    BY <1>2, AppendProperties DEF CaptureReady, TypeOK, InputTypeOK, WaylandEvents
  <2>. QED
    BY <2>1 DEF FrameLoopAlive, LoopAlive
<1>3. CASE CaptureEnds
  BY <1>3 DEF CaptureEnds, FrameLoopAlive, LoopAlive, TypeOK, OutputTypeOK
<1>4. CASE WaylandSends
  <2>1. UNCHANGED <<captures, task, phase, idle, manualEnabled, frameLost>>
    BY <1>4 DEF WaylandSends, outputs, taskVars, processVars, idleVars, sessionVars
  <2>2. \A i \in 1 .. Len(waylandEvents) :
          i \in 1 .. Len(waylandEvents') /\ waylandEvents'[i] = waylandEvents[i]
    BY <1>4, AppendProperties DEF WaylandSends, TypeOK, InputTypeOK
  <2>. QED
    BY <2>1, <2>2 DEF FrameLoopAlive, LoopAlive, Automatic
<1>. QED
  BY <1>1, <1>2, <1>3, <1>4 DEF Environment

\* on_exit_idle, resume_frame_pipeline and await_compute_dispatch: as long as no error
\* ended a frame, automatic operation always has a frame under way, through every
\* sequence of idle periods, inhibits, timeouts and manual sessions.
THEOREM FrameLoopAliveHolds == Spec => []FrameLoopAlive
<1>1. Init => FrameLoopAlive
  BY DEF Init, FrameLoopAlive, LoopAlive
<1>2. TypeOK /\ FrameLoopAlive /\ [Next]_vars => FrameLoopAlive'
  <2>. SUFFICES ASSUME TypeOK, FrameLoopAlive, [Next]_vars
                PROVE  FrameLoopAlive'
    OBVIOUS
  <2>1. CASE HandlerStep
    BY <2>1, HandlerLoop
  <2>2. CASE \E f \in Frames : FrameTask(f)
    BY <2>2, TaskLoop
  <2>3. CASE FreeCommandBuffer \/ TimerFires \/ Environment
    BY <2>3, OthersLoop
  <2>4. CASE UNCHANGED vars
    <3>1. UNCHANGED frameLoopVars
      BY <2>4
         DEF vars, frameLoopVars, idleVars, sessionVars, taskVars, inputs, outputs,
             processVars
    <3>. QED
      BY <3>1, LoopStutter
  <2>. QED
    BY <2>1, <2>2, <2>3, <2>4 DEF Next
<1>. QED
  BY <1>1, <1>2, TypeCorrect, PTL DEF Spec
===============================================================================
