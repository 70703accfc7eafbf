------------------------------ MODULE LedManager ------------------------------
(***************************************************************************)
(* The LED manager (daemon/src/led/mod.rs, effects.rs and the writing half *)
(* of esp32.rs): one task that takes commands, keeps the frame it last     *)
(* rendered and at most one animation, and writes frames to the device.    *)
(*                                                                         *)
(* The select! of run is not biased: a waiting command, the cancellation   *)
(* and a due tick are taken in any order.  A frame is abstracted to a      *)
(* picture: Black, a picture somebody asked for, or Glow, anything lit in  *)
(* between.  Time is counted in ticks; a tick may come at any moment.      *)
(***************************************************************************)
EXTENDS Integers, SequencesExt

CONSTANTS
  Lit,                  \* pictures and colours that can be asked for, not black
  Black, Glow, Endless,
  LeftOn,               \* what an earlier run may have left on the strip
  Durations,            \* how many ticks a fade may last, 0 for Some(0)
  MaxQueued,            \* bound: commands waiting when one is sent
  MaxErrors             \* bound: Event::Error waiting for the handler

ASSUME ConstantsAssumption ==
  /\ Black \notin Lit /\ Glow \notin Lit /\ Endless \notin Lit
  /\ Black # Glow /\ Black # Endless /\ Glow # Endless
  /\ LeftOn \subseteq Lit \cup {Black, Glow}
  /\ Durations \subseteq Nat
  /\ MaxQueued \in Nat /\ MaxErrors \in Nat

VARIABLES
  cmds,                 \* rx
  current,              \* current_frame
  animation,            \* animation, NoAnimation for None
  device,               \* the frame the device was last written
  errors,               \* Event::Error sent to the handler and not yet read
  cancelled,            \* the cancellation token
  hungUp,               \* every sender of rx is gone
  stopped,              \* run has returned
  wanted,               \* history: what the last command asked for
  failed                \* history: a write failed, and none has succeeded since

vars == <<cmds, current, animation, device, errors, cancelled, hungUp, stopped,
          wanted, failed>>

-------------------------------------------------------------------------------
Asked   == Lit \cup {Black}
Looks   == Asked \cup {Glow}

Commands ==
  [op : {"SetStaticColor", "SetStripState", "Breathing"}, picture : Asked]
    \cup [op : {"FadeIn"}, picture : Asked, ticks : Durations]
    \cup [op : {"FadeOut"}, ticks : Durations]
    \cup [op : {"Rainbow"}]

\* An animation: its fade's start, target and remaining ticks, or its colour.
Animations ==
  [kind : {"None", "In", "Out", "Rainbow", "Breathing"},
   start : Looks, target : Asked, left : Nat]

Animation(kind, start, target, left) ==
  [kind |-> kind, start |-> start, target |-> target, left |-> left]

NoAnimation == Animation("None", Black, Black, 0)

Fades == {"In", "Out"}

TypeOK ==
  /\ cmds \in Seq(Commands)
  /\ current \in Looks /\ device \in Looks
  /\ animation \in Animations
  /\ errors \in Nat
  /\ cancelled \in BOOLEAN /\ hungUp \in BOOLEAN /\ stopped \in BOOLEAN
  /\ wanted \in Asked \cup {Endless}
  /\ failed \in BOOLEAN

Init ==
  /\ cmds = <<>> /\ current = Black /\ animation = NoAnimation /\ device \in LeftOn
  /\ errors = 0 /\ cancelled = FALSE /\ hungUp = FALSE /\ stopped = FALSE
  /\ wanted = Black /\ failed = FALSE

-------------------------------------------------------------------------------
\* send_strip_state: the frame reaches the device, or the write fails.
Write(p) ==
  \/ device' = p /\ failed' = FALSE
  \/ device' = device /\ failed' = TRUE

\* A command's write; `?` hands its error to run, which tells the handler.
WriteReported(p) ==
  /\ Write(p)
  /\ errors' = IF failed' THEN errors + 1 ELSE errors
  /\ failed' => errors < MaxErrors      \* bound

\* Mutant: takes a new start and keeps the old target.
RetargetStartOnly(p) == animation' = [animation EXCEPT !.start = current]

\* Mutant: the new target also restarts the fade.
RetargetRestarts(p) ==
  \E ticks \in Durations : animation' = Animation("In", current, p, ticks)

\* A fade-in before its end takes up the new target from where it is.
Retarget(p) ==
  animation' = [animation EXCEPT !.start = current, !.target = p]

\* Mutant: the frame is taken for shown as soon as it is a target.
TryUpdateActiveFadeAtOnce(p) ==
  /\ animation.kind = "In"
  /\ Retarget(p)
  /\ current' = p
  /\ UNCHANGED <<device, errors, failed>>

\* try_update_active_fade, when it returns true
TryUpdateActiveFade(p) ==
  /\ animation.kind = "In"
  /\ Retarget(p)
  /\ UNCHANGED <<current, device, errors, failed>>

\* What SetStaticColor and SetStripState do without a fade to take part in.
Show(p) ==
  /\ animation' = NoAnimation
  /\ current' = p
  /\ WriteReported(p)

\* FadeIn: the frame becomes black, the device is written by the first tick.
StartFadeIn(p, ticks) ==
  /\ animation' = Animation("In", Black, p, ticks)
  /\ current' = Black
  /\ UNCHANGED <<device, errors, failed>>

\* FadeOut, unless the frame is black already.
StartFadeOut(ticks) ==
  /\ animation' = IF current = Black THEN NoAnimation
                                     ELSE Animation("Out", current, Black, ticks)
  /\ UNCHANGED <<current, device, errors, failed>>

StartEffect(kind, colour) ==
  /\ animation' = Animation(kind, Black, colour, 0)
  /\ UNCHANGED <<current, device, errors, failed>>

\* handle_led_command
HandleLedCommand ==
  /\ ~stopped
  /\ cmds # <<>>
  /\ cmds' = Tail(cmds)
  /\ LET cmd == Head(cmds) IN
     \/ cmd.op = "SetStaticColor" /\ wanted' = cmd.picture /\ Show(cmd.picture)
     \/ /\ cmd.op = "SetStripState"
        /\ wanted' = cmd.picture
        /\ \/ TryUpdateActiveFade(cmd.picture)
           \/ animation.kind # "In" /\ Show(cmd.picture)
     \/ cmd.op = "FadeIn" /\ wanted' = cmd.picture /\ StartFadeIn(cmd.picture, cmd.ticks)
     \/ cmd.op = "FadeOut" /\ wanted' = Black /\ StartFadeOut(cmd.ticks)
     \/ cmd.op = "Rainbow" /\ wanted' = Endless /\ StartEffect("Rainbow", Black)
     \/ cmd.op = "Breathing" /\ wanted' = Endless /\ StartEffect("Breathing", cmd.picture)
  /\ UNCHANGED <<cancelled, hungUp, stopped>>

\* What a tick may render.  A fade shows its start, its target or something
\* between them until its time is up; breathing goes dark between two breaths.
Rendered ==
  CASE animation.kind \in Fades /\ animation.left = 0 -> {animation.target}
    [] animation.kind \in Fades /\ animation.left > 0 ->
         IF animation.start = animation.target
         THEN {animation.start} ELSE {animation.start, Glow, animation.target}
    [] animation.kind = "Rainbow" -> {Glow}
    [] animation.kind = "Breathing" ->
         IF animation.target = Black THEN {Black} ELSE {Black, Glow, animation.target}

Finished == animation.kind \in Fades /\ animation.left = 0

\* step_animation; a failed write ends the animation and is only logged
StepAnimation ==
  /\ ~stopped
  /\ animation.kind # "None"
  /\ current' \in Rendered
  /\ Write(current')
  /\ animation' = IF Finished \/ failed' THEN NoAnimation ELSE animation
  /\ UNCHANGED <<cmds, errors, cancelled, hungUp, stopped, wanted>>

\* Mutant: the remaining time is not saturated.
TimePassesOver ==
  /\ animation.kind \in Fades
  /\ animation' = [animation EXCEPT !.left = @ - 1]
  /\ UNCHANGED <<cmds, current, device, errors, cancelled, hungUp, stopped, wanted, failed>>

\* A fade's time runs.
TimePasses ==
  /\ animation.left > 0
  /\ animation' = [animation EXCEPT !.left = @ - 1]
  /\ UNCHANGED <<cmds, current, device, errors, cancelled, hungUp, stopped, wanted, failed>>

\* Mutant: closes the port without the blackout frame.
StopLit ==
  /\ stopped' = TRUE
  /\ animation' = NoAnimation
  /\ UNCHANGED <<current, device, failed, wanted>>

\* The loop is over: close blacks the strip out, and the manager is dropped.
Stop ==
  /\ stopped' = TRUE
  /\ animation' = NoAnimation
  /\ wanted' = Black
  /\ Write(Black)
  /\ UNCHANGED current

\* run leaves its loop when it is cancelled, or when rx is closed and empty.
ExitLoop ==
  /\ ~stopped
  /\ cancelled \/ (hungUp /\ cmds = <<>>)
  /\ Stop
  /\ UNCHANGED <<cmds, errors, cancelled, hungUp>>

Manager == HandleLedCommand \/ StepAnimation \/ ExitLoop

-------------------------------------------------------------------------------
(* The handler and the frame tasks.                                           *)

SendCommand ==
  /\ ~hungUp
  /\ Len(cmds) < MaxQueued
  /\ \E cmd \in Commands : cmds' = Append(cmds, cmd)
  /\ UNCHANGED <<current, animation, device, errors, cancelled, hungUp, stopped, wanted, failed>>

ReadError ==
  /\ errors > 0
  /\ errors' = errors - 1
  /\ UNCHANGED <<cmds, current, animation, device, cancelled, hungUp, stopped, wanted, failed>>

\* Handler::run cancels the token and returns; if it panics, it only hangs up.
HandlerEnds ==
  /\ \/ ~cancelled /\ cancelled' = TRUE /\ UNCHANGED hungUp
     \/ ~hungUp /\ hungUp' = TRUE /\ UNCHANGED cancelled
  /\ UNCHANGED <<cmds, current, animation, device, errors, stopped, wanted, failed>>

Next ==
  \/ Manager
  \/ TimePasses
  \/ SendCommand
  \/ ReadError
  \/ HandlerEnds

Spec == Init /\ [][Next]_vars

(***************************************************************************)
(* The runtime polls the task whenever a branch is ready, and select! picks *)
(* among the ready branches at random: none is passed over for ever.       *)
(***************************************************************************)
Fairness ==
  /\ SF_vars(HandleLedCommand) /\ SF_vars(StepAnimation) /\ WF_vars(ExitLoop)
  /\ WF_vars(TimePasses) /\ WF_vars(ReadError)

FairSpec == Spec /\ Fairness

-------------------------------------------------------------------------------
(* Properties.                                                                *)

\* The manager's frame and the device's differ after a failed write, or because
\* the frame was made black for a fade-in; nothing else runs ahead of the device.
OnlyBlackRunsAhead == ~stopped /\ ~failed /\ device # current => current = Black

\* The manager keeps the promise of module Strip for its own frame.
Promise == INSTANCE Strip WITH
  Dark <- Black,
  goal <- wanted,
  shown <- IF stopped THEN device ELSE current,
  moving <- animation.kind # "None",
  broken <- failed

\* handle_led_command and step_animation only come to rest on the last picture
\* asked for, through every order of fades, retargets and effects.
KeepsPromise == Promise!StripSpec

StartsFade == HandleLedCommand /\ Head(cmds).op \in {"FadeIn", "FadeOut"}

\* A fade ends unless fades are started for ever: a stream of new frames, as the
\* frame tasks send it, moves the target of a fade-in but never its end.
FadesEnd ==
  []<>(animation.kind \notin Fades) \/ []<><<StartsFade>>_vars

\* Once the daemon goes down, or its handler is gone, the strip goes dark.
GoesDark ==
  cancelled \/ hungUp ~> stopped /\ (device = Black \/ failed)
==============================================================================
