--------------------------- MODULE LedManagerProofs ---------------------------
(***************************************************************************)
(* Theorems about LedManager, for every set of pictures and durations.     *)
(***************************************************************************)
EXTENDS LedManager, SequenceTheorems, TLAPS

\* The absent animation is one of the animations.
LEMMA NoAnimationType == NoAnimation \in Animations
  BY ConstantsAssumption DEF NoAnimation, Animation, Animations, Looks, Asked

\* A write leaves the device typed, and says whether it failed.
LEMMA WriteType ==
  ASSUME TypeOK, NEW p \in Looks, Write(p)
  PROVE  device' \in Looks /\ failed' \in BOOLEAN
<1>1. device' \in Looks
  BY DEF Write, TypeOK
<1>2. failed' \in BOOLEAN
  BY Zenon DEF Write
<1> QED BY <1>1, <1>2

\* What run takes out of its queue is a command.
LEMMA CommandType ==
  ASSUME TypeOK, cmds # <<>>
  PROVE  Head(cmds) \in Commands /\ Tail(cmds) \in Seq(Commands)
  BY HeadTailProperties DEF TypeOK

\* The three shapes a command can leave the animation and the frame in.
LEMMA AnimationType ==
  ASSUME NEW kind \in {"None", "In", "Out", "Rainbow", "Breathing"},
         NEW start \in Looks, NEW target \in Asked, NEW left \in Nat
  PROVE  /\ Animation(kind, start, target, left) \in Animations
         /\ Animation(kind, start, target, left).kind = kind
         /\ Animation(kind, start, target, left).target = target
  BY DEF Animation, Animations

\* What handle_led_command does, by the kind of the command.
Handled ==
  \/ \E p \in Asked : wanted' = p /\ Show(p)
  \/ \E p \in Asked : wanted' = p /\ TryUpdateActiveFade(p)
  \/ \E p \in Asked : \E t \in Durations : wanted' = p /\ StartFadeIn(p, t)
  \/ \E t \in Durations : wanted' = Black /\ StartFadeOut(t)
  \/ \E k \in {"Rainbow", "Breathing"} : \E p \in Asked :
       wanted' = Endless /\ StartEffect(k, p)

\* Every command is handled in one of these ways.
LEMMA CommandHandled ==
  ASSUME TypeOK, HandleLedCommand
  PROVE  Handled /\ cmds' \in Seq(Commands)
<1> DEFINE cmd == Head(cmds)
<1>1. cmd \in Commands /\ cmds' \in Seq(Commands)
  BY CommandType DEF HandleLedCommand
<1>2. ASSUME cmd.op \in {"SetStaticColor", "SetStripState", "Breathing", "FadeIn"}
      PROVE  cmd.picture \in Asked
  BY <1>1, <1>2 DEF Commands
<1>3. ASSUME cmd.op \in {"FadeIn", "FadeOut"}
      PROVE  cmd.ticks \in Durations
  BY <1>1, <1>3 DEF Commands
<1>4. Black \in Asked
  BY DEF Asked
<1>5. ASSUME cmd.op = "SetStaticColor" /\ wanted' = cmd.picture /\ Show(cmd.picture)
      PROVE  Handled
  <2>1. cmd.picture \in Asked
    BY <1>2, <1>5
  <2>2. \E p \in Asked : wanted' = p /\ Show(p)
    BY <1>5, <2>1, Zenon
  <2> QED BY <2>2, Zenon DEF Handled
<1>6. ASSUME cmd.op = "SetStripState" /\ wanted' = cmd.picture /\ Show(cmd.picture)
      PROVE  Handled
  <2>1. cmd.picture \in Asked
    BY <1>2, <1>6
  <2>2. \E p \in Asked : wanted' = p /\ Show(p)
    BY <1>6, <2>1, Zenon
  <2> QED BY <2>2, Zenon DEF Handled
<1>7. ASSUME cmd.op = "SetStripState" /\ wanted' = cmd.picture
             /\ TryUpdateActiveFade(cmd.picture)
      PROVE  Handled
  <2>1. cmd.picture \in Asked
    BY <1>2, <1>7
  <2>2. \E p \in Asked : wanted' = p /\ TryUpdateActiveFade(p)
    BY <1>7, <2>1, Zenon
  <2> QED BY <2>2, Zenon DEF Handled
<1>8. ASSUME cmd.op = "FadeIn" /\ wanted' = cmd.picture
             /\ StartFadeIn(cmd.picture, cmd.ticks)
      PROVE  Handled
  <2>1. cmd.picture \in Asked /\ cmd.ticks \in Durations
    BY <1>2, <1>3, <1>8
  <2>2. \E p \in Asked : \E t \in Durations : wanted' = p /\ StartFadeIn(p, t)
    BY <1>8, <2>1, Zenon
  <2> QED BY <2>2, Zenon DEF Handled
<1>9. ASSUME cmd.op = "FadeOut" /\ wanted' = Black /\ StartFadeOut(cmd.ticks)
      PROVE  Handled
  <2>1. cmd.ticks \in Durations
    BY <1>3, <1>9
  <2>2. \E t \in Durations : wanted' = Black /\ StartFadeOut(t)
    BY <1>9, <2>1, Zenon
  <2> QED BY <2>2, Zenon DEF Handled
<1>10. ASSUME cmd.op = "Rainbow" /\ wanted' = Endless /\ StartEffect("Rainbow", Black)
      PROVE  Handled
  <2>1. Black \in Asked
    BY <1>4, <1>10
  <2>2. \E k \in {"Rainbow", "Breathing"} : \E p \in Asked :
              wanted' = Endless /\ StartEffect(k, p)
    BY <1>10, <2>1, Zenon
  <2> QED BY <2>2, Zenon DEF Handled
<1>11. ASSUME cmd.op = "Breathing" /\ wanted' = Endless
              /\ StartEffect("Breathing", cmd.picture)
      PROVE  Handled
  <2>1. cmd.picture \in Asked
    BY <1>2, <1>11
  <2>2. \E k \in {"Rainbow", "Breathing"} : \E p \in Asked :
              wanted' = Endless /\ StartEffect(k, p)
    BY <1>11, <2>1, Zenon
  <2> QED BY <2>2, Zenon DEF Handled
<1> HIDE DEF cmd
<1>12. Handled
  BY <1>5, <1>6, <1>7, <1>8, <1>9, <1>10, <1>11, Zenon DEF HandleLedCommand, cmd
<1> QED BY <1>1, <1>12

-------------------------------------------------------------------------------
(* Types.                                                                     *)

\* What a tick renders is a look.
LEMMA RenderedType ==
  ASSUME TypeOK, animation.kind # "None"
  PROVE  Rendered \subseteq Looks
<1>1. animation.start \in Looks /\ animation.target \in Asked /\ animation.left \in Nat
  BY DEF TypeOK, Animations
<1>2. animation.kind \in {"In", "Out", "Rainbow", "Breathing"}
  BY DEF TypeOK, Animations
<1>3. CASE animation.kind \in Fades /\ animation.left = 0
  <2>1. Rendered = {animation.target}
    BY <1>3 DEF Rendered, Fades
  <2> QED BY <1>1, <2>1 DEF Looks
<1>4. CASE animation.kind \in Fades /\ animation.left > 0
  <2>1. Rendered = IF animation.start = animation.target
                   THEN {animation.start}
                   ELSE {animation.start, Glow, animation.target}
    BY <1>4 DEF Rendered, Fades
  <2>2. {animation.start} \subseteq Looks
    BY <1>1
  <2>3. {animation.start, Glow, animation.target} \subseteq Looks
    BY <1>1 DEF Looks
  <2> QED BY <2>1, <2>2, <2>3, Zenon
<1>5. CASE animation.kind = "Rainbow"
  BY <1>5 DEF Rendered, Looks, Fades
<1>6. CASE animation.kind = "Breathing"
  <2>1. Rendered = IF animation.target = Black
                   THEN {Black} ELSE {Black, Glow, animation.target}
    BY <1>6 DEF Rendered, Fades
  <2>2. {Black, Glow, animation.target} \subseteq Looks /\ {Black} \subseteq Looks
    BY <1>1 DEF Looks, Asked
  <2> QED BY <2>1, <2>2, Zenon
<1>7. animation.kind \in Fades => animation.left = 0 \/ animation.left > 0
  BY <1>1
<1> QED BY <1>2, <1>3, <1>4, <1>5, <1>6, <1>7 DEF Fades

\* A new target keeps the kind of the animation.
LEMMA RetargetType ==
  ASSUME TypeOK, NEW p \in Asked, Retarget(p)
  PROVE  /\ animation' \in Animations
         /\ animation'.kind = animation.kind /\ animation'.target = p
  BY DEF TypeOK, Retarget, Animations

\* handle_led_command.
LEMMA CommandKeepsType == TypeOK /\ HandleLedCommand => TypeOK'
<1> SUFFICES ASSUME TypeOK, HandleLedCommand PROVE TypeOK'
  OBVIOUS
<1>1. Handled /\ cmds' \in Seq(Commands)
  BY CommandHandled
<1>2. UNCHANGED <<cancelled, hungUp, stopped>>
  BY DEF HandleLedCommand
<1>3. Black \in Asked /\ Asked \subseteq Looks
  BY DEF Asked, Looks
<1> DEFINE Rest == /\ current' \in Looks /\ device' \in Looks
                   /\ animation' \in Animations /\ errors' \in Nat
                   /\ wanted' \in Asked \cup {Endless}
<1>4. ASSUME NEW p \in Asked, wanted' = p, Show(p)
      PROVE  Rest /\ failed' \in BOOLEAN
  <2>1. Write(p) /\ animation' = NoAnimation /\ current' = p
    BY <1>4 DEF Show, WriteReported
  <2>2. device' \in Looks /\ failed' \in BOOLEAN
    BY <2>1, <1>3, WriteType
  <2>3. errors' \in Nat
    BY <1>4 DEF Show, WriteReported, TypeOK
  <2> QED BY <1>3, <1>4, <2>1, <2>2, <2>3, NoAnimationType
<1>5. ASSUME NEW p \in Asked, wanted' = p, TryUpdateActiveFade(p)
      PROVE  Rest /\ failed' = failed
  <2>1. animation' \in Animations
    BY <1>5, RetargetType DEF TryUpdateActiveFade
  <2> QED BY <1>5, <2>1 DEF TryUpdateActiveFade, TypeOK
<1>6. ASSUME NEW p \in Asked, NEW t \in Durations, wanted' = p, StartFadeIn(p, t)
      PROVE  Rest /\ failed' = failed
  <2>1. animation' \in Animations
    BY <1>3, <1>6, AnimationType, ConstantsAssumption DEF StartFadeIn
  <2> QED BY <1>3, <1>6, <2>1 DEF StartFadeIn, TypeOK
<1>7. ASSUME NEW t \in Durations, wanted' = Black, StartFadeOut(t)
      PROVE  Rest /\ failed' = failed
  <2>1. Animation("Out", current, Black, t) \in Animations
    BY <1>3, AnimationType, ConstantsAssumption DEF TypeOK
  <2>2. animation' \in Animations
    BY <1>7, <2>1, NoAnimationType DEF StartFadeOut
  <2> QED BY <1>3, <1>7, <2>2 DEF StartFadeOut, TypeOK
<1>8. ASSUME NEW k \in {"Rainbow", "Breathing"}, NEW p \in Asked, wanted' = Endless,
             StartEffect(k, p)
      PROVE  Rest /\ failed' = failed
  <2>1. animation' \in Animations
    BY <1>3, <1>8, AnimationType DEF StartEffect
  <2> QED BY <1>8, <2>1 DEF StartEffect, TypeOK
<1> HIDE DEF Rest
<1>9. Rest /\ (failed' \in BOOLEAN \/ failed' = failed)
  BY <1>1, <1>4, <1>5, <1>6, <1>7, <1>8, Zenon DEF Handled
<1>10. failed' \in BOOLEAN
  BY <1>9, Zenon DEF TypeOK
<1>11. cancelled' \in BOOLEAN /\ hungUp' \in BOOLEAN /\ stopped' \in BOOLEAN
  BY <1>2, Zenon DEF TypeOK
<1> QED BY <1>1, <1>9, <1>10, <1>11, Zenon DEF TypeOK, Rest

\* step_animation.
LEMMA TickKeepsType == TypeOK /\ StepAnimation => TypeOK'
<1> SUFFICES ASSUME TypeOK, StepAnimation PROVE TypeOK'
  OBVIOUS
<1>1. current' \in Looks
  BY RenderedType DEF StepAnimation
<1>2. device' \in Looks /\ failed' \in BOOLEAN
  BY <1>1, WriteType DEF StepAnimation
<1>3. animation' \in Animations
  BY NoAnimationType DEF StepAnimation, TypeOK
<1>4. UNCHANGED <<cmds, errors, cancelled, hungUp, stopped, wanted>>
  BY DEF StepAnimation
<1> QED BY <1>1, <1>2, <1>3, <1>4, Zenon DEF TypeOK

\* The end of run, and its close.
LEMMA ExitKeepsType == TypeOK /\ ExitLoop => TypeOK'
<1> SUFFICES ASSUME TypeOK, ExitLoop PROVE TypeOK'
  OBVIOUS
<1>1. Black \in Looks /\ Black \in Asked
  BY DEF Looks, Asked
<1>2. device' \in Looks /\ failed' \in BOOLEAN
  BY <1>1, WriteType DEF ExitLoop, Stop
<1>3. animation' \in Animations /\ wanted' = Black /\ current' = current
  BY NoAnimationType DEF ExitLoop, Stop
<1>4. stopped' \in BOOLEAN
  BY Zenon DEF ExitLoop, Stop
<1>5. UNCHANGED <<cmds, errors, cancelled, hungUp>>
  BY DEF ExitLoop
<1>6. wanted' \in Asked \cup {Endless}
  BY <1>1, <1>3
<1> QED BY <1>2, <1>3, <1>4, <1>5, <1>6, Zenon DEF TypeOK

\* Time, and what the handler does.
LEMMA OthersKeepType ==
  TypeOK /\ (TimePasses \/ SendCommand \/ ReadError \/ HandlerEnds) => TypeOK'
<1> SUFFICES ASSUME TypeOK PROVE
      (TimePasses \/ SendCommand \/ ReadError \/ HandlerEnds) => TypeOK'
  OBVIOUS
<1>1. CASE TimePasses
  <2>1. animation' \in Animations
    BY <1>1 DEF TimePasses, TypeOK, Animations
  <2>2. UNCHANGED <<cmds, current, device, errors, cancelled, hungUp, stopped, wanted, failed>>
    BY <1>1 DEF TimePasses
  <2> QED BY <2>1, <2>2, Zenon DEF TypeOK
<1>2. CASE SendCommand
  <2>1. cmds' \in Seq(Commands)
    BY <1>2 DEF SendCommand, TypeOK
  <2>2. UNCHANGED <<current, animation, device, errors, cancelled, hungUp, stopped, wanted,
                    failed>>
    BY <1>2 DEF SendCommand
  <2> QED BY <2>1, <2>2, Zenon DEF TypeOK
<1>3. CASE ReadError
  <2>1. errors' \in Nat
    BY <1>3 DEF ReadError, TypeOK
  <2>2. UNCHANGED <<cmds, current, animation, device, cancelled, hungUp, stopped, wanted,
                    failed>>
    BY <1>3 DEF ReadError
  <2> QED BY <2>1, <2>2, Zenon DEF TypeOK
<1>4. CASE HandlerEnds
  <2>1. cancelled' \in BOOLEAN /\ hungUp' \in BOOLEAN
    BY <1>4, Zenon DEF HandlerEnds, TypeOK
  <2>2. UNCHANGED <<cmds, current, animation, device, errors, stopped, wanted, failed>>
    BY <1>4 DEF HandlerEnds
  <2> QED BY <2>1, <2>2, Zenon DEF TypeOK
<1> QED BY <1>1, <1>2, <1>3, <1>4

\* The manager's frame, animation and queues keep their types, whatever is asked of
\* it and whichever writes fail (led/mod.rs, effects.rs).
THEOREM TypeCorrect == Spec => []TypeOK
<1>1. Init => TypeOK
  <2> SUFFICES ASSUME Init PROVE TypeOK
    OBVIOUS
  <2>1. Black \in Looks /\ Black \in Asked /\ device \in Looks
    BY ConstantsAssumption DEF Init, Looks, Asked
  <2>2. cmds \in Seq(Commands) /\ errors \in Nat /\ wanted \in Asked \cup {Endless}
    BY <2>1 DEF Init
  <2>3. failed \in BOOLEAN /\ cancelled \in BOOLEAN /\ hungUp \in BOOLEAN /\ stopped \in BOOLEAN
    BY Zenon DEF Init
  <2>4. animation \in Animations /\ current \in Looks
    BY <2>1, NoAnimationType DEF Init
  <2> QED BY <2>1, <2>2, <2>3, <2>4, Zenon DEF TypeOK
<1>2. TypeOK /\ [Next]_vars => TypeOK'
  <2> SUFFICES ASSUME TypeOK, [Next]_vars PROVE TypeOK'
    OBVIOUS
  <2>1. CASE UNCHANGED vars
    BY <2>1, Zenon DEF vars, TypeOK
  <2> QED
    BY <2>1, CommandKeepsType, TickKeepsType, ExitKeepsType, OthersKeepType, Zenon
    DEF Next, Manager
<1> QED BY <1>1, <1>2, PTL DEF Spec

-------------------------------------------------------------------------------
(* The frame and the device.                                                  *)

\* However commands, ticks, failed writes and the end of run follow one another,
\* current_frame differs from the device only after a failed write, or when
\* start_animation made it black for a fade-in (led/mod.rs:105-177).
THEOREM OnlyBlackRunsAheadHolds == Spec => []OnlyBlackRunsAhead
<1>1. Init => OnlyBlackRunsAhead
  BY DEF Init, OnlyBlackRunsAhead
<1>2. TypeOK /\ OnlyBlackRunsAhead /\ [Next]_vars => OnlyBlackRunsAhead'
  <2> SUFFICES ASSUME TypeOK, OnlyBlackRunsAhead, [Next]_vars PROVE OnlyBlackRunsAhead'
    OBVIOUS
  <2>1. CASE HandleLedCommand
    <3>1. Handled /\ stopped' = stopped
      BY <2>1, CommandHandled DEF HandleLedCommand
    <3>2. ASSUME NEW p \in Asked, wanted' = p, Show(p) PROVE OnlyBlackRunsAhead'
      BY <3>2 DEF Show, WriteReported, Write, OnlyBlackRunsAhead
    <3>3. ASSUME NEW p \in Asked, wanted' = p, TryUpdateActiveFade(p)
          PROVE  OnlyBlackRunsAhead'
      BY <3>1, <3>3 DEF TryUpdateActiveFade, OnlyBlackRunsAhead
    <3>4. ASSUME NEW p \in Asked, NEW t \in Durations, wanted' = p, StartFadeIn(p, t)
          PROVE  OnlyBlackRunsAhead'
      BY <3>4 DEF StartFadeIn, OnlyBlackRunsAhead
    <3>5. ASSUME NEW t \in Durations, wanted' = Black, StartFadeOut(t)
          PROVE  OnlyBlackRunsAhead'
      BY <3>1, <3>5 DEF StartFadeOut, OnlyBlackRunsAhead
    <3>6. ASSUME NEW k \in {"Rainbow", "Breathing"}, NEW p \in Asked, wanted' = Endless,
                 StartEffect(k, p)
          PROVE  OnlyBlackRunsAhead'
      BY <3>1, <3>6 DEF StartEffect, OnlyBlackRunsAhead
    <3> QED BY <3>1, <3>2, <3>3, <3>4, <3>5, <3>6, Zenon DEF Handled
  <2>2. CASE StepAnimation
    BY <2>2 DEF StepAnimation, Write, OnlyBlackRunsAhead
  <2>3. CASE ExitLoop
    BY <2>3 DEF ExitLoop, Stop, OnlyBlackRunsAhead
  <2>4. CASE TimePasses
    BY <2>4 DEF TimePasses, OnlyBlackRunsAhead
  <2>5. CASE SendCommand
    BY <2>5 DEF SendCommand, OnlyBlackRunsAhead
  <2>6. CASE ReadError
    BY <2>6 DEF ReadError, OnlyBlackRunsAhead
  <2>7. CASE HandlerEnds
    BY <2>7 DEF HandlerEnds, OnlyBlackRunsAhead
  <2>8. CASE UNCHANGED vars
    BY <2>8 DEF vars, OnlyBlackRunsAhead
  <2> QED BY <2>1, <2>2, <2>3, <2>4, <2>5, <2>6, <2>7, <2>8 DEF Next, Manager
<1> QED BY <1>1, <1>2, TypeCorrect, PTL DEF Spec

-------------------------------------------------------------------------------
(* The promise.                                                               *)

\* A fade is on its way to the picture last asked for, retargeted or not.
FadesToGoal == animation.kind \in Fades => animation.target = wanted

\* A command keeps fades on their way to what it asked for.
LEMMA CommandKeepsGoal ==
  ASSUME TypeOK, FadesToGoal, HandleLedCommand
  PROVE  FadesToGoal'
<1>1. Handled
  BY CommandHandled
<1>2. Black \in Asked /\ Asked \subseteq Looks
  BY DEF Asked, Looks
<1>3. ASSUME NEW p \in Asked, wanted' = p, Show(p) PROVE FadesToGoal'
  BY <1>3 DEF Show, FadesToGoal, Fades, NoAnimation, Animation
<1>4. ASSUME NEW p \in Asked, wanted' = p, TryUpdateActiveFade(p) PROVE FadesToGoal'
  BY <1>4, RetargetType DEF TryUpdateActiveFade, FadesToGoal
<1>5. ASSUME NEW p \in Asked, NEW t \in Durations, wanted' = p, StartFadeIn(p, t)
      PROVE  FadesToGoal'
  BY <1>5 DEF StartFadeIn, FadesToGoal, Animation
<1>6. ASSUME NEW t \in Durations, wanted' = Black, StartFadeOut(t) PROVE FadesToGoal'
  BY <1>6 DEF StartFadeOut, FadesToGoal, Fades, NoAnimation, Animation
<1>7. ASSUME NEW k \in {"Rainbow", "Breathing"}, NEW p \in Asked, wanted' = Endless,
             StartEffect(k, p)
      PROVE  FadesToGoal'
  BY <1>7 DEF StartEffect, FadesToGoal, Fades, Animation
<1> QED BY <1>1, <1>3, <1>4, <1>5, <1>6, <1>7, Zenon DEF Handled

\* So does every other step.
LEMMA StepKeepsGoal ==
  ASSUME TypeOK, FadesToGoal, [Next]_vars
  PROVE  FadesToGoal'
<1>1. CASE HandleLedCommand
  BY <1>1, CommandKeepsGoal
<1>2. CASE StepAnimation
  BY <1>2 DEF StepAnimation, FadesToGoal, Fades, NoAnimation, Animation
<1>3. CASE ExitLoop
  BY <1>3 DEF ExitLoop, Stop, FadesToGoal, Fades, NoAnimation, Animation
<1>4. CASE TimePasses
  BY <1>4 DEF TimePasses, FadesToGoal, TypeOK, Animations
<1>5. CASE SendCommand \/ ReadError \/ HandlerEnds \/ UNCHANGED vars
  BY <1>5 DEF SendCommand, ReadError, HandlerEnds, vars, FadesToGoal
<1> QED BY <1>1, <1>2, <1>3, <1>4, <1>5 DEF Next, Manager

\* What the strip shows, and whether it moves.
Shown  == IF stopped THEN device ELSE current
Moving == animation.kind # "None"

\* A command is one of the promise's requests.
LEMMA CommandKeepsPromise ==
  ASSUME TypeOK, HandleLedCommand
  PROVE  Promise!StripNext
<1>1. Handled /\ ~stopped /\ ~stopped'
  BY CommandHandled DEF HandleLedCommand
<1>2. Black \in Looks /\ Asked \subseteq Looks
  BY DEF Asked, Looks
<1>3. Shown = current /\ Shown' = current'
  BY <1>1 DEF Shown
<1>4. ASSUME NEW p \in Asked, wanted' = p, Show(p) PROVE Promise!StripNext
  <2>1. failed' \in BOOLEAN
    BY <1>2, <1>4, WriteType DEF Show, WriteReported
  <2>2. Shown' = p /\ Moving' = FALSE /\ p \in Looks
    BY <1>2, <1>3, <1>4 DEF Show, Moving, NoAnimation, Animation
  <2>3. Promise!Show(p)
    BY <1>4, <2>1, <2>2, Zenon DEF Promise!Show, Shown, Moving
  <2>4. \E g \in Looks : Promise!Show(g)
    BY <2>2, <2>3, Zenon
  <2> QED BY <2>4, Zenon DEF Promise!StripNext
<1>5. ASSUME NEW g \in Looks \cup {Endless}, wanted' = g, failed' = failed,
             Shown' \in {Shown, Black}, Moving' = TRUE
      PROVE  Promise!StripNext
  <2>1. Promise!Begin(g)
    BY <1>5, Zenon DEF Promise!Begin, Shown, Moving
  <2>2. \E h \in Looks \cup {Endless} : Promise!Begin(h)
    BY <2>1, Zenon
  <2> QED BY <2>2, Zenon DEF Promise!StripNext
<1>6. ASSUME NEW p \in Asked, wanted' = p, TryUpdateActiveFade(p)
      PROVE  Promise!StripNext
  <2>1. animation'.kind = "In" /\ failed' = failed /\ Shown' = Shown
    BY <1>3, <1>6, RetargetType DEF TryUpdateActiveFade
  <2>2. Moving' = TRUE
    BY <2>1 DEF Moving
  <2> QED BY <1>2, <1>5, <1>6, <2>1, <2>2
<1>7. ASSUME NEW p \in Asked, NEW t \in Durations, wanted' = p, StartFadeIn(p, t)
      PROVE  Promise!StripNext
  <2>1. Moving' = TRUE /\ failed' = failed /\ Shown' = Black
    BY <1>3, <1>7 DEF StartFadeIn, Moving, Animation
  <2> QED BY <1>2, <1>5, <1>7, <2>1
<1>8. ASSUME NEW t \in Durations, wanted' = Black, StartFadeOut(t)
      PROVE  Promise!StripNext
  <2>1. failed' = failed /\ Shown' = Shown
    BY <1>3, <1>8 DEF StartFadeOut
  <2>2. CASE current = Black
    <3>1. Shown' = Black /\ Moving' = FALSE /\ failed' \in BOOLEAN
      BY <1>3, <1>8, <2>1, <2>2 DEF StartFadeOut, Moving, NoAnimation, Animation, TypeOK
    <3>2. Promise!Show(Black)
      BY <1>8, <3>1, Zenon DEF Promise!Show, Shown, Moving
    <3>3. \E g \in Looks : Promise!Show(g)
      BY <1>2, <3>2, Zenon
    <3> QED BY <3>3, Zenon DEF Promise!StripNext
  <2>3. CASE current # Black
    <3>1. Moving' = TRUE
      BY <1>8, <2>3 DEF StartFadeOut, Moving, Animation
    <3> QED BY <1>2, <1>5, <1>8, <2>1, <3>1
  <2> QED BY <2>2, <2>3
<1>9. ASSUME NEW k \in {"Rainbow", "Breathing"}, NEW p \in Asked, wanted' = Endless,
             StartEffect(k, p)
      PROVE  Promise!StripNext
  <2>1. Moving' = TRUE /\ failed' = failed /\ Shown' = Shown
    BY <1>3, <1>9 DEF StartEffect, Moving, Animation
  <2> QED BY <1>5, <1>9, <2>1
<1> QED BY <1>1, <1>4, <1>6, <1>7, <1>8, <1>9, Zenon DEF Handled

\* A tick moves the strip, settles it on the goal or is a failed write.
LEMMA TickKeepsPromise ==
  ASSUME TypeOK, FadesToGoal, StepAnimation
  PROVE  Promise!StripNext
<1>1. current' \in Looks /\ wanted' = wanted /\ ~stopped /\ ~stopped' /\ Moving
  BY RenderedType DEF StepAnimation, Moving
<1>2. Shown' = current'
  BY <1>1 DEF Shown
<1>3. failed' \in BOOLEAN
  BY <1>1, WriteType DEF StepAnimation
<1>4. CASE failed'
  <2>1. Moving' = FALSE
    BY <1>4 DEF StepAnimation, Moving, NoAnimation, Animation
  <2>2. Promise!Break
    BY <1>1, <1>2, <1>4, <2>1, Zenon DEF Promise!Break, Shown, Moving
  <2> QED BY <2>2, Zenon DEF Promise!StripNext
<1>5. CASE ~failed' /\ Finished
  <2>1. Moving' = FALSE /\ failed' = FALSE
    BY <1>3, <1>5 DEF StepAnimation, Moving, NoAnimation, Animation
  <2>2. Rendered = {animation.target} /\ animation.target = wanted
    BY <1>5 DEF Rendered, Finished, FadesToGoal, Fades
  <2>3. Shown' = wanted
    BY <1>2, <2>2 DEF StepAnimation
  <2>4. animation.target # Endless
    BY ConstantsAssumption DEF TypeOK, Animations, Asked
  <2>5. Promise!Settle
    BY <1>1, <2>1, <2>2, <2>3, <2>4, Zenon DEF Promise!Settle, Shown, Moving
  <2> QED BY <2>5, Zenon DEF Promise!StripNext
<1>6. CASE ~failed' /\ ~Finished
  <2>1. animation' = animation
    BY <1>6 DEF StepAnimation
  <2>2. Moving' = Moving /\ failed' = FALSE
    BY <1>3, <1>6, <2>1 DEF Moving
  <2>3. Promise!Move
    BY <1>1, <1>2, <2>2, Zenon DEF Promise!Move, Shown, Moving
  <2> QED BY <2>3, Zenon DEF Promise!StripNext
<1> QED BY <1>4, <1>5, <1>6

\* The end of run shows the dark, or fails to.
LEMMA ExitKeepsPromise ==
  ASSUME TypeOK, ExitLoop
  PROVE  Promise!StripNext
<1>1. Black \in Looks /\ wanted' = Black /\ Moving' = FALSE /\ Shown' = device'
  BY DEF ExitLoop, Stop, Looks, Asked, Moving, Shown, NoAnimation, Animation
<1>2. Write(Black)
  BY DEF ExitLoop, Stop
<1>3. CASE device' = Black /\ failed' = FALSE
  <2>1. Promise!Show(Black)
    BY <1>1, <1>3, Zenon DEF Promise!Show, Shown, Moving
  <2>2. \E g \in Looks : Promise!Show(g)
    BY <1>1, <2>1, Zenon
  <2> QED BY <2>2, Zenon DEF Promise!StripNext
<1>4. CASE device' = device /\ failed' = TRUE
  <2>1. device' \in Looks
    BY <1>4 DEF TypeOK
  <2>2. Promise!Break
    BY <1>1, <1>4, <2>1, Zenon DEF Promise!Break, Shown, Moving
  <2> QED BY <2>2, Zenon DEF Promise!StripNext
<1> QED BY <1>2, <1>3, <1>4 DEF Write

\* The manager implements Strip: its frame only comes to rest on the picture asked
\* for last, through every retarget, replaced fade and failed write.
THEOREM KeepsPromiseHolds == Spec => KeepsPromise
<1>1. Init => FadesToGoal
  BY DEF Init, FadesToGoal, Fades, NoAnimation, Animation
<1>2. TypeOK /\ FadesToGoal /\ [Next]_vars => FadesToGoal'
  BY StepKeepsGoal
<1>3. Init => Promise!StripInit
  BY DEF Init, NoAnimation, Animation, Promise!StripInit
<1>4. TypeOK /\ FadesToGoal /\ [Next]_vars => [Promise!StripNext]_(Promise!stripVars)
  <2> SUFFICES ASSUME TypeOK, FadesToGoal, [Next]_vars
               PROVE  Promise!StripNext \/ UNCHANGED Promise!stripVars
    OBVIOUS
  <2>1. ASSUME UNCHANGED <<wanted, current, device, stopped, failed>>, Moving' = Moving
        PROVE  UNCHANGED Promise!stripVars
    BY <2>1 DEF Promise!stripVars, Moving
  <2>2. CASE TimePasses
    <3>1. Moving' = Moving
      BY <2>2 DEF TimePasses, Moving, TypeOK, Animations
    <3> QED BY <2>1, <2>2, <3>1 DEF TimePasses
  <2>3. CASE SendCommand \/ ReadError \/ HandlerEnds \/ UNCHANGED vars
    <3>1. Moving' = Moving
      BY <2>3 DEF SendCommand, ReadError, HandlerEnds, vars, Moving
    <3> QED BY <2>1, <2>3, <3>1 DEF SendCommand, ReadError, HandlerEnds, vars
  <2> QED
    BY <2>2, <2>3, CommandKeepsPromise, TickKeepsPromise, ExitKeepsPromise
    DEF Next, Manager
<1> QED BY <1>1, <1>2, <1>3, <1>4, TypeCorrect, PTL DEF Spec, KeepsPromise, Promise!StripSpec

\* Hence a manager that neither runs an animation nor failed its last write shows
\* exactly what was asked of it.
THEOREM RestsOnGoal == Spec => []Promise!AtRest
<1>1. Promise!StripInit => Promise!AtRest
  BY DEF Promise!StripInit, Promise!AtRest
<1>2. Promise!AtRest /\ [Promise!StripNext]_(Promise!stripVars) => Promise!AtRest'
  BY DEF Promise!AtRest, Promise!StripNext, Promise!stripVars, Promise!Show, Promise!Begin,
         Promise!Move, Promise!Settle, Promise!Break
<1> QED BY <1>1, <1>2, KeepsPromiseHolds, PTL DEF KeepsPromise, Promise!StripSpec
==============================================================================
