-------------------------------- MODULE Strip --------------------------------
(***************************************************************************)
(* What the LED manager promises to whoever sends it commands: the strip   *)
(* only comes to rest on the picture last asked for, however often the     *)
(* request changes on the way there.  A failed write breaks the promise    *)
(* until a later one succeeds.                                             *)
(***************************************************************************)
CONSTANTS
  Looks,                \* what a strip can show
  Dark,                 \* how it starts
  Endless               \* the goal of an effect that never comes to rest

VARIABLES
  goal,                 \* what the last command asked for
  shown,                \* what the strip shows
  moving,               \* an animation is on its way to the goal
  broken                \* a write failed, and none has succeeded since

stripVars == <<goal, shown, moving, broken>>

StripInit ==
  goal = Dark /\ shown = Dark /\ moving = FALSE /\ broken = FALSE

\* A picture asked for is shown at once ...
Show(g) ==
  /\ goal' = g /\ shown' = g
  /\ moving' = FALSE
  /\ broken' \in BOOLEAN

\* ... or approached from where the strip is, or from the dark.
Begin(g) ==
  /\ goal' = g
  /\ moving' = TRUE
  /\ shown' \in {shown, Dark}
  /\ UNCHANGED broken

\* The animation shows its next picture.
Move ==
  /\ moving
  /\ shown' \in Looks
  /\ broken' = FALSE
  /\ UNCHANGED <<goal, moving>>

\* It arrives.
Settle ==
  /\ moving
  /\ goal # Endless
  /\ shown' = goal
  /\ moving' = FALSE /\ broken' = FALSE
  /\ UNCHANGED goal

\* A write fails, which ends an animation where it is; the last write, which is
\* to darken the strip, may fail too.
Break ==
  /\ shown' \in Looks
  /\ moving' = FALSE /\ broken' = TRUE
  /\ goal' \in {goal, Dark}

StripNext ==
  \/ \E g \in Looks : Show(g)
  \/ \E g \in Looks \cup {Endless} : Begin(g)
  \/ Move
  \/ Settle
  \/ Break

\* A strip that is neither moving nor broken shows its goal.
AtRest == ~moving /\ ~broken => shown = goal

StripSpec == StripInit /\ [][StripNext]_stripVars
==============================================================================
