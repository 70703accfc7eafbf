------------------------------ MODULE BorderBlocks ------------------------------
(***************************************************************************)
(* Which pixels of the screen each LED stands for: the arithmetic of the   *)
(* border shader (daemon/shaders/border-colors/src/lib.rs), and what it    *)
(* should give, said independently.  LEDs are numbered as the strip runs:  *)
(* up the left side, along the top, down the right, back along the bottom; *)
(* rows of the image are numbered from its top.                            *)
(*                                                                         *)
(* block_height * k and block_width * k are f32: truncation gives the      *)
(* exact edge, or the pixel before it where the exact product is whole and *)
(* the quotient was rounded down.  short is the set of those edges.        *)
(***************************************************************************)
EXTENDS Integers

CONSTANTS SIDE_LEDS, TOP_LEDS, PADDING, DEPTH      \* as in shadercomm

ASSUME BlocksAssumption ==
  /\ SIDE_LEDS \in Nat \ {0} /\ TOP_LEDS \in Nat \ {0}
  /\ PADDING \in Nat \ {0} /\ DEPTH \in Nat \ {0}

Leds == 0 .. 2 * SIDE_LEDS + 2 * TOP_LEDS - 1

Parts(axis)       == IF axis = "rows" THEN SIDE_LEDS ELSE TOP_LEDS
Size(image, axis) == IF axis = "rows" THEN image.height ELSE image.width

Edge(image, short, axis, k) ==
  ((k * Size(image, axis)) \div Parts(axis)) - (IF <<axis, k>> \in short THEN 1 ELSE 0)

\* The edges that may be short in an image.
Whole(image) ==
  {edge \in {"rows", "cols"} \X (1 .. SIDE_LEDS + TOP_LEDS) :
     LET axis == edge[1]
         k == edge[2] IN
     k <= Parts(axis) /\ (k * Size(image, axis)) % Parts(axis) = 0}

From(edge)     == IF edge < PADDING THEN 0 ELSE edge - PADDING
To(edge, size) == IF edge + PADDING > size THEN size ELSE edge + PADDING

Rectangle(x_min, x_max, y_min, y_max) ==
  [x_min |-> x_min, x_max |-> x_max, y_min |-> y_min, y_max |-> y_max]

Side(led) ==
  IF led < SIDE_LEDS THEN "left"
  ELSE IF led < SIDE_LEDS + TOP_LEDS THEN "top"
  ELSE IF led < 2 * SIDE_LEDS + TOP_LEDS THEN "right" ELSE "bottom"

First == [left |-> 0, top |-> SIDE_LEDS, right |-> SIDE_LEDS + TOP_LEDS,
          bottom |-> 2 * SIDE_LEDS + TOP_LEDS]

Place(led) == led - First[Side(led)]

Block(image, short, led) ==
  LET w == image.width
      h == image.height
      k == Place(led)
      row(n) == Edge(image, short, "rows", n)
      col(n) == Edge(image, short, "cols", n) IN
  CASE Side(led) = "left"   -> Rectangle(0, DEPTH, From(h - row(k + 1)), To(h - row(k), h))
    [] Side(led) = "top"    -> Rectangle(From(col(k)), To(col(k + 1), w), 0, DEPTH)
    [] Side(led) = "right"  -> Rectangle(w - DEPTH, w, From(row(k)), To(row(k + 1), h))
    [] Side(led) = "bottom" -> Rectangle(From(w - col(k + 1)), To(w - col(k), w), h - DEPTH, h)

-------------------------------------------------------------------------------
(* The reference.                                                             *)

\* How far along the LED's side a pixel is, in the strip's direction, and how deep.
Along(image, led, p) ==
  CASE Side(led) = "left"   -> image.height - 1 - p[2]
    [] Side(led) = "top"    -> p[1]
    [] Side(led) = "right"  -> p[2]
    [] Side(led) = "bottom" -> image.width - 1 - p[1]

Deep(image, led, p) ==
  CASE Side(led) = "left"   -> p[1]
    [] Side(led) = "top"    -> p[2]
    [] Side(led) = "right"  -> image.width - 1 - p[1]
    [] Side(led) = "bottom" -> image.height - 1 - p[2]

Axis(led) == IF Side(led) \in {"left", "right"} THEN "rows" ELSE "cols"

Pixels(image) == (0 .. image.width - 1) \X (0 .. image.height - 1)

\* The pixels before a LED: those whose middle is on its share of the side.
Piece(image, led) ==
  LET n == Parts(Axis(led))
      size == Size(image, Axis(led)) IN
  {p \in Pixels(image) :
     /\ Deep(image, led, p) < DEPTH
     /\ ((2 * Along(image, led, p) + 1) * n) \div (2 * size) = Place(led)}

\* With those it may share with its neighbours: PADDING, and one for rounding.
Near(image, led) ==
  LET n == Parts(Axis(led))
      size == Size(image, Axis(led)) IN
  {p \in Pixels(image) :
     /\ Deep(image, led, p) < DEPTH
     /\ (Along(image, led, p) + PADDING + 2) * n > Place(led) * size
     /\ (Along(image, led, p) - PADDING - 1) * n < (Place(led) + 1) * size}
===============================================================================
