----------------------------- MODULE MCBorderColors -----------------------------
(* An instance of BorderColors for TLC: two LEDs in a row, a corner between any   *)
(* two sides, two threads to a LED and one left over.                             *)
EXTENDS BorderColors

Image(w, h) == [width |-> w, height |-> h, bytes_per_pixel |-> 4]

\* A width that TOP_LEDS divides and one that it does not, the smallest image, and
\* two that cannot be read.
MCImages ==
  {Image(7, 5), Image(8, 4), Image(4, 3), Image(0, 0), [Image(7, 5) EXCEPT !.bytes_per_pixel = 2]}

MCJunk == <<0 - 1, 0 - 1>>

-------------------------------------------------------------------------------
(* The blocks at the size of real strips and screens, where TLC cannot run the    *)
(* workgroup: a LED's block lies in the image, holds its share of the side, and   *)
(* its sums fit into u32.                                                         *)

Real == INSTANCE BorderBlocks WITH SIDE_LEDS <- 47, TOP_LEDS <- 85, PADDING <- 10, DEPTH <- 500

Screens == {Image(1280, 720), Image(1920, 1080), Image(2560, 1440), Image(3440, 1440),
            Image(3840, 2160)}

ASSUME RealScreensFit ==
  \A i \in Screens : \A short_edges \in {{}, Real!Whole(i)} : \A l \in Real!Leds :
    LET b == Real!Block(i, short_edges, l)
        n == Real!Parts(Real!Axis(l))
        k == Real!Place(l)
        size == Real!Size(i, Real!Axis(l))
        corners == {<<x, y>> : x \in {b.x_min, b.x_max - 1}, y \in {b.y_min, b.y_max - 1}}
        along == {Real!Along(i, l, p) : p \in corners}
    IN /\ b.x_min \in 0 .. b.x_max - 1 /\ b.x_max <= i.width
       /\ b.y_min \in 0 .. b.y_max - 1 /\ b.y_max <= i.height
       /\ \E a \in along : a * n <= k * size
       /\ \E a \in along : (a + 1) * n >= (k + 1) * size
       /\ (b.x_max - b.x_min) * (b.y_max - b.y_min) <= 2147483647 \div 255
===============================================================================
