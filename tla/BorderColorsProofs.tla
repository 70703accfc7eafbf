--------------------------- MODULE BorderColorsProofs ---------------------------
(***************************************************************************)
(* What is proved of the border shader for every strip, workgroup and      *)
(* image: every LED is given the average of its own piece of the border.   *)
(***************************************************************************)
EXTENDS BorderColors, FiniteSetTheorems, FunctionTheorems, TLAPS

-------------------------------------------------------------------------------
(* Arithmetic.                                                                *)

\* Multiplying by a positive number keeps the order, and dividing by it.
LEMMA Times ==
  ASSUME NEW n \in Nat \ {0}, NEW a \in Int, NEW b \in Int
  PROVE  /\ a <= b <=> a * n <= b * n
         /\ a < b <=> a * n < b * n
  OBVIOUS

\* Dividing leaves a remainder.
LEMMA Remainder ==
  ASSUME NEW n \in Nat \ {0}, NEW a \in Nat
  PROVE  /\ a \div n \in Nat /\ a % n \in 0 .. n - 1
         /\ a = (a \div n) * n + (a % n)
  OBVIOUS

\* There is one quotient and one remainder.
LEMMA Quotient ==
  ASSUME NEW n \in Nat \ {0}, NEW q \in Nat, NEW r \in 0 .. n - 1
  PROVE  (q * n + r) \div n = q /\ (q * n + r) % n = r
  OBVIOUS

-------------------------------------------------------------------------------
(* Where the blocks are.                                                      *)

\* The share of LED k out of n of a side of the given size: what the reference says of
\* it, from the edges of its block.
LEMMA Shares ==
  ASSUME NEW n \in Nat \ {0}, NEW size \in Nat \ {0}, NEW k \in Nat,
         NEW e \in Nat, NEW f \in Nat,
         e * n <= k * size, k * size <= (e + 1) * n,
         f * n <= (k + 1) * size, (k + 1) * size <= (f + 1) * n
  PROVE  /\ \A c \in Nat : c * n <= size => c <= f - e + 1
         /\ \A a \in Int : a >= e - PADDING => (a + PADDING + 2) * n > k * size
         /\ \A a \in Int : a < f + PADDING => (a - PADDING - 1) * n < (k + 1) * size
         /\ \A a \in Nat : ((2 * a + 1) * n) \div (2 * size) = k => e <= a /\ a <= f
<1>1. ASSUME NEW c \in Nat, c * n <= size
      PROVE  c <= f - e + 1
  <2>1. (c + e) * n <= (f + 1) * n
    <3>1. (c + e) * n = c * n + e * n /\ (k + 1) * size = k * size + size
      OBVIOUS
    <3>2. /\ c * n \in Int /\ e * n \in Int /\ k * size \in Int /\ (f + 1) * n \in Int
          /\ (c + e) * n \in Int
      OBVIOUS
    <3>3. PICK u, v, w, z \in Int :
            u = c * n /\ v = e * n /\ w = k * size /\ z = (f + 1) * n
      BY <3>2
    <3>4. u <= size /\ v <= w /\ w + size <= z
      BY ONLY <1>1, <3>1, <3>3, e * n <= k * size, (k + 1) * size <= (f + 1) * n
    <3>5. u + v <= z
      BY <3>4
    <3> QED BY <3>1, <3>3, <3>5, Zenon
  <2>2. c + e \in Int /\ f + 1 \in Int
    OBVIOUS
  <2>3. c + e <= f + 1
    BY <2>1, <2>2, Times
  <2> QED BY <2>3
<1>2. ASSUME NEW a \in Int, a >= e - PADDING
      PROVE  (a + PADDING + 2) * n > k * size
  <2>1. e + 1 < a + PADDING + 2 /\ e + 1 \in Int /\ a + PADDING + 2 \in Int
    BY <1>2, BlocksAssumption
  <2>2. (e + 1) * n < (a + PADDING + 2) * n
    BY <2>1, Times
  <2>3. (e + 1) * n \in Int /\ (a + PADDING + 2) * n \in Int /\ k * size \in Int
    BY <2>1
  <2> QED BY <2>2, <2>3
<1>3. ASSUME NEW a \in Int, a < f + PADDING
      PROVE  (a - PADDING - 1) * n < (k + 1) * size
  <2>1. a - PADDING - 1 < f /\ a - PADDING - 1 \in Int
    BY <1>3, BlocksAssumption
  <2>2. (a - PADDING - 1) * n < f * n
    BY <2>1, Times
  <2>3. (a - PADDING - 1) * n \in Int /\ f * n \in Int /\ (k + 1) * size \in Int
    BY <2>1
  <2> QED BY <2>2, <2>3
<1>4. ASSUME NEW a \in Nat, ((2 * a + 1) * n) \div (2 * size) = k
      PROVE  e <= a /\ a <= f
  <2>1. (2 * a + 1) * n \in Nat /\ 2 * size \in Nat \ {0}
    OBVIOUS
  <2>2. /\ k * (2 * size) <= (2 * a + 1) * n
        /\ (2 * a + 1) * n < (k + 1) * (2 * size)
    <3>1. PICK r \in 0 .. 2 * size - 1 : (2 * a + 1) * n = k * (2 * size) + r
      BY <1>4, <2>1, Remainder
    <3> QED BY <3>1
  <2>3. (2 * e) * n <= (2 * a + 1) * n /\ (2 * a + 1) * n < (2 * f + 2) * n
    BY <2>2
  <2>4. 2 * e <= 2 * a + 1 /\ 2 * a + 1 < 2 * f + 2
    BY <2>3, Times
  <2> QED BY <2>4
<1> QED BY <1>1, <1>2, <1>3, <1>4

\* A block widened by PADDING and cut at the ends of the side, counted from either end.
LEMMA Bands ==
  ASSUME NEW size \in Nat \ {0}, NEW e \in 0 .. size, NEW f \in 0 .. size,
         NEW c \in Nat, c <= size, c <= f - e + 1
  PROVE  /\ From(e) \in Nat /\ To(f, size) \in 0 .. size /\ To(f, size) - From(e) >= c
         /\ From(size - f) \in Nat /\ To(size - e, size) \in 0 .. size
         /\ To(size - e, size) - From(size - f) >= c
         /\ \A y \in Int : y \in From(size - f) .. To(size - e, size) - 1
                             <=> size - 1 - y \in From(e) .. To(f, size) - 1
         /\ \A a \in Int : a \in From(e) .. To(f, size) - 1
                             <=> a \in 0 .. size - 1 /\ a >= e - PADDING /\ a < f + PADDING
  BY BlocksAssumption DEF From, To

\* The edges of the blocks of a side: truncation, and rounding down before it.
LEMMA Edges ==
  ASSUME NEW i, i.width \in Nat \ {0}, i.height \in Nat \ {0}, NEW s \in SUBSET Whole(i),
         NEW axis \in {"rows", "cols"}, NEW k \in 0 .. Parts(axis)
  PROVE  /\ Edge(i, s, axis, k) \in 0 .. Size(i, axis)
         /\ Edge(i, s, axis, k) * Parts(axis) <= k * Size(i, axis)
         /\ k * Size(i, axis) <= (Edge(i, s, axis, k) + 1) * Parts(axis)
<1> DEFINE n == Parts(axis)
           size == Size(i, axis)
           q == (k * size) \div n
<1>1. n \in Nat \ {0} /\ size \in Nat \ {0} /\ k \in 0 .. n
  BY BlocksAssumption DEF Parts, Size
<1>2. Edge(i, s, axis, k) = q - (IF <<axis, k>> \in s THEN 1 ELSE 0)
  BY DEF Edge
<1>3. <<axis, k>> \in s => k >= 1 /\ (k * size) % n = 0
  BY DEF Whole
<1> HIDE DEF n, size
<1>4. k * size \in Nat /\ k * size <= n * size
  BY <1>1
<1>5. q \in Nat /\ (k * size) % n \in 0 .. n - 1 /\ k * size = q * n + ((k * size) % n)
  BY <1>1, <1>4, Remainder
<1>6. q <= size
  <2>1. q * n <= size * n
    BY <1>1, <1>4, <1>5
  <2> QED BY <1>1, <1>5, <2>1, Times
<1> HIDE DEF q
<1>7. q * n <= k * size /\ k * size <= (q + 1) * n
  BY <1>1, <1>5
<1>8. CASE <<axis, k>> \notin s
  BY <1>1, <1>2, <1>5, <1>6, <1>7, <1>8 DEF n, size
<1>9. CASE <<axis, k>> \in s
  <2>1. k * size = q * n /\ k >= 1
    BY <1>1, <1>3, <1>5, <1>9
  <2>2. q >= 1
    <3>1. k * size >= 1
      BY <1>1, <2>1
    <3>2. q # 0
      BY <1>1, <2>1, <3>1
    <3> QED BY <1>5, <3>2
  <2>3. (q - 1) * n <= k * size /\ k * size <= (q - 1 + 1) * n
    BY <1>1, <1>5, <2>1, <2>2
  <2> QED BY <1>1, <1>2, <1>5, <1>6, <1>9, <2>2, <2>3 DEF n, size
<1> QED BY <1>8, <1>9

\* The LEDs of the strip, and its threads: each LED has some, and there are enough.
LEMMA Groups ==
  /\ IsFiniteSet(Leds) /\ Cardinality(Leds) = 2 * SIDE_LEDS + 2 * TOP_LEDS
  /\ Cardinality(Leds) \in Nat \ {0}
  /\ threads_per_led \in Nat \ {0}
  /\ Cardinality(Leds) * threads_per_led <= Threads
<1>1. PICK m : m = 2 * SIDE_LEDS + 2 * TOP_LEDS - 1
  OBVIOUS
<1>2. m \in Nat /\ m + 1 = 2 * SIDE_LEDS + 2 * TOP_LEDS /\ m + 1 \in Nat \ {0}
  BY <1>1, BlocksAssumption
<1>a. IsFiniteSet(Leds) /\ Cardinality(Leds) = m + 1
  <2>1. Leds = 0 .. m
    BY <1>1, Zenon DEF Leds
  <2>2. /\ IsFiniteSet(0 .. m)
        /\ Cardinality(0 .. m) = IF 0 > m THEN 0 ELSE m - 0 + 1
    BY ONLY <1>2, FS_Interval, SMTT(30)
  <2>3. (IF 0 > m THEN 0 ELSE m - 0 + 1) = m + 1
    BY <1>2
  <2> QED BY <2>1, <2>2, <2>3, Zenon
<1> DEFINE n == Cardinality(Leds)
<1>3. n \in Nat \ {0} /\ Threads \in Nat /\ Threads >= n
  BY <1>2, <1>a, ShaderAssumption
<1> HIDE DEF n
<1>4. PICK q : q = threads_per_led
  OBVIOUS
<1>5. q \in Nat /\ Threads = q * n + (Threads % n) /\ Threads % n \in 0 .. n - 1
  BY <1>3, <1>4, Remainder DEF threads_per_led, n
<1>6. q # 0
  <2>1. 0 * n = 0
    BY <1>3
  <2> QED BY <1>3, <1>5, <2>1
<1>7. n * q <= Threads
  BY <1>3, <1>5
<1> QED BY <1>2, <1>a, <1>3, <1>4, <1>5, <1>6, <1>7 DEF n

\* Where on the strip a LED is.
LEMMA Places ==
  ASSUME NEW l \in Leds
  PROVE  /\ Side(l) \in {"left", "top", "right", "bottom"}
         /\ Axis(l) \in {"rows", "cols"}
         /\ Parts(Axis(l)) \in Nat \ {0}
         /\ Place(l) \in 0 .. Parts(Axis(l)) - 1
<1> USE BlocksAssumption DEF Leds
<1>1. CASE l < SIDE_LEDS
  BY <1>1 DEF Side, Axis, Parts, Place, First
<1>2. CASE ~(l < SIDE_LEDS) /\ l < SIDE_LEDS + TOP_LEDS
  BY <1>2 DEF Side, Axis, Parts, Place, First
<1>3. CASE ~(l < SIDE_LEDS + TOP_LEDS) /\ l < 2 * SIDE_LEDS + TOP_LEDS
  BY <1>3 DEF Side, Axis, Parts, Place, First
<1>4. CASE ~(l < 2 * SIDE_LEDS + TOP_LEDS)
  BY <1>4 DEF Side, Axis, Parts, Place, First
<1> QED BY <1>1, <1>2, <1>3, <1>4

\* An image that can be read.
LEMMA Readable ==
  ASSUME NEW i \in Images, ~Empty(i)
  PROVE  /\ i.width \in Nat \ {0} /\ i.height \in Nat \ {0}
         /\ DEPTH <= i.width /\ DEPTH <= i.height
         /\ TOP_LEDS * threads_per_led <= i.width
         /\ DEPTH \in Nat \ {0} /\ threads_per_led <= DEPTH
  BY ShaderAssumption, BlocksAssumption DEF Empty

\* A pixel of a rectangle, and one that is before a stretch of a LED's side.
Inside(b, x, y) == x \in b.x_min .. b.x_max - 1 /\ y \in b.y_min .. b.y_max - 1

Before(i, l, low, high, x, y) ==
  /\ <<x, y>> \in Pixels(i) /\ Deep(i, l, <<x, y>>) < DEPTH
  /\ Along(i, l, <<x, y>>) >= low /\ Along(i, l, <<x, y>>) < high

\* The block of a LED in the image: as deep as DEPTH, along the side from PADDING before
\* its first edge to PADDING behind its second, and wide enough for its threads.
LEMMA BlockPixels ==
  ASSUME NEW i \in Images, ~Empty(i), NEW s \in SUBSET Whole(i), NEW l \in Leds,
         NEW b, b = Block(i, s, l),
         NEW e, e = Edge(i, s, Axis(l), Place(l)),
         NEW f, f = Edge(i, s, Axis(l), Place(l) + 1)
  PROVE  /\ b.x_min \in Nat /\ b.x_max \in Nat /\ b.x_max - b.x_min >= threads_per_led
         /\ b.y_min \in Nat /\ b.y_max \in Nat /\ b.y_max >= b.y_min
         /\ \A x, y \in Int : Inside(b, x, y) <=> Before(i, l, e - PADDING, f + PADDING, x, y)
<1> DEFINE n == Parts(Axis(l))
           size == Size(i, Axis(l))
           k == Place(l)
<1>1. /\ n \in Nat \ {0} /\ size \in Nat \ {0} /\ k \in 0 .. n - 1
      /\ Axis(l) \in {"rows", "cols"}
  BY Places, Readable DEF Size
<1>2. k \in 0 .. n /\ k + 1 \in 0 .. n /\ k \in Nat
  BY <1>1
<1>3. /\ e \in 0 .. size /\ e * n <= k * size /\ k * size <= (e + 1) * n
      /\ f \in 0 .. size /\ f * n <= (k + 1) * size /\ (k + 1) * size <= (f + 1) * n
  <2>1. i.width \in Nat \ {0} /\ i.height \in Nat \ {0}
    BY Readable
  <2> QED BY <1>1, <1>2, <2>1, Edges, Zenon
<1> DEFINE c == IF Axis(l) = "cols" THEN threads_per_led ELSE 0
<1>4. c \in Nat /\ c * n <= size
  <2>1. CASE Axis(l) = "cols"
    BY <2>1, Readable, Groups, BlocksAssumption DEF Size, Parts
  <2>2. CASE Axis(l) # "cols"
    BY <1>1, <2>2
  <2> QED BY <2>1, <2>2
<1>5. c <= size
  BY <1>1, <1>4
<1> HIDE DEF n, size, k, c
<1>6. c <= f - e + 1
  <2>1. e \in Nat /\ f \in Nat
    BY <1>1, <1>3
  <2>2. \A d \in Nat : d * n <= size => d <= f - e + 1
    BY ONLY <1>1, <1>2, <1>3, <2>1, Shares, Zenon
  <2> QED BY <1>4, <2>2, Zenon
<1>7. /\ From(e) \in Nat /\ To(f, size) \in 0 .. size /\ To(f, size) - From(e) >= c
      /\ From(size - f) \in Nat /\ To(size - e, size) \in 0 .. size
      /\ To(size - e, size) - From(size - f) >= c
      /\ \A y \in Int : y \in From(size - f) .. To(size - e, size) - 1
                          <=> size - 1 - y \in From(e) .. To(f, size) - 1
      /\ \A a \in Int : a \in From(e) .. To(f, size) - 1
                          <=> a \in 0 .. size - 1 /\ a >= e - PADDING /\ a < f + PADDING
  BY ONLY <1>1, <1>3, <1>4, <1>5, <1>6, Bands, Zenon
<1> DEFINE low == From(e)
           high == To(f, size)
           back == From(size - f)
           front == To(size - e, size)
<1>8. /\ low \in Nat /\ high \in Nat /\ back \in Nat /\ front \in Nat
      /\ high - low >= c /\ front - back >= c /\ c \in Nat
      /\ \A y \in Int : y \in back .. front - 1
           <=> size - 1 - y \in 0 .. size - 1 /\ size - 1 - y >= e - PADDING /\ size - 1 - y < f + PADDING
      /\ \A y \in Int : y \in low .. high - 1
           <=> y \in 0 .. size - 1 /\ y >= e - PADDING /\ y < f + PADDING
  BY <1>1, <1>4, <1>7
<1>9. /\ i.width \in Nat \ {0} /\ i.height \in Nat \ {0} /\ DEPTH <= i.width /\ DEPTH <= i.height
      /\ DEPTH \in Nat \ {0} /\ threads_per_led <= DEPTH /\ threads_per_led \in Nat
  BY Readable, Groups
<1>10. CASE Side(l) = "left"
  <2>1. Axis(l) = "rows" /\ size = i.height
    BY <1>10 DEF Axis, size, Size
  <2>2. e = Edge(i, s, "rows", Place(l)) /\ f = Edge(i, s, "rows", Place(l) + 1)
    BY <2>1, Zenon
  <2>3. b = Rectangle(0, DEPTH, back, front)
    BY <1>10, <2>1, <2>2, Zenon DEF Block
  <2> HIDE DEF low, high, back, front
  <2>4. /\ b.x_min = 0 /\ b.x_max = DEPTH
        /\ b.y_min = back /\ b.y_max = front
    BY <2>3 DEF Rectangle
  <2>5. ASSUME NEW x \in Int, NEW y \in Int
        PROVE  /\ <<x, y>> \in Pixels(i) <=> x \in 0 .. i.width - 1 /\ y \in 0 .. i.height - 1
               /\ Deep(i, l, <<x, y>>) = x
               /\ Along(i, l, <<x, y>>) = i.height - 1 - y
    BY <1>10 DEF Pixels, Deep, Along
  <2>6. b.x_max - b.x_min >= threads_per_led /\ b.y_max >= b.y_min
    BY <1>8, <1>9, <2>1, <2>4 DEF c
  <2>7. ASSUME NEW x \in Int, NEW y \in Int
        PROVE  Inside(b, x, y) <=> Before(i, l, e - PADDING, f + PADDING, x, y)
    <3>1. /\ y \in back .. front - 1
               <=> size - 1 - y \in 0 .. size - 1 /\ size - 1 - y >= e - PADDING
                   /\ size - 1 - y < f + PADDING
          /\ back \in Nat /\ front \in Nat
      BY <1>8, <2>7, Zenon
    <3> QED BY <1>9, <2>1, <2>4, <2>5, <3>1 DEF Inside, Before
  <2> QED BY <1>8, <1>9, <2>4, <2>6, <2>7
<1>11. CASE Side(l) = "top"
  <2>1. Axis(l) = "cols" /\ size = i.width
    BY <1>11 DEF Axis, size, Size
  <2>2. e = Edge(i, s, "cols", Place(l)) /\ f = Edge(i, s, "cols", Place(l) + 1)
    BY <2>1, Zenon
  <2>3. b = Rectangle(low, high, 0, DEPTH)
    BY <1>11, <2>1, <2>2, Zenon DEF Block
  <2> HIDE DEF low, high, back, front
  <2>4. /\ b.x_min = low /\ b.x_max = high
        /\ b.y_min = 0 /\ b.y_max = DEPTH
    BY <2>3 DEF Rectangle
  <2>5. ASSUME NEW x \in Int, NEW y \in Int
        PROVE  /\ <<x, y>> \in Pixels(i) <=> x \in 0 .. i.width - 1 /\ y \in 0 .. i.height - 1
               /\ Deep(i, l, <<x, y>>) = y
               /\ Along(i, l, <<x, y>>) = x
    BY <1>11 DEF Pixels, Deep, Along
  <2>6. b.x_max - b.x_min >= threads_per_led /\ b.y_max >= b.y_min
    BY <1>8, <1>9, <2>1, <2>4 DEF c
  <2>7. ASSUME NEW x \in Int, NEW y \in Int
        PROVE  Inside(b, x, y) <=> Before(i, l, e - PADDING, f + PADDING, x, y)
    BY <1>8, <1>9, <2>1, <2>4, <2>5 DEF Inside, Before
  <2> QED BY <1>8, <1>9, <2>4, <2>6, <2>7
<1>12. CASE Side(l) = "right"
  <2>1. Axis(l) = "rows" /\ size = i.height
    BY <1>12 DEF Axis, size, Size
  <2>2. e = Edge(i, s, "rows", Place(l)) /\ f = Edge(i, s, "rows", Place(l) + 1)
    BY <2>1, Zenon
  <2>3. b = Rectangle(i.width - DEPTH, i.width, low, high)
    BY <1>12, <2>1, <2>2, Zenon DEF Block
  <2> HIDE DEF low, high, back, front
  <2>4. /\ b.x_min = i.width - DEPTH /\ b.x_max = i.width
        /\ b.y_min = low /\ b.y_max = high
    BY <2>3 DEF Rectangle
  <2>5. ASSUME NEW x \in Int, NEW y \in Int
        PROVE  /\ <<x, y>> \in Pixels(i) <=> x \in 0 .. i.width - 1 /\ y \in 0 .. i.height - 1
               /\ Deep(i, l, <<x, y>>) = i.width - 1 - x
               /\ Along(i, l, <<x, y>>) = y
    BY <1>12 DEF Pixels, Deep, Along
  <2>6. b.x_max - b.x_min >= threads_per_led /\ b.y_max >= b.y_min
    BY <1>8, <1>9, <2>1, <2>4 DEF c
  <2>7. ASSUME NEW x \in Int, NEW y \in Int
        PROVE  Inside(b, x, y) <=> Before(i, l, e - PADDING, f + PADDING, x, y)
    BY <1>8, <1>9, <2>1, <2>4, <2>5 DEF Inside, Before
  <2> QED BY <1>8, <1>9, <2>4, <2>6, <2>7
<1>13. CASE Side(l) = "bottom"
  <2>1. Axis(l) = "cols" /\ size = i.width
    BY <1>13 DEF Axis, size, Size
  <2>2. e = Edge(i, s, "cols", Place(l)) /\ f = Edge(i, s, "cols", Place(l) + 1)
    BY <2>1, Zenon
  <2>3. b = Rectangle(back, front, i.height - DEPTH, i.height)
    BY <1>13, <2>1, <2>2, Zenon DEF Block
  <2> HIDE DEF low, high, back, front
  <2>4. /\ b.x_min = back /\ b.x_max = front
        /\ b.y_min = i.height - DEPTH /\ b.y_max = i.height
    BY <2>3 DEF Rectangle
  <2>5. ASSUME NEW x \in Int, NEW y \in Int
        PROVE  /\ <<x, y>> \in Pixels(i) <=> x \in 0 .. i.width - 1 /\ y \in 0 .. i.height - 1
               /\ Deep(i, l, <<x, y>>) = i.height - 1 - y
               /\ Along(i, l, <<x, y>>) = i.width - 1 - x
    BY <1>13 DEF Pixels, Deep, Along
  <2>6. b.x_max - b.x_min >= threads_per_led /\ b.y_max >= b.y_min
    BY <1>8, <1>9, <2>1, <2>4 DEF c
  <2>7. ASSUME NEW x \in Int, NEW y \in Int
        PROVE  Inside(b, x, y) <=> Before(i, l, e - PADDING, f + PADDING, x, y)
    BY <1>8, <1>9, <2>1, <2>4, <2>5 DEF Inside, Before
  <2> QED BY <1>8, <1>9, <2>4, <2>6, <2>7
<1> QED BY <1>10, <1>11, <1>12, <1>13, Places

\* How far along its side a pixel is.
LEMMA AlongType ==
  ASSUME NEW i, i.width \in Nat \ {0}, i.height \in Nat \ {0}, NEW l \in Leds,
         NEW x \in Int, NEW y \in Int, <<x, y>> \in Pixels(i)
  PROVE  Along(i, l, <<x, y>>) \in Nat
<1>1. x \in 0 .. i.width - 1 /\ y \in 0 .. i.height - 1
  BY DEF Pixels
<1>2. CASE Side(l) = "left"
  BY <1>1, <1>2 DEF Along
<1>3. CASE Side(l) = "top"
  BY <1>1, <1>3 DEF Along
<1>4. CASE Side(l) = "right"
  BY <1>1, <1>4 DEF Along
<1>5. CASE Side(l) = "bottom"
  BY <1>1, <1>5 DEF Along
<1> QED BY <1>2, <1>3, <1>4, <1>5, Places

\* The block of a LED lies in what is near its piece, and holds its piece.
LEMMA BlockHoldsPiece ==
  ASSUME NEW i \in Images, ~Empty(i), NEW s \in SUBSET Whole(i), NEW l \in Leds,
         NEW b, b = Block(i, s, l), NEW x \in Int, NEW y \in Int
  PROVE  /\ Inside(b, x, y) => <<x, y>> \in Near(i, l)
         /\ <<x, y>> \in Piece(i, l) => Inside(b, x, y)
<1> DEFINE n == Parts(Axis(l))
           size == Size(i, Axis(l))
           k == Place(l)
           a == Along(i, l, <<x, y>>)
           in == Inside(b, x, y)
           deep == <<x, y>> \in Pixels(i) /\ Deep(i, l, <<x, y>>) < DEPTH
<1>0. i.width \in Nat \ {0} /\ i.height \in Nat \ {0}
  BY Readable
<1>1. /\ n \in Nat \ {0} /\ size \in Nat \ {0} /\ k \in 0 .. n - 1
      /\ Axis(l) \in {"rows", "cols"}
  BY <1>0, Places DEF Size
<1>2. PICK e, f : e = Edge(i, s, Axis(l), k) /\ f = Edge(i, s, Axis(l), k + 1)
  OBVIOUS
<1>3. k \in 0 .. n /\ k + 1 \in 0 .. n /\ k \in Nat
  BY <1>1
<1>4. /\ e \in 0 .. size /\ e * n <= k * size /\ k * size <= (e + 1) * n
      /\ f \in 0 .. size /\ f * n <= (k + 1) * size /\ (k + 1) * size <= (f + 1) * n
  BY <1>0, <1>1, <1>2, <1>3, Edges, Zenon
<1>5. in <=> deep /\ a >= e - PADDING /\ a < f + PADDING
  <2>1. e = Edge(i, s, Axis(l), Place(l)) /\ f = Edge(i, s, Axis(l), Place(l) + 1)
    BY <1>2
  <2>2. Inside(b, x, y) <=> Before(i, l, e - PADDING, f + PADDING, x, y)
    BY ONLY <2>1, b = Block(i, s, l), ~Empty(i), BlockPixels, SMTT(30)
  <2> QED BY <2>2, Zenon DEF Before
<1>6. deep => a \in Nat
  BY <1>0, AlongType, Zenon
<1>7. <<x, y>> \in Near(i, l) <=>
        deep /\ (a + PADDING + 2) * n > k * size /\ (a - PADDING - 1) * n < (k + 1) * size
  BY Zenon DEF Near
<1>8. <<x, y>> \in Piece(i, l) <=> deep /\ ((2 * a + 1) * n) \div (2 * size) = k
  BY Zenon DEF Piece
<1> HIDE DEF n, size, k, a, in, deep
<1>9. e \in Nat /\ f \in Nat
  BY <1>1, <1>4
<1>10. /\ \A d \in Int : d >= e - PADDING => (d + PADDING + 2) * n > k * size
       /\ \A d \in Int : d < f + PADDING => (d - PADDING - 1) * n < (k + 1) * size
       /\ \A d \in Nat : ((2 * d + 1) * n) \div (2 * size) = k => e <= d /\ d <= f
  BY ONLY <1>1, <1>3, <1>4, <1>9, Shares, Zenon
<1>11. in => <<x, y>> \in Near(i, l)
  <2> SUFFICES ASSUME in
               PROVE  <<x, y>> \in Near(i, l)
    OBVIOUS
  <2>1. deep /\ a >= e - PADDING /\ a < f + PADDING /\ a \in Int
    BY <1>5, <1>6
  <2> QED BY <1>7, <1>10, <2>1, Zenon
<1>12. <<x, y>> \in Piece(i, l) => in
  <2> SUFFICES ASSUME <<x, y>> \in Piece(i, l)
               PROVE  in
    OBVIOUS
  <2>1. deep /\ a \in Nat /\ e <= a /\ a <= f
    BY <1>6, <1>8, <1>10, Zenon
  <2>2. a >= e - PADDING /\ a < f + PADDING
    BY <1>9, <2>1, BlocksAssumption
  <2> QED BY <1>5, <2>1, <2>2
<1> QED BY <1>11, <1>12 DEF in

-------------------------------------------------------------------------------
(* The walk through a block, row by row.                                      *)

\* Step j of the walk through a block of the given width and height.
LEMMA Steps ==
  ASSUME NEW w \in Nat \ {0}, NEW h \in Nat
  PROVE  /\ \A j \in 0 .. w * h - 1 : j % w \in 0 .. w - 1 /\ j \div w \in 0 .. h - 1
                                      /\ j = (j \div w) * w + (j % w)
         /\ \A x \in 0 .. w - 1, y \in 0 .. h - 1 :
              y * w + x \in 0 .. w * h - 1 /\ (y * w + x) % w = x /\ (y * w + x) \div w = y
<1>1. ASSUME NEW j \in 0 .. w * h - 1
      PROVE  j % w \in 0 .. w - 1 /\ j \div w \in 0 .. h - 1 /\ j = (j \div w) * w + (j % w)
  <2>1. j \in Nat /\ w * h \in Nat /\ j < h * w
    BY <1>1
  <2>2. PICK q, r : q = j \div w /\ r = j % w
    OBVIOUS
  <2>3. q \in Nat /\ r \in 0 .. w - 1 /\ j = q * w + r
    BY <2>1, <2>2, Remainder
  <2>4. q * w < h * w
    BY <2>1, <2>3
  <2>5. q < h
    BY <2>3, <2>4, Times
  <2> QED BY <2>2, <2>3, <2>5
<1>2. ASSUME NEW x \in 0 .. w - 1, NEW y \in 0 .. h - 1
      PROVE  y * w + x \in 0 .. w * h - 1 /\ (y * w + x) % w = x /\ (y * w + x) \div w = y
  <2>1. (y + 1) * w <= h * w
    <3>1. y + 1 \in Int /\ h \in Int /\ y + 1 <= h
      BY <1>2
    <3> QED BY <3>1, Times
  <2>2. y \in Nat /\ y * w \in Nat /\ (y + 1) * w = y * w + w /\ h * w = w * h /\ w * h \in Nat
    BY <1>2
  <2>3. y * w + x \in 0 .. w * h - 1
    BY <2>1, <2>2
  <2> QED BY <2>2, <2>3, Quotient
<1> QED BY <1>1, <1>2

\* Of the m steps before and behind any step there is one whose remainder by 2 * m is
\* less than m, in the same row or, in a block of m columns, in the row before.
LEMMA NextMeasured ==
  ASSUME NEW m \in Nat \ {0}, NEW w \in Nat \ {0}, w >= m, NEW h \in Nat,
         NEW j \in 0 .. w * h - 1
  PROVE  \E q \in 0 .. w * h - 1 :
           /\ q % (2 * m) \in 0 .. m - 1
           /\ Distance(j % w, q % w) <= m
           /\ Distance(j \div w, q \div w) <= 1
<1>1. PICK x, y : x = j % w /\ y = j \div w
  OBVIOUS
<1>2. x \in 0 .. w - 1 /\ y \in 0 .. h - 1 /\ j = y * w + x
  BY ONLY <1>1, Steps, j \in 0 .. w * h - 1, Zenon
<1>3. PICK n : n = 2 * m
  OBVIOUS
<1>4. n \in Nat \ {0} /\ m <= n - 1 /\ n - m = m
  BY <1>3
<1>5. PICK k, r : k = j \div n /\ r = j % n
  OBVIOUS
<1>a. j \in Nat
  <2>1. w * h \in Nat
    OBVIOUS
  <2> QED BY <2>1
<1>6. k \in Nat /\ r \in 0 .. n - 1 /\ j = k * n + r
  BY ONLY <1>a, <1>4, <1>5, Remainder
<1>b. PICK v, u : v = y * w /\ u = k * n
  OBVIOUS
<1>c. /\ v \in Nat /\ u \in Nat /\ j = v + x /\ j = u + r
      /\ (y = 0 => v = 0) /\ (y - 1) * w = v - w /\ (k + 1) * n = u + n
  <2>1. y \in Nat /\ k \in Nat
    BY <1>2, <1>6
  <2>2. v \in Nat /\ u \in Nat /\ (y = 0 => v = 0)
    BY <1>b, <1>4, <2>1
  <2>3. (y - 1) * w = y * w - w /\ (k + 1) * n = k * n + n
    BY <1>4, <2>1
  <2> QED BY <1>2, <1>6, <1>b, <2>2, <2>3, Zenon
<1>e. \A c \in 0 .. w - 1, d \in 0 .. h - 1 :
        d * w + c \in 0 .. w * h - 1 /\ (d * w + c) % w = c /\ (d * w + c) \div w = d
  BY ONLY Steps, w \in Nat \ {0}, h \in Nat, Zenon
\* Enough: a step q at column c of row d.
<1>d. ASSUME NEW q \in 0 .. w * h - 1, NEW c \in Int, NEW d \in Int, q % w = c, q \div w = d,
             q % n \in 0 .. m - 1, x - c <= m, c - x <= m, y - d <= 1, d - y <= 1
      PROVE  \E p \in 0 .. w * h - 1 :
               /\ p % (2 * m) \in 0 .. m - 1
               /\ Distance(j % w, p % w) <= m
               /\ Distance(j \div w, p \div w) <= 1
  <2>1. Distance(x, c) <= m /\ Distance(y, d) <= 1
    BY ONLY <1>2, <1>d, x - c <= m, c - x <= m, y - d <= 1, d - y <= 1 DEF Distance
  <2>2. Distance(j % w, q % w) <= m /\ Distance(j \div w, q \div w) <= 1
    BY ONLY <1>1, <1>d, <2>1, Zenon
  <2>3. q % (2 * m) \in 0 .. m - 1
    BY ONLY <1>3, <1>d, Zenon
  <2> QED BY <1>d, <2>2, <2>3, Zenon
<1>7. CASE r < m
  <2>1. j % n \in 0 .. m - 1
    BY ONLY <1>5, <1>6, <1>7, m \in Nat \ {0}
  <2>2. x \in Int /\ y \in Int /\ x - x <= m /\ y - y <= 1
    BY ONLY <1>2, m \in Nat \ {0}
  <2> QED BY <1>1, <1>d, <2>1, <2>2, Zenon
<1>8. CASE r >= m
  <2>1. PICK back, ahead : back = r - m + 1 /\ ahead = n - r
    OBVIOUS
  <2>3. back \in 1 .. m /\ ahead \in 1 .. m /\ back + ahead = m + 1
    BY ONLY <1>4, <1>6, <1>8, <2>1, m \in Nat \ {0}
  <2>p. PICK p, f : p = j - back /\ f = j + ahead
    OBVIOUS
  <2>4. p \in Nat /\ p % n \in 0 .. m - 1
    <3>1. m - 1 \in 0 .. n - 1 /\ p = u + (m - 1)
      BY ONLY <1>4, <1>6, <1>c, <2>1, <2>p, m \in Nat \ {0}
    <3>2. p % n = m - 1
      BY ONLY <1>4, <1>6, <1>b, <3>1, Quotient, Zenon
    <3> QED BY ONLY <1>c, <3>1, <3>2, m \in Nat \ {0}
  <2>5. f % n \in 0 .. m - 1
    <3>1. f = (u + n) + 0 /\ k + 1 \in Nat /\ 0 \in 0 .. n - 1
      BY ONLY <1>4, <1>6, <1>c, <2>1, <2>p
    <3>2. f % n = 0
      <4>1. f = (k + 1) * n + 0
        BY ONLY <1>c, <3>1, Zenon
      <4>2. ((k + 1) * n + 0) % n = 0
        BY ONLY <1>4, <3>1, Quotient, Zenon
      <4> QED BY ONLY <4>1, <4>2, Zenon
    <3> QED BY ONLY <3>2, m \in Nat \ {0}
  <2>6. CASE x >= back
    <3>1. x - back \in 0 .. w - 1 /\ p = v + (x - back)
      BY ONLY <1>2, <1>c, <2>3, <2>6, <2>p
    <3>0. p = y * w + (x - back)
      BY ONLY <1>b, <3>1, Zenon
    <3>2. p \in 0 .. w * h - 1 /\ p % w = x - back /\ p \div w = y
      <4>1. /\ y * w + (x - back) \in 0 .. w * h - 1
            /\ (y * w + (x - back)) % w = x - back /\ (y * w + (x - back)) \div w = y
        BY ONLY <1>e, <1>2, <3>1, Zenon
      <4> QED BY ONLY <3>0, <4>1, Zenon
    <3>3. /\ x - back \in Int /\ y \in Int /\ x - (x - back) <= m /\ (x - back) - x <= m
          /\ y - y <= 1
      BY ONLY <1>2, <2>3, m \in Nat \ {0}
    <3> QED BY <1>d, <2>4, <3>2, <3>3, Zenon
  <2>7. CASE x + ahead < w
    <3>1. x + ahead \in 0 .. w - 1 /\ f = v + (x + ahead)
      BY ONLY <1>2, <1>c, <2>3, <2>7, <2>p
    <3>0. f = y * w + (x + ahead)
      BY ONLY <1>b, <3>1, Zenon
    <3>2. f \in 0 .. w * h - 1 /\ f % w = x + ahead /\ f \div w = y
      <4>1. /\ y * w + (x + ahead) \in 0 .. w * h - 1
            /\ (y * w + (x + ahead)) % w = x + ahead /\ (y * w + (x + ahead)) \div w = y
        BY ONLY <1>e, <1>2, <3>1, Zenon
      <4> QED BY ONLY <3>0, <4>1, Zenon
    <3>3. /\ x + ahead \in Int /\ y \in Int /\ x - (x + ahead) <= m /\ (x + ahead) - x <= m
          /\ y - y <= 1
      BY ONLY <1>2, <2>3, m \in Nat \ {0}
    <3> QED BY <1>d, <2>5, <3>2, <3>3, Zenon
  <2>8. CASE ~(x >= back) /\ ~(x + ahead < w)
    <3>1. /\ w = m /\ x + w - back \in 0 .. w - 1 /\ y \in Nat
      BY ONLY <1>2, <2>3, <2>8, w >= m, w \in Nat \ {0}, m \in Nat \ {0}
    <3>2. y # 0
      BY ONLY <1>2, <1>c, <2>3, <2>4, <2>8, <2>p
    <3>3. y - 1 \in 0 .. h - 1 /\ p = (v - w) + (x + w - back)
      BY ONLY <1>2, <1>c, <2>3, <2>p, <3>1, <3>2
    <3>0. p = (y - 1) * w + (x + w - back)
      BY ONLY <1>c, <3>3, Zenon
    <3>4. p \in 0 .. w * h - 1 /\ p % w = x + w - back /\ p \div w = y - 1
      <4>1. /\ (y - 1) * w + (x + w - back) \in 0 .. w * h - 1
            /\ ((y - 1) * w + (x + w - back)) % w = x + w - back /\ ((y - 1) * w + (x + w - back)) \div w = y - 1
        BY ONLY <1>e, <3>1, <3>3, Zenon
      <4> QED BY ONLY <3>0, <4>1, Zenon
    <3>5. /\ x + w - back \in Int /\ y - 1 \in Int
          /\ x - (x + w - back) <= m /\ (x + w - back) - x <= m
          /\ y - (y - 1) <= 1 /\ (y - 1) - y <= 1
      BY ONLY <1>2, <2>3, <3>1, m \in Nat \ {0}
    <3> QED BY <1>d, <2>4, <3>4, <3>5, Zenon
  <2> QED BY <2>6, <2>7, <2>8, Zenon
<1>9. r < m \/ r >= m
  BY <1>6
<1> QED BY <1>7, <1>8, <1>9, Zenon

-------------------------------------------------------------------------------
(* What the threads of a LED measure.                                         *)

\* The step of the walk through a block at which it is at a pixel.
StepOf(b, x, y) == (y - b.y_min) * (b.x_max - b.x_min) + (x - b.x_min)

\* Thread r of the LED takes that step.
Takes(b, x, y, r) == StepOf(b, x, y) % (2 * threads_per_led) = r

\* The walk is once at every pixel of a block.
LEMMA Walk ==
  ASSUME NEW b, b.x_min \in Nat, b.x_max \in Nat, b.x_max > b.x_min,
         b.y_min \in Nat, b.y_max \in Nat, b.y_max >= b.y_min,
         NEW w, w = b.x_max - b.x_min, NEW h, h = b.y_max - b.y_min
  PROVE  /\ w \in Nat \ {0} /\ h \in Nat
         /\ \A x, y \in Int : Inside(b, x, y) =>
              /\ StepOf(b, x, y) \in 0 .. w * h - 1
              /\ x = b.x_min + (StepOf(b, x, y) % w) /\ y = b.y_min + (StepOf(b, x, y) \div w)
         /\ \A j \in 0 .. w * h - 1 :
              /\ b.x_min + (j % w) \in Int /\ b.y_min + (j \div w) \in Int
              /\ Inside(b, b.x_min + (j % w), b.y_min + (j \div w))
              /\ StepOf(b, b.x_min + (j % w), b.y_min + (j \div w)) = j
<1>1. w \in Nat \ {0} /\ h \in Nat
  OBVIOUS
<1>2. PICK x0, y0 : x0 = b.x_min /\ y0 = b.y_min
  OBVIOUS
<1>3. x0 \in Nat /\ y0 \in Nat /\ b.x_max = x0 + w /\ b.y_max = y0 + h
  BY <1>2
<1>4. \A x, y : /\ Inside(b, x, y) <=> x \in x0 .. x0 + w - 1 /\ y \in y0 .. y0 + h - 1
                /\ StepOf(b, x, y) = (y - y0) * w + (x - x0)
  <2> TAKE x, y
  <2>1. Inside(b, x, y) <=> x \in x0 .. x0 + w - 1 /\ y \in y0 .. y0 + h - 1
    BY ONLY <1>1, <1>2, <1>3 DEF Inside
  <2>2. StepOf(b, x, y) = (y - y0) * w + (x - x0)
    BY ONLY <1>2, w = b.x_max - b.x_min, Zenon DEF StepOf
  <2> QED BY <2>1, <2>2, Zenon
<1>5. \A x \in 0 .. w - 1, y \in 0 .. h - 1 :
        y * w + x \in 0 .. w * h - 1 /\ (y * w + x) % w = x /\ (y * w + x) \div w = y
  BY ONLY <1>1, Steps, Zenon
<1>6. ASSUME NEW x \in Int, NEW y \in Int, Inside(b, x, y)
      PROVE  /\ StepOf(b, x, y) \in 0 .. w * h - 1
             /\ x = b.x_min + (StepOf(b, x, y) % w) /\ y = b.y_min + (StepOf(b, x, y) \div w)
  <2>1. x - x0 \in 0 .. w - 1 /\ y - y0 \in 0 .. h - 1
    BY ONLY <1>1, <1>3, <1>4, <1>6
  <2>2. PICK j : j = StepOf(b, x, y)
    OBVIOUS
  <2>a. j = (y - y0) * w + (x - x0)
    BY ONLY <1>4, <2>2, Zenon
  <2>b. /\ (y - y0) * w + (x - x0) \in 0 .. w * h - 1
        /\ ((y - y0) * w + (x - x0)) % w = x - x0 /\ ((y - y0) * w + (x - x0)) \div w = y - y0
    BY ONLY <1>5, <2>1, Zenon
  <2>3. j \in 0 .. w * h - 1 /\ j % w = x - x0 /\ j \div w = y - y0
    BY ONLY <2>a, <2>b, Zenon
  <2>4. x = x0 + (j % w) /\ y = y0 + (j \div w)
    BY ONLY <1>3, <2>3, x \in Int, y \in Int
  <2> QED BY ONLY <1>2, <2>2, <2>3, <2>4, Zenon
<1>7. ASSUME NEW j \in 0 .. w * h - 1
      PROVE  /\ b.x_min + (j % w) \in Int /\ b.y_min + (j \div w) \in Int
             /\ Inside(b, b.x_min + (j % w), b.y_min + (j \div w))
             /\ StepOf(b, b.x_min + (j % w), b.y_min + (j \div w)) = j
  <2>1. PICK c, d : c = j % w /\ d = j \div w
    OBVIOUS
  <2>2. c \in 0 .. w - 1 /\ d \in 0 .. h - 1 /\ j = d * w + c
    BY ONLY <1>1, <2>1, Steps, j \in 0 .. w * h - 1, Zenon
  <2>3. /\ x0 + c \in x0 .. x0 + w - 1 /\ y0 + d \in y0 .. y0 + h - 1
        /\ x0 + c \in Int /\ y0 + d \in Int /\ (x0 + c) - x0 = c /\ (y0 + d) - y0 = d
    BY ONLY <1>1, <1>3, <2>2
  <2>4. Inside(b, x0 + c, y0 + d) /\ StepOf(b, x0 + c, y0 + d) = d * w + c
    BY ONLY <1>4, <2>3, Zenon
  <2> QED BY ONLY <1>2, <2>1, <2>2, <2>3, <2>4, Zenon
<1> QED BY <1>1, <1>6, <1>7, Zenon

\* A thread measures the pixels of its LED's block at which the walk is at one of its steps.
LEMMA MeasuredPixels ==
  ASSUME image \in Images, ~Empty(image), short \in SUBSET Whole(image),
         NEW l \in Leds, NEW t, led_index(t) = l, NEW b, b = Block(image, short, l),
         NEW r, r = thread_index(t), NEW pixels, pixels = Measured(t)
  PROVE  /\ \A x, y \in Int : <<x, y>> \in pixels <=>
              Inside(b, x, y) /\ Takes(b, x, y, r)
         /\ pixels \subseteq Int \X Int
         /\ IsFiniteSet(pixels)
<1> DEFINE w == b.x_max - b.x_min
           h == b.y_max - b.y_min
           mine(j) == j % (2 * threads_per_led) = r
           pixel(j) == <<b.x_min + (j % w), b.y_min + (j \div w)>>
<1>1. /\ b.x_min \in Nat /\ b.x_max \in Nat /\ b.x_max - b.x_min >= threads_per_led
      /\ b.y_min \in Nat /\ b.y_max \in Nat /\ b.y_max >= b.y_min
  BY BlockPixels, Zenon
<1>2. b.x_max > b.x_min
  BY <1>1, Groups
<1>3. /\ w \in Nat \ {0} /\ h \in Nat
      /\ \A x, y \in Int : Inside(b, x, y) =>
           /\ StepOf(b, x, y) \in 0 .. w * h - 1 /\ pixel(StepOf(b, x, y)) = <<x, y>>
      /\ \A j \in 0 .. w * h - 1 :
           /\ b.x_min + (j % w) \in Int /\ b.y_min + (j \div w) \in Int
           /\ Inside(b, b.x_min + (j % w), b.y_min + (j \div w))
           /\ StepOf(b, b.x_min + (j % w), b.y_min + (j \div w)) = j
  <2>1. /\ w \in Nat \ {0} /\ h \in Nat
        /\ \A x, y \in Int : Inside(b, x, y) =>
             /\ StepOf(b, x, y) \in 0 .. w * h - 1
             /\ x = b.x_min + (StepOf(b, x, y) % w) /\ y = b.y_min + (StepOf(b, x, y) \div w)
        /\ \A j \in 0 .. w * h - 1 :
             /\ b.x_min + (j % w) \in Int /\ b.y_min + (j \div w) \in Int
             /\ Inside(b, b.x_min + (j % w), b.y_min + (j \div w))
             /\ StepOf(b, b.x_min + (j % w), b.y_min + (j \div w)) = j
    BY ONLY <1>1, <1>2, Walk
  <2>2. ASSUME NEW x \in Int, NEW y \in Int, Inside(b, x, y)
        PROVE  pixel(StepOf(b, x, y)) = <<x, y>>
    <3>1. PICK j : j = StepOf(b, x, y)
      OBVIOUS
    <3>2. x = b.x_min + (j % w) /\ y = b.y_min + (j \div w)
      BY ONLY <2>1, <2>2, <3>1, x \in Int, y \in Int, Zenon
    <3> QED BY ONLY <3>1, <3>2, Zenon
  <2> HIDE DEF w, h, pixel
  <2> QED BY ONLY <2>1, <2>2, Zenon
<1>4. pixels = {pixel(j) : j \in {k \in 0 .. w * h - 1 : mine(k)}}
  BY Zenon DEF Measured
<1> HIDE DEF w, h
<1>5. ASSUME NEW x \in Int, NEW y \in Int
      PROVE  <<x, y>> \in pixels <=> Inside(b, x, y) /\ mine(StepOf(b, x, y))
  <2>1. ASSUME <<x, y>> \in pixels
        PROVE  Inside(b, x, y) /\ mine(StepOf(b, x, y))
    <3>1. PICK j \in 0 .. w * h - 1 : mine(j) /\ <<x, y>> = pixel(j)
      BY <1>4, <2>1, Zenon
    <3>2. x = b.x_min + (j % w) /\ y = b.y_min + (j \div w)
      BY <3>1
    <3> QED BY <1>3, <3>1, <3>2, Zenon
  <2>2. ASSUME Inside(b, x, y), mine(StepOf(b, x, y))
        PROVE  <<x, y>> \in pixels
    <3>1. StepOf(b, x, y) \in {k \in 0 .. w * h - 1 : mine(k)} /\ pixel(StepOf(b, x, y)) = <<x, y>>
      BY <1>3, <2>2, Zenon
    <3> HIDE DEF pixel, mine
    <3> QED BY ONLY <1>4, <3>1, Zenon
  <2> QED BY <2>1, <2>2
<1>6. pixels \subseteq Int \X Int
  BY <1>3, <1>4
<1>7. IsFiniteSet(pixels)
  <2> DEFINE S == {k \in 0 .. w * h - 1 : mine(k)}
  <2>1. w * h - 1 \in Int
    BY <1>3
  <2>2. IsFiniteSet(0 .. w * h - 1)
    BY <2>1, FS_Interval
  <2>3. IsFiniteSet(S)
    BY <2>2, FS_Subset
  <2> DEFINE f == [j \in S |-> pixel(j)]
  <2>4. f \in Surjection(S, pixels)
    <3> HIDE DEF S, pixel
    <3> QED BY ONLY <1>4, Zenon DEF Surjection, S
  <2> QED BY <2>3, <2>4, FS_Surjection, Zenon
<1> QED BY <1>5, <1>6, <1>7, Zenon DEF Takes

\* The threads of a LED.
LEMMA ThreadOf ==
  ASSUME NEW l \in Leds, NEW r \in 0 .. threads_per_led - 1
  PROVE  \E t \in Workgroup : led_index(t) = l /\ thread_index(t) = r
<1>1. PICK m, n : m = threads_per_led /\ n = Cardinality(Leds)
  OBVIOUS
<1>2. m \in Nat \ {0} /\ n \in Nat \ {0} /\ n * m <= Threads /\ Threads \in Nat
  BY <1>1, Groups, ShaderAssumption
<1>3. l \in Nat /\ l + 1 <= n /\ r \in 0 .. m - 1
  <2>1. n = 2 * SIDE_LEDS + 2 * TOP_LEDS
    BY <1>1, Groups, Zenon
  <2>2. l \in 0 .. n - 1
    BY <2>1, BlocksAssumption DEF Leds
  <2> QED BY ONLY <1>1, <1>2, <2>2, r \in 0 .. threads_per_led - 1
<1>4. (l + 1) * m <= n * m
  BY ONLY <1>2, <1>3, Times
<1>5. PICK t : t = l * m + r
  OBVIOUS
<1>6. t \in 0 .. Threads - 1
  <2>1. (l + 1) * m = l * m + m /\ l * m \in Nat /\ n * m \in Nat
    BY ONLY <1>2, <1>3
  <2> QED BY ONLY <1>2, <1>3, <1>4, <1>5, <2>1
<1>7. t \div m = l /\ t % m = r
  BY ONLY <1>2, <1>3, <1>5, Quotient, Zenon
<1> QED BY <1>1, <1>6, <1>7, Zenon DEF Workgroup, led_index, thread_index

\* Which threads are those of a LED.
LEMMA Grouped ==
  ASSUME NEW t \in Workgroup
  PROVE  thread_index(t) \in 0 .. threads_per_led - 1 /\ t \in Nat
<1>1. Threads \in Nat /\ threads_per_led \in Nat \ {0}
  BY Groups, ShaderAssumption
<1>2. t \in Nat
  BY ONLY <1>1, t \in Workgroup DEF Workgroup
<1>3. t % threads_per_led \in 0 .. threads_per_led - 1
  BY ONLY <1>1, <1>2, Remainder
<1> QED BY <1>2, <1>3, Zenon DEF thread_index

\* Every pixel of a LED's piece is near one that a thread of the LED measures.
LEMMA PieceCovered ==
  ASSUME image \in Images, ~Empty(image), short \in SUBSET Whole(image),
         NEW l \in Leds, NEW p \in Piece(image, l)
  PROVE  \E t \in Workgroup : led_index(t) = l /\ \E q \in Measured(t) :
           Distance(p[1], q[1]) <= threads_per_led /\ Distance(p[2], q[2]) <= 1
<1>1. PICK x, y : x = p[1] /\ y = p[2]
  OBVIOUS
<1>2. p = <<x, y>> /\ x \in Int /\ y \in Int
  BY <1>1, Readable DEF Piece, Pixels
<1>3. PICK b : b = Block(image, short, l)
  OBVIOUS
<1>4. PICK w, h, m : w = b.x_max - b.x_min /\ h = b.y_max - b.y_min /\ m = threads_per_led
  OBVIOUS
<1>5. /\ b.x_min \in Nat /\ b.x_max \in Nat /\ b.x_max - b.x_min >= m
      /\ b.y_min \in Nat /\ b.y_max \in Nat /\ b.y_max >= b.y_min
      /\ m \in Nat \ {0}
  BY <1>3, <1>4, BlockPixels, Groups, Zenon
<1>6. b.x_max > b.x_min
  BY ONLY <1>5
<1>7. /\ w \in Nat \ {0} /\ h \in Nat
      /\ \A c, d \in Int : Inside(b, c, d) =>
           /\ StepOf(b, c, d) \in 0 .. w * h - 1
           /\ c = b.x_min + (StepOf(b, c, d) % w) /\ d = b.y_min + (StepOf(b, c, d) \div w)
      /\ \A j \in 0 .. w * h - 1 :
           /\ b.x_min + (j % w) \in Int /\ b.y_min + (j \div w) \in Int
           /\ Inside(b, b.x_min + (j % w), b.y_min + (j \div w))
           /\ StepOf(b, b.x_min + (j % w), b.y_min + (j \div w)) = j
  BY ONLY <1>4, <1>5, <1>6, Walk
<1>8. Inside(b, x, y)
  BY <1>2, <1>3, BlockHoldsPiece, Zenon
<1>9. PICK j : j = StepOf(b, x, y)
  OBVIOUS
<1>10. j \in 0 .. w * h - 1 /\ x = b.x_min + (j % w) /\ y = b.y_min + (j \div w)
  BY ONLY <1>2, <1>7, <1>8, <1>9, Zenon
<1>11. PICK i \in 0 .. w * h - 1 :
         /\ i % (2 * m) \in 0 .. m - 1
         /\ Distance(j % w, i % w) <= m
         /\ Distance(j \div w, i \div w) <= 1
  <2>1. w >= m
    BY ONLY <1>4, <1>5
  <2> QED BY ONLY <1>5, <1>7, <1>10, <2>1, NextMeasured, Zenon
<1>12. PICK t \in Workgroup : led_index(t) = l /\ thread_index(t) = i % (2 * m)
  BY <1>4, <1>11, ThreadOf, Zenon
<1>13. PICK u, v : u = b.x_min + (i % w) /\ v = b.y_min + (i \div w)
  OBVIOUS
<1>14. <<u, v>> \in Measured(t)
  <2>1. u \in Int /\ v \in Int /\ Inside(b, u, v) /\ StepOf(b, u, v) = i
    BY ONLY <1>7, <1>13, i \in 0 .. w * h - 1, Zenon
  <2>2. <<u, v>> \in Measured(t) <=>
          Inside(b, u, v) /\ StepOf(b, u, v) % (2 * threads_per_led) = thread_index(t)
    <3>0. PICK r, pixels : r = thread_index(t) /\ pixels = Measured(t)
      OBVIOUS
    <3>1. \A c, d \in Int : <<c, d>> \in pixels <=>
            Inside(b, c, d) /\ Takes(b, c, d, r)
      BY <1>3, <1>12, <3>0, MeasuredPixels, Zenon
    <3> QED BY ONLY <2>1, <3>0, <3>1, Zenon DEF Takes
  <2> QED BY ONLY <1>4, <1>12, <2>1, <2>2, Zenon
<1>15. Distance(x, u) <= m /\ Distance(y, v) <= 1
  <2>1. PICK jx, jy, ix, iy : jx = j % w /\ jy = j \div w /\ ix = i % w /\ iy = i \div w
    OBVIOUS
  <2>2. jx \in Int /\ jy \in Int /\ ix \in Int /\ iy \in Int
    BY ONLY <1>7, <1>10, <2>1, Steps, i \in 0 .. w * h - 1
  <2>3. /\ x = b.x_min + jx /\ y = b.y_min + jy /\ u = b.x_min + ix /\ v = b.y_min + iy
        /\ Distance(jx, ix) <= m /\ Distance(jy, iy) <= 1
    BY ONLY <1>10, <1>11, <1>13, <2>1, Zenon
  <2> QED BY ONLY <1>5, <2>2, <2>3 DEF Distance
<1>16. <<u, v>>[1] = u /\ <<u, v>>[2] = v
  OBVIOUS
<1> QED BY <1>1, <1>4, <1>12, <1>14, <1>15, <1>16, Zenon

\* What a leader adds up: sums of threads that counted what they saw, and saw different
\* pixels.
Apart(P, sums) ==
  /\ \A t \in P : IsFiniteSet(sums[t].seen) /\ sums[t].count = Cardinality(sums[t].seen)
  /\ \A t, u \in P : \A p : p \in sums[t].seen /\ p \in sums[u].seen => t = u

Together(P, sums) == UNION {sums[t].seen : t \in P}
Tally(P, sums)    == UNION {{t} \X (1 .. sums[t].count) : t \in P}

\* The sum of the counts is then the number of the pixels they have together.
LEMMA CountedOnce ==
  ASSUME NEW P, NEW sums, IsFiniteSet(P), Apart(P, sums)
  PROVE  /\ IsFiniteSet(Together(P, sums))
         /\ Cardinality(Tally(P, sums)) = Cardinality(Together(P, sums))
<1>0. /\ \A t \in P : IsFiniteSet(sums[t].seen) /\ sums[t].count = Cardinality(sums[t].seen)
      /\ \A t, u \in P : \A p : p \in sums[t].seen /\ p \in sums[u].seen => t = u
  BY Zenon DEF Apart
<1> DEFINE V == UNION {sums[t].seen : t \in P}
           U == UNION {{t} \X (1 .. sums[t].count) : t \in P}
           B == [t \in P |-> CHOOSE f : f \in Bijection(1 .. sums[t].count, sums[t].seen)]
           F == [z \in U |-> B[z[1]][z[2]]]
<1>1. ASSUME NEW t \in P
      PROVE  sums[t].count \in Nat /\ B[t] \in Bijection(1 .. sums[t].count, sums[t].seen)
  <2>1. sums[t].count \in Nat /\ ExistsBijection(1 .. sums[t].count, sums[t].seen)
    BY <1>0, FS_CardinalityType
  <2>2. \E f : f \in Bijection(1 .. sums[t].count, sums[t].seen)
    BY <2>1 DEF ExistsBijection
  <2>3. B[t] = CHOOSE f : f \in Bijection(1 .. sums[t].count, sums[t].seen)
    OBVIOUS
  <2> QED BY <2>1, <2>2, <2>3, Zenon
<1> HIDE DEF B
<1>2. ASSUME NEW t \in P
      PROVE  /\ B[t] \in [1 .. sums[t].count -> sums[t].seen]
             /\ \A j, k \in 1 .. sums[t].count : B[t][j] = B[t][k] => j = k
             /\ \A p \in sums[t].seen : \E k \in 1 .. sums[t].count : B[t][k] = p
  <2>1. PICK f, n : f = B[t] /\ n = sums[t].count
    OBVIOUS
  <2>2. f \in Bijection(1 .. n, sums[t].seen)
    BY ONLY <1>1, <1>2, <2>1, Zenon
  <2>3. /\ f \in [1 .. n -> sums[t].seen]
        /\ \A j, k \in 1 .. n : f[j] = f[k] => j = k
        /\ \A p \in sums[t].seen : \E k \in 1 .. n : f[k] = p
    BY ONLY <2>2, Zenon DEF Bijection, Injection, Surjection, IsInjective
  <2> QED BY <2>1, <2>3, Zenon
<1>3. \A z \in U : \E t \in P : \E k \in 1 .. sums[t].count : z = <<t, k>>
  <2> TAKE z \in U
  <2>1. PICK t \in P : z \in {t} \X (1 .. sums[t].count)
    BY Zenon
  <2>2. PICK k \in 1 .. sums[t].count : z = <<t, k>>
    BY ONLY <2>1
  <2> QED BY <2>2, Zenon
<1>4. \A t \in P : \A k \in 1 .. sums[t].count : <<t, k>> \in U /\ F[<<t, k>>] = B[t][k]
  OBVIOUS
<1>5. \A p : p \in V <=> \E t \in P : p \in sums[t].seen
  BY Zenon
<1> HIDE DEF U, V, F
<1>6. F \in [U -> V]
  <2>1. F = [z \in U |-> F[z]]
    BY Zenon DEF F
  <2>2. ASSUME NEW z \in U
        PROVE  F[z] \in V
    <3>1. PICK t \in P : \E k \in 1 .. sums[t].count : z = <<t, k>>
      BY <1>3, Zenon
    <3>2. PICK k \in 1 .. sums[t].count : z = <<t, k>>
      BY <3>1, Zenon
    <3>3. B[t][k] \in sums[t].seen
      BY <1>2
    <3> QED BY <1>4, <1>5, <3>2, <3>3, Zenon
  <2> QED BY <2>1, <2>2
<1>7. ASSUME NEW y \in U, NEW z \in U, F[y] = F[z]
      PROVE  y = z
  <2>1. PICK t \in P : \E k \in 1 .. sums[t].count : y = <<t, k>>
    BY <1>3, Zenon
  <2>2. PICK j \in 1 .. sums[t].count : y = <<t, j>>
    BY <2>1, Zenon
  <2>3. PICK u \in P : \E k \in 1 .. sums[u].count : z = <<u, k>>
    BY <1>3, Zenon
  <2>4. PICK k \in 1 .. sums[u].count : z = <<u, k>>
    BY <2>3, Zenon
  <2>5. B[t][j] = B[u][k]
    BY <1>4, <1>7, <2>2, <2>4, Zenon
  <2>6. B[t][j] \in sums[t].seen /\ B[u][k] \in sums[u].seen
    <3>1. /\ B[t] \in [1 .. sums[t].count -> sums[t].seen]
          /\ B[u] \in [1 .. sums[u].count -> sums[u].seen]
      BY <1>2, Zenon
    <3>2. j \in 1 .. sums[t].count /\ k \in 1 .. sums[u].count
      OBVIOUS
    <3> QED BY ONLY <3>1, <3>2
  <2>7. t = u
    BY <1>0, <2>5, <2>6, Zenon
  <2>8. k \in 1 .. sums[t].count /\ B[t][j] = B[t][k]
    BY <2>5, <2>7, Zenon
  <2>9. j = k
    BY <1>2, <2>8, Zenon
  <2> QED BY <2>2, <2>4, <2>7, <2>9, Zenon
<1>8. ASSUME NEW p \in V
      PROVE  \E z \in U : F[z] = p
  <2>1. PICK t \in P : p \in sums[t].seen
    BY <1>5, Zenon
  <2>2. PICK k \in 1 .. sums[t].count : B[t][k] = p
    BY <1>2, <2>1, Zenon
  <2> QED BY <1>4, <2>2, Zenon
<1>9. F \in Bijection(U, V)
  BY <1>6, <1>7, <1>8, Fun_IsBij
<1>10. IsFiniteSet(U)
  <2> DEFINE Row(t) == {t} \X (1 .. sums[t].count)
             R == [t \in P |-> Row(t)]
             S == {Row(t) : t \in P}
  <2>1. R \in Surjection(P, S)
    <3> HIDE DEF Row
    <3>1. R \in [P -> S]
      BY Zenon
    <3>2. \A T \in S : \E t \in P : R[t] = T
      BY Zenon
    <3> QED BY <3>1, <3>2, Fun_IsSurj, Zenon
  <2>2. IsFiniteSet(S)
    <3> HIDE DEF R, S
    <3> QED BY <2>1, FS_Surjection, Zenon
  <2>3. ASSUME NEW t \in P
        PROVE  IsFiniteSet(Row(t))
    <3>1. IsFiniteSet({t})
      BY FS_Singleton, Zenon
    <3>2. IsFiniteSet(1 .. sums[t].count)
      <4>1. 1 \in Int /\ sums[t].count \in Int
        BY ONLY <1>1, <2>3
      <4> QED BY ONLY <4>1, FS_Interval
    <3> QED BY <3>1, <3>2, FS_Product, Zenon
  <2>4. \A T \in S : IsFiniteSet(T)
    BY <2>3, Zenon
  <2>5. U = UNION S
    BY Zenon DEF U
  <2> HIDE DEF S
  <2> QED BY <2>2, <2>4, <2>5, FS_UNION, Zenon
<1>11. IsFiniteSet(V) /\ Cardinality(V) = Cardinality(U)
  <2>1. ExistsBijection(U, V)
    BY <1>9, Zenon DEF ExistsBijection
  <2> QED BY <1>10, <2>1, FS_Bijection, Zenon
<1> QED BY <1>11, Zenon DEF U, V, Together, Tally

-------------------------------------------------------------------------------
(* What a LED's threads measure together.                                     *)

ThreadsOf(l) == {t \in Workgroup : used_thread(t) /\ led_index(t) = l}
LedPixels(l) == UNION {Measured(t) : t \in ThreadsOf(l)}

\* They measure pixels near the LED's piece, finitely many, and no two of them the same.
LEMMA LedMeasures ==
  ASSUME image \in Images, ~Empty(image), short \in SUBSET Whole(image), NEW l \in Leds
  PROVE  /\ \A t \in ThreadsOf(l) : /\ IsFiniteSet(Measured(t))
                                    /\ \A p \in Measured(t) : p \in Near(image, l)
         /\ \A t, u \in ThreadsOf(l) : \A p : p \in Measured(t) /\ p \in Measured(u) => t = u
<1>1. PICK b : b = Block(image, short, l)
  OBVIOUS
<1>2. ASSUME NEW t \in ThreadsOf(l), NEW r, r = thread_index(t), NEW M, M = Measured(t)
      PROVE  /\ \A x, y \in Int : <<x, y>> \in M <=> Inside(b, x, y) /\ Takes(b, x, y, r)
             /\ M \subseteq Int \X Int
             /\ IsFiniteSet(M)
  <2>1. led_index(t) = l
    BY DEF ThreadsOf
  <2> QED BY <1>1, <1>2, <2>1, MeasuredPixels, Zenon
<1>3. ASSUME NEW t \in ThreadsOf(l)
      PROVE  /\ IsFiniteSet(Measured(t))
             /\ \A p \in Measured(t) : p \in Near(image, l)
  <2>1. PICK r, M : r = thread_index(t) /\ M = Measured(t)
    OBVIOUS
  <2>2. /\ \A x, y \in Int : <<x, y>> \in M <=> Inside(b, x, y) /\ Takes(b, x, y, r)
        /\ M \subseteq Int \X Int
        /\ IsFiniteSet(M)
    BY <1>2, <2>1, Zenon
  <2>3. ASSUME NEW p \in M
        PROVE  p \in Near(image, l)
    <3>1. PICK x \in Int, y \in Int : p = <<x, y>>
      BY ONLY <2>2, p \in M
    <3>2. Inside(b, x, y)
      BY ONLY <2>2, <3>1, p \in M, x \in Int, y \in Int, Zenon
    <3>3. <<x, y>> \in Near(image, l)
      BY <1>1, <3>2, BlockHoldsPiece, Zenon
    <3> QED BY <3>1, <3>3, Zenon
  <2> QED BY <2>1, <2>2, <2>3, Zenon
<1>4. ASSUME NEW t \in ThreadsOf(l), NEW u \in ThreadsOf(l), NEW p,
             p \in Measured(t), p \in Measured(u)
      PROVE  t = u
  <2>1. PICK r, M : r = thread_index(t) /\ M = Measured(t)
    OBVIOUS
  <2>2. PICK s, N : s = thread_index(u) /\ N = Measured(u)
    OBVIOUS
  <2>3. /\ \A x, y \in Int : <<x, y>> \in M <=> Inside(b, x, y) /\ Takes(b, x, y, r)
        /\ M \subseteq Int \X Int
    BY <1>2, <2>1, Zenon
  <2>4. \A x, y \in Int : <<x, y>> \in N <=> Inside(b, x, y) /\ Takes(b, x, y, s)
    BY <1>2, <2>2, Zenon
  <2>5. PICK x \in Int, y \in Int : p = <<x, y>>
    BY ONLY <1>4, <2>1, <2>3
  <2>6. Takes(b, x, y, r) /\ Takes(b, x, y, s)
    BY ONLY <1>4, <2>1, <2>2, <2>3, <2>4, <2>5, x \in Int, y \in Int, Zenon
  <2>7. r = s
    BY ONLY <2>6, Zenon DEF Takes
  <2>8. t \in Nat /\ u \in Nat /\ threads_per_led \in Nat \ {0}
    BY Groups, Grouped DEF ThreadsOf
  <2>9. t \div threads_per_led = u \div threads_per_led
    BY Zenon DEF ThreadsOf, led_index
  <2>10. t % threads_per_led = u % threads_per_led
    BY ONLY <2>1, <2>2, <2>7, Zenon DEF thread_index
  <2>11. /\ t = (t \div threads_per_led) * threads_per_led + (t % threads_per_led)
         /\ u = (u \div threads_per_led) * threads_per_led + (u % threads_per_led)
    BY ONLY <2>8, Remainder, Zenon
  <2> QED BY ONLY <2>9, <2>10, <2>11, Zenon
<1> QED BY <1>3, <1>4, Zenon

\* The LED's leader adds up all of them, each once.
LEMMA AddedUp ==
  ASSUME image \in Images, ~Empty(image), short \in SUBSET Whole(image), NEW l \in Leds,
         \A t \in ThreadsOf(l) : shared[t].seen = Measured(t)
                                 /\ shared[t].count = Cardinality(Measured(t))
  PROVE  /\ IsFiniteSet(LedPixels(l))
         /\ Total(l) = [seen |-> LedPixels(l), count |-> Cardinality(LedPixels(l))]
<1> DEFINE P == ThreadsOf(l)
           V == UNION {shared[t].seen : t \in P}
<1>1. IsFiniteSet(P)
  <2>1. 0 \in Int /\ Threads - 1 \in Int
    BY ShaderAssumption
  <2>2. IsFiniteSet(Workgroup)
    BY ONLY <2>1, FS_Interval DEF Workgroup
  <2> QED BY <2>2, FS_Subset DEF ThreadsOf
<1> HIDE DEF P
<1>2. /\ \A t \in P : IsFiniteSet(shared[t].seen) /\ shared[t].count = Cardinality(shared[t].seen)
      /\ \A t, u \in P : \A p : p \in shared[t].seen /\ p \in shared[u].seen => t = u
  <2>1. \A t \in P : shared[t].seen = Measured(t) /\ shared[t].count = Cardinality(Measured(t))
    BY Zenon DEF P
  <2>2. /\ \A t \in P : IsFiniteSet(Measured(t))
        /\ \A t, u \in P : \A p : p \in Measured(t) /\ p \in Measured(u) => t = u
    BY LedMeasures, Zenon DEF P
  <2>3. ASSUME NEW t \in P
        PROVE  IsFiniteSet(shared[t].seen) /\ shared[t].count = Cardinality(shared[t].seen)
    BY ONLY <2>1, <2>2, <2>3, Zenon
  <2>4. ASSUME NEW t \in P, NEW u \in P, NEW p, p \in shared[t].seen, p \in shared[u].seen
        PROVE  t = u
    <3>1. p \in Measured(t) /\ p \in Measured(u)
      BY ONLY <2>1, <2>4, t \in P, u \in P, Zenon
    <3> QED BY ONLY <2>2, <3>1, t \in P, u \in P, Zenon
  <2> QED BY <2>3, <2>4, Zenon
<1>3. PICK sums : sums = shared
  OBVIOUS
<1>4. /\ IsFiniteSet(V)
      /\ Cardinality(UNION {{t} \X (1 .. shared[t].count) : t \in P}) = Cardinality(V)
  <2>1. Apart(P, sums)
    BY ONLY <1>2, <1>3, Zenon DEF Apart
  <2>2. IsFiniteSet(Together(P, sums)) /\ Cardinality(Tally(P, sums)) = Cardinality(Together(P, sums))
    BY ONLY <1>1, <2>1, CountedOnce, Zenon
  <2> QED BY ONLY <1>3, <2>2, Zenon DEF Together, Tally
<1>5. V = LedPixels(l)
  BY Zenon DEF LedPixels, P
<1>6. Total(l) = [seen |-> V, count |-> Cardinality(UNION {{t} \X (1 .. shared[t].count) : t \in P})]
  BY Zenon DEF Total, P, ThreadsOf
<1> HIDE DEF V
<1> QED BY <1>4, <1>5, <1>6, Zenon

\* Which is what the LED should be given.
LEMMA LedCovered ==
  ASSUME image \in Images, ~Empty(image), short \in SUBSET Whole(image), NEW l \in Leds
  PROVE  /\ LedPixels(l) \subseteq Near(image, l)
         /\ \A p \in Piece(image, l) : \E q \in LedPixels(l) :
              Distance(p[1], q[1]) <= threads_per_led /\ Distance(p[2], q[2]) <= 1
<1>1. LedPixels(l) \subseteq Near(image, l)
  BY LedMeasures, Zenon DEF LedPixels
<1>2. ASSUME NEW p \in Piece(image, l)
      PROVE  \E q \in LedPixels(l) :
               Distance(p[1], q[1]) <= threads_per_led /\ Distance(p[2], q[2]) <= 1
  <2>1. PICK t \in Workgroup : led_index(t) = l /\ \E q \in Measured(t) :
           Distance(p[1], q[1]) <= threads_per_led /\ Distance(p[2], q[2]) <= 1
    BY PieceCovered, Zenon
  <2>2. t \in ThreadsOf(l)
    BY <2>1, Zenon DEF ThreadsOf, used_thread
  <2> QED BY <2>1, <2>2, Zenon DEF LedPixels
<1> QED BY <1>1, <1>2, Zenon

-------------------------------------------------------------------------------
(* The invariant.  Where an image can be read, a thread at the barrier has its sum, a   *)
(* leader ends when all have theirs, and its LED then has what its threads measured.    *)

LedSum(l) == [seen |-> LedPixels(l), count |-> Cardinality(LedPixels(l))]
Black     == [seen |-> {}, count |-> 0]

Imported == image \in Images /\ short \in SUBSET Whole(image)

Stages ==
  /\ host \in {"idle", "waiting"}
  /\ pc \in [Workgroup -> {"off", "summing", "barrier", "done"}]
  /\ \A t \in Workgroup : pc[t] = "off" <=> host = "idle"
  /\ DOMAIN shared = Workgroup /\ DOMAIN output = Leds

Nothing ==
  Empty(image) =>
    /\ \A l \in Leds : output[l] = Black
    /\ \A t \in Workgroup : pc[t] # "barrier"

Summed ==
  \A t \in Workgroup :
    pc[t] \in {"barrier", "done"} /\ used_thread(t) /\ ~Empty(image) =>
      shared[t].seen = Measured(t) /\ shared[t].count = Cardinality(Measured(t))

Ended ==
  \A t \in Workgroup :
    pc[t] = "done" /\ ~Empty(image) =>
      /\ Leader(t) /\ \A s \in Workgroup : pc[s] # "summing"
      /\ output[led_index(t)] = LedSum(led_index(t))

Shown ==
  result # <<>> =>
    /\ host = "idle"
    /\ \A l \in Leds : result[l] = IF Empty(image) THEN Black ELSE LedSum(l)

ShaderInv == Imported /\ Stages /\ Nothing /\ Summed /\ Ended /\ Shown

\* Nobody but a dispatch changes what the threads are to measure.
LEMMA SamePixels ==
  ASSUME image' = image, short' = short
  PROVE  /\ \A t : Measured(t)' = Measured(t)
         /\ \A l : LedSum(l)' = LedSum(l)
         /\ Empty(image)' <=> Empty(image)
         /\ Imported => Imported'
<1>1. ASSUME NEW t
      PROVE  Measured(t)' = Measured(t)
  BY DEF Measured, Block, Edge, Size, Rectangle, From, To
<1>2. ASSUME NEW l
      PROVE  LedSum(l)' = LedSum(l)
  <2>1. LedPixels(l)' = LedPixels(l)
    BY <1>1, Zenon DEF LedPixels, ThreadsOf
  <2> QED BY <2>1, Zenon DEF LedSum
<1>3. Empty(image)' <=> Empty(image)
  BY Zenon DEF Empty
<1>4. Imported => Imported'
  BY Zenon DEF Imported, Whole, Size
<1> QED BY <1>1, <1>2, <1>3, <1>4, Zenon

\* What no LED has is black.
LEMMA Dark == Zero = Black /\ Average(Black) = Black
<1>1. Cardinality({}) = 0
  BY FS_EmptySet
<1>2. Zero = Black
  BY <1>1, Zenon DEF Zero, Sum, Black
<1> QED BY <1>2, Zenon DEF Average

\* The average of what a LED's threads measured is theirs, even where it is nothing.
LEMMA Averaged ==
  ASSUME NEW l, IsFiniteSet(LedPixels(l))
  PROVE  Average(LedSum(l)) = LedSum(l)
<1>1. LedSum(l).count = Cardinality(LedPixels(l))
  BY DEF LedSum
<1>2. CASE Cardinality(LedPixels(l)) = 0
  <2>1. LedPixels(l) = {}
    BY <1>2, FS_EmptySet, Zenon
  <2>2. LedSum(l) = Black
    BY <1>2, <2>1, Zenon DEF LedSum, Black
  <2> QED BY <2>2, Dark, Zenon
<1>3. CASE Cardinality(LedPixels(l)) # 0
  BY <1>1, <1>3, Zenon DEF Average
<1> QED BY <1>2, <1>3

LEMMA ShaderInit == Init => ShaderInv
<1> SUFFICES ASSUME Init
             PROVE  ShaderInv
  OBVIOUS
<1>1. Imported
  BY Zenon DEF Init, Imported
<1>2. Stages
  BY DEF Init, Stages
<1>3. Nothing
  BY Dark DEF Init, Nothing
<1>4. Summed /\ Ended /\ Shown
  BY DEF Init, Summed, Ended, Shown
<1> QED BY <1>1, <1>2, <1>3, <1>4, Zenon DEF ShaderInv

LEMMA KeptByDispatch == ShaderInv /\ Dispatch => ShaderInv'
<1> SUFFICES ASSUME ShaderInv, Dispatch
             PROVE  ShaderInv'
  OBVIOUS
<1>1. Imported'
  BY Zenon DEF Dispatch, Imported
<1>2. Stages'
  BY DEF Dispatch, Stages
<1>3. Nothing'
  BY Dark DEF Dispatch, Nothing
<1>4. Summed' /\ Ended' /\ Shown'
  BY DEF Dispatch, Summed, Ended, Shown
<1> QED BY <1>1, <1>2, <1>3, <1>4, Zenon DEF ShaderInv

LEMMA KeptByReturn == ASSUME NEW t \in Workgroup PROVE ShaderInv /\ Return(t) => ShaderInv'
<1> SUFFICES ASSUME ShaderInv, Return(t)
             PROVE  ShaderInv'
  OBVIOUS
<1>0. Imported /\ Stages /\ Nothing /\ Summed /\ Ended /\ Shown
  BY Zenon DEF ShaderInv
<1>1. Imported' /\ Empty(image) /\ Empty(image)'
  BY <1>0, SamePixels, Zenon DEF Return
<1>2. Stages'
  BY <1>0 DEF Return, Stages
<1>3. Nothing'
  BY <1>0, <1>1, Dark DEF Return, Nothing, Stages
<1>4. Summed' /\ Ended'
  BY <1>1, Zenon DEF Summed, Ended
<1>5. Shown'
  BY <1>0 DEF Return, Shown, Stages
<1> QED BY <1>1, <1>2, <1>3, <1>4, <1>5, Zenon DEF ShaderInv

LEMMA KeptBySumUp == ASSUME NEW t \in Workgroup PROVE ShaderInv /\ SumUp(t) => ShaderInv'
<1> SUFFICES ASSUME ShaderInv, SumUp(t)
             PROVE  ShaderInv'
  OBVIOUS
<1>0. Imported /\ Stages /\ Nothing /\ Summed /\ Ended /\ Shown
  BY Zenon DEF ShaderInv
<1>1. Imported' /\ ~Empty(image) /\ ~Empty(image)' /\ \A s : Measured(s)' = Measured(s)
  BY <1>0, SamePixels, Zenon DEF SumUp
<1>2. Stages'
  BY <1>0 DEF SumUp, Stages
<1>3. Nothing'
  BY <1>1, Zenon DEF Nothing
<1>4. Summed'
  <2> SUFFICES ASSUME NEW s \in Workgroup, pc'[s] \in {"barrier", "done"}, used_thread(s)
               PROVE  shared'[s].seen = Measured(s) /\ shared'[s].count = Cardinality(Measured(s))
    BY <1>1, Zenon DEF Summed, used_thread, led_index
  <2>1. CASE s = t
    <3>1. shared'[s] = Sum(Measured(s))
      BY <1>0, <2>1 DEF SumUp, Stages
    <3> QED BY <3>1 DEF Sum
  <2>2. CASE s # t
    BY <1>0, <1>1, <2>2 DEF SumUp, Stages, Summed
  <2> QED BY <2>1, <2>2
<1>5. Ended'
  <2>1. ASSUME NEW s \in Workgroup
        PROVE  pc'[s] # "done"
    BY <1>0, <1>1 DEF SumUp, Stages, Ended
  <2> QED BY <2>1, Zenon DEF Ended
<1>6. Shown'
  BY <1>0 DEF SumUp, Shown, Stages
<1> QED BY <1>1, <1>2, <1>3, <1>4, <1>5, <1>6, Zenon DEF ShaderInv

LEMMA KeptByAddUp == ASSUME NEW t \in Workgroup PROVE ShaderInv /\ AddUp(t) => ShaderInv'
<1> SUFFICES ASSUME ShaderInv, AddUp(t)
             PROVE  ShaderInv'
  OBVIOUS
<1>0. Imported /\ Stages /\ Nothing /\ Summed /\ Ended /\ Shown
  BY Zenon DEF ShaderInv
<1>1. /\ Imported' /\ ~Empty(image) /\ ~Empty(image)'
      /\ \A s : Measured(s)' = Measured(s)
      /\ \A l : LedSum(l)' = LedSum(l)
  <2>1. ~Empty(image)
    BY <1>0, Zenon DEF AddUp, Nothing
  <2> QED BY <1>0, <2>1, SamePixels, Zenon DEF AddUp
<1>2. Stages'
  BY <1>0 DEF AddUp, Stages
<1>3. Nothing'
  BY <1>1, Zenon DEF Nothing
<1>4. Summed'
  <2>1. ASSUME NEW s \in Workgroup
        PROVE  pc'[s] \in {"barrier", "done"} => pc[s] \in {"barrier", "done"}
    BY <1>0 DEF AddUp, Stages
  <2>2. shared' = shared
    BY Zenon DEF AddUp
  <2> QED BY <1>0, <1>1, <2>1, <2>2, Zenon DEF Summed, used_thread, led_index
<1>5. Ended'
  <2>1. PICK l \in Leds : l = led_index(t)
    BY Zenon DEF AddUp, Leader, used_thread
  <2>2. Total(l) = LedSum(l)
    <3>1. ASSUME NEW s \in ThreadsOf(l)
          PROVE  shared[s].seen = Measured(s) /\ shared[s].count = Cardinality(Measured(s))
      <4>1. s \in Workgroup /\ used_thread(s)
        BY Zenon DEF ThreadsOf
      <4>2. pc[s] \in {"barrier", "done"}
        BY <1>0, <4>1 DEF AddUp, Stages
      <4> QED BY <1>0, <1>1, <4>1, <4>2, Zenon DEF Summed
    <3> QED BY <1>0, <1>1, <3>1, AddedUp, Zenon DEF Imported, LedSum
  <2>3. output' = [output EXCEPT ![l] = LedSum(l)]
    BY <2>1, <2>2, Zenon DEF AddUp
  <2>4. \A s \in Workgroup : pc'[s] # "summing"
    BY <1>0 DEF AddUp, Stages
  <2>5. ASSUME NEW s \in Workgroup, pc'[s] = "done"
        PROVE  Leader(s) /\ output'[led_index(s)] = LedSum(led_index(s))
    <3>1. Leader(s)
      BY <1>0, <1>1, <2>5 DEF AddUp, Stages, Ended
    <3>2. CASE led_index(s) = l
      <4>1. DOMAIN output = Leds
        BY <1>0, Zenon DEF Stages
      <4>2. output'[l] = LedSum(l)
        BY ONLY <2>3, <4>1, l \in Leds, Zenon
      <4> QED BY <3>1, <3>2, <4>2, Zenon
    <3>3. CASE led_index(s) # l
      <4>1. s # t
        BY <2>1, <3>3, Zenon
      <4>2. pc[s] = "done"
        BY <1>0, <2>5, <4>1 DEF AddUp, Stages
      <4>3. output[led_index(s)] = LedSum(led_index(s))
        BY <1>0, <1>1, <4>2, Zenon DEF Ended
      <4>4. led_index(s) \in Leds
        BY <3>1, Zenon DEF Leader, used_thread
      <4>5. DOMAIN output = Leds
        BY <1>0, Zenon DEF Stages
      <4>6. output'[led_index(s)] = output[led_index(s)]
        BY ONLY <2>3, <3>3, <4>4, <4>5, Zenon
      <4> QED BY <3>1, <4>3, <4>6, Zenon
    <3> QED BY <3>1, <3>2, <3>3
  <2> QED BY <1>1, <2>4, <2>5, Zenon DEF Ended
<1>6. Shown'
  BY <1>0 DEF AddUp, Shown, Stages
<1> QED BY <1>1, <1>2, <1>3, <1>4, <1>5, <1>6, Zenon DEF ShaderInv

LEMMA KeptByReadback == ShaderInv /\ Readback => ShaderInv'
<1> SUFFICES ASSUME ShaderInv, Readback
             PROVE  ShaderInv'
  OBVIOUS
<1>0. Imported /\ Stages /\ Nothing /\ Summed /\ Ended /\ Shown
  BY Zenon DEF ShaderInv
<1>1. /\ Imported' /\ (Empty(image)' <=> Empty(image))
      /\ \A l : LedSum(l)' = LedSum(l)
  BY <1>0, SamePixels, Zenon DEF Readback
<1>2. Stages'
  BY <1>0 DEF Readback, Stages
<1>3. Nothing'
  BY <1>0, <1>1 DEF Readback, Nothing
<1>4. Summed' /\ Ended'
  BY DEF Readback, Summed, Ended
<1>5. Shown'
  <2>1. ASSUME NEW l \in Leds
        PROVE  result'[l] = IF Empty(image) THEN Black ELSE LedSum(l)
    <3>1. result'[l] = Average(output[l])
      BY DEF Readback
    <3>2. CASE Empty(image)
      <4>1. output[l] = Black
        BY <1>0, <3>2, Zenon DEF Nothing
      <4> QED BY <3>1, <3>2, <4>1, Dark, Zenon
    <3>3. CASE ~Empty(image)
      <4>1. 0 \in 0 .. threads_per_led - 1
        BY Groups
      <4>2. PICK t \in Workgroup : led_index(t) = l /\ thread_index(t) = 0
        BY <4>1, ThreadOf, Zenon
      <4>3. pc[t] = "done"
        BY <4>2, Zenon DEF Readback, Leader, used_thread
      <4>4. output[l] = LedSum(l)
        BY <1>0, <3>3, <4>2, <4>3, Zenon DEF Ended
      <4>5. IsFiniteSet(LedPixels(l))
        <5>1. \A s \in Workgroup : pc[s] \in {"barrier", "done"}
          BY DEF Readback
        <5>2. \A s \in ThreadsOf(l) : shared[s].seen = Measured(s)
                                      /\ shared[s].count = Cardinality(Measured(s))
          BY <1>0, <3>3, <5>1, Zenon DEF Summed, ThreadsOf
        <5> QED BY <1>0, <3>3, <5>2, AddedUp, Zenon DEF Imported
      <4> QED BY <3>1, <3>3, <4>4, <4>5, Averaged, Zenon
    <3> QED BY <3>2, <3>3
  <2>2. host' = "idle"
    BY DEF Readback
  <2> QED BY <1>1, <2>1, <2>2, Zenon DEF Shown
<1> QED BY <1>1, <1>2, <1>3, <1>4, <1>5, Zenon DEF ShaderInv

LEMMA ShaderNext == ShaderInv /\ [Next]_vars => ShaderInv'
<1> SUFFICES ASSUME ShaderInv, [Next]_vars
             PROVE  ShaderInv'
  OBVIOUS
<1>1. CASE UNCHANGED vars
  <2>1. /\ image' = image /\ short' = short /\ host' = host /\ pc' = pc
        /\ shared' = shared /\ output' = output /\ result' = result
    BY <1>1, Zenon DEF vars
  <2>2. Imported /\ Stages /\ Nothing /\ Summed /\ Ended /\ Shown
    BY Zenon DEF ShaderInv
  <2>3. /\ Imported' /\ (Empty(image)' <=> Empty(image))
        /\ \A t : Measured(t)' = Measured(t) /\ \A l : LedSum(l)' = LedSum(l)
    BY <2>1, <2>2, SamePixels, Zenon
  <2>4. Stages' /\ Nothing'
    BY <2>1, <2>2, <2>3, Zenon DEF Stages, Nothing
  <2>5. Summed'
    BY <2>1, <2>2, <2>3, Zenon DEF Summed
  <2>6. Ended'
    BY <2>1, <2>2, <2>3, Zenon DEF Ended
  <2>7. Shown'
    BY <2>1, <2>2, <2>3, Zenon DEF Shown
  <2> QED BY <2>3, <2>4, <2>5, <2>6, <2>7, Zenon DEF ShaderInv
<1> QED BY <1>1, KeptByDispatch, KeptByReturn, KeptBySumUp, KeptByAddUp, KeptByReadback,
           Zenon DEF Next

\* What is shown when all of that holds.
LEMMA ShaderShows == ShaderInv => MeasuresItsPiece
<1> SUFFICES ASSUME ShaderInv, result # <<>>, NEW l \in Leds, ~Empty(image)
             PROVE  /\ result[l].count = Cardinality(result[l].seen)
                    /\ result[l].seen \subseteq Near(image, l)
                    /\ \A p \in Piece(image, l) : \E q \in result[l].seen :
                         Distance(p[1], q[1]) <= threads_per_led /\ Distance(p[2], q[2]) <= 1
  BY Dark, Zenon DEF MeasuresItsPiece, ShaderInv, Shown
<1>1. result[l] = LedSum(l)
  BY Zenon DEF ShaderInv, Shown
<1>2. result[l].seen = LedPixels(l) /\ result[l].count = Cardinality(LedPixels(l))
  BY <1>1 DEF LedSum
<1>3. /\ LedPixels(l) \subseteq Near(image, l)
      /\ \A p \in Piece(image, l) : \E q \in LedPixels(l) :
           Distance(p[1], q[1]) <= threads_per_led /\ Distance(p[2], q[2]) <= 1
  BY LedCovered, Zenon DEF ShaderInv, Imported
<1> QED BY <1>2, <1>3, Zenon

\* Every LED is given the average of pixels of its own piece of the border, none counted
\* twice and none of the piece far from one of them, whatever the strip, the workgroup,
\* the image, the edges that truncation moves and the order the threads run in.
THEOREM LedsMeasureTheirPieces == Spec => []MeasuresItsPiece
<1>1. Init => ShaderInv
  BY ShaderInit
<1>2. ShaderInv /\ [Next]_vars => ShaderInv'
  BY ShaderNext
<1>3. ShaderInv => MeasuresItsPiece
  BY ShaderShows
<1> QED BY <1>1, <1>2, <1>3, PTL DEF Spec
===============================================================================
