------------------------------ MODULE BorderColors ------------------------------
(***************************************************************************)
(* The compute shader that measures the border of the screen               *)
(* (daemon/shaders/border-colors/src/lib.rs), one workgroup for one image, *)
(* and the host's side of it (daemon/src/gpu): the output is reset before  *)
(* a dispatch and read behind its fence.  A sum is the set of pixels that  *)
(* went into it and how many they were.                                    *)
(***************************************************************************)
EXTENDS BorderBlocks, FiniteSets

CONSTANTS
  Threads,              \* in the workgroup, 1024 in the code
  Images,               \* width, height and bytes_per_pixel of what may be imported
  Junk                  \* a pixel of no image: what workgroup memory starts with

Workgroup   == 0 .. Threads - 1
Empty(i)    == i.width = 0 \/ i.height = 0 \/ i.bytes_per_pixel < 3

threads_per_led == Threads \div Cardinality(Leds)

\* "must be less than height", says shadercomm of DEPTH; the shader subtracts it.  A
\* block has a column for each thread of its LED: along the top the code needs 85 * 3
\* of them, and no image it can read is less than DEPTH, 500, wide.
ASSUME ShaderAssumption ==
  /\ Threads \in Nat /\ Threads >= Cardinality(Leds)
  /\ threads_per_led <= DEPTH
  /\ \A i \in Images :
       /\ i.width \in Nat /\ i.height \in Nat /\ i.bytes_per_pixel \in Nat
       /\ \/ Empty(i)
          \/ i.width >= DEPTH /\ i.height >= DEPTH /\ i.width >= TOP_LEDS * threads_per_led

VARIABLES
  image,                \* what was imported last
  short,                \* the edges that truncation puts a pixel too low
  host,                 \* idle, waiting for the fence
  pc,                   \* of each thread: off, summing, barrier, done
  shared,               \* WorkgroupSums
  output,               \* AverageBuffer
  result                \* the averages read from it, or none

vars == <<image, short, host, pc, shared, output, result>>

Sum(pixels) == [seen |-> pixels, count |-> Cardinality(pixels)]
Zero        == Sum({})
Pending     == Sum({Junk})                   \* never measured

-------------------------------------------------------------------------------
(* Which pixels a thread measures.                                            *)

led_index(t)    == t \div threads_per_led
thread_index(t) == t % threads_per_led
used_thread(t)  == led_index(t) \in Leds

Leader(t) == used_thread(t) /\ thread_index(t) = 0

\* Mutant: the block is walked with its height for its width.
MeasuredByColumn(t) ==
  LET b == Block(image, short, led_index(t))
      height == b.y_max - b.y_min
      pixels_in_block == (b.x_max - b.x_min) * height IN
  {<<b.x_min + (i % height), b.y_min + (i \div height)>> :
     i \in {j \in 0 .. pixels_in_block - 1 : j % (2 * threads_per_led) = thread_index(t)}}

\* The threads of a LED leave out as many pixels as they measure: each strides
\* over twice their number.
Measured(t) ==
  LET b == Block(image, short, led_index(t))
      width == b.x_max - b.x_min
      pixels_in_block == width * (b.y_max - b.y_min) IN
  {<<b.x_min + (i % width), b.y_min + (i \div width)>> :
     i \in {j \in 0 .. pixels_in_block - 1 : j % (2 * threads_per_led) = thread_index(t)}}

-------------------------------------------------------------------------------

Init ==
  /\ image \in Images /\ short = {}
  /\ host = "idle"
  /\ pc = [t \in Workgroup |-> "off"]
  /\ shared = [t \in Workgroup |-> Pending]
  /\ output = [l \in Leds |-> Zero]
  /\ result = <<>>

\* dispatch_with resets the output.  Workgroup memory has no defined content.
Dispatch ==
  /\ host = "idle" /\ host' = "waiting"
  /\ image' \in Images
  /\ short' \in SUBSET Whole(image')
  /\ pc' = [t \in Workgroup |-> "summing"]
  /\ shared' = [t \in Workgroup |-> Pending]
  /\ output' = [l \in Leds |-> Zero]
  /\ result' = <<>>

\* Nothing to measure: every thread writes all of the output.
Return(t) ==
  /\ pc[t] = "summing" /\ Empty(image)
  /\ pc' = [pc EXCEPT ![t] = "done"]
  /\ output' = [l \in Leds |-> Zero]
  /\ UNCHANGED <<image, short, host, shared, result>>

\* Threads that no LED is left for go to the barrier too.
SumUp(t) ==
  /\ pc[t] = "summing" /\ ~Empty(image)
  /\ pc' = [pc EXCEPT ![t] = "barrier"]
  /\ shared' = IF used_thread(t) THEN [shared EXCEPT ![t] = Sum(Measured(t))] ELSE shared
  /\ UNCHANGED <<image, short, host, output, result>>

\* What a leader adds up: the sums of its LED's threads.  The sum of the counts is the
\* size of a set that has count members for each thread.
Total(led) ==
  LET parts == {t \in Workgroup : used_thread(t) /\ led_index(t) = led} IN
  [seen  |-> UNION {shared[t].seen : t \in parts},
   count |-> Cardinality(UNION {{t} \X (1 .. shared[t].count) : t \in parts})]

\* control_barrier lets a thread go on when all have arrived; the others end there.
AddUp(t) ==
  /\ pc[t] = "barrier" /\ Leader(t)
  /\ \A s \in Workgroup : pc[s] # "summing"
  /\ pc' = [pc EXCEPT ![t] = "done"]
  /\ output' = [output EXCEPT ![led_index(t)] = Total(led_index(t))]
  /\ UNCHANGED <<image, short, host, shared, result>>

\* average_rgb: a LED without pixels is black.
Average(sum) == IF sum.count = 0 THEN Zero ELSE sum

\* The fence is signalled when every thread has ended.
Readback ==
  /\ host = "waiting" /\ host' = "idle"
  /\ \A t \in Workgroup : pc[t] = "done" \/ (pc[t] = "barrier" /\ ~Leader(t))
  /\ result' = [l \in Leds |-> Average(output[l])]
  /\ pc' = [t \in Workgroup |-> "off"]
  /\ UNCHANGED <<image, short, shared, output>>

Next ==
  \/ Dispatch \/ Readback
  \/ \E t \in Workgroup : Return(t) \/ SumUp(t) \/ AddUp(t)

Spec == Init /\ [][Next]_vars

-------------------------------------------------------------------------------
(* Properties.                                                                *)

Distance(a, b) == IF a < b THEN b - a ELSE a - b

\* Every LED is given the average of its own piece of the border, in the order of
\* the strip: of pixels of this image that belong to the piece or its padding, none
\* counted twice, and so that no pixel of the piece is further from a measured one
\* than the threads of a LED are many.  An image that cannot be read gives black.
MeasuresItsPiece ==
  result # <<>> =>
    \A l \in Leds :
      IF Empty(image) THEN result[l] = Zero
      ELSE /\ result[l].count = Cardinality(result[l].seen)
           /\ result[l].seen \subseteq Near(image, l)
           /\ \A p \in Piece(image, l) : \E q \in result[l].seen :
                Distance(p[1], q[1]) <= threads_per_led /\ Distance(p[2], q[2]) <= 1
===============================================================================
