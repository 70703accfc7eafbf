# hal1210 in TLA+

hal1210 drives an LED strip around a television. A daemon captures the screen
through Wayland, averages its border on the GPU and sends one colour per LED to
a microcontroller; it puts the strip out when the seat is idle, and lets
clients (a CLI, Node and Python bindings) draw on the strip themselves. This
directory models the concurrent core of that program, checks it with TLC and
proves the safety properties that matter most with TLAPS, for every value of
the constants. Definitions are translated from the Rust source and carry its
names; `PROJECT.json` maps each to its lines.

## The system

| Part | State | Operations | Talks to |
| --- | --- | --- | --- |
| Handler (`daemon/src/bridge.rs`, `client/session.rs`) | idle, idle-inhibit and manual-mode state, sessions, frame tables, shared `manual_flag` | one handler per channel of a biased `select!`; spawns a task per frame and a timer per timed inhibit | all others, by channels |
| Compute (`daemon/src/gpu`) | `in_flight`, the imported screen image | `dispatch`, `set_screen_dmabuf`, `wait_for_idle`; a blocking thread per frame | Handler: calls and a oneshot |
| LED manager (`daemon/src/led`) | current frame, at most one animation | `LedCommand`s, animation ticks, close | Handler: commands in, `Done`/`Error` out; serial port |
| LED controller (`espled`, `ledcomm`) | receive buffer | read, resynchronise, dispatch, write feedback | serial port |
| Wayland client (`daemon/src/wayland`) | outputs, dmabuf, the capture under way | registry, screencopy and idle-notify events, `Command`s | compositor; Handler |
| Client connections (`daemon/src/client`) | connection table by address, a task per connection | accept, read, write, disconnect, drain | clients by TCP; Handler |
| Client library (`daemoncomm`) | a writer and a reader task, one token, framing | send, read, cancel | client connections |
| Console (`cli`) | its view of manual mode and inhibit, pending requests | keys, drain, shutdown | client library |
| Bindings (`bindings/core`, `python`, `node`) | broadcast ring, receivers, listeners | send, `next_message`, `on_message`, cancel, drop | client library; scripts |
| Border-colour shader (`daemon/shaders`) | workgroup sums, output buffer | which pixels each thread sums, which sums each LED gets | Compute |

What is hard about it: the handler owns the state but not the order of events.
Frames are computed by another thread and finished by tasks that captured the
idle flag earlier; timers may have expired when they are cancelled; the frame
loop is one token that walks from Wayland through the GPU and a task back to
Wayland and is swallowed on purpose while the strip is not automatic; clients
vanish in the middle of manual mode; LED commands land inside animations; any
GPU call, capture or serial write may fail. On the other side of the socket a
console shows modes that others may change and gives them back while its own
connection is being cancelled, a script reads a bounded ring at its own pace, and
an address can come back before the daemon has finished with it. `PROJECT.json` lists each of these
hazards at its line with the property that covers it, or why none does yet.

What makes each part correct:

- **Handler, modes.** Idle exactly when the seat is idle and nothing inhibits;
  manual mode belongs to a connected client; the hand-over flags never describe
  a mode that is over; a timed inhibit ends.
- **Handler, frames.** Automatic operation never loses its token to a change of
  mode; nothing a client drew stays after manual mode; frames are timed once;
  with fair scheduling frames keep coming.
- **LED manager.** The strip comes to rest on the picture asked for last; fades
  end under a stream of new frames; shutdown darkens the strip.
- **LED controller and its feedback.** The buffer never fills up; after damage
  the second whole frame is shown at the latest; each record of write feedback is
  counted once, within a bounded backlog.
- **Wayland client.** One copy per frame, into a buffer of the frame's size, which
  is the dmabuf the handler imported; captures survive overlaps and changes of output.
- **Client connections.** The handler hears each client in order, then that it left,
  then nothing; no client stays known that is not there; answers reach who asked;
  nobody is cut off; a shutdown completes. Messages decode to what was encoded,
  however the stream is cut.
- **Console.** What it shows is what the daemon has once nothing is under way;
  requests settle; it leaves neither manual mode nor, if it can help it, an inhibit.
- **Bindings.** Messages keep their order, are given once, and are lost only by a
  reader that is too slow or to a call that was given up; a client that is let go
  closes its connection.
- **Shader.** Each LED is given the average of its own piece of the border.

## Modules

| Module | What it is |
| --- | --- |
| `Compute` | The GPU dispatch as operators over its own variables; `Bridge` instantiates it |
| `Bridge` | Handler, sessions, timers, frame tasks; Wayland, LED manager and clients as environment |
| `MCBridge` | Request sets and model values for TLC, four configurations |
| `BridgeProofs` | Types and safety invariants of `Bridge`, proved |
| `Strip` | Abstract specification: what whoever commands the strip is promised |
| `LedManager` | The LED manager's task, its animations and its writes |
| `MCLedManager` | Model values for TLC, one configuration |
| `LedManagerProofs` | Type invariant, frame/device invariant and refinement of `Strip`, proved |
| `Screencopy` | The Wayland client's globals, capture and buffer |
| `CaptureLoop` | The client between a compositor and the handler's side of the frame loop |
| `MCCaptureLoop` | Outputs and start-up orders for TLC, one configuration |
| `CaptureLoopProofs` | Types, `BufferIsImported` and `ConnectionKept`, proved |
| `FrameReceiver` | The firmware's receive loop |
| `FeedbackListener` | The daemon's task that parses write feedback |
| `SerialLink` | Both, joined by the serial line, with the daemon's writes and their failures |
| `MCSerialLink` | Symbols, frames and noise for TLC, one configuration |
| `SerialLinkProofs` | Types, the receiver's buffer and clock, its recovery, and the records the daemon counts, proved |
| `Visits` | Abstract specification: what the handler may rely on when clients come and go |
| `ClientMan` | The connection manager and its connection tasks, between clients and a reduced handler |
| `Framing` | The length-prefixed framing, as functions |
| `MCClientMan` | Connections and addresses for TLC, and framing over every cut of short streams |
| `ClientManProofs` | Types, the refinement of `Visits`, and the table's invariants, proved |
| `DaemonClient` | The client library: writer, reader, token and socket, as actions others complete |
| `Console` | The terminal console on `DaemonClient`, and the daemon it talks to |
| `MCConsole` | The menu for TLC |
| `ConsoleProofs` | Types, `ViewIsCurrent` and `InhibitLeftBehind`, proved |
| `Mailbox` | Abstract specification: what a script may rely on when it reads messages |
| `ClientHandle` | The core of the bindings and their listeners on `DaemonClient` |
| `ClientHandleProofs` | Types and the refinement of `Mailbox`, proved |
| `BorderBlocks` | The pixels of each LED: the shader's arithmetic, and a reference for it |
| `BorderColors` | The workgroup that sums them, with its barrier, reset and readback |
| `MCBorderColors` | Images for TLC, and the blocks of real screens |
| `BorderColorsProofs` | `MeasuresItsPiece`, proved |

### Compute and Bridge

Variables carry the names of the `Handler` fields. Its channels are sequences
(`ledEvents`, `clientReqs`, `waylandEvents`, `frameStages`, `ledCmds`, and per
client `replies`, from which the connection manager takes) or counters where messages
do not differ (`idleTimeouts`, `captures`). Each branch of the `select!` is an action,
and since the select is `biased` an action is enabled only when the channels before it
are empty.

A handler is one atomic step. Between its first and last statement the rest of
the process sees only its sends and `manual_flag`; both are set in the order the
handler sets them and no task reads the flag and sends in one step (`CheckManualFlag`
and `LightFrame` are two), so a task can be overtaken by a whole handler. Not
visible is a task that runs between the flag's store and the restoring send
inside `on_manual_state_changed`. The exception to atomicity is
`set_screen_dmabuf`, which blocks in `wait_for_idle`: it is split into
`HandleDmabufCreated` and `FinishImport` with the phase `importing` between.

A frame is a number. `await_compute_dispatch` is a task state per frame
(`waiting`, `ready` or `closed`, `lighting`, `staging`, `finishing`), one step
per send. The task's `idle` argument is left out: a frame is dispatched only
when it is false (bridge.rs:151-154), so the captured value never is true.
`FrameStage::Skipped` is left out because `average_rgb_u8` always returns
`Some`, and the `EmptyDmabuf` arm because `dispatch_with` never returns it.

A timer is the handle the handler holds (`none`, `sleeping`, `fired`) plus the
number of sleeping timers whose handle was overwritten with `None` and which
therefore can no longer be aborted (`orphans`).

`frameLost`, `strip` and the counters are not program state: the first records
that an error ended a frame without a `ComputeDone`, the second what the LED
manager was last told, and the counters bound the runs.

SIGTERM and the future that waits for it are one variable, `signal`. The select polls
`wait_for_signal` only when it finds every branch before it empty (`AwaitSignal`). The
first poll installs tokio's handler; until then the process has the default action and
a signal ends it, which is outside the model (`Signal` is not enabled). A polled future
is `awaited`; a signal then makes it `pending`, and the next round of the select stops
the daemon unless another branch has become ready as well. That branch is taken, the
future is dropped, and with it the signal (`DropSignalFuture`). The next round makes a
future whose stream reports only what comes after its first poll, so a signal that
finds none is `lost` too.

### Strip and LedManager

A frame is abstracted to `Black`, a picture somebody asked for, or `Glow` for
anything lit in between. `HandleLedCommand` has one disjunct per command,
`StepAnimation` is a tick with its write and its error branch, `ExitLoop` is the
end of `run` together with `Esp32Device::close`. The `select!` here is not
biased, so the three compete freely. Time is a number of ticks a fade still
lasts; ticks may come early, late or in bursts. A write reaches the device or
fails. A failed command is reported to the handler (`errors`), a failed tick is
only logged, as in the code. `LeftOn` is what a previous run may have left on
the strip, which `current_frame` knows nothing of.

`Strip` promises that the strip rests only on its goal. `Promise` in
`LedManager` maps its `goal` to the history variable `wanted`, `shown` to
`current_frame` (the device once the manager is gone), `moving` to an animation
being there and `broken` to a write having failed without a later success.
That `current_frame` and the device agree is the separate invariant
`OnlyBlackRunsAhead`: the refinement says where the frame rests, the invariant
when the device may differ.

### Screencopy and CaptureLoop

`Screencopy` has one action per event and per command, on one thread as in the
code. The connection is two queues, `events` and `requests`, each in order. Events
of a frame do not name it, because the code ignores which frame they are for, and
`Failed` of a frame is left out, because it is only logged; `buffer_created` and
`frame_ready_for_copy` are written and never read. `gbm` calls succeed or fail as
one. Seat and idle notifier are left to the environment of `Bridge`.

`CaptureLoop` adds what is outside: a compositor that answers requests in order,
completes a copy when there is damage, announces outputs and takes them away under
names it does not use again; and the handler's end of the loop, which answers a
frame with `ComputeDone` (`owed`), swallows frames while the strip is not
automatic and sends one more command when it is again. That is what `Bridge` says
of `captures`. A second copy into a frame, or one into a buffer of another size, is
`protocolError` and the end, as in the screencopy protocol. `lost` records that a
failed call ended a capture, `hasty` that a capture began, or an output went, too
early for the client to tell the answers apart.

### FrameReceiver, FeedbackListener and SerialLink

A byte is a symbol, so that the magic, the length field (one symbol for its two
bytes, decoded by `Declared`) and a payload can be told apart and confused where
the code would confuse them. A step of `FrameReceiver` is one turn of the inner
loop of `frame_loop`, a read of the FIFO or the overflow check at its top. A read
returns any amount the bound `Chunks` allows, all there is, or all there is room
for. A failing SPI write is only logged, so `pixels` is the frame last handed to
the bus; a failing USB write loses the record, and `Dispatch` may do either.

`FeedbackListener` is the loop of `spawn_feedback_listener`: it reads, takes
records out of the backlog while it finds any, and cuts a backlog that is too
long. It ends when the handler is gone, the port fails or the daemon shuts down.

`SerialLink` writes packets to the line, whole or cut short where the port fails,
and lets others write to the port (`Noise`); what the controller prints when it
boots (`Chatter`) comes before the first record. Three assumptions are named:
`MagicAssumption`, that no end of the magic is a beginning of it, is true of `LEDS`.
`PayloadAssumption` says that no frame contains the magic. The code does not ensure
that: a frame whose pixels spell the magic can be taken for a header after damage,
and recovery then takes longer than `RecoversAfterDamage` says. `ChatterAssumption`
says that what is printed at boot contains no magic of a record. Only the theorem
about recovery uses the first two, and only that about records the third.
`sent`, `intact` and `reported` are history variables.

### Visits, ClientMan and Framing

`ClientMan` has an action per branch of the manager's `select!` and of a
connection's; neither is biased, so branches compete freely. A send to a client is
awaited inside its branch: `WaitForRoom` is a task stuck in one, and it then looks
neither at its socket nor at its token. A disconnect is two actions, because the
manager awaits the task it has cancelled (`removing`), and so is the shutdown
(`draining`). Events, requests and answers carry an address in the code and the
connection they come from here, so that properties can tell what the code cannot;
the manager's actions use nothing but its address. `reused` records the connections
accepted while something of an earlier one from the same address was still under
way. TCP makes that rare, not impossible; the properties name it as their only
exception. `Damaged` stands for bytes that do not decode; the decoder then ends the
stream, as `Framed` does.

The handler is reduced to the set of addresses it knows and one answer to each
message; what it does with messages is `Bridge`. There, `clientReqs` takes messages
and disconnects in any order `Visits` allows, which is what `ImplementsVisits` is for.

`Framing` is `decode` and `encode`, which both sides have the same, and the loop of
`Framed` around them. `MCClientMan` evaluates `CutsDoNotMatter`: two messages and
a damaged tail, in three chunks cut anywhere, give the messages and one error.

### DaemonClient, Console

`DaemonClient` has one action per branch of the two tasks of `Hal1210Client`; both
branch sets compete. A socket takes what is written to it: that a full socket holds
up the writer is left out.

`Console` is the loop of `App::run`: drain, draw and read a key, one action each. A
key that sends nothing is `NoKey`; Enter may send any command of `Menu`, which stands
for a selection that has been moved. `shutdown` is one action that ends with the
cancelled token; the runtime is dropped behind it (`DropRuntime`) and takes both
tasks along, so that the two requests `shutdown` has queued may never be written.
The daemon's side answers as `Bridge` does, and other clients and the timer of an
inhibit change its state (`foreign`), of which a console is not told.

### Mailbox, ClientHandle

The ring of `tokio::sync::broadcast` is external: the newest `Cap` messages and a
position per receiver, which jumps to the oldest one left when it lags. Calls of
`next_message` queue for the lock. Those in `threads` hold the client object, as a
blocking call of Python and a promise of Node do: the script can only give them up
(`Abandon`: `asyncio.wait_for` over `to_thread`, as in the Python examples), and the
call goes on and takes a message nobody reads. The others hold the handle inside the
object and can be withdrawn (a dropped future). Letting go of the client stops its
listeners once no thread holds the object, and cancels the token once no call is left;
`cancel` does both at once, to the listeners registered by then, and may be repeated.

`Mailbox` has no ring: it says which numbers a reader may be given. `Told` are the
readers that learn of a loss. A reader loses messages only where it is more than `Cap`
behind (`Lose`) or to a call that was given up, one each (`Miss`).

### BorderBlocks and BorderColors

A sum is the set of pixels in it and their number. `Block` follows the four branches
of the shader; truncated `f32` products are exact, or one pixel short where the exact
product is whole and the quotient was rounded down (`short`, any subset of those
edges). `Piece` and `Near` say independently which pixels lie before an LED, from
the direction of the strip. `BorderColors` runs the threads of one workgroup in any
order through the barrier; workgroup memory starts as `Junk`. The host resets the
output, waits for the fence and reads. Real sizes are too large to run, so
`MCBorderColors` evaluates `RealScreensFit` on the blocks alone: 264 LEDs on five
screens, inside the image, holding the LED's share, with sums that fit `u32`.

## Runs

| Run | Question | Answer |
| --- | --- | --- |
| `bridge_modes` | Do idle, inhibit and manual state stay consistent under two clients, the seat and timers in every order, is a client's picture removed with its mode, and does a timed inhibit end? | yes |
| `bridge_frames` | With every GPU and capture fault, idle spells, manual mode, LED feedback and a signal: is the loop kept, is each frame timed once, does automatic operation go on frame after frame? | yes, under fairness, until an error costs a frame |
| `bridge_late_frame` | Is an idle strip dark? | no: a late result is shown after the fade-out |
| `bridge_signal` | Does SIGTERM stop the daemon? | no: the future that has seen it may be dropped |
| `led_manager` | Does the strip rest on what was asked last, do fades end, does it go dark at the end? | yes |
| `capture_loop` | Do copies go where the handler looks, does the connection last and do frames keep coming, over changes of output, overlaps and failing calls? | yes, unless a capture begins or an output goes before the last answer is in |
| `serial_link` | Does the controller get back into step after damage without filling its buffer or hanging, and does the daemon count each record once? | yes |
| `client_man` | Does the handler hear each client in order and then that it left, do answers go home, is nobody cut off, does the shutdown complete? | yes, but for an address used again too early |
| `console` | Is the view current, do requests settle, are the modes given back? | yes; an inhibit stays when the console is cut short or did not know of it |
| `bindings` | Do scripts get messages in order and once, are they lost only where a reader is too slow or a call was given up, does a client that is let go close? | yes |
| `bindings_none` | Does a None tell a script that its connection is over? | no: it says that messages were lost |
| `border_colors` | Is each LED given its own piece of the border, in every interleaving? | yes |

The three negative answers are disagreements between the code and its own messages;
`PROJECT.json` quotes the lines and describes each trace.

Known deviations that the passing properties admit by name:

- A frame that finds another in flight is skipped and the loop stops, although the
  message speaks of one frame (bridge.rs:194-196, gpu/mod.rs:328): `FrameLoopAlive`
  counts it as `frameLost`.
- A queued expiry ends the inhibit that replaced the one it was started for
  (bridge.rs:424): `TimedInhibitEnds` is about the deadline, not whose timer ends it.
- A fade-out right behind a fade-in that has not ticked is skipped, and the strip
  stays lit (led/mod.rs:134); after a crash, likewise (led/mod.rs:43).
- A return to automatic operation just after a capture began gives one frame two
  copies, a protocol error that ends the daemon (screencopy.rs:184): `ConnectionKept`
  calls that `hasty`.
- A disconnect that is handled after a new connection from its address removes the
  new one (client/mod.rs:157): `reused` in `ClientMan`. An answer may go there too.
- A client that neither reads nor closes holds up its task, and with it the manager
  that awaits the task (client/mod.rs:246): the fairness of `ClientMan` excludes it.
- The console cancels its connection right behind the requests that give the modes
  back (main.rs:618), and with two overlapping requests its view can say `Disabled`
  while an enable is under way: the inhibit then stays on. Manual mode ends with the
  last client.
- A call of `next_message` that a script gave up takes a message, ahead of the calls
  behind it: `Miss` in `Mailbox`.
- `next_message` never says `None` because the connection has ended, since the handle
  keeps a sender of the ring (run `bindings_none`); a caller waits for ever once the
  daemon has gone. `CancelReleases` asks nothing while a call waits.
- A failed call while commands are recorded, or a panic in the GPU thread, leaves
  `in_flight` set for good (gpu/mod.rs:203, 305-328): each dispatch fails from then on
  and an import spins for ever. `FramesKeepComing` names that state, `InFlightLeaked`.
- A screen smaller than `DEPTH` makes `width - DEPTH` wrap (border-colors lib.rs:118):
  `ShaderAssumption` excludes it.

Bounds, and why they are enough:

- *Clients*: two in `bridge_modes`, because the handler distinguishes only
  "some" and "none left"; one elsewhere. *Requests*: three with two clients allow
  one to enter manual mode, to draw and to leave, or two to replace each other;
  one in `bridge_frames`, which enters manual mode or inhibits idle. That the loop
  survives the way back from manual mode, `BridgeProofs` shows for any number of
  requests; that frames then keep coming, no run shows.
- *Frames*: two, so that a frame can overlap the previous one's tail (send before
  `in_flight` is cleared); three where the third must be missing.
- *Wayland events*: three reports of the seat in `bridge_modes`: idle, active, idle. One
  in `bridge_frames`, where a client's inhibit ends the idle spell.
- *Timeouts*: `0` (acts at once, no timer) and one positive value; the length of a
  sleep is not modelled, a timer may fire at any time.
- *MaxQueued* bounds what may wait in a client or Wayland queue when the next
  is sent. Expiries, stages and LED commands are not bounded by it.
- *LED*: two pictures, so that a retarget can differ from the target; fades of 0
  and 2 ticks: at once, and with a picture between.
- *Captures*: one output that is replaced by one of another size, at any point; one
  return to automatic operation, so that three captures overlap at most (the first,
  the resumed one, that of a new output); as many buffers as can be asked for at
  once and five frames, so that the bounds on them never stop the client; a global
  comes or goes when at most one event waits. Both orders of start-up: linux-dmabuf
  first, as compositors announce it, and last.
- *Serial line*: three writes are damage and the two whole frames it takes to
  recover; a magic of two symbols and frames of four are the smallest in which a
  read can end inside each part; one frame ends as a header begins, and the boot
  messages are as long as a backlog may get without being cut, so that the cut
  falls into the first record. `MaxWaiting` lets a write follow when at most one
  byte waits; `Chunks` of 2 and 3 bytes cut every part of a frame and of a record.

- *Connections*: two, from one address or from two; one client sends two messages so
  that they can be out of order, the other one; a socket takes one answer, so that the
  second send waits. One connection may carry damage.
- *Console*: two requests of the user besides the two at shutdown, so that answers
  overlap a request under way; one change by another client or timer.
- *LED events and signals*: one each in `bridge_frames`. `MaxLedEvents` bounds them in
  total, because the select is biased towards them.
- *Bindings*: a ring of two and four messages, so that a reader can lag with two more
  to come; two calls, so that one can be abandoned or withdrawn and another behind it
  is given what comes next. One call and four messages in `bindings_none`.
- *Shader*: two LEDs along the top and one up the side have every corner and both
  directions; thirteen threads are two to an LED and one left over.

`CHECK_DEADLOCK` is off except in `border_colors`: the processes can stop, and the
bounded environments run out of things to send. In `border_colors` a thread that
misses the barrier would be a deadlock.

## Fairness

- `Bridge`: weak fairness of the handler, of each frame task, of the GPU thread
  that clears `in_flight`, of timers and of captures. Tokio polls woken tasks,
  the thread is an OS thread, a sleep ends, and a compositor answers a capture
  request (`copy_with_damage` waits for damage, so this assumes a screen that
  changes). Nothing is assumed of clients, of the seat or of signals.
- The LED manager reports finitely many events in `Bridge`: the select is biased towards
  them, and an endless stream that is never empty would starve the branches after it.
  The feedback of a real strip comes at most every 8 ms.
- `LedManager`: strong fairness of taking a command and of a tick, because
  `select!` picks at random among ready branches and another branch may be
  ready each time; weak fairness of the exit, of time, and of the handler
  reading errors.
- `CaptureLoop`: weak fairness of the client's two event sources, of the
  compositor's answers, of each copy (a screen that changes) and of the handler's
  answers. Nothing is assumed of outputs or of changes of mode.
- `SerialLink`: weak fairness of the controller, whose firmware does nothing
  else. Nothing is assumed of the line or of the daemon.

- `ClientMan`: weak fairness of each connection task, of the manager and of the
  handler, which tokio polls; of clients only that they read what they are sent, as
  the reader task of the library does, or close. A branch of an unbiased `select!`
  that stays ready is taken in the end, and none of these tasks has an endless supply
  of other work.
- `Console`: weak fairness of the loop, which waits 100 ms for a key at most, of both
  tasks of the library and of the daemon. Nothing is assumed of the user.
- `ClientHandle`: weak fairness of the cancelled branches, which stay ready, and of
  listeners. Nothing is assumed of the script; of the daemon only that a full socket
  does not hold up a write for ever, since the writer then does not look at its token
  (`WriterSend` is one step).

## Proofs

TLAPS checks these for all constants that satisfy the named assumptions: time-outs
and bounds are naturals, sizes and rings are not empty, requests come from the
protocol; the LED pictures, `Black`, `Glow` and `Endless` are distinct, as are the
fixed Wayland names and the outputs; `None` is no connection, output, frame or
buffer; a block of the shader has a column for each thread of its LED (it needs 255, an
image has at least 500); and what the sections above say of the serial line. Bounds on the environment
(`MaxQueued`, `MaxWaiting`, `MaxEvents`, ...) are arbitrary there.

- `BridgeProofs`, types. The type invariant is inductive: one lemma per
  action. It also says that ids of dispatched frames are below the counter's
  bound and each queue holds what its reader expects.
- `BridgeProofs`, modes. `EffectiveIdle`, `ManualModeOwned`, `HandOverFlags` and
  `InhibitWillEnd` are not inductive one by one: leaving manual mode reads the
  idle state, and an expiry changes inhibit and idle at once. Their conjunction
  `ModeInv` is.
- `BridgeProofs`, frames. `StagesMatchStarts` needs to know that a task which
  has not reported its stage still has its start in the table and no stage
  queued, and that ids not yet given out appear nowhere; `StageInv` adds both.
- `BridgeProofs`, pictures. `NoClientPictureLeft` needs that the remembered
  automatic frame is never a client's (`PictureInv`).
- `BridgeProofs`, loop. `FrameLoopAlive` is inductive with the types: each step
  that takes the token away while automatic either puts one elsewhere, leaves
  automatic operation or records a lost frame; each step into automatic
  operation sends a `ComputeDone`.
- `LedManagerProofs`. `OnlyBlackRunsAhead` is inductive. The refinement
  `KeepsPromise` needs that a fade's target is what was asked for last
  (`FadesToGoal`); each command maps to `Show` or `Begin`, a tick to `Move`,
  `Settle` or `Break`, the exit to `Show(Dark)` or `Break`, the rest stutters.
  `RestsOnGoal` carries the abstract invariant `AtRest` back to the manager.
- `SerialLinkProofs`, buffer. `BufferInv` joins `BufferNeverFull` and
  `ClockRunsForHeader`, which hold between reads, with what holds inside the inner
  loop: the buffer is within its length, and a running clock means that its header
  heads the buffer. An incomplete frame is smaller than the buffer because an
  oversized one was dropped before; the rest holds less than a header. Both for
  every magic, frame length, decoding of lengths and bytes on the line.
- `SerialLinkProofs`, recovery. `DamageInv` reads buffer and line as one: `x` symbols
  of anything, then `n` whole frames (`Frames`). Either all frames written since the
  last damage are among the `n`; or one is missing and the `x` symbols are the rest
  of a frame, in which no header stands (`InStep`); or nothing is left and the last
  frame is shown. A cut that begins before the frames ends inside the first at the
  latest (`CutRecovers`), because no header reaches further than a frame; inside the
  rest of a frame the receiver only shifts (`HeaderInStep`).
- `SerialLinkProofs`, records. `RecordsInv`: what the listener has not parsed is the
  end of the boot messages and then whole records, as many as are not counted
  (`Holds`). The first magic in the backlog is that of the first record
  (`RecordFound`), and a cut of the backlog takes boot messages only, since a backlog
  without a record is shorter than they and one record.
- `CaptureLoopProofs`. `BufferIsImported` follows from `ToldInv`: the buffer being
  created is the one the handler was told of last. `ConnectionKept` needs to know
  where a capture is: at most one event or request that leads to a copy is on its way
  (`OneCapture`), the buffer is of the output's size (`Fits`), a frame has been asked
  one copy (`OneCopy`); `CaptureInv` is their conjunction, unless `hasty`, and
  `TargetInv` says whose frame it is.
- `ClientManProofs`, order. `ImplementsVisits` maps what was heard of a connection to
  `Visits`. `OrderInv` places each message not yet heard: in the handler's two
  channels or the disconnect that waits (`Way`), in order and without gaps, then in
  the socket, then with the client; and the disconnect behind all of them.
- `ClientManProofs`, table. `NoPhantomClient`, `AnswersGoHome` and `NobodyCutOff` share
  `TableInv`: the table has the connection accepted last from an address, and those
  before it are gone and answered, unless the address was used again too early.
- `ClientHandleProofs`. `ImplementsMailbox` needs that the ring holds the newest of an
  unbroken sequence of numbers (`Numbered`), that no more messages come than answers
  were asked for (`Bounded`), and that a listener not registered was given nothing. A
  call that returns maps to `Hand` or `Lose`, to `Miss` if it was given up.
- `ConsoleProofs`. `ViewIsCurrent` follows from `Truth`, a statement about the last
  answer on a mode, wherever it is: it is true, unless others changed the mode; a
  queue that has an answer has a last one (`LastPlace`, by well-foundedness).
  `InhibitLeftBehind` follows the request that gives the inhibit back: it is the last
  of the channel, or of the socket, or was handled (`Returned`); the daemon hears of
  the connection's end only behind it (`Over`).
- `BorderColorsProofs`. `MeasuresItsPiece`, in three parts. Where a block is: its edges
  are within a pixel of the exact ones (`Edges`), so that a block, widened by `PADDING`,
  holds its LED's piece and lies near it (`BlockHoldsPiece`). What is measured: the walk
  is once at each pixel of a block (`Walk`), no two threads of a LED take the same step
  (`LedMeasures`), one of the next or last `threads_per_led` steps is taken
  (`NextMeasured`), and the sum of the threads' counts is the number of their pixels
  together (`CountedOnce`, by bijections). When: `ShaderInv` says that a thread at the
  barrier has its sum and that a leader ends behind all of them.

Only model-checked: the liveness properties (`TimedInhibitEnds`,
`FramesKeepComing`, `FadesEnd`, `GoesDark`, `InnerLoopEnds`, `CapturesKeepComing`,
`StopCompletes`, `RequestsSettle`, `ModeReleased`, `CancelReleases`),
since fairness and `ENABLED` are out of the prover's reach; and what `Framing`
computes, a fold, which would need induction.

## Not modelled, and the plan

Not modelled: start-up, Vulkan and DRM calls (they succeed or fail as one), the
contents of frames, the serialized form of messages (`ser_de.rs`) and their conversion
to JSON, wording of replies and logs, drawing and editing in the console, the Kinect,
CEC and network stubs, which the daemon does not use. Of the Wayland client: a second
output is ignored and not remembered while one is bound (wayland/mod.rs:241), a seat
that comes back gets no idle notification (wayland/mod.rs:187), and a buffer is made
once per output whatever later frames offer (screencopy.rs:198); the models keep one
seat and outputs of one size. A frame finished in manual mode keeps its entry in
`frame_starts` for ever (bridge.rs:176); `BridgeProofs` shows the leak, and no property
speaks of it.

The order of what follows, most important first:

1. `Bridge` with `ClientMan` in place of its clients and with `LedManager` in place of
   its strip: the strip's ownership as an abstract specification of both.
