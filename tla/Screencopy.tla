------------------------------ MODULE Screencopy ------------------------------
(***************************************************************************)
(* The daemon's Wayland client (daemon/src/wayland): it binds globals as   *)
(* the registry announces them, captures its output frame by frame into a  *)
(* dmabuf of its own and tells the handler of the dmabuf and of each copy. *)
(*                                                                         *)
(* One step handles one event of the compositor or one command of the      *)
(* handler.  The capture events are dispatched without looking at which    *)
(* frame they are for; Failed is only logged and is left out.              *)
(***************************************************************************)
EXTENDS Integers, SequencesExt

CONSTANTS
  Outputs, Manager, Dmabuf,   \* names of globals: wl_outputs, screencopy, linux-dmabuf
  Size,                       \* the size of each output
  Frames,                     \* bound: screencopy frames, used again when forgotten
  Copies,                     \* bound: buffers of the size of one output
  Faults,                     \* calls that may fail
  None

ASSUME ScreencopyAssumption ==
  /\ Manager \notin Outputs /\ Dmabuf \notin Outputs /\ Manager # Dmabuf
  /\ DOMAIN Size = Outputs
  /\ None \notin Outputs \cup {Manager, Dmabuf} \cup Frames \cup [size : Range(Size), copy : Copies]

VARIABLES
  output, screencopy, dmabuf, \* the bound globals
  gbmDevice,                  \* gbm_device is there
  buffer,                     \* the wl_buffer copies go to
  frame,                      \* State::frame
  events,                     \* from the compositor
  requests,                   \* to the compositor
  commands,                   \* ComputeDone commands of the handler
  told,                       \* the dmabuf of the last DmabufCreated
  owed,                       \* FrameReady events the handler has not answered
  copying,                    \* what the compositor copies a frame into
  lost,                       \* history: an error ended a capture
  hasty                       \* history: a capture began before the last one's copy was asked
                              \* for, or an output went before its buffer was created

bindings   == <<output, screencopy, dmabuf, gbmDevice>>
clientVars == <<bindings, buffer, frame, events, requests, commands, told, owed, lost, hasty>>

-------------------------------------------------------------------------------
Names   == Outputs \cup {Manager, Dmabuf}
Sizes   == Range(Size)
Buffers == [size : Sizes, copy : Copies]

Global(n)        == [event |-> "Global", name |-> n]
GlobalRemove(n)  == [event |-> "GlobalRemove", name |-> n]
MainDevice       == [event |-> "MainDevice"]
LinuxDmabuf(s)   == [event |-> "LinuxDmabuf", size |-> s]
BufferDone       == [event |-> "BufferDone"]
Created(b)       == [event |-> "Created", buffer |-> b]
CreateFailed     == [event |-> "CreateFailed"]
Ready(b)         == [event |-> "Ready", buffer |-> b]

GetFeedback      == [request |-> "GetFeedback"]
Capture(f, o)    == [request |-> "Capture", frame |-> f, output |-> o]
Create(b)        == [request |-> "Create", buffer |-> b]
Copy(f, b)       == [request |-> "Copy", frame |-> f, buffer |-> b]

EventSet ==
  {Global(n) : n \in Names} \cup {GlobalRemove(n) : n \in Names}
    \cup {LinuxDmabuf(s) : s \in Sizes} \cup {Created(b) : b \in Buffers}
    \cup {Ready(b) : b \in Buffers} \cup {MainDevice, BufferDone, CreateFailed}

RequestSet ==
  {GetFeedback} \cup {Create(b) : b \in Buffers}
    \cup {Capture(f, o) : f \in Frames, o \in Outputs}
    \cup {Copy(f, b) : f \in Frames, b \in Buffers}

ClientTypeOK ==
  /\ output \in Outputs \cup {None}
  /\ screencopy \in {Manager, None} /\ dmabuf \in {Dmabuf, None}
  /\ {gbmDevice, lost, hasty} \subseteq BOOLEAN
  /\ {buffer, told} \subseteq Buffers \cup {None}
  /\ frame \in Frames \cup {None}
  /\ events \in Seq(EventSet) /\ requests \in Seq(RequestSet)
  /\ commands \in Nat /\ owed \in Nat

ClientInit ==
  /\ output = None /\ screencopy = None /\ dmabuf = None /\ gbmDevice = FALSE
  /\ buffer = None /\ frame = None /\ told = None
  /\ requests = <<>> /\ commands = 0 /\ owed = 0
  /\ lost = FALSE /\ hasty = FALSE

-------------------------------------------------------------------------------
\* The client waits for a buffer; an event that asks for a copy is still to come.
CreateDue ==
  \/ \E e \in Range(events) : e.event \in {"Created", "CreateFailed"}
  \/ \E r \in Range(requests) : r.request = "Create"

CopyDue ==
  \/ CreateDue
  \/ \E e \in Range(events) : e.event = "BufferDone"
  \/ \E r \in Range(requests) : r.request = "Capture"

FreeFrames ==
  {f \in Frames \ {frame} :
     /\ copying[f] = None
     /\ \A r \in Range(requests) : r.request \in {"Capture", "Copy"} => r.frame # f}

FreeBuffers(s) ==
  {b \in Buffers \ {buffer, told} :
     /\ b.size = s
     /\ \A f \in Frames : copying[f] # b
     /\ \A r \in Range(requests) : r.request \in {"Create", "Copy"} => r.buffer # b
     /\ \A e \in Range(events) : e.event \in {"Created", "Ready"} => e.buffer # b}

\* capture_output, its frame stored over the last one.
CaptureOutput(o) ==
  /\ FreeFrames # {}                                                      \* bound
  /\ frame' = CHOOSE f \in FreeFrames : TRUE
  /\ requests' = Append(requests, Capture(frame', o))
  /\ hasty' = (hasty \/ CopyDue)

\* Mutant: the manager is checked, the output is not.
RequestScreencopyFrameUnchecked ==
  IF screencopy # None THEN CaptureOutput(output) ELSE UNCHANGED <<frame, requests, hasty>>

\* request_screencopy_frame
RequestScreencopyFrame ==
  IF screencopy # None /\ output # None
  THEN CaptureOutput(output)
  ELSE UNCHANGED <<frame, requests, hasty>>

\* screencopy_frame
ScreencopyFrame(b) ==
  requests' = IF frame # None /\ b # None THEN Append(requests, Copy(frame, b)) ELSE requests

\* request_create_dmabuf_buffer
RequestCreateDmabufBuffer(s) ==
  \/ /\ dmabuf # None /\ gbmDevice
     /\ FreeBuffers(s) # {}                                               \* bound
     /\ told' = CHOOSE b \in FreeBuffers(s) : TRUE
     /\ requests' = Append(requests, Create(told'))
     /\ UNCHANGED lost
  \/ /\ dmabuf = None \/ ~gbmDevice \/ "gbm" \in Faults
     /\ lost' = TRUE
     /\ UNCHANGED <<told, requests>>

-------------------------------------------------------------------------------
TakeEvent(e) == events # <<>> /\ Head(events) = e /\ events' = Tail(events)

\* Another output is ignored while one is bound.
BindOutput(n) ==
  /\ TakeEvent(Global(n))
  /\ IF output # None
     THEN UNCHANGED <<output, frame, requests, hasty>>
     ELSE /\ output' = n
          /\ IF screencopy # None
             THEN CaptureOutput(n)
             ELSE UNCHANGED <<frame, requests, hasty>>
  /\ UNCHANGED <<screencopy, dmabuf, gbmDevice, buffer, commands, told, owed, lost>>

BindManager ==
  /\ TakeEvent(Global(Manager))
  /\ IF screencopy # None
     THEN UNCHANGED <<screencopy, frame, requests, hasty>>
     ELSE /\ screencopy' = Manager
          /\ IF output # None
             THEN CaptureOutput(output)
             ELSE UNCHANGED <<frame, requests, hasty>>
  /\ UNCHANGED <<output, dmabuf, gbmDevice, buffer, commands, told, owed, lost>>

BindDmabuf ==
  /\ TakeEvent(Global(Dmabuf))
  /\ dmabuf' = Dmabuf
  /\ requests' = IF dmabuf = None THEN Append(requests, GetFeedback) ELSE requests
  /\ UNCHANGED <<output, screencopy, gbmDevice, buffer, frame, commands, told, owed, lost,
                 hasty>>

\* Mutant: the buffer outlives its output.
HandleGlobalRemoveKeepsBuffer(n) ==
  /\ TakeEvent(GlobalRemove(n))
  /\ output'     = IF n = output THEN None ELSE output
  /\ screencopy' = IF n = screencopy THEN None ELSE screencopy
  /\ dmabuf'     = IF n = dmabuf THEN None ELSE dmabuf
  /\ gbmDevice'  = (gbmDevice /\ n # dmabuf)
  /\ buffer'     = IF n = dmabuf THEN None ELSE buffer
  /\ frame'      = IF n \in {output, screencopy, dmabuf} THEN None ELSE frame
  /\ lost'       = (lost \/ n = dmabuf)
  /\ hasty'      = (hasty \/ (n = output /\ CreateDue))
  /\ UNCHANGED <<requests, commands, told, owed>>

\* Nothing begins a capture again when the dmabuf global comes back.
HandleGlobalRemove(n) ==
  /\ TakeEvent(GlobalRemove(n))
  /\ output'     = IF n = output THEN None ELSE output
  /\ screencopy' = IF n = screencopy THEN None ELSE screencopy
  /\ dmabuf'     = IF n = dmabuf THEN None ELSE dmabuf
  /\ gbmDevice'  = (gbmDevice /\ n # dmabuf)
  /\ buffer'     = IF n \in {output, dmabuf} THEN None ELSE buffer
  /\ frame'      = IF n \in {output, screencopy, dmabuf} THEN None ELSE frame
  /\ lost'       = (lost \/ n = dmabuf)
  /\ hasty'      = (hasty \/ (n = output /\ CreateDue))
  /\ UNCHANGED <<requests, commands, told, owed>>

\* The GBM device is opened, or cannot be.
OpenDevice ==
  /\ TakeEvent(MainDevice)
  /\ gbmDevice' \in {TRUE} \cup (IF "device" \in Faults THEN {gbmDevice} ELSE {})
  /\ UNCHANGED <<output, screencopy, dmabuf, buffer, frame, requests, commands, told, owed,
                 lost, hasty>>

\* The first offer of a buffer type without a buffer makes one.
HandleLinuxDmabuf(s) ==
  /\ TakeEvent(LinuxDmabuf(s))
  /\ IF buffer = None
     THEN RequestCreateDmabufBuffer(s)
     ELSE UNCHANGED <<told, requests, lost>>
  /\ UNCHANGED <<bindings, buffer, frame, commands, owed, hasty>>

HandleBufferDone ==
  /\ TakeEvent(BufferDone)
  /\ ScreencopyFrame(buffer)
  /\ UNCHANGED <<bindings, buffer, frame, commands, told, owed, lost, hasty>>

\* Mutant: the first buffer is kept.
HandleCreatedKeepsFirst(b) ==
  /\ TakeEvent(Created(b))
  /\ buffer' = IF buffer = None THEN b ELSE buffer
  /\ ScreencopyFrame(buffer')
  /\ UNCHANGED <<bindings, frame, commands, told, owed, lost, hasty>>

\* Mutant: the copy is left to BufferDone.
HandleCreatedOnly(b) ==
  /\ TakeEvent(Created(b))
  /\ buffer' = b
  /\ UNCHANGED <<bindings, frame, requests, commands, told, owed, lost, hasty>>

\* The frame may have waited for the buffer.
HandleCreated(b) ==
  /\ TakeEvent(Created(b))
  /\ buffer' = b
  /\ ScreencopyFrame(b)
  /\ UNCHANGED <<bindings, frame, commands, told, owed, lost, hasty>>

HandleCreateFailed ==
  /\ TakeEvent(CreateFailed)
  /\ lost' = TRUE
  /\ UNCHANGED <<bindings, buffer, frame, requests, commands, told, owed, hasty>>

\* FrameReady is sent; whichever frame is stored is forgotten.
HandleReady(b) ==
  /\ TakeEvent(Ready(b))
  /\ owed' = owed + 1
  /\ frame' = None
  /\ UNCHANGED <<bindings, buffer, requests, commands, told, lost, hasty>>

HandleCommand ==
  /\ commands > 0
  /\ commands' = commands - 1
  /\ RequestScreencopyFrame
  /\ UNCHANGED <<bindings, buffer, events, told, owed, lost>>

HandleEvent ==
  \/ \E n \in Outputs : BindOutput(n)
  \/ BindManager
  \/ BindDmabuf
  \/ \E n \in Names : HandleGlobalRemove(n)
  \/ OpenDevice
  \/ \E s \in Sizes : HandleLinuxDmabuf(s)
  \/ HandleBufferDone
  \/ \E b \in Buffers : HandleCreated(b) \/ HandleReady(b)
  \/ HandleCreateFailed

ClientNext == HandleEvent \/ HandleCommand
==============================================================================
