--------------------------- MODULE CaptureLoopProofs ---------------------------
(***************************************************************************)
(* Theorems about the Wayland client and the compositor, for every set of  *)
(* outputs, frames, buffers and faults, every order the globals come in    *)
(* and go, and every number of captures that overlap.                      *)
(*   TypeOK      is inductive by itself;                                   *)
(*   ToldInv     the buffer that is being created is the one the handler   *)
(*               was told of, from which BufferIsImported follows;         *)
(*   CaptureInv  without haste captures come one after the other, from     *)
(*               which ConnectionKept follows.                             *)
(***************************************************************************)
EXTENDS CaptureLoop, SequenceTheorems, TLAPS

-------------------------------------------------------------------------------
(* The invariants.                                                            *)

\* The events that lead to a copy, and the requests that lead to them.
Stage(e)  == e.event \in {"LinuxDmabuf", "BufferDone", "Created", "CreateFailed"}
Answer(e) == e.event \in {"Created", "CreateFailed"}
Begins(r) == r.request \in {"Capture", "Create"}

\* The last buffer that is being created is the one the handler was told of.
ToldInv ==
  /\ \A i \in 1 .. Len(requests) : requests[i].request = "Create" =>
       \/ requests[i].buffer = told
       \/ \E j \in i + 1 .. Len(requests) : requests[j].request = "Create"
  /\ \A i \in 1 .. Len(events) : Answer(events[i]) =>
       \/ events[i].event = "Created" => events[i].buffer = told
       \/ \E j \in i + 1 .. Len(events) : Answer(events[j])
       \/ \E j \in 1 .. Len(requests) : requests[j].request = "Create"
  /\ ~CreateDue /\ buffer # None => buffer = told

\* A capture is offered a buffer and asks for a copy before the next one begins; a
\* buffer is created while there is none.
OneCapture ==
  /\ \A i, j \in 1 .. Len(events) : i < j /\ Stage(events[i]) /\ Stage(events[j]) =>
       \/ events[i].event = "LinuxDmabuf" /\ events[j].event = "BufferDone"
       \/ events[i].event = "BufferDone" /\ Answer(events[j])
  /\ \A i, j \in 1 .. Len(requests) : i < j => ~Begins(requests[i]) \/ ~Begins(requests[j])
  /\ \A i \in 1 .. Len(events), j \in 1 .. Len(requests) :
       Stage(events[i]) /\ Begins(requests[j]) =>
         events[i].event = "BufferDone" /\ requests[j].request = "Create"
  /\ \A i \in 1 .. Len(events) : events[i].event = "LinuxDmabuf" =>
       i < Len(events) /\ events[i + 1].event = "BufferDone"
  /\ \A i \in 1 .. Len(events) : events[i].event = "BufferDone" /\ CreateDue => buffer = None

\* The buffer that is offered, created or there is of the size of the output.
Fits ==
  /\ \A i \in 1 .. Len(events) : events[i].event = "LinuxDmabuf" =>
       /\ output # None /\ events[i].size = Size[output]
       /\ \A j \in 1 .. i - 1 : events[j].event = "GlobalRemove" => events[j].name # output
  /\ \A i \in 1 .. Len(events) : events[i].event = "Created" =>
       output # None /\ events[i].buffer.size = Size[output]
  /\ \A i \in 1 .. Len(requests) : requests[i].request = "Create" =>
       output # None /\ requests[i].buffer.size = Size[output]
  /\ buffer # None => output # None /\ buffer.size = Size[output]

\* A frame is asked a copy once, before it has one, in a buffer of its size.
OneCopy ==
  /\ CopyDue /\ frame # None =>
       /\ copying[frame] = None
       /\ \A i \in 1 .. Len(requests) : requests[i].request = "Copy" => requests[i].frame # frame
  /\ \A i \in 1 .. Len(requests) : requests[i].request = "Copy" =>
       LET f == requests[i].frame IN
       /\ copying[f] = None
       /\ target[f] # None => requests[i].buffer.size = Size[target[f]]
       /\ \A j \in 1 .. Len(requests) : j # i /\ requests[j].request \in {"Capture", "Copy"} =>
            requests[j].frame # f

\* A frame under way is captured from the client's output, which is there, and a
\* capture on its way is too, or its output is gone.
TargetInv ==
  /\ \A n \in gone : n \notin present
  /\ \A i \in 1 .. Len(events) : events[i].event = "GlobalRemove" => events[i].name \in gone
  /\ \A f \in Frames : target[f] # None => target[f] = output /\ output \in present
  /\ \A i \in 1 .. Len(requests) : requests[i].request = "Capture" =>
       requests[i].output = output \/ requests[i].output \in gone

CaptureInv == hasty \/ (OneCapture /\ Fits /\ OneCopy /\ ~protocolError)

-------------------------------------------------------------------------------
(* Types.                                                                     *)

\* Events and requests are what they are named.
LEMMA Members ==
  /\ \A n \in Names : Global(n) \in EventSet /\ GlobalRemove(n) \in EventSet
  /\ \A s \in Sizes : LinuxDmabuf(s) \in EventSet
  /\ \A b \in Buffers : Created(b) \in EventSet /\ Ready(b) \in EventSet
  /\ MainDevice \in EventSet /\ BufferDone \in EventSet /\ CreateFailed \in EventSet
  /\ GetFeedback \in RequestSet
  /\ \A b \in Buffers : Create(b) \in RequestSet
  /\ \A f \in Frames, o \in Outputs : Capture(f, o) \in RequestSet
  /\ \A f \in Frames, b \in Buffers : Copy(f, b) \in RequestSet
  BY DEF EventSet, RequestSet

\* The fields of an event and of a request.
LEMMA Fields ==
  /\ \A n : /\ Global(n).event = "Global" /\ Global(n).name = n
            /\ GlobalRemove(n).event = "GlobalRemove" /\ GlobalRemove(n).name = n
  /\ \A s : LinuxDmabuf(s).event = "LinuxDmabuf" /\ LinuxDmabuf(s).size = s
  /\ \A b : /\ Created(b).event = "Created" /\ Created(b).buffer = b
            /\ Ready(b).event = "Ready" /\ Ready(b).buffer = b
            /\ Create(b).request = "Create" /\ Create(b).buffer = b
  /\ MainDevice.event = "MainDevice" /\ BufferDone.event = "BufferDone"
  /\ CreateFailed.event = "CreateFailed" /\ GetFeedback.request = "GetFeedback"
  /\ \A f, o : /\ Capture(f, o).request = "Capture" /\ Capture(f, o).frame = f
               /\ Capture(f, o).output = o
  /\ \A f, b : Copy(f, b).request = "Copy" /\ Copy(f, b).frame = f /\ Copy(f, b).buffer = b
  BY DEF Global, GlobalRemove, MainDevice, LinuxDmabuf, BufferDone, Created, CreateFailed, Ready,
         GetFeedback, Capture, Create, Copy

\* The buffer and the size in an event.
LEMMA EventMember ==
  /\ \A e \in EventSet : e.event = "Created" => e.buffer \in Buffers
  /\ \A e \in EventSet : e.event = "LinuxDmabuf" => e.size \in Sizes
  BY DEF EventSet, Global, GlobalRemove, MainDevice, LinuxDmabuf, BufferDone, Created,
         CreateFailed, Ready

\* The frame, the output and the buffer in a request.
LEMMA RequestMember ==
  /\ \A r \in RequestSet : r.request = "Capture" => r.frame \in Frames /\ r.output \in Outputs
  /\ \A r \in RequestSet : r.request = "Copy" => r.frame \in Frames /\ r.buffer \in Buffers
  /\ \A r \in RequestSet : r.request = "Create" => r.buffer \in Buffers
  BY DEF RequestSet, GetFeedback, Capture, Create, Copy

\* The size of a buffer and of an output.
LEMMA SizeType ==
  /\ \A b \in Buffers : b.size \in Sizes
  /\ \A o \in Outputs : Size[o] \in Sizes
  BY ScreencopyAssumption DEF Buffers, Sizes, Range

\* An event or a command that begins a capture.
LEMMA CaptureType ==
  ASSUME TypeOK, NEW o \in Outputs, CaptureOutput(o)
  PROVE  frame' \in FreeFrames /\ frame' \in Frames /\ requests' \in Seq(RequestSet)
         /\ hasty' \in BOOLEAN
<1>1. frame' \in FreeFrames
  BY DEF CaptureOutput
<1>2. frame' \in Frames
  BY <1>1 DEF FreeFrames
<1>3. Capture(frame', o) \in RequestSet
  BY <1>2, Members
<1> QED
  BY <1>1, <1>2, <1>3, AppendProperties DEF CaptureOutput, TypeOK, ClientTypeOK

\* A copy that is requested, or is not.
LEMMA CopyType ==
  ASSUME TypeOK, NEW b \in Buffers \cup {None}, ScreencopyFrame(b)
  PROVE  requests' \in Seq(RequestSet)
<1>1. ASSUME frame # None, b # None
      PROVE  Copy(frame, b) \in RequestSet
  BY <1>1, Members DEF TypeOK, ClientTypeOK
<1> QED BY <1>1, AppendProperties DEF ScreencopyFrame, TypeOK, ClientTypeOK

\* A buffer that is created, or cannot be.
LEMMA CreateType ==
  ASSUME TypeOK, NEW s \in Sizes, RequestCreateDmabufBuffer(s)
  PROVE  /\ told' \in Buffers \cup {None} /\ requests' \in Seq(RequestSet) /\ lost' \in BOOLEAN
         /\ \/ /\ told' \in Buffers /\ told'.size = s /\ told' \notin {buffer, told}
               /\ requests' = Append(requests, Create(told')) /\ lost' = lost
            \/ lost' /\ UNCHANGED <<told, requests>>
<1>1. CASE /\ FreeBuffers(s) # {} /\ told' = CHOOSE b \in FreeBuffers(s) : TRUE
           /\ requests' = Append(requests, Create(told')) /\ lost' = lost
  <2>1. told' \in FreeBuffers(s)
    BY <1>1
  <2>2. told' \in Buffers /\ told'.size = s /\ told' \notin {buffer, told}
    BY <2>1 DEF FreeBuffers
  <2>3. Append(requests, Create(told')) \in Seq(RequestSet)
    BY <2>2, Members, AppendProperties DEF TypeOK, ClientTypeOK
  <2> QED BY <1>1, <2>2, <2>3 DEF TypeOK, ClientTypeOK
<1>2. CASE lost' = TRUE /\ UNCHANGED <<told, requests>>
  BY <1>2 DEF TypeOK, ClientTypeOK
<1> QED BY <1>1, <1>2 DEF RequestCreateDmabufBuffer

\* The event that is handled.
LEMMA EventType ==
  ASSUME TypeOK, NEW e, TakeEvent(e)
  PROVE  events' \in Seq(EventSet) /\ e \in EventSet
  BY HeadTailProperties DEF TakeEvent, TypeOK, ClientTypeOK

\* The events of the registry and of the linux-dmabuf global.
LEMMA GlobalsType ==
  ASSUME TypeOK, Alone,
         \/ \E n \in Outputs : BindOutput(n)
         \/ BindManager \/ BindDmabuf \/ OpenDevice
         \/ \E n \in Names : HandleGlobalRemove(n)
  PROVE  TypeOK'
<1> USE DEF Alone, compositorVars, handlerVars
<1>1. ASSUME NEW n \in Outputs, BindOutput(n)
      PROVE  TypeOK'
  <2>1. frame' \in Frames \cup {None} /\ requests' \in Seq(RequestSet) /\ hasty' \in BOOLEAN
    BY <1>1, CaptureType DEF BindOutput, TypeOK, ClientTypeOK
  <2>2. events' \in Seq(EventSet) /\ output' \in Outputs \cup {None}
    BY <1>1, EventType DEF BindOutput, TypeOK, ClientTypeOK
  <2> QED BY <1>1, <2>1, <2>2 DEF BindOutput, TypeOK, ClientTypeOK
<1>2. CASE BindManager
  <2>1. frame' \in Frames \cup {None} /\ requests' \in Seq(RequestSet) /\ hasty' \in BOOLEAN
    BY <1>2, CaptureType DEF BindManager, TypeOK, ClientTypeOK
  <2>2. events' \in Seq(EventSet) /\ screencopy' \in {Manager, None}
    BY <1>2, EventType DEF BindManager, TypeOK, ClientTypeOK
  <2> QED BY <1>2, <2>1, <2>2 DEF BindManager, TypeOK, ClientTypeOK
<1>3. CASE BindDmabuf
  <2>1. requests' \in Seq(RequestSet) /\ events' \in Seq(EventSet)
    BY <1>3, EventType, Members, AppendProperties DEF BindDmabuf, TypeOK, ClientTypeOK
  <2> QED BY <1>3, <2>1 DEF BindDmabuf, bindings, TypeOK, ClientTypeOK
<1>4. CASE OpenDevice
  <2>1. events' \in Seq(EventSet) /\ gbmDevice' \in BOOLEAN
    BY <1>4, EventType DEF OpenDevice, TypeOK, ClientTypeOK
  <2> QED BY <1>4, <2>1 DEF OpenDevice, TypeOK, ClientTypeOK
<1>5. ASSUME NEW n \in Names, HandleGlobalRemove(n)
      PROVE  TypeOK'
  <2>1. events' \in Seq(EventSet)
    BY <1>5, EventType DEF HandleGlobalRemove
  <2>2. gbmDevice' \in BOOLEAN /\ lost' \in BOOLEAN /\ hasty' \in BOOLEAN
    BY <1>5 DEF HandleGlobalRemove
  <2> QED BY <1>5, <2>1, <2>2 DEF HandleGlobalRemove, TypeOK, ClientTypeOK
<1> QED BY <1>1, <1>2, <1>3, <1>4, <1>5

\* The events of the frames and of the buffers, and the commands.
LEMMA FramesType ==
  ASSUME TypeOK, Alone,
         \/ \E s \in Sizes : HandleLinuxDmabuf(s)
         \/ HandleBufferDone \/ HandleCreateFailed \/ HandleCommand
         \/ \E b \in Buffers : HandleCreated(b) \/ HandleReady(b)
  PROVE  TypeOK'
<1> USE DEF Alone, compositorVars, handlerVars, bindings
<1>1. ASSUME NEW s \in Sizes, HandleLinuxDmabuf(s)
      PROVE  TypeOK'
  <2>1. told' \in Buffers \cup {None} /\ requests' \in Seq(RequestSet) /\ lost' \in BOOLEAN
    BY <1>1, CreateType DEF HandleLinuxDmabuf, TypeOK, ClientTypeOK
  <2>2. events' \in Seq(EventSet)
    BY <1>1, EventType DEF HandleLinuxDmabuf
  <2> QED BY <1>1, <2>1, <2>2 DEF HandleLinuxDmabuf, TypeOK, ClientTypeOK
<1>2. CASE HandleBufferDone
  <2>1. requests' \in Seq(RequestSet) /\ events' \in Seq(EventSet)
    BY <1>2, EventType, CopyType DEF HandleBufferDone, TypeOK, ClientTypeOK
  <2> QED BY <1>2, <2>1 DEF HandleBufferDone, TypeOK, ClientTypeOK
<1>3. CASE HandleCreateFailed
  <2>1. events' \in Seq(EventSet)
    BY <1>3, EventType DEF HandleCreateFailed
  <2> QED BY <1>3, <2>1 DEF HandleCreateFailed, TypeOK, ClientTypeOK
<1>4. CASE HandleCommand
  <2>1. frame' \in Frames \cup {None} /\ requests' \in Seq(RequestSet) /\ hasty' \in BOOLEAN
    BY <1>4, CaptureType DEF HandleCommand, RequestScreencopyFrame, TypeOK, ClientTypeOK
  <2>2. commands' \in Nat
    BY <1>4 DEF HandleCommand, TypeOK, ClientTypeOK
  <2> QED BY <1>4, <2>1, <2>2 DEF HandleCommand, TypeOK, ClientTypeOK
<1>5. ASSUME NEW b \in Buffers, HandleCreated(b)
      PROVE  TypeOK'
  <2>1. requests' \in Seq(RequestSet) /\ events' \in Seq(EventSet)
    BY <1>5, EventType, CopyType DEF HandleCreated
  <2> QED BY <1>5, <2>1 DEF HandleCreated, TypeOK, ClientTypeOK
<1>6. ASSUME NEW b \in Buffers, HandleReady(b)
      PROVE  TypeOK'
  <2>1. events' \in Seq(EventSet) /\ owed' \in Nat
    BY <1>6, EventType DEF HandleReady, TypeOK, ClientTypeOK
  <2> QED BY <1>6, <2>1 DEF HandleReady, TypeOK, ClientTypeOK
<1> QED BY <1>1, <1>2, <1>3, <1>4, <1>5, <1>6

\* The requests the compositor handles.
LEMMA RequestType ==
  ASSUME TypeOK, HandleRequest
  PROVE  TypeOK'
<1> USE DEF compositorVars, handlerVars, bindings
<1>1. ASSUME NEW r, TakeRequest(r)
      PROVE  requests' \in Seq(RequestSet)
  BY <1>1, HeadTailProperties DEF TakeRequest, TypeOK, ClientTypeOK
<1>2. ASSUME NEW e \in EventSet
      PROVE  Append(events, e) \in Seq(EventSet)
  BY AppendProperties DEF TypeOK, ClientTypeOK
<1>3. UNCHANGED <<bindings, buffer, frame, commands, told, owed, hasty, handlerVars>>
  BY DEF HandleRequest
<1>4. CASE SendFeedback
  <2>1. requests' \in Seq(RequestSet) /\ events' \in Seq(EventSet)
    BY <1>1, <1>2, <1>4, Members DEF SendFeedback
  <2> QED BY <1>3, <1>4, <2>1 DEF SendFeedback, TypeOK, ClientTypeOK
<1>5. ASSUME NEW f \in Frames, NEW o \in Outputs, OfferBuffer(f, o)
      PROVE  TypeOK'
  <2>1. <<LinuxDmabuf(Size[o]), BufferDone>> \in Seq(EventSet)
    BY Members, SizeType
  <2>2. requests' \in Seq(RequestSet) /\ events' \in Seq(EventSet)
    BY <1>1, <1>5, <2>1, ConcatProperties DEF OfferBuffer, TypeOK, ClientTypeOK
  <2> QED BY <1>3, <1>5, <2>2 DEF OfferBuffer, TypeOK, ClientTypeOK
<1>6. ASSUME NEW f \in Frames, NEW o \in Outputs, RefuseCapture(f, o)
      PROVE  TypeOK'
  <2>1. requests' \in Seq(RequestSet) /\ lost' \in BOOLEAN
    BY <1>1, <1>6 DEF RefuseCapture, TypeOK, ClientTypeOK
  <2> QED BY <1>3, <1>6, <2>1 DEF RefuseCapture, TypeOK, ClientTypeOK
<1>7. ASSUME NEW b \in Buffers, AnswerCreate(b)
      PROVE  TypeOK'
  <2>1. requests' \in Seq(RequestSet) /\ events' \in Seq(EventSet)
    BY <1>1, <1>2, <1>7, Members DEF AnswerCreate
  <2> QED BY <1>3, <1>7, <2>1 DEF AnswerCreate, TypeOK, ClientTypeOK
<1>8. ASSUME NEW f \in Frames, NEW b \in Buffers, BeginCopy(f, b)
      PROVE  TypeOK'
  <2>1. requests' \in Seq(RequestSet)
    BY <1>1, <1>8 DEF BeginCopy
  <2>2. copying' \in [Frames -> Buffers \cup {None}] /\ protocolError' \in BOOLEAN
    BY <1>8 DEF BeginCopy, TypeOK
  <2> QED BY <1>3, <1>8, <2>1, <2>2 DEF BeginCopy, TypeOK, ClientTypeOK
<1> QED BY <1>4, <1>5, <1>6, <1>7, <1>8 DEF HandleRequest

\* What else the compositor does, and the handler.
LEMMA OthersType ==
  ASSUME TypeOK,
         \/ \E f \in Frames : FinishCopy(f)
         \/ \E n \in HotPlugged : Plug(n) \/ Unplug(n)
         \/ AnswerFrame \/ LeaveAutomatic \/ Resume
  PROVE  TypeOK'
<1> USE DEF compositorVars, handlerVars, clientVars, bindings
<1>1. ASSUME NEW e \in EventSet
      PROVE  Append(events, e) \in Seq(EventSet)
  BY AppendProperties DEF TypeOK, ClientTypeOK
<1>2. ASSUME NEW f \in Frames, FinishCopy(f)
      PROVE  TypeOK'
  <2>1. copying[f] \in Buffers
    BY <1>2 DEF FinishCopy, TypeOK
  <2>2. Append(events, Ready(copying[f])) \in Seq(EventSet)
    BY <1>1, <2>1, Members
  <2>3. events' \in Seq(EventSet) /\ lost' \in BOOLEAN
    BY <1>2, <2>2 DEF FinishCopy, TypeOK, ClientTypeOK
  <2> QED BY <1>2, <2>3 DEF FinishCopy, TypeOK, ClientTypeOK
<1>3. ASSUME NEW n \in HotPlugged, Plug(n)
      PROVE  TypeOK'
  <2>1. n \in Names /\ events' \in Seq(EventSet)
    BY <1>1, <1>3, Members, CaptureLoopAssumption DEF Plug
  <2> QED BY <1>3, <2>1 DEF Plug, TypeOK, ClientTypeOK
<1>4. ASSUME NEW n \in HotPlugged, Unplug(n)
      PROVE  TypeOK'
  <2>1. n \in Names /\ events' \in Seq(EventSet)
    BY <1>1, <1>4, Members, CaptureLoopAssumption DEF Unplug
  <2>2. target' \in [Frames -> Outputs \cup {None}] /\ copying' \in [Frames -> Buffers \cup {None}]
    BY <1>4 DEF Unplug, TypeOK
  <2> QED BY <1>4, <2>1, <2>2 DEF Unplug, TypeOK, ClientTypeOK
<1>5. CASE AnswerFrame
  BY <1>5 DEF AnswerFrame, TypeOK, ClientTypeOK
<1>6. CASE LeaveAutomatic
  BY <1>6 DEF LeaveAutomatic, TypeOK, ClientTypeOK
<1>7. CASE Resume
  BY <1>7, CaptureLoopAssumption DEF Resume, TypeOK, ClientTypeOK
<1> QED BY <1>2, <1>3, <1>4, <1>5, <1>6, <1>7

\* The client, the compositor and the handler keep their types.
THEOREM TypeCorrect == Spec => []TypeOK
<1>1. Init => TypeOK
  <2> SUFFICES ASSUME Init
               PROVE  TypeOK
    OBVIOUS
  <2>1. PICK s \in Startup : events = [i \in 1 .. Len(s) |-> Global(s[i])]
    BY DEF Init
  <2>2. s \in Seq(Names)
    BY CaptureLoopAssumption
  <2>3. events \in Seq(EventSet) /\ Len(events) = Len(s)
        /\ \A i \in 1 .. Len(events) : events[i] = Global(s[i]) /\ s[i] \in Names
    <3>1. Len(s) \in Nat /\ \A i \in 1 .. Len(s) : s[i] \in Names /\ Global(s[i]) \in EventSet
      BY <2>2, LenProperties, ElementOfSeq, Members
    <3> QED BY <2>1, <3>1, SeqDef
  <2>4. present \subseteq Names
    <3>1. present = {e.name : e \in Range(events)}
      BY DEF Init
    <3>2. ASSUME NEW e \in Range(events)
          PROVE  e.name \in Names
      BY <2>3, Fields, LenProperties DEF Range
    <3> QED BY <3>1, <3>2
  <2>5. <<>> \in Seq(RequestSet)
    BY EmptySeq
  <2>6. ClientTypeOK
    <3>1. 0 \in Nat /\ FALSE \in BOOLEAN
      OBVIOUS
    <3> QED BY <2>3, <2>5, <3>1 DEF Init, ClientInit, ClientTypeOK
  <2>7. target \in [Frames -> Outputs \cup {None}] /\ copying \in [Frames -> Buffers \cup {None}]
    BY DEF Init
  <2>8. 0 \in 0 .. MaxResumes
    BY CaptureLoopAssumption
  <2>9. resumes \in 0 .. MaxResumes /\ {protocolError, automatic} \subseteq BOOLEAN
        /\ gone \subseteq Names
    BY <2>8, Zenon DEF Init
  <2> QED BY <2>4, <2>6, <2>7, <2>9 DEF TypeOK
<1>2. TypeOK /\ [Next]_vars => TypeOK'
  <2> SUFFICES ASSUME TypeOK, [Next]_vars
               PROVE  TypeOK'
    OBVIOUS
  <2>1. CASE UNCHANGED vars
    BY <2>1
       DEF vars, clientVars, bindings, compositorVars, handlerVars, TypeOK, ClientTypeOK
  <2>2. CASE ClientNext /\ Alone
    BY <2>2, GlobalsType, FramesType DEF ClientNext, HandleEvent
  <2> QED BY <2>1, <2>2, RequestType, OthersType DEF Next
<1> QED BY <1>1, <1>2, PTL DEF Spec
-------------------------------------------------------------------------------
(* The steps of the client, as far as captures and buffers are concerned.     *)

\* The first event, or the first request, is taken.
TakenEvent ==
  /\ Len(events) \in Nat \ {0} /\ Len(events') = Len(events) - 1
  /\ \A i \in 1 .. Len(events') : events'[i] = events[i + 1]

TakenRequest ==
  /\ Len(requests) \in Nat \ {0} /\ Len(requests') = Len(requests) - 1
  /\ \A i \in 1 .. Len(requests') : requests'[i] = requests[i + 1]

\* An event that leaves captures alone, except that the frame may be forgotten.
QuietTake ==
  /\ TakenEvent /\ ~Answer(events[1]) /\ events[1].event # "GlobalRemove"
  /\ requests' = requests \/ requests' = Append(requests, GetFeedback)
  /\ output' = output \/ output = None
  /\ frame' \in {frame, None}
  /\ UNCHANGED <<buffer, told, hasty>>

\* A global goes.
Forget ==
  /\ TakenEvent /\ events[1].event = "GlobalRemove"
  /\ output' = IF events[1].name = output THEN None ELSE output
  /\ buffer' \in {buffer, None} /\ (events[1].name = output => buffer' = None)
  /\ frame' \in {frame, None}
  /\ hasty' = (hasty \/ (events[1].name = output /\ CreateDue))
  /\ UNCHANGED <<requests, told>>

\* A capture begins.
BeginCapture ==
  /\ UNCHANGED events \/ (TakenEvent /\ events[1].event = "Global")
  /\ output' = output \/ output = None
  /\ output' \in Outputs /\ frame' \in FreeFrames
  /\ requests' = Append(requests, Capture(frame', output'))
  /\ hasty' = (hasty \/ CopyDue)
  /\ UNCHANGED <<buffer, told>>

\* A buffer is requested.
CreateBuffer ==
  /\ TakenEvent /\ events[1].event = "LinuxDmabuf" /\ buffer = None
  /\ told' \in Buffers /\ told'.size = events[1].size
  /\ requests' = Append(requests, Create(told'))
  /\ UNCHANGED <<output, buffer, frame, hasty>>

\* A copy is requested.
AskCopy ==
  /\ TakenEvent /\ events[1].event = "BufferDone" /\ frame # None /\ buffer # None
  /\ requests' = Append(requests, Copy(frame, buffer))
  /\ UNCHANGED <<output, buffer, frame, told, hasty>>

\* A buffer is there, and a copy is requested for the frame that waits for it.
NewBuffer ==
  /\ TakenEvent /\ events[1].event = "Created" /\ buffer' = events[1].buffer
  /\ requests' = IF frame # None THEN Append(requests, Copy(frame, buffer')) ELSE requests
  /\ UNCHANGED <<output, frame, told, hasty>>

\* A buffer could not be created.
NoBuffer ==
  /\ TakenEvent /\ events[1].event = "CreateFailed" /\ lost'
  /\ UNCHANGED <<output, buffer, frame, requests, told, hasty>>

\* The first event of the queue.
LEMMA EventTaken ==
  ASSUME TypeOK, NEW e, TakeEvent(e)
  PROVE  TakenEvent /\ events[1] = e
<1>1. events \in Seq(EventSet) /\ events # <<>> /\ events' = Tail(events) /\ Head(events) = e
  BY DEF TypeOK, ClientTypeOK, TakeEvent
<1>2. Len(events) \in Nat \ {0}
  BY <1>1, EmptySeq, LenProperties
<1> QED BY <1>1, <1>2, HeadTailProperties DEF TakenEvent

\* The first request of the queue.
LEMMA RequestTaken ==
  ASSUME TypeOK, NEW r, TakeRequest(r)
  PROVE  TakenRequest /\ requests[1] = r
<1>1. requests \in Seq(RequestSet) /\ requests # <<>> /\ requests' = Tail(requests)
      /\ Head(requests) = r
  BY DEF TypeOK, ClientTypeOK, TakeRequest
<1>2. Len(requests) \in Nat \ {0}
  BY <1>1, EmptySeq, LenProperties
<1> QED BY <1>1, <1>2, HeadTailProperties DEF TakenRequest

\* Every step of the client is one of these.
LEMMA ClientShape ==
  ASSUME TypeOK, ClientNext
  PROVE  /\ lost => lost'
         /\ \/ QuietTake \/ Forget \/ BeginCapture \/ CreateBuffer \/ AskCopy \/ NewBuffer
            \/ NoBuffer
            \/ UNCHANGED <<output, buffer, frame, events, requests, told, hasty>>
<1> USE DEF bindings
<1>1. ASSUME NEW n \in Outputs, BindOutput(n)
      PROVE  lost' = lost /\ (QuietTake \/ BeginCapture)
  <2>1. TakenEvent /\ events[1].event = "Global" /\ UNCHANGED <<buffer, told, lost>>
    BY <1>1, EventTaken, Fields DEF BindOutput
  <2>2. CASE output = None /\ screencopy # None
    <3>1. output' = n /\ CaptureOutput(n)
      BY <1>1, <2>2 DEF BindOutput
    <3> QED BY <2>1, <2>2, <3>1, CaptureType DEF BeginCapture, CaptureOutput
  <2>3. CASE ~(output = None /\ screencopy # None)
    BY <1>1, <2>1, <2>3 DEF BindOutput, QuietTake, Answer
  <2> QED BY <2>1, <2>2, <2>3
<1>2. CASE BindManager
  <2>1. TakenEvent /\ events[1].event = "Global" /\ UNCHANGED <<output, buffer, told, lost>>
    BY <1>2, EventTaken, Fields DEF BindManager
  <2>2. CASE screencopy = None /\ output # None
    <3>1. CaptureOutput(output) /\ output \in Outputs
      BY <1>2, <2>2 DEF BindManager, TypeOK, ClientTypeOK
    <3> QED BY <2>1, <3>1, CaptureType DEF BeginCapture, CaptureOutput
  <2>3. CASE ~(screencopy = None /\ output # None)
    BY <1>2, <2>1, <2>3 DEF BindManager, QuietTake, Answer
  <2> QED BY <2>1, <2>2, <2>3
<1>3. CASE BindDmabuf
  <2>1. TakenEvent /\ events[1].event = "Global"
    BY <1>3, EventTaken, Fields DEF BindDmabuf
  <2> QED BY <1>3, <2>1 DEF BindDmabuf, QuietTake, Answer
<1>4. CASE OpenDevice
  <2>1. TakenEvent /\ events[1].event = "MainDevice"
    BY <1>4, EventTaken, Fields DEF OpenDevice
  <2> QED BY <1>4, <2>1 DEF OpenDevice, QuietTake, Answer
<1>5. ASSUME NEW n \in Names, HandleGlobalRemove(n)
      PROVE  (lost => lost') /\ Forget
  <2>1. TakenEvent /\ events[1].event = "GlobalRemove" /\ events[1].name = n
    BY <1>5, EventTaken, Fields DEF HandleGlobalRemove
  <2> QED BY <1>5, <2>1 DEF HandleGlobalRemove, Forget
<1>6. ASSUME NEW s \in Sizes, HandleLinuxDmabuf(s)
      PROVE  (lost => lost') /\ (QuietTake \/ CreateBuffer)
  <2>1. TakenEvent /\ events[1].event = "LinuxDmabuf" /\ events[1].size = s
        /\ UNCHANGED <<output, buffer, frame, hasty>>
    BY <1>6, EventTaken, Fields DEF HandleLinuxDmabuf
  <2>2. CASE buffer # None
    BY <1>6, <2>1, <2>2 DEF HandleLinuxDmabuf, QuietTake, Answer
  <2>3. CASE buffer = None
    <3>1. RequestCreateDmabufBuffer(s)
      BY <1>6, <2>3 DEF HandleLinuxDmabuf
    <3>2. \/ /\ told' \in Buffers /\ told'.size = s
             /\ requests' = Append(requests, Create(told')) /\ lost' = lost
          \/ lost' /\ UNCHANGED <<told, requests>>
      BY <3>1, CreateType
    <3> QED BY <2>1, <2>3, <3>2 DEF CreateBuffer, QuietTake, Answer
  <2> QED BY <2>2, <2>3
<1>7. CASE HandleBufferDone
  <2>1. TakenEvent /\ events[1].event = "BufferDone"
        /\ UNCHANGED <<output, buffer, frame, told, hasty, lost>>
    BY <1>7, EventTaken, Fields DEF HandleBufferDone
  <2> QED BY <1>7, <2>1 DEF HandleBufferDone, ScreencopyFrame, AskCopy, QuietTake, Answer
<1>8. ASSUME NEW b \in Buffers, HandleCreated(b)
      PROVE  lost' = lost /\ NewBuffer
  <2>1. TakenEvent /\ events[1].event = "Created" /\ events[1].buffer = b
    BY <1>8, EventTaken, Fields DEF HandleCreated
  <2>2. b # None
    BY ScreencopyAssumption DEF Buffers, Sizes
  <2> QED BY <1>8, <2>1, <2>2 DEF HandleCreated, ScreencopyFrame, NewBuffer
<1>9. ASSUME NEW b \in Buffers, HandleReady(b)
      PROVE  lost' = lost /\ QuietTake
  <2>1. TakenEvent /\ events[1].event = "Ready"
    BY <1>9, EventTaken, Fields DEF HandleReady
  <2> QED BY <1>9, <2>1 DEF HandleReady, QuietTake, Answer
<1>10. CASE HandleCreateFailed
  <2>1. TakenEvent /\ events[1].event = "CreateFailed"
    BY <1>10, EventTaken, Fields DEF HandleCreateFailed
  <2> QED BY <1>10, <2>1 DEF HandleCreateFailed, NoBuffer
<1>11. CASE HandleCommand
  <2>1. UNCHANGED <<output, buffer, events, told, lost>>
    BY <1>11 DEF HandleCommand
  <2>2. CASE screencopy # None /\ output # None
    <3>1. CaptureOutput(output) /\ output \in Outputs
      BY <1>11, <2>2 DEF HandleCommand, RequestScreencopyFrame, TypeOK, ClientTypeOK
    <3> QED BY <2>1, <3>1, CaptureType DEF BeginCapture, CaptureOutput
  <2>3. CASE ~(screencopy # None /\ output # None)
    BY <1>11, <2>1, <2>3 DEF HandleCommand, RequestScreencopyFrame
  <2> QED BY <2>1, <2>2, <2>3
<1> QED BY <1>1, <1>2, <1>3, <1>4, <1>5, <1>6, <1>7, <1>8, <1>9, <1>10, <1>11
         DEF ClientNext, HandleEvent
-------------------------------------------------------------------------------
(* The steps of the compositor and of the handler.                            *)

\* Events that lead to no copy are added.
MoreEvents ==
  /\ Len(events) \in Nat /\ Len(events') \in Nat /\ Len(events') >= Len(events)
  /\ \A i \in 1 .. Len(events) : events'[i] = events[i]
  /\ \A i \in Len(events) + 1 .. Len(events') :
       /\ events'[i].event \in {"Global", "GlobalRemove", "MainDevice", "Ready"}
       /\ events'[i].event = "GlobalRemove" => events'[i].name \in gone'

\* Globals come and go, and take frames along.
Plugged ==
  \/ UNCHANGED <<present, gone>>
  \/ \E n \in Names : n \notin gone /\ present' = present \cup {n} /\ gone' = gone
  \/ \E n \in Names : /\ present' = present \ {n} /\ gone' = gone \cup {n}
                      /\ \A f \in Frames : target'[f] # n

\* No frame begins a capture or a copy.
Loosens ==
  /\ UNCHANGED requests \/ (TakenRequest /\ requests[1].request \in {"GetFeedback", "Capture"})
  /\ MoreEvents /\ Plugged
  /\ \A f \in Frames : target'[f] \in {target[f], None} /\ copying'[f] \in {copying[f], None}
  /\ UNCHANGED protocolError

\* A capture offers a buffer type.
Offered ==
  /\ TakenRequest /\ requests[1].request = "Capture"
  /\ requests[1].frame \in Frames /\ requests[1].output \in present
  /\ target' = [target EXCEPT ![requests[1].frame] = requests[1].output]
  /\ Len(events) \in Nat /\ Len(events') = Len(events) + 2
  /\ \A i \in 1 .. Len(events) : events'[i] = events[i]
  /\ events'[Len(events) + 1].event = "LinuxDmabuf"
  /\ events'[Len(events) + 1].size = Size[requests[1].output]
  /\ events'[Len(events) + 2].event = "BufferDone"
  /\ UNCHANGED <<copying, present, gone, protocolError>>

\* The creation of a buffer is answered.
CreateAnswered ==
  /\ TakenRequest /\ requests[1].request = "Create"
  /\ Len(events) \in Nat /\ Len(events') = Len(events) + 1
  /\ \A i \in 1 .. Len(events) : events'[i] = events[i]
  /\ Answer(events'[Len(events) + 1])
  /\ events'[Len(events) + 1].event = "Created"
       => events'[Len(events) + 1].buffer = requests[1].buffer
  /\ UNCHANGED <<target, copying, present, gone, protocolError>>

\* A copy begins, or is a protocol error.
CopyBegun ==
  /\ TakenRequest /\ requests[1].request = "Copy" /\ requests[1].frame \in Frames
  /\ LET f == requests[1].frame
         b == requests[1].buffer IN
     IF target[f] = None
     THEN UNCHANGED <<copying, protocolError>>
     ELSE IF copying[f] # None \/ b.size # Size[target[f]]
     THEN UNCHANGED copying
     ELSE copying' = [copying EXCEPT ![f] = b] /\ UNCHANGED protocolError
  /\ UNCHANGED <<events, target, present, gone>>

\* One more event.
LEMMA EventAdded ==
  ASSUME TypeOK, NEW e \in EventSet, events' = Append(events, e)
  PROVE  /\ Len(events) \in Nat /\ Len(events') = Len(events) + 1
         /\ \A i \in 1 .. Len(events) : events'[i] = events[i]
         /\ events'[Len(events) + 1] = e
  BY AppendProperties, LenProperties DEF TypeOK, ClientTypeOK

\* One more request.
LEMMA RequestAdded ==
  ASSUME TypeOK, NEW r \in RequestSet, requests' = Append(requests, r)
  PROVE  /\ Len(requests) \in Nat /\ Len(requests') = Len(requests) + 1
         /\ \A i \in 1 .. Len(requests) : requests'[i] = requests[i]
         /\ requests'[Len(requests) + 1] = r
  BY AppendProperties, LenProperties DEF TypeOK, ClientTypeOK

\* An event that leads to no copy.
LEMMA QuietAdded ==
  ASSUME TypeOK,
         \/ UNCHANGED events
         \/ \E e \in EventSet : /\ events' = Append(events, e)
                                /\ e.event \in {"Global", "GlobalRemove", "MainDevice", "Ready"}
                                /\ e.event = "GlobalRemove" => e.name \in gone'
  PROVE  MoreEvents
<1>1. Len(events) \in Nat
  BY LenProperties DEF TypeOK, ClientTypeOK
<1>2. CASE UNCHANGED events
  BY <1>1, <1>2 DEF MoreEvents
<1>3. ASSUME NEW e \in EventSet, events' = Append(events, e),
             e.event \in {"Global", "GlobalRemove", "MainDevice", "Ready"},
             e.event = "GlobalRemove" => e.name \in gone'
      PROVE  MoreEvents
  <2>1. /\ Len(events') = Len(events) + 1
        /\ \A i \in 1 .. Len(events) : events'[i] = events[i]
        /\ events'[Len(events) + 1] = e
    BY <1>3, EventAdded
  <2>2. \A i \in Len(events) + 1 .. Len(events') : i = Len(events) + 1
    BY <1>1, <2>1
  <2> QED BY <1>1, <1>3, <2>1, <2>2 DEF MoreEvents
<1> QED BY <1>2, <1>3

\* Every step of the compositor or of the handler is one of these.
LEMMA OtherShape ==
  ASSUME TypeOK,
         \/ HandleRequest
         \/ \E f \in Frames : FinishCopy(f)
         \/ \E n \in HotPlugged : Plug(n) \/ Unplug(n)
         \/ AnswerFrame \/ LeaveAutomatic \/ Resume
  PROVE  /\ UNCHANGED <<output, buffer, frame, told, hasty>> /\ (lost => lost')
         /\ Loosens \/ Offered \/ CreateAnswered \/ CopyBegun
<1> USE DEF compositorVars, handlerVars, clientVars, bindings
<1>1. ASSUME SendFeedback
      PROVE  lost' = lost /\ Loosens
  <2>1. TakenRequest /\ requests[1].request = "GetFeedback"
    BY <1>1, RequestTaken, Fields DEF SendFeedback
  <2>2. MoreEvents
    <3>1. events' = Append(events, MainDevice) /\ MainDevice \in EventSet
          /\ MainDevice.event = "MainDevice"
      BY <1>1, Members, Fields DEF SendFeedback
    <3> QED BY <3>1, QuietAdded
  <2> QED BY <1>1, <2>1, <2>2 DEF SendFeedback, Loosens, Plugged
<1>2. ASSUME NEW f \in Frames, NEW o \in Outputs, OfferBuffer(f, o)
      PROVE  lost' = lost /\ Offered
  <2>1. TakenRequest /\ requests[1].request = "Capture" /\ requests[1].frame = f
        /\ requests[1].output = o
    BY <1>2, RequestTaken, Fields DEF OfferBuffer
  <2>2. PICK two : two = <<LinuxDmabuf(Size[o]), BufferDone>>
    OBVIOUS
  <2>3. two \in Seq(EventSet) /\ Len(two) = 2 /\ two[1] = LinuxDmabuf(Size[o])
        /\ two[2] = BufferDone
    BY <2>2, Members, SizeType
  <2>4. events \in Seq(EventSet) /\ Len(events) \in Nat /\ events' = events \o two
    BY <1>2, <2>2, LenProperties DEF OfferBuffer, TypeOK, ClientTypeOK
  <2>6. /\ Len(events') = Len(events) + 2
        /\ \A i \in 1 .. Len(events) : events'[i] = events[i]
        /\ events'[Len(events) + 1] = two[1] /\ events'[Len(events) + 2] = two[2]
    <3>1. /\ Len(events \o two) = Len(events) + Len(two)
          /\ \A i \in 1 .. Len(events) + Len(two) :
               (events \o two)[i] = IF i <= Len(events) THEN events[i] ELSE two[i - Len(events)]
      BY <2>3, <2>4, ConcatProperties
    <3> QED BY <2>3, <2>4, <3>1
  <2>5. two[1].event = "LinuxDmabuf" /\ two[1].size = Size[o] /\ two[2].event = "BufferDone"
    BY <2>3, Fields
  <2> QED BY <1>2, <2>1, <2>4, <2>5, <2>6 DEF OfferBuffer, Offered
<1>3. ASSUME NEW f \in Frames, NEW o \in Outputs, RefuseCapture(f, o)
      PROVE  (lost => lost') /\ Loosens
  <2>1. TakenRequest /\ requests[1].request = "Capture"
    BY <1>3, RequestTaken, Fields DEF RefuseCapture
  <2>2. MoreEvents
    BY <1>3, QuietAdded DEF RefuseCapture
  <2>3. \A g \in Frames : target'[g] \in {target[g], None} /\ copying'[g] = copying[g]
    BY <1>3 DEF RefuseCapture, TypeOK
  <2> QED BY <1>3, <2>1, <2>2, <2>3 DEF RefuseCapture, Loosens, Plugged
<1>4. ASSUME NEW b \in Buffers, AnswerCreate(b)
      PROVE  lost' = lost /\ CreateAnswered
  <2>1. TakenRequest /\ requests[1].request = "Create" /\ requests[1].buffer = b
    BY <1>4, RequestTaken, Fields DEF AnswerCreate
  <2>2. /\ Len(events) \in Nat /\ Len(events') = Len(events) + 1
        /\ \A i \in 1 .. Len(events) : events'[i] = events[i]
        /\ events'[Len(events) + 1] \in {Created(b), CreateFailed}
    BY <1>4, EventAdded, Members DEF AnswerCreate
  <2>3. Created(b).buffer = b /\ Answer(Created(b)) /\ Answer(CreateFailed)
        /\ CreateFailed.event # "Created"
    BY Fields DEF Answer
  <2> QED BY <1>4, <2>1, <2>2, <2>3 DEF AnswerCreate, CreateAnswered
<1>5. ASSUME NEW f \in Frames, NEW b \in Buffers, BeginCopy(f, b)
      PROVE  lost' = lost /\ CopyBegun
  <2>1. TakenRequest /\ requests[1].request = "Copy" /\ requests[1].frame = f
        /\ requests[1].buffer = b
    BY <1>5, RequestTaken, Fields DEF BeginCopy
  <2> QED BY <1>5, <2>1 DEF BeginCopy, CopyBegun
<1>6. CASE HandleRequest
  BY <1>1, <1>2, <1>3, <1>4, <1>5, <1>6 DEF HandleRequest
<1>7. ASSUME NEW f \in Frames, FinishCopy(f)
      PROVE  UNCHANGED <<output, buffer, frame, told, hasty>> /\ (lost => lost') /\ Loosens
  <2>1. MoreEvents
    <3>1. copying[f] \in Buffers
      BY <1>7 DEF FinishCopy, TypeOK
    <3> QED BY <1>7, <3>1, QuietAdded, Members, Fields DEF FinishCopy
  <2>2. \A g \in Frames : target'[g] \in {target[g], None} /\ copying'[g] \in {copying[g], None}
    BY <1>7 DEF FinishCopy, TypeOK
  <2> QED BY <1>7, <2>1, <2>2 DEF FinishCopy, Loosens, Plugged
<1>8. ASSUME NEW n \in HotPlugged, Plug(n)
      PROVE  UNCHANGED <<output, buffer, frame, told, hasty>> /\ (lost => lost') /\ Loosens
  <2>1. n \in Names
    BY CaptureLoopAssumption
  <2>2. MoreEvents
    BY <1>8, <2>1, QuietAdded, Members, Fields DEF Plug
  <2> QED BY <1>8, <2>1, <2>2 DEF Plug, Loosens, Plugged
<1>9. ASSUME NEW n \in HotPlugged, Unplug(n)
      PROVE  UNCHANGED <<output, buffer, frame, told, hasty>> /\ (lost => lost') /\ Loosens
  <2>1. n \in Names /\ n # None
    BY CaptureLoopAssumption, ScreencopyAssumption DEF Names
  <2>2. MoreEvents
    BY <1>9, <2>1, QuietAdded, Members, Fields DEF Unplug
  <2>3. \A f \in Frames : /\ target'[f] \in {target[f], None} /\ target'[f] # n
                          /\ copying'[f] \in {copying[f], None}
    BY <1>9, <2>1 DEF Unplug
  <2>4. Plugged
    BY <1>9, <2>1, <2>3 DEF Unplug, Plugged
  <2> QED BY <1>9, <2>2, <2>3, <2>4 DEF Unplug, Loosens
<1>10. CASE AnswerFrame \/ LeaveAutomatic \/ Resume
  <2>1. UNCHANGED <<output, buffer, frame, told, hasty, lost, events, requests, compositorVars>>
    BY <1>10, Zenon DEF AnswerFrame, LeaveAutomatic, Resume
  <2>2. MoreEvents
    BY <2>1, QuietAdded
  <2> QED BY <2>1, <2>2 DEF Loosens, Plugged
<1> QED BY <1>6, <1>7, <1>8, <1>9, <1>10
-------------------------------------------------------------------------------
(* The buffer the handler was told of.                                        *)

\* What is due, by place in the queues.
LEMMA Due ==
  ASSUME TypeOK, TypeOK'
  PROVE  /\ CreateDue <=> \/ \E i \in 1 .. Len(events) : Answer(events[i])
                          \/ \E i \in 1 .. Len(requests) : requests[i].request = "Create"
         /\ CreateDue' <=> \/ \E i \in 1 .. Len(events') : Answer(events'[i])
                           \/ \E i \in 1 .. Len(requests') : requests'[i].request = "Create"
         /\ CopyDue <=> \/ CreateDue
                        \/ \E i \in 1 .. Len(events) : events[i].event = "BufferDone"
                        \/ \E i \in 1 .. Len(requests) : requests[i].request = "Capture"
         /\ CopyDue' <=> \/ CreateDue'
                         \/ \E i \in 1 .. Len(events') : events'[i].event = "BufferDone"
                         \/ \E i \in 1 .. Len(requests') : requests'[i].request = "Capture"
<1>1. ASSUME NEW S, NEW q \in Seq(S)
      PROVE  Range(q) = {q[i] : i \in 1 .. Len(q)}
  BY <1>1, LenProperties DEF Range
<1>2. /\ Range(events) = {events[i] : i \in 1 .. Len(events)}
      /\ Range(requests) = {requests[i] : i \in 1 .. Len(requests)}
      /\ Range(events') = {events'[i] : i \in 1 .. Len(events')}
      /\ Range(requests') = {requests'[i] : i \in 1 .. Len(requests')}
  BY <1>1 DEF TypeOK, ClientTypeOK
<1> QED BY <1>2 DEF CreateDue, CopyDue, Answer

\* Answers to creations, and creations, stay in their order; others come and go.
KeptAnswers ==
  \E d \in {0, 1} :
    /\ \A i \in 1 .. Len(events) : Answer(events[i]) =>
         i - d \in 1 .. Len(events') /\ events'[i - d] = events[i]
    /\ \A i \in 1 .. Len(events') : Answer(events'[i]) =>
         i + d \in 1 .. Len(events) /\ events[i + d] = events'[i]

KeptCreates ==
  \E d \in {0, 1} :
    /\ \A i \in 1 .. Len(requests) : requests[i].request = "Create" =>
         i - d \in 1 .. Len(requests') /\ requests'[i - d] = requests[i]
    /\ \A i \in 1 .. Len(requests') : requests'[i].request = "Create" =>
         i + d \in 1 .. Len(requests) /\ requests[i + d] = requests'[i]

\* Events are kept when another is taken, or when others are added.
LEMMA AnswersKept ==
  ASSUME \/ TakenEvent /\ ~Answer(events[1])
         \/ /\ Len(events) \in Nat /\ Len(events') \in Nat /\ Len(events') >= Len(events)
            /\ \A i \in 1 .. Len(events) : events'[i] = events[i]
            /\ \A i \in Len(events) + 1 .. Len(events') : ~Answer(events'[i])
  PROVE  KeptAnswers
<1>1. CASE TakenEvent /\ ~Answer(events[1])
  <2>1. \A i \in 1 .. Len(events) : Answer(events[i]) =>
          i - 1 \in 1 .. Len(events') /\ events'[i - 1] = events[i]
    <3> TAKE i \in 1 .. Len(events)
    <3> HAVE Answer(events[i])
    <3>1. i # 1 /\ i - 1 \in 1 .. Len(events')
      BY <1>1 DEF TakenEvent
    <3> QED BY <1>1, <3>1 DEF TakenEvent
  <2>2. \A i \in 1 .. Len(events') : i + 1 \in 1 .. Len(events) /\ events[i + 1] = events'[i]
    BY <1>1 DEF TakenEvent
  <2> QED BY <2>1, <2>2 DEF KeptAnswers
<1>2. CASE /\ Len(events) \in Nat /\ Len(events') \in Nat /\ Len(events') >= Len(events)
           /\ \A i \in 1 .. Len(events) : events'[i] = events[i]
           /\ \A i \in Len(events) + 1 .. Len(events') : ~Answer(events'[i])
  <2>1. \A i \in 1 .. Len(events) : i - 0 \in 1 .. Len(events') /\ events'[i - 0] = events[i]
    BY <1>2
  <2>2. \A i \in 1 .. Len(events') : Answer(events'[i]) =>
          i + 0 \in 1 .. Len(events) /\ events[i + 0] = events'[i]
    <3> TAKE i \in 1 .. Len(events')
    <3>1. CASE i \in Len(events) + 1 .. Len(events')
      BY <1>2, <3>1
    <3>2. CASE i \notin Len(events) + 1 .. Len(events')
      BY <1>2, <3>2
    <3> QED BY <3>1, <3>2
  <2> QED BY <2>1, <2>2 DEF KeptAnswers
<1> QED BY <1>1, <1>2

\* Creations are kept when another request is taken, or when others are added.
LEMMA CreatesKept ==
  ASSUME \/ TakenRequest /\ requests[1].request # "Create"
         \/ /\ Len(requests) \in Nat /\ Len(requests') \in Nat /\ Len(requests') >= Len(requests)
            /\ \A i \in 1 .. Len(requests) : requests'[i] = requests[i]
            /\ \A i \in Len(requests) + 1 .. Len(requests') : requests'[i].request # "Create"
  PROVE  KeptCreates
<1>1. CASE TakenRequest /\ requests[1].request # "Create"
  <2>1. \A i \in 1 .. Len(requests) : requests[i].request = "Create" =>
          i - 1 \in 1 .. Len(requests') /\ requests'[i - 1] = requests[i]
    <3> TAKE i \in 1 .. Len(requests)
    <3> HAVE requests[i].request = "Create"
    <3>1. i # 1 /\ i - 1 \in 1 .. Len(requests')
      BY <1>1 DEF TakenRequest
    <3> QED BY <1>1, <3>1 DEF TakenRequest
  <2>2. \A i \in 1 .. Len(requests') :
          i + 1 \in 1 .. Len(requests) /\ requests[i + 1] = requests'[i]
    BY <1>1 DEF TakenRequest
  <2> QED BY <2>1, <2>2 DEF KeptCreates
<1>2. CASE /\ Len(requests) \in Nat /\ Len(requests') \in Nat /\ Len(requests') >= Len(requests)
           /\ \A i \in 1 .. Len(requests) : requests'[i] = requests[i]
           /\ \A i \in Len(requests) + 1 .. Len(requests') : requests'[i].request # "Create"
  <2>1. \A i \in 1 .. Len(requests) :
          i - 0 \in 1 .. Len(requests') /\ requests'[i - 0] = requests[i]
    BY <1>2
  <2>2. \A i \in 1 .. Len(requests') : requests'[i].request = "Create" =>
          i + 0 \in 1 .. Len(requests) /\ requests[i + 0] = requests'[i]
    <3> TAKE i \in 1 .. Len(requests')
    <3>1. CASE i \in Len(requests) + 1 .. Len(requests')
      BY <1>2, <3>1
    <3>2. CASE i \notin Len(requests) + 1 .. Len(requests')
      BY <1>2, <3>2
    <3> QED BY <3>1, <3>2
  <2> QED BY <2>1, <2>2 DEF KeptCreates
<1> QED BY <1>1, <1>2

\* Creations that stay in their order end with the one the handler was told of.
LEMMA ToldRequests ==
  ASSUME TypeOK, TypeOK', ToldInv, KeptCreates, told' = told
  PROVE  \A i \in 1 .. Len(requests') : requests'[i].request = "Create" =>
           \/ requests'[i].buffer = told'
           \/ \E j \in i + 1 .. Len(requests') : requests'[j].request = "Create"
<1>1. PICK c \in {0, 1} :
        /\ \A i \in 1 .. Len(requests) : requests[i].request = "Create" =>
             i - c \in 1 .. Len(requests') /\ requests'[i - c] = requests[i]
        /\ \A i \in 1 .. Len(requests') : requests'[i].request = "Create" =>
             i + c \in 1 .. Len(requests) /\ requests[i + c] = requests'[i]
  BY DEF KeptCreates
<1> TAKE i \in 1 .. Len(requests')
<1> HAVE requests'[i].request = "Create"
<1>2. i + c \in 1 .. Len(requests) /\ requests[i + c] = requests'[i]
  BY <1>1
<1>3. ASSUME NEW j \in i + c + 1 .. Len(requests), requests[j].request = "Create"
      PROVE  \E k \in i + 1 .. Len(requests') : requests'[k].request = "Create"
  <2>1. j \in 1 .. Len(requests) /\ Len(requests) \in Nat /\ Len(requests') \in Nat
    BY <1>2, <1>3, LenProperties DEF TypeOK, ClientTypeOK
  <2>2. j - c \in 1 .. Len(requests') /\ requests'[j - c] = requests[j]
    BY <1>1, <1>3, <2>1
  <2>3. j - c \in i + 1 .. Len(requests')
    BY <1>3, <2>1, <2>2
  <2> QED BY <1>3, <2>2, <2>3
<1> QED BY <1>2, <1>3 DEF ToldInv

\* A step that keeps creations and answers keeps what the handler was told.
LEMMA ToldKept ==
  ASSUME TypeOK, TypeOK', ToldInv, KeptAnswers, KeptCreates, told' = told,
         buffer' \in {buffer, None}
  PROVE  ToldInv'
<1>1. PICK d \in {0, 1} :
        /\ \A i \in 1 .. Len(events) : Answer(events[i]) =>
             i - d \in 1 .. Len(events') /\ events'[i - d] = events[i]
        /\ \A i \in 1 .. Len(events') : Answer(events'[i]) =>
             i + d \in 1 .. Len(events) /\ events[i + d] = events'[i]
  BY DEF KeptAnswers
<1>2. PICK c \in {0, 1} :
        /\ \A i \in 1 .. Len(requests) : requests[i].request = "Create" =>
             i - c \in 1 .. Len(requests') /\ requests'[i - c] = requests[i]
        /\ \A i \in 1 .. Len(requests') : requests'[i].request = "Create" =>
             i + c \in 1 .. Len(requests) /\ requests[i + c] = requests'[i]
  BY DEF KeptCreates
<1>3. {Len(events), Len(events'), Len(requests), Len(requests')} \subseteq Nat
  BY LenProperties DEF TypeOK, ClientTypeOK
<1>5. \A i \in 1 .. Len(events') : Answer(events'[i]) =>
        \/ events'[i].event = "Created" => events'[i].buffer = told'
        \/ \E j \in i + 1 .. Len(events') : Answer(events'[j])
        \/ \E j \in 1 .. Len(requests') : requests'[j].request = "Create"
  <2> TAKE i \in 1 .. Len(events')
  <2> HAVE Answer(events'[i])
  <2>1. i + d \in 1 .. Len(events) /\ events[i + d] = events'[i]
    BY <1>1
  <2>2. ASSUME NEW j \in i + d + 1 .. Len(events), Answer(events[j])
        PROVE  \E k \in i + 1 .. Len(events') : Answer(events'[k])
    <3>1. j \in 1 .. Len(events)
      BY <1>3, <2>1, <2>2
    <3>2. j - d \in 1 .. Len(events') /\ events'[j - d] = events[j]
      BY <1>1, <2>2, <3>1
    <3>3. j - d \in i + 1 .. Len(events')
      BY <1>3, <2>2, <3>2
    <3> QED BY <2>2, <3>2, <3>3
  <2>3. \/ events[i + d].event = "Created" => events[i + d].buffer = told
        \/ \E j \in i + d + 1 .. Len(events) : Answer(events[j])
        \/ \E j \in 1 .. Len(requests) : requests[j].request = "Create"
    BY <2>1, Zenon DEF ToldInv
  <2>4. ASSUME NEW j \in 1 .. Len(requests), requests[j].request = "Create"
        PROVE  \E k \in 1 .. Len(requests') : requests'[k].request = "Create"
    BY <1>2, <2>4, Zenon
  <2> QED BY <2>1, <2>2, <2>3, <2>4, Zenon
<1>6. CreateDue => CreateDue'
  BY <1>1, <1>2, Due
<1> QED BY <1>5, <1>6, ToldRequests DEF ToldInv
\* Another buffer is created, and the handler is told of it.
LEMMA ToldCreate ==
  ASSUME TypeOK, TypeOK', CreateBuffer
  PROVE  ToldInv'
<1>1. /\ Len(requests) \in Nat /\ Len(requests') = Len(requests) + 1
      /\ \A i \in 1 .. Len(requests) : requests'[i] = requests[i]
      /\ requests'[Len(requests) + 1].request = "Create"
      /\ requests'[Len(requests) + 1].buffer = told'
  BY RequestAdded, Members, Fields DEF CreateBuffer
<1>2. \A i \in 1 .. Len(requests') :
        i = Len(requests) + 1 \/ Len(requests) + 1 \in i + 1 .. Len(requests')
  BY <1>1
<1>3. Len(requests) + 1 \in 1 .. Len(requests')
  BY <1>1
<1>4. CreateDue'
  BY <1>1, <1>3, Due
<1> QED BY <1>1, <1>2, <1>3, <1>4 DEF ToldInv

\* A creation is answered after the others.
LEMMA ToldAnswer ==
  ASSUME TypeOK, TypeOK', ToldInv, CreateAnswered, told' = told
  PROVE  ToldInv'
<1>1. /\ Len(requests) \in Nat \ {0} /\ Len(requests') = Len(requests) - 1
      /\ \A i \in 1 .. Len(requests') : requests'[i] = requests[i + 1]
      /\ requests[1].request = "Create"
      /\ Len(events) \in Nat /\ Len(events') = Len(events) + 1
      /\ \A i \in 1 .. Len(events) : events'[i] = events[i]
      /\ Answer(events'[Len(events) + 1])
      /\ (events'[Len(events) + 1].event = "Created"
           => events'[Len(events) + 1].buffer = requests[1].buffer)
  BY DEF CreateAnswered, TakenRequest
<1>2. \A i \in 1 .. Len(requests') : \A j \in i + 1 + 1 .. Len(requests) :
        j - 1 \in i + 1 .. Len(requests') /\ requests'[j - 1] = requests[j]
  BY <1>1
<1>3. \A i \in 1 .. Len(requests') : i + 1 \in 1 .. Len(requests)
  BY <1>1
<1>4. \A i \in 1 .. Len(requests') : requests'[i].request = "Create" =>
        \/ requests'[i].buffer = told'
        \/ \E j \in i + 1 .. Len(requests') : requests'[j].request = "Create"
  <2> TAKE i \in 1 .. Len(requests')
  <2> HAVE requests'[i].request = "Create"
  <2>1. i + 1 \in 1 .. Len(requests) /\ requests'[i] = requests[i + 1]
    BY <1>1, <1>3
  <2>2. \/ requests[i + 1].buffer = told
        \/ \E j \in i + 1 + 1 .. Len(requests) : requests[j].request = "Create"
    BY <2>1 DEF ToldInv
  <2> QED BY <1>2, <2>1, <2>2
<1>5. \/ requests[1].buffer = told'
      \/ \E j \in 1 .. Len(requests') : requests'[j].request = "Create"
  <2>1. 1 \in 1 .. Len(requests)
    BY <1>1
  <2>2. \A j \in 1 + 1 .. Len(requests) :
          j - 1 \in 1 .. Len(requests') /\ requests'[j - 1] = requests[j]
    BY <1>1
  <2> QED BY <1>1, <2>1, <2>2 DEF ToldInv
<1>6. \A i \in 1 .. Len(events') :
        i = Len(events) + 1 \/ Len(events) + 1 \in i + 1 .. Len(events')
  BY <1>1
<1>7. Len(events) + 1 \in 1 .. Len(events')
  BY <1>1
<1>8. CreateDue'
  BY <1>1, <1>7, Due
<1> QED BY <1>1, <1>4, <1>5, <1>6, <1>8 DEF ToldInv

\* The buffer that is there is the one the handler was told of, if none is created.
LEMMA ToldBuffer ==
  ASSUME TypeOK, TypeOK', ToldInv, NewBuffer
  PROVE  ToldInv'
<1>1. /\ Len(events) \in Nat \ {0} /\ Len(events') = Len(events) - 1
      /\ \A i \in 1 .. Len(events') : events'[i] = events[i + 1]
      /\ events[1].event = "Created" /\ buffer' = events[1].buffer /\ told' = told
  BY DEF NewBuffer, TakenEvent
<1>2. KeptCreates
  <2>1. CASE requests' = requests
    <3>1. Len(requests) \in Nat
      BY LenProperties DEF TypeOK, ClientTypeOK
    <3> QED BY <2>1, <3>1, CreatesKept
  <2>2. CASE frame # None /\ requests' = Append(requests, Copy(frame, buffer'))
    <3>1. Copy(frame, buffer') \in RequestSet
      <4>1. 1 \in 1 .. Len(events) /\ events[1] \in EventSet
        BY <1>1, ElementOfSeq DEF TypeOK, ClientTypeOK
      <4>2. buffer' \in Buffers
        BY <1>1, <4>1, EventMember
      <4> QED BY <2>2, <4>2, Members DEF TypeOK, ClientTypeOK
    <3>2. /\ Len(requests) \in Nat /\ Len(requests') = Len(requests) + 1
          /\ \A i \in 1 .. Len(requests) : requests'[i] = requests[i]
          /\ requests'[Len(requests) + 1].request = "Copy"
      BY <2>2, <3>1, RequestAdded, Fields
    <3>3. \A i \in Len(requests) + 1 .. Len(requests') : i = Len(requests) + 1
      BY <3>2
    <3> QED BY <3>2, <3>3, CreatesKept
  <2> QED BY <2>1, <2>2 DEF NewBuffer
<1>3. PICK c \in {0, 1} :
        /\ \A i \in 1 .. Len(requests) : requests[i].request = "Create" =>
             i - c \in 1 .. Len(requests') /\ requests'[i - c] = requests[i]
        /\ \A i \in 1 .. Len(requests') : requests'[i].request = "Create" =>
             i + c \in 1 .. Len(requests) /\ requests[i + c] = requests'[i]
  BY <1>2 DEF KeptCreates
<1>5. \A i \in 1 .. Len(events') : i + 1 \in 1 .. Len(events)
  BY <1>1
<1>6. \A i \in 1 .. Len(events') : \A j \in i + 1 + 1 .. Len(events) :
        j - 1 \in i + 1 .. Len(events') /\ events'[j - 1] = events[j]
  BY <1>1
<1>7. \A i \in 1 .. Len(events') : Answer(events'[i]) =>
        \/ events'[i].event = "Created" => events'[i].buffer = told'
        \/ \E j \in i + 1 .. Len(events') : Answer(events'[j])
        \/ \E j \in 1 .. Len(requests') : requests'[j].request = "Create"
  <2> TAKE i \in 1 .. Len(events')
  <2> HAVE Answer(events'[i])
  <2>1. i + 1 \in 1 .. Len(events) /\ events'[i] = events[i + 1]
    BY <1>1, <1>5
  <2>2. \/ events[i + 1].event = "Created" => events[i + 1].buffer = told
        \/ \E j \in i + 1 + 1 .. Len(events) : Answer(events[j])
        \/ \E j \in 1 .. Len(requests) : requests[j].request = "Create"
    BY <2>1 DEF ToldInv
  <2>3. ASSUME NEW j \in i + 1 + 1 .. Len(events), Answer(events[j])
        PROVE  \E k \in i + 1 .. Len(events') : Answer(events'[k])
    BY <1>6, <2>3, Zenon
  <2>4. ASSUME NEW j \in 1 .. Len(requests), requests[j].request = "Create"
        PROVE  \E k \in 1 .. Len(requests') : requests'[k].request = "Create"
    BY <1>3, <2>4, Zenon
  <2>5. told' = told
    BY <1>1
  <2> QED BY <2>1, <2>2, <2>3, <2>4, <2>5, Zenon
<1>8. ~CreateDue' => buffer' = told'
  <2>1. 1 \in 1 .. Len(events) /\ Answer(events[1])
    BY <1>1 DEF Answer
  <2>2. \A j \in 1 + 1 .. Len(events) : j - 1 \in 1 .. Len(events') /\ events'[j - 1] = events[j]
    BY <1>1
  <2>3. \/ events[1].buffer = told
        \/ \E j \in 1 + 1 .. Len(events) : Answer(events[j])
        \/ \E j \in 1 .. Len(requests) : requests[j].request = "Create"
    BY <1>1, <2>1 DEF ToldInv
  <2> QED BY <1>1, <1>3, <2>2, <2>3, Due, ZenonT(60)
<1> QED BY <1>1, <1>2, <1>7, <1>8, ToldRequests DEF ToldInv
\* Another request than a creation is added, or none.
LEMMA CreatesKeptBy ==
  ASSUME TypeOK,
         \/ requests' = requests
         \/ \E r \in RequestSet : r.request # "Create" /\ requests' = Append(requests, r)
  PROVE  KeptCreates
<1>1. Len(requests) \in Nat
  BY LenProperties DEF TypeOK, ClientTypeOK
<1>2. CASE requests' = requests
  BY <1>1, <1>2, CreatesKept
<1>3. ASSUME NEW r \in RequestSet, r.request # "Create", requests' = Append(requests, r)
      PROVE  KeptCreates
  <2>1. /\ Len(requests') = Len(requests) + 1
        /\ \A i \in 1 .. Len(requests) : requests'[i] = requests[i]
        /\ requests'[Len(requests) + 1] = r
    BY <1>3, RequestAdded
  <2>2. \A i \in Len(requests) + 1 .. Len(requests') : i = Len(requests) + 1
    BY <1>1, <2>1
  <2> QED BY <1>1, <1>3, <2>1, <2>2, CreatesKept
<1> QED BY <1>2, <1>3

\* The client keeps what the handler was told, if no error ends a capture.
LEMMA ToldClient ==
  ASSUME TypeOK, TypeOK', lost \/ ToldInv, ClientNext
  PROVE  lost' \/ ToldInv'
<1> SUFFICES ASSUME ToldInv, ~lost'
             PROVE  ToldInv'
  BY ClientShape
<1>1. CASE QuietTake
  <2>1. KeptAnswers /\ told' = told /\ buffer' = buffer
    BY <1>1, AnswersKept DEF QuietTake
  <2>2. KeptCreates
    BY <1>1, CreatesKeptBy, Members, Fields DEF QuietTake
  <2> QED BY <2>1, <2>2, ToldKept
<1>2. CASE Forget
  <2>1. TakenEvent /\ ~Answer(events[1]) /\ requests' = requests /\ told' = told
        /\ buffer' \in {buffer, None}
    BY <1>2 DEF Forget, Answer
  <2> QED BY <2>1, AnswersKept, CreatesKeptBy, ToldKept
<1>3. CASE BeginCapture
  <2>1. KeptAnswers
    <3>1. CASE UNCHANGED events
      <4>1. Len(events) \in Nat
        BY LenProperties DEF TypeOK, ClientTypeOK
      <4> QED BY <3>1, <4>1, AnswersKept
    <3>2. CASE TakenEvent /\ events[1].event = "Global"
      <4>1. ~Answer(events[1])
        BY <3>2 DEF Answer
      <4> QED BY <3>2, <4>1, AnswersKept
    <3> QED BY <1>3, <3>1, <3>2 DEF BeginCapture
  <2>2. Capture(frame', output') \in RequestSet /\ Capture(frame', output').request # "Create"
    BY <1>3, Members, Fields DEF BeginCapture, FreeFrames
  <2>3. KeptCreates
    BY <1>3, <2>2, CreatesKeptBy DEF BeginCapture
  <2> QED BY <1>3, <2>1, <2>3, ToldKept DEF BeginCapture
<1>4. CASE CreateBuffer
  BY <1>4, ToldCreate
<1>5. CASE AskCopy
  <2>1. TakenEvent /\ ~Answer(events[1]) /\ told' = told /\ buffer' = buffer
    BY <1>5 DEF AskCopy, Answer
  <2>2. Copy(frame, buffer) \in RequestSet /\ Copy(frame, buffer).request # "Create"
    BY <1>5, Members, Fields DEF AskCopy, TypeOK, ClientTypeOK
  <2>3. KeptCreates
    BY <1>5, <2>2, CreatesKeptBy DEF AskCopy
  <2> QED BY <2>1, <2>3, AnswersKept, ToldKept
<1>6. CASE NewBuffer
  BY <1>6, ToldBuffer
<1>7. CASE NoBuffer
  BY <1>7 DEF NoBuffer
<1>8. CASE UNCHANGED <<output, buffer, frame, events, requests, told, hasty>>
  <2>1. Len(events) \in Nat
    BY LenProperties DEF TypeOK, ClientTypeOK
  <2> QED BY <1>8, <2>1, AnswersKept, CreatesKeptBy, ToldKept
<1> QED BY <1>1, <1>2, <1>3, <1>4, <1>5, <1>6, <1>7, <1>8, ClientShape

\* The compositor and the handler keep it.
LEMMA ToldOthers ==
  ASSUME TypeOK, TypeOK', lost \/ ToldInv,
         \/ HandleRequest
         \/ \E f \in Frames : FinishCopy(f)
         \/ \E n \in HotPlugged : Plug(n) \/ Unplug(n)
         \/ AnswerFrame \/ LeaveAutomatic \/ Resume
  PROVE  lost' \/ ToldInv'
<1> SUFFICES ASSUME ToldInv
             PROVE  ToldInv'
  BY OtherShape
<1>1. told' = told /\ buffer' = buffer
  BY OtherShape
<1>2. CASE Loosens
  <2>1. KeptAnswers
    <3>1. /\ Len(events) \in Nat /\ Len(events') \in Nat /\ Len(events') >= Len(events)
          /\ \A i \in 1 .. Len(events) : events'[i] = events[i]
          /\ \A i \in Len(events) + 1 .. Len(events') : ~Answer(events'[i])
      BY <1>2 DEF Loosens, MoreEvents, Answer
    <3> QED BY <3>1, AnswersKept
  <2>2. KeptCreates
    BY <1>2, CreatesKept, CreatesKeptBy DEF Loosens
  <2> QED BY <1>1, <2>1, <2>2, ToldKept
<1>3. CASE Offered
  <2>1. KeptAnswers
    <3>1. \A i \in Len(events) + 1 .. Len(events') :
            i = Len(events) + 1 \/ i = Len(events) + 2
      BY <1>3 DEF Offered
    <3>2. /\ Len(events) \in Nat /\ Len(events') \in Nat /\ Len(events') >= Len(events)
          /\ \A i \in 1 .. Len(events) : events'[i] = events[i]
          /\ \A i \in Len(events) + 1 .. Len(events') : ~Answer(events'[i])
      BY <1>3, <3>1 DEF Offered, Answer
    <3> QED BY <3>2, AnswersKept
  <2>2. KeptCreates
    BY <1>3, CreatesKept DEF Offered
  <2> QED BY <1>1, <2>1, <2>2, ToldKept
<1>4. CASE CreateAnswered
  BY <1>1, <1>4, ToldAnswer
<1>5. CASE CopyBegun
  <2>1. Len(events) \in Nat
    BY LenProperties DEF TypeOK, ClientTypeOK
  <2> QED BY <1>1, <1>5, <2>1, AnswersKept, CreatesKept, ToldKept DEF CopyBegun
<1> QED BY <1>2, <1>3, <1>4, <1>5, OtherShape

\* Copies go to the dmabuf the handler was told of last, unless another is being created
\* or an error ended a capture.
THEOREM BufferIsImportedHolds == Spec => []BufferIsImported
<1> DEFINE Inv == lost \/ ToldInv
<1>1. Init /\ TypeOK => Inv
  <2> SUFFICES ASSUME Init, TypeOK
               PROVE  ToldInv
    OBVIOUS
  <2>1. PICK s \in Startup : events = [i \in 1 .. Len(s) |-> Global(s[i])]
    BY DEF Init
  <2>2. Len(s) \in Nat
    BY CaptureLoopAssumption, LenProperties
  <2>3. Len(events) = Len(s) /\ \A i \in 1 .. Len(events) : ~Answer(events[i])
    BY <2>1, <2>2, Fields DEF Answer
  <2>4. buffer = None /\ Len(requests) = 0
    BY DEF Init, ClientInit
  <2> QED BY <2>3, <2>4 DEF ToldInv
<1>2. TypeOK /\ TypeOK' /\ Inv /\ [Next]_vars => Inv'
  <2> SUFFICES ASSUME TypeOK, TypeOK', Inv, [Next]_vars
               PROVE  Inv'
    OBVIOUS
  <2>1. CASE UNCHANGED vars
    <3>1. UNCHANGED <<buffer, events, requests, told, lost>>
      BY <2>1 DEF vars, clientVars
    <3>2. UNCHANGED CreateDue
      BY <3>1 DEF CreateDue
    <3> QED BY <3>1, <3>2 DEF ToldInv
  <2>2. CASE ClientNext /\ Alone
    BY <2>2, ToldClient
  <2> QED BY <2>1, <2>2, ToldOthers DEF Next
<1>3. Inv => BufferIsImported
  BY DEF ToldInv, BufferIsImported
<1> QED BY <1>1, <1>2, <1>3, TypeCorrect, PTL DEF Spec
-------------------------------------------------------------------------------
(* The output frames are captured from.                                       *)

\* Every event and every request but the first is there in the next state, or all are.
LEMMA Taken ==
  /\ TakenEvent => \A i \in 1 .. Len(events') :
                     i + 1 \in 1 .. Len(events) /\ events'[i] = events[i + 1]
  /\ TakenEvent => 1 \in 1 .. Len(events)
  /\ TakenRequest => \A i \in 1 .. Len(requests') :
                       i + 1 \in 1 .. Len(requests) /\ requests'[i] = requests[i + 1]
  /\ TakenRequest => 1 \in 1 .. Len(requests)
  BY DEF TakenEvent, TakenRequest

\* The requests after one more, or none, of the client.
LEMMA Asked ==
  ASSUME TypeOK,
         NEW r \in RequestSet, requests' = requests \/ requests' = Append(requests, r)
  PROVE  \A i \in 1 .. Len(requests') :
           \/ i \in 1 .. Len(requests) /\ requests'[i] = requests[i]
           \/ i = Len(requests) + 1 /\ i = Len(requests') /\ requests'[i] = r
              /\ requests' = Append(requests, r)
<1>1. CASE requests' = requests
  BY <1>1
<1>2. CASE requests' = Append(requests, r)
  <2>1. /\ Len(requests) \in Nat /\ Len(requests') = Len(requests) + 1
        /\ \A i \in 1 .. Len(requests) : requests'[i] = requests[i]
        /\ requests'[Len(requests) + 1] = r
    BY <1>2, RequestAdded
  <2>2. \A i \in 1 .. Len(requests') : i \in 1 .. Len(requests) \/ i = Len(requests) + 1
    BY <2>1
  <2> QED BY <1>2, <2>1, <2>2
<1> QED BY <1>1, <1>2

\* A step that leaves the compositor's frames alone.
LEMMA TargetKept ==
  ASSUME TypeOK, TypeOK', TargetInv, UNCHANGED <<target, present, gone>>,
         output' = output \/ output = None \/ output \in gone,
         \A i \in 1 .. Len(events') : events'[i].event = "GlobalRemove" =>
           \E j \in 1 .. Len(events) : events'[i] = events[j],
         \A i \in 1 .. Len(requests') : requests'[i].request = "Capture" =>
           \/ requests'[i].output = output'
           \/ \E j \in 1 .. Len(requests) : requests'[i] = requests[j]
  PROVE  TargetInv'
<1>1. \A i \in 1 .. Len(events') : events'[i].event = "GlobalRemove" => events'[i].name \in gone'
  BY DEF TargetInv
<1>2. \A f \in Frames : target'[f] # None => target'[f] = output' /\ output' \in present'
  BY DEF TargetInv
<1>3. ASSUME NEW i \in 1 .. Len(requests'), requests'[i].request = "Capture"
      PROVE  requests'[i].output = output' \/ requests'[i].output \in gone'
  <2>1. CASE requests'[i].output = output'
    BY <2>1
  <2>2. ASSUME NEW j \in 1 .. Len(requests), requests'[i] = requests[j]
        PROVE  requests'[i].output = output' \/ requests'[i].output \in gone'
    <3>1. requests[j] \in RequestSet
      BY ElementOfSeq DEF TypeOK, ClientTypeOK
    <3>2. requests[j].output \in Outputs /\ requests[j].output # None
      BY <1>3, <2>2, <3>1, RequestMember, ScreencopyAssumption
    <3>3. requests[j].output = output \/ requests[j].output \in gone
      BY <1>3, <2>2 DEF TargetInv
    <3> QED BY <2>2, <3>2, <3>3
  <2> QED BY <1>3, <2>1, <2>2
<1> QED BY <1>1, <1>2, <1>3 DEF TargetInv

\* The client captures its output.
LEMMA TargetClient ==
  ASSUME TypeOK, TypeOK', TargetInv, ClientNext, Alone
  PROVE  TargetInv'
<1>1. UNCHANGED <<target, present, gone>>
  BY DEF Alone, compositorVars
<1>2. \A i \in 1 .. Len(events') : \E j \in 1 .. Len(events) : events'[i] = events[j]
  BY ClientShape, Taken
     DEF QuietTake, Forget, BeginCapture, CreateBuffer, AskCopy, NewBuffer, NoBuffer
<1>3. output' = output \/ output = None \/ output \in gone
  <2>1. CASE Forget
    BY <2>1, Taken DEF Forget, TargetInv
  <2> QED BY <2>1, ClientShape
          DEF QuietTake, BeginCapture, CreateBuffer, AskCopy, NewBuffer, NoBuffer
<1>4. ASSUME NEW i \in 1 .. Len(requests'), requests'[i].request = "Capture"
      PROVE  \/ requests'[i].output = output'
             \/ \E j \in 1 .. Len(requests) : requests'[i] = requests[j]
  <2>1. CASE QuietTake
    <3>1. GetFeedback.request # "Capture"
      BY Fields
    <3> QED BY <1>4, <2>1, <3>1, Asked, Members DEF QuietTake
  <2>2. CASE BeginCapture
    <3>1. Capture(frame', output') \in RequestSet /\ Capture(frame', output').output = output'
      BY <2>2, Members, Fields DEF BeginCapture, FreeFrames
    <3> QED BY <1>4, <2>2, <3>1, Asked DEF BeginCapture
  <2>3. CASE CreateBuffer
    <3>1. Create(told') \in RequestSet /\ Create(told').request # "Capture"
      BY <2>3, Members, Fields DEF CreateBuffer
    <3> QED BY <1>4, <2>3, <3>1, Asked DEF CreateBuffer
  <2>4. CASE AskCopy
    <3>1. Copy(frame, buffer) \in RequestSet /\ Copy(frame, buffer).request # "Capture"
      BY <2>4, Members, Fields DEF AskCopy, TypeOK, ClientTypeOK
    <3> QED BY <1>4, <2>4, <3>1, Asked DEF AskCopy
  <2>5. CASE NewBuffer
    <3>1. events[1] \in EventSet
      BY <2>5, Taken, ElementOfSeq DEF NewBuffer, TypeOK, ClientTypeOK
    <3>2. buffer' \in Buffers
      BY <2>5, <3>1, EventMember DEF NewBuffer
    <3>3. frame # None =>
            Copy(frame, buffer') \in RequestSet /\ Copy(frame, buffer').request # "Capture"
      BY <3>2, Members, Fields DEF TypeOK, ClientTypeOK
    <3> QED BY <1>4, <2>5, <3>3, Asked DEF NewBuffer
  <2>6. CASE requests' = requests
    BY <2>6
  <2> QED BY <2>1, <2>2, <2>3, <2>4, <2>5, <2>6, ClientShape DEF Forget, NoBuffer
<1> QED BY <1>1, <1>2, <1>3, <1>4, TargetKept
\* The compositor captures frames from the client's output and from outputs that are there.
LEMMA TargetOthers ==
  ASSUME TypeOK, TypeOK', TargetInv,
         \/ HandleRequest
         \/ \E f \in Frames : FinishCopy(f)
         \/ \E n \in HotPlugged : Plug(n) \/ Unplug(n)
         \/ AnswerFrame \/ LeaveAutomatic \/ Resume
  PROVE  TargetInv'
<1>1. output' = output
  BY OtherShape
<1>2. \A i \in 1 .. Len(requests') : \E j \in 1 .. Len(requests) : requests'[i] = requests[j]
  <2>1. CASE UNCHANGED requests
    BY <2>1
  <2>2. CASE TakenRequest
    BY <2>2, Taken
  <2> QED BY <2>1, <2>2, OtherShape DEF Loosens, Offered, CreateAnswered, CopyBegun
<1>3. CASE Loosens
  <2>1. Plugged /\ MoreEvents
    BY <1>3 DEF Loosens
  <2>2. (\A n \in gone' : n \notin present') /\ gone \subseteq gone'
    BY <2>1 DEF Plugged, TargetInv
  <2>3. ASSUME NEW i \in 1 .. Len(events'), events'[i].event = "GlobalRemove"
        PROVE  events'[i].name \in gone'
    <3>1. CASE i \in 1 .. Len(events)
      BY <2>1, <2>2, <2>3, <3>1 DEF MoreEvents, TargetInv
    <3>2. CASE i \notin 1 .. Len(events)
      <4>1. i \in Len(events) + 1 .. Len(events')
        BY <2>1, <3>2 DEF MoreEvents
      <4> QED BY <2>1, <2>3, <4>1 DEF MoreEvents
    <3> QED BY <3>1, <3>2
  <2>4. ASSUME NEW f \in Frames, target'[f] # None
        PROVE  target'[f] = output' /\ output' \in present'
    <3>1. target'[f] = target[f] /\ target[f] # None
      BY <1>3, <2>4 DEF Loosens
    <3>2. target[f] = output /\ output \in present
      BY <3>1 DEF TargetInv
    <3> QED BY <1>1, <2>1, <3>1, <3>2 DEF Plugged
  <2>5. \A i \in 1 .. Len(requests') : requests'[i].request = "Capture" =>
          requests'[i].output = output' \/ requests'[i].output \in gone'
    BY <1>1, <1>2, <2>2 DEF TargetInv
  <2> QED BY <2>2, <2>3, <2>4, <2>5 DEF TargetInv
<1>4. CASE Offered
  <2>1. requests[1].output = output
    <3>1. 1 \in 1 .. Len(requests) /\ requests[1].request = "Capture"
          /\ requests[1].output \in present
      BY <1>4, Taken DEF Offered
    <3> QED BY <3>1 DEF TargetInv
  <2>2. \A i \in 1 .. Len(events') : events'[i].event = "GlobalRemove" =>
          i \in 1 .. Len(events) /\ events'[i] = events[i]
    <3>1. \A i \in 1 .. Len(events') :
            i \in 1 .. Len(events) \/ i = Len(events) + 1 \/ i = Len(events) + 2
      BY <1>4 DEF Offered
    <3> QED BY <1>4, <3>1 DEF Offered
  <2>3. \A f \in Frames : target'[f] # None => target'[f] = output' /\ output' \in present'
    <3> TAKE f \in Frames
    <3>1. CASE f = requests[1].frame
      BY <1>1, <1>4, <2>1, <3>1 DEF Offered, TypeOK
    <3>2. CASE f # requests[1].frame
      <4>1. target'[f] = target[f]
        BY <1>4, <3>2 DEF Offered, TypeOK
      <4> QED BY <1>1, <1>4, <4>1 DEF Offered, TargetInv
    <3> QED BY <3>1, <3>2
  <2>4. UNCHANGED <<present, gone>>
    BY <1>4 DEF Offered
  <2> QED BY <1>1, <1>2, <2>2, <2>3, <2>4 DEF TargetInv
<1>5. CASE CreateAnswered
  <2>1. \A i \in 1 .. Len(events') : i \in 1 .. Len(events) \/ i = Len(events) + 1
    BY <1>5 DEF CreateAnswered
  <2>2. \A i \in 1 .. Len(events') : events'[i].event = "GlobalRemove" =>
          \E j \in 1 .. Len(events) : events'[i] = events[j]
    BY <1>5, <2>1 DEF CreateAnswered, Answer
  <2> QED BY <1>1, <1>2, <1>5, <2>2, TargetKept DEF CreateAnswered
<1>6. CASE CopyBegun
  BY <1>1, <1>2, <1>6, TargetKept DEF CopyBegun
<1> QED BY <1>3, <1>4, <1>5, <1>6, OtherShape

\* The frames are captured from the client's output, whatever is plugged in or out.
LEMMA TargetHolds == Spec => []TargetInv
<1>1. Init /\ TypeOK => TargetInv
  <2> SUFFICES ASSUME Init, TypeOK
               PROVE  TargetInv
    OBVIOUS
  <2>1. PICK s \in Startup : events = [i \in 1 .. Len(s) |-> Global(s[i])]
    BY DEF Init
  <2>2. Len(s) \in Nat
    BY CaptureLoopAssumption, LenProperties
  <2>3. Len(events) = Len(s) /\ \A i \in 1 .. Len(events) : events[i].event # "GlobalRemove"
    BY <2>1, <2>2, Fields
  <2>4. gone = {} /\ Len(requests) = 0 /\ \A f \in Frames : target[f] = None
    BY DEF Init, ClientInit
  <2> QED BY <2>3, <2>4 DEF TargetInv
<1>2. TypeOK /\ TypeOK' /\ TargetInv /\ [Next]_vars => TargetInv'
  <2> SUFFICES ASSUME TypeOK, TypeOK', TargetInv, [Next]_vars
               PROVE  TargetInv'
    OBVIOUS
  <2>1. CASE UNCHANGED vars
    BY <2>1 DEF vars, clientVars, bindings, compositorVars, TargetInv
  <2>2. CASE ClientNext /\ Alone
    BY <2>2, TargetClient
  <2> QED BY <2>1, <2>2, TargetOthers DEF Next
<1> QED BY <1>1, <1>2, TypeCorrect, PTL DEF Spec
-------------------------------------------------------------------------------
(* Captures come one after the other.                                         *)

\* No event that leads to a copy, and no request for one, is added.
FewerStages ==
  \/ TakenEvent
  \/ /\ Len(events) \in Nat /\ Len(events') \in Nat /\ Len(events') >= Len(events)
     /\ \A i \in 1 .. Len(events) : events'[i] = events[i]
     /\ \A i \in Len(events) + 1 .. Len(events') : ~Stage(events'[i])

FewerBegins ==
  \/ TakenRequest
  \/ /\ Len(requests) \in Nat /\ Len(requests') \in Nat /\ Len(requests') >= Len(requests)
     /\ \A i \in 1 .. Len(requests) : requests'[i] = requests[i]
     /\ \A i \in Len(requests) + 1 .. Len(requests') : ~Begins(requests'[i])

\* The events, and the requests, that are left keep their order.
LEMMA StagesKept ==
  ASSUME FewerStages
  PROVE  \E d \in {0, 1} :
           /\ \A i \in 1 .. Len(events') : Stage(events'[i]) =>
                i + d \in 1 .. Len(events) /\ events[i + d] = events'[i]
           /\ \A i \in 1 .. Len(events') : Stage(events'[i]) => \A j \in 1 .. i - 1 :
                j + d \in 1 .. i + d - 1 /\ events'[j] = events[j + d]
           /\ \A i \in 1 .. Len(events') :
                i + d < Len(events) => i < Len(events') /\ events'[i + 1] = events[i + d + 1]
<1>1. CASE TakenEvent
  <2>1. \A i \in 1 .. Len(events') :
          i + 1 \in 1 .. Len(events) /\ events[i + 1] = events'[i]
    BY <1>1 DEF TakenEvent
  <2>2. \A i \in 1 .. Len(events') : \A j \in 1 .. i - 1 :
          j + 1 \in 1 .. i + 1 - 1 /\ events'[j] = events[j + 1]
    BY <1>1 DEF TakenEvent
  <2>3. \A i \in 1 .. Len(events') :
          i + 1 < Len(events) => i < Len(events') /\ events'[i + 1] = events[i + 1 + 1]
    BY <1>1 DEF TakenEvent
  <2> QED BY <2>1, <2>2, <2>3
<1>2. CASE /\ Len(events) \in Nat /\ Len(events') \in Nat /\ Len(events') >= Len(events)
           /\ \A i \in 1 .. Len(events) : events'[i] = events[i]
           /\ \A i \in Len(events) + 1 .. Len(events') : ~Stage(events'[i])
  <2>1. \A i \in 1 .. Len(events') : Stage(events'[i]) =>
          i + 0 \in 1 .. Len(events) /\ events[i + 0] = events'[i]
    <3> TAKE i \in 1 .. Len(events')
    <3>1. CASE i \in Len(events) + 1 .. Len(events')
      BY <1>2, <3>1
    <3>2. CASE i \notin Len(events) + 1 .. Len(events')
      BY <1>2, <3>2
    <3> QED BY <3>1, <3>2
  <2>2. \A i \in 1 .. Len(events') : Stage(events'[i]) => \A j \in 1 .. i - 1 :
          j + 0 \in 1 .. i + 0 - 1 /\ events'[j] = events[j + 0]
    <3> TAKE i \in 1 .. Len(events')
    <3> HAVE Stage(events'[i])
    <3> TAKE j \in 1 .. i - 1
    <3>1. i \in 1 .. Len(events)
      BY <2>1
    <3>2. j \in 1 .. Len(events) /\ j + 0 = j /\ j \in 1 .. i + 0 - 1
      BY <1>2, <3>1
    <3> QED BY <1>2, <3>2
  <2>3. \A i \in 1 .. Len(events') :
          i + 0 < Len(events) => i < Len(events') /\ events'[i + 1] = events[i + 0 + 1]
    BY <1>2
  <2> QED BY <2>1, <2>2, <2>3
<1> QED BY <1>1, <1>2 DEF FewerStages

\* A request that is left stood where it stands now, or one place further back.
LEMMA BeginsKept ==
  ASSUME FewerBegins
  PROVE  \E c \in {0, 1} : \A i \in 1 .. Len(requests') : Begins(requests'[i]) =>
           i + c \in 1 .. Len(requests) /\ requests[i + c] = requests'[i]
<1>1. CASE TakenRequest
  <2>1. \A i \in 1 .. Len(requests') :
          i + 1 \in 1 .. Len(requests) /\ requests[i + 1] = requests'[i]
    BY <1>1 DEF TakenRequest
  <2> QED BY <2>1
<1>2. CASE /\ Len(requests) \in Nat /\ Len(requests') \in Nat /\ Len(requests') >= Len(requests)
           /\ \A i \in 1 .. Len(requests) : requests'[i] = requests[i]
           /\ \A i \in Len(requests) + 1 .. Len(requests') : ~Begins(requests'[i])
  <2>1. \A i \in 1 .. Len(requests') : Begins(requests'[i]) =>
          i + 0 \in 1 .. Len(requests) /\ requests[i + 0] = requests'[i]
    <3> TAKE i \in 1 .. Len(requests')
    <3>1. CASE i \in Len(requests) + 1 .. Len(requests')
      BY <1>2, <3>1
    <3>2. CASE i \notin Len(requests) + 1 .. Len(requests')
      BY <1>2, <3>2
    <3> QED BY <3>1, <3>2
  <2> QED BY <2>1
<1> QED BY <1>1, <1>2 DEF FewerBegins

\* What is due then was due before.
LEMMA FewerDue ==
  ASSUME TypeOK, TypeOK', FewerStages, FewerBegins
  PROVE  (CreateDue' => CreateDue) /\ (CopyDue' => CopyDue)
<1>1. \A i \in 1 .. Len(events') : Stage(events'[i]) =>
        \E j \in 1 .. Len(events) : events[j] = events'[i]
  BY StagesKept
<1>2. \A i \in 1 .. Len(requests') : Begins(requests'[i]) =>
        \E j \in 1 .. Len(requests) : requests[j] = requests'[i]
  BY BeginsKept
<1>3. CreateDue' => CreateDue
  BY <1>1, <1>2, Due DEF Stage, Answer, Begins
<1> QED BY <1>1, <1>2, <1>3, Due DEF Stage, Begins

\* A step that begins nothing keeps captures one after the other.
LEMMA OneCaptureKept ==
  ASSUME TypeOK, TypeOK', OneCapture, FewerStages, FewerBegins, buffer' \in {buffer, None}
  PROVE  OneCapture'
<1>1. PICK d \in {0, 1} :
        /\ \A i \in 1 .. Len(events') : Stage(events'[i]) =>
             i + d \in 1 .. Len(events) /\ events[i + d] = events'[i]
        /\ \A i \in 1 .. Len(events') :
             i + d < Len(events) => i < Len(events') /\ events'[i + 1] = events[i + d + 1]
  BY StagesKept
<1>2. PICK c \in {0, 1} :
        \A i \in 1 .. Len(requests') : Begins(requests'[i]) =>
          i + c \in 1 .. Len(requests) /\ requests[i + c] = requests'[i]
  BY BeginsKept
<1>3. {Len(events), Len(events'), Len(requests), Len(requests')} \subseteq Nat
  BY LenProperties DEF TypeOK, ClientTypeOK
<1>4. \A i, j \in 1 .. Len(events') : i < j /\ Stage(events'[i]) /\ Stage(events'[j]) =>
        \/ events'[i].event = "LinuxDmabuf" /\ events'[j].event = "BufferDone"
        \/ events'[i].event = "BufferDone" /\ Answer(events'[j])
  <2> TAKE i, j \in 1 .. Len(events')
  <2> HAVE i < j /\ Stage(events'[i]) /\ Stage(events'[j])
  <2>1. i + d \in 1 .. Len(events) /\ j + d \in 1 .. Len(events) /\ i + d < j + d
    BY <1>1, <1>3
  <2>2. events[i + d] = events'[i] /\ events[j + d] = events'[j]
    BY <1>1
  <2> QED BY <2>1, <2>2 DEF OneCapture
<1>5. \A i, j \in 1 .. Len(requests') : i < j => ~Begins(requests'[i]) \/ ~Begins(requests'[j])
  <2> TAKE i, j \in 1 .. Len(requests')
  <2> SUFFICES ASSUME i < j, Begins(requests'[i]), Begins(requests'[j])
               PROVE  FALSE
    OBVIOUS
  <2>1. i + c \in 1 .. Len(requests) /\ j + c \in 1 .. Len(requests) /\ i + c < j + c
    BY <1>2, <1>3
  <2>2. requests[i + c] = requests'[i] /\ requests[j + c] = requests'[j]
    BY <1>2
  <2> QED BY <2>1, <2>2 DEF OneCapture
<1>6. \A i \in 1 .. Len(events'), j \in 1 .. Len(requests') :
        Stage(events'[i]) /\ Begins(requests'[j]) =>
          events'[i].event = "BufferDone" /\ requests'[j].request = "Create"
  BY <1>1, <1>2, SMTT(120) DEF OneCapture
<1>7. \A i \in 1 .. Len(events') : events'[i].event = "LinuxDmabuf" =>
        i < Len(events') /\ events'[i + 1].event = "BufferDone"
  <2> TAKE i \in 1 .. Len(events')
  <2> HAVE events'[i].event = "LinuxDmabuf"
  <2>1. i + d \in 1 .. Len(events) /\ events[i + d] = events'[i]
    BY <1>1 DEF Stage
  <2>2. i + d < Len(events) /\ events[i + d + 1].event = "BufferDone"
    BY <2>1 DEF OneCapture
  <2> QED BY <1>1, <2>2
<1>8. \A i \in 1 .. Len(events') :
        events'[i].event = "BufferDone" /\ CreateDue' => buffer' = None
  BY <1>1, FewerDue DEF Stage, OneCapture
<1> QED BY <1>4, <1>5, <1>6, <1>7, <1>8 DEF OneCapture
\* Nothing leads to a copy.
Idle ==
  /\ \A i \in 1 .. Len(events) : ~Stage(events[i])
  /\ \A i \in 1 .. Len(requests) : ~Begins(requests[i])

\* Nothing leads to a copy when none is due.
LEMMA NothingDue ==
  ASSUME TypeOK, TypeOK', OneCapture, ~CopyDue
  PROVE  Idle
<1>1. /\ \A i \in 1 .. Len(events) : events[i].event # "BufferDone" /\ ~Answer(events[i])
      /\ \A i \in 1 .. Len(requests) : ~Begins(requests[i])
  BY Due DEF Begins
<1>2. ASSUME NEW i \in 1 .. Len(events), events[i].event = "LinuxDmabuf"
      PROVE  FALSE
  <2>1. i < Len(events) /\ events[i + 1].event = "BufferDone"
    BY <1>2 DEF OneCapture
  <2>2. i + 1 \in 1 .. Len(events)
    BY <2>1, LenProperties DEF TypeOK, ClientTypeOK
  <2> QED BY <1>1, <2>1, <2>2
<1> QED BY <1>1, <1>2 DEF Idle, Stage, Answer

\* A step that ends the capture leaves nothing due.
LEMMA NothingDueThen ==
  ASSUME TypeOK, TypeOK', Idle'
  PROVE  OneCapture' /\ ~CopyDue' /\ ~CreateDue'
<1>1. OneCapture'
  BY DEF Idle, OneCapture, Stage
<1> QED BY <1>1, Due DEF Idle, Stage, Answer, Begins

\* Nothing is left when the last event of a capture is handled.
LEMMA IdleThen ==
  ASSUME TypeOK, TypeOK', OneCapture, NewBuffer \/ AskCopy
  PROVE  Idle'
<1>1. TakenEvent /\ 1 \in 1 .. Len(events)
  BY Taken DEF NewBuffer, AskCopy
<1>2. \/ events[1].event = "Created"
      \/ events[1].event = "BufferDone" /\ ~CreateDue
  BY <1>1 DEF NewBuffer, AskCopy, OneCapture
<1>3. \A i \in 1 .. Len(requests') :
        \/ i \in 1 .. Len(requests) /\ requests'[i] = requests[i]
        \/ ~Begins(requests'[i])
  <2>1. \A f, b : Copy(f, b).request \notin {"Capture", "Create"}
    BY Fields
  <2>2. CASE NewBuffer
    <3>1. buffer' \in Buffers
      <4>1. events[1] \in EventSet
        BY <1>1, ElementOfSeq DEF TypeOK, ClientTypeOK
      <4> QED BY <2>2, <4>1, EventMember DEF NewBuffer
    <3>2. frame # None => Copy(frame, buffer') \in RequestSet
      BY <3>1, Members DEF TypeOK, ClientTypeOK
    <3> QED BY <2>1, <2>2, <3>2, Asked DEF NewBuffer, Begins
  <2>3. CASE AskCopy
    <3>1. Copy(frame, buffer) \in RequestSet
      BY <2>3, Members DEF AskCopy, TypeOK, ClientTypeOK
    <3> QED BY <2>1, <2>3, <3>1, Asked DEF AskCopy, Begins
  <2> QED BY <2>2, <2>3
<1>4. \A i \in 1 .. Len(requests) : ~Begins(requests[i])
  <2>1. CASE events[1].event = "Created"
    BY <1>1, <2>1 DEF OneCapture, Stage
  <2>2. CASE events[1].event = "BufferDone" /\ ~CreateDue
    BY <1>1, <2>2, Due DEF OneCapture, Stage
  <2> QED BY <1>2, <2>1, <2>2
<1>5. ASSUME NEW i \in 1 .. Len(events'), Stage(events'[i])
      PROVE  FALSE
  <2>1. i + 1 \in 1 .. Len(events) /\ events'[i] = events[i + 1] /\ 1 < i + 1
    BY <1>1, Taken
  <2>2. events[1].event = "BufferDone" /\ Answer(events[i + 1])
    BY <1>1, <1>2, <1>5, <2>1 DEF OneCapture, Stage
  <2> QED BY <1>2, <2>1, <2>2, Due
<1> QED BY <1>3, <1>4, <1>5 DEF Idle

\* A capture begins when nothing leads to a copy.
LEMMA OneCaptureBegins ==
  ASSUME TypeOK, TypeOK', OneCapture, BeginCapture, ~hasty'
  PROVE  OneCapture'
<1>1. Idle
  BY NothingDue DEF BeginCapture
<1>2. \A i \in 1 .. Len(events') : ~Stage(events'[i])
  BY <1>1, Taken DEF BeginCapture, Idle
<1>3. Capture(frame', output') \in RequestSet
  BY Members DEF BeginCapture, FreeFrames
<1>4. \A i \in 1 .. Len(requests') : Begins(requests'[i]) => i = Len(requests')
  BY <1>1, <1>3, Asked DEF BeginCapture, Idle
<1>5. \A i, j \in 1 .. Len(requests') : i < j => ~Begins(requests'[i]) \/ ~Begins(requests'[j])
  BY <1>4
<1> QED BY <1>2, <1>5 DEF OneCapture, Stage

\* A buffer is created while the event behind its offer waits.
LEMMA OneCaptureCreate ==
  ASSUME TypeOK, TypeOK', OneCapture, CreateBuffer
  PROVE  OneCapture' /\ CopyDue
<1>1. TakenEvent /\ 1 \in 1 .. Len(events) /\ events[1].event = "LinuxDmabuf"
      /\ Stage(events[1]) /\ buffer' = None
  BY Taken DEF CreateBuffer, Stage
<1>2. Create(told') \in RequestSet
  BY Members DEF CreateBuffer
<1>3. \A i \in 1 .. Len(requests) : ~Begins(requests[i])
  BY <1>1 DEF OneCapture
<1>4. \A i \in 1 .. Len(requests') : Begins(requests'[i]) =>
        i = Len(requests') /\ requests'[i].request = "Create"
  BY <1>2, <1>3, Asked, Fields DEF CreateBuffer
<1>5. \A i \in 1 .. Len(events') : i + 1 \in 1 .. Len(events) /\ events'[i] = events[i + 1]
  BY <1>1, Taken
<1>6. \A i \in 1 .. Len(events') : Stage(events'[i]) => events'[i].event = "BufferDone"
  <2> TAKE i \in 1 .. Len(events')
  <2> HAVE Stage(events'[i])
  <2>1. i + 1 \in 1 .. Len(events) /\ events'[i] = events[i + 1] /\ 1 < i + 1
    BY <1>5
  <2> QED BY <1>1, <2>1 DEF OneCapture
<1>7. \A i, j \in 1 .. Len(events') : i < j /\ Stage(events'[i]) /\ Stage(events'[j]) => FALSE
  <2> TAKE i, j \in 1 .. Len(events')
  <2> HAVE i < j /\ Stage(events'[i]) /\ Stage(events'[j])
  <2>1. i + 1 \in 1 .. Len(events) /\ j + 1 \in 1 .. Len(events) /\ i + 1 < j + 1
        /\ events'[i] = events[i + 1] /\ events'[j] = events[j + 1]
    BY <1>5
  <2>2. events[i + 1].event = "BufferDone" /\ events[j + 1].event = "BufferDone"
    BY <1>6, <2>1
  <2> QED BY <2>1, <2>2 DEF OneCapture, Stage, Answer
<1>8. \A i, j \in 1 .. Len(requests') : i < j => ~Begins(requests'[i]) \/ ~Begins(requests'[j])
  BY <1>4
<1>9. OneCapture'
  BY <1>1, <1>4, <1>6, <1>7, <1>8 DEF OneCapture, Stage
<1>10. 1 < Len(events) /\ events[1 + 1].event = "BufferDone" /\ 1 + 1 \in 1 .. Len(events)
  BY <1>1, LenProperties DEF OneCapture, TypeOK, ClientTypeOK
<1> QED BY <1>9, <1>10, Due
\* A buffer type is offered when nothing else leads to a copy.
LEMMA OneCaptureOffered ==
  ASSUME TypeOK, TypeOK', OneCapture, Offered
  PROVE  OneCapture' /\ CopyDue /\ ~CreateDue'
<1>1. TakenRequest /\ 1 \in 1 .. Len(requests) /\ requests[1].request = "Capture"
  BY Taken DEF Offered
<1>2. /\ \A i \in 1 .. Len(events) : ~Stage(events[i])
      /\ \A i \in 1 .. Len(requests) : i > 1 => ~Begins(requests[i])
  BY <1>1 DEF OneCapture, Begins
<1>3. \A i \in 1 .. Len(requests') : ~Begins(requests'[i])
  <2> TAKE i \in 1 .. Len(requests')
  <2>1. i + 1 \in 1 .. Len(requests) /\ i + 1 > 1 /\ requests'[i] = requests[i + 1]
    BY <1>1, Taken
  <2> QED BY <1>2, <2>1
<1>4. \A i \in 1 .. Len(events') :
        \/ ~Stage(events'[i])
        \/ i = Len(events) + 1 /\ events'[i].event = "LinuxDmabuf"
        \/ i = Len(events) + 2 /\ events'[i].event = "BufferDone"
  <2> TAKE i \in 1 .. Len(events')
  <2>1. i \in 1 .. Len(events) \/ i = Len(events) + 1 \/ i = Len(events) + 2
    BY DEF Offered
  <2> QED BY <1>2, <2>1 DEF Offered
<1>5. Len(events) \in Nat /\ Len(events') = Len(events) + 2
      /\ events'[Len(events) + 1 + 1].event = "BufferDone"
  <2>1. Len(events) \in Nat /\ Len(events) + 1 + 1 = Len(events) + 2
    BY DEF Offered
  <2> QED BY <2>1 DEF Offered
<1>6. \A i, j \in 1 .. Len(events') : i < j /\ Stage(events'[i]) /\ Stage(events'[j]) =>
        \/ events'[i].event = "LinuxDmabuf" /\ events'[j].event = "BufferDone"
        \/ events'[i].event = "BufferDone" /\ Answer(events'[j])
  BY <1>4, <1>5
<1>7. ~CreateDue'
  <2>1. \A i \in 1 .. Len(events') : ~Answer(events'[i])
    BY <1>4 DEF Stage, Answer
  <2> QED BY <1>3, <2>1, Due DEF Begins
<1>8. \A i \in 1 .. Len(events') : events'[i].event = "LinuxDmabuf" =>
        i < Len(events') /\ events'[i + 1].event = "BufferDone"
  <2> TAKE i \in 1 .. Len(events')
  <2> HAVE events'[i].event = "LinuxDmabuf"
  <2>1. i = Len(events) + 1
    BY <1>4 DEF Stage
  <2> QED BY <1>5, <2>1
<1>9. CopyDue
  BY <1>1, Due
<1> QED BY <1>3, <1>6, <1>7, <1>8, <1>9 DEF OneCapture

\* A creation is answered behind the event that offered it.
LEMMA OneCaptureAnswered ==
  ASSUME TypeOK, TypeOK', OneCapture, CreateAnswered, buffer' = buffer
  PROVE  OneCapture' /\ CopyDue
<1>1. TakenRequest /\ 1 \in 1 .. Len(requests) /\ requests[1].request = "Create"
      /\ Begins(requests[1])
  BY Taken DEF CreateAnswered, Begins
<1>2. CreateDue
  BY <1>1, Due
<1>3. /\ \A i \in 1 .. Len(events) : Stage(events[i]) =>
           events[i].event = "BufferDone" /\ buffer = None
      /\ \A i \in 1 .. Len(requests) : i > 1 => ~Begins(requests[i])
  BY <1>1, <1>2 DEF OneCapture
<1>4. \A i \in 1 .. Len(requests') : ~Begins(requests'[i])
  <2> TAKE i \in 1 .. Len(requests')
  <2>1. i + 1 \in 1 .. Len(requests) /\ i + 1 > 1 /\ requests'[i] = requests[i + 1]
    BY <1>1, Taken
  <2> QED BY <1>3, <2>1
<1>5. Len(events) \in Nat /\ Len(events') = Len(events) + 1
      /\ Answer(events'[Len(events) + 1])
      /\ \A i \in 1 .. Len(events) : events'[i] = events[i]
  BY DEF CreateAnswered
<1>6. \A i \in 1 .. Len(events') : Stage(events'[i]) =>
        \/ i \in 1 .. Len(events) /\ events'[i] = events[i] /\ events'[i].event = "BufferDone"
           /\ buffer = None
        \/ i = Len(events) + 1 /\ Answer(events'[i])
  <2> TAKE i \in 1 .. Len(events')
  <2>1. i \in 1 .. Len(events) \/ i = Len(events) + 1
    BY <1>5
  <2> QED BY <1>3, <1>5, <2>1
<1>7. \A i, j \in 1 .. Len(events') : i < j /\ Stage(events'[i]) /\ Stage(events'[j]) =>
        \/ events'[i].event = "LinuxDmabuf" /\ events'[j].event = "BufferDone"
        \/ events'[i].event = "BufferDone" /\ Answer(events'[j])
  <2> TAKE i, j \in 1 .. Len(events')
  <2> HAVE i < j /\ Stage(events'[i]) /\ Stage(events'[j])
  <2>1. i \in 1 .. Len(events) /\ events'[i] = events[i] /\ events'[i].event = "BufferDone"
    BY <1>5, <1>6
  <2>2. CASE j \in 1 .. Len(events)
    <3>1. events'[j] = events[j]
      BY <1>5, <2>2
    <3> QED BY <2>1, <2>2, <3>1 DEF OneCapture
  <2>3. CASE j = Len(events) + 1
    BY <1>5, <2>1, <2>3
  <2> QED BY <1>6, <2>2, <2>3
<1>8. \A i \in 1 .. Len(events') : events'[i].event # "LinuxDmabuf"
  BY <1>6 DEF Stage, Answer
<1>9. \A i \in 1 .. Len(events') : events'[i].event = "BufferDone" => buffer' = None
  BY <1>6 DEF Stage, Answer
<1>10. CopyDue
  BY <1>2, Due
<1> QED BY <1>4, <1>7, <1>8, <1>9, <1>10 DEF OneCapture
-------------------------------------------------------------------------------
(* Buffers fit the output.                                                    *)

\* The parts of Fits that are about events, and about requests and the buffer.
EventsFit ==
  /\ \A i \in 1 .. Len(events) : events[i].event = "LinuxDmabuf" =>
       /\ output # None /\ events[i].size = Size[output]
       /\ \A j \in 1 .. i - 1 : events[j].event = "GlobalRemove" => events[j].name # output
  /\ \A i \in 1 .. Len(events) : events[i].event = "Created" =>
       output # None /\ events[i].buffer.size = Size[output]

RequestsFit ==
  \A i \in 1 .. Len(requests) : requests[i].request = "Create" =>
    output # None /\ requests[i].buffer.size = Size[output]

BufferFits == buffer # None => output # None /\ buffer.size = Size[output]

\* Fits is the three together, before a step and behind it.
LEMMA FitsParts ==
  /\ Fits <=> EventsFit /\ RequestsFit /\ BufferFits
  /\ Fits' <=> EventsFit' /\ RequestsFit' /\ BufferFits'
  BY DEF Fits, EventsFit, RequestsFit, BufferFits

\* What is left of the events fits, and what is left of the requests.
LEMMA FewerFit ==
  ASSUME output' = output \/ output = None
  PROVE  /\ EventsFit /\ FewerStages => EventsFit'
         /\ RequestsFit /\ FewerBegins => RequestsFit'
         /\ BufferFits /\ buffer' \in {buffer, None} => BufferFits'
<1>1. ASSUME EventsFit, FewerStages
      PROVE  EventsFit'
  <2>1. PICK d \in {0, 1} :
          /\ \A i \in 1 .. Len(events') : Stage(events'[i]) =>
               i + d \in 1 .. Len(events) /\ events[i + d] = events'[i]
          /\ \A i \in 1 .. Len(events') : Stage(events'[i]) => \A j \in 1 .. i - 1 :
               j + d \in 1 .. i + d - 1 /\ events'[j] = events[j + d]
    BY <1>1, StagesKept
  <2>2. \A i \in 1 .. Len(events') : events'[i].event = "LinuxDmabuf" =>
          /\ output' # None /\ events'[i].size = Size[output']
          /\ \A j \in 1 .. i - 1 : events'[j].event = "GlobalRemove" => events'[j].name # output'
    <3> TAKE i \in 1 .. Len(events')
    <3> HAVE events'[i].event = "LinuxDmabuf"
    <3>1. i + d \in 1 .. Len(events) /\ events[i + d] = events'[i]
          /\ \A j \in 1 .. i - 1 : j + d \in 1 .. i + d - 1 /\ events'[j] = events[j + d]
      BY <2>1 DEF Stage
    <3>2. /\ output # None /\ events[i + d].size = Size[output]
          /\ \A j \in 1 .. i + d - 1 :
               events[j].event = "GlobalRemove" => events[j].name # output
      BY <1>1, <3>1 DEF EventsFit
    <3> QED BY <3>1, <3>2
  <2>3. \A i \in 1 .. Len(events') : events'[i].event = "Created" =>
          output' # None /\ events'[i].buffer.size = Size[output']
    BY <1>1, <2>1 DEF Stage, EventsFit
  <2> QED BY <2>2, <2>3 DEF EventsFit
<1>2. ASSUME RequestsFit, FewerBegins
      PROVE  RequestsFit'
  <2>1. PICK c \in {0, 1} :
          \A i \in 1 .. Len(requests') : Begins(requests'[i]) =>
            i + c \in 1 .. Len(requests) /\ requests[i + c] = requests'[i]
    BY <1>2, BeginsKept
  <2> QED BY <1>2, <2>1 DEF Begins, RequestsFit
<1>3. BufferFits /\ buffer' \in {buffer, None} => BufferFits'
  BY DEF BufferFits
<1> QED BY <1>1, <1>2, <1>3

\* When an output goes, nothing is left that was for it, except in haste.
LEMMA FitsForget ==
  ASSUME TypeOK, TypeOK', Fits, Forget, ~hasty'
  PROVE  Fits'
<1>1. TakenEvent /\ FewerStages /\ FewerBegins /\ requests' = requests
  <2>1. Len(requests) \in Nat
    BY LenProperties DEF TypeOK, ClientTypeOK
  <2> QED BY <2>1 DEF Forget, FewerStages, FewerBegins
<1>2. CASE events[1].name # output
  <2>1. output' = output /\ buffer' \in {buffer, None}
    BY <1>2 DEF Forget
  <2> QED BY <1>1, <2>1, FewerFit, FitsParts
<1>3. CASE events[1].name = output
  <2>1. ~CreateDue /\ ~CreateDue' /\ buffer' = None
    BY <1>1, <1>3, FewerDue DEF Forget
  <2>2. \A i \in 1 .. Len(events') : events'[i].event # "LinuxDmabuf"
    <3> SUFFICES ASSUME NEW i \in 1 .. Len(events'), events'[i].event = "LinuxDmabuf"
                 PROVE  FALSE
      OBVIOUS
    <3>1. i + 1 \in 1 .. Len(events) /\ events[i + 1].event = "LinuxDmabuf"
          /\ 1 \in 1 .. i + 1 - 1
      BY <1>1, Taken
    <3> QED BY <1>3, <3>1 DEF Fits, Forget
  <2>3. /\ \A i \in 1 .. Len(events') : events'[i].event # "Created"
        /\ \A i \in 1 .. Len(requests') : requests'[i].request # "Create"
    BY <2>1, Due DEF Answer
  <2> QED BY <2>1, <2>2, <2>3 DEF Fits
<1> QED BY <1>2, <1>3

\* A buffer that is created fits, and is there.
LEMMA FitsBuffer ==
  ASSUME TypeOK, TypeOK', Fits, CreateBuffer \/ NewBuffer
  PROVE  Fits'
<1>1. TakenEvent /\ FewerStages /\ output' = output /\ 1 \in 1 .. Len(events)
      /\ events[1] \in EventSet
  <2>1. TakenEvent /\ output' = output /\ 1 \in 1 .. Len(events)
    BY Taken DEF CreateBuffer, NewBuffer
  <2> QED BY <2>1, ElementOfSeq DEF FewerStages, TypeOK, ClientTypeOK
<1>2. CASE CreateBuffer
  <2>1. output # None /\ told'.size = Size[output] /\ buffer' = buffer
    BY <1>1, <1>2 DEF CreateBuffer, Fits
  <2>2. Create(told') \in RequestSet /\ Create(told').buffer = told'
    BY <1>2, Members, Fields DEF CreateBuffer
  <2>3. RequestsFit'
    BY <1>1, <1>2, <2>1, <2>2, Asked, FitsParts DEF CreateBuffer, RequestsFit
  <2> QED BY <1>1, <2>1, <2>3, FewerFit, FitsParts
<1>3. CASE NewBuffer
  <2>1. BufferFits'
    BY <1>1, <1>3 DEF NewBuffer, Fits, BufferFits
  <2>2. buffer' \in Buffers
    BY <1>1, <1>3, EventMember DEF NewBuffer
  <2>3. /\ frame # None => Copy(frame, buffer') \in RequestSet
        /\ Copy(frame, buffer').request # "Create"
    BY <2>2, Members, Fields DEF TypeOK, ClientTypeOK
  <2>4. RequestsFit'
    BY <1>1, <1>3, <2>3, Asked, FitsParts DEF NewBuffer, RequestsFit
  <2> QED BY <1>1, <2>1, <2>4, FewerFit, FitsParts
<1> QED BY <1>2, <1>3

\* The buffer type of the output is offered.
LEMMA FitsOffered ==
  ASSUME TypeOK, TypeOK', Fits, TargetInv, Offered, UNCHANGED <<output, buffer>>
  PROVE  Fits'
<1>1. output \in present /\ output \notin gone /\ requests[1].output = output /\ output # None
  <2>1. 1 \in 1 .. Len(requests) /\ requests[1].request = "Capture"
        /\ requests[1].output \in present
    BY Taken DEF Offered
  <2>2. None \notin present
    BY ScreencopyAssumption DEF TypeOK, Names
  <2> QED BY <2>1, <2>2 DEF TargetInv
<1>2. \A i \in 1 .. Len(events) : events[i].event = "GlobalRemove" => events[i].name # output
  BY <1>1 DEF TargetInv
<1>3. \A i \in 1 .. Len(events') : events'[i].event = "LinuxDmabuf" =>
        /\ output' # None /\ events'[i].size = Size[output']
        /\ \A j \in 1 .. i - 1 : events'[j].event = "GlobalRemove" => events'[j].name # output'
  <2> TAKE i \in 1 .. Len(events')
  <2> HAVE events'[i].event = "LinuxDmabuf"
  <2>1. i \in 1 .. Len(events) \/ i = Len(events) + 1 \/ i = Len(events) + 2
    BY DEF Offered
  <2>2. \A j \in 1 .. i - 1 : \/ j \in 1 .. Len(events) /\ events'[j] = events[j]
                              \/ j = Len(events) + 1 /\ events'[j].event = "LinuxDmabuf"
    BY <2>1 DEF Offered
  <2> QED BY <1>1, <1>2, <2>1, <2>2 DEF Offered, Fits
<1>4. \A i \in 1 .. Len(events') : events'[i].event = "Created" =>
        output' # None /\ events'[i].buffer.size = Size[output']
  <2> TAKE i \in 1 .. Len(events')
  <2>1. i \in 1 .. Len(events) \/ i = Len(events) + 1 \/ i = Len(events) + 2
    BY DEF Offered
  <2> QED BY <2>1 DEF Offered, Fits
<1>5. FewerBegins
  BY DEF Offered, FewerBegins
<1> QED BY <1>3, <1>4, <1>5, FewerFit, FitsParts DEF EventsFit

\* The buffer that was requested is created.
LEMMA FitsAnswered ==
  ASSUME TypeOK, TypeOK', Fits, CreateAnswered, UNCHANGED <<output, buffer>>
  PROVE  Fits'
<1>1. output # None /\ requests[1].buffer.size = Size[output]
  BY Taken DEF CreateAnswered, Fits
<1>2. \A i \in 1 .. Len(events') : \/ i \in 1 .. Len(events) /\ events'[i] = events[i]
                                   \/ i = Len(events) + 1
  BY DEF CreateAnswered
<1>3. \A i \in 1 .. Len(events') : events'[i].event = "LinuxDmabuf" =>
        /\ output' # None /\ events'[i].size = Size[output']
        /\ \A j \in 1 .. i - 1 : events'[j].event = "GlobalRemove" => events'[j].name # output'
  <2> TAKE i \in 1 .. Len(events')
  <2> HAVE events'[i].event = "LinuxDmabuf"
  <2>1. i \in 1 .. Len(events) /\ events'[i] = events[i]
    BY <1>2 DEF CreateAnswered, Answer
  <2>2. \A j \in 1 .. i - 1 : events'[j] = events[j]
    BY <2>1 DEF CreateAnswered
  <2> QED BY <2>1, <2>2 DEF Fits
<1>4. \A i \in 1 .. Len(events') : events'[i].event = "Created" =>
        output' # None /\ events'[i].buffer.size = Size[output']
  BY <1>1, <1>2 DEF CreateAnswered, Fits
<1>5. FewerBegins
  BY DEF CreateAnswered, FewerBegins
<1> QED BY <1>3, <1>4, <1>5, FewerFit, FitsParts DEF EventsFit
-------------------------------------------------------------------------------
(* A frame is asked one copy.                                                 *)

\* A step that asks for nothing keeps that.
LEMMA OneCopyKept ==
  ASSUME TypeOK, TypeOK', OneCopy,
         CopyDue' /\ frame' # None =>
           CopyDue /\ frame' = frame /\ copying'[frame] \in {copying[frame], None},
         \A i \in 1 .. Len(requests') : requests'[i].request = "Copy" =>
           LET f == requests'[i].frame IN
           target'[f] \in {target[f], None} /\ copying'[f] \in {copying[f], None},
         NEW c \in {0, 1},
         \A i \in 1 .. Len(requests') : requests'[i].request \in {"Capture", "Copy"} =>
           i + c \in 1 .. Len(requests) /\ requests[i + c] = requests'[i]
  PROVE  OneCopy'
<1>1. CopyDue' /\ frame' # None =>
        /\ copying'[frame'] = None
        /\ \A i \in 1 .. Len(requests') :
             requests'[i].request = "Copy" => requests'[i].frame # frame'
  BY DEF OneCopy
<1>2. ASSUME NEW i \in 1 .. Len(requests'), requests'[i].request = "Copy"
      PROVE  LET f == requests'[i].frame IN
             /\ copying'[f] = None
             /\ target'[f] # None => requests'[i].buffer.size = Size[target'[f]]
             /\ \A j \in 1 .. Len(requests') :
                  j # i /\ requests'[j].request \in {"Capture", "Copy"} => requests'[j].frame # f
  <2>1. i + c \in 1 .. Len(requests) /\ requests[i + c] = requests'[i]
    BY <1>2
  <2>2. LET f == requests'[i].frame IN
        /\ copying[f] = None
        /\ target[f] # None => requests'[i].buffer.size = Size[target[f]]
        /\ \A j \in 1 .. Len(requests) :
             j # i + c /\ requests[j].request \in {"Capture", "Copy"} => requests[j].frame # f
    BY <1>2, <2>1 DEF OneCopy
  <2>3. \A j \in 1 .. Len(requests') : j # i => j + c # i + c
    OBVIOUS
  <2>4. \A j \in 1 .. Len(requests') :
          j # i /\ requests'[j].request \in {"Capture", "Copy"} =>
            requests'[j].frame # requests'[i].frame
    BY <2>2, <2>3
  <2> QED BY <1>2, <2>2, <2>4
<1> QED BY <1>1, <1>2 DEF OneCopy

\* The frame of a new capture has no copy.
LEMMA OneCopyBegins ==
  ASSUME TypeOK, TypeOK', OneCopy, BeginCapture, UNCHANGED <<target, copying>>
  PROVE  OneCopy'
<1>1. frame' \in Frames /\ copying[frame'] = None
      /\ \A i \in 1 .. Len(requests) :
           requests[i].request \in {"Capture", "Copy"} => requests[i].frame # frame'
  <2>1. \A i \in 1 .. Len(requests) : requests[i] \in Range(requests)
    BY LenProperties DEF Range, TypeOK, ClientTypeOK
  <2> QED BY <2>1 DEF BeginCapture, FreeFrames
<1>2. Capture(frame', output') \in RequestSet /\ Capture(frame', output').request = "Capture"
      /\ Capture(frame', output').frame = frame'
  BY <1>1, Members, Fields DEF BeginCapture
<1>3. \A i \in 1 .. Len(requests') :
        \/ i \in 1 .. Len(requests) /\ requests'[i] = requests[i]
        \/ requests'[i].request = "Capture" /\ requests'[i].frame = frame'
  BY <1>2, Asked DEF BeginCapture
<1>4. \A i \in 1 .. Len(requests') :
        requests'[i].request = "Copy" => requests'[i].frame # frame'
  BY <1>1, <1>3
<1>5. ASSUME NEW i \in 1 .. Len(requests'), requests'[i].request = "Copy"
      PROVE  LET f == requests'[i].frame IN
             /\ copying'[f] = None
             /\ target'[f] # None => requests'[i].buffer.size = Size[target'[f]]
             /\ \A j \in 1 .. Len(requests') :
                  j # i /\ requests'[j].request \in {"Capture", "Copy"} => requests'[j].frame # f
  <2>1. i \in 1 .. Len(requests) /\ requests'[i] = requests[i]
    BY <1>3, <1>5
  <2>2. LET f == requests'[i].frame IN
        /\ copying[f] = None
        /\ target[f] # None => requests'[i].buffer.size = Size[target[f]]
        /\ \A j \in 1 .. Len(requests) :
             j # i /\ requests[j].request \in {"Capture", "Copy"} => requests[j].frame # f
    BY <1>5, <2>1 DEF OneCopy
  <2> QED BY <1>3, <1>4, <1>5, <2>2
<1> QED BY <1>1, <1>4, <1>5 DEF OneCopy

\* The copy that is asked for is the frame's first, and nothing else leads to one.
LEMMA OneCopyAsked ==
  ASSUME TypeOK, TypeOK', OneCopy, OneCapture, TargetInv, Fits', UNCHANGED <<target, copying>>,
         NewBuffer \/ AskCopy
  PROVE  OneCopy'
<1>1. Idle' /\ ~CopyDue'
  BY IdleThen, NothingDueThen
<1>2. CopyDue /\ output' = output /\ frame' = frame /\ 1 \in 1 .. Len(events)
      /\ events[1] \in EventSet
  <2>1. 1 \in 1 .. Len(events) /\ output' = output /\ frame' = frame
    BY Taken DEF NewBuffer, AskCopy
  <2>2. events[1].event = "BufferDone" \/ Answer(events[1])
    BY DEF NewBuffer, AskCopy, Answer
  <2> QED BY <2>1, <2>2, Due, ElementOfSeq DEF TypeOK, ClientTypeOK
<1>3. buffer' \in Buffers /\ buffer'.size = Size[output]
  <2>1. buffer' \in Buffers
    BY <1>2, EventMember DEF NewBuffer, AskCopy, TypeOK, ClientTypeOK
  <2>2. buffer' # None
    BY <2>1, ScreencopyAssumption DEF Buffers, Sizes
  <2> QED BY <1>2, <2>1, <2>2 DEF Fits
<1>4. \A i \in 1 .. Len(requests') :
        \/ i \in 1 .. Len(requests) /\ requests'[i] = requests[i]
        \/ /\ frame # None /\ requests'[i].request = "Copy" /\ requests'[i].frame = frame
           /\ requests'[i].buffer = buffer' /\ i = Len(requests) + 1
  <2>1. frame # None => Copy(frame, buffer') \in RequestSet
    BY <1>3, Members DEF TypeOK, ClientTypeOK
  <2>2. /\ Copy(frame, buffer').request = "Copy" /\ Copy(frame, buffer').frame = frame
        /\ Copy(frame, buffer').buffer = buffer'
    BY Fields
  <2>3. requests' = requests \/ (frame # None /\ requests' = Append(requests, Copy(frame, buffer')))
    BY DEF NewBuffer, AskCopy
  <2> QED BY <2>1, <2>2, <2>3, Asked
<1>5. \A i \in 1 .. Len(requests') : requests'[i].request # "Capture"
  BY <1>1 DEF Idle, Begins
<1>6. ASSUME NEW i \in 1 .. Len(requests'), requests'[i].request = "Copy"
      PROVE  LET f == requests'[i].frame IN
             /\ copying'[f] = None
             /\ target'[f] # None => requests'[i].buffer.size = Size[target'[f]]
             /\ \A j \in 1 .. Len(requests') :
                  j # i /\ requests'[j].request \in {"Capture", "Copy"} => requests'[j].frame # f
  <2>1. CASE i \in 1 .. Len(requests) /\ requests'[i] = requests[i]
    <3>1. LET f == requests'[i].frame IN
          /\ copying[f] = None
          /\ target[f] # None => requests'[i].buffer.size = Size[target[f]]
          /\ \A j \in 1 .. Len(requests) :
               j # i /\ requests[j].request \in {"Capture", "Copy"} => requests[j].frame # f
      BY <1>6, <2>1 DEF OneCopy
    <3>2. frame # None => requests'[i].frame # frame
      BY <1>2, <1>6, <2>1 DEF OneCopy
    <3> QED BY <1>4, <3>1, <3>2
  <2>2. CASE /\ frame # None /\ requests'[i].frame = frame
             /\ requests'[i].buffer = buffer' /\ i = Len(requests) + 1
    <3>1. copying[frame] = None
          /\ \A j \in 1 .. Len(requests) :
               requests[j].request = "Copy" => requests[j].frame # frame
      BY <1>2, <2>2 DEF OneCopy
    <3>2. target[frame] # None => buffer'.size = Size[target[frame]]
      BY <1>3, <2>2 DEF TargetInv, TypeOK, ClientTypeOK
    <3>3. \A j \in 1 .. Len(requests') :
            j # i /\ requests'[j].request = "Copy" => requests'[j].frame # frame
      BY <1>4, <2>2, <3>1
    <3> QED BY <1>5, <2>2, <3>1, <3>2, <3>3
  <2> QED BY <1>4, <1>6, <2>1, <2>2
<1> QED BY <1>1, <1>6 DEF OneCopy
-------------------------------------------------------------------------------
(* The connection is kept.                                                    *)

\* A step of the client that asks for no capture and no copy, with its requests.
LEMMA CaptureKept ==
  ASSUME TypeOK, TypeOK', OneCapture, OneCopy, UNCHANGED <<target, copying>>,
         TakenEvent \/ UNCHANGED events,
         NEW r \in RequestSet, r.request \notin {"Capture", "Copy", "Create"},
         requests' = requests \/ requests' = Append(requests, r),
         buffer' \in {buffer, None}, frame' \in {frame, None}
  PROVE  FewerStages /\ FewerBegins /\ OneCapture' /\ OneCopy'
<1>1. FewerStages
  BY LenProperties DEF FewerStages, TypeOK, ClientTypeOK
<1>2. \A i \in 1 .. Len(requests') :
        requests'[i].request \in {"Capture", "Copy", "Create"} =>
          i + 0 \in 1 .. Len(requests) /\ requests[i + 0] = requests'[i]
  BY Asked
<1>3. FewerBegins
  <2>1. Len(requests) \in Nat
    BY LenProperties DEF TypeOK, ClientTypeOK
  <2>2. CASE requests' = requests
    BY <2>1, <2>2 DEF FewerBegins
  <2>3. CASE requests' = Append(requests, r)
    <3>1. /\ Len(requests') = Len(requests) + 1
          /\ \A i \in 1 .. Len(requests) : requests'[i] = requests[i]
          /\ requests'[Len(requests) + 1] = r
      BY <2>3, RequestAdded
    <3>2. \A i \in Len(requests) + 1 .. Len(requests') : i = Len(requests) + 1
      BY <2>1, <3>1
    <3> QED BY <2>1, <3>1, <3>2 DEF FewerBegins, Begins
  <2> QED BY <2>2, <2>3
<1>4. OneCapture'
  BY <1>1, <1>3, OneCaptureKept
<1>5. CopyDue' /\ frame' # None =>
        CopyDue /\ frame' = frame /\ copying'[frame] \in {copying[frame], None}
  BY <1>1, <1>3, FewerDue
<1>6. OneCopy'
  BY <1>2, <1>5, OneCopyKept
<1> QED BY <1>1, <1>3, <1>4, <1>6

\* The client keeps captures apart, if none begins in haste.
LEMMA CaptureClient ==
  ASSUME TypeOK, TypeOK', TargetInv, CaptureInv, ClientNext, Alone
  PROVE  CaptureInv'
<1> SUFFICES ASSUME ~hasty'
             PROVE  OneCapture' /\ Fits' /\ OneCopy' /\ ~protocolError'
  BY DEF CaptureInv
<1>1. ~hasty
  BY ClientShape
     DEF QuietTake, Forget, BeginCapture, CreateBuffer, AskCopy, NewBuffer, NoBuffer
<1>2. OneCapture /\ Fits /\ OneCopy /\ ~protocolError' /\ UNCHANGED <<target, copying>>
  BY <1>1 DEF CaptureInv, Alone, compositorVars
<1>3. GetFeedback \in RequestSet /\ GetFeedback.request \notin {"Capture", "Copy", "Create"}
  BY Members, Fields
<1>4. CASE QuietTake
  <2>1. TakenEvent /\ buffer' \in {buffer, None} /\ frame' \in {frame, None}
        /\ (output' = output \/ output = None)
        /\ (requests' = requests \/ requests' = Append(requests, GetFeedback))
    BY <1>4 DEF QuietTake
  <2>2. FewerStages /\ FewerBegins /\ OneCapture' /\ OneCopy'
    BY <1>2, <1>3, <2>1, CaptureKept
  <2> QED BY <1>2, <2>1, <2>2, FewerFit, FitsParts
<1>5. CASE Forget
  <2>1. TakenEvent /\ buffer' \in {buffer, None} /\ frame' \in {frame, None}
        /\ requests' = requests
    BY <1>5 DEF Forget
  <2>2. OneCapture' /\ OneCopy'
    BY <1>2, <1>3, <2>1, CaptureKept
  <2> QED BY <1>2, <1>5, <2>2, FitsForget
<1>6. CASE BeginCapture
  <2>1. FewerStages /\ (output' = output \/ output = None) /\ buffer' = buffer
    BY <1>6, LenProperties DEF BeginCapture, FewerStages, TypeOK, ClientTypeOK
  <2>2. Capture(frame', output') \in RequestSet /\ Capture(frame', output').request = "Capture"
    BY <1>6, Members, Fields DEF BeginCapture, FreeFrames
  <2>3. RequestsFit'
    BY <1>2, <1>6, <2>1, <2>2, Asked, FitsParts DEF BeginCapture, RequestsFit
  <2> QED BY <1>2, <1>6, <2>1, <2>3, OneCaptureBegins, OneCopyBegins, FewerFit, FitsParts
<1>7. CASE CreateBuffer
  <2>1. OneCapture' /\ CopyDue
    BY <1>2, <1>7, OneCaptureCreate
  <2>2. Create(told') \in RequestSet /\ Create(told').request = "Create"
    BY <1>7, Members, Fields DEF CreateBuffer
  <2>3. \A i \in 1 .. Len(requests') : requests'[i].request \in {"Capture", "Copy"} =>
          i + 0 \in 1 .. Len(requests) /\ requests[i + 0] = requests'[i]
    BY <1>7, <2>2, Asked DEF CreateBuffer
  <2>4. frame' = frame
    BY <1>7 DEF CreateBuffer
  <2>5. OneCopy'
    BY <1>2, <2>1, <2>3, <2>4, OneCopyKept
  <2> QED BY <1>2, <1>7, <2>1, <2>5, FitsBuffer
<1>8. CASE AskCopy
  <2>1. TakenEvent /\ output' = output /\ buffer' = buffer /\ FewerStages
    BY <1>8 DEF AskCopy, FewerStages
  <2>2. Copy(frame, buffer) \in RequestSet /\ Copy(frame, buffer).request = "Copy"
    BY <1>8, Members, Fields DEF AskCopy, TypeOK, ClientTypeOK
  <2>3. RequestsFit'
    BY <1>2, <1>8, <2>1, <2>2, Asked, FitsParts DEF AskCopy, RequestsFit
  <2>4. Fits'
    BY <1>2, <2>1, <2>3, FewerFit, FitsParts
  <2>5. OneCapture'
    BY <1>2, <1>8, IdleThen, NothingDueThen
  <2> QED BY <1>2, <1>8, <2>4, <2>5, OneCopyAsked
<1>9. CASE NewBuffer
  <2>1. Fits'
    BY <1>2, <1>9, FitsBuffer
  <2>2. OneCapture'
    BY <1>2, <1>9, IdleThen, NothingDueThen
  <2> QED BY <1>2, <1>9, <2>1, <2>2, OneCopyAsked
<1>10. CASE \/ NoBuffer
            \/ UNCHANGED <<output, buffer, frame, events, requests, told, hasty>>
  <2>1. (TakenEvent \/ UNCHANGED events) /\ requests' = requests
        /\ UNCHANGED <<output, buffer, frame>>
    BY <1>10 DEF NoBuffer
  <2>2. FewerStages /\ FewerBegins /\ OneCapture' /\ OneCopy'
    BY <1>2, <1>3, <2>1, CaptureKept
  <2> QED BY <1>2, <2>1, <2>2, FewerFit, FitsParts
<1> QED BY <1>4, <1>5, <1>6, <1>7, <1>8, <1>9, <1>10, ClientShape
\* The compositor finds every frame without a copy and every buffer of its size.
LEMMA CaptureOthers ==
  ASSUME TypeOK, TypeOK', TargetInv, CaptureInv,
         \/ HandleRequest
         \/ \E f \in Frames : FinishCopy(f)
         \/ \E n \in HotPlugged : Plug(n) \/ Unplug(n)
         \/ AnswerFrame \/ LeaveAutomatic \/ Resume
  PROVE  CaptureInv'
<1>1. UNCHANGED <<output, buffer, frame, hasty>>
  BY OtherShape
<1> SUFFICES ASSUME OneCapture, Fits, OneCopy, ~protocolError
             PROVE  OneCapture' /\ Fits' /\ OneCopy' /\ ~protocolError'
  BY <1>1 DEF CaptureInv
<1>2. TakenRequest => \A i \in 1 .. Len(requests') :
                        i + 1 \in 1 .. Len(requests) /\ requests[i + 1] = requests'[i]
  BY Taken
<1>3. \A i \in 1 .. Len(requests') :
        requests'[i].request = "Copy" => requests'[i].frame \in Frames
  BY ElementOfSeq, RequestMember DEF TypeOK, ClientTypeOK
<1>4. FewerBegins
  BY OtherShape, LenProperties
     DEF Loosens, Offered, CreateAnswered, CopyBegun, FewerBegins, TypeOK, ClientTypeOK
<1>5. CASE Loosens
  <2>1. FewerStages
    BY <1>5 DEF Loosens, MoreEvents, FewerStages, Stage
  <2>2. OneCapture' /\ Fits'
    BY <1>1, <1>4, <2>1, OneCaptureKept, FewerFit, FitsParts
  <2>3. CopyDue' /\ frame' # None =>
          CopyDue /\ frame' = frame /\ copying'[frame] \in {copying[frame], None}
    BY <1>1, <1>4, <1>5, <2>1, FewerDue DEF Loosens, TypeOK, ClientTypeOK
  <2>4. \A i \in 1 .. Len(requests') : requests'[i].request = "Copy" =>
          LET f == requests'[i].frame IN
          target'[f] \in {target[f], None} /\ copying'[f] \in {copying[f], None}
    BY <1>3, <1>5 DEF Loosens
  <2>5. OneCopy'
    <3>1. CASE UNCHANGED requests
      <4>1. \A i \in 1 .. Len(requests') : requests'[i].request \in {"Capture", "Copy"} =>
              i + 0 \in 1 .. Len(requests) /\ requests[i + 0] = requests'[i]
        BY <3>1
      <4> QED BY <1>1, <2>3, <2>4, <4>1, OneCopyKept
    <3>2. CASE TakenRequest
      BY <1>1, <1>2, <2>3, <2>4, <3>2, OneCopyKept
    <3> QED BY <1>5, <3>1, <3>2 DEF Loosens
  <2> QED BY <1>5, <2>2, <2>5 DEF Loosens
<1>6. CASE Offered
  <2>1. OneCapture' /\ CopyDue
    BY <1>6, OneCaptureOffered
  <2>2. ASSUME NEW i \in 1 .. Len(requests'), requests'[i].request = "Copy"
        PROVE  LET f == requests'[i].frame IN
               target'[f] \in {target[f], None} /\ copying'[f] \in {copying[f], None}
    <3>1. i + 1 \in 1 .. Len(requests) /\ requests[i + 1] = requests'[i] /\ i + 1 # 1
          /\ 1 \in 1 .. Len(requests) /\ requests[1].request = "Capture"
      BY <1>2, <1>6, Taken DEF Offered
    <3>2. requests[1].frame # requests'[i].frame
      BY <2>2, <3>1 DEF OneCopy
    <3> QED BY <1>3, <1>6, <2>2, <3>2 DEF Offered, TypeOK
  <2>3. OneCopy'
    BY <1>1, <1>2, <1>6, <2>1, <2>2, OneCopyKept DEF Offered
  <2> QED BY <1>1, <1>6, <2>1, <2>3, FitsOffered DEF Offered
<1>7. CASE CreateAnswered
  <2>1. OneCapture' /\ CopyDue
    BY <1>1, <1>7, OneCaptureAnswered
  <2>2. OneCopy'
    BY <1>1, <1>2, <1>7, <2>1, OneCopyKept DEF CreateAnswered
  <2> QED BY <1>1, <1>7, <2>1, <2>2, FitsAnswered DEF CreateAnswered
<1>8. CASE CopyBegun
  <2> DEFINE f1 == requests[1].frame
  <2>1. 1 \in 1 .. Len(requests) /\ requests[1].request = "Copy" /\ f1 \in Frames
    BY <1>8, Taken DEF CopyBegun
  <2>2. /\ copying[f1] = None
        /\ target[f1] # None => requests[1].buffer.size = Size[target[f1]]
        /\ \A j \in 1 .. Len(requests) :
             j # 1 /\ requests[j].request \in {"Capture", "Copy"} => requests[j].frame # f1
    BY <2>1 DEF OneCopy
  <2>3. UNCHANGED <<target, protocolError>>
        /\ \A g \in Frames : g # f1 => copying'[g] = copying[g]
    BY <1>8, <2>1, <2>2 DEF CopyBegun, TypeOK
  <2>4. FewerStages
    BY <1>8, LenProperties DEF CopyBegun, FewerStages, TypeOK, ClientTypeOK
  <2>5. OneCapture' /\ Fits'
    BY <1>1, <1>4, <2>4, OneCaptureKept, FewerFit, FitsParts
  <2>6. CopyDue' /\ frame' # None =>
          CopyDue /\ frame' = frame /\ copying'[frame] \in {copying[frame], None}
    <3> SUFFICES ASSUME CopyDue', frame' # None
                 PROVE  CopyDue /\ frame' = frame /\ copying'[frame] = copying[frame]
      OBVIOUS
    <3>1. CopyDue /\ frame \in Frames
      BY <1>1, <1>4, <2>4, FewerDue DEF TypeOK, ClientTypeOK
    <3>2. f1 # frame
      BY <1>1, <2>1, <3>1 DEF OneCopy
    <3> QED BY <1>1, <2>3, <3>1, <3>2
  <2>7. ASSUME NEW i \in 1 .. Len(requests'), requests'[i].request = "Copy"
        PROVE  LET f == requests'[i].frame IN
               target'[f] \in {target[f], None} /\ copying'[f] \in {copying[f], None}
    <3>1. i + 1 \in 1 .. Len(requests) /\ requests[i + 1] = requests'[i] /\ i + 1 # 1
      BY <1>2, <1>8 DEF CopyBegun
    <3>2. requests'[i].frame # f1
      BY <2>2, <2>7, <3>1
    <3> QED BY <1>3, <2>3, <2>7, <3>2
  <2>8. OneCopy'
    BY <1>1, <1>2, <1>8, <2>6, <2>7, OneCopyKept DEF CopyBegun
  <2> QED BY <2>3, <2>5, <2>8
<1> QED BY <1>5, <1>6, <1>7, <1>8, OtherShape

\* A request of the client is a protocol error only in haste.
THEOREM ConnectionKeptHolds == Spec => []ConnectionKept
<1>1. Init /\ TypeOK => CaptureInv
  <2> SUFFICES ASSUME Init, TypeOK
               PROVE  OneCapture /\ Fits /\ OneCopy /\ ~protocolError
    BY DEF CaptureInv
  <2>1. PICK s \in Startup : events = [i \in 1 .. Len(s) |-> Global(s[i])]
    BY DEF Init
  <2>2. Len(s) \in Nat
    BY CaptureLoopAssumption, LenProperties
  <2>3. Len(events) = Len(s) /\ \A i \in 1 .. Len(events) : events[i].event = "Global"
    BY <2>1, <2>2, Fields
  <2>4. Len(requests) = 0 /\ buffer = None /\ frame = None /\ ~protocolError
    BY DEF Init, ClientInit
  <2> QED BY <2>3, <2>4 DEF OneCapture, Fits, OneCopy, Stage
<1>2. TypeOK /\ TypeOK' /\ TargetInv /\ CaptureInv /\ [Next]_vars => CaptureInv'
  <2> SUFFICES ASSUME TypeOK, TypeOK', TargetInv, CaptureInv, [Next]_vars
               PROVE  CaptureInv'
    OBVIOUS
  <2>1. CASE UNCHANGED vars
    <3>1. UNCHANGED <<output, buffer, frame, events, requests, hasty, target, copying,
                      protocolError>>
      BY <2>1 DEF vars, clientVars, bindings, compositorVars
    <3>2. UNCHANGED CreateDue /\ UNCHANGED CopyDue
      BY <3>1 DEF CreateDue, CopyDue
    <3> QED BY <3>1, <3>2, SMTT(60) DEF CaptureInv, OneCapture, Fits, OneCopy
  <2>2. CASE ClientNext /\ Alone
    BY <2>2, CaptureClient
  <2> QED BY <2>1, <2>2, CaptureOthers DEF Next
<1>3. CaptureInv => ConnectionKept
  BY DEF CaptureInv, ConnectionKept
<1> QED BY <1>1, <1>2, <1>3, TypeCorrect, TargetHolds, PTL DEF Spec
================================================================================
