------------------------------ MODULE CaptureLoop ------------------------------
(***************************************************************************)
(* The Wayland client between the compositor and the handler.  The         *)
(* compositor announces and removes outputs, answers requests in order and *)
(* ends the connection on a protocol error; the handler answers a frame    *)
(* with the command for the next one, drops frames while the strip is not  *)
(* automatic and asks for one when it is again (module Bridge).            *)
(***************************************************************************)
EXTENDS Screencopy

CONSTANTS
  Startup,              \* the orders in which the first globals may be announced
  HotPlugged,           \* globals that come and go later
  MaxEvents,            \* bound: events waiting when a global comes or goes
  MaxResumes            \* bound: returns to automatic operation

ASSUME CaptureLoopAssumption ==
  /\ Startup \subseteq Seq(Names) /\ HotPlugged \subseteq Names
  /\ MaxEvents \in Nat /\ MaxResumes \in Nat

VARIABLES
  present,              \* globals announced and not removed
  gone,                 \* globals removed; their names are not used again
  target,               \* the output a frame under way is captured from
  protocolError,        \* the connection, and with it the daemon, is over
  automatic,            \* the handler lights the strip from the screen
  resumes               \* bound's counter

compositorVars == <<present, gone, target, copying, protocolError>>
handlerVars    == <<automatic, resumes>>
vars == <<clientVars, compositorVars, handlerVars>>

TypeOK ==
  /\ ClientTypeOK
  /\ present \subseteq Names /\ gone \subseteq Names
  /\ target \in [Frames -> Outputs \cup {None}]
  /\ copying \in [Frames -> Buffers \cup {None}]
  /\ {protocolError, automatic} \subseteq BOOLEAN /\ resumes \in 0 .. MaxResumes

Init ==
  /\ ClientInit
  /\ events \in {[i \in 1 .. Len(s) |-> Global(s[i])] : s \in Startup}
  /\ present = {e.name : e \in Range(events)}
  /\ gone = {}
  /\ target = [f \in Frames |-> None] /\ copying = [f \in Frames |-> None]
  /\ protocolError = FALSE /\ automatic = TRUE /\ resumes = 0

-------------------------------------------------------------------------------
TakeRequest(r) == requests # <<>> /\ Head(requests) = r /\ requests' = Tail(requests)

SendFeedback ==
  /\ TakeRequest(GetFeedback)
  /\ events' = Append(events, MainDevice)
  /\ UNCHANGED <<compositorVars, lost>>

\* A capture offers its buffer type at once.
OfferBuffer(f, o) ==
  /\ TakeRequest(Capture(f, o))
  /\ o \in present
  /\ target' = [target EXCEPT ![f] = o]
  /\ events' = events \o <<LinuxDmabuf(Size[o]), BufferDone>>
  /\ UNCHANGED <<present, gone, copying, protocolError, lost>>

\* The capture fails: its output is gone, or for a reason of its own.
RefuseCapture(f, o) ==
  /\ TakeRequest(Capture(f, o))
  /\ \/ o \notin present /\ UNCHANGED lost
     \/ "capture" \in Faults /\ lost' = TRUE
  /\ target' = [target EXCEPT ![f] = None]
  /\ UNCHANGED <<events, present, gone, copying, protocolError>>

AnswerCreate(b) ==
  /\ TakeRequest(Create(b))
  /\ \/ events' = Append(events, Created(b))
     \/ "create" \in Faults /\ events' = Append(events, CreateFailed)
  /\ UNCHANGED <<compositorVars, lost>>

\* copy_with_damage: a protocol error for a frame that has a buffer already or a
\* buffer that does not fit, nothing for a frame that is over.
BeginCopy(f, b) ==
  /\ TakeRequest(Copy(f, b))
  /\ IF target[f] = None
     THEN UNCHANGED <<copying, protocolError>>
     ELSE IF copying[f] # None \/ b.size # Size[target[f]]
     THEN protocolError' = TRUE /\ UNCHANGED copying
     ELSE copying' = [copying EXCEPT ![f] = b] /\ UNCHANGED protocolError
  /\ UNCHANGED <<events, present, gone, target, lost>>

HandleRequest ==
  /\ \/ SendFeedback
     \/ \E f \in Frames, o \in Outputs : OfferBuffer(f, o) \/ RefuseCapture(f, o)
     \/ \E b \in Buffers : AnswerCreate(b)
     \/ \E f \in Frames, b \in Buffers : BeginCopy(f, b)
  /\ UNCHANGED <<bindings, buffer, frame, commands, told, owed, hasty, handlerVars>>

\* Damage has come: the copy is done, or fails.
FinishCopy(f) ==
  /\ copying[f] # None
  /\ \/ events' = Append(events, Ready(copying[f])) /\ UNCHANGED lost
     \/ "capture" \in Faults /\ lost' = TRUE /\ UNCHANGED events
  /\ copying' = [copying EXCEPT ![f] = None]
  /\ target' = [target EXCEPT ![f] = None]
  /\ UNCHANGED <<bindings, buffer, frame, requests, commands, told, owed, hasty, present, gone,
                 protocolError, handlerVars>>

Plug(n) ==
  /\ n \notin present \cup gone /\ Len(events) <= MaxEvents                         \* bound
  /\ present' = present \cup {n}
  /\ events' = Append(events, Global(n))
  /\ UNCHANGED <<gone, bindings, buffer, frame, requests, commands, told, owed, lost, hasty, target,
                 copying, protocolError, handlerVars>>

\* An output takes the frames captured from it along.
Unplug(n) ==
  /\ n \in present /\ Len(events) <= MaxEvents                            \* bound
  /\ present' = present \ {n} /\ gone' = gone \cup {n}
  /\ events' = Append(events, GlobalRemove(n))
  /\ target' = [f \in Frames |-> IF target[f] = n THEN None ELSE target[f]]
  /\ copying' = [f \in Frames |-> IF target[f] = n THEN None ELSE copying[f]]
  /\ UNCHANGED <<bindings, buffer, frame, requests, commands, told, owed, lost, hasty,
                 protocolError, handlerVars>>

\* The handler answers a frame; it drops one while another is computed or while the
\* strip is not automatic.
AnswerFrame ==
  /\ owed > 0 /\ owed' = owed - 1
  /\ \/ commands' = commands + 1
     \/ (owed > 1 \/ ~automatic) /\ UNCHANGED commands
  /\ UNCHANGED <<bindings, buffer, frame, events, requests, told, lost, hasty, compositorVars,
                 handlerVars>>

LeaveAutomatic ==
  /\ automatic /\ automatic' = FALSE
  /\ UNCHANGED <<clientVars, compositorVars, resumes>>

\* resume_frame_pipeline
Resume ==
  /\ ~automatic /\ automatic' = TRUE
  /\ resumes < MaxResumes /\ resumes' = resumes + 1                       \* bound
  /\ commands' = commands + 1
  /\ UNCHANGED <<bindings, buffer, frame, events, requests, told, owed, lost, hasty,
                 compositorVars>>

\* A step of the client leaves the others alone.
Alone == UNCHANGED <<compositorVars, handlerVars>>

Next ==
  /\ ~protocolError
  /\ \/ ClientNext /\ Alone
     \/ HandleRequest
     \/ \E f \in Frames : FinishCopy(f)
     \/ \E n \in HotPlugged : Plug(n) \/ Unplug(n)
     \/ AnswerFrame
     \/ LeaveAutomatic
     \/ Resume

\* The event loop serves both of its sources, the compositor answers, the screen changes, the handler
\* answers its frames.
Fairness ==
  /\ WF_vars(~protocolError /\ HandleEvent /\ Alone)
  /\ WF_vars(~protocolError /\ HandleCommand /\ Alone)
  /\ WF_vars(~protocolError /\ HandleRequest)
  /\ \A f \in Frames : WF_vars(~protocolError /\ FinishCopy(f))
  /\ WF_vars(~protocolError /\ AnswerFrame)

Spec     == Init /\ [][Next]_vars
FairSpec == Spec /\ Fairness

-------------------------------------------------------------------------------
(* Properties.                                                                *)

\* The main loop expects its event loop not to fail ("could not run event loop",
\* main.rs): a request that is a protocol error ends the connection and with it the
\* daemon.  Capture events are not matched with their frame, so that a frame can be
\* given two copies; but only haste does that: a capture begun while an event that
\* asks for a copy is still to come, or an output that goes before its buffer is
\* created.  Otherwise each frame gets one copy, in a buffer of its size, whatever
\* is plugged in or out.
ConnectionKept == protocolError => hasty

\* Copies go to the dmabuf the handler was told of last, except while another is
\* being created, however many creations overlapped or came too late.
BufferIsImported == buffer # None /\ ~CreateDue /\ ~lost => buffer = told

Settled ==
  /\ output \in present /\ screencopy \in present
  /\ automatic /\ ~lost /\ ~protocolError

\* While the client's output stays and no call fails, frames keep reaching the
\* handler, however many captures overlapped or outputs were changed before.
CapturesKeepComing == <>[]Settled => []<>(owed > 0)
==============================================================================
