------------------------------- MODULE Compute -------------------------------
(***************************************************************************)
(* The GPU side of a frame (daemon/src/gpu/mod.rs): one command buffer     *)
(* guarded by the atomic in_flight, and one blocking thread per submitted  *)
(* dispatch that waits for the fence, hands the result to a oneshot and    *)
(* then clears in_flight.  The handler of Bridge.tla takes the dispatch    *)
(* and import actions; the waiter's actions are a thread of their own.     *)
(* Vulkan itself is abstracted to whether each call succeeds.              *)
(***************************************************************************)

CONSTANT Faults         \* the calls that may fail; see AllFaults

VARIABLES
  inFlight,             \* Compute.in_flight
  screenDmabuf,         \* whether Compute.screen_dmabuf is Some
  waiter                \* the spawn_blocking thread of the submitted dispatch

computeVars == <<inFlight, screenDmabuf, waiter>>

(***************************************************************************)
(* "record"   a Vulkan call between swap and end_command_buffer fails      *)
(* "submit"   queue_submit fails                                           *)
(* "readback" the blocking thread dies before it sends the result          *)
(* "import"   import_screen_dmabuf fails                                   *)
(* "capture"  the compositor reports a screencopy frame as failed          *)
(***************************************************************************)
AllFaults == {"record", "submit", "readback", "import", "capture"}

WaiterStates == {"none", "gpu", "sent"}

ComputeTypeOK ==
  /\ inFlight \in BOOLEAN
  /\ screenDmabuf \in BOOLEAN
  /\ waiter \in WaiterStates

ComputeInit ==
  /\ inFlight = FALSE
  /\ screenDmabuf = FALSE
  /\ waiter = "none"

\* dispatch_with up to the spawn of the waiting thread, every call succeeding.
Dispatch ==
  /\ ~inFlight
  /\ screenDmabuf
  /\ inFlight' = TRUE
  /\ waiter' = "gpu"
  /\ UNCHANGED screenDmabuf

\* Err(DispatchInFlight): the swap found in_flight set, and left it set.
DispatchInFlight ==
  /\ inFlight
  /\ UNCHANGED computeVars

\* Err(NoDmabuf): in_flight is put back.
DispatchNoDmabuf ==
  /\ ~inFlight
  /\ ~screenDmabuf
  /\ UNCHANGED computeVars

\* A `?` inside the recording block returns from the function itself, past the
\* code that would have cleared in_flight.
DispatchRecordError ==
  /\ "record" \in Faults
  /\ ~inFlight
  /\ screenDmabuf
  /\ inFlight' = TRUE
  /\ UNCHANGED <<screenDmabuf, waiter>>

\* queue_submit failed: in_flight is put back.
DispatchSubmitError ==
  /\ "submit" \in Faults
  /\ ~inFlight
  /\ screenDmabuf
  /\ UNCHANGED computeVars

DispatchFails ==
  \/ DispatchInFlight
  \/ DispatchNoDmabuf
  \/ DispatchRecordError
  \/ DispatchSubmitError

\* The fence is signalled (or waiting on it failed) and the output is sent.
SendOutput ==
  /\ waiter = "gpu"
  /\ waiter' = "sent"
  /\ UNCHANGED <<inFlight, screenDmabuf>>

\* The thread unwinds before it sends: the oneshot closes, in_flight stays.
LoseOutput ==
  /\ "readback" \in Faults
  /\ waiter = "gpu"
  /\ waiter' = "none"
  /\ UNCHANGED <<inFlight, screenDmabuf>>

\* Only after the send is the command buffer declared free.
ClearInFlight ==
  /\ waiter = "sent"
  /\ waiter' = "none"
  /\ inFlight' = FALSE
  /\ UNCHANGED screenDmabuf

\* set_screen_dmabuf: wait_for_idle, release the old image, import the new one.
SetScreenDmabuf ==
  /\ ~inFlight
  /\ screenDmabuf' \in (IF "import" \in Faults THEN BOOLEAN ELSE {TRUE})
  /\ UNCHANGED <<inFlight, waiter>>
==============================================================================
