---------------------------- MODULE MCCaptureLoop ----------------------------
(* An instance of CaptureLoop for TLC. *)
EXTENDS CaptureLoop

CONSTANTS o1, o2

MCOutputs == {o1, o2}

MCSize == [o \in MCOutputs |-> IF o = o2 THEN "large" ELSE "small"]

MCHotPlugged == {o1, o2, Dmabuf}

\* The dmabuf global comes before the capture begins, or too late for its first frame.
MCStartup == {<<Dmabuf, Manager, o1>>, <<o1, Manager, Dmabuf>>}
==============================================================================
