------------------------------- MODULE MCBridge -------------------------------
(* Instances of Bridge for TLC.                                               *)
EXTENDS Bridge

CONSTANTS c1, c2

\* Everything a client may say, but for the timeout of a request to end an
\* inhibit, which the handler does not read.
AnyRequest ==
  {r \in AllRequests : r.type = "SetIdleInhibit" /\ ~r.enabled => r.timeout = NoTimeout}

\* What takes the daemon out of automatic operation, and what ends an idle spell.
WakingRequests ==
  {[type |-> "SetManualMode", enabled |-> TRUE],
   [type |-> "SetIdleInhibit", enabled |-> TRUE, timeout |-> NoTimeout]}

NoRequest == {}
==============================================================================
