----------------------------- MODULE MCLedManager -----------------------------
(* Instances of LedManager for TLC.                                           *)
EXTENDS LedManager

CONSTANTS p1, p2
==============================================================================
