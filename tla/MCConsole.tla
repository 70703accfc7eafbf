------------------------------- MODULE MCConsole -------------------------------
(* An instance of Console for TLC.                                              *)
EXTENDS Console

\* One command of each kind; the keys 'm' and 'i' and the shutdown ask for the rest.
MCMenu ==
  {[about |-> "manual", ask |-> "on"], [about |-> "inhibit", ask |-> "get"],
   [about |-> "inhibit", ask |-> "on"], [about |-> "led", ask |-> "draw"]}
===============================================================================
