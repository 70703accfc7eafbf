-------------------------------- MODULE Visits --------------------------------
(***************************************************************************)
(* What the handler may rely on when clients come and go (ClientReq in     *)
(* daemon/src/client/mod.rs): of each connection it hears the messages the *)
(* client sent, in order and none twice, then at most once that it left,   *)
(* and nothing after that.                                                 *)
(***************************************************************************)
EXTENDS Naturals, Sequences

CONSTANT Conns

VARIABLES
  said,                 \* how many messages the client of each connection sent
  heard,                \* the numbers of those the handler was given
  gone                  \* connections the handler was told have ended

visits == <<said, heard, gone>>

VisitsInit ==
  /\ said = [c \in Conns |-> 0]
  /\ heard = [c \in Conns |-> <<>>]
  /\ gone = {}

SayOne(c) ==
  /\ said' = [said EXCEPT ![c] = @ + 1]
  /\ UNCHANGED <<heard, gone>>

HearOne(c) ==
  /\ c \notin gone /\ Len(heard[c]) < said[c]
  /\ heard' = [heard EXCEPT ![c] = Append(@, Len(@) + 1)]
  /\ UNCHANGED <<said, gone>>

Leave(c) ==
  /\ c \notin gone
  /\ gone' = gone \cup {c}
  /\ UNCHANGED <<said, heard>>

VisitsNext == \E c \in Conns : SayOne(c) \/ HearOne(c) \/ Leave(c)

VisitsSpec == VisitsInit /\ [][VisitsNext]_visits
===============================================================================
