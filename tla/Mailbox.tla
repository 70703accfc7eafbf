-------------------------------- MODULE Mailbox --------------------------------
(***************************************************************************)
(* What a script may rely on when it reads the daemon's messages through   *)
(* the bindings (bindings/core/src/lib.rs): next_message, over all its     *)
(* calls, and every listener get the messages in the order the daemon sent *)
(* them, none twice.  Messages are lost only where a reader is more than   *)
(* Cap behind, the newest Cap never, and next_message says so with a None; *)
(* or to a call of next_message that the script gave up, which takes its   *)
(* message, or its None, all the same.                                     *)
(***************************************************************************)
EXTENDS Naturals, Sequences

CONSTANTS Readers, Told, Cap

VARIABLES
  sent,                 \* messages the daemon has sent, numbered from 1
  at,                   \* the last message each reader is past
  got,                  \* what it was given, 0 for a None
  abandoned             \* the calls given up that have yet to take their message

mailbox == <<sent, at, got, abandoned>>

MailboxInit ==
  /\ sent = 0
  /\ at = [r \in Readers |-> 0]
  /\ got = [r \in Readers |-> <<>>]
  /\ abandoned = {}

Arrive ==
  /\ sent' \in Nat /\ sent' > sent
  /\ UNCHANGED <<at, got, abandoned>>

Join(r) ==
  /\ got[r] = <<>> /\ r \notin Told
  /\ \E n \in at[r] .. sent : at' = [at EXCEPT ![r] = n]
  /\ UNCHANGED <<sent, got, abandoned>>

Hand(r) ==
  /\ at[r] < sent
  /\ at' = [at EXCEPT ![r] = @ + 1]
  /\ got' = [got EXCEPT ![r] = Append(@, at[r] + 1)]
  /\ UNCHANGED <<sent, abandoned>>

Falls(r) == \E n \in at[r] + 1 .. sent - Cap : at' = [at EXCEPT ![r] = n]

Lose(r) ==
  /\ Falls(r)
  /\ got' = IF r \in Told THEN [got EXCEPT ![r] = Append(@, 0)] ELSE got
  /\ UNCHANGED <<sent, abandoned>>

GiveUp ==
  /\ abandoned \subseteq abandoned'
  /\ UNCHANGED <<sent, at, got>>

Miss(r) ==
  /\ r \in Told
  /\ \E c \in abandoned : abandoned' = abandoned \ {c}
  /\ Falls(r) \/ (at[r] < sent /\ at' = [at EXCEPT ![r] = @ + 1])
  /\ UNCHANGED <<sent, got>>

MailboxNext ==
  \/ Arrive \/ GiveUp
  \/ \E r \in Readers : Join(r) \/ Hand(r) \/ Lose(r) \/ Miss(r)

MailboxSpec == MailboxInit /\ [][MailboxNext]_mailbox
===============================================================================
