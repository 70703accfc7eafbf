------------------------------ MODULE MCClientMan ------------------------------
(* An instance of ClientMan for TLC.                                            *)
EXTENDS ClientMan, Framing

CONSTANTS c1, c2, a1, a2

\* Two connections from one address, and two from different ones.
MCPorts == {(c1 :> a1 @@ c2 :> a1), (c1 :> a1 @@ c2 :> a2)}

\* c1 sends enough to get out of order, c2 enough to be answered.
MCMaxSaid == c1 :> 2 @@ c2 :> 1

-------------------------------------------------------------------------------
(* What ClientMan takes from the codec: from a stream of messages that is cut into *)
(* chunks anywhere, each message is read once and in order, and damage behind them *)
(* makes one error.                                                                *)

MCMagic    == <<1, 2>>
MCMessages == {<<0>>, <<1, 2>>, <<1, 2, 0, 1>>}

Short == {<<>>} \cup {<<m>> : m \in MCMessages} \cup MCMessages \X MCMessages

\* A header cut short, a message cut short, no magic, no message, an empty message.
Tails == {<<>>, <<1>>, <<1, 2, 0>>, <<1, 2, 0, 2, 1>>, <<2, 2, 0, 1>>, <<1, 2, 0, 1, 2>>, <<1, 2, 0, 0>>}

ASSUME CutsDoNotMatter ==
  \A messages \in Short : \A tail \in Tails :
    LET stream == FoldLeft(LAMBDA s, m : s \o Encode(m), <<>>, messages) \o tail IN
    \A i \in 0 .. Len(stream) : \A j \in i .. Len(stream) :
      Read(<<SubSeq(stream, 1, i), SubSeq(stream, i + 1, j), SubSeq(stream, j + 1, Len(stream))>>)
        = [items |-> messages, failed |-> tail # <<>>]
===============================================================================
