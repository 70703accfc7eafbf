--------------------------- MODULE ClientHandleProofs ---------------------------
(***************************************************************************)
(* Theorems about the language bindings, for every number of listeners,    *)
(* every capacity of the ring and however many requests and calls there    *)
(* are.  A message is found where its number says, from the daemon to the  *)
(* ring (Numbered), so that what a reader is handed is the message behind  *)
(* the last one it is past, or it lagged and the ring is full.             *)
(***************************************************************************)
EXTENDS ClientHandle, SequenceTheorems, TLAPS

\* The messages on their way are those that were sent, in order; the ring holds the
\* newest of those that were dispatched, all of them until it is full.
Numbered ==
  /\ \A i \in 1 .. Len(ring) : ring[i] = dispatched - Len(ring) + i
  /\ \A i \in 1 .. Len(incoming) : incoming[i] = dispatched + i
  /\ \A i \in 1 .. Len(down) : down[i] = dispatched + Len(incoming) + i
  /\ dispatched + Len(incoming) + Len(down) = sent
  /\ Len(ring) <= dispatched
  /\ Len(ring) < Cap => Len(ring) = dispatched

\* Two messages answer a request.
Bounded == sent + 2 * (Len(outbox) + Len(up)) <= 2 * asked

\* A listener that is not registered was given nothing.
Fresh == \A l \in Listeners : listener[l] = "none" => got[l] = <<>>

Inv == TypeOK /\ Numbered /\ Bounded /\ Fresh

-------------------------------------------------------------------------------
(* Sequences.                                                                 *)

\* A sequence without its head.
LEMMA TailIs ==
  ASSUME NEW S, NEW s \in Seq(S), s # <<>>
  PROVE  /\ Tail(s) \in Seq(S) /\ Head(s) \in S /\ Head(s) = s[1]
         /\ Len(s) \in Nat \ {0} /\ Len(Tail(s)) = Len(s) - 1
         /\ \A i \in 1 .. Len(Tail(s)) : Tail(s)[i] = s[i + 1]
<1>1. Len(s) \in Nat \ {0}
  BY EmptySeq, LenProperties
<1> QED BY <1>1, HeadTailProperties

\* A sequence with one more element.
LEMMA AppendIs ==
  ASSUME NEW S, NEW s \in Seq(S), NEW e \in S
  PROVE  /\ Append(s, e) \in Seq(S) /\ Len(s) \in Nat
         /\ Len(Append(s, e)) = Len(s) + 1
         /\ \A i \in 1 .. Len(s) : Append(s, e)[i] = s[i]
         /\ Append(s, e)[Len(s) + 1] = e
  BY AppendProperties, LenProperties

\* A sequence over a set is one over every larger set.
LEMMA LargerSet ==
  ASSUME NEW S, NEW T, S \subseteq T, NEW s \in Seq(S)
  PROVE  s \in Seq(T)
<1>1. Len(s) \in Nat /\ s \in [1 .. Len(s) -> S]
  BY LenProperties
<1>2. s \in [1 .. Len(s) -> T]
  BY <1>1
<1> QED BY <1>1, <1>2, SeqDef

\* Another element is removed.
LEMMA RemoveAtType ==
  ASSUME NEW S, NEW s \in Seq(S), NEW i \in 1 .. Len(s)
  PROVE  RemoveAt(s, i) \in Seq(S)
<1>1. SubSeq(s, 1, i - 1) \in Seq(S) /\ SubSeq(s, i + 1, Len(s)) \in Seq(S)
  BY SubSeqProperties
<1> QED BY <1>1, ConcatProperties DEF RemoveAt

-------------------------------------------------------------------------------
(* The invariant.                                                             *)

\* The script calls, cancels, drops and gives up calls.
LEMMA ScriptKeeps ==
  ASSUME Inv,
         \/ Call \/ Cancel \/ DropClient
         \/ \E c \in 1 .. MaxCalls : Abandon(c) \/ Withdraw(c)
  PROVE  Inv'
<1> USE DEF clientVars
<1>1. UNCHANGED <<outbox, writer, reader, up, down, incoming, hungUp, asked, sent, ring, dispatched,
                  at, got, listener>>
  BY DEF Call, Cancel, DropClient, Abandon, Withdraw
<1>2. Numbered' /\ Bounded' /\ Fresh'
  BY <1>1 DEF Inv, Numbered, Bounded, Fresh
<1>3. /\ token' \in BOOLEAN /\ dropped' \in BOOLEAN /\ stopped' \subseteq Listeners
      /\ called' \in 0 .. MaxCalls /\ waiting' \in Seq(1 .. called')
      /\ threads' \subseteq 1 .. called' /\ abandoned' \subseteq threads'
  <2>1. CASE Call
    <3>1. called' = called + 1 /\ called' \in 0 .. MaxCalls /\ 1 .. called \subseteq 1 .. called'
          /\ called + 1 \in 1 .. called'
      BY <2>1, HandleAssumption DEF Call, Inv, TypeOK
    <3>2. waiting \in Seq(1 .. called')
      BY <3>1, LargerSet DEF Inv, TypeOK
    <3>3. threads' \subseteq 1 .. called' /\ abandoned' \subseteq threads'
      BY <2>1, <3>1 DEF Call, Inv, TypeOK
    <3> QED BY <2>1, <3>1, <3>2, <3>3, AppendIs DEF Call, Inv, TypeOK, ClientTypes
  <2>2. CASE Cancel
    BY <2>2 DEF Cancel, Running, Inv, TypeOK, ClientTypes
  <2>3. CASE DropClient
    BY <2>3 DEF DropClient, Running, Inv, TypeOK, ClientTypes
  <2>4. ASSUME NEW c \in 1 .. MaxCalls, Abandon(c)
        PROVE  /\ UNCHANGED <<token, dropped, stopped, called, waiting, threads>>
               /\ abandoned' \subseteq threads
    BY <2>4 DEF Abandon, Inv, TypeOK
  <2>5. ASSUME NEW c \in 1 .. MaxCalls, Withdraw(c)
        PROVE  /\ UNCHANGED <<dropped, called, threads, abandoned>>
               /\ token' \in BOOLEAN /\ stopped' \subseteq Listeners
               /\ waiting' \in Seq(1 .. called)
    <3>1. PICK i \in 1 .. Len(waiting) : waiting' = RemoveAt(waiting, i)
                                       /\ Leaves(threads, RemoveAt(waiting, i))
      BY <2>5 DEF Withdraw
    <3>2. waiting' \in Seq(1 .. called)
      BY <3>1, RemoveAtType DEF Inv, TypeOK
    <3>3. token' \in BOOLEAN /\ stopped' \subseteq Listeners
      BY <3>1 DEF Leaves, Running, Inv, TypeOK, ClientTypes
    <3> QED BY <2>5, <3>2, <3>3 DEF Withdraw
  <2> QED BY <2>1, <2>2, <2>3, <2>4, <2>5 DEF Inv, TypeOK, ClientTypes
<1>4. TypeOK'
  BY <1>1, <1>3 DEF Inv, TypeOK, ClientTypes
<1> QED BY <1>2, <1>4 DEF Inv

\* The two tasks of the client, and a daemon that hangs up.
LEMMA TasksKeep ==
  ASSUME Inv, Send \/ ((WriterStep \/ ReaderStep \/ DaemonHangsUp) /\ UNCHANGED handleVars)
  PROVE  Inv'
<1> USE DEF handleVars
<1>1. UNCHANGED <<called, sent, ring, dispatched, at, got, waiting, threads, abandoned, listener, stopped,
                  dropped>>
  BY DEF Send
<1>2. Fresh' /\ sent \in Nat /\ asked \in Nat /\ Len(outbox) \in Nat /\ Len(up) \in Nat
  BY <1>1, LenProperties, HandleAssumption DEF Inv, Fresh, TypeOK, ClientTypes
<1>3. CASE Send
  <2>1. asked' \in 0 .. MaxAsked /\ asked' = asked + 1 /\ asked + 1 \in 1 .. MaxAsked
        /\ UNCHANGED <<writer, reader, token, up, down, incoming, hungUp>>
    BY <1>3, HandleAssumption DEF Send, Inv, TypeOK
  <2>2. outbox' \in Seq(1 .. MaxAsked) /\ Len(outbox') = Len(outbox) + 1
    BY <1>3, <2>1, AppendIs DEF Send, Inv, TypeOK, ClientTypes
  <2>3. Bounded'
    BY <1>1, <1>2, <2>1, <2>2 DEF Inv, Bounded
  <2> QED BY <1>1, <1>2, <2>1, <2>2, <2>3 DEF Inv, TypeOK, ClientTypes, Numbered
<1>4. CASE WriterSend /\ asked' = asked
  <2>1. outbox' \in Seq(1 .. MaxAsked) /\ Len(outbox') = Len(outbox) - 1
        /\ Head(outbox) \in 1 .. MaxAsked
    BY <1>4, TailIs DEF WriterSend, Inv, TypeOK, ClientTypes
  <2>2. up' \in Seq(1 .. MaxAsked) /\ Len(up') <= Len(up) + 1 /\ Len(up') \in Nat
    <3>1. up \in Seq(1 .. MaxAsked) /\ (up' = up \/ up' = Append(up, Head(outbox)))
      BY <1>4 DEF WriterSend, Inv, TypeOK, ClientTypes
    <3>2. Append(up, Head(outbox)) \in Seq(1 .. MaxAsked)
          /\ Len(Append(up, Head(outbox))) = Len(up) + 1
      BY <2>1, <3>1, AppendIs
    <3>3. CASE up' = up
      BY <1>2, <3>1, <3>3
    <3>4. CASE up' = Append(up, Head(outbox))
      <4>1. up' \in Seq(1 .. MaxAsked) /\ Len(up') = Len(up) + 1
        BY <3>2, <3>4
      <4> QED BY <1>2, <4>1
    <3> QED BY <3>1, <3>3, <3>4
  <2>3. Bounded'
    BY <1>1, <1>2, <1>4, <2>1, <2>2 DEF Inv, Bounded
  <2>4. writer' \in {"running", "ended"}
        /\ UNCHANGED <<reader, token, down, incoming, hungUp>>
    BY <1>4 DEF WriterSend, Inv, TypeOK, ClientTypes
  <2> QED BY <1>1, <1>2, <1>4, <2>1, <2>2, <2>3, <2>4 DEF Inv, TypeOK, ClientTypes, Numbered
<1>5. CASE WriterCancelled /\ asked' = asked
  BY <1>1, <1>2, <1>5 DEF WriterCancelled, Inv, TypeOK, ClientTypes, Numbered, Bounded
<1>6. CASE ReaderForward /\ asked' = asked
  <2>1. down \in Seq(1 .. 2 * MaxAsked) /\ down # <<>> /\ incoming \in Seq(1 .. 2 * MaxAsked)
        /\ down' = Tail(down) /\ incoming' = Append(incoming, Head(down))
        /\ UNCHANGED <<outbox, writer, reader, token, up, hungUp>>
    BY <1>6 DEF ReaderForward, Inv, TypeOK, ClientTypes
  <2>2. /\ down' \in Seq(1 .. 2 * MaxAsked) /\ Head(down) \in 1 .. 2 * MaxAsked
        /\ Head(down) = down[1] /\ Len(down) \in Nat \ {0} /\ Len(down') = Len(down) - 1
        /\ \A i \in 1 .. Len(down') : down'[i] = down[i + 1]
    BY <2>1, TailIs
  <2>3. /\ incoming' \in Seq(1 .. 2 * MaxAsked) /\ Len(incoming) \in Nat
        /\ Len(incoming') = Len(incoming) + 1
        /\ \A i \in 1 .. Len(incoming) : incoming'[i] = incoming[i]
        /\ incoming'[Len(incoming) + 1] = down[1]
    BY <2>1, <2>2, AppendIs
  <2>4. dispatched \in Nat
    BY HandleAssumption DEF Inv, TypeOK
  <2>5. \A i \in 1 .. Len(incoming') : incoming'[i] = dispatched' + i
    <3> TAKE i \in 1 .. Len(incoming')
    <3>1. CASE i \in 1 .. Len(incoming)
      BY <1>1, <2>3, <3>1 DEF Inv, Numbered
    <3>2. CASE i = Len(incoming) + 1
      <4>1. down[1] = dispatched + Len(incoming) + 1
        BY <2>2 DEF Inv, Numbered
      <4> QED BY <1>1, <2>3, <2>4, <3>2, <4>1
    <3> QED BY <2>3, <3>1, <3>2
  <2>6. \A i \in 1 .. Len(down') : down'[i] = dispatched' + Len(incoming') + i
    <3> TAKE i \in 1 .. Len(down')
    <3>1. i + 1 \in 1 .. Len(down) /\ down'[i] = down[i + 1]
      BY <2>2
    <3>2. down[i + 1] = dispatched + Len(incoming) + (i + 1)
      BY <3>1 DEF Inv, Numbered
    <3> QED BY <1>1, <2>3, <2>4, <3>1, <3>2
  <2>7. Numbered'
    BY <1>1, <2>2, <2>3, <2>4, <2>5, <2>6 DEF Inv, Numbered
  <2> QED BY <1>1, <1>2, <1>6, <2>1, <2>2, <2>3, <2>7 DEF Inv, TypeOK, ClientTypes, Bounded
<1>7. CASE ReaderEnd /\ asked' = asked
  BY <1>1, <1>2, <1>7 DEF ReaderEnd, Inv, TypeOK, ClientTypes, Numbered, Bounded
<1>8. CASE DaemonHangsUp /\ asked' = asked
  <2>1. up' = <<>> /\ Len(up') = 0 /\ up' \in Seq(1 .. MaxAsked)
    BY <1>8 DEF DaemonHangsUp
  <2>2. Bounded'
    BY <1>1, <1>2, <1>8, <2>1 DEF DaemonHangsUp, Inv, Bounded
  <2> QED BY <1>1, <1>2, <1>8, <2>1, <2>2
          DEF DaemonHangsUp, Inv, TypeOK, ClientTypes, Numbered
<1> QED BY <1>3, <1>4, <1>5, <1>6, <1>7, <1>8 DEF WriterStep, ReaderStep
\* The forwarder takes the next message to the ring.
LEMMA ForwardKeeps ==
  ASSUME Inv, Forward
  PROVE  Inv'
<1>1. UNCHANGED <<outbox, writer, reader, token, up, down, hungUp, asked, called, sent, at, got,
                  waiting, threads, abandoned, listener, stopped, dropped>>
      /\ dispatched' = dispatched + 1
  BY DEF Forward
<1>2. /\ incoming' \in Seq(1 .. 2 * MaxAsked) /\ Head(incoming) = incoming[1]
      /\ Len(incoming) \in Nat \ {0} /\ Len(incoming') = Len(incoming) - 1
      /\ \A i \in 1 .. Len(incoming') : incoming'[i] = incoming[i + 1]
  BY TailIs DEF Forward, Inv, TypeOK, ClientTypes
<1>3. dispatched \in Nat /\ sent \in Nat /\ Len(down) \in Nat /\ Len(ring) \in Nat /\ Cap \in Nat
      /\ Cap > 0
  BY HandleAssumption, LenProperties DEF Inv, TypeOK, ClientTypes
<1>4. incoming[1] = dispatched + 1 /\ dispatched + 1 \in 1 .. sent
  BY <1>2, <1>3 DEF Inv, Numbered
<1> DEFINE kept == IF Len(ring) = Cap THEN Tail(ring) ELSE ring
<1>5. /\ kept \in Seq(1 .. sent) /\ Len(kept) \in Nat /\ Len(kept) < Cap
      /\ Len(kept) <= dispatched /\ (Len(kept) + 1 < Cap => Len(kept) = dispatched)
      /\ \A i \in 1 .. Len(kept) : kept[i] = dispatched - Len(kept) + i
  <2>1. CASE Len(ring) = Cap
    <3>1. ring # <<>> /\ ring \in Seq(1 .. sent)
      BY <1>3, <2>1 DEF Inv, TypeOK
    <3>2. /\ kept \in Seq(1 .. sent) /\ Len(kept) = Len(ring) - 1
          /\ \A i \in 1 .. Len(kept) : kept[i] = ring[i + 1]
      BY <2>1, <3>1, TailIs
    <3> HIDE DEF kept
    <3>3. \A i \in 1 .. Len(kept) : kept[i] = dispatched - Len(kept) + i
      <4> TAKE i \in 1 .. Len(kept)
      <4>1. i + 1 \in 1 .. Len(ring) /\ kept[i] = ring[i + 1]
        BY <1>3, <3>2
      <4>2. ring[i + 1] = dispatched - Len(ring) + (i + 1)
        BY <4>1 DEF Inv, Numbered
      <4> QED BY <1>3, <3>2, <4>1, <4>2
    <3> QED BY <1>3, <2>1, <3>2, <3>3 DEF Inv, Numbered
  <2>2. CASE Len(ring) # Cap
    <3>1. kept = ring /\ Len(ring) < Cap /\ ring \in Seq(1 .. sent)
      BY <1>3, <2>2 DEF Inv, TypeOK
    <3> HIDE DEF kept
    <3> QED BY <1>3, <3>1 DEF Inv, Numbered
  <2> QED BY <2>1, <2>2
<1>6. ring' = Append(kept, dispatched + 1)
  BY <1>2, <1>4 DEF Forward
<1> HIDE DEF kept
<1>7. /\ ring' \in Seq(1 .. sent) /\ Len(ring') = Len(kept) + 1
      /\ \A i \in 1 .. Len(kept) : ring'[i] = kept[i]
      /\ ring'[Len(kept) + 1] = dispatched + 1
  BY <1>4, <1>5, <1>6, AppendIs
<1>8. \A i \in 1 .. Len(ring') : ring'[i] = dispatched' - Len(ring') + i
  <2> TAKE i \in 1 .. Len(ring')
  <2>1. CASE i \in 1 .. Len(kept)
    BY <1>1, <1>3, <1>5, <1>7, <2>1
  <2>2. CASE i = Len(kept) + 1
    BY <1>1, <1>3, <1>5, <1>7, <2>2
  <2> QED BY <1>5, <1>7, <2>1, <2>2
<1>9. \A i \in 1 .. Len(incoming') : incoming'[i] = dispatched' + i
  <2> TAKE i \in 1 .. Len(incoming')
  <2>1. i + 1 \in 1 .. Len(incoming) /\ incoming'[i] = incoming[i + 1]
    BY <1>2
  <2>2. incoming[i + 1] = dispatched + (i + 1)
    BY <2>1 DEF Inv, Numbered
  <2> QED BY <1>1, <1>3, <2>1, <2>2
<1>10. \A i \in 1 .. Len(down') : down'[i] = dispatched' + Len(incoming') + i
  <2> TAKE i \in 1 .. Len(down')
  <2>1. down[i] = dispatched + Len(incoming) + i
    BY <1>1 DEF Inv, Numbered
  <2> QED BY <1>1, <1>2, <1>3, <2>1
<1>11. Numbered'
  <2>1. dispatched' + Len(incoming') + Len(down') = sent'
    BY <1>1, <1>2, <1>3 DEF Inv, Numbered
  <2>2. Len(ring') <= dispatched' /\ (Len(ring') < Cap => Len(ring') = dispatched')
    BY <1>1, <1>3, <1>5, <1>7
  <2> QED BY <1>8, <1>9, <1>10, <2>1, <2>2 DEF Numbered
<1>12. dispatched' \in 0 .. sent' /\ Len(ring') <= Cap /\ at' \in [Readers -> 0 .. dispatched']
  <2>1. 0 .. dispatched \subseteq 0 .. dispatched' /\ at' \in [Readers -> 0 .. dispatched]
    BY <1>1, <1>3 DEF Inv, TypeOK
  <2> QED BY <1>1, <1>3, <1>4, <1>5, <1>7, <2>1
<1>13. TypeOK'
  BY <1>1, <1>2, <1>7, <1>12 DEF Inv, TypeOK, ClientTypes
<1> QED BY <1>1, <1>11, <1>13 DEF Inv, Bounded, Fresh

\* The daemon answers a request with two messages.
LEMMA AnswerKeeps ==
  ASSUME Inv, Answer
  PROVE  Inv'
<1>1. UNCHANGED <<outbox, writer, reader, token, incoming, hungUp, asked, called, ring, dispatched,
                  at, got, waiting, threads, abandoned, listener, stopped, dropped>>
      /\ sent' = sent + 2
  BY DEF Answer
<1>2. up' \in Seq(1 .. MaxAsked) /\ Len(up') = Len(up) - 1 /\ Len(up) \in Nat \ {0}
  BY TailIs DEF Answer, Inv, TypeOK, ClientTypes
<1>3. sent \in Nat /\ asked \in Nat /\ asked <= MaxAsked /\ MaxAsked \in Nat
      /\ Len(outbox) \in Nat /\ Len(down) \in Nat /\ Len(incoming) \in Nat /\ dispatched \in Nat
  BY HandleAssumption, LenProperties DEF Inv, TypeOK, ClientTypes
<1>4. Bounded' /\ sent' \in 0 .. 2 * MaxAsked
      /\ {sent + 1, sent + 2} \subseteq 1 .. 2 * MaxAsked
  BY <1>1, <1>2, <1>3 DEF Inv, Bounded
<1>5. PICK two : two = <<sent + 1, sent + 2>>
  OBVIOUS
<1>6. two \in Seq(1 .. 2 * MaxAsked) /\ Len(two) = 2 /\ two[1] = sent + 1 /\ two[2] = sent + 2
  BY <1>4, <1>5
<1>7. down \in Seq(1 .. 2 * MaxAsked) /\ down' = down \o two
  BY <1>5 DEF Answer, Inv, TypeOK, ClientTypes
<1>8. /\ down' \in Seq(1 .. 2 * MaxAsked) /\ Len(down') = Len(down) + 2
      /\ \A i \in 1 .. Len(down) : down'[i] = down[i]
      /\ down'[Len(down) + 1] = sent + 1 /\ down'[Len(down) + 2] = sent + 2
  <2>1. /\ down \o two \in Seq(1 .. 2 * MaxAsked) /\ Len(down \o two) = Len(down) + Len(two)
        /\ \A i \in 1 .. Len(down) + Len(two) :
             (down \o two)[i] = IF i <= Len(down) THEN down[i] ELSE two[i - Len(down)]
    BY <1>6, <1>7, ConcatProperties
  <2> QED BY <1>3, <1>6, <1>7, <2>1
<1>9. Numbered'
  <2>1. sent = dispatched + Len(incoming) + Len(down)
    BY DEF Inv, Numbered
  <2>2. \A i \in 1 .. Len(down') : down'[i] = dispatched' + Len(incoming') + i
    <3> TAKE i \in 1 .. Len(down')
    <3>1. CASE i \in 1 .. Len(down)
      BY <1>1, <1>8, <3>1 DEF Inv, Numbered
    <3>2. CASE i \in {Len(down) + 1, Len(down) + 2}
      BY <1>1, <1>3, <1>8, <2>1, <3>2, SMTT(60)
    <3> QED BY <1>3, <1>8, <3>1, <3>2, SMTT(60)
  <2>3. dispatched' + Len(incoming') + Len(down') = sent'
    BY <1>1, <1>3, <1>8, <2>1
  <2> QED BY <1>1, <2>2, <2>3 DEF Inv, Numbered
<1>10. dispatched' \in 0 .. sent' /\ ring' \in Seq(1 .. sent') /\ got' \in [Readers -> Seq(0 .. sent')]
  <2>1. 1 .. sent \subseteq 1 .. sent' /\ 0 .. sent \subseteq 0 .. sent'
    BY <1>1, <1>3
  <2>2. \A r \in Readers : got[r] \in Seq(0 .. sent')
    BY <2>1, LargerSet DEF Inv, TypeOK
  <2>3. ring \in Seq(1 .. sent')
    BY <2>1, LargerSet DEF Inv, TypeOK
  <2> QED BY <1>1, <2>1, <2>2, <2>3 DEF Inv, TypeOK
<1>11. TypeOK'
  BY <1>1, <1>2, <1>4, <1>8, <1>10 DEF Inv, TypeOK, ClientTypes
<1> QED BY <1>1, <1>4, <1>9, <1>11 DEF Inv, Fresh
\* What a reader that has a message before it receives.
LEMMA ReceivedIs ==
  ASSUME Inv, NEW r \in Readers, Receives(r)
  PROVE  /\ at[r] \in 0 .. dispatched /\ dispatched \in Nat /\ sent \in Nat /\ dispatched <= sent
         /\ at[r] < dispatched
         /\ Lagged(r) => Oldest \in at[r] + 1 .. sent - Cap /\ Position(r) = Oldest
         /\ ~Lagged(r) => Received(r) = at[r] + 1 /\ Position(r) = at[r] + 1
         /\ Position(r) \in 0 .. dispatched
<1>1. at[r] \in 0 .. dispatched /\ dispatched \in Nat /\ sent \in Nat /\ dispatched <= sent
      /\ at[r] < dispatched /\ Len(ring) \in Nat /\ Cap \in Nat /\ Len(ring) <= Cap
  BY HandleAssumption, LenProperties DEF Inv, TypeOK, Receives
<1>2. Len(ring) <= dispatched /\ (Len(ring) < Cap => Len(ring) = dispatched)
  BY DEF Inv, Numbered
<1>3. ASSUME Lagged(r)
      PROVE  Oldest \in at[r] + 1 .. sent - Cap /\ Position(r) = Oldest /\ Oldest \in 0 .. dispatched
  BY <1>1, <1>2, <1>3 DEF Lagged, Oldest, Position
<1>4. ASSUME ~Lagged(r)
      PROVE  Received(r) = at[r] + 1 /\ Position(r) = at[r] + 1
  <2>1. at[r] + 1 - Oldest \in 1 .. Len(ring)
    BY <1>1, <1>2, <1>4 DEF Lagged, Oldest
  <2>2. ring[at[r] + 1 - Oldest] = dispatched - Len(ring) + (at[r] + 1 - Oldest)
    BY <2>1 DEF Inv, Numbered
  <2>3. ring[at[r] + 1 - Oldest] = at[r] + 1
    BY <1>1, <2>2 DEF Oldest
  <2> QED BY <1>4, <2>3 DEF Received, Position
<1>5. at[r] + 1 \in 0 .. dispatched
  BY <1>1
<1> QED BY <1>1, <1>3, <1>4, <1>5

\* A reader that is given a message, or 0, keeps the types.
LEMMA GotType ==
  ASSUME Inv, NEW r \in Readers, NEW m \in 0 .. sent
  PROVE  [got EXCEPT ![r] = Append(@, m)] \in [Readers -> Seq(0 .. sent)]
<1>1. Append(got[r], m) \in Seq(0 .. sent)
  BY AppendIs DEF Inv, TypeOK
<1> QED BY <1>1 DEF Inv, TypeOK

\* A call of next_message returns.
LEMMA ReturnKeeps ==
  ASSUME Inv, Return
  PROVE  Inv'
<1>1. UNCHANGED <<outbox, writer, reader, up, down, incoming, hungUp, asked, called, sent, ring,
                  dispatched, listener, dropped>>
  BY DEF Return
<1>2. Next_rx \in Readers
  BY DEF Readers
<1>3. at' \in [Readers -> 0 .. dispatched]
  BY <1>2, ReceivedIs DEF Return, Inv, TypeOK
<1>4. PICK m \in 0 .. sent : Returns(m)
  <2>1. 0 \in 0 .. sent /\ (~Lagged(Next_rx) => Received(Next_rx) \in 0 .. sent)
    BY <1>2, ReceivedIs DEF Return
  <2> QED BY <2>1 DEF Return
<1>5. got' = got \/ got' = [got EXCEPT ![Next_rx] = Append(@, m)]
  BY <1>4 DEF Returns
<1>6. got' \in [Readers -> Seq(0 .. sent)]
  <2>1. got \in [Readers -> Seq(0 .. sent)]
    BY DEF Inv, TypeOK
  <2>2. [got EXCEPT ![Next_rx] = Append(@, m)] \in [Readers -> Seq(0 .. sent)]
    BY <1>2, GotType
  <2> QED BY <1>5, <2>1, <2>2
<1>7. waiting' \in Seq(1 .. called) /\ threads' \subseteq 1 .. called /\ abandoned' \subseteq threads'
      /\ token' \in BOOLEAN /\ stopped' \subseteq Listeners
  <2>1. waiting # <<>> /\ waiting \in Seq(1 .. called)
    BY DEF Return, Inv, TypeOK
  <2>2. waiting' \in Seq(1 .. called)
    BY <1>4, <2>1, TailIs DEF Returns
  <2>3. threads' \subseteq 1 .. called /\ abandoned' \subseteq threads'
    BY <1>4 DEF Returns, Inv, TypeOK
  <2>4. token' \in BOOLEAN /\ stopped' \subseteq Listeners
    BY <1>4 DEF Returns, Leaves, Running, Inv, TypeOK, ClientTypes
  <2> QED BY <2>2, <2>3, <2>4
<1>8. Fresh'
  <2>1. \A l \in Listeners : l # Next_rx /\ l \in Readers
    BY HandleAssumption DEF Readers
  <2>2. \A l \in Listeners : got'[l] = got[l]
    BY <1>5, <2>1 DEF Inv, TypeOK
  <2> QED BY <1>1, <2>2 DEF Inv, Fresh
<1>9. TypeOK'
  BY <1>1, <1>3, <1>6, <1>7 DEF Inv, TypeOK, ClientTypes
<1> QED BY <1>1, <1>8, <1>9 DEF Inv, Numbered, Bounded

\* A listener is registered, is given a message or lags, and ends.
LEMMA ListenersKeep ==
  ASSUME Inv, NEW l \in Listeners, OnMessage(l) \/ Deliver(l) \/ EndListener(l)
  PROVE  Inv'
<1>1. UNCHANGED <<clientVars, asked, called, sent, ring, dispatched, waiting, threads, abandoned,
                  stopped, dropped>>
  BY DEF OnMessage, Deliver, EndListener
<1>2. l \in Readers /\ sent \in Nat /\ dispatched \in Nat
  BY HandleAssumption DEF Readers, Inv, TypeOK
<1>3. CASE OnMessage(l)
  <2>1. listener' \in [Listeners -> {"none", "running", "ended"}]
        /\ \A k \in Listeners : listener'[k] = "none" => listener[k] = "none"
    BY <1>3 DEF OnMessage, Inv, TypeOK
  <2>2. at' \in [Readers -> 0 .. dispatched] /\ got' = got
    BY <1>2, <1>3 DEF OnMessage, Inv, TypeOK
  <2> QED BY <1>1, <2>1, <2>2
          DEF clientVars, Inv, TypeOK, ClientTypes, Numbered, Bounded, Fresh
<1>4. CASE Deliver(l)
  <2>1. listener' \in [Listeners -> {"none", "running", "ended"}] /\ listener[l] = "running"
        /\ \A k \in Listeners : listener'[k] = "none" => listener[k] = "none"
    BY <1>4 DEF Deliver, Inv, TypeOK
  <2>2. at' \in [Readers -> 0 .. dispatched]
    BY <1>2, <1>4, ReceivedIs DEF Deliver, Inv, TypeOK
  <2>3. got' \in [Readers -> Seq(0 .. sent)] /\ \A k \in Listeners : k # l => got'[k] = got[k]
    <3>1. CASE got' = got
      BY <3>1 DEF Inv, TypeOK
    <3>2. CASE ~Lagged(l) /\ got' = [got EXCEPT ![l] = Append(@, Received(l))]
      <4>1. Received(l) \in 0 .. sent
        BY <1>2, <1>4, <3>2, ReceivedIs DEF Deliver
      <4> QED BY <1>2, <3>2, <4>1, GotType DEF Readers, Inv, TypeOK
    <3> QED BY <1>4, <3>1, <3>2 DEF Deliver
  <2>4. Fresh'
    <3> SUFFICES ASSUME NEW k \in Listeners, listener'[k] = "none"
                 PROVE  got'[k] = <<>>
      BY DEF Fresh
    <3>1. k # l
      BY <2>1
    <3> QED BY <2>1, <2>3, <3>1 DEF Inv, Fresh
  <2> QED BY <1>1, <2>1, <2>2, <2>3, <2>4
          DEF clientVars, Inv, TypeOK, ClientTypes, Numbered, Bounded
<1>5. CASE EndListener(l)
  <2>1. listener' \in [Listeners -> {"none", "running", "ended"}] /\ UNCHANGED <<at, got>>
        /\ \A k \in Listeners : listener'[k] = "none" => listener[k] = "none"
    BY <1>5 DEF EndListener, Inv, TypeOK
  <2> QED BY <1>1, <2>1 DEF clientVars, Inv, TypeOK, ClientTypes, Numbered, Bounded, Fresh
<1> QED BY <1>3, <1>4, <1>5

\* The invariant holds.
LEMMA Invariant == Spec => []Inv
<1>1. Init => Inv
  <2> SUFFICES ASSUME Init
               PROVE  Inv
    OBVIOUS
  <2>1. 0 \in 0 .. MaxAsked /\ 0 \in 0 .. MaxCalls /\ 0 \in 0 .. 2 * MaxAsked /\ 0 \in 0 .. 0
        /\ 0 <= Cap /\ 0 \in Nat
    BY HandleAssumption
  <2>2. outbox = <<>> /\ up = <<>> /\ down = <<>> /\ incoming = <<>> /\ ring = <<>>
        /\ waiting = <<>> /\ sent = 0 /\ dispatched = 0 /\ asked = 0 /\ called = 0
    BY DEF Init, Connected
  <2>3. Len(<<>>) = 0 /\ \A S : <<>> \in Seq(S)
    BY EmptySeq
  <2>4. Numbered /\ Bounded
    BY <2>2, <2>3, HandleAssumption DEF Numbered, Bounded
  <2>5. Fresh
    BY DEF Init, Fresh, Readers
  <2>6. ClientTypes(1 .. MaxAsked, 1 .. 2 * MaxAsked)
    BY <2>3, Zenon DEF Init, Connected, ClientTypes
  <2>7. at \in [Readers -> 0 .. dispatched] /\ got \in [Readers -> Seq(0 .. sent)]
    BY <2>1, <2>2, <2>3 DEF Init
  <2>8. listener \in [Listeners -> {"none", "running", "ended"}] /\ stopped \subseteq Listeners
        /\ dropped \in BOOLEAN /\ threads \subseteq 1 .. called /\ abandoned \subseteq threads
    BY DEF Init
  <2>9. TypeOK
    BY <2>1, <2>2, <2>3, <2>6, <2>7, <2>8 DEF TypeOK
  <2> QED BY <2>4, <2>5, <2>9 DEF Inv
<1>2. Inv /\ [Next]_vars => Inv'
  <2> SUFFICES ASSUME Inv, [Next]_vars
               PROVE  Inv'
    OBVIOUS
  <2>1. CASE UNCHANGED vars
    BY <2>1 DEF vars, clientVars, handleVars, Inv, TypeOK, ClientTypes, Numbered, Bounded, Fresh
  <2> QED BY <2>1, ScriptKeeps, TasksKeep, ListenersKeep, ForwardKeeps, ReturnKeeps, AnswerKeeps
          DEF Next
<1> QED BY <1>1, <1>2, PTL DEF Spec

\* The bindings keep their types, and the daemon never answers more than it was asked.
THEOREM TypeCorrect == Spec => []TypeOK
<1>1. Inv => TypeOK
  BY DEF Inv
<1> QED BY <1>1, Invariant, PTL
-------------------------------------------------------------------------------
(* The bindings are a mailbox.                                                *)

\* Every step is one of the mailbox or leaves it alone.
LEMMA MailboxStep ==
  ASSUME Inv, Next
  PROVE  Mailbox!MailboxNext \/ UNCHANGED Mailbox!mailbox
<1> USE DEF Mailbox!mailbox, clientVars, handleVars
<1>1. CASE \/ Send \/ Call \/ Cancel \/ DropClient \/ Forward
           \/ \E c \in 1 .. MaxCalls : Withdraw(c)
           \/ (WriterStep \/ ReaderStep \/ DaemonHangsUp) /\ UNCHANGED handleVars
  BY <1>1 DEF Send, Call, Cancel, DropClient, Forward, Withdraw
<1>2. ASSUME NEW c \in 1 .. MaxCalls, Abandon(c)
      PROVE  Mailbox!MailboxNext
  <2>1. Mailbox!GiveUp
    BY <1>2 DEF Abandon, Mailbox!GiveUp
  <2> QED BY <2>1 DEF Mailbox!MailboxNext
<1>3. CASE Answer
  <2>1. sent \in Nat /\ sent' = sent + 2 /\ UNCHANGED <<at, got, abandoned>>
    BY <1>3, HandleAssumption DEF Answer, Inv, TypeOK
  <2>2. Mailbox!Arrive
    BY <2>1 DEF Mailbox!Arrive
  <2> QED BY <2>2 DEF Mailbox!MailboxNext
<1>4. CASE Return
  <2> DEFINE c == Head(waiting)
             m == IF Lagged(Next_rx) THEN 0 ELSE Received(Next_rx)
  <2>1. Next_rx \in Readers /\ Receives(Next_rx) /\ sent' = sent
        /\ at' = [at EXCEPT ![Next_rx] = Position(Next_rx)]
    BY <1>4 DEF Return, Readers
  <2>2. Returns(m)
    BY <1>4 DEF Return
  <2>3. CASE c \in abandoned
    <3>1. (\E a \in abandoned : abandoned' = abandoned \ {a}) /\ got' = got
      BY <2>2, <2>3 DEF Returns
    <3>2. Mailbox!Falls(Next_rx) \/ (at[Next_rx] < sent /\ at' = [at EXCEPT ![Next_rx] = @ + 1])
      <4>1. CASE Lagged(Next_rx)
        BY <2>1, <4>1, ReceivedIs DEF Mailbox!Falls
      <4>2. CASE ~Lagged(Next_rx)
        <5>1. Position(Next_rx) = at[Next_rx] + 1 /\ at[Next_rx] < sent
          BY <2>1, <4>2, ReceivedIs
        <5> QED BY <2>1, <5>1
      <4> QED BY <4>1, <4>2
    <3>3. Mailbox!Miss(Next_rx)
      BY <2>1, <3>1, <3>2 DEF Mailbox!Miss
    <3> QED BY <2>1, <3>3 DEF Mailbox!MailboxNext
  <2>4. CASE c \notin abandoned
    <3>1. abandoned' = abandoned /\ got' = [got EXCEPT ![Next_rx] = Append(@, m)]
      BY <2>2, <2>4 DEF Returns
    <3>2. CASE Lagged(Next_rx)
      <4>1. Mailbox!Falls(Next_rx)
        BY <2>1, <3>2, ReceivedIs DEF Mailbox!Falls
      <4>2. Mailbox!Lose(Next_rx)
        BY <2>1, <3>1, <3>2, <4>1 DEF Mailbox!Lose
      <4> QED BY <2>1, <4>2 DEF Mailbox!MailboxNext
    <3>3. CASE ~Lagged(Next_rx)
      <4>1. Received(Next_rx) = at[Next_rx] + 1 /\ Position(Next_rx) = at[Next_rx] + 1
            /\ at[Next_rx] < sent
        BY <2>1, <3>3, ReceivedIs
      <4>2. Mailbox!Hand(Next_rx)
        BY <2>1, <3>1, <3>3, <4>1 DEF Mailbox!Hand
      <4> QED BY <2>1, <4>2 DEF Mailbox!MailboxNext
    <3> QED BY <3>2, <3>3
  <2> QED BY <2>3, <2>4
<1>5. ASSUME NEW l \in Listeners, OnMessage(l)
      PROVE  Mailbox!MailboxNext
  <2>1. l \in Readers /\ l \notin {Next_rx} /\ got[l] = <<>>
    BY <1>5, HandleAssumption DEF OnMessage, Readers, Inv, Fresh
  <2>2. dispatched \in at[l] .. sent
    BY <2>1, HandleAssumption DEF Inv, TypeOK
  <2>3. Mailbox!Join(l)
    BY <1>5, <2>1, <2>2 DEF OnMessage, Mailbox!Join
  <2> QED BY <2>1, <2>3 DEF Mailbox!MailboxNext
<1>6. ASSUME NEW l \in Listeners, Deliver(l)
      PROVE  Mailbox!MailboxNext
  <2>1. l \in Readers /\ l \notin {Next_rx} /\ Receives(l) /\ sent' = sent
        /\ at' = [at EXCEPT ![l] = Position(l)]
    BY <1>6, HandleAssumption DEF Deliver, Readers
  <2>2. CASE Lagged(l)
    <3>1. Oldest \in at[l] + 1 .. sent - Cap /\ at' = [at EXCEPT ![l] = Oldest]
      BY <2>1, <2>2, ReceivedIs
    <3>2. Mailbox!Lose(l)
      BY <1>6, <2>1, <2>2, <3>1 DEF Deliver, Mailbox!Lose, Mailbox!Falls
    <3> QED BY <2>1, <3>2 DEF Mailbox!MailboxNext
  <2>3. CASE ~Lagged(l)
    <3>1. Received(l) = at[l] + 1 /\ Position(l) = at[l] + 1 /\ at[l] < sent
      BY <2>1, <2>3, ReceivedIs
    <3>2. Mailbox!Hand(l)
      BY <1>6, <2>1, <2>3, <3>1 DEF Deliver, Mailbox!Hand
    <3> QED BY <2>1, <3>2 DEF Mailbox!MailboxNext
  <2> QED BY <2>2, <2>3
<1>7. ASSUME NEW l \in Listeners, EndListener(l)
      PROVE  UNCHANGED Mailbox!mailbox
  BY <1>7 DEF EndListener
<1> QED BY <1>1, <1>3, <1>4, <1>5, <1>6, <1>7, <1>2 DEF Next

\* The bindings implement the mailbox: no message changes its place, is given twice, or
\* is lost unless a reader is more than the ring behind or gave up the call that took it.
THEOREM ImplementsMailboxHolds == Spec => ImplementsMailbox
<1>1. Init => Mailbox!MailboxInit
  BY DEF Init, Mailbox!MailboxInit
<1>2. Inv /\ [Next]_vars => [Mailbox!MailboxNext]_(Mailbox!mailbox)
  <2>1. UNCHANGED vars => UNCHANGED Mailbox!mailbox
    BY DEF vars, handleVars, Mailbox!mailbox
  <2> QED BY <2>1, MailboxStep
<1> QED BY <1>1, <1>2, Invariant, PTL DEF Spec, ImplementsMailbox, Mailbox!MailboxSpec
===============================================================================
