-------------------------------- MODULE Framing --------------------------------
(***************************************************************************)
(* How messages are cut out of the byte stream between the daemon and its  *)
(* clients (daemoncomm/src/codec.rs, server/codec.rs and client/codec.rs,  *)
(* which differ in the message type only): MAGIC, a big-endian length, and *)
(* the serialized message.  Serialization itself is left out: Messages are *)
(* the byte strings that deserialize.                                      *)
(***************************************************************************)
EXTENDS Integers, SequencesExt

CONSTANTS
  MAGIC,
  LengthBytes,          \* of the length field, 3 in the code
  Base,                 \* bytes are 0 .. Base - 1, 256 in the code
  Messages

ASSUME FramingAssumption ==
  /\ LengthBytes \in Nat /\ Base \in Nat \ {0, 1}
  /\ MAGIC \in Seq(0 .. Base - 1) /\ Messages \subseteq Seq(0 .. Base - 1)
  /\ \A m \in Messages : Len(m) < Base ^ LengthBytes

HEADER_LEN == Len(MAGIC) + LengthBytes

BigEndian(n) == [i \in 1 .. LengthBytes |-> (n \div (Base ^ (LengthBytes - i))) % Base]

Number(bytes) == FoldLeft(LAMBDA n, byte : (n * Base) + byte, 0, bytes)

\* A longer message is refused: MessageTooLarge.
Encode(message) == MAGIC \o BigEndian(Len(message)) \o message

\* What one call of decode makes of a buffer, which is shorter only behind an item.
Decode(src) ==
  LET len  == Number(SubSeq(src, Len(MAGIC) + 1, HEADER_LEN))
      data == SubSeq(src, HEADER_LEN + 1, HEADER_LEN + len) IN
  CASE Len(src) < HEADER_LEN              -> [is |-> "more"]
    [] Len(src) >= HEADER_LEN /\ ~IsPrefix(MAGIC, src) -> [is |-> "error"]
    [] Len(src) >= HEADER_LEN /\ IsPrefix(MAGIC, src) ->
         IF Len(src) < HEADER_LEN + len THEN [is |-> "more"]
         ELSE IF data \in Messages THEN [is |-> "item", item |-> data] ELSE [is |-> "error"]

\* Framed: it decodes until a call wants more, and nothing behind an error.
Fresh == [src |-> <<>>, items |-> <<>>, failed |-> FALSE]

Turn(framed) ==
  LET outcome == Decode(framed.src) IN
  CASE framed.failed \/ outcome.is = "more" -> framed
    [] ~framed.failed /\ outcome.is = "error" -> [framed EXCEPT !.failed = TRUE]
    [] ~framed.failed /\ outcome.is = "item" ->
         [framed EXCEPT !.items = Append(@, outcome.item),
                        !.src = SubSeq(@, HEADER_LEN + Len(outcome.item) + 1, Len(@))]

Feed(framed, chunk) ==
  LET fed == [framed EXCEPT !.src = @ \o chunk] IN
  FoldLeft(LAMBDA f, i : Turn(f), fed, fed.src)

\* At the end of the stream, what is left is an error.
Finish(framed) == [items |-> framed.items, failed |-> framed.failed \/ framed.src # <<>>]

Read(chunks) == Finish(FoldLeft(Feed, Fresh, chunks))
===============================================================================
