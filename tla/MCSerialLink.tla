----------------------------- MODULE MCSerialLink -----------------------------
(* An instance of SerialLink for TLC: a magic of two bytes, two pixels of two *)
(* bytes, records of four bytes.                                              *)
EXTENDS SerialLink

Line == {"L", "S", "a", "full", "odd", "none", "big"}

LineMagic == <<"L", "S">>

\* Any two bytes are some length; pixel bytes are mostly a large one.
LineDeclared ==
  [b \in Line |-> CASE b = "full" -> 4 [] b = "odd" -> 3 [] b = "none" -> 0 [] OTHER -> 5]

\* A dark frame, and one that ends like a header begins.
LinePayloads == {<<"a", "a", "a", "L">>, <<"S", "L", "a", "a">>}

LineNoise == {<<"L", "S", "odd">>, <<"L", "S", "none">>, <<"L", "S", "big">>, <<"a", "L">>}

LineRecord == <<"L", "F", "t", "t">>

LineFeedbackMagic == <<"L", "F">>

LineFeedbackBytes == {"L", "F", "t", "c"}

\* Boot messages as long as a backlog may get; one ends like a record begins.
Cs == [i \in 1 .. 13 |-> "c"]

LineChatter == {<<>>, Append(Cs, "c"), Append(Cs, "L")}
==============================================================================
