----------------------------- MODULE StreamCodec -----------------------------
(***************************************************************************)
(* How the numbers and paths of a result stream are decoded in the browser *)
(* (utils/encoder/streamEncoding.ts), next to how the server encodes them  *)
(* (storage/encoding).  A byte has Base values, so that every number of    *)
(* eight bytes can be tried; all shifts and powers scale with it.          *)
(***************************************************************************)
EXTENDS Integers, Sequences

CONSTANT Base \* values of a byte: 256 in the code
ASSUME BytesHaveValues == Base \in Nat /\ Base > 3 /\ Base % 2 = 0

Byte == 0..(Base - 1)

\* How far n bytes shift a number.
Power[n \in 0..8] == IF n = 0 THEN 1 ELSE Base * Power[n - 1]

\* The value of the low four bytes of v as a two's complement number.
Signed(v) ==
  LET low == v % Power[4] IN IF 2 * low >= Power[4] THEN low - Power[4] ELSE low

-----------------------------------------------------------------------------
(* The server *)

\* encode_int64: eight bytes, the lowest first.
encode_int64(v) == [i \in 1..8 |-> (v \div Power[i - 1]) % Base]

\* encode_int64_big_endian
encode_int64_big_endian(v) == [i \in 1..8 |-> encode_int64(v)[9 - i]]

PATH_SENTINEL == Base - 2

\* A key of a path is an array index, below what four bytes hold, or the bytes of a
\* name, none of which is the sentinel or above.
Index == {"int"} \X {n \in Nat : 2 * n < Power[4]}
Name == {"str"} \X (Seq(0..(Base - 3)) \ {<<>>})
Key == Index \cup Name

encode_key(key) ==
  IF key[1] = "int" THEN <<PATH_SENTINEL>> \o encode_int64_big_endian(key[2]) ELSE key[2]

\* encode_path, the first i keys of it for every i.
EncodedUpTo(path) ==
  LET upTo[i \in 0..Len(path)] ==
        IF i = 0 THEN <<>> ELSE upTo[i - 1] \o encode_key(path[i]) \o <<PATH_SENTINEL>>
  IN upTo

encode_path(path) == EncodedUpTo(path)[Len(path)]

-----------------------------------------------------------------------------
(* The browser *)

\* JavaScript: x << 24 and ~x work on 32 bits, the size of four bytes.
ShiftLeft3(x) == Signed(x * Power[3])
BitNot(v) == -Signed(v) - 1

\* Eight bytes, the lowest first: the low four are shifted, the others multiplied.
FromBytes(x) ==
  x[8] * Power[7] + x[7] * Power[6] + x[6] * Power[5] + x[5] * Power[4]
    + ShiftLeft3(x[4]) + x[3] * Power[2] + x[2] * Power[1] + x[1]

decode_q_le(x) ==
  IF 2 * x[8] >= Base
  THEN BitNot(FromBytes([i \in 1..8 |-> Base - 1 - x[i]]))
  ELSE FromBytes(x)

decode_q_be(x) == FromBytes([i \in 1..8 |-> x[9 - i]])

\* The end of the name at the cursor.
SentinelAfter(buffer, cursor) ==
  CHOOSE e \in cursor..Len(buffer) :
    buffer[e] = PATH_SENTINEL /\ \A i \in cursor..(e - 1) : buffer[i] # PATH_SENTINEL

\* A round of the loop of splitPath, with the cursor at the start of a key.  An
\* index has a fixed size, a name goes up to the next sentinel.
SplitRound(buffer, s) ==
  LET end == SentinelAfter(buffer, s.cursor)
  IN IF buffer[s.cursor] = PATH_SENTINEL
     THEN [cursor |-> s.cursor + 10,
           path |-> Append(s.path, <<"int", decode_q_be([i \in 1..8 |-> buffer[s.cursor + i]])>>)]
     ELSE [cursor |-> end + 1,
           path |-> Append(s.path, <<"str", SubSeq(buffer, s.cursor, end - 1)>>)]

\* Where the loop is after n rounds, if the buffer does not end before.
SplitUpTo(buffer) ==
  LET upTo[n \in 0..Len(buffer)] ==
        IF n = 0 THEN [cursor |-> 1, path |-> <<>>]
        ELSE LET s == upTo[n - 1]
             IN IF s.cursor > Len(buffer) THEN s ELSE SplitRound(buffer, s)
  IN upTo

splitPath(buffer) == SplitUpTo(buffer)[Len(buffer)].path
=============================================================================
