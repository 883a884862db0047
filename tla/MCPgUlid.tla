------------------------------ MODULE MCPgUlid ------------------------------
(* Constants for model-checking PgUlid. *)
EXTENDS PgUlid

\* 24 bits in 5 characters leave one spare bit, as 64 in 13 do; 8 bits in 2
\* leave two, as 128 in 26 do.
SmallSizes == [snowflake |-> 3, ulid |-> 1]
OneReserved == [snowflake |-> 1, ulid |-> 0]

\* 0 7 8 G Z z o U
SnowChars == {48, 55, 56, 71, 90, 122, 111, 85}
\* the alphabet, lower-case a and z, o i l, and U / : @ NUL 255
UlidChars == { ENCODE_LUT[i] : i \in 1 .. 32 } \cup {97, 122, 111, 105, 76, 85, 47, 58, 64, 0, 255}
SomeTexts ==
  [snowflake |-> [1 .. 5 -> SnowChars] \cup { <<>>, <<48, 48, 48, 48>>, <<85, 48, 48, 48, 48, 48>> },
   ulid |-> [1 .. 2 -> UlidChars] \cup { <<>>, <<55>>, <<48, 48, 48>> }]

SomeRaws ==
  [snowflake |-> { from_be_bytes(b) : b \in [1 .. 3 -> {0, 1, 127, 128, 255}] },
   ulid |-> Bytes]
SomeMessages == [1 .. 1 -> Bytes] \cup { <<>>, <<1, 2>> }
SomeTimes == {-3, -1, 0, 7}
AllPgTimes == -I64_MAX - 1 .. I64_MAX
FinitePgTimes == -I64_MAX .. I64_MAX - 1
\* NUL, a digit of the alphabet, a byte that is no UTF-8
SomeJunk == {0, 90, 255}
WideRandoms == {0, 15, 16}
=============================================================================
