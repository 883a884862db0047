----------------------------- MODULE Crockford -----------------------------
(***************************************************************************)
(* The base32 codec (base32/crockford.rs) and the big-endian bytes it      *)
(* works on (id/be_bytes.rs).  A text is a sequence of bytes, a byte a     *)
(* number below 256, a letter its ASCII code.  Sizes are arguments, as the *)
(* lengths of the slices are in the code.                                  *)
(***************************************************************************)
EXTENDS Integers, Sequences

CONSTANT USIZE_BITS     \* width of the encoder's accumulator

\* 2^k doubles up to k = n: the provers treat it as an unknown function.
Doubling(n) == \A k \in 0 .. n - 1 : 2^(k + 1) = 2 * 2^k

ASSUME UsizeAssumption ==
  USIZE_BITS \in Nat /\ USIZE_BITS >= 16 /\ Doubling(USIZE_BITS)

BITS_PER_CHAR == 5
INVALID_VALUE == 255
Bytes == 0 .. 255

base32_size(bytes) == (bytes * 8 + BITS_PER_CHAR - 1) \div BITS_PER_CHAR

to_be_bytes(raw, size) == [i \in 1 .. size |-> (raw \div 2^(8 * (size - i))) % 256]

from_be_bytes(bytes) ==
  LET acc[i \in 0 .. Len(bytes)] == IF i = 0 THEN 0 ELSE acc[i - 1] * 256 + bytes[i]
  IN  acc[Len(bytes)]

\* mutant: letters before digits, as in RFC 4648
ENCODE_LUT_letters_first ==
  <<65, 66, 67, 68, 69, 70, 71, 72, 74, 75, 77, 78, 80, 81, 82, 83, 84,
    86, 87, 88, 89, 90, 48, 49, 50, 51, 52, 53, 54, 55, 56, 57>>
\* 0-9, then A-Z without I, L, O and U
ENCODE_LUT ==
  <<48, 49, 50, 51, 52, 53, 54, 55, 56, 57, 65, 66, 67, 68, 69, 70,
    71, 72, 74, 75, 77, 78, 80, 81, 82, 83, 84, 86, 87, 88, 89, 90>>

UpperCase == 65 .. 90
\* The places in ENCODE_LUT that set the entry of c.
Places(c) ==
  { i \in 1 .. 32 : \/ ENCODE_LUT[i] = c
                    \/ ENCODE_LUT[i] \in UpperCase /\ ENCODE_LUT[i] + 32 = c }

\* mutant: the main alphabet only
DECODE_LUT_without_aliases ==
  [c \in Bytes |-> IF Places(c) = {} THEN INVALID_VALUE
                   ELSE (CHOOSE i \in Places(c) : TRUE) - 1]
\* The main alphabet in both cases, and the aliases O, I and L.
DECODE_LUT ==
  [c \in Bytes |-> IF c \in {79, 111} THEN 0
                   ELSE IF c \in {73, 105, 76, 108} THEN 1
                   ELSE IF Places(c) = {} THEN INVALID_VALUE
                   ELSE (CHOOSE i \in Places(c) : TRUE) - 1]

\* One turn of the loop: byte b joins the accumulator, whose high bits fall
\* off, and the n characters that are now complete are written.
WriteByte(st, b) ==
  LET acc == (st.acc * 256 + b) % 2^USIZE_BITS
      bits == st.bits + 8
      n == bits \div BITS_PER_CHAR
      rest(i) == bits - (i - st.out) * BITS_PER_CHAR
  IN  [acc |-> acc, bits |-> bits - n * BITS_PER_CHAR, out |-> st.out + n,
       buf |-> [i \in DOMAIN st.buf |->
                  IF i \in st.out + 1 .. st.out + n
                  THEN ENCODE_LUT[((acc \div 2^rest(i)) % 32) + 1] ELSE st.buf[i]]]

\* The loop over the input, from a state in which `bits' bits are taken as read.
WriteBytes(input, buf_slice, bits) ==
  LET st[i \in 0 .. Len(input)] ==
        IF i = 0 THEN [acc |-> 0, bits |-> bits, out |-> 0, buf |-> buf_slice]
        ELSE WriteByte(st[i - 1], input[i])
  IN  st[Len(input)]

\* mutant: the encoding starts without the spare bits
encode_base32_unpadded(input, buf_slice) == WriteBytes(input, buf_slice, 0).buf
\* The characters go over what the caller's buffer holds.
encode_base32(input, buf_slice) ==
  WriteBytes(input, buf_slice, Len(buf_slice) * BITS_PER_CHAR - Len(input) * 8).buf

Ok(value) == [ok |-> TRUE, value |-> value]
Err(error) == [ok |-> FALSE, error |-> error]

\* mutant: the last invalid byte
handle_error_last(bytes) ==
  LET at == CHOOSE i \in DOMAIN bytes :
             /\ DECODE_LUT[bytes[i]] = INVALID_VALUE
             /\ \A j \in i + 1 .. Len(bytes) : DECODE_LUT[bytes[j]] # INVALID_VALUE
  IN  [is |-> "DecodeInvalidAscii", byte |-> bytes[at], index |-> at - 1]
handle_error(bytes) ==
  LET at == CHOOSE i \in DOMAIN bytes :
             /\ DECODE_LUT[bytes[i]] = INVALID_VALUE
             /\ \A j \in 1 .. i - 1 : DECODE_LUT[bytes[j]] # INVALID_VALUE
  IN  [is |-> "DecodeInvalidAscii", byte |-> bytes[at], index |-> at - 1]

\* Bits shifted out of the integer are lost.  INVALID_VALUE has all bits set
\* and no other entry has more than five, so the bitwise or of a chunk of four
\* is INVALID_VALUE just when one of them is.
decode_base32(bytes, size) ==
  LET values == [i \in DOMAIN bytes |-> DECODE_LUT[bytes[i]]]
      acc[i \in 0 .. Len(bytes)] ==
        IF i = 0 THEN 0 ELSE (acc[i - 1] * 32 + values[i]) % 2^(8 * size)
      has_error == \E i \in DOMAIN values : values[i] = INVALID_VALUE
  IN  IF has_error THEN Err(handle_error(bytes)) ELSE Ok(acc[Len(bytes)])
=============================================================================
