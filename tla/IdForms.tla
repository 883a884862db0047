------------------------------ MODULE IdForms ------------------------------
(***************************************************************************)
(* The forms an id takes outside the generator, and the conversions        *)
(* between them: base32 text (base32/ and the macros of id/), integers and *)
(* strings in serde's formats (serde/), system times (id/ulid.rs).  PgUlid *)
(* adds those of the Postgres type.  A behaviour is the journey of one id: *)
(* it arrives in some form, well made or not, and is converted again and   *)
(* again.  `meaning' is the id that the form it arrived in denotes, by a   *)
(* definition that does not use the code's tables and loops.               *)
(***************************************************************************)
EXTENDS UlidId, Crockford

CONSTANTS
  SIZE,             \* bytes of a raw id, by type
  RESERVED_BITS,    \* reserved bits of the layout, by type
  Texts, Raws,      \* texts and integers that may arrive, by type
  Times,            \* SystemTimes (microseconds from the Unix epoch)
  Junk,             \* what a buffer lent to encode_to_buf may hold
  Randoms,          \* what a random source returns
  MICROS_PER_MS

Types == {"snowflake", "ulid"}

ASSUME FormsAssumption ==
  /\ SIZE \in [Types -> Nat \ {0}]
  /\ \A t \in Types : /\ RESERVED_BITS[t] \in 0 .. 8 * SIZE[t]
                       /\ Doubling(5 * base32_size(SIZE[t]))
  /\ 8 * SIZE["ulid"] = TIMESTAMP_BITS + RANDOM_BITS /\ RESERVED_BITS["ulid"] = 0
  /\ Texts \in [Types -> SUBSET Seq(Bytes)]
  /\ \A t \in Types : Raws[t] \subseteq 0 .. 2^(8 * SIZE[t]) - 1
  /\ Times \subseteq Int /\ Junk \subseteq Bytes /\ Randoms \subseteq Nat
  /\ MICROS_PER_MS \in Nat \ {0}

VARIABLES
  ty,               \* the type of the id
  form,             \* the form it is in
  value,            \* its value in that form; for an error, the error and its cause
  meaning           \* the id it stands for, or one of
NoId == -1          \* none: it cannot be converted
Unknown == -2       \* a time that nothing has been made of yet

vars == <<ty, form, value, meaning>>

Range32(t) == 2^(8 * SIZE[t] - RESERVED_BITS[t])
is_valid(t, raw) == raw < Range32(t)
into_valid(t, raw) == raw % Range32(t)

-----------------------------------------------------------------------------
(* What a form denotes, in the words of Crockford's definition. *)

Upper(c) == IF c \in 97 .. 122 THEN c - 32 ELSE c
Digits(c) == { d \in 0 .. 31 : \/ ENCODE_LUT[d + 1] = Upper(c)
                               \/ d = 0 /\ Upper(c) = 79
                               \/ d = 1 /\ Upper(c) \in {73, 76} }
Digit(c) == CHOOSE d \in Digits(c) : TRUE
Total(weights, n) ==
  LET sum[i \in 0 .. n] == IF i = 0 THEN 0 ELSE sum[i - 1] + weights[i] IN sum[n]

WellFormed(t, text) ==
  /\ Len(text) = base32_size(SIZE[t])
  /\ \A i \in DOMAIN text : Digits(text[i]) # {}
\* The number written, less the bits above the integer's.
Number(t, text) ==
  Total([i \in DOMAIN text |-> Digit(text[i]) * 2^(5 * (Len(text) - i))], Len(text)) % 2^(8 * SIZE[t])

Valid(t, raw) == IF is_valid(t, raw) THEN raw ELSE NoId

Denotes(t, f, v) ==
  CASE f = "text" -> IF WellFormed(t, v) THEN Valid(t, Number(t, v)) ELSE NoId
    [] f = "int" -> Valid(t, v)
    [] OTHER -> Unknown

-----------------------------------------------------------------------------

\* The value in form `from' becomes one in form `to', or an error.
Convert(t, from, to, Result(_)) ==
  /\ ty = t /\ form = from
  /\ LET result == Result(value)
     IN  IF result.ok
         THEN form' = to /\ value' = result.value
         ELSE form' = "error" /\ value' = [error |-> result.error, of |-> value]
  /\ UNCHANGED ty

(* Base32 *)

inner_encode_to_buf(t, id, buf) == encode_base32(to_be_bytes(id, SIZE[t]), buf)

inner_decode(t, text) ==
  IF Len(text) # base32_size(SIZE[t])
  THEN Err([is |-> "DecodeInvalidLen", len |-> Len(text)])
  ELSE decode_base32(text, SIZE[t])

DecodeOverflow(id) == [is |-> "DecodeOverflow", id |-> id]
\* A decoded id, if it is valid.
Checked(t, r) == IF r.ok /\ ~ is_valid(t, r.value) THEN Err(DecodeOverflow(r.value)) ELSE r

snow_decode(text) == Checked("snowflake", inner_decode("snowflake", text))
ulid_decode(text) == Checked("ulid", inner_decode("ulid", text))

\* A buffer of the right size that holds c everywhere.
Filled(t, c) == [i \in 1 .. base32_size(SIZE[t]) |-> c]

\* The two formatters of each type: one owns its buffer, zeroed before the
\* encoding, one writes into a buffer lent by the caller.
Base32SnowFormatter(id) == inner_encode_to_buf("snowflake", id, Filled("snowflake", 0))
Base32UlidFormatter(id) == inner_encode_to_buf("ulid", id, Filled("ulid", 0))
Base32SnowFormatterRef(id, buf) == inner_encode_to_buf("snowflake", id, buf)
Base32UlidFormatterRef(id, buf) == inner_encode_to_buf("ulid", id, buf)

\* The traits by which a formatter is printed, hashed, copied to a String,
\* dereferenced and borrowed: all see as_str, the buffer taken for a str
\* unchecked.
snow_formatter_str(buf) == Ok(buf)
ulid_formatter_str(buf) == Ok(buf)
snow_formatter_ref_str(buf) == Ok(buf)
ulid_formatter_ref_str(buf) == Ok(buf)

\* PartialEq with str and String, of the formatters and of the ids.
snow_formatter_eq(buf, text) == snow_formatter_str(buf) = Ok(text)
ulid_formatter_eq(buf, text) == ulid_formatter_str(buf) = Ok(text)
snow_formatter_ref_eq(buf, text) == snow_formatter_ref_str(buf) = Ok(text)
ulid_formatter_ref_eq(buf, text) == ulid_formatter_ref_str(buf) = Ok(text)
snow_eq(id, text) == snow_decode(text) = Ok(id)
ulid_eq(id, text) == ulid_decode(text) = Ok(id)

SnowEncode ==
  /\ Convert("snowflake", "id", "formatter", LAMBDA id : Ok(Base32SnowFormatter(id)))
  /\ UNCHANGED meaning
SnowEncodeToBuf ==
  /\ \E c \in Junk :
       Convert("snowflake", "id", "formatter ref",
               LAMBDA id : Ok(Base32SnowFormatterRef(id, Filled("snowflake", c))))
  /\ UNCHANGED meaning
SnowShow ==
  /\ \/ Convert("snowflake", "formatter", "text", snow_formatter_str)
     \/ Convert("snowflake", "formatter ref", "text", snow_formatter_ref_str)
  /\ UNCHANGED meaning
SnowToString ==
  /\ Convert("snowflake", "id", "text",
             LAMBDA id : snow_formatter_str(Base32SnowFormatter(id)))
  /\ UNCHANGED meaning
SnowParse == Convert("snowflake", "text", "id", snow_decode) /\ UNCHANGED meaning

UlidEncode ==
  /\ Convert("ulid", "id", "formatter", LAMBDA id : Ok(Base32UlidFormatter(id)))
  /\ UNCHANGED meaning
UlidEncodeToBuf ==
  /\ \E c \in Junk :
       Convert("ulid", "id", "formatter ref",
               LAMBDA id : Ok(Base32UlidFormatterRef(id, Filled("ulid", c))))
  /\ UNCHANGED meaning
UlidShow ==
  /\ \/ Convert("ulid", "formatter", "text", ulid_formatter_str)
     \/ Convert("ulid", "formatter ref", "text", ulid_formatter_ref_str)
  /\ UNCHANGED meaning
UlidToString ==
  /\ Convert("ulid", "id", "text",
             LAMBDA id : ulid_formatter_str(Base32UlidFormatter(id)))
  /\ UNCHANGED meaning
UlidParse == Convert("ulid", "text", "id", ulid_decode) /\ UNCHANGED meaning

\* What a caller may do with the id a DecodeOverflow carries.
IntoValid ==
  /\ form = "error" /\ value.error.is = "DecodeOverflow"
  /\ form' = "id" /\ value' = into_valid(ty, value.error.id)
  /\ meaning' = into_valid(ty, value.error.id)
  /\ UNCHANGED ty

(* Serde.  The formats are the caller's; a string or an integer goes through. *)

snow_as_int_serialize == Convert("snowflake", "id", "int", Ok) /\ UNCHANGED meaning
snow_as_int_deserialize ==
  /\ Convert("snowflake", "int", "id", LAMBDA n : Checked("snowflake", Ok(n)))
  /\ UNCHANGED meaning
snow_as_base32_serialize ==
  /\ Convert("snowflake", "id", "string",
             LAMBDA id : snow_formatter_str(Base32SnowFormatter(id)))
  /\ UNCHANGED meaning
snow_as_base32_deserialize ==
  Convert("snowflake", "string", "id", snow_decode) /\ UNCHANGED meaning

ulid_as_int_serialize == Convert("ulid", "id", "int", Ok) /\ UNCHANGED meaning
ulid_as_int_deserialize ==
  /\ Convert("ulid", "int", "id", LAMBDA n : Checked("ulid", Ok(n)))
  /\ UNCHANGED meaning
ulid_as_base32_serialize ==
  /\ Convert("ulid", "id", "string",
             LAMBDA id : ulid_formatter_str(Base32UlidFormatter(id)))
  /\ UNCHANGED meaning
ulid_as_base32_deserialize ==
  Convert("ulid", "string", "id", ulid_decode) /\ UNCHANGED meaning

(* Timestamps and SystemTimes *)

ToTimestamp ==
  /\ Convert("ulid", "id", "timestamp", LAMBDA id : Ok(timestamp(id)))
  /\ meaning' = from_components(timestamp(meaning), 0)
FromTimestamp ==
  \E rand \in Randoms :
    /\ Convert("ulid", "timestamp", "id",
               LAMBDA ts : Ok(from_timestamp_and_rand(ts, rand)))
    /\ meaning' = meaning + random(rand)

ToDatetime ==
  /\ Convert("ulid", "id", "time", LAMBDA id : Ok(datetime(id) * MICROS_PER_MS))
  /\ meaning' = from_components(timestamp(meaning), 0)
\* At any moment of the millisecond.
FromDatetime ==
  \E rand \in Randoms, micros \in 0 .. MICROS_PER_MS - 1 :
    LET id == from_datetime_and_rand((value + micros) \div MICROS_PER_MS, rand)
    IN  /\ Convert("ulid", "time", "id", LAMBDA time : Ok(id))
        /\ meaning' = IF meaning = Unknown THEN id ELSE meaning + random(rand)

FormsInit ==
  /\ ty \in Types
  /\ \/ form = "text" /\ value \in Texts[ty]
     \/ form = "int" /\ value \in Raws[ty]
     \/ form = "time" /\ ty = "ulid" /\ value \in Times
  /\ meaning = Denotes(ty, form, value)

FormsStep ==
  \/ SnowEncode \/ SnowEncodeToBuf \/ SnowShow \/ SnowToString \/ SnowParse
  \/ UlidEncode \/ UlidEncodeToBuf \/ UlidShow \/ UlidToString \/ UlidParse
  \/ IntoValid
  \/ snow_as_int_serialize \/ snow_as_int_deserialize
  \/ snow_as_base32_serialize \/ snow_as_base32_deserialize
  \/ ulid_as_int_serialize \/ ulid_as_int_deserialize
  \/ ulid_as_base32_serialize \/ ulid_as_base32_deserialize
  \/ ToTimestamp \/ FromTimestamp \/ ToDatetime \/ FromDatetime

-----------------------------------------------------------------------------

\* Whatever road an id takes, through a lent buffer that was used before, a
\* text in the other case or with aliases or a superfluous top bit, an integer
\* or a string of serde: when it is an id again it is the one it was.
MeaningKept == form = "id" => value = meaning

\* An id is refused just when it denotes none, and the error says what is
\* wrong first: the length, then the first invalid byte, then reserved bits.
ErrorsAreRight ==
  form = "error" =>
    LET e == value.error
        v == value.of
    IN  /\ meaning = NoId
        /\ e.is = "DecodeInvalidLen" => e.len = Len(v) /\ e.len # base32_size(SIZE[ty])
        /\ e.is = "DecodeInvalidAscii" =>
             /\ Len(v) = base32_size(SIZE[ty])
             /\ Digits(v[e.index + 1]) = {} /\ e.byte = v[e.index + 1]
             /\ \A i \in 1 .. e.index : Digits(v[i]) # {}
        /\ e.is = "DecodeOverflow" => ~ is_valid(ty, e.id)

eq(id, text) == IF ty = "ulid" THEN ulid_eq(id, text) ELSE snow_eq(id, text)
formatter(id) == IF ty = "ulid" THEN Base32UlidFormatter(id) ELSE Base32SnowFormatter(id)
formatter_eq(buf, text) ==
  IF ty = "ulid" THEN ulid_formatter_eq(buf, text) /\ ulid_formatter_ref_eq(buf, text)
                 ELSE snow_formatter_eq(buf, text) /\ snow_formatter_ref_eq(buf, text)

\* Many texts equal an id, its formatter equals just one of them: the one in
\* upper case without aliases and with no bit above the integer's.
OneCanonicalText ==
  form = "text" /\ meaning # NoId =>
    LET spare == 5 * base32_size(SIZE[ty]) - 8 * SIZE[ty]
    IN  /\ eq(meaning, value)
        /\ formatter_eq(formatter(meaning), value) <=>
             /\ \A i \in DOMAIN value : \E d \in 1 .. 32 : ENCODE_LUT[d] = value[i]
             /\ Digit(value[1]) < 2^(5 - spare)

\* "`self.buf` holds only valid Crockford Base32 ASCII characters"
\* (base32/snowflake.rs:235): every byte of a buffer that as_str takes for
\* UTF-8 was written by the encoder, whatever a lent buffer held before.
BufferIsText ==
  form \in {"formatter", "formatter ref"} =>
    \A i \in DOMAIN value : \E d \in 1 .. 32 : ENCODE_LUT[d] = value[i]

LexLess(s, t) ==
  \E i \in DOMAIN s : s[i] < t[i] /\ \A j \in 1 .. i - 1 : s[j] = t[j]

\* Texts, and the bytes by which Postgres sorts, are in the order of the ids:
\* each id's come before those of the next id.
OrderPreserved ==
  form = "id" /\ is_valid(ty, value + 1) =>
    /\ LexLess(formatter(value), formatter(value + 1))
    /\ LexLess(to_be_bytes(value, SIZE[ty]), to_be_bytes(value + 1, SIZE[ty]))
=============================================================================
