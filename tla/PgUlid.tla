------------------------------- MODULE PgUlid -------------------------------
(***************************************************************************)
(* The Postgres extension (pg-ferroid/src/lib.rs).  In form "ulid" an id   *)
(* is the struct ULID, the big-endian bytes of the raw integer, by which   *)
(* Postgres compares and indexes it; "datum" is its storage, "bytea" a     *)
(* bytea value or a binary message.  A timestamptz counts microseconds     *)
(* from the Postgres epoch; its least and greatest i64 are the infinities. *)
(***************************************************************************)
EXTENDS IdForms

CONSTANTS
  Messages,         \* bytea values and binary messages that may arrive
  PgTimes,          \* timestamptz values that may arrive
  PgRange,          \* what TimestampWithTimeZone::try_from accepts
  PG_EPOCH_OFFSET_MICROS,
  I64_MAX

ASSUME PgAssumption ==
  /\ PG_EPOCH_OFFSET_MICROS \in Nat /\ I64_MAX \in Nat
  /\ PgTimes \subseteq -I64_MAX - 1 .. I64_MAX
  /\ PgRange \subseteq PgTimes
  /\ Messages \subseteq Seq(Bytes)
  /\ (TIMESTAMP_MASK + 1) * MICROS_PER_MS <= I64_MAX
  /\ \A ts \in 0 .. TIMESTAMP_MASK : ts * MICROS_PER_MS - PG_EPOCH_OFFSET_MICROS \in PgRange

BigEndian(bytes) ==
  Total([i \in DOMAIN bytes |-> bytes[i] * 2^(8 * (Len(bytes) - i))], Len(bytes))

\* The datum of an SQL NULL.
Null == << >>

\* gen_ulid and gen_ulid_mono: an id that a thread's generator has made.
gen_ulid ==
  /\ ty = "ulid" /\ form = "id"
  /\ \E ts \in 0 .. TIMESTAMP_MASK, rand \in Randoms : value = from_components(ts, rand)
  /\ meaning = value

Init ==
  \/ FormsInit
  \/ gen_ulid
  \/ ty = "ulid" /\ form = "datum" /\ value = Null /\ meaning = NoId
  \/ /\ ty = "ulid" /\ form = "bytea" /\ value \in Messages
     /\ meaning = IF Len(value) = SIZE[ty] THEN BigEndian(value) ELSE NoId
  \/ ty = "ulid" /\ form = "timestamptz" /\ value \in PgTimes /\ meaning = Unknown

-----------------------------------------------------------------------------

from_inner(id) == Ok(to_be_bytes(id, SIZE["ulid"]))
to_inner(ulid) == Ok(from_be_bytes(ulid))

FromInner == Convert("ulid", "id", "ulid", from_inner) /\ UNCHANGED meaning
ToInner == Convert("ulid", "ulid", "id", to_inner) /\ UNCHANGED meaning

into_datum(ulid) == Ok(ulid)
from_polymorphic_datum(datum) == IF datum = Null THEN Err([is |-> "None"]) ELSE Ok(datum)

IntoDatum == Convert("ulid", "ulid", "datum", into_datum) /\ UNCHANGED meaning
FromDatum == Convert("ulid", "datum", "ulid", from_polymorphic_datum) /\ UNCHANGED meaning

\* Arguments and results of the extension's functions.
unbox_arg_unchecked ==
  /\ Convert("ulid", "datum", "ulid", LAMBDA datum :
       LET r == from_polymorphic_datum(datum)
       IN  IF r.ok THEN r ELSE Err([is |-> "ULID argument must not be NULL"]))
  /\ UNCHANGED meaning
box_into == Convert("ulid", "ulid", "datum", into_datum) /\ UNCHANGED meaning

\* A ULID from text, by ulid_in and by the cast.
Parsed(text) == LET r == ulid_decode(text) IN IF r.ok THEN from_inner(r.value) ELSE r

\* Text of Postgres holds no NUL.
NoNul(text) == \A i \in DOMAIN text : text[i] # 0

ulid_in ==
  form = "text" /\ NoNul(value) /\ Convert("ulid", "text", "ulid", Parsed) /\ UNCHANGED meaning
text_to_ulid ==
  form = "text" /\ NoNul(value) /\ Convert("ulid", "text", "ulid", Parsed) /\ UNCHANGED meaning

Shown(ulid) == Ok(Base32UlidFormatter(from_be_bytes(ulid)))

ulid_out == Convert("ulid", "ulid", "text", Shown) /\ UNCHANGED meaning
ulid_to_text == Convert("ulid", "ulid", "text", Shown) /\ UNCHANGED meaning

ulid_to_bytea == Convert("ulid", "ulid", "bytea", Ok) /\ UNCHANGED meaning
ulid_send == ulid_to_bytea

bytea_to_ulid ==
  /\ Convert("ulid", "bytea", "ulid", LAMBDA bytes :
       IF Len(bytes) = SIZE["ulid"] THEN Ok(bytes) ELSE Err([is |-> "bytea length"]))
  /\ UNCHANGED meaning

\* pq_getmsgbytes refuses a message that is too short; mutant: pq_getmsgend
\* is not called
ulid_recv_open ==
  /\ Convert("ulid", "bytea", "ulid", LAMBDA buf :
       IF Len(buf) < SIZE["ulid"] THEN Err([is |-> "insufficient data"])
       ELSE Ok(SubSeq(buf, 1, SIZE["ulid"])))
  /\ UNCHANGED meaning
\* ... and pq_getmsgend one that is too long.
ulid_recv ==
  /\ Convert("ulid", "bytea", "ulid", LAMBDA buf :
       IF Len(buf) < SIZE["ulid"] THEN Err([is |-> "insufficient data"])
       ELSE IF Len(buf) > SIZE["ulid"] THEN Err([is |-> "trailing data"])
       ELSE Ok(SubSeq(buf, 1, SIZE["ulid"])))
  /\ UNCHANGED meaning

\* i64 arithmetic that reports overflow.
Fits(x) == x \in -I64_MAX - 1 .. I64_MAX

ulid_to_timestamptz(ulid) ==
  LET unix_micros == timestamp(from_be_bytes(ulid)) * MICROS_PER_MS
      pg_micros == unix_micros - PG_EPOCH_OFFSET_MICROS
  IN  IF ~ Fits(unix_micros) THEN Err([is |-> "ULID timestamp overflow"])
      ELSE IF ~ Fits(pg_micros) THEN Err([is |-> "timestamp underflow"])
      ELSE IF pg_micros \notin PgRange THEN Err([is |-> "timestamp out of range"])
      ELSE Ok(pg_micros)

\* checked_div truncates toward zero.
Trunc(micros) ==
  IF micros >= 0 THEN micros \div MICROS_PER_MS ELSE -((-micros) \div MICROS_PER_MS)

\* mutant: rounds to the nearest millisecond
timestamptz_to_ulid_rounded(ts) ==
  LET unix_micros == ts + PG_EPOCH_OFFSET_MICROS
  IN  IF ~ Fits(unix_micros) THEN Err([is |-> "timestamp overflow"])
      ELSE IF Trunc(unix_micros) < 0 THEN Err([is |-> "timestamp before Unix epoch"])
      ELSE from_inner(from_components((unix_micros + MICROS_PER_MS \div 2)
                                      \div MICROS_PER_MS, 0))
\* A release build: past the 48 bits from_components masks the timestamp, where a
\* debug build fails its assertion.
timestamptz_to_ulid(ts) ==
  LET unix_micros == ts + PG_EPOCH_OFFSET_MICROS
  IN  IF ~ Fits(unix_micros) THEN Err([is |-> "timestamp overflow"])
      ELSE IF Trunc(unix_micros) < 0 THEN Err([is |-> "timestamp before Unix epoch"])
      ELSE from_inner(from_components(Trunc(unix_micros), 0))

CastToTimestamptz ==
  /\ Convert("ulid", "ulid", "timestamptz", ulid_to_timestamptz)
  /\ meaning' = from_components(timestamp(meaning), 0)

CastFromTimestamptz ==
  /\ Convert("ulid", "timestamptz", "ulid", timestamptz_to_ulid)
  /\ meaning' = IF meaning # Unknown THEN meaning
                ELSE IF form' = "ulid" THEN BigEndian(value') ELSE NoId

ulid_is_valid(text) == ulid_decode(text).ok

Next ==
  \/ FormsStep
  \/ FromInner \/ ToInner \/ IntoDatum \/ FromDatum \/ unbox_arg_unchecked \/ box_into
  \/ ulid_in \/ text_to_ulid \/ ulid_out \/ ulid_to_text
  \/ ulid_send \/ ulid_recv \/ ulid_to_bytea \/ bytea_to_ulid
  \/ CastToTimestamptz \/ CastFromTimestamptz

Spec == Init /\ [][Next]_vars

-----------------------------------------------------------------------------

\* The errors that conversions end in; the cast from ulid to timestamptz is not
\* among them, for the time of an id fits a timestamptz.
Errors == {"DecodeInvalidLen", "DecodeInvalidAscii", "DecodeOverflow", "None",
           "ULID argument must not be NULL", "bytea length", "insufficient data",
           "trailing data", "timestamp overflow", "timestamp before Unix epoch"}

\* Each value is of its form; in particular what is taken for an id has no
\* reserved bit set.
TypeOK ==
  /\ ty \in Types /\ meaning \in Int
  /\ CASE form = "id" -> value \in Nat /\ is_valid(ty, value)
       [] form = "int" -> value \in 0 .. 2^(8 * SIZE[ty]) - 1
       [] form \in {"timestamp", "time", "timestamptz"} -> value \in Int
       [] form \in {"formatter", "formatter ref", "text", "string", "bytea"} -> value \in Seq(Bytes)
       [] form = "ulid" -> value \in [1 .. SIZE["ulid"] -> Bytes]
       [] form = "datum" -> value \in [1 .. SIZE["ulid"] -> Bytes] \cup {Null}
       [] form = "error" -> value.error.is \in Errors

\* In every one of its forms, those of Postgres included, an id is the one that
\* arrived, and ulid_is_valid tells of a text whether Postgres takes it.
PgMeaningKept ==
  /\ TypeOK /\ MeaningKept
  /\ form \in {"ulid", "datum"} /\ value # Null => BigEndian(value) = meaning
  /\ form = "text" /\ ty = "ulid" => (ulid_is_valid(value) <=> meaning # NoId)

\* A timestamptz within the ULID's 48 bits, cast to ulid, is where a scan of
\* an index on ulid must start: the ids at or after it are just those whose
\* own time, cast to timestamptz, is not before the timestamptz cut to
\* milliseconds.
ScanExact ==
  LET unix_micros == value + PG_EPOCH_OFFSET_MICROS
      bound == timestamptz_to_ulid(value)
  IN  /\ form = "timestamptz"
      /\ unix_micros \in 0 .. (TIMESTAMP_MASK + 1) * MICROS_PER_MS - 1
      => \A id \in Ulids :
           LET ulid == from_inner(id).value
               own == ulid_to_timestamptz(ulid)
           IN  /\ bound.ok /\ own.ok
               /\ LexLess(ulid, bound.value) <=> own.value < value - (unix_micros % MICROS_PER_MS)
=============================================================================
