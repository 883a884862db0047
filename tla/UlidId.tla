------------------------------- MODULE UlidId -------------------------------
(***************************************************************************)
(* The bit layout that define_ulid! gives an id, the defaults of the       *)
(* UlidId trait and the constructors from a time (id/ulid.rs).  An id is   *)
(* its raw integer, as in the code: a timestamp above a random field, no   *)
(* reserved bit.  A SystemTime is a number of milliseconds relative to the *)
(* Unix epoch, negative before it.                                         *)
(***************************************************************************)
EXTENDS Integers

CONSTANTS TIMESTAMP_BITS, RANDOM_BITS

TIMESTAMP_MASK == 2^TIMESTAMP_BITS - 1
RANDOM_MASK == 2^RANDOM_BITS - 1

(* As in SnowflakeId: the provers treat 2^n as an unknown function. *)
ASSUME UlidLayoutAssumption ==
  /\ TIMESTAMP_BITS \in Nat /\ RANDOM_BITS \in Nat
  /\ 2^TIMESTAMP_BITS \in Nat \ {0}
  /\ 2^RANDOM_BITS \in Nat \ {0}

\* The layout of ULID, in a u128: reserved bits, timestamp, random; and the
\* macro's compile-time assertion.
ULID == <<0, 48, 80>>
LayoutFills(bits, w) == bits[1] + bits[2] + bits[3] = w

ASSUME UlidLayoutFills == LayoutFills(ULID, 128)

-----------------------------------------------------------------------------

\* mutant: the random field is or'ed in without its mask
from_components_unmasked(ts, rand) == (ts % 2^TIMESTAMP_BITS) * 2^RANDOM_BITS + rand
\* Release builds mask both fields; random sources fill more bits than fit.
from_components(ts, rand) ==
  (ts % 2^TIMESTAMP_BITS) * 2^RANDOM_BITS + (rand % 2^RANDOM_BITS)

timestamp(id) == (id \div 2^RANDOM_BITS) % 2^TIMESTAMP_BITS

random(id) == id % 2^RANDOM_BITS

has_random_room_inclusive(id) == random(id) <= RANDOM_MASK  \* mutant
has_random_room(id) == random(id) < RANDOM_MASK

next_random(id) == random(id) + 1

increment_random(id) == from_components(timestamp(id), next_random(id))

rollover_to_timestamp(id, ts, rand) == from_components(ts, rand)

from_timestamp_and_rand(ts, rand) == from_components(ts, rand)

\* from_datetime and now: a time before the epoch counts as the epoch.
from_datetime_and_rand(datetime, rand) ==
  from_components(IF datetime < 0 THEN 0 ELSE datetime, rand)

datetime(id) == timestamp(id)

Ulids == 0 .. 2^TIMESTAMP_BITS * 2^RANDOM_BITS - 1
=============================================================================
