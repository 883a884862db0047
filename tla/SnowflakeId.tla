---------------------------- MODULE SnowflakeId ----------------------------
(***************************************************************************)
(* The bit layout that define_snowflake_id! gives an id, and the defaults  *)
(* of the SnowflakeId trait (crates/ferroid/src/id/snowflake.rs).          *)
(*                                                                         *)
(* An id is its raw integer, as in the code: from_raw and to_raw only wrap *)
(* and unwrap it, ids are compared as integers.  From the most to the      *)
(* least significant bit it holds reserved bits, always zero, then the     *)
(* timestamp, the machine id and the sequence.  x >> n is x \div 2^n,      *)
(* x << n is x * 2^n, x & (2^n - 1) is x % 2^n, and | of disjoint fields   *)
(* is +.                                                                   *)
(***************************************************************************)
EXTENDS Integers

CONSTANTS TIMESTAMP_BITS, MACHINE_ID_BITS, SEQUENCE_BITS

SEQUENCE_MASK == 2^SEQUENCE_BITS - 1
MACHINE_ID_MASK == 2^MACHINE_ID_BITS - 1
TIMESTAMP_MASK == 2^TIMESTAMP_BITS - 1
TIMESTAMP_SHIFT == SEQUENCE_BITS + MACHINE_ID_BITS

(***************************************************************************)
(* Field widths are natural numbers.  The remaining conjuncts are facts    *)
(* about exponentiation that hold for every such width; they are written   *)
(* out because the provers treat 2^n as an unknown function.               *)
(***************************************************************************)
ASSUME LayoutAssumption ==
  /\ TIMESTAMP_BITS \in Nat /\ MACHINE_ID_BITS \in Nat /\ SEQUENCE_BITS \in Nat
  /\ 2^TIMESTAMP_BITS \in Nat \ {0}
  /\ 2^MACHINE_ID_BITS \in Nat \ {0}
  /\ 2^SEQUENCE_BITS \in Nat \ {0}
  /\ 2^TIMESTAMP_SHIFT = 2^MACHINE_ID_BITS * 2^SEQUENCE_BITS

\* The layouts that the crate defines, all of a u64: the widths of the
\* reserved bits, the timestamp, the machine id and the sequence.
Layouts ==
  [SnowflakeTwitterId   |-> <<1, 41, 10, 12>>,
   SnowflakeDiscordId   |-> <<0, 42, 10, 12>>,
   SnowflakeMastodonId  |-> <<0, 48, 0, 16>>,
   SnowflakeInstagramId |-> <<0, 41, 13, 10>>]

\* The macro's compile-time assertion: no layout leaves a bit over.
LayoutFills(bits, w) == bits[1] + bits[2] + bits[3] + bits[4] = w

ASSUME LayoutsFill == \A name \in DOMAIN Layouts : LayoutFills(Layouts[name], 64)

-----------------------------------------------------------------------------

\* Release builds mask every field; the debug_assert!s are FieldOverflow.
from_components(ts, machine, seq) ==
    (ts % 2^TIMESTAMP_BITS) * 2^TIMESTAMP_SHIFT
  + (machine % 2^MACHINE_ID_BITS) * 2^SEQUENCE_BITS
  + (seq % 2^SEQUENCE_BITS)

\* The condition under which a debug build panics in from_components.
FieldOverflow(ts, machine, seq) ==
  \/ ts > TIMESTAMP_MASK
  \/ machine > MACHINE_ID_MASK
  \/ seq > SEQUENCE_MASK

timestamp(id) == (id \div 2^TIMESTAMP_SHIFT) % 2^TIMESTAMP_BITS

machine_id(id) == (id \div 2^SEQUENCE_BITS) % 2^MACHINE_ID_BITS

sequence(id) == id % 2^SEQUENCE_BITS

has_sequence_room_inclusive(id) == sequence(id) <= SEQUENCE_MASK  \* mutant
has_sequence_room(id) == sequence(id) < SEQUENCE_MASK

next_sequence(id) == sequence(id) + 1

increment_sequence(id) ==
  from_components(timestamp(id), machine_id(id), next_sequence(id))

\* mutant: the sequence is carried over into the new tick
rollover_keeping_sequence(id, ts) ==
  from_components(ts, machine_id(id), sequence(id))
rollover_to_timestamp(id, ts) == from_components(ts, machine_id(id), 0)

\* The raw values with no reserved bit set and the given machine id.
IdsOf(machine) ==
  { id \in 0 .. 2^TIMESTAMP_BITS * 2^TIMESTAMP_SHIFT - 1 :
      machine_id(id) = machine % 2^MACHINE_ID_BITS }
=============================================================================
