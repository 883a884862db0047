------------------------- MODULE SnowflakeIdProofs -------------------------
(***************************************************************************)
(* What the generators need to know of the bit layout, for all field       *)
(* widths: the fields of a composed id are its components, incrementing    *)
(* and rolling over keep the machine id and yield a greater id.            *)
(***************************************************************************)
EXTENDS SnowflakeId, TLAPS

(***************************************************************************)
(* Shifts and masks are multiplication by, and division with remainder by, *)
(* a radix.                                                                *)
(***************************************************************************)

\* Division with remainder is unique: what >> and & recover from << and |.
LEMMA DivMod ==
  ASSUME NEW S \in Nat \ {0}, NEW q \in Nat, NEW s \in 0 .. S - 1
  PROVE  /\ (q * S + s) % S = s
         /\ (q * S + s) \div S = q
  OBVIOUS

\* Conversely a number is its quotient and remainder.
LEMMA DivModParts ==
  ASSUME NEW S \in Nat \ {0}, NEW n \in Nat
  PROVE  /\ n \div S \in Nat
         /\ n % S \in 0 .. S - 1
         /\ n = (n \div S) * S + (n % S)
  OBVIOUS

\* A mask leaves a value that fits as it is.
LEMMA SmallMod ==
  ASSUME NEW S \in Nat \ {0}, NEW n \in 0 .. S - 1
  PROVE  n % S = n
  OBVIOUS

\* A number with a greater quotient is greater, whatever the remainders.
LEMMA QuotientOrder ==
  ASSUME NEW S \in Nat \ {0}, NEW p \in Nat, NEW q \in Nat,
         NEW r \in 0 .. S - 1, NEW s \in 0 .. S - 1, p < q
  PROVE  p * S + r < q * S + s
  OBVIOUS

\* Two fields that fit stay within the product of their radices.
LEMMA RadixBound ==
  ASSUME NEW T \in Nat \ {0}, NEW R \in Nat \ {0},
         NEW ts \in 0 .. T - 1, NEW r \in 0 .. R - 1
  PROVE  ts * R + r \in 0 .. T * R - 1
  OBVIOUS
-----------------------------------------------------------------------------

\* Three fields of an id, as one number, in the two ways they are taken apart.
LEMMA ThreeFields ==
  ASSUME NEW M \in Nat \ {0}, NEW S \in Nat \ {0}, NEW ts \in Nat,
         NEW m \in 0 .. M - 1, NEW s \in 0 .. S - 1
  PROVE  /\ m * S + s \in 0 .. M * S - 1
         /\ M * S \in Nat \ {0}
         /\ ts * (M * S) + m * S + s = ts * (M * S) + (m * S + s)
         /\ ts * (M * S) + m * S + s = (ts * M + m) * S + s
         /\ ts * M + m \in Nat
  OBVIOUS

\* An id composed of components that fit has exactly these fields, and no
\* reserved bit: from_components and the accessors are inverse.
LEMMA Composed ==
  ASSUME NEW ts \in 0 .. TIMESTAMP_MASK, NEW m \in 0 .. MACHINE_ID_MASK,
         NEW s \in 0 .. SEQUENCE_MASK
  PROVE  /\ from_components(ts, m, s)
              = ts * 2^TIMESTAMP_SHIFT + m * 2^SEQUENCE_BITS + s
         /\ from_components(ts, m, s) \in IdsOf(m)
         /\ timestamp(from_components(ts, m, s)) = ts
         /\ machine_id(from_components(ts, m, s)) = m
         /\ sequence(from_components(ts, m, s)) = s
<1> DEFINE T == 2^TIMESTAMP_BITS
           M == 2^MACHINE_ID_BITS
           S == 2^SEQUENCE_BITS
           id == from_components(ts, m, s)
<1>1. /\ T \in Nat \ {0} /\ M \in Nat \ {0} /\ S \in Nat \ {0}
      /\ 2^TIMESTAMP_SHIFT = M * S
  BY LayoutAssumption
<1>2. /\ ts \in 0 .. T - 1 /\ m \in 0 .. M - 1 /\ s \in 0 .. S - 1
      /\ ts \in Nat
  BY <1>1 DEF TIMESTAMP_MASK, MACHINE_ID_MASK, SEQUENCE_MASK
<1> HIDE DEF T, M, S
<1>3. ts % T = ts /\ m % M = m /\ s % S = s
  BY <1>1, <1>2, SmallMod
<1>4. id = ts * (M * S) + m * S + s
  BY <1>1, <1>3 DEF from_components, T, M, S
<1>5. /\ m * S + s \in 0 .. M * S - 1 /\ M * S \in Nat \ {0}
      /\ id = ts * (M * S) + (m * S + s)
      /\ id = (ts * M + m) * S + s
      /\ ts * M + m \in Nat
  BY <1>1, <1>2, <1>4, ThreeFields
<1> HIDE DEF id
<1>6. id % S = s /\ id \div S = ts * M + m
  <2> DEFINE q == ts * M + m
  <2>1. q \in Nat /\ id = q * S + s
    BY <1>5
  <2> HIDE DEF q
  <2>2. id % S = s /\ id \div S = q
    BY <2>1, <1>1, <1>2, DivMod, Zenon
  <2> QED BY <2>2 DEF q
<1>7. id \div (M * S) = ts
  BY <1>2, <1>5, DivMod
<1>8. (ts * M + m) % M = m
  BY <1>1, <1>2, DivMod, Zenon
<1>9. id \in 0 .. T * (M * S) - 1
  BY <1>1, <1>2, <1>5, RadixBound
<1>10. timestamp(id) = ts /\ machine_id(id) = m /\ sequence(id) = s
  BY <1>1, <1>3, <1>6, <1>7, <1>8 DEF timestamp, machine_id, sequence, T, M, S
<1>11. id \in IdsOf(m)
  BY <1>1, <1>3, <1>9, <1>10 DEF IdsOf, T, M, S
<1> QED
  BY <1>1, <1>4, <1>10, <1>11 DEF id, M, S

\* Every id is composed of its own fields, and these fit their widths.
LEMMA Decomposed ==
  ASSUME NEW m \in 0 .. MACHINE_ID_MASK, NEW id \in IdsOf(m)
  PROVE  /\ timestamp(id) \in 0 .. TIMESTAMP_MASK
         /\ machine_id(id) = m
         /\ sequence(id) \in 0 .. SEQUENCE_MASK
         /\ id = timestamp(id) * 2^TIMESTAMP_SHIFT + m * 2^SEQUENCE_BITS
                   + sequence(id)
         /\ id \in Nat
<1> DEFINE T == 2^TIMESTAMP_BITS
           M == 2^MACHINE_ID_BITS
           S == 2^SEQUENCE_BITS
           q == id \div S
<1>1. /\ T \in Nat \ {0} /\ M \in Nat \ {0} /\ S \in Nat \ {0}
      /\ 2^TIMESTAMP_SHIFT = M * S /\ M * S \in Nat \ {0}
  BY LayoutAssumption
<1>2. m \in 0 .. M - 1
  BY <1>1 DEF MACHINE_ID_MASK
<1>3. id \in 0 .. T * (M * S) - 1 /\ machine_id(id) = m
  BY <1>1, <1>2, SmallMod DEF IdsOf, M
<1> HIDE DEF T, M, S
<1>4. id \in Nat /\ T * (M * S) \in Nat
  BY <1>1, <1>3
<1>5. q \in Nat /\ id % S \in 0 .. S - 1 /\ id = q * S + (id % S)
  BY <1>1, <1>4, DivModParts, Zenon
<1> HIDE DEF q
<1>6. q \div M \in Nat /\ q % M \in 0 .. M - 1 /\ q = (q \div M) * M + (q % M)
  BY <1>1, <1>5, DivModParts, Zenon
<1>7. machine_id(id) = q % M /\ sequence(id) = id % S
  BY DEF machine_id, sequence, q, M, S
<1> DEFINE ts == q \div M
           s == id % S
<1>8. /\ ts \in Nat /\ s \in 0 .. S - 1
      /\ sequence(id) = s
      /\ id = (ts * M + m) * S + s
  BY <1>3, <1>5, <1>6, <1>7
<1> HIDE DEF ts, s
<1>9. /\ m * S + s \in 0 .. M * S - 1
      /\ id = ts * (M * S) + (m * S + s)
      /\ id = ts * (M * S) + m * S + s
  BY <1>1, <1>2, <1>8, ThreeFields
<1> DEFINE R == M * S
           r == m * S + s
<1>10. R \in Nat \ {0} /\ r \in 0 .. R - 1 /\ id = ts * R + r /\ id < T * R
  BY <1>1, <1>3, <1>4, <1>9
<1> HIDE DEF R, r
<1>11. ts \in 0 .. T - 1 /\ id \div R = ts
  <2>1. T <= ts => T * R <= ts * R
    BY <1>1, <1>8, <1>10
  <2>2. id \div R = ts
    BY <1>8, <1>10, DivMod, Zenon
  <2> QED BY <2>1, <2>2, <1>1, <1>8, <1>10
<1>12. timestamp(id) = ts
  BY <1>1, <1>11, SmallMod DEF timestamp, T, R
<1> QED
  BY <1>1, <1>3, <1>4, <1>8, <1>9, <1>11, <1>12
     DEF TIMESTAMP_MASK, SEQUENCE_MASK, T, M, S

\* increment_sequence on an id with room is the next number: the timestamp
\* stays, the sequence grows by one, and the id is greater.
LEMMA Incremented ==
  ASSUME NEW m \in 0 .. MACHINE_ID_MASK, NEW id \in IdsOf(m),
         has_sequence_room(id)
  PROVE  /\ increment_sequence(id) \in IdsOf(m)
         /\ increment_sequence(id) = id + 1
         /\ timestamp(increment_sequence(id)) = timestamp(id)
         /\ sequence(increment_sequence(id)) = sequence(id) + 1
<1> DEFINE ts == timestamp(id)
           s == sequence(id)
<1>1. /\ ts \in 0 .. TIMESTAMP_MASK /\ machine_id(id) = m
      /\ s \in 0 .. SEQUENCE_MASK /\ id \in Nat
      /\ id = ts * 2^TIMESTAMP_SHIFT + m * 2^SEQUENCE_BITS + s
  BY Decomposed
<1>2. s + 1 \in 0 .. SEQUENCE_MASK
  BY <1>1, LayoutAssumption DEF has_sequence_room, SEQUENCE_MASK
<1>3. increment_sequence(id) = from_components(ts, m, s + 1)
  BY <1>1 DEF increment_sequence, next_sequence
<1> HIDE DEF ts, s
<1>4. /\ from_components(ts, m, s + 1)
           = ts * 2^TIMESTAMP_SHIFT + m * 2^SEQUENCE_BITS + (s + 1)
      /\ from_components(ts, m, s + 1) \in IdsOf(m)
      /\ timestamp(from_components(ts, m, s + 1)) = ts
      /\ sequence(from_components(ts, m, s + 1)) = s + 1
  BY <1>1, <1>2, Composed
<1>5. ts * 2^TIMESTAMP_SHIFT + m * 2^SEQUENCE_BITS \in Nat
  BY <1>1, LayoutAssumption DEF TIMESTAMP_MASK, MACHINE_ID_MASK
<1>6. from_components(ts, m, s + 1) = id + 1
  BY <1>1, <1>4, <1>5, LayoutAssumption DEF SEQUENCE_MASK
<1> QED
  BY <1>3, <1>4, <1>6 DEF ts, s

\* rollover_to_timestamp to a later tick that fits yields a greater id of the
\* same machine, at the start of the sequence, even if the old id had used
\* its sequence up.
LEMMA RolledOver ==
  ASSUME NEW m \in 0 .. MACHINE_ID_MASK, NEW id \in IdsOf(m),
         NEW ts \in 0 .. TIMESTAMP_MASK, timestamp(id) < ts
  PROVE  /\ rollover_to_timestamp(id, ts) \in IdsOf(m)
         /\ rollover_to_timestamp(id, ts) > id
         /\ timestamp(rollover_to_timestamp(id, ts)) = ts
         /\ sequence(rollover_to_timestamp(id, ts)) = 0
<1> DEFINE p == timestamp(id)
           s == sequence(id)
           M == 2^MACHINE_ID_BITS
           S == 2^SEQUENCE_BITS
<1>1. /\ p \in 0 .. TIMESTAMP_MASK /\ machine_id(id) = m
      /\ s \in 0 .. SEQUENCE_MASK /\ id \in Nat
      /\ id = p * 2^TIMESTAMP_SHIFT + m * S + s
  BY Decomposed
<1>2. 0 \in 0 .. SEQUENCE_MASK
  BY LayoutAssumption DEF SEQUENCE_MASK
<1>3. rollover_to_timestamp(id, ts) = from_components(ts, m, 0)
  BY <1>1 DEF rollover_to_timestamp
<1>4. /\ from_components(ts, m, 0) = ts * 2^TIMESTAMP_SHIFT + m * S + 0
      /\ from_components(ts, m, 0) \in IdsOf(m)
      /\ timestamp(from_components(ts, m, 0)) = ts
      /\ sequence(from_components(ts, m, 0)) = 0
  BY <1>2, Composed
<1>5. from_components(ts, m, 0) > id
  <2>1. /\ M \in Nat \ {0} /\ S \in Nat \ {0} /\ 2^TIMESTAMP_SHIFT = M * S
        /\ m \in 0 .. M - 1 /\ s \in 0 .. S - 1 /\ 0 \in 0 .. S - 1
        /\ p \in Nat /\ ts \in Nat /\ p < ts
    BY <1>1, LayoutAssumption
       DEF TIMESTAMP_MASK, MACHINE_ID_MASK, SEQUENCE_MASK
  <2> HIDE DEF p, s, M, S
  <2>2. /\ M * S \in Nat \ {0}
        /\ m * S + s \in 0 .. M * S - 1
        /\ p * (M * S) + m * S + s = p * (M * S) + (m * S + s)
    BY <2>1, ThreeFields
  <2>3. /\ m * S + 0 \in 0 .. M * S - 1
        /\ ts * (M * S) + m * S + 0 = ts * (M * S) + (m * S + 0)
    BY <2>1, ThreeFields
  <2>4. p * (M * S) + (m * S + s) < ts * (M * S) + (m * S + 0)
    BY <2>1, <2>2, <2>3, QuotientOrder
  <2> QED BY <2>1, <2>2, <2>3, <2>4, <1>1, <1>4
<1> QED
  BY <1>3, <1>4, <1>5

\* In a release build a timestamp that does not fit is masked: the id stays
\* one of the same machine without reserved bits (but may not be greater).
LEMMA RolledOverMasked ==
  ASSUME NEW m \in 0 .. MACHINE_ID_MASK, NEW id \in IdsOf(m), NEW ts \in Nat
  PROVE  rollover_to_timestamp(id, ts) \in IdsOf(m)
<1> DEFINE T == 2^TIMESTAMP_BITS
<1>1. T \in Nat \ {0} /\ 0 \in 0 .. SEQUENCE_MASK
  BY LayoutAssumption DEF SEQUENCE_MASK
<1>2. ts % T \in 0 .. T - 1
  BY <1>1, DivModParts, Zenon
<1>3. (ts % T) % T = ts % T
  BY <1>1, <1>2, SmallMod
<1>4. from_components(ts, m, 0) = from_components(ts % T, m, 0)
  BY <1>3 DEF from_components
<1>5. from_components(ts % T, m, 0) \in IdsOf(m)
  BY <1>1, <1>2, Composed DEF TIMESTAMP_MASK
<1> QED
  BY <1>4, <1>5, Decomposed DEF rollover_to_timestamp

\* The seed of a constructor: an id of the generator's machine.
LEMMA Seeded ==
  ASSUME NEW m \in 0 .. MACHINE_ID_MASK,
         NEW seed \in (0 .. TIMESTAMP_MASK) \X (0 .. SEQUENCE_MASK)
  PROVE  from_components(seed[1], m, seed[2]) \in IdsOf(m)
  BY Composed
=============================================================================
