------------------------ MODULE UlidGeneratorsProofs ------------------------
(***************************************************************************)
(* The safety of the ULID generators for any number of threads, any field  *)
(* widths, any random source and each kind of generator.                   *)
(***************************************************************************)
EXTENDS UlidGenerators, TLAPS

(***************************************************************************)
(* Shifts and masks are multiplication by, and division with remainder by, *)
(* a radix.                                                                *)
(***************************************************************************)

\* Division with remainder is unique: what >> and & recover from << and |.
LEMMA DivMod ==
  ASSUME NEW S \in Nat \ {0}, NEW q \in Nat, NEW s \in 0 .. S - 1
  PROVE  /\ (q * S + s) % S = s
         /\ (q * S + s) \div S = q
  OBVIOUS

\* Conversely a number is its quotient and remainder.
LEMMA DivModParts ==
  ASSUME NEW S \in Nat \ {0}, NEW n \in Nat
  PROVE  /\ n \div S \in Nat
         /\ n % S \in 0 .. S - 1
         /\ n = (n \div S) * S + (n % S)
  OBVIOUS

\* A mask leaves a value that fits as it is.
LEMMA SmallMod ==
  ASSUME NEW S \in Nat \ {0}, NEW n \in 0 .. S - 1
  PROVE  n % S = n
  OBVIOUS

\* A number with a greater quotient is greater, whatever the remainders.
LEMMA QuotientOrder ==
  ASSUME NEW S \in Nat \ {0}, NEW p \in Nat, NEW q \in Nat,
         NEW r \in 0 .. S - 1, NEW s \in 0 .. S - 1, p < q
  PROVE  p * S + r < q * S + s
  OBVIOUS

\* Two fields that fit stay within the product of their radices.
LEMMA RadixBound ==
  ASSUME NEW T \in Nat \ {0}, NEW R \in Nat \ {0},
         NEW ts \in 0 .. T - 1, NEW r \in 0 .. R - 1
  PROVE  ts * R + r \in 0 .. T * R - 1
  OBVIOUS

\* Within the product of two radices the quotient by one is below the other.
LEMMA QuotientBound ==
  ASSUME NEW T \in Nat \ {0}, NEW R \in Nat \ {0}, NEW q \in Nat,
         NEW r \in 0 .. R - 1, q * R + r < T * R
  PROVE  q \in 0 .. T - 1
<1>1. T <= q => T * R <= q * R
  OBVIOUS
<1>2. q * R \in Nat /\ T * R \in Nat
  OBVIOUS
<1> QED BY <1>1, <1>2
-----------------------------------------------------------------------------

\* An id has the timestamp it is composed of and what fits of the random
\* value, whatever the random source has filled in above.
LEMMA Composed ==
  ASSUME NEW ts \in 0 .. TIMESTAMP_MASK, NEW rand \in Nat
  PROVE  /\ from_components(ts, rand) = ts * 2^RANDOM_BITS + (rand % 2^RANDOM_BITS)
         /\ from_components(ts, rand) \in Ulids
         /\ timestamp(from_components(ts, rand)) = ts
         /\ random(from_components(ts, rand)) = rand % 2^RANDOM_BITS
<1> DEFINE T == 2^TIMESTAMP_BITS
           R == 2^RANDOM_BITS
           r == rand % R
           id == from_components(ts, rand)
<1>1. T \in Nat \ {0} /\ R \in Nat \ {0}
  BY UlidLayoutAssumption
<1>2. ts \in 0 .. T - 1 /\ ts \in Nat
  BY <1>1 DEF TIMESTAMP_MASK
<1> HIDE DEF T, R
<1>3. r \in 0 .. R - 1
  BY <1>1, DivModParts
<1>4. ts % T = ts
  BY <1>1, <1>2, SmallMod
<1>5. id = ts * R + r
  BY <1>4 DEF from_components, T, R
<1> HIDE DEF r, id
<1>6. id % R = r /\ id \div R = ts
  BY <1>1, <1>2, <1>3, <1>5, DivMod
<1>7. id \in 0 .. T * R - 1
  BY <1>1, <1>2, <1>3, <1>5, RadixBound
<1>8. timestamp(id) = ts /\ random(id) = r /\ id \in Ulids
  BY <1>4, <1>6, <1>7 DEF timestamp, random, Ulids, T, R
<1> QED
  BY <1>5, <1>8 DEF id, r, R

\* Every ULID is its timestamp and its random field.
LEMMA Decomposed ==
  ASSUME NEW id \in Ulids
  PROVE  /\ id \in Nat
         /\ timestamp(id) \in 0 .. TIMESTAMP_MASK
         /\ random(id) \in 0 .. RANDOM_MASK
         /\ id = timestamp(id) * 2^RANDOM_BITS + random(id)
<1> DEFINE T == 2^TIMESTAMP_BITS
           R == 2^RANDOM_BITS
           q == id \div R
           r == id % R
<1>1. T \in Nat \ {0} /\ R \in Nat \ {0} /\ id \in 0 .. T * R - 1
  BY UlidLayoutAssumption DEF Ulids
<1> HIDE DEF T, R
<1>2. id \in Nat /\ T * R \in Nat /\ id < T * R
  BY <1>1
<1>3. q \in Nat /\ r \in 0 .. R - 1 /\ id = q * R + r
  BY <1>1, <1>2, DivModParts, Zenon
<1> HIDE DEF q, r
<1>4. q \in 0 .. T - 1
  BY <1>1, <1>2, <1>3, QuotientBound
<1>5. q % T = q
  BY <1>1, <1>4, SmallMod
<1>6. timestamp(id) = q /\ random(id) = r
  BY <1>5 DEF timestamp, random, q, r, T, R
<1> QED
  BY <1>1, <1>2, <1>3, <1>4, <1>6 DEF TIMESTAMP_MASK, RANDOM_MASK, T, R

\* increment_random on an id with room is the next number, in the same tick.
LEMMA Incremented ==
  ASSUME NEW id \in Ulids, has_random_room(id)
  PROVE  /\ increment_random(id) \in Ulids
         /\ increment_random(id) = id + 1
         /\ timestamp(increment_random(id)) = timestamp(id)
<1> DEFINE ts == timestamp(id)
           r == random(id)
           R == 2^RANDOM_BITS
<1>1. /\ id \in Nat /\ ts \in 0 .. TIMESTAMP_MASK /\ r \in 0 .. RANDOM_MASK
      /\ id = ts * R + r
  BY Decomposed
<1>2. R \in Nat \ {0} /\ r + 1 \in 0 .. R - 1 /\ r + 1 \in Nat /\ ts \in Nat
  BY <1>1, UlidLayoutAssumption DEF has_random_room, RANDOM_MASK, TIMESTAMP_MASK
<1>3. increment_random(id) = from_components(ts, r + 1)
  BY DEF increment_random, next_random
<1> HIDE DEF ts, r
<1>4. /\ from_components(ts, r + 1) = ts * R + ((r + 1) % R)
      /\ from_components(ts, r + 1) \in Ulids
      /\ timestamp(from_components(ts, r + 1)) = ts
  BY <1>1, <1>2, Composed
<1> HIDE DEF R
<1>5. (r + 1) % R = r + 1
  BY <1>2, SmallMod
<1>6. ts * R \in Nat
  BY <1>2
<1>7. from_components(ts, r + 1) = id + 1
  BY <1>1, <1>2, <1>4, <1>5, <1>6
<1> QED
  BY <1>3, <1>4, <1>7 DEF ts

\* A later tick yields a greater id wherever in the tick it starts, also from
\* an id whose random field is at its maximum.
LEMMA RolledOver ==
  ASSUME NEW id \in Ulids, NEW ts \in 0 .. TIMESTAMP_MASK, NEW rand \in Nat,
         timestamp(id) < ts
  PROVE  /\ rollover_to_timestamp(id, ts, rand) \in Ulids
         /\ rollover_to_timestamp(id, ts, rand) > id
         /\ timestamp(rollover_to_timestamp(id, ts, rand)) = ts
<1> DEFINE p == timestamp(id)
           s == random(id)
           R == 2^RANDOM_BITS
           r == rand % R
<1>1. /\ p \in 0 .. TIMESTAMP_MASK /\ s \in 0 .. RANDOM_MASK
      /\ id = p * R + s
  BY Decomposed
<1>2. /\ from_components(ts, rand) = ts * R + r
      /\ from_components(ts, rand) \in Ulids
      /\ timestamp(from_components(ts, rand)) = ts
  BY Composed
<1>3. /\ R \in Nat \ {0} /\ p \in Nat /\ ts \in Nat /\ s \in 0 .. R - 1 /\ p < ts
  BY <1>1, UlidLayoutAssumption DEF RANDOM_MASK, TIMESTAMP_MASK
<1> HIDE DEF p, s, R
<1>4. r \in 0 .. R - 1
  BY <1>3, DivModParts
<1> HIDE DEF r
<1>5. p * R + s < ts * R + r
  BY <1>3, <1>4, QuotientOrder
<1>6. p * R + s \in Int /\ ts * R + r \in Int
  BY <1>3, <1>4
<1> QED
  BY <1>1, <1>2, <1>5, <1>6 DEF rollover_to_timestamp
-----------------------------------------------------------------------------

\* What a thread exchanges in is greater than the value it was computed from
\* and has the tick the thread read; who is in the critical section holds the
\* guard.
ThreadInv(u) ==
  /\ now[u] <= millis
  /\ pc[u] = "cas" => /\ kind = "atomic"
                      /\ next_id[u] > mo[Shared][view[u]]
                      /\ timestamp(next_id[u]) = now[u]
  /\ pc[u] = "lock" => Locking
  /\ pc[u] = "locked" => Locking /\ holder = u

UlidInv == TypeOK /\ \A t \in Threads : ThreadInv(t)

\* What a poll may find: an id that is greater, in the tick of the reading.
Fresh(t, current_id, id) ==
  /\ id \in Ulids /\ id > current_id /\ timestamp(id) = now[t]

\* What a Pending may tell the thread to wait.
Wait(t, current_id, units) ==
  /\ units \in Nat
  /\ \/ now[t] = timestamp(current_id) /\ units = 1
     \/ now[t] + units = timestamp(current_id)

LEMMA Times ==
  ASSUME TypeOK, NEW t \in Threads
  PROVE  /\ now[t] \in 0 .. TIMESTAMP_MASK /\ now[t] \in Nat
         /\ MaxMillis \in Nat /\ millis \in Nat /\ now[t] <= MaxMillis
  BY UlidAssumption, UlidLayoutAssumption DEF TypeOK, TIMESTAMP_MASK

\* The new ids of Match, whatever is done with them.
LEMMA NewIds ==
  ASSUME TypeOK, NEW t \in Threads, NEW current_id \in Ulids
  PROVE  /\ timestamp(current_id) \in Nat
         /\ now[t] = timestamp(current_id) /\ has_random_room(current_id)
              => Fresh(t, current_id, increment_random(current_id))
         /\ \A rand \in Randoms : now[t] > timestamp(current_id)
              => Fresh(t, current_id, rollover_to_timestamp(current_id, now[t], rand))
         /\ now[t] < timestamp(current_id)
              => Wait(t, current_id, cold_clock_behind(now[t], timestamp(current_id)))
<1>1. /\ now[t] \in 0 .. TIMESTAMP_MASK /\ now[t] \in Nat
      /\ timestamp(current_id) \in Nat /\ current_id \in Nat
  BY Times, Decomposed, UlidLayoutAssumption DEF TIMESTAMP_MASK
<1>2. now[t] = timestamp(current_id) /\ has_random_room(current_id)
        => Fresh(t, current_id, increment_random(current_id))
  BY <1>1, Incremented DEF Fresh
<1>3. ASSUME NEW rand \in Randoms, now[t] > timestamp(current_id)
      PROVE  Fresh(t, current_id, rollover_to_timestamp(current_id, now[t], rand))
  BY <1>1, <1>3, RolledOver, UlidAssumption DEF Fresh
<1>4. now[t] < timestamp(current_id)
        => Wait(t, current_id, cold_clock_behind(now[t], timestamp(current_id)))
  BY <1>1 DEF Wait, cold_clock_behind
<1> QED BY <1>1, <1>2, <1>3, <1>4

\* What comes of a poll of the value current_id.
LEMMA MatchCases ==
  ASSUME TypeOK, NEW t \in Threads, NEW current_id \in Ulids, Match(t, current_id)
  PROVE  \/ \E id \in Ulids : Fresh(t, current_id, id) /\ Issue(t, id)
         \/ \E u \in Nat : Wait(t, current_id, u) /\ Pending(t, u)
         \/ Panic(t)
<1>1. now[t] = timestamp(current_id) => Wait(t, current_id, 1)
  BY DEF Wait
<1> QED BY <1>1, NewIds DEF Match, Fresh, Wait

LEMMA Appended ==
  ASSUME NEW q \in Seq(Ulids), NEW id \in Ulids
  PROVE  /\ Append(q, id) \in Seq(Ulids)
         /\ Len(Append(q, id)) = Len(q) + 1 /\ Len(q) \in Nat
         /\ \A i \in 1 .. Len(q) : Append(q, id)[i] = q[i]
         /\ Append(q, id)[Len(q) + 1] = id
  OBVIOUS

LEMMA NewestIsUlid ==
  ASSUME TypeOK, NEW c \in Cells
  PROVE  /\ mo[c] \in Seq(Ulids) /\ Len(mo[c]) \in Nat /\ Len(mo[c]) >= 1
         /\ Newest(c) \in Ulids
         /\ \A i \in 1 .. Len(mo[c]) : mo[c][i] \in Ulids
<1>1. mo[c] \in Seq(Ulids) /\ Len(mo[c]) >= 1
  BY DEF TypeOK
<1>2. Len(mo[c]) \in Nat /\ \A i \in 1 .. Len(mo[c]) : mo[c][i] \in Ulids
  BY <1>1
<1> QED BY <1>1, <1>2 DEF Newest

\* Ready appends to the cell of the thread and touches no other.
LEMMA ReadyStores ==
  ASSUME TypeOK, NEW t \in Threads, NEW id \in Ulids, Ready(t, id), kind' = kind
  PROVE  /\ mo' \in [Cells -> Seq(Ulids)]
         /\ \A c \in Cells : /\ Len(mo'[c]) >= Len(mo[c]) /\ Len(mo'[c]) \in Nat
                             /\ \A i \in 1 .. Len(mo[c]) : mo'[c][i] = mo[c][i]
                             /\ c # Cell(t) => mo'[c] = mo[c]
         /\ Cell(t) \in Cells
         /\ Len(mo'[Cell(t)]) = Len(mo[Cell(t)]) + 1
         /\ mo'[Cell(t)][Len(mo[Cell(t)]) + 1] = id
<1> DEFINE c0 == Cell(t)
           q == mo[c0]
<1>1. c0 \in Cells
  BY DEF Cell, Cells
<1>2. q \in Seq(Ulids) /\ mo \in [Cells -> Seq(Ulids)]
  BY <1>1 DEF TypeOK
<1>3. mo' = [mo EXCEPT ![c0] = Append(q, id)]
  BY DEF Ready
<1> HIDE DEF c0, q
<1>4. /\ Append(q, id) \in Seq(Ulids)
      /\ Len(Append(q, id)) = Len(q) + 1 /\ Len(q) \in Nat
      /\ \A i \in 1 .. Len(q) : Append(q, id)[i] = q[i]
      /\ Append(q, id)[Len(q) + 1] = id
  BY <1>2, Appended
<1>5. mo'[c0] = Append(q, id) /\ \A c \in Cells : c # c0 => mo'[c] = mo[c]
  BY <1>1, <1>2, <1>3
<1>6. mo' \in [Cells -> Seq(Ulids)]
  BY <1>1, <1>2, <1>3, <1>4
<1>7. ASSUME NEW c \in Cells
      PROVE  /\ Len(mo'[c]) >= Len(mo[c]) /\ Len(mo'[c]) \in Nat
             /\ \A i \in 1 .. Len(mo[c]) : mo'[c][i] = mo[c][i]
  <2>1. CASE c = c0
    BY <2>1, <1>4, <1>5 DEF q
  <2>2. CASE c # c0
    BY <2>2, <1>2, <1>5
  <2> QED BY <2>1, <2>2
<1> QED BY <1>1, <1>4, <1>5, <1>6, <1>7 DEF c0, q

-----------------------------------------------------------------------------

\* The steps, told by what they do to the ids: a thread is given an id, and
\* with a monotonic generator its cell; or no id changes.
Given(t) ==
  \E id \in Ulids :
    /\ timestamp(id) = now[t] /\ last' = [last EXCEPT ![t] = id]
    /\ \/ kind = "basic" /\ mo' = mo
       \/ kind # "basic" /\ id > Newest(Cell(t)) /\ Ready(t, id)

LEMMA ZeroIsUlid == 0 \in Ulids
<1> DEFINE T == 2^TIMESTAMP_BITS
           R == 2^RANDOM_BITS
<1>1. T \in Nat \ {0} /\ R \in Nat \ {0}
  BY UlidLayoutAssumption
<1> HIDE DEF T, R
<1>2. T * R \in Nat \ {0}
  BY <1>1
<1> QED BY <1>2 DEF Ulids, T, R

LEMMA Init_UlidInv == Init => UlidInv
<1> SUFFICES ASSUME Init PROVE UlidInv
  OBVIOUS
<1> USE UlidAssumption, UlidLayoutAssumption
<1>1. \E id \in Ulids : mo = [c \in Cells |-> << id >>]
  <2>1. ASSUME NEW seed \in Seeds PROVE from_components(seed[1], seed[2]) \in Ulids
    <3>1. seed[1] \in 0 .. TIMESTAMP_MASK /\ seed[2] \in Nat
      BY DEF RANDOM_MASK, TIMESTAMP_MASK
    <3> QED BY <3>1, Composed
  <2> QED BY <2>1, ZeroIsUlid DEF Init, NewAtomic, NewLock, NewLocal, NewBasic
<1>3. TypeOK
  <2>1. PICK id \in Ulids : mo = [c \in Cells |-> << id >>]
    BY <1>1
  <2>2. /\ mo \in [Cells -> Seq(Ulids)] /\ \A c \in Cells : Len(mo[c]) = 1
    BY <2>1
  <2>3. \A t \in Threads : Cell(t) \in Cells
    BY DEF Cell, Cells
  <2>4. poisoned \in BOOLEAN
    BY Zenon DEF Init
  <2>5. kind \in Kinds /\ millis \in 0 .. MaxMillis /\ now \in [Threads -> 0 .. MaxMillis]
    BY DEF Init
  <2>6. /\ pc \in [Threads -> {"idle", "clock", "load", "cas", "lock", "locked",
                               "pending", "error", "panicked"}]
        /\ holder \in Threads \cup {NoThread}
        /\ next_id \in [Threads -> Ulids] /\ yield_for \in [Threads -> Nat]
        /\ last \in [Threads -> Ulids \cup {-1}] /\ view \in [Threads -> Nat]
    BY ZeroIsUlid DEF Init
  <2>7. ASSUME NEW t \in Threads PROVE view[t] \in 1 .. Len(mo[Cell(t)])
    <3>1. view[t] = 1
      BY DEF Init
    <3>2. Len(mo[Cell(t)]) = 1
      BY <2>2, <2>3
    <3> QED BY <3>1, <3>2
  <2> HIDE UlidAssumption, UlidLayoutAssumption
  <2>8. \A c \in Cells : Len(mo[c]) >= 1
    BY <2>2
  <2> QED BY <2>2, <2>4, <2>5, <2>6, <2>7, <2>8, Zenon DEF TypeOK
<1>4. \A t \in Threads : now[t] <= millis /\ pc[t] = "idle"
  BY DEF Init
<1> QED BY <1>3, <1>4 DEF UlidInv, ThreadInv

\* A thread is given an id as Given says.
LEMMA GivenPoll ==
  ASSUME UlidInv, NEW t \in Threads,
         PollLocked(t) \/ PollLocal(t) \/ ExchangeSucceeds(t)
  PROVE  \/ kind' = kind /\ kind # "basic" /\ Given(t)
         \/ /\ ~ ExchangeSucceeds(t)
            /\ \/ \E u \in Nat : Wait(t, Newest(Cell(t)), u) /\ Pending(t, u)
               \/ Panic(t)
<1> USE DEF UlidInv, ThreadInv
<1>1. Shared \in Cells /\ t \in Cells
  BY DEF Cells
<1>2. CASE PollLocked(t)
  <2>1. Cell(t) = Shared /\ kind \notin {"basic", "atomic"} /\ kind' = kind
    BY <1>2 DEF PollLocked, Cell, Locking
  <2>2. Newest(Cell(t)) \in Ulids /\ Match(t, Newest(Cell(t)))
    BY <1>1, <1>2, <2>1, NewestIsUlid DEF PollLocked
  <2>3. ~ ExchangeSucceeds(t)
    BY <1>2 DEF PollLocked, ExchangeSucceeds
  <2> QED BY <2>1, <2>2, <2>3, MatchCases DEF Given, Fresh, Issue, Ready
<1>3. CASE PollLocal(t)
  <2>1. Cell(t) = t /\ kind \notin {"basic", "atomic"} /\ kind' = kind
    BY <1>3 DEF PollLocal, Cell
  <2>2. Newest(Cell(t)) \in Ulids /\ Match(t, Newest(Cell(t)))
    BY <1>1, <1>3, <2>1, NewestIsUlid DEF PollLocal
  <2>3. ~ ExchangeSucceeds(t)
    BY <1>3 DEF PollLocal, ExchangeSucceeds
  <2> QED BY <2>1, <2>2, <2>3, MatchCases DEF Given, Fresh, Issue, Ready
<1>4. CASE ExchangeSucceeds(t)
  <2>1. Cell(t) = Shared /\ kind # "basic" /\ kind' = kind
    BY <1>4 DEF ExchangeSucceeds, Cell
  <2>2. /\ next_id[t] \in Ulids /\ next_id[t] > Newest(Cell(t))
        /\ timestamp(next_id[t]) = now[t] /\ Ready(t, next_id[t])
    BY <1>4, <2>1 DEF ExchangeSucceeds, TypeOK
  <2> QED BY <2>1, <2>2, Zenon DEF Given, Ready
<1> QED BY <1>2, <1>3, <1>4

\* Threads to which a step leaves all they have, while sequences only grow.
Kept(u) ==
  /\ pc'[u] = pc[u] /\ now'[u] = now[u] /\ view'[u] = view[u]
  /\ next_id'[u] = next_id[u]

Grown ==
  \A c \in Cells : /\ Len(mo'[c]) \in Nat /\ Len(mo'[c]) >= Len(mo[c])
                   /\ \A i \in 1 .. Len(mo[c]) : mo'[c][i] = mo[c][i]

LEMMA KeptThread ==
  ASSUME UlidInv, NEW u \in Threads, Kept(u), Grown, kind' = kind,
         millis' \in Nat, millis' >= millis, pc[u] = "locked" => holder' = holder
  PROVE  ThreadInv(u)' /\ view'[u] \in 1 .. Len(mo'[Cell(u)'])
<1>1. /\ ThreadInv(u) /\ view[u] \in 1 .. Len(mo[Cell(u)]) /\ Cell(u)' = Cell(u)
      /\ Cell(u) \in Cells /\ Shared \in Cells /\ Len(mo[Cell(u)]) \in Nat
      /\ pc[u] = "cas" => Cell(u) = Shared
  BY NewestIsUlid DEF UlidInv, ThreadInv, TypeOK, Cell, Cells
<1>2. view'[u] \in 1 .. Len(mo'[Cell(u)'])
  BY <1>1 DEF Kept, Grown
<1>3. now'[u] <= millis'
  BY <1>1, Times DEF Kept, ThreadInv, UlidInv
<1>4. pc'[u] = "cas" => mo'[Shared][view'[u]] = mo[Shared][view[u]]
  BY <1>1 DEF Kept, Grown
<1> QED BY <1>1, <1>2, <1>3, <1>4 DEF Kept, ThreadInv, Locking

\* What a step of thread t has to ensure, beside the other threads' own.
Keeps(t) ==
  /\ mo' \in [Cells -> Seq(Ulids)] /\ Grown
  /\ holder' \in Threads \cup {NoThread}
  /\ pc' \in [Threads -> {"idle", "clock", "load", "cas", "lock",
                          "locked", "pending", "error", "panicked"}]
  /\ now' \in [Threads -> 0 .. MaxMillis] /\ view' \in [Threads -> Nat]
  /\ next_id' \in [Threads -> Ulids] /\ yield_for' \in [Threads -> Nat]
  /\ last' \in [Threads -> Ulids \cup {-1}]
  /\ \A u \in Threads : u # t => Kept(u) /\ (pc[u] = "locked" => holder' = holder)
  /\ ThreadInv(t)' /\ view'[t] \in 1 .. Len(mo'[Cell(t)])

LEMMA Next_UlidInv == UlidInv /\ [Next]_vars => UlidInv'
<1> SUFFICES ASSUME UlidInv, [Next]_vars PROVE UlidInv'
  BY Zenon
<1>a. TypeOK /\ kind' = kind
  BY DEF UlidInv, Next, Step, Tick, Poll, CallAtomic, CallLock, CallLocal, CallBasic,
     ReadClock, Lock, LockPoisoned, PollAtomic, PollLocked, PollLocal, PollBasic,
     ExchangeSucceeds, ExchangeFails, RetryAtomic, RetryLock, RetryLocal, vars
<1>b. \A u \in Threads : Cell(u) \in Cells /\ Cell(u)' = Cell(u)
  BY <1>a DEF Cell, Cells
<1>c. \A u \in Threads : ThreadInv(u)
  BY DEF UlidInv, ThreadInv
<1>d. mo' = mo => Grown
  BY <1>a, NewestIsUlid DEF Grown
<1>e. millis \in Nat /\ \A u \in Threads : now[u] \in Nat
  BY <1>a, UlidAssumption DEF TypeOK
<1>1. CASE UNCHANGED vars
  BY <1>1, <1>a, <1>c DEF vars, shared, UlidInv, ThreadInv, TypeOK, Cell, Locking
<1>2. CASE Tick
  <2>1. TypeOK'
    BY <1>2, <1>a, <1>b, UlidAssumption DEF Tick, TypeOK, shared
  <2>2. millis' \in Nat /\ millis' >= millis
    BY <1>2, <1>a, <1>e DEF Tick
  <2>3. ASSUME NEW u \in Threads PROVE ThreadInv(u)'
    BY <1>2, <1>a, <1>d, <2>2, KeptThread DEF Tick, shared, Kept
  <2> QED BY <2>1, <2>3 DEF UlidInv, ThreadInv
<1>3. ASSUME NEW t \in Threads, Step(t) PROVE UlidInv'
  <2>1. millis' = millis
    BY <1>3 DEF Step, Poll, CallAtomic, CallLock, CallLocal, CallBasic,
      ReadClock, Lock, LockPoisoned, PollAtomic, PollLocked, PollLocal, PollBasic,
      ExchangeSucceeds, ExchangeFails, RetryAtomic, RetryLock, RetryLocal
  <2>a. poisoned' \in BOOLEAN
    BY <1>3, <1>a, ZenonT(40) DEF TypeOK, Step, Poll, CallAtomic, CallLock, CallLocal, CallBasic,
      ReadClock, Lock, LockPoisoned, PollAtomic, PollLocked, PollLocal, PollBasic,
      ExchangeSucceeds, ExchangeFails, RetryAtomic, RetryLock, RetryLocal,
      Match, Issue, Ready, Propose, Pending, Panic, shared
  <2>2. SUFFICES Keeps(t)
    <3>1. ASSUME NEW u \in Threads
          PROVE  ThreadInv(u)' /\ view'[u] \in 1 .. Len(mo'[Cell(u)'])
      <4>1. CASE u = t
        BY <1>b, <2>2, <4>1 DEF Keeps
      <4>2. CASE u # t
        <5>1. Kept(u) /\ (pc[u] = "locked" => holder' = holder) /\ Grown
          BY <2>2, <4>2 DEF Keeps
        <5> QED BY <1>a, <1>e, <2>1, <5>1, KeptThread
      <4> QED BY <4>1, <4>2
    <3>2. \A c \in Cells : Len(mo'[c]) >= 1
      <4> SUFFICES ASSUME NEW c \in Cells PROVE Len(mo'[c]) >= 1
        OBVIOUS
      <4>1. Len(mo'[c]) \in Nat /\ Len(mo'[c]) >= Len(mo[c])
        BY <2>2 DEF Keeps, Grown
      <4>2. Len(mo[c]) \in Nat /\ Len(mo[c]) >= 1
        BY <1>a, NewestIsUlid
      <4> QED BY <4>1, <4>2
    <3>3. kind' \in Kinds /\ millis' \in 0 .. MaxMillis
      BY <1>a, <2>1 DEF TypeOK
    <3>4. TypeOK'
      BY <2>2, <2>a, <3>1, <3>2, <3>3, Zenon DEF TypeOK, Keeps
    <3> QED BY <3>1, <3>4 DEF UlidInv, ThreadInv
  <2>b. mo \in [Cells -> Seq(Ulids)] /\ Shared \in Cells /\ t \in Cells
    BY <1>a DEF TypeOK, Cells
  <2>c. ThreadInv(t) /\ view[t] \in 1 .. Len(mo[Cell(t)]) /\ now[t] \in 0 .. MaxMillis
    BY <1>a, <1>c DEF TypeOK
  <2>d. Locking' = Locking
    BY <1>a DEF Locking
  <2>e. (pc[t] = "locked" \/ ~ Locking) => \A u \in Threads : u # t => pc[u] # "locked"
    BY <1>c DEF ThreadInv
  <2>3. CASE \/ CallAtomic(t) \/ CallLock(t) \/ CallLocal(t) \/ CallBasic(t)
             \/ RetryAtomic(t) \/ RetryLock(t) \/ RetryLocal(t)
    <3>1. Poll(t)
      BY <2>3 DEF CallAtomic, CallLock, CallLocal, CallBasic, RetryAtomic, RetryLock,
        RetryLocal
    <3>2. mo' = mo /\ holder' = holder
      BY <3>1 DEF Poll, shared
    <3> QED BY <1>a, <1>b, <1>d, <2>b, <2>c, <3>1, <3>2, SMTT(30) DEF Poll, TypeOK, ThreadInv, Kept, Keeps
  <2>4. CASE ReadClock(t)
    <3>1. PICK n \in now[t] .. millis : now' = [now EXCEPT ![t] = n]
      BY <2>4, Zenon DEF ReadClock
    <3>2. n \in 0 .. MaxMillis /\ n <= millis
      BY <1>a, <1>e, <2>c, <3>1, UlidAssumption DEF TypeOK
    <3>3. mo' = mo /\ holder' = holder
      BY <2>4 DEF ReadClock, shared
    <3> QED BY <1>a, <1>b, <1>d, <2>1, <2>4, <2>b, <2>c, <2>d, <3>1, <3>2, <3>3
            DEF ReadClock, TypeOK, ThreadInv, Kept, Keeps
  <2>5. CASE Lock(t)
    <3>1. mo' = mo /\ holder' = t
      BY <2>5 DEF Lock
    <3>2. \A u \in Threads : u # t => pc[u] # "locked"
      BY <1>c, <2>5, UlidAssumption DEF ThreadInv, Lock
    <3>3. Locking /\ Cell(t) = Shared
      BY <2>5, <2>c DEF Lock, ThreadInv, Locking, Cell
    <3>4. Len(mo[Shared]) \in Nat /\ Len(mo[Shared]) >= 1
      BY <1>a, <2>b, NewestIsUlid
    <3> QED BY <1>a, <1>b, <1>d, <2>1, <2>5, <2>b, <2>c, <2>d, <3>1, <3>2, <3>3, <3>4
            DEF Lock, TypeOK, ThreadInv, Kept, Keeps
  <2>6. CASE LockPoisoned(t)
    <3>1. mo' = mo /\ holder' = holder
      BY <2>6 DEF LockPoisoned, shared
    <3> QED BY <1>a, <1>b, <1>d, <2>1, <2>6, <2>b, <2>c, <3>1
            DEF LockPoisoned, TypeOK, ThreadInv, Kept, Keeps
  <2>f. ASSUME NEW id \in Ulids, Ready(t, id), now' = now, view' \in [Threads -> Nat],
               view'[t] \in 1 .. Len(mo[Cell(t)]) + 1,
               \A u \in Threads : u # t => view'[u] = view[u],
               pc[t] = "locked" \/ ~ Locking
        PROVE  Keeps(t)
    <3>1. /\ mo' \in [Cells -> Seq(Ulids)] /\ Grown
          /\ Len(mo'[Cell(t)]) = Len(mo[Cell(t)]) + 1
      BY <1>a, <2>f, ReadyStores DEF Grown
    <3> QED BY <1>a, <2>c, <2>e, <2>f, <3>1, <2>1
            DEF Ready, TypeOK, ThreadInv, Kept, Keeps
  <2>g. ASSUME NEW units \in Nat, Pending(t, units), now' = now,
               view' \in [Threads -> Nat], view'[t] \in 1 .. Len(mo[Cell(t)]),
               \A u \in Threads : u # t => view'[u] = view[u],
               pc[t] = "locked" \/ ~ Locking
        PROVE  Keeps(t)
    <3>1. mo' = mo /\ holder' = NoThread
      BY <2>g DEF Pending
    <3> QED BY <1>a, <1>d, <2>1, <2>b, <2>c, <2>e, <2>g, <3>1
            DEF Pending, TypeOK, ThreadInv, Kept, Keeps
  <2>h. ASSUME Panic(t), now' = now,
               view' \in [Threads -> Nat], view'[t] \in 1 .. Len(mo[Cell(t)]),
               \A u \in Threads : u # t => view'[u] = view[u],
               pc[t] = "locked" \/ ~ Locking
        PROVE  Keeps(t)
    <3>1. /\ mo' = mo /\ holder' = NoThread /\ pc' = [pc EXCEPT ![t] = "panicked"]
          /\ next_id' = next_id /\ yield_for' = yield_for /\ last' = last
      BY <2>h DEF Panic
    <3> QED BY <1>a, <1>d, <2>1, <2>b, <2>c, <2>e, <2>h, <3>1
            DEF TypeOK, ThreadInv, Kept, Keeps
  <2>7. CASE PollAtomic(t)
    <3>1. PICK i \in view[t] .. Len(mo[Shared]) :
                 view' = [view EXCEPT ![t] = i] /\ Match(t, mo[Shared][i])
      BY <2>7, Zenon DEF PollAtomic
    <3>2. kind = "atomic" /\ ~ Locking /\ Cell(t) = Shared /\ now' = now
      BY <2>7 DEF PollAtomic, Locking, Cell
    <3>3. Len(mo[Shared]) \in Nat /\ i \in 1 .. Len(mo[Shared]) /\ mo[Shared][i] \in Ulids
      BY <1>a, <2>b, <2>c, <3>1, <3>2, NewestIsUlid
    <3>4. /\ view' \in [Threads -> Nat] /\ view'[t] = i
          /\ \A u \in Threads : u # t => view'[u] = view[u]
      BY <1>a, <3>1, <3>3 DEF TypeOK
    <3>5. ASSUME NEW id \in Ulids, Fresh(t, mo[Shared][i], id), Propose(t, id)
          PROVE  Keeps(t)
      <4>1. mo' = mo /\ holder' = holder
        BY <3>5 DEF Propose, shared
      <4>2. /\ pc'[t] = "cas" /\ next_id'[t] = id /\ kind' = kind
            /\ id > mo[Shared][i] /\ timestamp(id) = now[t]
        BY <1>a, <2>1, <3>5 DEF Propose, Fresh, TypeOK
      <4>3. ThreadInv(t)' /\ view'[t] \in 1 .. Len(mo'[Cell(t)])
        BY <1>a, <2>1, <2>c, <3>2, <3>3, <3>4, <4>1, <4>2 DEF ThreadInv
      <4> QED BY <1>a, <1>d, <2>1, <2>b, <2>e, <3>2, <3>4, <3>5, <4>1, <4>3
              DEF Propose, TypeOK, Kept, Keeps
    <3> QED BY <1>a, <2>g, <2>h, <3>1, <3>2, <3>3, <3>4, <3>5, MatchCases DEF Issue
  <2>8. CASE PollLocked(t) \/ PollLocal(t) \/ ExchangeSucceeds(t)
    <3>1. pc[t] = "locked" \/ ~ Locking
      BY <2>8, <2>c DEF PollLocked, PollLocal, ExchangeSucceeds, ThreadInv, Locking
    <3>2. /\ now' = now /\ view' \in [Threads -> Nat]
          /\ \A u \in Threads : u # t => view'[u] = view[u]
          /\ ExchangeSucceeds(t) => view'[t] = Len(mo[Cell(t)]) + 1
          /\ ~ ExchangeSucceeds(t) => view'[t] \in 1 .. Len(mo[Cell(t)])
      <4>1. \A c \in Cells : Len(mo[c]) \in Nat /\ Len(mo[c]) >= 1
        BY <1>a, NewestIsUlid
      <4>2. ExchangeSucceeds(t) => Cell(t) = Shared
        BY <2>c DEF ExchangeSucceeds, ThreadInv, Cell
      <4>3. PollLocal(t) => Cell(t) = t
        BY DEF PollLocal, Cell
      <4>4. view \in [Threads -> Nat]
        BY <1>a DEF TypeOK
      <4>5. CASE PollLocked(t)
        BY <2>c, <4>4, <4>5 DEF PollLocked, ExchangeSucceeds
      <4>6. CASE PollLocal(t)
        BY <2>b, <4>1, <4>3, <4>4, <4>6 DEF PollLocal, ExchangeSucceeds
      <4>7. CASE ExchangeSucceeds(t)
        BY <2>b, <4>1, <4>2, <4>4, <4>7 DEF ExchangeSucceeds
      <4> QED BY <2>8, <4>5, <4>6, <4>7
    <3>3. CASE kind # "basic" /\ Given(t)
      <4>1. PICK id \in Ulids : Ready(t, id)
        BY <3>3 DEF Given
      <4>2. view'[t] \in 1 .. Len(mo[Cell(t)]) + 1
        <5>1. Len(mo[Cell(t)]) \in Nat
          BY <1>a, <1>b, NewestIsUlid
        <5> QED BY <3>2, <5>1
      <4> QED BY <2>f, <3>1, <3>2, <4>1, <4>2
    <3> QED BY <2>8, <2>g, <2>h, <3>1, <3>2, <3>3, GivenPoll
  <2>9. CASE PollBasic(t)
    <3>1. /\ kind = "basic" /\ ~ Locking /\ now' = now /\ view' = view
          /\ view \in [Threads -> Nat]
      BY <1>a, <2>9 DEF PollBasic, Locking, TypeOK
    <3>2. CASE Panic(t)
      BY <2>c, <2>h, <3>1, <3>2
    <3>3. ASSUME NEW rand \in Randoms, pc' = [pc EXCEPT ![t] = "idle"],
                 last' = [last EXCEPT ![t] = from_components(now[t], rand)],
                 UNCHANGED <<shared, next_id, yield_for>>
          PROVE  Keeps(t)
      <4>1. from_components(now[t], rand) \in Ulids
        BY <1>a, Times, Composed, UlidAssumption
      <4>2. mo' = mo /\ holder' = holder
        BY <3>3 DEF shared
      <4> QED BY <1>a, <1>d, <2>1, <2>b, <2>c, <3>1, <3>3, <4>1, <4>2
              DEF TypeOK, ThreadInv, Kept, Keeps
    <3> QED BY <2>9, <3>2, <3>3 DEF PollBasic
  <2>10. CASE ExchangeFails(t)
    <3>1. PICK i \in view[t] + 1 .. Len(mo[Shared]) : view' = [view EXCEPT ![t] = i]
      BY <2>10, Zenon DEF ExchangeFails
    <3>2. ~ Locking /\ Cell(t) = Shared /\ now' = now /\ Pending(t, 0)
      BY <2>10, <2>c, Zenon DEF ExchangeFails, ThreadInv, Locking, Cell
    <3>3. Len(mo[Shared]) \in Nat /\ i \in 1 .. Len(mo[Shared])
      BY <1>a, <2>b, <2>c, <3>1, <3>2, NewestIsUlid
    <3> QED BY <1>a, <2>g, <3>1, <3>2, <3>3 DEF TypeOK
  <2> QED BY <1>3, <2>3, <2>4, <2>5, <2>6, <2>7, <2>8, <2>9, <2>10, SMTT(30) DEF Step
<1> QED BY <1>1, <1>2, <1>3 DEF Next

\* Types, with every kind of generator: ids have no bit outside the layout,
\* whatever the random source returns.
THEOREM TypeCorrect == Spec => []TypeOK
<1>1. UlidInv => TypeOK
  BY DEF UlidInv
<1> QED
  BY <1>1, Init_UlidInv, Next_UlidInv, PTL DEF Spec

-----------------------------------------------------------------------------

\* A step gives one thread an id, or changes neither ids nor cells.
LEMMA IdSteps ==
  ASSUME UlidInv, [Next]_vars
  PROVE  /\ kind' = kind
         /\ \/ mo' = mo /\ last' = last
            \/ \E t \in Threads : Given(t)
<1> USE DEF UlidInv
<1>1. kind' = kind
  BY Zenon DEF Next, Step, Tick, Poll, CallAtomic, CallLock, CallLocal, CallBasic,
     ReadClock, Lock, LockPoisoned, PollAtomic, PollLocked, PollLocal, PollBasic,
     ExchangeSucceeds, ExchangeFails, RetryAtomic, RetryLock, RetryLocal, vars
<1>2. CASE Tick \/ UNCHANGED vars
  BY <1>1, <1>2 DEF Tick, vars, shared
<1>3. ASSUME NEW t \in Threads, Step(t)
      PROVE  (mo' = mo /\ last' = last) \/ Given(t)
  <2>1. CASE \/ CallAtomic(t) \/ CallLock(t) \/ CallLocal(t) \/ CallBasic(t)
             \/ RetryAtomic(t) \/ RetryLock(t) \/ RetryLocal(t)
    BY <2>1 DEF CallAtomic, CallLock, CallLocal, CallBasic, RetryAtomic, RetryLock,
      RetryLocal, Poll, shared
  <2>2. CASE ReadClock(t) \/ Lock(t) \/ LockPoisoned(t)
    BY <2>2, Zenon DEF ReadClock, Lock, LockPoisoned, shared
  <2>3. CASE PollAtomic(t)
    BY <2>3 DEF PollAtomic, Match, Issue, Propose, Pending, Panic, shared
  <2>4. CASE PollLocked(t) \/ PollLocal(t) \/ ExchangeSucceeds(t)
    BY <2>4, GivenPoll DEF Pending, Panic
  <2>5. CASE PollBasic(t)
    <3>1. CASE Panic(t)
      BY <3>1 DEF Panic
    <3>2. ASSUME NEW rand \in Randoms,
                 last' = [last EXCEPT ![t] = from_components(now[t], rand)],
                 mo' = mo
          PROVE  Given(t)
      <4>1. /\ from_components(now[t], rand) \in Ulids
            /\ timestamp(from_components(now[t], rand)) = now[t]
        BY Times, Composed, UlidAssumption
      <4> QED BY <2>5, <3>2, <4>1, Zenon DEF Given, PollBasic
    <3> QED BY <2>5, <3>1, <3>2 DEF PollBasic, shared
  <2>6. CASE ExchangeFails(t)
    BY <2>6 DEF ExchangeFails, Pending
  <2> QED BY <1>3, <2>1, <2>2, <2>3, <2>4, <2>5, <2>6 DEF Step
<1> QED BY <1>1, <1>2, <1>3 DEF Next

\* A thread that comes back from next_id has been given an id.
LEMMA ReturnGives ==
  ASSUME UlidInv, [Next]_vars, NEW t \in Threads, Returned(t)
  PROVE  Given(t)
<1> USE DEF UlidInv
<1>1. DOMAIN pc = Threads /\ pc[t] # "idle" /\ pc'[t] = "idle"
  BY Zenon DEF TypeOK, Returned
<1>2. PICK u \in Threads : Step(u)
  BY <1>1, Zenon DEF Next, Tick, vars
<1>3. PICK l : pc' = [pc EXCEPT ![u] = l]
  BY <1>2, Zenon DEF Step, Poll, CallAtomic, CallLock, CallLocal, CallBasic, ReadClock, Lock,
     LockPoisoned, PollAtomic, PollLocked, PollLocal, PollBasic, Match, Issue, Propose, Ready,
     Pending, Panic, ExchangeSucceeds, ExchangeFails, RetryAtomic, RetryLock, RetryLocal
<1>4. u = t
  BY <1>1, <1>3, Zenon
<1>5. ASSUME NEW m, m # "idle", pc' = [pc EXCEPT ![t] = m] PROVE FALSE
  BY <1>1, <1>5, Zenon
<1>6. CASE \/ CallAtomic(t) \/ CallLock(t) \/ CallLocal(t) \/ CallBasic(t)
           \/ RetryAtomic(t) \/ RetryLock(t) \/ RetryLocal(t)
           \/ ReadClock(t) \/ Lock(t) \/ LockPoisoned(t) \/ ExchangeFails(t)
  BY <1>5, <1>6 DEF CallAtomic, CallLock, CallLocal, CallBasic, RetryAtomic, RetryLock,
     RetryLocal, Poll, ReadClock, Lock, LockPoisoned, ExchangeFails, Pending
<1>7. CASE PollAtomic(t)
  BY <1>5, <1>7 DEF PollAtomic, Match, Issue, Propose, Pending, Panic
<1>8. CASE PollLocked(t) \/ PollLocal(t) \/ ExchangeSucceeds(t)
  BY <1>5, <1>8, GivenPoll DEF Pending, Panic
<1>9. CASE PollBasic(t)
  <2>1. PICK rand \in Randoms :
          last' = [last EXCEPT ![t] = from_components(now[t], rand)] /\ mo' = mo
    BY <1>5, <1>9 DEF PollBasic, Panic, shared
  <2>2. /\ from_components(now[t], rand) \in Ulids
        /\ timestamp(from_components(now[t], rand)) = now[t]
    BY Times, Composed, UlidAssumption
  <2> QED BY <1>9, <2>1, <2>2, Zenon DEF Given, PollBasic
<1> QED BY <1>2, <1>4, <1>6, <1>7, <1>8, <1>9 DEF Step

\* An id given by a monotonic generator is the new end of the thread's cell.
LEMMA GivenStores ==
  ASSUME UlidInv, NEW t \in Threads, Given(t), kind # "basic", kind' = kind
  PROVE  /\ Cell(t) \in Cells /\ last'[t] \in Ulids
         /\ mo'[Cell(t)][Len(mo'[Cell(t)])] = last'[t]
         /\ last'[t] > Newest(Cell(t))
         /\ Len(mo'[Cell(t)]) > 1
         /\ timestamp(last'[t]) = now[t]
         /\ \A u \in Threads : u # t => last'[u] = last[u]
         /\ \A c \in Cells : c # Cell(t) => mo'[c] = mo[c]
         /\ Len(mo'[Cell(t)]) = Len(mo[Cell(t)]) + 1
         /\ \A i \in 1 .. Len(mo[Cell(t)]) : mo'[Cell(t)][i] = mo[Cell(t)][i]
<1> USE DEF UlidInv
<1>1. PICK id \in Ulids : /\ timestamp(id) = now[t] /\ last' = [last EXCEPT ![t] = id]
                          /\ id > Newest(Cell(t)) /\ Ready(t, id)
  BY Zenon DEF Given
<1>2. last'[t] = id /\ \A u \in Threads : u # t => last'[u] = last[u]
  BY <1>1 DEF TypeOK
<1>3. /\ Cell(t) \in Cells /\ Len(mo'[Cell(t)]) = Len(mo[Cell(t)]) + 1
      /\ mo'[Cell(t)][Len(mo[Cell(t)]) + 1] = id
      /\ \A c \in Cells : c # Cell(t) => mo'[c] = mo[c]
      /\ \A i \in 1 .. Len(mo[Cell(t)]) : mo'[Cell(t)][i] = mo[Cell(t)][i]
  BY <1>1, ReadyStores
<1>4. Len(mo[Cell(t)]) \in Nat /\ Len(mo[Cell(t)]) >= 1
  BY <1>3, NewestIsUlid
<1> QED BY <1>1, <1>2, <1>3, <1>4

\* Every monotonic generator implements the abstract issuer, shared or not: its
\* ids are unique and increase in order of issue.
THEOREM Refinement == Spec => IssuerSpec
<1>1. Init => \A c \in Cells : Issuer(c)!Init
  <2> SUFFICES ASSUME Init, NEW c \in Cells PROVE Issuer(c)!Init
    OBVIOUS
  <2>1. Newest(c) \in Ulids
    BY Init_UlidInv, NewestIsUlid DEF UlidInv
  <2>2. Len(mo[c]) = 1
    BY DEF Init, NewAtomic, NewLock, NewLocal, NewBasic
  <2> QED BY <2>1, <2>2 DEF Issuer!Init
<1>2. UlidInv /\ [Next]_vars => \A c \in Cells : [Issuer(c)!Issue]_(Issuer(c)!vars)
  <2> SUFFICES ASSUME UlidInv, [Next]_vars, NEW c \in Cells,
                      Newest(c)' # Newest(c) \/ (Len(mo[c]) - 1)' # Len(mo[c]) - 1
               PROVE  Issuer(c)!Issue
    BY DEF Issuer!vars
  <2>1. kind' = kind /\ mo' # mo
    BY IdSteps DEF Newest
  <2>2. PICK t \in Threads : Given(t)
    BY <2>1, IdSteps
  <2>3. kind # "basic"
    BY <2>1, <2>2 DEF Given
  <2>4. c = Cell(t)
    BY <2>1, <2>2, <2>3, GivenStores DEF Newest
  <2>5. Newest(c)' \in Ulids /\ Newest(c)' > Newest(c)
    BY <2>1, <2>2, <2>3, <2>4, GivenStores DEF Newest
  <2>6. (Len(mo[c]) - 1)' = Len(mo[c]) - 1 + 1
    <3>1. Len(mo[c]) \in Nat
      BY NewestIsUlid DEF UlidInv
    <3>2. Len(mo'[c]) = Len(mo[c]) + 1
      BY <2>1, <2>2, <2>3, <2>4, GivenStores
    <3> QED BY <3>1, <3>2
  <2> QED BY <2>5, <2>6 DEF Issuer!Issue
<1> QED
  BY <1>1, <1>2, Init_UlidInv, Next_UlidInv, PTL DEF Spec, IssuerSpec

\* Nothing is given that is not the newest of its cell, and nobody but the
\* cell's users has been given it.
IssueInv ==
  /\ UlidInv
  /\ \A c \in Cells : Len(mo[c]) > 1 =>
       kind # "basic" /\ \E t \in Threads : Cell(t) = c /\ last[t] = Newest(c)
  /\ \A t \in Threads : last[t] # -1 =>
       IF kind = "basic" THEN timestamp(last[t]) <= now[t]
                         ELSE last[t] <= Newest(Cell(t))

Ordered(t) ==
  Returned(t) /\ last[t] # -1 =>
    IF kind = "basic" THEN timestamp(last'[t]) >= timestamp(last[t])
                      ELSE last'[t] > last[t]

LEMMA Init_IssueInv == Init => IssueInv
<1> SUFFICES ASSUME Init PROVE IssueInv
  OBVIOUS
<1>1. ASSUME NEW c \in Cells PROVE Len(mo[c]) = 1
  BY DEF Init, NewAtomic, NewLock, NewLocal, NewBasic
<1>2. \A t \in Threads : last[t] = -1
  BY DEF Init
<1>3. ASSUME NEW c \in Cells PROVE ~ (Len(mo[c]) > 1)
  BY <1>1, Init_UlidInv, NewestIsUlid DEF UlidInv
<1> QED BY <1>2, <1>3, Init_UlidInv DEF IssueInv

\* The clock readings of a thread do not go back.
LEMMA NowGrows ==
  ASSUME UlidInv, [Next]_vars, NEW t \in Threads
  PROVE  now'[t] \in Nat /\ now[t] \in Nat /\ now[t] <= now'[t]
<1> USE DEF UlidInv
<1>1. now[t] \in Nat /\ now \in [Threads -> 0 .. MaxMillis] /\ millis \in Nat
  BY Times DEF TypeOK
<1>2. CASE now' = now
  BY <1>1, <1>2
<1>3. ASSUME NEW u \in Threads, ReadClock(u)
      PROVE  now'[t] \in Nat /\ now[t] \in Nat /\ now[t] <= now'[t]
  <2>1. PICK n \in now[u] .. millis : now' = [now EXCEPT ![u] = n]
    BY <1>3, Zenon DEF ReadClock
  <2>2. CASE u = t
    BY <1>1, <2>1, <2>2
  <2>3. CASE u # t
    BY <1>1, <2>1, <2>3
  <2> QED BY <2>2, <2>3
<1>4. now' = now \/ \E u \in Threads : ReadClock(u)
  BY Zenon DEF Next, Step, Tick, Poll, CallAtomic, CallLock, CallLocal, CallBasic,
     Lock, LockPoisoned, PollAtomic, PollLocked, PollLocal, PollBasic,
     ExchangeSucceeds, ExchangeFails, RetryAtomic, RetryLock, RetryLocal, vars
<1> QED BY <1>2, <1>3, <1>4

LEMMA Next_IssueInv ==
  ASSUME IssueInv, [Next]_vars
  PROVE  IssueInv'
<1> USE DEF IssueInv
<1>1. UlidInv' /\ kind' = kind
  BY Next_UlidInv, IdSteps
<1>2. /\ \A u \in Threads : Cell(u)' = Cell(u) /\ Cell(u) \in Cells
      /\ \A c \in Cells : Newest(c) \in Nat
      /\ \A u \in Threads : last[u] \in Int
      /\ \A u \in Threads : last[u] # -1 => timestamp(last[u]) \in Nat
  <2>1. \A u \in Threads : Cell(u)' = Cell(u) /\ Cell(u) \in Cells
    BY <1>1 DEF Cell, Cells
  <2>2. \A c \in Cells : Newest(c) \in Nat
    BY NewestIsUlid, Decomposed DEF UlidInv
  <2>3. ASSUME NEW u \in Threads
        PROVE  last[u] \in Int /\ (last[u] # -1 => timestamp(last[u]) \in Nat)
    <3>1. last[u] \in Ulids \/ last[u] = -1
      BY DEF UlidInv, TypeOK
    <3>2. ASSUME last[u] \in Ulids PROVE last[u] \in Nat /\ timestamp(last[u]) \in Nat
      BY <3>2, Decomposed, UlidLayoutAssumption DEF TIMESTAMP_MASK
    <3> QED BY <3>1, <3>2
  <2> QED BY <2>1, <2>2, <2>3
<1>3. \A u \in Threads : now'[u] \in Nat /\ now[u] \in Nat /\ now[u] <= now'[u]
  BY NowGrows
<1>4. CASE mo' = mo /\ last' = last
  <2>2. \A c \in Cells : Newest(c)' = Newest(c)
    BY <1>4 DEF Newest
  <2>3. ASSUME NEW t \in Threads, last'[t] # -1
        PROVE  IF kind' = "basic" THEN timestamp(last'[t]) <= now'[t]
                                  ELSE last'[t] <= Newest(Cell(t))'
    BY <1>1, <1>2, <1>3, <1>4, <2>3 DEF Newest
  <2>4. ASSUME NEW c \in Cells, Len(mo'[c]) > 1
        PROVE  kind' # "basic" /\ \E t \in Threads : Cell(t)' = c /\ last'[t] = Newest(c)'
    BY <1>1, <1>2, <1>4, <2>2, <2>4
  <2> QED BY <1>1, <2>3, <2>4
<1>5. ASSUME NEW t \in Threads, Given(t), kind = "basic"
      PROVE  IssueInv'
  <2>1. /\ mo' = mo /\ timestamp(last'[t]) = now[t]
        /\ \A u \in Threads : u # t => last'[u] = last[u]
    BY <1>5 DEF Given, UlidInv, TypeOK
  <2>2. ASSUME NEW u \in Threads
        PROVE  last'[u] # -1 => timestamp(last'[u]) <= now'[u]
    <3>1. CASE u = t
      BY <1>3, <2>1, <3>1
    <3>2. CASE u # t
      BY <1>2, <1>3, <1>5, <2>1, <3>2
    <3> QED BY <3>1, <3>2, Zenon
  <2>3. \A c \in Cells : ~ (Len(mo'[c]) > 1)
    BY <1>5, <2>1
  <2> QED BY <1>1, <1>5, <2>2, <2>3
<1>6. ASSUME NEW t \in Threads, Given(t), kind # "basic"
      PROVE  IssueInv'
  <2>1. /\ last'[t] \in Ulids /\ last'[t] > Newest(Cell(t))
        /\ mo'[Cell(t)][Len(mo'[Cell(t)])] = last'[t]
        /\ \A u \in Threads : u # t => last'[u] = last[u]
        /\ \A c \in Cells : c # Cell(t) => mo'[c] = mo[c]
    BY <1>1, <1>6, GivenStores
  <2>2. last'[t] \in Nat
    BY <2>1, Decomposed
  <2>3. ASSUME NEW u \in Threads
        PROVE  last'[u] # -1 => last'[u] <= Newest(Cell(u))'
    <3>1. Newest(Cell(u))' = mo'[Cell(u)][Len(mo'[Cell(u)])]
      BY <1>2 DEF Newest
    <3>2. CASE u = t
      BY <2>1, <2>2, <3>1, <3>2
    <3>3. CASE u # t /\ Cell(u) = Cell(t)
      BY <1>2, <1>6, <2>1, <2>2, <3>1, <3>3, SMTT(30)
    <3>4. CASE Cell(u) # Cell(t)
      BY <1>2, <1>6, <2>1, <3>1, <3>4 DEF Newest
    <3> QED BY <3>2, <3>3, <3>4
  <2>4. ASSUME NEW c \in Cells, Len(mo'[c]) > 1
        PROVE  \E u \in Threads : Cell(u)' = c /\ last'[u] = Newest(c)'
    <3>1. CASE c = Cell(t)
      BY <1>2, <2>1, <3>1 DEF Newest
    <3>2. CASE c # Cell(t)
      <4>1. PICK u \in Threads : Cell(u) = c /\ last[u] = Newest(c)
        BY <2>1, <2>4, <3>2
      <4> QED BY <1>2, <2>1, <3>2, <4>1 DEF Newest
    <3> QED BY <3>1, <3>2
  <2> QED BY <1>1, <1>6, <2>3, <2>4, Zenon
<1> QED BY <1>1, <1>4, <1>5, <1>6, IdSteps, Zenon

LEMMA Next_Ordered ==
  ASSUME IssueInv, [Next]_vars, NEW t \in Threads
  PROVE  Ordered(t)
<1> SUFFICES ASSUME Returned(t), last[t] # -1
             PROVE  IF kind = "basic" THEN timestamp(last'[t]) >= timestamp(last[t])
                                      ELSE last'[t] > last[t]
  BY DEF Ordered
<1>1. Given(t) /\ kind' = kind
  BY ReturnGives, IdSteps DEF IssueInv
<1>2. last[t] \in Ulids
  BY DEF IssueInv, UlidInv, TypeOK
<1>3. CASE kind = "basic"
  <2>1. timestamp(last'[t]) = now[t]
    BY <1>1 DEF Given, IssueInv, UlidInv, TypeOK
  <2>2. timestamp(last[t]) <= now[t]
    BY <1>3 DEF IssueInv
  <2>3. timestamp(last[t]) \in Nat /\ now[t] \in Nat
    BY <1>2, Decomposed, UlidLayoutAssumption, NowGrows DEF TIMESTAMP_MASK, IssueInv
  <2> QED BY <1>3, <2>1, <2>2, <2>3
<1>4. CASE kind # "basic"
  <2>1. Cell(t) \in Cells /\ last'[t] \in Ulids /\ last'[t] > Newest(Cell(t))
    BY <1>1, <1>4, GivenStores DEF IssueInv
  <2>2. last[t] <= Newest(Cell(t))
    BY <1>4 DEF IssueInv
  <2>3. last[t] \in Nat /\ last'[t] \in Nat /\ Newest(Cell(t)) \in Nat
    BY <1>2, <2>1, Decomposed, NewestIsUlid DEF IssueInv, UlidInv
  <2> QED BY <1>4, <2>1, <2>2, <2>3
<1> QED BY <1>3, <1>4

\* The ids of one thread increase, however many threads share the generator;
\* without state they never go back in time.
THEOREM Sorted == Spec => TimeOrdered
<1>1. IssueInv /\ [Next]_vars => [\A t \in Threads : Ordered(t)]_vars
  BY Next_Ordered
<1>2. IssueInv /\ [Next]_vars => IssueInv'
  BY Next_IssueInv
<1> QED
  BY <1>1, <1>2, Init_IssueInv, PTL DEF Spec, TimeOrdered, Ordered

\* What a generator continues from was given to a caller, also after a panic of
\* the random source.
THEOREM NothingHalfMade == Spec => []StateWasIssued
<1>1. IssueInv => StateWasIssued
  BY DEF IssueInv, StateWasIssued
<1>2. IssueInv /\ [Next]_vars => IssueInv'
  BY Next_IssueInv
<1> QED
  BY <1>1, <1>2, Init_IssueInv, PTL DEF Spec

-----------------------------------------------------------------------------

\* Time only grows.
LEMMA MillisGrow ==
  ASSUME UlidInv, [Next]_vars
  PROVE  millis \in Nat /\ millis' \in Nat /\ millis <= millis'
<1>1. millis \in Nat
  BY UlidAssumption DEF UlidInv, TypeOK
<1>2. CASE millis' = millis
  BY <1>1, <1>2
<1>3. CASE Tick
  BY <1>1, <1>3 DEF Tick
<1>4. millis' = millis \/ Tick
  BY Zenon DEF Next, Step, Poll, CallAtomic, CallLock, CallLocal, CallBasic, ReadClock,
     Lock, LockPoisoned, PollAtomic, PollLocked, PollLocal, PollBasic,
     ExchangeSucceeds, ExchangeFails, RetryAtomic, RetryLock, RetryLocal, vars
<1> QED BY <1>2, <1>3, <1>4

\* A thread is Pending as it was, for nothing after a lost exchange, or for
\* the time Match says of a value of its cell.
LEMMA PendingSteps ==
  ASSUME UlidInv, [Next]_vars, NEW u \in Threads, pc'[u] = "pending"
  PROVE  /\ now'[u] = now[u]
         /\ \/ pc[u] = "pending" /\ yield_for'[u] = yield_for[u]
            \/ yield_for'[u] = 0
            \/ \E i \in 1 .. Len(mo[Cell(u)]) : Wait(u, mo[Cell(u)][i], yield_for'[u])
<1> DEFINE Goal == /\ now'[u] = now[u]
                   /\ \/ pc[u] = "pending" /\ yield_for'[u] = yield_for[u]
                      \/ yield_for'[u] = 0
                      \/ \E i \in 1 .. Len(mo[Cell(u)]) :
                           Wait(u, mo[Cell(u)][i], yield_for'[u])
<1>a. /\ TypeOK /\ pc \in [Threads -> {"idle", "clock", "load", "cas", "lock", "locked",
                               "pending", "error", "panicked"}]
      /\ now \in [Threads -> 0 .. MaxMillis] /\ yield_for \in [Threads -> Nat]
  BY Zenon DEF UlidInv, TypeOK
<1>1. CASE Tick \/ UNCHANGED vars
  BY <1>1, Zenon DEF Tick, vars
<1>2. ASSUME NEW t \in Threads, Step(t) PROVE Goal
  <2>1. CASE t # u
    <3>1. /\ pc'[u] = pc[u] /\ now'[u] = now[u] /\ yield_for'[u] = yield_for[u]
      BY <1>a, <1>2, <2>1, Zenon DEF Step, Poll, CallAtomic, CallLock, CallLocal, CallBasic,
        ReadClock, Lock, LockPoisoned, PollAtomic, PollLocked, PollLocal, PollBasic,
        ExchangeSucceeds, ExchangeFails, RetryAtomic, RetryLock, RetryLocal,
        Match, Issue, Ready, Propose, Pending, Panic
    <3> QED BY <3>1
  <2>2. CASE t = u
    <3> USE <1>a
    <3>1. Cell(u) \in Cells /\ Len(mo[Cell(u)]) \in Nat /\ Len(mo[Cell(u)]) >= 1
          /\ Shared \in Cells
      BY NewestIsUlid, Zenon DEF Cell, Cells
    <3>2. ASSUME NEW i \in 1 .. Len(mo[Cell(u)]), now' = now,
                 \/ \E w \in Nat : Wait(u, mo[Cell(u)][i], w) /\ Pending(u, w)
                 \/ \E id \in Ulids : Issue(u, id)
                 \/ Panic(u)
          PROVE  Goal
      <4>1. CASE \E w \in Nat : Wait(u, mo[Cell(u)][i], w) /\ Pending(u, w)
        BY <3>2, <4>1 DEF Pending
      <4>2. ASSUME NEW id \in Ulids, Issue(u, id) PROVE FALSE
        BY <4>2 DEF Issue, Ready, Propose
      <4>3. ~ Panic(u)
        BY Zenon DEF Panic
      <4> QED BY <3>2, <4>1, <4>2, <4>3
    <3>3. CASE PollAtomic(u)
      <4>1. PICK i \in view[u] .. Len(mo[Shared]) : Match(u, mo[Shared][i])
        BY <3>3 DEF PollAtomic
      <4>2. Cell(u) = Shared /\ now' = now /\ view[u] \in 1 .. Len(mo[Cell(u)])
        BY <3>3 DEF PollAtomic, Cell, TypeOK
      <4>3. i \in 1 .. Len(mo[Cell(u)]) /\ mo[Cell(u)][i] \in Ulids
        BY <3>1, <4>1, <4>2, NewestIsUlid
      <4> QED BY <3>2, <4>1, <4>2, <4>3, MatchCases, Zenon
    <3>4. CASE PollLocked(u) \/ PollLocal(u)
      <4>1. Match(u, Newest(Cell(u))) /\ now' = now
        BY <3>4 DEF PollLocked, PollLocal, Cell, UlidInv, ThreadInv, Locking
      <4>2. Newest(Cell(u)) \in Ulids
        BY <3>1, NewestIsUlid
      <4>3. Len(mo[Cell(u)]) \in 1 .. Len(mo[Cell(u)])
        BY <3>1, SMTT(30)
      <4> QED BY <3>2, <4>1, <4>2, <4>3, MatchCases, Zenon DEF Newest
    <3>5. CASE ExchangeFails(u)
      BY <3>5, Zenon DEF ExchangeFails, Pending
    <3>6. CASE PollBasic(u) \/ ExchangeSucceeds(u)
      BY <3>6 DEF PollBasic, ExchangeSucceeds, Ready, Panic
    <3>7. CASE ReadClock(u) \/ Lock(u) \/ LockPoisoned(u)
      BY <3>7 DEF ReadClock, Lock, LockPoisoned
    <3>8. CASE \/ CallAtomic(u) \/ CallLock(u) \/ CallLocal(u) \/ CallBasic(u)
               \/ RetryAtomic(u) \/ RetryLock(u) \/ RetryLocal(u)
      BY <3>8 DEF CallAtomic, CallLock, CallLocal, CallBasic, RetryAtomic, RetryLock,
        RetryLocal, Poll
    <3> QED BY <1>2, <2>2, <3>3, <3>4, <3>5, <3>6, <3>7, <3>8, Zenon DEF Step
  <2> QED BY <2>1, <2>2
<1> QED BY <1>1, <1>2, Zenon DEF Next

\* Every id but the one a generator starts from was made in a tick that the
\* clock has reached.
TimeInv ==
  /\ UlidInv /\ NoFutureTimestamp /\ BackoffBounded
  /\ \A c \in Cells : \A i \in 2 .. Len(mo[c]) : timestamp(mo[c][i]) <= millis

LEMMA Init_TimeInv == Init => TimeInv
<1> SUFFICES ASSUME Init PROVE TimeInv
  OBVIOUS
<1>1. UlidInv
  BY Init_UlidInv
<1>2. ASSUME NEW c \in Cells PROVE Len(mo[c]) = 1
  BY DEF Init, NewAtomic, NewLock, NewLocal, NewBasic
<1>3. NoFutureTimestamp /\ BackoffBounded
  BY Zenon DEF Init, NoFutureTimestamp, BackoffBounded
<1>4. ASSUME NEW c \in Cells, NEW i \in 2 .. Len(mo[c]) PROVE FALSE
  <2>1. Len(mo[c]) = 1
    BY <1>2
  <2> QED BY <2>1
<1> QED BY <1>1, <1>3, <1>4 DEF TimeInv

LEMMA Next_TimeInv == TimeInv /\ [Next]_vars => TimeInv'
<1> SUFFICES ASSUME TimeInv, [Next]_vars PROVE TimeInv'
  OBVIOUS
<1>0. /\ UlidInv /\ NoFutureTimestamp /\ BackoffBounded
      /\ \A c \in Cells : \A i \in 2 .. Len(mo[c]) : timestamp(mo[c][i]) <= millis
  BY DEF TimeInv
<1>1. /\ UlidInv' /\ kind' = kind
      /\ millis \in Nat /\ millis' \in Nat /\ millis <= millis'
  BY <1>0, Next_UlidInv, IdSteps, MillisGrow
<1>2. \A u \in Threads : Cell(u)' = Cell(u) /\ Cell(u) \in Cells
  BY <1>1 DEF Cell, Cells
<1>3. ASSUME NEW id \in Ulids PROVE timestamp(id) \in Nat
  BY Decomposed, UlidLayoutAssumption DEF TIMESTAMP_MASK
<1>4. \A u \in Threads : now[u] \in Nat /\ now[u] <= millis /\ last[u] \in Ulids \cup {-1}
  BY <1>0, Times DEF UlidInv, ThreadInv, TypeOK
<1>5. ASSUME NEW c \in Cells
      PROVE  /\ mo'[c][1] = mo[c][1] /\ Len(mo[c]) \in Nat /\ Len(mo[c]) >= 1
             /\ \A i \in 2 .. Len(mo'[c]) : timestamp(mo'[c][i]) <= millis'
  <2>1. /\ Len(mo[c]) \in Nat /\ Len(mo[c]) >= 1
        /\ \A i \in 1 .. Len(mo[c]) : timestamp(mo[c][i]) \in Nat
    BY <1>0, <1>3, NewestIsUlid DEF UlidInv
  <2>2. CASE mo'[c] = mo[c]
    BY <1>0, <1>1, <2>1, <2>2
  <2>3. ASSUME NEW t \in Threads, Given(t), mo' # mo, c = Cell(t)
        PROVE  /\ mo'[c][1] = mo[c][1]
               /\ \A i \in 2 .. Len(mo'[c]) : timestamp(mo'[c][i]) <= millis'
    <3>1. kind # "basic"
      BY <2>3 DEF Given
    <3>2. /\ mo'[c][Len(mo'[c])] = last'[t] /\ timestamp(last'[t]) = now[t]
          /\ Len(mo'[c]) = Len(mo[c]) + 1
          /\ \A i \in 1 .. Len(mo[c]) : mo'[c][i] = mo[c][i]
      BY <1>0, <1>1, <2>3, <3>1, GivenStores
    <3>3. timestamp(mo'[c][Len(mo'[c])]) <= millis'
      BY <1>1, <1>4, <3>2
    <3>4. ASSUME NEW i \in 2 .. Len(mo[c]) PROVE timestamp(mo'[c][i]) <= millis'
      BY <1>0, <1>1, <2>1, <3>2
    <3> QED BY <2>1, <3>2, <3>3, <3>4
  <2>4. mo'[c] = mo[c] \/ \E t \in Threads : Given(t) /\ mo' # mo /\ c = Cell(t)
    <3>1. ASSUME NEW t \in Threads, Given(t), mo' # mo, c # Cell(t) PROVE mo'[c] = mo[c]
      BY <1>0, <1>1, <3>1, GivenStores, Zenon DEF Given
    <3> QED BY <1>0, <3>1, IdSteps
  <2> QED BY <2>1, <2>2, <2>3, <2>4
<1>6. NoFutureTimestamp'
  <2> SUFFICES ASSUME NEW u \in Threads, last'[u] # -1
               PROVE  timestamp(last'[u]) <= millis'
    BY DEF NoFutureTimestamp
  <2>1. CASE last'[u] = last[u]
    BY <1>0, <1>1, <1>3, <1>4, <2>1 DEF NoFutureTimestamp
  <2>2. ASSUME NEW t \in Threads, Given(t), last'[u] # last[u]
        PROVE  timestamp(last'[u]) = now[u]
    BY <1>0, <2>2 DEF Given, UlidInv, TypeOK
  <2>3. last'[u] = last[u] \/ timestamp(last'[u]) = now[u]
    BY <1>0, <2>2, IdSteps, ZenonT(40)
  <2> QED BY <1>1, <1>4, <2>1, <2>3
<1>7. BackoffBounded'
  <2> SUFFICES ASSUME NEW u \in Threads, pc'[u] = "pending"
               PROVE  \/ now'[u] + yield_for'[u] <= millis' + 1
                      \/ now'[u] + yield_for'[u] <= timestamp(mo'[Cell(u)'][1]) + 1
    BY DEF BackoffBounded
  <2>1. /\ now'[u] = now[u] /\ now[u] \in Nat /\ now[u] <= millis
        /\ Cell(u)' = Cell(u) /\ mo'[Cell(u)'][1] = mo[Cell(u)][1]
        /\ yield_for[u] \in Nat /\ Len(mo[Cell(u)]) \in Nat /\ Len(mo[Cell(u)]) >= 1
    <3>1. Cell(u)' = Cell(u) /\ mo'[Cell(u)'][1] = mo[Cell(u)][1]
          /\ Len(mo[Cell(u)]) \in Nat /\ Len(mo[Cell(u)]) >= 1
      BY <1>2, <1>5
    <3>2. now'[u] = now[u]
      BY <1>0, PendingSteps
    <3>3. yield_for[u] \in Nat
      BY <1>0 DEF UlidInv, TypeOK
    <3> QED BY <1>4, <3>1, <3>2, <3>3
  <2>2. timestamp(mo[Cell(u)][1]) \in Nat
    BY <1>0, <1>2, <1>3, <2>1, NewestIsUlid DEF UlidInv
  <2>3. CASE pc[u] = "pending" /\ yield_for'[u] = yield_for[u]
    <3>1. \/ now[u] + yield_for[u] <= millis + 1
          \/ now[u] + yield_for[u] <= timestamp(mo[Cell(u)][1]) + 1
      BY <1>0, <2>3 DEF BackoffBounded
    <3> QED BY <1>1, <2>1, <2>2, <2>3, <3>1
  <2>4. CASE yield_for'[u] = 0
    BY <1>1, <2>1, <2>4
  <2>5. ASSUME NEW i \in 1 .. Len(mo[Cell(u)]), Wait(u, mo[Cell(u)][i], yield_for'[u])
        PROVE  \/ now'[u] + yield_for'[u] <= millis' + 1
               \/ now'[u] + yield_for'[u] <= timestamp(mo'[Cell(u)'][1]) + 1
    <3>1. timestamp(mo[Cell(u)][i]) \in Nat
      BY <1>0, <1>2, <1>3, NewestIsUlid DEF UlidInv
    <3>2. CASE i = 1
      BY <1>1, <2>1, <2>2, <2>5, <3>2 DEF Wait
    <3>3. CASE i # 1
      <4>1. timestamp(mo[Cell(u)][i]) <= millis
        BY <1>0, <1>2, <2>1, <3>3
      <4> QED BY <1>1, <2>1, <2>5, <3>1, <4>1 DEF Wait
    <3> QED BY <3>2, <3>3
  <2> QED BY <1>0, <2>3, <2>4, <2>5, PendingSteps
<1> QED BY <1>1, <1>5, <1>6, <1>7 DEF TimeInv

\* No id is ahead of the clock, also from a random source that fills all bits.
THEOREM NoFuture == Spec => []NoFutureTimestamp
<1>1. TimeInv => NoFutureTimestamp
  BY DEF TimeInv
<1> QED
  BY <1>1, Init_TimeInv, Next_TimeInv, PTL DEF Spec

\* The back-off of every generator is bounded by the newest tick in use.
THEOREM Backoff == Spec => []BackoffBounded
<1>1. TimeInv => BackoffBounded
  BY DEF TimeInv
<1> QED
  BY <1>1, Init_TimeInv, Next_TimeInv, PTL DEF Spec
-----------------------------------------------------------------------------

\* A poisoned mutex is a std one that no thread holds.
PoisonInv ==
  UlidInv /\ (poisoned => kind = "std" /\ \A t \in Threads : pc[t] # "locked")

\* What a step does to the poison, for PoisonIsFinal.
Final == /\ poisoned => poisoned' /\ UNCHANGED mo
         /\ poisoned' # poisoned => kind = "std" /\ UNCHANGED mo
         /\ \A t \in Threads : pc'[t] = "error" /\ pc[t] # "error" => poisoned

LEMMA PoisonSteps ==
  ASSUME PoisonInv, Next
  PROVE  Final /\ (poisoned' => kind' = "std" /\ \A t \in Threads : pc'[t] # "locked")
<1> DEFINE Safe == poisoned' => kind' = "std" /\ \A t \in Threads : pc'[t] # "locked"
<1>a. TypeOK /\ kind' = kind /\ pc \in [Threads -> {"idle", "clock", "load", "cas",
        "lock", "locked", "pending", "error", "panicked"}]
  BY IdSteps DEF PoisonInv, UlidInv, TypeOK
<1>b. poisoned \in BOOLEAN
  BY DEF PoisonInv, UlidInv, TypeOK
<1>1. CASE Tick
  BY <1>1, Zenon DEF Tick, Final, PoisonInv, shared
<1>2. ASSUME NEW t \in Threads,
             \/ CallAtomic(t) \/ CallLock(t) \/ CallLocal(t) \/ CallBasic(t)
             \/ ReadClock(t) \/ RetryAtomic(t) \/ RetryLock(t) \/ RetryLocal(t)
      PROVE  Final /\ Safe
  <2>1. /\ poisoned' = poisoned /\ mo' = mo
    BY <1>2, Zenon DEF CallAtomic, CallLock, CallLocal, CallBasic, ReadClock,
      RetryAtomic, RetryLock, RetryLocal, Poll, shared
  <2>2. \A u \in Threads : /\ pc'[u] = "locked" => pc[u] = "locked"
                           /\ pc'[u] = "error" => pc[u] = "error"
    BY <1>a, <1>2 DEF CallAtomic, CallLock, CallLocal, CallBasic, ReadClock,
      RetryAtomic, RetryLock, RetryLocal, Poll
  <2> QED BY <1>a, <2>1, <2>2, Zenon DEF Final, PoisonInv
<1>3. ASSUME NEW t \in Threads, Lock(t) \/ LockPoisoned(t)
      PROVE  Final /\ Safe
  <2>1. /\ poisoned' = poisoned /\ mo' = mo
    BY <1>3, Zenon DEF Lock, LockPoisoned, shared
  <2>2. \A u \in Threads : /\ pc'[u] = "locked" => pc[u] = "locked" \/ ~ poisoned
                           /\ pc'[u] = "error" => pc[u] = "error" \/ poisoned
    BY <1>a, <1>3 DEF Lock, LockPoisoned
  <2> QED BY <1>a, <2>1, <2>2, Zenon DEF Final, PoisonInv
<1>4. ASSUME NEW t \in Threads,
             \/ PollAtomic(t) \/ PollLocked(t) \/ PollLocal(t) \/ PollBasic(t)
             \/ ExchangeSucceeds(t) \/ ExchangeFails(t)
      PROVE  Final /\ Safe
  <2>1. ~ poisoned
    <3>1. kind # "std" \/ pc[t] = "locked"
      <4>1. CASE PollLocked(t)
        BY <4>1 DEF PollLocked
      <4>2. CASE PollAtomic(t) \/ PollLocal(t) \/ PollBasic(t)
        BY <4>2 DEF PollAtomic, PollLocal, PollBasic
      <4>3. CASE ExchangeSucceeds(t) \/ ExchangeFails(t)
        BY <4>3 DEF ExchangeSucceeds, ExchangeFails, PoisonInv, UlidInv, ThreadInv
      <4> QED BY <1>4, <4>1, <4>2, <4>3
    <3> QED BY <3>1, Zenon DEF PoisonInv
  <2>2. \/ poisoned' = poisoned
        \/ Panic(t)
    BY <1>4, Zenon DEF PollAtomic, PollLocked, PollLocal, PollBasic, ExchangeSucceeds,
      ExchangeFails, Match, Issue, Ready, Propose, Pending, shared
  <2>3. /\ pc'[t] \in {"idle", "cas", "pending", "panicked"}
        /\ \A u \in Threads \ {t} : pc'[u] = pc[u]
    BY <1>a, <1>4, Zenon DEF PollAtomic, PollLocked, PollLocal, PollBasic, ExchangeSucceeds,
      ExchangeFails, Match, Issue, Ready, Propose, Pending, Panic
  <2>4. \A u \in Threads : pc'[u] = "error" => pc[u] = "error"
    BY <2>3
  <2>5. CASE poisoned' = poisoned
    BY <2>1, <2>4, <2>5, Zenon DEF Final
  <2>6. CASE Panic(t)
    <3>1. mo' = mo /\ poisoned' = (kind = "std")
      BY <2>6, Zenon DEF Panic
    <3>2. poisoned' => \A u \in Threads : pc'[u] # "locked"
      <4> SUFFICES ASSUME kind = "std", NEW u \in Threads, pc'[u] = "locked" PROVE FALSE
        BY <3>1, Zenon
      <4>1. pc[t] = "locked"
        BY <1>4, Zenon DEF PollAtomic, PollLocked, PollLocal, PollBasic, ExchangeSucceeds,
          ExchangeFails, PoisonInv, UlidInv, ThreadInv
      <4>2. u # t /\ pc[u] = "locked"
        BY <2>3
      <4> QED BY <4>1, <4>2 DEF PoisonInv, UlidInv, ThreadInv
    <3> QED BY <1>a, <1>b, <2>1, <2>4, <3>1, <3>2, Zenon DEF Final
  <2> QED BY <2>2, <2>5, <2>6
<1> QED BY <1>1, <1>2, <1>3, <1>4 DEF Next, Step

\* Calls fail only on a std mutex that a panic has poisoned, and its id is left
\* as it was.
THEOREM Poisoning == Spec => PoisonIsFinal
<1>1. Init => PoisonInv
  BY Init_UlidInv, Zenon DEF Init, PoisonInv
<1>2. PoisonInv /\ [Next]_vars => PoisonInv'
  <2>1. ASSUME PoisonInv, UNCHANGED vars PROVE PoisonInv'
    <3>1. UlidInv'
      BY <2>1, Next_UlidInv DEF PoisonInv
    <3> QED BY <2>1, <3>1, Zenon DEF PoisonInv, vars, shared
  <2> QED BY <2>1, PoisonSteps, Next_UlidInv, Zenon DEF PoisonInv
<1>3. PoisonInv /\ [Next]_vars => [Final]_vars
  BY PoisonSteps
<1> QED
  BY <1>1, <1>2, <1>3, PTL DEF Spec, PoisonIsFinal, Final
=============================================================================
