----------------------- MODULE AtomicSnowflakeProofs -----------------------
(***************************************************************************)
(* The safety of AtomicSnowflake for any number of threads, any layout and *)
(* any behaviour of the time source within a bound of any size.            *)
(***************************************************************************)
EXTENDS AtomicSnowflake, SnowflakeIdProofs

\* A thread about to exchange offers an id of this generator.
OfferedIds ==
  \A t \in Threads : pc[t] = "cas" => next_id[t] \in IdsOf(MachineId)

TypeInv == TypeOK /\ OfferedIds

\* Initially, and after each step, the variables have their types.
LEMMA TypeInit == Init => TypeInv
<1> SUFFICES ASSUME Init PROVE TypeInv
  OBVIOUS
<1>1. PICK seed \in Seeds : mo = << from_components(seed[1], MachineId, seed[2]) >>
  BY DEF Init
<1>2. from_components(seed[1], MachineId, seed[2]) \in IdsOf(MachineId)
  BY AtomicAssumption, Seeded
<1>3. mo \in Seq(IdsOf(MachineId)) /\ Len(mo) = 1
  BY <1>1, <1>2
<1> QED
  BY <1>3, AtomicAssumption DEF Init, TypeInv, TypeOK, OfferedIds

LEMMA TypeNext == TypeInv /\ [Next]_vars => TypeInv'
<1> SUFFICES ASSUME TypeInv, [Next]_vars PROVE TypeInv'
  OBVIOUS
<1> USE AtomicAssumption DEF TypeInv, TypeOK, OfferedIds
<1>1. CASE Tick
  BY <1>1 DEF Tick
<1>2. ASSUME NEW t \in Threads, Call(t) PROVE TypeInv'
  BY <1>2 DEF Call
<1>3. ASSUME NEW t \in Threads, ReadClock(t) PROVE TypeInv'
  <2>1. PICK n \in Readings(t) : now' = [now EXCEPT ![t] = n]
    BY <1>3, Zenon DEF ReadClock
  <2>2. n \in 0 .. MaxMillis
    BY <2>1 DEF Readings
  <2> QED BY <1>3, <2>1, <2>2 DEF ReadClock
<1>4. ASSUME NEW t \in Threads, Load(t) PROVE TypeInv'
  <2>1. PICK i \in view[t] .. Len(mo) :
          /\ view' = [view EXCEPT ![t] = i]
          /\ \/ /\ has_sequence_room(mo[i])
                /\ Exchange(t, increment_sequence(mo[i]))
             \/ Exchange(t, rollover_to_timestamp(mo[i], now[t]))
             \/ Pending(t, 1)
             \/ /\ now[t] < timestamp(mo[i])
                /\ Pending(t, cold_clock_behind(now[t], timestamp(mo[i])))
             \/ Panic(t)
    BY <1>4, Zenon DEF Load
  <2>2. /\ UNCHANGED <<millis, mo, now>>
        /\ i \in 1 .. Len(mo) /\ mo[i] \in IdsOf(MachineId) /\ now[t] \in Nat
    BY <1>4 DEF Load
  <2>3. view' \in [Threads -> 1 .. Len(mo)]
    BY <2>1, <2>2
  <2>4. ASSUME NEW id \in IdsOf(MachineId), Exchange(t, id) PROVE TypeInv'
    <3>1. id \in Nat
      BY <2>4 DEF IdsOf
    <3>2. /\ pc' \in [Threads -> {"idle", "clock", "load", "cas", "pending", "panicked"}]
          /\ next_id' \in [Threads -> Nat] /\ yield_for' \in [Threads -> Nat]
      BY <2>4, <3>1 DEF Exchange
    <3>3. OfferedIds'
      BY <2>4 DEF Exchange
    <3> QED BY <2>2, <2>3, <3>2, <3>3
  <2>5. ASSUME NEW u \in Nat, Pending(t, u) PROVE TypeInv'
    BY <2>2, <2>3, <2>5 DEF Pending
  <2>6. CASE Panic(t)
    BY <2>2, <2>3, <2>6 DEF Panic
  <2>7. has_sequence_room(mo[i])
          => increment_sequence(mo[i]) \in IdsOf(MachineId)
    BY <2>2, Incremented
  <2>8. rollover_to_timestamp(mo[i], now[t]) \in IdsOf(MachineId)
    BY <2>2, RolledOverMasked
  <2>9. now[t] < timestamp(mo[i])
          => cold_clock_behind(now[t], timestamp(mo[i])) \in Nat
    <3>1. timestamp(mo[i]) \in 0 .. TIMESTAMP_MASK
      BY <2>2, Decomposed, SMTT(30)
    <3>2. TIMESTAMP_MASK \in Int
      BY LayoutAssumption DEF TIMESTAMP_MASK
    <3> QED BY <2>2, <3>1, <3>2 DEF cold_clock_behind
  <2> QED BY <2>1, <2>4, <2>5, <2>6, <2>7, <2>8, <2>9, Zenon
<1>5. ASSUME NEW t \in Threads, ExchangeSucceeds(t) PROVE TypeInv'
  <2>1. next_id[t] \in IdsOf(MachineId)
    BY <1>5 DEF ExchangeSucceeds
  <2>2. mo' \in Seq(IdsOf(MachineId)) /\ Len(mo') = Len(mo) + 1
    BY <1>5, <2>1 DEF ExchangeSucceeds
  <2> QED BY <1>5, <2>2 DEF ExchangeSucceeds
<1>6. ASSUME NEW t \in Threads, ExchangeFails(t) PROVE TypeInv'
  BY <1>6 DEF ExchangeFails, Pending
<1>7. ASSUME NEW t \in Threads, Retry(t) PROVE TypeInv'
  BY <1>7 DEF Retry
<1>8. CASE UNCHANGED vars
  BY <1>8 DEF vars
<1> QED
  BY <1>1, <1>2, <1>3, <1>4, <1>5, <1>6, <1>7, <1>8, Zenon DEF Next, Step

\* Type correctness, in every build: ids keep the machine id of the generator
\* and no reserved bit, even when the timestamp no longer fits its field.
THEOREM TypeCorrect == Spec => []TypeOK
<1>1. TypeInv => TypeOK
  BY DEF TypeInv
<1> QED
  BY <1>1, TypeInit, TypeNext, PTL DEF Spec

-----------------------------------------------------------------------------
(***************************************************************************)
(* Uniqueness needs the timestamp to fit its field: either the time source *)
(* never passes TIMESTAMP_MASK, or the build panics instead of masking.    *)
(***************************************************************************)
TimestampsFit == MaxMillis <= TIMESTAMP_MASK \/ DebugAssertions

\* What a thread offers follows the value it loaded, the way NoSequenceGaps
\* demands, and is stamped with the thread's reading of the clock.
OffersFollow ==
  \A t \in Threads : pc[t] = "cas" =>
    /\ next_id[t] > mo[view[t]]
    /\ timestamp(next_id[t]) = now[t]
    /\ \/ sequence(next_id[t]) = 0
       \/ /\ timestamp(next_id[t]) = timestamp(mo[view[t]])
          /\ sequence(next_id[t]) = sequence(mo[view[t]]) + 1

IssueInv == TypeInv /\ OffersFollow /\ StrictlyIncreasing /\ NoSequenceGaps

\* The step that decides: whatever Load offers follows what it loaded.
LEMMA LoadOffers ==
  ASSUME TimestampsFit, TypeInv, NEW t \in Threads, Load(t), pc'[t] = "cas"
  PROVE  /\ next_id'[t] > mo[view'[t]]
         /\ timestamp(next_id'[t]) = now[t]
         /\ \/ sequence(next_id'[t]) = 0
            \/ /\ timestamp(next_id'[t]) = timestamp(mo[view'[t]])
               /\ sequence(next_id'[t]) = sequence(mo[view'[t]]) + 1
<1> USE AtomicAssumption DEF TypeInv, TypeOK
<1>1. PICK i \in view[t] .. Len(mo) :
        /\ view' = [view EXCEPT ![t] = i]
        /\ \/ /\ now[t] = timestamp(mo[i]) /\ has_sequence_room(mo[i])
              /\ Exchange(t, increment_sequence(mo[i]))
           \/ /\ now[t] > timestamp(mo[i])
              /\ DebugAssertions => ~ FieldOverflow(now[t], MachineId, 0)
              /\ Exchange(t, rollover_to_timestamp(mo[i], now[t]))
           \/ \E u : Pending(t, u)
           \/ Panic(t)
  BY Zenon DEF Load
<1>2. /\ i \in 1 .. Len(mo) /\ mo[i] \in IdsOf(MachineId)
      /\ now[t] \in 0 .. MaxMillis /\ view'[t] = i
      /\ mo[i] \in Nat /\ TIMESTAMP_MASK \in Int
      /\ timestamp(mo[i]) \in 0 .. TIMESTAMP_MASK
  <2>1. /\ i \in 1 .. Len(mo) /\ mo[i] \in IdsOf(MachineId)
        /\ now[t] \in 0 .. MaxMillis /\ view'[t] = i
    BY <1>1
  <2>2. TIMESTAMP_MASK \in Int
    BY LayoutAssumption DEF TIMESTAMP_MASK
  <2> QED BY <2>1, <2>2, Decomposed, Zenon
<1>3. ASSUME now[t] = timestamp(mo[i]), has_sequence_room(mo[i]),
             Exchange(t, increment_sequence(mo[i]))
      PROVE  /\ next_id'[t] > mo[i] /\ timestamp(next_id'[t]) = now[t]
             /\ timestamp(next_id'[t]) = timestamp(mo[i])
             /\ sequence(next_id'[t]) = sequence(mo[i]) + 1
  <2>1. next_id'[t] = increment_sequence(mo[i])
    BY <1>3 DEF Exchange
  <2> QED BY <2>1, <1>2, <1>3, Incremented
<1>4. ASSUME now[t] > timestamp(mo[i]),
             DebugAssertions => ~ FieldOverflow(now[t], MachineId, 0),
             Exchange(t, rollover_to_timestamp(mo[i], now[t]))
      PROVE  /\ next_id'[t] > mo[i] /\ timestamp(next_id'[t]) = now[t]
             /\ sequence(next_id'[t]) = 0
  <2>1. next_id'[t] = rollover_to_timestamp(mo[i], now[t])
    BY <1>4 DEF Exchange
  <2>2. now[t] \in 0 .. TIMESTAMP_MASK
    BY <1>2, <1>4 DEF TimestampsFit, FieldOverflow
  <2> QED BY <2>1, <2>2, <1>2, <1>4, RolledOver
<1>5. ~ (\E u : Pending(t, u)) /\ ~ Panic(t)
  BY DEF Pending, Panic
<1> QED
  BY <1>1, <1>2, <1>3, <1>4, <1>5

LEMMA IssueInit == Init => IssueInv
<1> SUFFICES ASSUME Init PROVE IssueInv
  OBVIOUS
<1>1. TypeInv
  BY TypeInit
<1>2. Len(mo) = 1
  <2>1. PICK x : mo = << x >>
    BY Zenon DEF Init
  <2> QED BY <2>1
<1> QED
  BY <1>1, <1>2 DEF Init, IssueInv, OffersFollow, StrictlyIncreasing, NoSequenceGaps

LEMMA IssueNext ==
  ASSUME TimestampsFit
  PROVE  IssueInv /\ [Next]_vars => IssueInv'
<1> SUFFICES ASSUME IssueInv, [Next]_vars PROVE IssueInv'
  OBVIOUS
<1>0. TypeInv /\ TypeInv'
  BY TypeNext DEF IssueInv
<1> USE <1>0 DEF IssueInv, TypeInv, TypeOK, OffersFollow
<1>a. ASSUME UNCHANGED mo
      PROVE  StrictlyIncreasing' /\ NoSequenceGaps'
  BY <1>a DEF StrictlyIncreasing, NoSequenceGaps
<1>1. CASE Tick
  BY <1>1, <1>a DEF Tick
<1>2. ASSUME NEW t \in Threads, Call(t) PROVE IssueInv'
  BY <1>2, <1>a DEF Call
<1>3. ASSUME NEW t \in Threads, ReadClock(t) PROVE IssueInv'
  BY <1>3, <1>a DEF ReadClock
<1>4. ASSUME NEW t \in Threads, Load(t) PROVE IssueInv'
  <2>1. UNCHANGED <<millis, mo, now>>
    BY <1>4 DEF Load
  <2>2. ASSUME NEW u \in Threads, u # t
        PROVE  pc'[u] = pc[u] /\ next_id'[u] = next_id[u] /\ view'[u] = view[u]
    BY <1>4, <2>2, ZenonT(30) DEF Load, Exchange, Pending, Panic
  <2>3. OffersFollow'
    BY <1>4, <2>1, <2>2, LoadOffers, ZenonT(40)
  <2> QED BY <2>1, <2>3, <1>a
<1>5. ASSUME NEW t \in Threads, ExchangeSucceeds(t) PROVE IssueInv'
  <2>1. /\ mo' = Append(mo, next_id[t]) /\ Len(mo') = Len(mo) + 1
        /\ mo'[Len(mo) + 1] = next_id[t]
        /\ \A i \in 1 .. Len(mo) : mo'[i] = mo[i]
        /\ Newest = mo[view[t]] /\ pc[t] = "cas" /\ Newest = mo[Len(mo)]
        /\ pc' = [pc EXCEPT ![t] = "idle"]
        /\ UNCHANGED <<now, next_id>>
        /\ view' = [view EXCEPT ![t] = Len(mo) + 1]
    BY <1>5 DEF ExchangeSucceeds, Newest
  <2>2. /\ \A i \in 1 .. Len(mo) : mo[i] \in Nat
        /\ Len(mo) \in Nat \ {0} /\ next_id[t] \in Nat
    <3>1. \A i \in 1 .. Len(mo) : mo[i] \in IdsOf(MachineId)
      OBVIOUS
    <3>2. IdsOf(MachineId) \subseteq Nat
      BY DEF IdsOf
    <3>3. Len(mo) \in Nat \ {0} /\ next_id[t] \in Nat
      OBVIOUS
    <3> QED BY <3>1, <3>2, <3>3
  <2>3. \A i \in 1 .. Len(mo) : mo[i] < next_id[t]
    <3> SUFFICES ASSUME NEW i \in 1 .. Len(mo) PROVE mo[i] < next_id[t]
      OBVIOUS
    <3>1. mo[Len(mo)] < next_id[t]
      BY <2>1, <2>2, Zenon
    <3>2. i = Len(mo) \/ mo[i] < mo[Len(mo)]
      BY DEF StrictlyIncreasing
    <3>3. mo[i] \in Nat /\ mo[Len(mo)] \in Nat
      BY <2>2
    <3> HIDE <1>0 DEF IssueInv, TypeInv, TypeOK, OffersFollow
    <3> QED BY <3>1, <3>2, <3>3, <2>2
  <2>4. StrictlyIncreasing'
    <3> SUFFICES ASSUME NEW i \in 1 .. Len(mo) + 1, NEW j \in 1 .. Len(mo) + 1, i < j
                 PROVE  mo'[i] < mo'[j]
      BY <2>1 DEF StrictlyIncreasing
    <3>1. CASE j = Len(mo) + 1
      BY <3>1, <2>1, <2>3
    <3>2. CASE j # Len(mo) + 1
      <4>1. i \in 1 .. Len(mo) /\ j \in 1 .. Len(mo)
        <5> HIDE <1>0 DEF IssueInv, TypeInv, TypeOK, OffersFollow
        <5> QED BY <3>2, <2>2
      <4> QED BY <4>1, <2>1 DEF StrictlyIncreasing
    <3> QED BY <3>1, <3>2
  <2>5. NoSequenceGaps'
    <3> SUFFICES ASSUME NEW i \in 2 .. Len(mo) + 1
                 PROVE  \/ sequence(mo'[i]) = 0
                        \/ /\ timestamp(mo'[i]) = timestamp(mo'[i - 1])
                           /\ sequence(mo'[i]) = sequence(mo'[i - 1]) + 1
      BY <2>1, Zenon DEF NoSequenceGaps
    <3>1. CASE i = Len(mo) + 1
      <4>1. i - 1 = Len(mo) /\ mo'[i] = next_id[t] /\ mo'[i - 1] = mo[view[t]]
        BY <3>1, <2>1
      <4> QED BY <4>1, <2>1, Zenon
    <3>2. CASE i # Len(mo) + 1
      <4>1. i \in 2 .. Len(mo) /\ mo'[i] = mo[i] /\ mo'[i - 1] = mo[i - 1]
        BY <3>2, <2>1
      <4> QED BY <4>1 DEF NoSequenceGaps
    <3> QED BY <3>1, <3>2
  <2>6. OffersFollow'
    <3> SUFFICES ASSUME NEW u \in Threads, pc'[u] = "cas"
                 PROVE  (/\ next_id[u] > mo[view[u]]
                         /\ timestamp(next_id[u]) = now[u]
                         /\ \/ sequence(next_id[u]) = 0
                            \/ /\ timestamp(next_id[u]) = timestamp(mo[view[u]])
                               /\ sequence(next_id[u]) = sequence(mo[view[u]]) + 1)
                        /\ mo'[view'[u]] = mo[view[u]]
      BY <2>1, SMTT(30)
    <3>1. u # t /\ pc[u] = "cas" /\ view'[u] = view[u] /\ view[u] \in 1 .. Len(mo)
      BY <2>1
    <3> QED BY <3>1, <2>1
  <2> QED BY <2>4, <2>5, <2>6
<1>6. ASSUME NEW t \in Threads, ExchangeFails(t) PROVE IssueInv'
  BY <1>6, <1>a DEF ExchangeFails, Pending
<1>7. ASSUME NEW t \in Threads, Retry(t) PROVE IssueInv'
  BY <1>7, <1>a DEF Retry
<1>8. CASE UNCHANGED vars
  BY <1>8, <1>a DEF vars
<1> QED
  BY <1>1, <1>2, <1>3, <1>4, <1>5, <1>6, <1>7, <1>8, Zenon DEF Next, Step

\* The ids of an AtomicSnowflakeGenerator are strictly increasing in order of
\* issue, for any number of threads racing with relaxed loads and whatever
\* the time source returns.
THEOREM Unique ==
  ASSUME TimestampsFit
  PROVE  Spec => []StrictlyIncreasing
<1>1. IssueInv => StrictlyIncreasing
  BY DEF IssueInv
<1> QED
  BY <1>1, IssueInit, IssueNext, PTL DEF Spec

\* Within a tick the sequence numbers are handed out without a hole.
THEOREM Gapless ==
  ASSUME TimestampsFit
  PROVE  Spec => []NoSequenceGaps
<1>1. IssueInv => NoSequenceGaps
  BY DEF IssueInv
<1> QED
  BY <1>1, IssueInit, IssueNext, PTL DEF Spec

\* The generator implements the abstract issuer: each step leaves the shared
\* state alone or issues one id, greater than all before, of the same machine.
THEOREM Refinement ==
  ASSUME TimestampsFit
  PROVE  Spec => IssuerSpec
<1>1. Init => Issuer!Init
  <2> SUFFICES ASSUME Init PROVE Newest \in IdsOf(MachineId) /\ Len(mo) - 1 = 0
    BY DEF Issuer!Init
  <2>1. mo \in Seq(IdsOf(MachineId)) /\ Len(mo) = 1
    BY TypeInit DEF Init, TypeInv, TypeOK
  <2>2. Newest = mo[1] /\ Len(mo) - 1 = 0
    BY <2>1 DEF Newest
  <2> DEFINE Ids == IdsOf(MachineId)
  <2> HIDE DEF Ids
  <2>3. mo \in Seq(Ids) /\ 1 \in 1 .. Len(mo)
    BY <2>1 DEF Ids
  <2>4. mo[1] \in Ids
    BY ONLY <2>3
  <2> QED BY <2>2, <2>4 DEF Ids
<1>2. IssueInv /\ [Next]_vars => [Issuer!Issue]_(Issuer!vars)
  <2> SUFFICES ASSUME IssueInv, [Next]_vars, Newest' # Newest \/ Len(mo)' - 1 # Len(mo) - 1
               PROVE  Issuer!Issue
    BY DEF Issuer!vars
  <2>1. PICK t \in Threads : ExchangeSucceeds(t)
    <3>1. mo' # mo
      BY DEF Newest
    <3> QED
      BY <3>1 DEF Next, Step, Tick, Call, ReadClock, Load, ExchangeFails, Retry, vars
  <2>2. /\ mo \in Seq(IdsOf(MachineId)) /\ pc[t] = "cas"
        /\ next_id[t] \in IdsOf(MachineId) /\ Newest = mo[view[t]]
        /\ mo' = Append(mo, next_id[t])
    BY <2>1 DEF ExchangeSucceeds, IssueInv, TypeInv, TypeOK, OfferedIds
  <2>3. Newest' = next_id[t] /\ next_id[t] > Newest
    BY <2>2 DEF Newest, IssueInv, OffersFollow
  <2>4. Len(mo)' - 1 = Len(mo) - 1 + 1
    BY <2>2
  <2> QED BY <2>2, <2>3, <2>4 DEF Issuer!Issue
<1> QED
  BY <1>1, <1>2, IssueInit, IssueNext, PTL DEF Spec, IssuerSpec, Issuer!Spec

-----------------------------------------------------------------------------
(***************************************************************************)
(* With MonotonicClock, ids and back-offs are related to the time.         *)
(***************************************************************************)
ReadingsPast == \A t \in Threads : now[t] <= millis

TimeInv == IssueInv /\ ReadingsPast /\ NoFutureTimestamp /\ BackoffBounded

LEMMA TimeInit == Init => TimeInv
<1> SUFFICES ASSUME Init PROVE TimeInv
  OBVIOUS
<1>1. IssueInv
  BY IssueInit
<1>2. Len(mo) = 1
  BY DEF Init
<1> QED
  BY <1>1, <1>2 DEF Init, TimeInv, ReadingsPast, NoFutureTimestamp, BackoffBounded

LEMMA TimeNext ==
  ASSUME TimestampsFit, Monotonic
  PROVE  TimeInv /\ [Next]_vars => TimeInv'
<1> SUFFICES ASSUME TimeInv, [Next]_vars PROVE TimeInv'
  OBVIOUS
<1>0. IssueInv /\ IssueInv'
  BY IssueNext DEF TimeInv
<1>a. /\ millis \in Nat /\ \A t \in Threads : now[t] \in Nat /\ yield_for[t] \in Nat
      /\ mo \in Seq(IdsOf(MachineId)) /\ Len(mo) \in Nat \ {0}
      /\ view \in [Threads -> 1 .. Len(mo)]
      /\ now \in [Threads -> 0 .. MaxMillis] /\ DOMAIN pc = Threads
      /\ DOMAIN yield_for = Threads
  BY <1>0, AtomicAssumption DEF IssueInv, TypeInv, TypeOK
<1>b. \A i \in 1 .. Len(mo) : timestamp(mo[i]) \in Nat
  <2>1. \A i \in 1 .. Len(mo) : mo[i] \in IdsOf(MachineId)
    BY <1>a
  <2>2. TIMESTAMP_MASK \in Int
    BY LayoutAssumption DEF TIMESTAMP_MASK
  <2> QED BY <2>1, <2>2, AtomicAssumption, Decomposed
<1>c. 1 \in 1 .. Len(mo) /\ timestamp(mo[1]) \in Nat
  BY <1>a, <1>b
<1> USE DEF TimeInv, ReadingsPast, NoFutureTimestamp, BackoffBounded
<1>1. CASE Tick
  <2>1. /\ millis' \in Nat /\ millis < millis'
        /\ UNCHANGED <<mo, pc, now, view, next_id, yield_for>>
    BY <1>1, <1>a, AtomicAssumption DEF Tick
  <2>2. ReadingsPast'
    BY <2>1, <1>a
  <2>3. NoFutureTimestamp'
    BY <2>1, <1>a, <1>b
  <2>4. BackoffBounded'
    <3> SUFFICES ASSUME NEW t \in Threads, pc[t] = "pending"
                 PROVE  \/ now[t] + yield_for[t] <= millis' + 1
                        \/ now[t] + yield_for[t] <= timestamp(mo[1]) + 1
      BY <2>1
    <3>1. \/ now[t] + yield_for[t] <= millis + 1
          \/ now[t] + yield_for[t] <= timestamp(mo[1]) + 1
      OBVIOUS
    <3>2. now[t] + yield_for[t] \in Nat
      BY <1>a
    <3> QED BY <3>1, <3>2, <2>1, <1>a
  <2> QED BY <2>2, <2>3, <2>4, <1>0
<1>2. ASSUME NEW t \in Threads, Call(t) \/ Retry(t) PROVE TimeInv'
  <2>1. /\ UNCHANGED <<millis, mo, now, yield_for>>
        /\ pc' = [pc EXCEPT ![t] = "clock"]
    BY <1>2 DEF Call, Retry
  <2> QED BY <2>1, <1>0, <1>a
<1>3. ASSUME NEW t \in Threads, ReadClock(t) PROVE TimeInv'
  <2>1. PICK n \in now[t] .. millis : now' = [now EXCEPT ![t] = n]
    BY <1>3, Zenon DEF ReadClock, Readings
  <2>2. /\ UNCHANGED <<millis, mo, yield_for>>
        /\ pc' = [pc EXCEPT ![t] = "load"] /\ n <= millis
    BY <1>3, <1>a, <2>1 DEF ReadClock
  <2> QED BY <2>1, <2>2, <1>0, <1>a
<1>4. ASSUME NEW t \in Threads, Load(t) PROVE TimeInv'
  <2>1. /\ UNCHANGED <<millis, mo, now>>
        /\ \A u \in Threads : u # t => pc'[u] = pc[u] /\ yield_for'[u] = yield_for[u]
    BY <1>4, <1>a DEF Load, Exchange, Pending, Panic
  <2>2. PICK i \in view[t] .. Len(mo) :
          \/ pc'[t] # "pending"
          \/ pc'[t] = "pending" /\ yield_for'[t] = 1
          \/ /\ now[t] < timestamp(mo[i])
             /\ yield_for'[t] = timestamp(mo[i]) - now[t]
    BY <1>4, <1>a DEF Load, Exchange, Pending, Panic, cold_clock_behind
  <2>3. i \in 1 .. Len(mo) /\ timestamp(mo[i]) \in Nat
    BY <1>a, <1>b, <2>2
  <2>4. i = 1 \/ timestamp(mo[i]) <= millis
    BY <2>3
  <2>5. pc'[t] = "pending" =>
          \/ now[t] + yield_for'[t] <= millis + 1
          \/ now[t] + yield_for'[t] <= timestamp(mo[1]) + 1
    BY <2>2, <2>3, <2>4, <1>a, <1>c, SMTT(30)
  <2> QED BY <2>1, <2>5, <1>0
<1>5. ASSUME NEW t \in Threads, ExchangeSucceeds(t) PROVE TimeInv'
  <2>1. /\ UNCHANGED <<millis, now, yield_for>> /\ pc[t] = "cas"
        /\ pc' = [pc EXCEPT ![t] = "idle"]
        /\ mo' = Append(mo, next_id[t]) /\ Len(mo') = Len(mo) + 1
        /\ mo'[Len(mo) + 1] = next_id[t]
        /\ \A i \in 1 .. Len(mo) : mo'[i] = mo[i]
    BY <1>5, <1>a DEF ExchangeSucceeds
  <2>2. timestamp(next_id[t]) <= millis
    BY <2>1, <1>0 DEF IssueInv, OffersFollow
  <2>3. NoFutureTimestamp'
    <3> SUFFICES ASSUME NEW i \in 2 .. Len(mo) + 1
                 PROVE  timestamp(mo'[i]) <= millis
      BY <2>1
    <3>1. i = Len(mo) + 1 \/ i \in 2 .. Len(mo)
      BY <1>a
    <3> QED BY <3>1, <2>1, <2>2
  <2>4. BackoffBounded'
    <3>1. mo'[1] = mo[1]
      BY <2>1, <1>c
    <3>2. \A u \in Threads : pc'[u] = "pending" => pc[u] = "pending"
      BY <2>1, <1>a
    <3> QED BY <2>1, <3>1, <3>2
  <2> QED BY <2>1, <2>3, <2>4, <1>0
<1>6. ASSUME NEW t \in Threads, ExchangeFails(t) PROVE TimeInv'
  <2>1. /\ UNCHANGED <<millis, mo, now>>
        /\ pc' = [pc EXCEPT ![t] = "pending"]
        /\ yield_for' = [yield_for EXCEPT ![t] = 0]
    BY <1>6 DEF ExchangeFails, Pending
  <2>2. now[t] + 0 <= millis + 1
    BY <1>a
  <2> QED BY <2>1, <2>2, <1>0, <1>a
<1>7. CASE UNCHANGED vars
  BY <1>7, <1>0 DEF vars
<1> QED
  BY <1>1, <1>2, <1>3, <1>4, <1>5, <1>6, <1>7 DEF Next, Step

\* With MonotonicClock no id is stamped with a time that has not come.
THEOREM NoFuture ==
  ASSUME TimestampsFit, Monotonic
  PROVE  Spec => []NoFutureTimestamp
<1>1. TimeInv => NoFutureTimestamp
  BY DEF TimeInv
<1> QED
  BY <1>1, TimeInit, TimeNext, PTL DEF Spec

\* With MonotonicClock the back-off poll_id asks for is bounded, however
\* stale the caller's readings are and however many threads contend.
THEOREM Backoff ==
  ASSUME TimestampsFit, Monotonic
  PROVE  Spec => []BackoffBounded
<1>1. TimeInv => BackoffBounded
  BY DEF TimeInv
<1> QED
  BY <1>1, TimeInit, TimeNext, PTL DEF Spec
=============================================================================
