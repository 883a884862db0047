------------------------ MODULE LockSnowflakeProofs ------------------------
(***************************************************************************)
(* The safety of LockSnowflake for any number of threads, any layout, both *)
(* kinds of mutex and both kinds of build.                                 *)
(***************************************************************************)
EXTENDS LockSnowflake, SnowflakeIdProofs

\* The invariant is inductive as it stands: the holder is the only thread in
\* the critical section, so what it read there stays true until it leaves.
LockInv == TypeOK /\ NoLostUpdate

LEMMA LockInit == Init => LockInv
<1> SUFFICES ASSUME Init PROVE LockInv
  OBVIOUS
<1>1. state \in IdsOf(MachineId)
  BY LockAssumption, Seeded DEF Init
<1>2. poisoned \in BOOLEAN
  BY Zenon DEF Init
<1>3. millis \in 0 .. MaxMillis /\ now \in [Threads -> 0 .. MaxMillis]
  BY LockAssumption DEF Init
<1>4. NoLostUpdate
  BY DEF Init, NoLostUpdate
<1> QED
  BY <1>1, <1>2, <1>3, <1>4 DEF Init, LockInv, TypeOK

\* What Decide may do to the state and to the thread that holds the lock.
LEMMA DecideCases ==
  ASSUME TypeOK, NEW t \in Threads, Decide(t)
  PROVE  /\ pc[t] = "locked" /\ UNCHANGED <<millis, now, current>>
         /\ \/ /\ now[t] = timestamp(current[t]) /\ has_sequence_room(current[t])
               /\ Ready(t, increment_sequence(current[t]))
            \/ /\ now[t] > timestamp(current[t])
               /\ DebugAssertions => ~ FieldOverflow(now[t], MachineId, 0)
               /\ Ready(t, rollover_to_timestamp(current[t], now[t]))
            \/ Pending(t, 1)
            \/ /\ now[t] < timestamp(current[t])
               /\ Pending(t, cold_clock_behind(now[t], timestamp(current[t])))
            \/ Panic(t)
  BY DEF Decide

LEMMA LockNext == LockInv /\ [Next]_vars => LockInv'
<1> SUFFICES ASSUME LockInv, [Next]_vars PROVE LockInv'
  OBVIOUS
<1> USE LockAssumption DEF LockInv, TypeOK, NoLostUpdate
<1>1. CASE Tick
  BY <1>1 DEF Tick
<1>2. ASSUME NEW t \in Threads, Call(t) PROVE LockInv'
  BY <1>2 DEF Call
<1>3. ASSUME NEW t \in Threads, ReadClock(t) PROVE LockInv'
  <2>1. PICK n \in now[t] .. millis : now' = [now EXCEPT ![t] = n]
    BY <1>3, Zenon DEF ReadClock
  <2>2. n \in 0 .. MaxMillis
    BY <2>1
  <2> QED BY <1>3, <2>1, <2>2 DEF ReadClock
<1>4. ASSUME NEW t \in Threads, Lock(t) PROVE LockInv'
  <2>1. state \in Nat
    BY DEF IdsOf
  <2>2. TypeOK'
    BY <1>4, <2>1 DEF Lock
  <2>3. NoLostUpdate'
    <3> SUFFICES ASSUME NEW u \in Threads, pc'[u] = "locked"
                 PROVE  holder' = u /\ current'[u] = state'
      OBVIOUS
    <3>1. u = t
      BY <1>4 DEF Lock
    <3> QED BY <1>4, <3>1 DEF Lock
  <2> QED BY <2>2, <2>3
<1>5. ASSUME NEW t \in Threads, LockPoisoned(t) PROVE LockInv'
  BY <1>5 DEF LockPoisoned
<1>6. ASSUME NEW t \in Threads, Decide(t) PROVE LockInv'
  <2>1. /\ holder = t /\ current[t] = state /\ state \in IdsOf(MachineId)
        /\ now[t] \in Nat
    BY <1>6 DEF Decide
  <2>2. \A u \in Threads : pc[u] = "locked" => u = t
    BY <2>1
  <2>3. UNCHANGED <<millis, now, current>>
    BY <1>6, DecideCases
  <2>4. ASSUME NEW id \in IdsOf(MachineId), Ready(t, id) PROVE LockInv'
    BY <2>2, <2>3, <2>4 DEF Ready
  <2>5. ASSUME NEW u \in Nat, Pending(t, u) PROVE LockInv'
    BY <2>2, <2>3, <2>5 DEF Pending
  <2>6. CASE Panic(t)
    BY <2>2, <2>3, <2>6 DEF Panic
  <2>7. has_sequence_room(state) => increment_sequence(state) \in IdsOf(MachineId)
    BY <2>1, Incremented
  <2>8. rollover_to_timestamp(state, now[t]) \in IdsOf(MachineId)
    BY <2>1, RolledOverMasked
  <2>9. now[t] < timestamp(state)
          => cold_clock_behind(now[t], timestamp(state)) \in Nat
    <3>1. timestamp(state) \in 0 .. TIMESTAMP_MASK
      BY <2>1, Decomposed
    <3>2. TIMESTAMP_MASK \in Int
      BY LayoutAssumption DEF TIMESTAMP_MASK
    <3> QED BY <2>1, <3>1, <3>2 DEF cold_clock_behind
  <2> QED BY <1>6, <2>1, <2>4, <2>5, <2>6, <2>7, <2>8, <2>9, DecideCases
<1>7. ASSUME NEW t \in Threads, Retry(t) PROVE LockInv'
  BY <1>7 DEF Retry
<1>8. CASE UNCHANGED vars
  BY <1>8 DEF vars
<1> QED
  BY <1>1, <1>2, <1>3, <1>4, <1>5, <1>6, <1>7, <1>8 DEF Next, Step

\* The guard protects the whole of try_poll_id's read-modify-write, on every
\* path, panics included: no update is lost.
THEOREM NoUpdateLost == Spec => []NoLostUpdate
<1>1. LockInv => NoLostUpdate
  BY DEF LockInv
<1> QED
  BY <1>1, LockInit, LockNext, PTL DEF Spec

\* Types, in every build and with both kinds of mutex: the state always is an
\* id of this machine, also after a panic.
THEOREM TypeCorrect == Spec => []TypeOK
<1>1. LockInv => TypeOK
  BY DEF LockInv
<1> QED
  BY <1>1, LockInit, LockNext, PTL DEF Spec

\* The timestamp fits its field, or the build panics instead of masking it.
TimestampsFit == MaxMillis <= TIMESTAMP_MASK \/ DebugAssertions

\* The lock generator implements the abstract issuer, with std and with
\* parking_lot: every id is greater than all issued before.
THEOREM Refinement ==
  ASSUME TimestampsFit
  PROVE  Spec => IssuerSpec
<1>1. Init => Issuer!Init
  BY LockInit DEF Init, LockInv, TypeOK, Issuer!Init
<1>2. LockInv /\ LockInv' /\ [Next]_vars => [Issuer!Issue]_(Issuer!vars)
  <2> SUFFICES ASSUME LockInv, LockInv', [Next]_vars, state' # state \/ issued' # issued
               PROVE  Issuer!Issue
    BY DEF Issuer!vars
  <2>1. PICK t \in Threads : Decide(t)
    BY DEF Next, Step, Tick, Call, ReadClock, Lock, LockPoisoned, Retry, vars
  <2>2. /\ current[t] = state /\ now[t] \in 0 .. MaxMillis
        /\ state \in IdsOf(MachineId) /\ state' \in IdsOf(MachineId)
        /\ MaxMillis \in Nat /\ MachineId \in 0 .. MACHINE_ID_MASK
    BY <2>1, LockAssumption DEF LockInv, TypeOK, NoLostUpdate, Decide
  <2>3. \/ has_sequence_room(state) /\ state' = increment_sequence(state)
        \/ /\ now[t] > timestamp(state)
           /\ DebugAssertions => ~ FieldOverflow(now[t], MachineId, 0)
           /\ state' = rollover_to_timestamp(state, now[t])
    BY <2>1, <2>2, DecideCases DEF LockInv, Ready, Pending, Panic
  <2>a. issued' = issued + 1
    BY <2>1, DecideCases DEF LockInv, Ready, Pending, Panic
  <2>4. state \in Nat /\ TIMESTAMP_MASK \in Int
    <3>1. state \in Nat
      BY <2>2 DEF IdsOf
    <3>2. TIMESTAMP_MASK \in Int
      BY LayoutAssumption DEF TIMESTAMP_MASK
    <3> QED BY <3>1, <3>2
  <2>5. CASE has_sequence_room(state) /\ state' = increment_sequence(state)
    BY <2>2, <2>4, <2>5, <2>a, Incremented DEF Issuer!Issue
  <2>6. CASE /\ now[t] > timestamp(state)
             /\ DebugAssertions => ~ FieldOverflow(now[t], MachineId, 0)
             /\ state' = rollover_to_timestamp(state, now[t])
    <3>1. now[t] \in 0 .. TIMESTAMP_MASK
      BY <2>2, <2>4, <2>6 DEF TimestampsFit, FieldOverflow
    <3>2. timestamp(state) \in 0 .. TIMESTAMP_MASK
      BY <2>2, Decomposed
    <3>3. timestamp(state) < now[t]
      BY <2>4, <2>6, <3>1, <3>2
    <3>4. state' > state
      BY <2>2, <2>6, <3>1, <3>3, RolledOver
    <3> QED BY <2>2, <2>a, <3>4 DEF Issuer!Issue
  <2> QED BY <2>3, <2>5, <2>6
<1> QED
  BY <1>1, <1>2, LockInit, LockNext, PTL DEF Spec, IssuerSpec, Issuer!Spec
-----------------------------------------------------------------------------

\* A std mutex poisoned by a panic stays poisoned with the id intact, and no
\* other event makes a call fail.
THEOREM Poisoning == Spec => PoisonIsFinal
<1> DEFINE Final == /\ poisoned => poisoned' /\ UNCHANGED <<state, issued>>
                    /\ poisoned' # poisoned => UNCHANGED <<state, issued>> /\ ~ ParkingLot
                    /\ \A t \in Threads : pc'[t] = "error" /\ pc[t] # "error" => poisoned
           PoisonInv == /\ LockInv
                        /\ poisoned => \A t \in Threads : pc[t] # "locked"
<1>1. Init => PoisonInv
  BY LockInit, Zenon DEF Init
<1>2. PoisonInv /\ [Next]_vars => PoisonInv'
  <2> SUFFICES ASSUME PoisonInv, [Next]_vars
               PROVE  poisoned' => \A t \in Threads : pc'[t] # "locked"
    BY LockNext
  <2> USE DEF LockInv, TypeOK, NoLostUpdate
  <2>1. CASE Tick \/ UNCHANGED vars
    BY <2>1, Zenon DEF Tick, vars
  <2>2. ASSUME NEW t \in Threads,
               Call(t) \/ ReadClock(t) \/ Lock(t) \/ LockPoisoned(t) \/ Retry(t)
        PROVE  poisoned' => \A u \in Threads : pc'[u] # "locked"
    BY <2>2, Zenon DEF Call, ReadClock, Lock, LockPoisoned, Retry
  <2>3. ASSUME NEW t \in Threads, Decide(t)
        PROVE  poisoned' => \A u \in Threads : pc'[u] # "locked"
    BY <2>3, DecideCases, Zenon DEF Ready, Pending, Panic
  <2> QED BY <2>1, <2>2, <2>3 DEF Next, Step
<1>3. PoisonInv /\ [Next]_vars => [Final]_vars
  <2> SUFFICES ASSUME PoisonInv, Next PROVE Final
    OBVIOUS
  <2> USE DEF LockInv, TypeOK
  <2>1. CASE Tick
    BY <2>1 DEF Tick
  <2>2. ASSUME NEW t \in Threads,
               Call(t) \/ ReadClock(t) \/ Lock(t) \/ LockPoisoned(t) \/ Retry(t)
        PROVE  Final
    BY <2>2 DEF Call, ReadClock, Lock, LockPoisoned, Retry
  <2>3. ASSUME NEW t \in Threads, Decide(t) PROVE Final
    <3>1. pc[t] = "locked" /\ ~ poisoned
      BY <2>3 DEF Decide
    <3> QED BY <2>3, <3>1, DecideCases, LockAssumption DEF Ready, Pending, Panic
  <2> QED BY <2>1, <2>2, <2>3 DEF Next, Step
<1> HIDE DEF PoisonInv
<1> QED
  BY <1>1, <1>2, <1>3, PTL DEF Spec, PoisonIsFinal
-----------------------------------------------------------------------------

\* What every step means for the state and the clock.
LEMMA StateSteps ==
  ASSUME LockInv, [Next]_vars, state' # state \/ issued' # issued
  PROVE  \E t \in Threads :
           /\ state \in IdsOf(MachineId) /\ now[t] \in 0 .. MaxMillis
           /\ UNCHANGED millis
           /\ \/ /\ has_sequence_room(state)
                 /\ state' = increment_sequence(state)
              \/ /\ now[t] > timestamp(state)
                 /\ DebugAssertions => ~ FieldOverflow(now[t], MachineId, 0)
                 /\ state' = rollover_to_timestamp(state, now[t])
<1>1. PICK t \in Threads : Decide(t)
  BY DEF Next, Step, Tick, Call, ReadClock, Lock, LockPoisoned, Retry, vars
<1>2. current[t] = state /\ now[t] \in 0 .. MaxMillis /\ state \in IdsOf(MachineId)
  BY <1>1 DEF LockInv, TypeOK, NoLostUpdate, Decide
<1> QED
  BY <1>1, <1>2, DecideCases DEF LockInv, Ready, Pending, Panic

\* Readings are of the past, whatever happened since they were taken.
ReadingsPast == \A t \in Threads : now[t] <= millis

ClockInv == LockInv /\ ReadingsPast

LEMMA ClockInit == Init => ClockInv
  BY LockInit DEF Init, ClockInv, ReadingsPast

LEMMA ClockNext == ClockInv /\ [Next]_vars => ClockInv'
<1> SUFFICES ASSUME ClockInv, [Next]_vars PROVE ReadingsPast'
  BY LockNext DEF ClockInv
<1> SUFFICES ASSUME NEW u \in Threads PROVE now'[u] <= millis'
  BY DEF ReadingsPast
<1>0. /\ now[u] <= millis /\ millis \in Nat /\ now \in [Threads -> 0 .. MaxMillis]
      /\ MaxMillis \in Nat /\ now[u] \in Nat
  BY LockAssumption DEF ClockInv, ReadingsPast, LockInv, TypeOK
<1>1. CASE Tick
  BY <1>0, <1>1 DEF Tick
<1>2. ASSUME NEW t \in Threads, ReadClock(t) PROVE now'[u] <= millis'
  BY <1>0, <1>2 DEF ReadClock
<1>3. CASE UNCHANGED <<now, millis>>
  BY <1>0, <1>3
<1> QED
  BY <1>1, <1>2, <1>3 DEF Next, Step, Call, Lock, LockPoisoned, Decide, Retry, vars

\* Ids follow each other without a hole in the sequence, and no id is issued
\* before the clock has reached its tick.
THEOREM Gapless ==
  ASSUME TimestampsFit
  PROVE  Spec => NoSequenceGaps
<1> DEFINE Follows == issued' # issued =>
                        \/ state' = state + 1 /\ timestamp(state') = timestamp(state)
                        \/ sequence(state') = 0 /\ timestamp(state') <= millis
<1>1. ClockInv /\ [Next]_vars => [Follows]_vars
  <2> SUFFICES ASSUME ClockInv, [Next]_vars, issued' # issued
               PROVE  \/ state' = state + 1 /\ timestamp(state') = timestamp(state)
                      \/ sequence(state') = 0 /\ timestamp(state') <= millis
    OBVIOUS
  <2>1. PICK t \in Threads :
           /\ state \in IdsOf(MachineId) /\ now[t] \in 0 .. MaxMillis
           /\ \/ /\ has_sequence_room(state)
                 /\ state' = increment_sequence(state)
              \/ /\ now[t] > timestamp(state)
                 /\ DebugAssertions => ~ FieldOverflow(now[t], MachineId, 0)
                 /\ state' = rollover_to_timestamp(state, now[t])
    BY StateSteps DEF ClockInv
  <2>2. CASE has_sequence_room(state) /\ state' = increment_sequence(state)
    BY <2>1, <2>2, LockAssumption, Incremented
  <2>3. CASE /\ now[t] > timestamp(state)
             /\ DebugAssertions => ~ FieldOverflow(now[t], MachineId, 0)
             /\ state' = rollover_to_timestamp(state, now[t])
    <3>1. TIMESTAMP_MASK \in Int /\ MaxMillis \in Nat
      BY LayoutAssumption, LockAssumption DEF TIMESTAMP_MASK
    <3>2. now[t] \in 0 .. TIMESTAMP_MASK
      BY <2>1, <2>3, <3>1 DEF TimestampsFit, FieldOverflow
    <3>3. timestamp(state) \in 0 .. TIMESTAMP_MASK
      BY <2>1, LockAssumption, Decomposed
    <3>4. timestamp(state) < now[t]
      BY <2>3, <3>1, <3>2, <3>3
    <3>5. timestamp(state') = now[t] /\ sequence(state') = 0
      BY <2>1, <2>3, <3>2, <3>4, LockAssumption, RolledOver
    <3> QED BY <3>5 DEF ClockInv, ReadingsPast
  <2> QED BY <2>1, <2>2, <2>3
<1> QED
  BY <1>1, ClockInit, ClockNext, PTL DEF Spec, NoSequenceGaps

\* The newest tick in use never goes back, not even when a release build masks
\* a timestamp: the state is only replaced by a reading that is later than it.
newest == IF millis > timestamp(state) THEN millis ELSE timestamp(state)

LEMMA NewestGrows ==
  ASSUME ClockInv, [Next]_vars
  PROVE  /\ newest \in Nat /\ newest' \in Nat /\ newest <= newest'
         /\ millis <= newest /\ timestamp(state) <= newest
         /\ millis \in Nat /\ timestamp(state) \in Nat
<1>1. /\ millis \in Nat /\ millis' \in Nat /\ timestamp(state) \in Nat
      /\ timestamp(state') \in Nat
  <2>1. LockInv /\ LockInv'
    BY LockNext DEF ClockInv
  <2>2. /\ state \in IdsOf(MachineId) /\ state' \in IdsOf(MachineId)
        /\ millis \in Nat /\ millis' \in Nat
    BY <2>1, LockAssumption DEF LockInv, TypeOK
  <2>3. TIMESTAMP_MASK \in Int
    BY LayoutAssumption DEF TIMESTAMP_MASK
  <2> QED BY <2>2, <2>3, LockAssumption, Decomposed
<1>2. millis <= millis'
  <2>1. CASE Tick
    BY <1>1, <2>1 DEF Tick
  <2>2. CASE UNCHANGED millis
    BY <1>1, <2>2
  <2> QED
    BY <2>1, <2>2 DEF Next, Step, Call, ReadClock, Lock, LockPoisoned, Decide, Retry, vars
<1>3. timestamp(state') = timestamp(state) \/ timestamp(state) <= millis
  <2> SUFFICES ASSUME state' # state
               PROVE  timestamp(state') = timestamp(state) \/ timestamp(state) <= millis
    OBVIOUS
  <2>1. PICK t \in Threads :
           /\ state \in IdsOf(MachineId) /\ now[t] \in 0 .. MaxMillis
           /\ \/ has_sequence_room(state) /\ state' = increment_sequence(state)
              \/ now[t] > timestamp(state)
    BY StateSteps DEF ClockInv
  <2>2. now[t] <= millis /\ now[t] \in Nat
    BY <2>1, LockAssumption DEF ClockInv, ReadingsPast
  <2>3. CASE has_sequence_room(state) /\ state' = increment_sequence(state)
    BY <2>1, <2>3, LockAssumption, Incremented
  <2>4. CASE now[t] > timestamp(state)
    BY <2>2, <2>4, <1>1
  <2> QED BY <2>1, <2>3, <2>4
<1> QED
  BY <1>1, <1>2, <1>3 DEF newest

BackoffInv == ClockInv /\ BackoffBounded

LEMMA BackoffNext == BackoffInv /\ [Next]_vars => BackoffInv'
<1> SUFFICES ASSUME BackoffInv, [Next]_vars, NEW u \in Threads, pc'[u] = "pending"
             PROVE  \/ now'[u] + yield_for'[u] <= newest'
                    \/ now'[u] <= newest' /\ yield_for'[u] = 1
  BY ClockNext DEF BackoffInv, BackoffBounded, newest
<1>1. /\ newest \in Nat /\ newest' \in Nat /\ newest <= newest'
      /\ millis <= newest /\ timestamp(state) <= newest
      /\ millis \in Nat /\ timestamp(state) \in Nat
  BY NewestGrows DEF BackoffInv
<1>2. /\ now[u] \in Nat /\ yield_for[u] \in Nat /\ now[u] <= newest
      /\ now[u] + yield_for[u] \in Nat
  BY <1>1, LockAssumption DEF BackoffInv, ClockInv, LockInv, TypeOK, ReadingsPast
<1>3. CASE pc[u] = "pending" /\ now'[u] = now[u] /\ yield_for'[u] = yield_for[u]
  <2>1. \/ now[u] + yield_for[u] <= newest
        \/ now[u] <= newest /\ yield_for[u] = 1
    BY <1>3 DEF BackoffInv, BackoffBounded, newest
  <2> QED BY <2>1, <1>1, <1>2, <1>3
<1>4. CASE Decide(u)
  <2>1. /\ current[u] = state /\ now'[u] = now[u] /\ DOMAIN yield_for = Threads
        /\ DOMAIN pc = Threads
    BY <1>4 DEF BackoffInv, ClockInv, LockInv, TypeOK, NoLostUpdate, Decide
  <2>2. \/ yield_for'[u] = 1
        \/ yield_for'[u] = timestamp(state) - now[u]
    BY <1>4, <2>1, DecideCases
    DEF BackoffInv, ClockInv, LockInv, Ready, Pending, Panic, cold_clock_behind
  <2> QED BY <2>1, <2>2, <1>1, <1>2
<1>5. CASE /\ ~ Decide(u)
           /\ ~ (pc[u] = "pending" /\ now'[u] = now[u] /\ yield_for'[u] = yield_for[u])
  <2> USE DEF BackoffInv, ClockInv, LockInv, TypeOK
  <2>1. CASE Tick \/ UNCHANGED vars
    BY <1>5, <2>1 DEF Tick, vars
  <2>2. ASSUME NEW t \in Threads,
               Call(t) \/ ReadClock(t) \/ Lock(t) \/ LockPoisoned(t) \/ Retry(t)
        PROVE  FALSE
    BY <1>5, <2>2 DEF Call, ReadClock, Lock, LockPoisoned, Retry
  <2>3. ASSUME NEW t \in Threads, t # u, Decide(t) PROVE FALSE
    BY <1>5, <2>3, DecideCases DEF Ready, Pending, Panic
  <2> QED BY <1>5, <2>1, <2>2, <2>3 DEF Next, Step
<1> QED
  BY <1>3, <1>4, <1>5

\* The back-off try_poll_id asks for is bounded, however long the caller waited
\* for the lock after it had read the clock.
THEOREM Backoff == Spec => []BackoffBounded
<1>1. Init => BackoffInv
  BY ClockInit DEF Init, BackoffInv, BackoffBounded
<1>2. BackoffInv => BackoffBounded
  BY DEF BackoffInv
<1> QED
  BY <1>1, <1>2, BackoffNext, PTL DEF Spec
=============================================================================
