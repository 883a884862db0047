------------------------ MODULE AsyncSnowflakeProofs ------------------------
(***************************************************************************)
(* The monotonic clock and the generators that run on it, for any number   *)
(* of tasks and restarts, any granularity and whatever happens to the      *)
(* system time.                                                            *)
(***************************************************************************)
EXTENDS AsyncSnowflake, SnowflakeIdProofs

\* The system time that a life of the process has sampled, advanced to now.
Sampled == wall + lead - (time - start)

\* The system time is not sampled later than at the time bound.
SampleBound(b) == \E offset \in WallOffsets : b <= AtLeast(Ms(MaxTime + offset), 0)

\* Every published value was the elapsed time once, cut to milliseconds; so was
\* the system time when it was sampled.
ClockInv ==
  /\ start \in 0 .. time
  /\ \A v \in stored : v * UnitsPerMs <= time - start
  /\ base_system_now > 0 => lazy = "running" /\ base_system_now = Ms(Sampled)
  /\ SampleBound(base_system_now)
  /\ lazy # "running" => stored = {0}
  /\ epoch_offset # -1 => lazy = "running" /\ epoch_offset = Offset

\* A task acts on the value it has seen, and sleeps long enough after it.
SleepInv ==
  \A t \in Tasks :
    /\ pc[t] # "idle" => epoch_offset # -1
    /\ pc[t] \in {"decide", "sleep"} => now[t] = current_millis(seen[t])
    /\ pc[t] = "sleep" /\ provider = "sleep" =>
         deadline[t] >= start + (seen[t] + Duration(yield_for[t])) * UnitsPerMs

\* The state of a life is not behind its beginning: the restored id, or the first
\* tick of the clock.
LifeInv ==
  epoch_offset # -1 =>
    /\ restore => state >= high
    /\ ~ restore /\ ~ RestartTooEarly =>
         state = new \/ timestamp(state) >= epoch_offset \div N

\* The clock does not reach the end of the timestamp field.
TimestampsFit ==
  \A offset \in WallOffsets :
    (AtLeast(Ms(MaxTime + offset), 0) + Ms(MaxTime)) \div N <= TIMESTAMP_MASK
-----------------------------------------------------------------------------
(* Rounding down. *)

LEMMA Floor ==
  ASSUME NEW U \in Nat \ {0}, NEW x \in Int
  PROVE  /\ x \div U \in Int /\ (x \div U) * U <= x /\ x < (x \div U + 1) * U
         /\ x >= 0 => x \div U \in Nat
  OBVIOUS

LEMMA FloorGreatest ==
  ASSUME NEW U \in Nat \ {0}, NEW x \in Int, NEW k \in Int, k * U <= x
  PROVE  k <= x \div U
<1> DEFINE q == x \div U
<1>1. q \in Int /\ x < (q + 1) * U
  OBVIOUS
<1> HIDE DEF q
<1>2. CASE k >= q + 1
  <2>1. k * U >= (q + 1) * U
    BY <1>1, <1>2
  <2>2. k * U \in Int /\ (q + 1) * U \in Int
    BY <1>1
  <2> QED BY <1>1, <2>1, <2>2
<1> QED BY <1>1, <1>2 DEF q

LEMMA FloorOrder ==
  ASSUME NEW U \in Nat \ {0}, NEW x \in Int, NEW y \in Int, x <= y
  PROVE  x \div U <= y \div U
<1>1. x \div U \in Int /\ (x \div U) * U <= x /\ (x \div U) * U \in Int
  BY Floor
<1>2. (x \div U) * U <= y
  BY <1>1
<1> QED BY <1>1, <1>2, FloorGreatest

LEMMA FloorPlus ==
  ASSUME NEW U \in Nat \ {0}, NEW x \in Int, NEW k \in Int
  PROVE  (x \div U) + k <= (x + k * U) \div U
<1> DEFINE q == x \div U
<1>1. q \in Int /\ q * U <= x
  BY Floor
<1> HIDE DEF q
<1>2. (q + k) * U = q * U + k * U /\ q * U \in Int /\ k * U \in Int /\ q + k \in Int
  BY <1>1
<1>3. (q + k) * U <= x + k * U /\ x + k * U \in Int
  BY <1>1, <1>2
<1> QED BY <1>2, <1>3, FloorGreatest DEF q
-----------------------------------------------------------------------------
(* The clock. *)

ClockTypes ==
  /\ time \in 0 .. MaxTime /\ lead \in Int /\ wall \in Int /\ wall - time \in WallOffsets
  /\ epoch \in Epochs /\ lazy \in {"unset", "start sampled", "running"}
  /\ start \in 0 .. time /\ base_system_now \in Nat
  /\ current \in stored /\ stored \subseteq Nat /\ tick \in Nat
  /\ epoch_offset \in Nat \cup {-1}
  /\ seen \in [Readers -> stored]

LEMMA ClockNumbers ==
  ASSUME ClockTypes
  PROVE  /\ time \in Nat /\ start \in Nat /\ start <= time /\ time <= MaxTime
         /\ wall \in Int /\ lead \in Int /\ epoch \in Nat /\ epoch \in Int
         /\ base_system_now \in Nat /\ current \in Nat
         /\ UnitsPerMs \in Nat \ {0} /\ N \in Nat \ {0} /\ MaxTime \in Nat
<1>1. time \in 0 .. MaxTime /\ start \in 0 .. time /\ MaxTime \in Nat
  BY ClockAssumption, Zenon DEF ClockTypes
<1>2. /\ wall \in Int /\ lead \in Int /\ epoch \in Nat /\ base_system_now \in Nat
      /\ current \in Nat /\ UnitsPerMs \in Nat \ {0} /\ N \in Nat \ {0}
  BY ClockAssumption, Zenon DEF ClockTypes
<1>3. /\ time \in Nat /\ start \in Nat /\ start <= time /\ time <= MaxTime
  BY <1>1
<1>4. epoch \in Int
  BY <1>2
<1> QED BY <1>1, <1>2, <1>3, <1>4, Zenon

\* What the steps of the process do to the clock.
LEMMA ClockMoves ==
  ASSUME [Next]_vars
  PROVE  \/ ClockStep \/ ClockLost \/ UNCHANGED clock_vars
         \/ /\ lazy = "running" /\ epoch_offset = -1 /\ epoch_offset' = Offset
            /\ UNCHANGED <<time, wall, lead, epoch, ticker, seen>>
         \/ \E t \in Tasks : \E v \in stored : Load(t, v)
<1>1. CASE CreateGenerator
  BY <1>1, Zenon DEF CreateGenerator
<1>2. CASE Crash
  BY <1>2, Zenon DEF Crash
<1>3. ASSUME NEW t \in Tasks, TaskStep(t)
      PROVE  UNCHANGED clock_vars \/ \E v \in stored : Load(t, v)
  BY <1>3, Zenon DEF TaskStep, Call, ReadClock, poll_id, Wake, Drop
<1>4. CASE UNCHANGED vars
  BY <1>4, Zenon DEF vars
<1> QED BY <1>1, <1>2, <1>3, <1>4, Zenon DEF Next

LEMMA Init_Clock == Init => ClockTypes /\ ClockInv
<1> SUFFICES ASSUME Init PROVE ClockTypes /\ ClockInv
  OBVIOUS
<1>1. ClockTypes
  BY ClockAssumption DEF Init, ClockInit, ClockTypes
<1>2. ASSUME NEW offset \in WallOffsets PROVE 0 <= AtLeast(Ms(MaxTime + offset), 0)
  BY ClockAssumption, Floor DEF AtLeast, Ms
<1> QED BY <1>1, <1>2, ClockAssumption DEF Init, ClockInit, ClockTypes, ClockInv, Sampled,
  SampleBound

LEMMA Next_Clock == ClockTypes /\ ClockInv /\ [Next]_vars => ClockTypes' /\ ClockInv'
<1> SUFFICES ASSUME ClockTypes, ClockInv, [Next]_vars PROVE ClockTypes' /\ ClockInv'
  OBVIOUS
<1>a. /\ time \in 0 .. MaxTime /\ lead \in Int /\ wall \in Int /\ wall - time \in WallOffsets
      /\ start \in 0 .. time /\ base_system_now \in Nat /\ stored \subseteq Nat
      /\ MaxTime \in Nat /\ UnitsPerMs \in Nat \ {0}
      /\ WallOffsets \subseteq Int /\ Epochs \subseteq Nat /\ epoch \in Epochs
  BY ClockAssumption DEF ClockTypes
<1>b. \A v \in stored : v * UnitsPerMs \in Int
  BY <1>a
<1>c. base_system_now * UnitsPerMs \in Int
  BY <1>a
<1>d. time \in Nat /\ start \in Nat /\ start <= time /\ wall \in Int /\ lead \in Int
  BY ClockNumbers, Zenon
<1>1. CASE Advance
  <2>1. /\ time < MaxTime /\ time' = time + 1 /\ wall' = wall + 1
        /\ UNCHANGED <<lead, epoch, lazy, start, base_system_now, tick, current, stored,
                       epoch_offset, seen>>
    BY <1>1, Zenon DEF Advance, ticker
  <2>2. /\ time' \in 0 .. MaxTime /\ wall' \in Int /\ wall' - time' = wall - time
        /\ start' \in 0 .. time' /\ Sampled' = Sampled
    BY <1>a, <2>1 DEF Sampled
  <2>3. ClockTypes'
    BY <2>1, <2>2, Zenon DEF ClockTypes
  <2>4. \A v \in stored' : v * UnitsPerMs <= time' - start'
    BY <1>a, <1>b, <2>1 DEF ClockInv
  <2>5. Offset' = Offset
    BY <2>1, Zenon DEF Offset
  <2> QED BY <2>1, <2>2, <2>3, <2>4, <2>5, Zenon DEF ClockInv
<1>2. CASE SetWall
  <2>1. /\ lead' = IF lazy = "running" THEN lead + wall - wall' ELSE 0
        /\ wall' \in { time + offset : offset \in WallOffsets }
        /\ UNCHANGED <<time, epoch, lazy, start, base_system_now, tick, current, stored,
                       epoch_offset, seen>>
    BY <1>2, Zenon DEF SetWall, ticker
  <2>2. /\ wall' \in Int /\ wall' - time \in WallOffsets /\ lead' \in Int
        /\ lazy = "running" => Sampled' = Sampled
    BY <1>a, <2>1 DEF Sampled
  <2>3. ClockTypes'
    BY <2>1, <2>2, Zenon DEF ClockTypes
  <2>4. Offset' = Offset
    BY <2>1, Zenon DEF Offset
  <2> QED BY <2>1, <2>2, <2>3, <2>4, Zenon DEF ClockInv
<1>3. CASE SampleInstant
  <2>1. /\ lazy = "unset" /\ lazy' = "start sampled" /\ start' = time
        /\ UNCHANGED <<time, wall, lead, epoch, base_system_now, tick, current, stored,
                       epoch_offset, seen>>
    BY <1>3, Zenon DEF SampleInstant
  <2>2. ClockTypes'
    <3>1. time \in 0 .. time
      BY <1>d
    <3> QED BY <2>1, <3>1, Zenon DEF ClockTypes
  <2>3. stored = {0} /\ epoch_offset = -1 /\ ~ (base_system_now > 0)
    BY <2>1, Zenon DEF ClockInv
  <2>4. \A v \in stored' : v * UnitsPerMs <= time' - start'
    <3>1. 0 * UnitsPerMs <= time - time
      BY <1>a, <1>d
    <3> QED BY <2>1, <2>3, <3>1, Zenon
  <2> QED BY <2>1, <2>2, <2>3, <2>4, Zenon DEF ClockInv, ClockTypes
<1>4. CASE SampleSystemTime
  <2>1. /\ lazy = "start sampled" /\ lazy' = "running" /\ lead' = time - start
        /\ base_system_now' = AtLeast(Ms(wall), 0)
        /\ UNCHANGED <<time, wall, epoch, start, tick, current, stored, epoch_offset, seen>>
    BY <1>4 DEF SampleSystemTime
  <2>2. Ms(wall) \in Int /\ Ms(wall) * UnitsPerMs <= wall
    BY <1>a, Floor DEF Ms
  <2>3. PICK offset \in WallOffsets : wall = time + offset
    BY <1>a
  <2>4. Ms(MaxTime + offset) \in Int /\ Ms(wall) <= Ms(MaxTime + offset)
    BY <1>a, <2>3, Floor, FloorOrder DEF Ms
  <2> DEFINE b == Ms(wall)
             c == Ms(MaxTime + offset)
             d == base_system_now'
  <2>5. d \in Nat /\ d <= AtLeast(c, 0) /\ (d > 0 => d = b)
    <3>1. b \in Int /\ c \in Int /\ b <= c /\ d = AtLeast(b, 0)
      BY <2>1, <2>2, <2>4
    <3> HIDE DEF b, c, d
    <3> QED BY <3>1 DEF AtLeast
  <2>6. SampleBound(d)
    BY <2>5, Zenon DEF SampleBound
  <2>7. Sampled' = wall /\ lead' \in Int
    <3>1. lead' = time - start /\ wall' = wall /\ time' = time /\ start' = start
      BY <2>1, Zenon
    <3> QED BY <1>d, <3>1 DEF Sampled
  <2>8. epoch_offset = -1
    BY <2>1 DEF ClockInv
  <2>9. ClockTypes'
    BY <2>1, <2>5, <2>7, Zenon DEF ClockTypes
  <2> QED BY <2>1, <2>2, <2>5, <2>6, <2>7, <2>8, <2>9, Zenon DEF ClockInv, ClockTypes
<1>5. CASE Tick
  <2> DEFINE now_ms == Ms(time - start)
  <2>1. /\ lazy = "running" /\ tick' = now_ms + 1
        /\ current' = now_ms /\ stored' = stored \cup {now_ms}
        /\ UNCHANGED <<time, wall, lead, epoch, lazy, start, base_system_now, epoch_offset,
                       seen>>
    BY <1>5 DEF Tick, Publish
  <2>2. now_ms \in Nat /\ now_ms * UnitsPerMs <= time - start
    BY <1>a, Floor DEF Ms
  <2> HIDE DEF now_ms
  <2>3. ClockTypes'
    BY <1>a, <2>1, <2>2 DEF ClockTypes
  <2>4. \A v \in stored' : v * UnitsPerMs <= time' - start'
    BY <2>1, <2>2 DEF ClockInv
  <2> QED BY <1>a, <2>1, <2>3, <2>4 DEF ClockInv, Sampled, Offset
<1>6. CASE ClockLost
  <2>1. ClockTypes'
    <3>1. 0 \in 0 .. time /\ 0 \in Int /\ 0 \in Nat /\ {0} \subseteq Nat
      BY <1>d
    <3> QED BY <1>6, <3>1, Zenon DEF ClockLost, ClockTypes
  <2>2. 0 <= AtLeast(Ms(MaxTime + (wall - time)), 0)
    BY <1>a, Floor DEF AtLeast, Ms
  <2>3. SampleBound(0)
    BY <1>a, <2>2, Zenon DEF SampleBound
  <2> QED BY <1>6, <1>a, <2>1, <2>3 DEF ClockLost, ClockInv
<1>7. CASE UNCHANGED clock_vars
  BY <1>7 DEF clock_vars, ticker, ClockTypes, ClockInv, Sampled, Offset
<1>8. CASE /\ lazy = "running" /\ epoch_offset = -1 /\ epoch_offset' = Offset
           /\ UNCHANGED <<time, wall, lead, epoch, ticker, seen>>
  <2>1. Offset \in Nat
    BY <1>a DEF Offset, AtLeast
  <2> QED BY <1>8, <2>1 DEF ticker, ClockTypes, ClockInv, Sampled, Offset
<1>9. ASSUME NEW t \in Tasks, NEW v \in stored, Load(t, v)
      PROVE  ClockTypes' /\ ClockInv'
  BY <1>9 DEF Load, ticker, ClockTypes, ClockInv, Sampled, Offset, Tasks
<1> QED BY <1>1, <1>2, <1>3, <1>4, <1>5, <1>6, <1>7, <1>8, <1>9, ClockMoves DEF ClockStep

\* What the ticker publishes never goes back in the life of a process, whatever
\* happens to the system time: it is the time elapsed on the monotonic clock only.
THEOREM TimeNeverGoesBack == Spec => NeverBack
<1>1. Init => ClockTypes /\ ClockInv
  BY Init_Clock
<1>2. (ClockTypes /\ ClockInv) /\ [Next]_vars => (ClockTypes /\ ClockInv)'
  BY Next_Clock
<1>3. ClockTypes /\ ClockInv /\ [Next]_vars =>
        [lazy = "running" /\ lazy' = "running" => current' >= current]_clock_vars
  <2> SUFFICES ASSUME ClockTypes, ClockInv, [Next]_vars, lazy = "running", lazy' = "running"
               PROVE  current' >= current
    OBVIOUS
  <2>1. /\ current \in Nat /\ time - start \in Int /\ UnitsPerMs \in Nat \ {0}
        /\ current * UnitsPerMs <= time - start
    <3>1. current * UnitsPerMs <= time - start
      BY Zenon DEF ClockTypes, ClockInv
    <3> QED BY <3>1, ClockNumbers
  <2>2. CASE Tick
    <3>1. current' = Ms(time - start)
      BY <2>2, Zenon DEF Tick, Publish
    <3>2. current <= (time - start) \div UnitsPerMs /\ (time - start) \div UnitsPerMs \in Int
      BY <2>1, FloorGreatest, Floor
    <3> QED BY <2>1, <3>1, <3>2 DEF Ms
  <2>3. CASE current' = current
    BY <2>1, <2>3
  <2>4. Tick \/ current' = current
    BY ClockMoves, Zenon DEF ClockStep, Advance, SetWall, SampleInstant, SampleSystemTime,
      ClockLost, Load, clock_vars, ticker
  <2> QED BY <2>2, <2>3, <2>4
<1> QED BY <1>1, <1>2, <1>3, PTL DEF Spec, NeverBack

\* A clock whose epoch is in the past is ahead of the system time by the pause
\* between the two samples and by what the system time was set back since, for
\* the whole life of the process: less than two milliseconds are lost, and nothing
\* is added.
THEOREM ClockLead == Spec => []LeadKept
<1>1. Init => ClockTypes /\ ClockInv
  BY Init_Clock
<1>2. (ClockTypes /\ ClockInv) /\ [Next]_vars => (ClockTypes /\ ClockInv)'
  BY Next_Clock
<1>3. ClockTypes /\ ClockInv => LeadKept
  <2> SUFFICES ASSUME ClockTypes, ClockInv, epoch_offset > 0
               PROVE  /\ Shown <= wall + lead /\ wall + lead < Shown + 2 * UnitsPerMs
                      /\ current <= Ms(time - start)
    BY DEF LeadKept
  <2> DEFINE U == UnitsPerMs
             b == base_system_now
             e == time - start
             w == wall + lead
             k == Ms(e)
  <2>1. /\ b \in Nat /\ U \in Nat \ {0} /\ w \in Int /\ e \in Int /\ epoch \in Nat
        /\ current \in Nat
    BY ClockNumbers, ClockAssumption
  <2>2. epoch_offset = AtLeast(b - epoch, 0)
    <3>1. ~ (-1 > 0)
      OBVIOUS
    <3>2. epoch_offset # -1
      BY <3>1, Zenon
    <3> QED BY <3>2, Zenon DEF ClockInv, Offset
  <2>3. epoch_offset = b - epoch /\ b > 0
    BY <2>1, <2>2 DEF AtLeast
  <2>4. b = Ms(w - e)
    <3>1. b = Ms(Sampled)
      BY <2>3, Zenon DEF ClockInv
    <3>2. Sampled = w - e
      BY ClockNumbers DEF Sampled
    <3> QED BY <3>1, <3>2, Zenon
  <2>5. current * U <= e
    BY Zenon DEF ClockInv, ClockTypes
  <2>6. Shown = (b + k) * U
    <3>1. epoch + epoch_offset + k = b + k
      <4>1. k \in Int
        BY <2>1, Floor DEF Ms
      <4> HIDE DEF k
      <4> QED BY <2>1, <2>3, <4>1
    <3> QED BY <3>1, Zenon DEF Shown
  <2> HIDE DEF U, b, e, w, k
  <2>7. /\ b \in Int /\ b * U <= w - e /\ w - e < (b + 1) * U
        /\ k \in Int /\ k * U <= e /\ e < (k + 1) * U
    <3>1. w - e \in Int
      BY <2>1
    <3>2. Ms(w - e) = (w - e) \div U /\ k = e \div U
      BY DEF Ms, U, k
    <3>3. \A x \in Int : x \div U \in Int /\ (x \div U) * U <= x /\ x < (x \div U + 1) * U
      BY <2>1, Floor
    <3> QED BY <2>1, <2>4, <3>1, <3>2, <3>3, Zenon
  <2>8. (b + k) * U <= w /\ w < (b + k) * U + 2 * U
    <3>1. /\ (b + k) * U = b * U + k * U
          /\ (b + 1) * U = b * U + U /\ (k + 1) * U = k * U + U
          /\ b * U \in Int /\ k * U \in Int
      BY <2>1, <2>7
    <3> QED BY <2>1, <2>7, <3>1
  <2>9. current <= k
    BY <2>1, <2>5, FloorGreatest DEF Ms, U, k
  <2> QED BY <2>6, <2>8, <2>9 DEF U, w, e, k
<1> QED BY <1>1, <1>2, <1>3, PTL DEF Spec
-----------------------------------------------------------------------------
(* The tasks and the generator. *)

ProcessTypes ==
  /\ provider \in Providers /\ restore \in BOOLEAN /\ restarts \in 0 .. MaxRestarts
  /\ state \in IdsOf(MachineId) /\ high \in IdsOf(MachineId)
  /\ pc \in [Tasks -> {"idle", "clock", "decide", "sleep"}]
  /\ now \in [Tasks -> Nat] /\ yield_for \in [Tasks -> Nat]
  /\ deadline \in [Tasks -> Nat]

AsyncInv == ClockTypes /\ ClockInv /\ ProcessTypes /\ SleepInv

LEMMA NewId == new \in IdsOf(MachineId) /\ timestamp(new) = 0
<1>1. 0 \in 0 .. TIMESTAMP_MASK /\ 0 \in 0 .. SEQUENCE_MASK
  BY LayoutAssumption DEF TIMESTAMP_MASK, SEQUENCE_MASK
<1> QED BY <1>1, Composed, AsyncAssumption DEF new

\* from_components on the fields of an id is that id.
LEMMA CreatedId ==
  ASSUME high \in IdsOf(MachineId)
  PROVE  Created \in IdsOf(MachineId) /\ (restore => Created = high)
<1> DEFINE ts == timestamp(high)
           s == sequence(high)
           m == MachineId
<1>1. /\ m \in 0 .. MACHINE_ID_MASK /\ ts \in 0 .. TIMESTAMP_MASK
      /\ s \in 0 .. SEQUENCE_MASK /\ machine_id(high) = m
      /\ high = ts * 2^TIMESTAMP_SHIFT + m * 2^SEQUENCE_BITS + s
  BY AsyncAssumption, Decomposed
<1>2. /\ from_components(ts, m, s) = ts * 2^TIMESTAMP_SHIFT + m * 2^SEQUENCE_BITS + s
      /\ from_components(ts, m, s) \in IdsOf(m)
  BY <1>1, Composed
<1> QED BY <1>1, <1>2, NewId, Zenon DEF Created

LEMMA Milliseconds == ASSUME NEW units \in Nat PROVE Duration(units) \in Nat
<1>1. U64_MAX \in Nat /\ N \in Nat
  BY AsyncAssumption, ClockAssumption
<1>2. to_u64(units) \in Nat
  BY <1>1 DEF to_u64, AtMost
<1>3. to_u64(units) * N \in Nat
  BY <1>1, <1>2
<1> QED BY <1>1, <1>3 DEF Duration, AtMost

\* What one poll of the generator does.
LEMMA Polled ==
  ASSUME ProcessTypes, NEW t \in Tasks, poll_id(t)
  PROVE  /\ pc[t] = "decide" /\ UNCHANGED <<clock_vars, provider, restore, high, restarts>>
         /\ \/ /\ Goto(t, "idle") /\ state' \in IdsOf(MachineId)
               /\ \/ /\ now[t] = timestamp(state) /\ state' = state + 1
                     /\ timestamp(state') = timestamp(state)
                  \/ /\ now[t] > timestamp(state)
                     /\ state' = rollover_to_timestamp(state, now[t])
            \/ \E units \in Nat : Pending(t, units)
<1>1. /\ MachineId \in 0 .. MACHINE_ID_MASK /\ state \in IdsOf(MachineId)
      /\ now[t] \in Nat
  BY AsyncAssumption, Zenon DEF ProcessTypes
<1>2. timestamp(state) \in Nat
  BY <1>1, Decomposed
<1>3. CASE now[t] = timestamp(state) /\ has_sequence_room(state)
             /\ Ready(t, increment_sequence(state))
  BY <1>1, <1>3, Incremented, Zenon DEF Ready, poll_id
<1>4. CASE now[t] > timestamp(state) /\ Ready(t, rollover_to_timestamp(state, now[t]))
  BY <1>1, <1>4, RolledOverMasked, Zenon DEF Ready, poll_id
<1>5. CASE Pending(t, 1)
  <2>1. 1 \in Nat
    OBVIOUS
  <2> QED BY <1>5, <2>1, Zenon DEF poll_id
<1>6. CASE now[t] < timestamp(state) /\ Pending(t, timestamp(state) - now[t])
  <2>1. timestamp(state) - now[t] \in Nat
    BY <1>1, <1>2, <1>6
  <2> QED BY <1>6, <2>1, Zenon DEF poll_id
<1> QED BY <1>3, <1>4, <1>5, <1>6, Zenon DEF poll_id

LEMMA Init_AsyncInv == Init => AsyncInv
<1> SUFFICES ASSUME Init PROVE AsyncInv
  OBVIOUS
<1>1. 0 \in 0 .. MaxRestarts /\ 0 \in Nat
  BY AsyncAssumption
<1>2. ProcessTypes
  BY <1>1, NewId, Zenon DEF Init, ProcessTypes
<1>3. SleepInv
  BY Zenon DEF Init, SleepInv
<1> QED BY <1>2, <1>3, Init_Clock, Zenon DEF AsyncInv

LEMMA Next_ProcessTypes == AsyncInv /\ [Next]_vars => ProcessTypes'
<1> SUFFICES ASSUME AsyncInv, [Next]_vars PROVE ProcessTypes'
  OBVIOUS
<1>a. ClockTypes /\ ClockInv /\ ProcessTypes /\ SleepInv
  BY Zenon DEF AsyncInv
<1>b. 0 \in Nat
  OBVIOUS
<1>1. CASE (ClockStep /\ UNCHANGED <<locals, process>>) \/ UNCHANGED vars
  BY <1>1, <1>a, Zenon DEF vars, locals, process, ProcessTypes
<1>2. CASE CreateGenerator
  <2>1. Created \in IdsOf(MachineId)
    BY <1>a, CreatedId, Zenon DEF ProcessTypes
  <2> QED BY <1>2, <1>a, <2>1, Zenon DEF CreateGenerator, locals, ProcessTypes
<1>3. CASE Crash
  <2>1. restarts' \in 0 .. MaxRestarts
    <3>1. /\ restarts \in 0 .. MaxRestarts /\ restarts < MaxRestarts /\ MaxRestarts \in Nat
          /\ restarts' = restarts + 1
      BY <1>3, <1>a, AsyncAssumption, Zenon DEF Crash, ProcessTypes
    <3> QED BY <3>1
  <2> QED BY <1>3, <1>a, <1>b, <2>1, NewId, Zenon DEF Crash, ProcessTypes
<1>4. ASSUME NEW t \in Tasks, NEW l \in {"idle", "clock"}, Goto(t, l),
             state' \in IdsOf(MachineId), UNCHANGED <<provider, restore, high, restarts>>
      PROVE  ProcessTypes'
  BY <1>4, <1>a, <1>b, Zenon DEF Goto, ProcessTypes
<1>5. ASSUME NEW t \in Tasks, Call(t) PROVE ProcessTypes'
  BY <1>5, <1>a, Zenon DEF Call, process, ProcessTypes
<1>6. ASSUME NEW t \in Tasks, ReadClock(t) PROVE ProcessTypes'
  <2>1. PICK v \in stored : now' = [now EXCEPT ![t] = current_millis(v)]
    BY <1>6, Zenon DEF ReadClock
  <2>2. current_millis(v) \in Nat
    <3>1. epoch_offset \in Nat /\ v \in Nat /\ N \in Nat \ {0}
      <4>1. epoch_offset # -1
        BY <1>6, <1>a, Zenon DEF ReadClock, SleepInv
      <4> QED BY <1>a, <4>1, ClockAssumption, Zenon DEF ClockTypes
    <3>2. epoch_offset + v \in Nat
      BY <3>1
    <3> QED BY <3>1, <3>2, Floor DEF current_millis
  <2> QED BY <1>6, <1>a, <2>1, <2>2, Zenon DEF ReadClock, process, ProcessTypes
<1>7. ASSUME NEW t \in Tasks, poll_id(t) PROVE ProcessTypes'
  <2>1. ASSUME NEW units \in Nat, Pending(t, units),
               UNCHANGED <<provider, restore, high, restarts>>
        PROVE  ProcessTypes'
    <3>1. time \in Nat /\ Duration(units) \in Nat /\ UnitsPerMs \in Nat
      BY <1>a, ClockNumbers, Milliseconds
    <3>2. time + Duration(units) * UnitsPerMs \in Nat
      BY <3>1
    <3>3. sleep_for(units) \in Nat
      BY <3>1, <3>2, Zenon DEF sleep_for
    <3> QED BY <1>a, <2>1, <3>3, Zenon DEF Pending, ProcessTypes
  <2> QED BY <1>7, <1>a, <1>4, <2>1, Polled, Zenon
<1>8. ASSUME NEW t \in Tasks, Wake(t) \/ Drop(t) PROVE ProcessTypes'
  <2>1. state' = state /\ UNCHANGED <<provider, restore, high, restarts>>
    BY <1>8, Zenon DEF Wake, Drop, process
  <2>2. Goto(t, "idle") \/ Goto(t, "clock")
    BY <1>8, Zenon DEF Wake, Drop
  <2> QED BY <1>a, <1>4, <2>1, <2>2, Zenon DEF ProcessTypes
<1> QED BY <1>1, <1>2, <1>3, <1>5, <1>6, <1>7, <1>8, Zenon DEF Next, TaskStep

\* Within one life of the process a task keeps what it has seen and decided, until
\* it moves itself.
LEMMA Same_SleepInv ==
  ASSUME SleepInv, NEW t \in Tasks, UNCHANGED <<epoch_offset, start, provider>>,
         \A r \in Tasks : r # t =>
           /\ pc'[r] = pc[r] /\ now'[r] = now[r] /\ seen'[r] = seen[r]
           /\ yield_for'[r] = yield_for[r] /\ deadline'[r] = deadline[r],
         /\ pc'[t] # "idle" => epoch_offset # -1
         /\ pc'[t] \in {"decide", "sleep"} => now'[t] = current_millis(seen'[t])
         /\ pc'[t] = "sleep" /\ provider = "sleep" =>
              deadline'[t] >= start + (seen'[t] + Duration(yield_for'[t])) * UnitsPerMs
  PROVE  SleepInv'
<1> SUFFICES ASSUME NEW r \in Tasks
             PROVE  /\ pc'[r] # "idle" => epoch_offset' # -1
                    /\ pc'[r] \in {"decide", "sleep"} => now'[r] = current_millis(seen[r])'
                    /\ pc'[r] = "sleep" /\ provider' = "sleep" =>
                         deadline'[r] >=
                           start' + (seen'[r] + Duration(yield_for'[r])) * UnitsPerMs
  BY Zenon DEF SleepInv, Tasks
<1>1. current_millis(seen[r])' = current_millis(seen'[r])
  BY Zenon DEF current_millis
<1>2. CASE r = t
  BY <1>1, <1>2, Zenon
<1>3. CASE r # t
  BY <1>1, <1>3, Zenon DEF SleepInv
<1> QED BY <1>2, <1>3

LEMMA Next_SleepInv == AsyncInv /\ [Next]_vars => SleepInv'
<1> SUFFICES ASSUME AsyncInv, [Next]_vars PROVE SleepInv'
  OBVIOUS
<1>a. ClockTypes /\ ClockInv /\ ProcessTypes /\ SleepInv
  BY Zenon DEF AsyncInv
<1>b. /\ pc \in [Tasks -> {"idle", "clock", "decide", "sleep"}]
      /\ now \in [Tasks -> Nat] /\ yield_for \in [Tasks -> Nat]
      /\ deadline \in [Tasks -> Nat] /\ seen \in [Tasks -> stored]
  BY <1>a, Zenon DEF ProcessTypes, ClockTypes, Tasks
<1>1. ASSUME UNCHANGED <<locals, provider, seen, epoch_offset>>,
             start' = start \/ epoch_offset = -1
      PROVE  SleepInv'
  <2>1. \A t \in Tasks : current_millis(seen[t])' = current_millis(seen[t])
    BY <1>1, Zenon DEF current_millis
  <2>2. CASE epoch_offset = -1
    BY <1>a, <1>1, <2>2, Zenon DEF SleepInv, locals
  <2>3. CASE start' = start
    BY <1>a, <1>1, <2>1, <2>3, Zenon DEF SleepInv, locals
  <2> QED BY <1>1, <2>2, <2>3
<1>2. CASE ClockStep /\ UNCHANGED <<locals, process>>
  <2>1. UNCHANGED <<locals, provider, seen, epoch_offset>>
    BY <1>2, Zenon DEF process, ClockStep, Advance, SetWall, SampleInstant, SampleSystemTime,
      Tick, Publish
  <2>2. start' = start \/ epoch_offset = -1
    BY <1>2, <1>a, Zenon DEF ClockStep, Advance, SetWall, SampleInstant, SampleSystemTime,
      Tick, Publish, ticker, ClockInv
  <2> QED BY <1>1, <2>1, <2>2, Zenon
<1>3. CASE UNCHANGED vars
  BY <1>1, <1>3, Zenon DEF vars, clock_vars, ticker, process
<1>4. CASE CreateGenerator \/ Crash
  <2>1. \A t \in Tasks : pc'[t] = "idle"
    BY <1>4, <1>a, Zenon DEF CreateGenerator, Crash, SleepInv, locals
  <2> QED BY <2>1, Zenon DEF SleepInv
<1>5. ASSUME NEW t \in Tasks, Call(t) PROVE SleepInv'
  <2>1. /\ pc'[t] = "clock" /\ epoch_offset # -1
        /\ UNCHANGED <<epoch_offset, start, provider>>
        /\ \A r \in Tasks : r # t =>
             /\ pc'[r] = pc[r] /\ now'[r] = now[r] /\ seen'[r] = seen[r]
             /\ yield_for'[r] = yield_for[r] /\ deadline'[r] = deadline[r]
    BY <1>5, <1>b, Zenon DEF Call, clock_vars, ticker, process
  <2> QED BY <1>a, <2>1, Same_SleepInv, Zenon
<1>6. ASSUME NEW t \in Tasks, ReadClock(t) PROVE SleepInv'
  <2>1. PICK v \in stored : Load(t, v) /\ now' = [now EXCEPT ![t] = current_millis(v)]
    BY <1>6, Zenon DEF ReadClock
  <2>2. /\ pc'[t] = "decide" /\ now'[t] = current_millis(v) /\ seen'[t] = v
        /\ epoch_offset # -1 /\ UNCHANGED <<epoch_offset, start, provider>>
        /\ \A r \in Tasks : r # t =>
             /\ pc'[r] = pc[r] /\ now'[r] = now[r] /\ seen'[r] = seen[r]
             /\ yield_for'[r] = yield_for[r] /\ deadline'[r] = deadline[r]
    BY <1>6, <1>a, <1>b, <2>1, Zenon DEF ReadClock, Load, ticker, process, SleepInv
  <2> QED BY <1>a, <2>2, Same_SleepInv, Zenon
<1>7. ASSUME NEW t \in Tasks, NEW l \in {"idle", "clock"}, Goto(t, l), pc[t] # "idle",
             UNCHANGED <<epoch_offset, start, seen, provider>>
      PROVE  SleepInv'
  <2>1. /\ pc'[t] \in {"idle", "clock"} /\ epoch_offset # -1
        /\ \A r \in Tasks : r # t =>
             /\ pc'[r] = pc[r] /\ now'[r] = now[r] /\ seen'[r] = seen[r]
             /\ yield_for'[r] = yield_for[r] /\ deadline'[r] = deadline[r]
    BY <1>7, <1>a, <1>b, Zenon DEF Goto, SleepInv
  <2> QED BY <1>7, <1>a, <2>1, Same_SleepInv, Zenon
<1>8. ASSUME NEW t \in Tasks, Wake(t) \/ Drop(t) PROVE SleepInv'
  <2>1. pc[t] # "idle" /\ UNCHANGED <<epoch_offset, start, seen, provider>>
    BY <1>8, Zenon DEF Wake, Drop, clock_vars, ticker, process
  <2>2. Goto(t, "idle") \/ Goto(t, "clock")
    BY <1>8, Zenon DEF Wake, Drop
  <2> QED BY <1>7, <2>1, <2>2, Zenon
<1>9. ASSUME NEW t \in Tasks, poll_id(t) PROVE SleepInv'
  <2>1. /\ pc[t] = "decide" /\ UNCHANGED <<epoch_offset, start, seen, provider>>
        /\ now[t] = current_millis(seen[t]) /\ epoch_offset # -1
    BY <1>9, <1>a, Polled, Zenon DEF clock_vars, ticker, SleepInv
  <2>2. CASE Goto(t, "idle")
    BY <1>7, <2>1, <2>2, Zenon
  <2>3. ASSUME NEW units \in Nat, Pending(t, units) PROVE SleepInv'
    <3>1. /\ pc'[t] = "sleep" /\ yield_for'[t] = units /\ deadline'[t] = sleep_for(units)
          /\ now'[t] = now[t] /\ seen'[t] = seen[t]
          /\ \A r \in Tasks : r # t =>
               /\ pc'[r] = pc[r] /\ now'[r] = now[r] /\ seen'[r] = seen[r]
               /\ yield_for'[r] = yield_for[r] /\ deadline'[r] = deadline[r]
      BY <1>b, <2>1, <2>3, Zenon DEF Pending
    <3>2. ASSUME provider = "sleep"
          PROVE  sleep_for(units) >= start + (seen[t] + Duration(units)) * UnitsPerMs
      <4> DEFINE d == Duration(units)
                 v == seen[t]
                 U == UnitsPerMs
      <4>1. sleep_for(units) = time + d * U
        BY <3>2, Zenon DEF sleep_for
      <4>2. d \in Nat /\ U \in Nat /\ time \in Nat /\ start \in Nat
        BY <1>a, ClockNumbers, Milliseconds
      <4>3. v \in Nat /\ v * U <= time - start
        BY <1>a, <1>b, Zenon DEF ClockTypes, ClockInv
      <4> HIDE DEF d, v, U
      <4>4. (v + d) * U = v * U + d * U /\ v * U \in Nat /\ d * U \in Nat
        BY <4>2, <4>3
      <4>5. time + d * U >= start + (v + d) * U
        BY <4>2, <4>3, <4>4
      <4> QED BY <4>1, <4>5, Zenon DEF d, v, U
    <3> QED BY <1>a, <2>1, <3>1, <3>2, Same_SleepInv, Zenon
  <2> QED BY <1>9, <1>a, <2>2, <2>3, Polled, Zenon
<1> QED BY <1>2, <1>3, <1>4, <1>5, <1>6, <1>8, <1>9, Zenon DEF Next, TaskStep

LEMMA Next_AsyncInv == AsyncInv /\ [Next]_vars => AsyncInv'
  BY Next_Clock, Next_ProcessTypes, Next_SleepInv, Zenon DEF AsyncInv

\* Types, for any number of tasks, lives and settings of the system time: the
\* state always is an id of the machine, no reading or deadline is negative.
THEOREM TypeCorrect == Spec => []TypeOK
<1>1. AsyncInv => TypeOK
  BY Zenon DEF AsyncInv, ClockTypes, ProcessTypes, TypeOK
<1> QED BY <1>1, Init_AsyncInv, Next_AsyncInv, PTL DEF Spec

\* A wait that does not saturate takes exactly the ticks asked for.
LEMMA Unsaturated ==
  ASSUME NEW units \in Nat, units * N <= U64_MAX
  PROVE  Duration(units) = units * N
<1>1. U64_MAX \in Nat /\ N \in Nat /\ N >= 1
  BY AsyncAssumption, ClockAssumption
<1>2. units <= units * N /\ units * N \in Nat
  BY <1>1
<1>3. to_u64(units) = units
  BY <1>1, <1>2 DEF to_u64, AtMost
<1> QED BY <1>1, <1>2, <1>3 DEF Duration, AtMost

\* A task that has slept as long as it was told to finds the tick it waited for
\* reached: rounding to milliseconds and to the granularity of the clock never
\* makes the sleep too short.
THEOREM SleepIsEnough == Spec => SleepSuffices
<1> DEFINE Enough == \A t \in Tasks :
             /\ pc[t] = "sleep" /\ pc'[t] = "clock" /\ provider = "sleep"
             /\ yield_for[t] * N <= U64_MAX
             => TrueTick >= now[t] + yield_for[t]
<1>1. AsyncInv /\ [Next]_vars => [Enough]_vars
  <2> SUFFICES ASSUME AsyncInv, [Next]_vars, NEW t \in Tasks, pc[t] = "sleep",
                      pc'[t] = "clock", provider = "sleep", yield_for[t] * N <= U64_MAX
               PROVE  TrueTick >= now[t] + yield_for[t]
    BY Zenon DEF Enough
  <2>a. ClockTypes /\ ClockInv /\ ProcessTypes /\ SleepInv
    BY Zenon DEF AsyncInv
  <2>1. time >= deadline[t]
    <3>1. pc \in [Tasks -> {"idle", "clock", "decide", "sleep"}]
      BY <2>a, Zenon DEF ProcessTypes
    <3>2. ASSUME NEW r \in Tasks, TaskStep(r), r # t PROVE FALSE
      BY <3>1, <3>2, Zenon DEF TaskStep, Call, ReadClock, poll_id, Ready, Pending, Goto,
        Wake, Drop
    <3>3. ASSUME TaskStep(t) PROVE Wake(t)
      BY <3>1, <3>3, Zenon DEF TaskStep, Call, ReadClock, poll_id, Drop, Goto
    <3>4. \E r \in Tasks : TaskStep(r)
      BY Zenon DEF Next, CreateGenerator, Crash, locals, vars
    <3> QED BY <3>2, <3>3, <3>4, Zenon DEF Wake
  <2> DEFINE U == UnitsPerMs
             v == seen[t]
             y == yield_for[t]
             e == epoch_offset
  <2>2. /\ now[t] = (e + v) \div N /\ e # -1
        /\ deadline[t] >= start + (v + Duration(y)) * U
    BY <2>a, Zenon DEF SleepInv, current_millis
  <2>3. /\ U \in Nat \ {0} /\ N \in Nat \ {0} /\ time \in Nat /\ start \in Nat /\ start <= time
    BY <2>a, ClockNumbers, Zenon
  <2>4. v \in Nat /\ y \in Nat /\ e \in Nat /\ deadline[t] \in Nat
    BY <2>a, <2>2, Zenon DEF ClockTypes, ProcessTypes, Tasks
  <2>5. Duration(y) = y * N
    BY <2>4, Unsaturated, Zenon
  <2> HIDE DEF U, v, y, e
  <2>6. y * N \in Nat /\ v + y * N \in Int /\ (v + y * N) * U \in Int /\ time - start \in Int
    BY <2>3, <2>4
  <2>7. (v + y * N) * U <= time - start
    <3>1. deadline[t] >= start + (v + y * N) * U
      BY <2>2, <2>5, Zenon
    <3> QED BY <2>1, <2>3, <2>4, <2>6, <3>1
  <2>8. v + y * N <= Ms(time - start) /\ Ms(time - start) \in Int
    BY <2>3, <2>6, <2>7, Floor, FloorGreatest DEF Ms, U
  <2>9. /\ e + v + y * N <= e + Ms(time - start) /\ e + v \in Int
        /\ e + v + y * N \in Int /\ e + Ms(time - start) \in Int
    BY <2>4, <2>6, <2>8
  <2>10. (e + v + y * N) \div N <= TrueTick
    BY <2>3, <2>9, FloorOrder DEF TrueTick, e
  <2>11. ((e + v) \div N) + y <= (e + v + y * N) \div N
    BY <2>3, <2>4, <2>9, FloorPlus
  <2>12. /\ (e + v) \div N \in Int /\ (e + v + y * N) \div N \in Int /\ TrueTick \in Int
    BY <2>3, <2>9, Floor DEF TrueTick, e
  <2>13. TrueTick >= ((e + v) \div N) + y
    BY <2>4, <2>10, <2>11, <2>12
  <2> QED BY <2>2, <2>13, Zenon DEF y
<1> QED BY <1>1, Init_AsyncInv, Next_AsyncInv, PTL DEF Spec, SleepSuffices, Enough
-----------------------------------------------------------------------------
(* Restarts. *)

\* Ids are ordered by their timestamps.
LEMMA LaterTimestamp ==
  ASSUME NEW a \in IdsOf(MachineId), NEW b \in IdsOf(MachineId), timestamp(a) < timestamp(b)
  PROVE  a < b
<1> DEFINE M == 2^MACHINE_ID_BITS
           S == 2^SEQUENCE_BITS
           m == MachineId
           p == timestamp(a)
           q == timestamp(b)
           r == sequence(a)
           s == sequence(b)
<1>1. /\ M \in Nat \ {0} /\ S \in Nat \ {0} /\ 2^TIMESTAMP_SHIFT = M * S
      /\ m \in 0 .. M - 1
  BY LayoutAssumption, AsyncAssumption DEF MACHINE_ID_MASK
<1>2. /\ p \in 0 .. TIMESTAMP_MASK /\ r \in 0 .. SEQUENCE_MASK
      /\ q \in 0 .. TIMESTAMP_MASK /\ s \in 0 .. SEQUENCE_MASK
      /\ a = p * 2^TIMESTAMP_SHIFT + m * 2^SEQUENCE_BITS + r
      /\ b = q * 2^TIMESTAMP_SHIFT + m * 2^SEQUENCE_BITS + s
  BY Decomposed, AsyncAssumption
<1>3. /\ p \in Nat /\ q \in Nat /\ p < q /\ r \in 0 .. S - 1 /\ s \in 0 .. S - 1
  BY <1>1, <1>2 DEF SEQUENCE_MASK
<1>4. a = p * (M * S) + m * S + r /\ b = q * (M * S) + m * S + s
  BY <1>1, <1>2, Zenon
<1> HIDE DEF M, S, m, p, q, r, s
<1>5. /\ M * S \in Nat \ {0} /\ m * S + r \in 0 .. M * S - 1 /\ m * S + s \in 0 .. M * S - 1
      /\ a = p * (M * S) + (m * S + r) /\ b = q * (M * S) + (m * S + s)
  BY <1>1, <1>3, <1>4, ThreeFields
<1> QED BY <1>3, <1>5, QuotientOrder

\* A reading lies between the first tick of the clock and the end of the field.
LEMMA NowFits ==
  ASSUME TimestampsFit, AsyncInv, NEW t \in Tasks, pc[t] = "decide"
  PROVE  /\ now[t] \in 0 .. TIMESTAMP_MASK /\ epoch_offset \div N \in Int
         /\ epoch_offset \div N <= now[t]
<1>a. ClockTypes /\ ClockInv /\ ProcessTypes /\ SleepInv
  BY Zenon DEF AsyncInv
<1> DEFINE U == UnitsPerMs
           v == seen[t]
           e == epoch_offset
           b == base_system_now
<1>1. now[t] = (e + v) \div N /\ e # -1 /\ e = AtLeast(b - epoch, 0)
  BY <1>a, Zenon DEF SleepInv, current_millis, ClockInv, Offset
<1>2. /\ U \in Nat \ {0} /\ N \in Nat \ {0} /\ time \in Nat /\ start \in Nat /\ time <= MaxTime
      /\ b \in Nat /\ epoch \in Nat /\ MaxTime \in Nat
  BY <1>a, ClockNumbers, Zenon
<1>3. v \in Nat /\ e \in Nat /\ now[t] \in Nat /\ v * U <= time - start
  BY <1>a, <1>1, Zenon DEF ClockTypes, ClockInv, ProcessTypes, Tasks
<1>4. PICK offset \in WallOffsets : b <= AtLeast(Ms(MaxTime + offset), 0)
  BY <1>a, Zenon DEF ClockInv, SampleBound
<1>5. (AtLeast(Ms(MaxTime + offset), 0) + Ms(MaxTime)) \div N <= TIMESTAMP_MASK
  BY Zenon DEF TimestampsFit
<1> DEFINE c == AtLeast(Ms(MaxTime + offset), 0)
           d == Ms(MaxTime)
<1>6. c \in Int /\ d \in Int
  BY <1>2, ClockAssumption, Floor DEF Ms, AtLeast
<1> HIDE DEF U, v, e, b, c
<1>7. e <= b
  BY <1>1, <1>2 DEF AtLeast
<1>8. v <= d
  <2>1. v * U <= MaxTime /\ v * U \in Int
    BY <1>2, <1>3
  <2> QED BY <1>2, <1>3, <2>1, FloorGreatest DEF Ms, U
<1> HIDE DEF d
<1>9. /\ e + v <= c + d /\ e + v \in Int /\ c + d \in Int /\ e <= e + v /\ e \in Int
  BY <1>2, <1>3, <1>4, <1>6, <1>7, <1>8 DEF c
<1>10. (e + v) \div N <= (c + d) \div N /\ e \div N <= (e + v) \div N
  BY <1>2, <1>9, FloorOrder
<1>11. (e + v) \div N \in Int /\ (c + d) \div N \in Int /\ e \div N \in Int
  BY <1>2, <1>9, Floor
<1>12. (c + d) \div N <= TIMESTAMP_MASK
  BY <1>5, Zenon DEF c, d
<1>13. TIMESTAMP_MASK \in Int
  BY LayoutAssumption DEF TIMESTAMP_MASK
<1>14. now[t] \in 0 .. TIMESTAMP_MASK /\ e \div N <= now[t]
  BY <1>1, <1>3, <1>10, <1>11, <1>12, <1>13
<1> QED BY <1>11, <1>14, Zenon DEF e

LEMMA Next_LifeInv ==
  ASSUME TimestampsFit PROVE AsyncInv /\ LifeInv /\ [Next]_vars => LifeInv'
<1> SUFFICES ASSUME AsyncInv, LifeInv, [Next]_vars, epoch_offset' # -1
             PROVE  /\ restore' => state' >= high'
                    /\ ~ restore' /\ ~ RestartTooEarly' =>
                         state' = new \/ timestamp(state') >= epoch_offset' \div N
  BY Zenon DEF LifeInv
<1>a. ClockTypes /\ ClockInv /\ ProcessTypes /\ SleepInv
  BY Zenon DEF AsyncInv
<1>b. /\ state \in IdsOf(MachineId) /\ high \in IdsOf(MachineId)
      /\ MachineId \in 0 .. MACHINE_ID_MASK
  BY <1>a, AsyncAssumption, Zenon DEF ProcessTypes
<1>c. state \in Nat /\ high \in Nat /\ timestamp(state) \in Nat
  BY <1>b, Decomposed
<1>1. CASE UNCHANGED <<restore, state, high, epoch_offset>>
  <2>1. RestartTooEarly' <=> RestartTooEarly
    BY <1>1, Zenon DEF RestartTooEarly
  <2> QED BY <1>1, <2>1, Zenon DEF LifeInv
<1>2. CASE CreateGenerator
  <2>1. state' = Created /\ high' = high /\ restore' = restore
    BY <1>2, Zenon DEF CreateGenerator
  <2>2. high >= high
    BY <1>c
  <2>3. ~ restore => Created = new
    BY Zenon DEF Created
  <2> QED BY <1>b, <2>1, <2>2, <2>3, CreatedId, Zenon
<1>3. CASE Crash
  BY <1>3, Zenon DEF Crash, ClockLost
<1>4. ASSUME NEW t \in Tasks, poll_id(t), state' # state
      PROVE  /\ restore' => state' >= high'
             /\ ~ restore' /\ ~ RestartTooEarly' =>
                  state' = new \/ timestamp(state') >= epoch_offset' \div N
  <2>1. /\ pc[t] = "decide" /\ UNCHANGED <<restore, high, epoch_offset>>
        /\ state' \in IdsOf(MachineId)
        /\ \/ /\ now[t] = timestamp(state) /\ state' = state + 1
              /\ timestamp(state') = timestamp(state)
           \/ /\ now[t] > timestamp(state)
              /\ state' = rollover_to_timestamp(state, now[t])
    BY <1>4, <1>a, Polled, Zenon DEF clock_vars, Pending
  <2>2. /\ now[t] \in 0 .. TIMESTAMP_MASK /\ epoch_offset \div N \in Int
        /\ epoch_offset \div N <= now[t]
    BY <2>1, NowFits, Zenon
  <2>3. timestamp(state') = now[t] /\ state' > state /\ state' \in Nat
    <3>1. CASE now[t] = timestamp(state) /\ state' = state + 1
                 /\ timestamp(state') = timestamp(state)
      BY <1>c, <3>1
    <3>2. CASE now[t] > timestamp(state) /\ state' = rollover_to_timestamp(state, now[t])
      <4>1. timestamp(state) < now[t]
        BY <1>c, <2>2, <3>2
      <4>2. timestamp(state') = now[t] /\ state' > state
        BY <1>b, <2>2, <3>2, <4>1, RolledOver, Zenon
      <4> QED BY <1>b, <2>1, <4>2, Decomposed
    <3> QED BY <2>1, <3>1, <3>2, Zenon
  <2>4. ASSUME restore PROVE state' >= high
    <3>1. state >= high
      BY <1>a, <2>1, <2>4, Zenon DEF LifeInv, SleepInv
    <3> QED BY <1>c, <2>3, <3>1
  <2>5. timestamp(state') >= epoch_offset \div N
    BY <2>2, <2>3
  <2> QED BY <2>1, <2>4, <2>5, Zenon
<1>5. \/ UNCHANGED <<restore, state, high, epoch_offset>> \/ CreateGenerator \/ Crash
      \/ \E t \in Tasks : poll_id(t) /\ state' # state
  <2>1. CASE ClockStep /\ UNCHANGED <<locals, process>>
    BY <2>1, Zenon DEF process, ClockStep, Advance, SetWall, SampleInstant, SampleSystemTime,
      Tick, Publish
  <2>2. CASE UNCHANGED vars
    BY <2>2, Zenon DEF vars, clock_vars, process
  <2>3. ASSUME NEW t \in Tasks, TaskStep(t), ~ (poll_id(t) /\ state' # state)
        PROVE  UNCHANGED <<restore, state, high, epoch_offset>>
    <3>1. CASE poll_id(t)
      BY <2>3, <3>1, Zenon DEF poll_id, clock_vars
    <3>2. CASE ~ poll_id(t)
      BY <2>3, <3>2, Zenon DEF TaskStep, Call, ReadClock, Load, Wake, Drop, process, clock_vars
    <3> QED BY <3>1, <3>2
  <2> QED BY <2>1, <2>2, <2>3, Zenon DEF Next
<1> QED BY <1>1, <1>2, <1>3, <1>4, <1>5, Zenon

\* Across restarts no id is repeated or undercut: never by a generator restored
\* with from_components, and by one made with new if the clock of the new life
\* starts after the tick of the last id.
THEOREM NoRepeat ==
  ASSUME TimestampsFit
  PROVE  Spec => []NoRepeatAcrossRestarts
<1>1. Init => AsyncInv /\ LifeInv
  BY Init_AsyncInv, Zenon DEF Init, ClockInit, LifeInv
<1>2. (AsyncInv /\ LifeInv) /\ [Next]_vars => (AsyncInv /\ LifeInv)'
  BY Next_AsyncInv, Next_LifeInv, Zenon
<1>3. AsyncInv /\ LifeInv => NoRepeatAcrossRestarts
  <2> SUFFICES ASSUME AsyncInv, LifeInv, epoch_offset # -1, state # Created,
                      restore \/ ~ RestartTooEarly
               PROVE  state > high
    BY Zenon DEF NoRepeatAcrossRestarts
  <2>1. /\ state \in IdsOf(MachineId) /\ high \in IdsOf(MachineId)
        /\ MachineId \in 0 .. MACHINE_ID_MASK
    BY AsyncAssumption, Zenon DEF AsyncInv, ProcessTypes
  <2>2. /\ state \in Nat /\ high \in Nat
        /\ timestamp(state) \in Nat /\ timestamp(high) \in Nat
    BY <2>1, Decomposed
  <2>3. CASE restore
    <3>1. state >= high /\ state # high
      BY <2>1, <2>3, CreatedId, Zenon DEF LifeInv
    <3> QED BY <2>2, <3>1
  <2>4. CASE ~ restore
    <3>1. timestamp(state) >= epoch_offset \div N /\ ~ (epoch_offset \div N <= timestamp(high))
      BY <2>4, Zenon DEF LifeInv, Created, RestartTooEarly
    <3>2. epoch_offset \div N \in Int
      <4>1. epoch_offset \in Int /\ N \in Nat \ {0}
        <5>1. epoch_offset \in Nat \cup {-1} /\ N \in Nat \ {0}
          BY ClockAssumption, Zenon DEF AsyncInv, ClockTypes
        <5> QED BY <5>1
      <4> QED BY <4>1, Floor
    <3>3. timestamp(high) < timestamp(state)
      BY <2>2, <3>1, <3>2
    <3>4. high < state
      BY <2>1, <3>3, LaterTimestamp
    <3> QED BY <2>2, <3>4
  <2> QED BY <2>3, <2>4
<1> QED BY <1>1, <1>2, <1>3, PTL DEF Spec
=============================================================================
