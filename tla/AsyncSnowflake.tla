--------------------------- MODULE AsyncSnowflake ---------------------------
(***************************************************************************)
(* A process that generates Snowflake ids on a MonotonicClock<N>, and is   *)
(* restarted.  Its tasks run the retry loop of try_next_id_async           *)
(* (futures/snowflake.rs; futures/ulid.rs has the same), or that of a      *)
(* blocking caller that sleeps for the time it is told.  They share a      *)
(* generator: a LockSnowflakeGenerator, whose mutex is the subject of      *)
(* LockSnowflake, or, one task alone, a BasicSnowflakeGenerator.           *)
(* A crash loses tasks, ticker and generator; the next life of the process *)
(* creates its generator with new or, if `restore', with from_components   *)
(* from a stored copy of the last id.                                      *)
(***************************************************************************)
EXTENDS MonotonicClock, SnowflakeId

CONSTANTS
  MachineId,        \* machine_id argument of the constructor
  Providers,        \* SleepProviders: "sleep" (a timer) and "yield"
  U64_MAX,          \* greatest number of milliseconds of a sleep
  MaxRestarts       \* bound on crashes

ASSUME AsyncAssumption ==
  /\ MachineId \in 0 .. MACHINE_ID_MASK
  /\ Providers \subseteq {"sleep", "yield"}
  /\ U64_MAX \in Nat /\ MaxRestarts \in Nat

VARIABLES
  provider, restore,
  state,            \* the generator's last id
  high,             \* greatest id issued in earlier lives
  pc,               \* tasks: "idle", "clock", "decide", "sleep"
  now, yield_for, deadline,
  restarts

locals == <<pc, now, yield_for, deadline>>
process == <<provider, restore, state, high, restarts>>
vars == <<clock_vars, locals, process>>

Tasks == Readers
new == from_components(0, MachineId, 0)

-----------------------------------------------------------------------------

Init ==
  /\ ClockInit
  /\ pc = [t \in Tasks |-> "idle"]
  /\ now = [t \in Tasks |-> 0]
  /\ yield_for = [t \in Tasks |-> 0]
  /\ deadline = [t \in Tasks |-> 0]
  /\ provider \in Providers /\ restore \in BOOLEAN
  /\ state = new /\ high = new /\ restarts = 0

\* mutant: the sequence is not restored
Created_timestamp_only ==
  IF restore THEN from_components(timestamp(high), machine_id(high), 0) ELSE new
\* from_components on the fields of the stored id, or new.
Created ==
  IF restore THEN from_components(timestamp(high), machine_id(high), sequence(high))
             ELSE new

\* with_epoch and the constructor of the generator.
CreateGenerator ==
  /\ lazy = "running" /\ epoch_offset = -1
  /\ epoch_offset' = Offset /\ state' = Created
  /\ UNCHANGED <<time, wall, lead, epoch, ticker, seen, locals,
                 provider, restore, high, restarts>>

Call(t) ==
  /\ pc[t] = "idle" /\ epoch_offset # -1
  /\ pc' = [pc EXCEPT ![t] = "clock"]
  /\ UNCHANGED <<clock_vars, now, yield_for, deadline, process>>

ReadClock(t) ==
  /\ pc[t] = "clock"
  /\ \E v \in stored :
       Load(t, v) /\ now' = [now EXCEPT ![t] = current_millis(v)]
  /\ pc' = [pc EXCEPT ![t] = "decide"]
  /\ UNCHANGED <<yield_for, deadline, process>>

\* The loop's local variables are gone when it ends or comes round.
Goto(t, label) ==
  /\ pc' = [pc EXCEPT ![t] = label]
  /\ now' = [now EXCEPT ![t] = 0]
  /\ yield_for' = [yield_for EXCEPT ![t] = 0]
  /\ deadline' = [deadline EXCEPT ![t] = 0]

\* The id is returned without another await: a dropped future has none.
Ready(t, id) == state' = id /\ Goto(t, "idle")

AtMost(x, ceiling) == IF x > ceiling THEN ceiling ELSE x

to_u64(x) == AtMost(x, U64_MAX)

\* mutant: the granularity is forgotten
Duration_ungranular(units) == to_u64(units)
\* Duration::from_millis(yield_for.to_u64().saturating_mul(GRANULARITY_MILLIS))
Duration(units) == AtMost(to_u64(units) * N, U64_MAX)

\* What S::sleep_for waits for: a timer, or a turn of the scheduler.
sleep_for(units) ==
  IF provider = "sleep" THEN time + Duration(units) * UnitsPerMs ELSE time

Pending(t, units) ==
  /\ pc' = [pc EXCEPT ![t] = "sleep"]
  /\ yield_for' = [yield_for EXCEPT ![t] = units]
  /\ deadline' = [deadline EXCEPT ![t] = sleep_for(units)]
  /\ UNCHANGED <<state, now>>

\* poll_id of the basic generator, try_poll_id of the lock generator, while the
\* clock fits the timestamp field: the debug assertion on it, and the error of a
\* poisoned mutex, which ends the loop, are in LockSnowflake.
poll_id(t) ==
  LET current_ts == timestamp(state)
  IN  /\ pc[t] = "decide"
      /\ \/ /\ now[t] = current_ts /\ has_sequence_room(state)
            /\ Ready(t, increment_sequence(state))
         \/ /\ now[t] = current_ts /\ ~ has_sequence_room(state)
            /\ Pending(t, 1)
         \/ /\ now[t] > current_ts
            /\ Ready(t, rollover_to_timestamp(state, now[t]))
         \/ /\ now[t] < current_ts
            /\ Pending(t, current_ts - now[t])
      /\ UNCHANGED <<clock_vars, provider, restore, high, restarts>>

\* mutant: the loop goes on with the reading it has
Wake_without_clock(t) ==
  /\ pc[t] = "sleep" /\ time >= deadline[t]
  /\ pc' = [pc EXCEPT ![t] = "decide"]
  /\ UNCHANGED <<clock_vars, now, yield_for, deadline, process>>
\* A timer never fires early, but may be late.
Wake(t) ==
  /\ pc[t] = "sleep" /\ time >= deadline[t]
  /\ Goto(t, "clock")
  /\ UNCHANGED <<clock_vars, process>>

\* The future is dropped at its only await point.
Drop(t) ==
  /\ pc[t] = "sleep"
  /\ Goto(t, "idle")
  /\ UNCHANGED <<clock_vars, process>>

Crash ==
  /\ restarts < MaxRestarts
  /\ restarts' = restarts + 1
  /\ high' = IF state > high THEN state ELSE high
  /\ state' = new
  /\ ClockLost
  /\ pc' = [t \in Tasks |-> "idle"]
  /\ now' = [t \in Tasks |-> 0]
  /\ yield_for' = [t \in Tasks |-> 0]
  /\ deadline' = [t \in Tasks |-> 0]
  /\ UNCHANGED <<provider, restore>>

TaskStep(t) == Call(t) \/ ReadClock(t) \/ poll_id(t) \/ Wake(t) \/ Drop(t)

Next ==
  \/ ClockStep /\ UNCHANGED <<locals, process>>
  \/ CreateGenerator \/ Crash
  \/ \E t \in Tasks : TaskStep(t)

Spec == Init /\ [][Next]_vars

(***************************************************************************)
(* Fairness: time passes, the operating system runs the ticker thread, the *)
(* runtime runs its tasks and timers, stores become visible in finite      *)
(* time.  Nobody has to call, to drop a future, to set the system time or  *)
(* to crash.                                                               *)
(***************************************************************************)
ReadFreshClock(t) == ReadClock(t) /\ seen'[t] = current

Fairness ==
  /\ WF_vars(Advance /\ UNCHANGED <<locals, process>>)
  /\ WF_vars(Tick /\ UNCHANGED <<locals, process>>)
  /\ \A t \in Tasks :
       /\ WF_vars(ReadClock(t)) /\ SF_vars(ReadFreshClock(t))
       /\ WF_vars(poll_id(t)) /\ WF_vars(Wake(t))

FairSpec == Spec /\ Fairness

-----------------------------------------------------------------------------

\* Types of the variables.
TypeOK ==
  /\ time \in 0 .. MaxTime /\ lead \in Int /\ wall \in Int /\ wall - time \in WallOffsets
  /\ epoch \in Epochs /\ lazy \in {"unset", "start sampled", "running"}
  /\ start \in 0 .. time /\ base_system_now \in Nat
  /\ current \in stored /\ stored \subseteq Nat /\ tick \in Nat /\ epoch_offset \in Nat \cup {-1}
  /\ seen \in [Readers -> stored]
  /\ provider \in Providers /\ restore \in BOOLEAN /\ restarts \in 0 .. MaxRestarts
  /\ state \in IdsOf(MachineId) /\ high \in IdsOf(MachineId)
  /\ pc \in [Tasks -> {"idle", "clock", "decide", "sleep"}]
  /\ now \in [Tasks -> Nat] /\ yield_for \in [Tasks -> Nat]
  /\ deadline \in [Tasks -> Nat]

\* A task that has slept the time it was told to finds the clock's tick
\* reached: only a late ticker thread or a stale load can make it wait again.
\* (A saturated duration is shorter than the wait and is repeated.)
SleepSuffices ==
  [][\A t \in Tasks :
       /\ pc[t] = "sleep" /\ pc'[t] = "clock" /\ provider = "sleep"
       /\ yield_for[t] * N <= U64_MAX
       => TrueTick >= now[t] + yield_for[t]]_vars

\* The clock of this life starts no later than the last id of an earlier one:
\* the process came back within the tick, the system time was set back (or the
\* earlier clock ran ahead of it), or the epoch lies in the future.
RestartTooEarly == epoch_offset \div N <= timestamp(high)

\* Across restarts no id is repeated or undercut: never, if the state is
\* restored with from_components; with new, as long as the new clock starts
\* after the last id.
NoRepeatAcrossRestarts ==
  epoch_offset # -1 /\ state # Created =>
    state > high \/ (~ restore /\ RestartTooEarly)

Exhausted ==
  /\ time = MaxTime
  /\ timestamp(state) = TrueTick => ~ has_sequence_room(state)
  /\ timestamp(state) >= TrueTick

\* A task waiting for an id gets one, whether it sleeps or spins, also when the
\* restored state is ahead of the clock or its tick is full; unless it is left
\* sleeping beyond the time bound or the last tick is used up.
TasksFinish ==
  \A t \in Tasks :
    []<>(pc[t] = "idle" \/ Exhausted \/ (pc[t] = "sleep" /\ deadline[t] > MaxTime))
=============================================================================
