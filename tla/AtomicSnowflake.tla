-------------------------- MODULE AtomicSnowflake --------------------------
(***************************************************************************)
(* AtomicSnowflakeGenerator (generator/snowflake/atomic.rs): any number of *)
(* threads inside next_id/poll_id share one AtomicU64 and a time source.   *)
(*                                                                         *)
(* Every access is Ordering::Relaxed.  The model therefore keeps the       *)
(* modification order `mo' of the AtomicU64 instead of a single value: a   *)
(* load may return any value that is not older, in that order, than what   *)
(* the thread has already seen; a compare_exchange that succeeds acts on   *)
(* the newest value; one that fails is only a load.  mo[1] is the value    *)
(* the generator was created with and mo[2], mo[3], ... are the ids it has *)
(* handed out, in order.  The clock is read with a relaxed load too        *)
(* (time/mono_clock.rs:184), independently of the state.                   *)
(***************************************************************************)
EXTENDS SnowflakeId, Sequences

CONSTANTS
  Threads,          \* threads sharing the generator
  MachineId,        \* machine_id argument of the constructor
  Seeds,            \* <<timestamp, sequence>> the generator may start from
  MaxMillis,        \* bound on the time source
  Monotonic,        \* TRUE: MonotonicClock; FALSE: an arbitrary TimeSource
  DebugAssertions   \* TRUE: a build with debug_assert! enabled

ASSUME AtomicAssumption ==
  /\ MachineId \in 0 .. MACHINE_ID_MASK
  /\ Seeds \in SUBSET ((0 .. TIMESTAMP_MASK) \X (0 .. SEQUENCE_MASK))
  /\ MaxMillis \in Nat
  /\ Monotonic \in BOOLEAN /\ DebugAssertions \in BOOLEAN

VARIABLES
  millis,           \* newest value of the time source
  mo,               \* modification order of the AtomicU64
  pc,               \* where each thread is in next_id
  now,              \* the thread's last reading of the clock
  view,             \* index in mo of the newest value the thread has seen
  next_id,          \* the value the thread is about to exchange in
  yield_for         \* the back-off of the thread's last Poll::Pending

vars == <<millis, mo, pc, now, view, next_id, yield_for>>

Newest == mo[Len(mo)]

-----------------------------------------------------------------------------

\* new is from_components with both fields zero.
Init ==
  /\ \E seed \in Seeds : mo = << from_components(seed[1], MachineId, seed[2]) >>
  /\ millis = 0
  /\ pc = [t \in Threads |-> "idle"]
  /\ now = [t \in Threads |-> 0]
  /\ view = [t \in Threads |-> 1]
  /\ next_id = [t \in Threads |-> 0]
  /\ yield_for = [t \in Threads |-> 0]

\* The time source moves; the ticker may skip milliseconds.
Tick ==
  /\ millis' \in millis + 1 .. MaxMillis
  /\ UNCHANGED <<mo, pc, now, view, next_id, yield_for>>

Call(t) ==
  /\ pc[t] = "idle"
  /\ pc' = [pc EXCEPT ![t] = "clock"]
  /\ UNCHANGED <<millis, mo, now, view, next_id, yield_for>>

\* What current_millis may return to t: a relaxed load of a counter that one
\* thread advances, or anything at all from a TimeSource without guarantees.
Readings(t) == IF Monotonic THEN now[t] .. millis ELSE 0 .. MaxMillis

ReadClock(t) ==
  /\ pc[t] = "clock"
  /\ \E n \in Readings(t) : now' = [now EXCEPT ![t] = n]
  /\ pc' = [pc EXCEPT ![t] = "load"]
  /\ UNCHANGED <<millis, mo, view, next_id, yield_for>>

Pending(t, units) ==
  /\ pc' = [pc EXCEPT ![t] = "pending"]
  /\ yield_for' = [yield_for EXCEPT ![t] = units]
  /\ UNCHANGED next_id

\* mutant: the absolute time instead of the difference
clock_behind_absolute(n, current_ts) == n + current_ts
cold_clock_behind(n, current_ts) == current_ts - n

\* mutant: the new tick starts one unit ahead of the clock
Exchange_ahead(t, id) ==
  /\ pc' = [pc EXCEPT ![t] = "cas"]
  /\ next_id' = [next_id EXCEPT ![t] =
       IF sequence(id) = 0 THEN rollover_to_timestamp(id, now[t] + 1) ELSE id]
  /\ UNCHANGED yield_for
Exchange(t, id) ==
  /\ pc' = [pc EXCEPT ![t] = "cas"]
  /\ next_id' = [next_id EXCEPT ![t] = id]
  /\ UNCHANGED yield_for

Panic(t) ==
  /\ pc' = [pc EXCEPT ![t] = "panicked"]
  /\ UNCHANGED <<next_id, yield_for>>

\* state.load(Relaxed) and the decision taken on the value, which is local.
Load(t) ==
  /\ pc[t] = "load"
  /\ \E i \in view[t] .. Len(mo) :
       LET current_id == mo[i]
           current_ts == timestamp(current_id)
       IN  /\ view' = [view EXCEPT ![t] = i]
           /\ \/ /\ now[t] = current_ts /\ has_sequence_room(current_id)
                 /\ Exchange(t, increment_sequence(current_id))
              \/ /\ now[t] = current_ts /\ ~ has_sequence_room(current_id)
                 /\ Pending(t, 1)
              \/ /\ now[t] > current_ts
                 /\ DebugAssertions => ~ FieldOverflow(now[t], MachineId, 0)
                 /\ Exchange(t, rollover_to_timestamp(current_id, now[t]))
              \/ /\ now[t] > current_ts
                 /\ DebugAssertions /\ FieldOverflow(now[t], MachineId, 0)
                 /\ Panic(t)
              \/ /\ now[t] < current_ts
                 /\ Pending(t, cold_clock_behind(now[t], current_ts))
  /\ UNCHANGED <<millis, mo, now>>

\* mutant: a plain store where the exchange is
Store(t) ==
  /\ pc[t] = "cas"
  /\ mo' = Append(mo, next_id[t])
  /\ view' = [view EXCEPT ![t] = Len(mo) + 1]
  /\ pc' = [pc EXCEPT ![t] = "idle"]
  /\ UNCHANGED <<millis, now, next_id, yield_for>>
ExchangeSucceeds(t) ==
  /\ pc[t] = "cas"
  /\ Newest = mo[view[t]]
  /\ mo' = Append(mo, next_id[t])
  /\ view' = [view EXCEPT ![t] = Len(mo) + 1]
  /\ pc' = [pc EXCEPT ![t] = "idle"]
  /\ UNCHANGED <<millis, now, next_id, yield_for>>

\* A failed compare_exchange loads some later value that is not the expected.
ExchangeFails(t) ==
  /\ pc[t] = "cas"
  /\ Newest # mo[view[t]]
  /\ \E i \in view[t] + 1 .. Len(mo) :
       /\ mo[i] # mo[view[t]]
       /\ view' = [view EXCEPT ![t] = i]
  /\ Pending(t, 0)
  /\ UNCHANGED <<millis, mo, now>>

\* mutant: the clock is not read again after a Pending
Retry_without_clock(t) ==
  /\ pc[t] = "pending"
  /\ pc' = [pc EXCEPT ![t] = "load"]
  /\ UNCHANGED <<millis, mo, now, view, next_id, yield_for>>
\* The caller's back-off f(yield_for), of any length, then poll_id again.
Retry(t) ==
  /\ pc[t] = "pending"
  /\ pc' = [pc EXCEPT ![t] = "clock"]
  /\ UNCHANGED <<millis, mo, now, view, next_id, yield_for>>

Step(t) ==
  \/ Call(t) \/ ReadClock(t) \/ Load(t)
  \/ ExchangeSucceeds(t) \/ ExchangeFails(t) \/ Retry(t)

Next == Tick \/ \E t \in Threads : Step(t)

Spec == Init /\ [][Next]_vars

-----------------------------------------------------------------------------
(***************************************************************************)
(* Fairness: a thread inside next_id keeps running (the operating system   *)
(* schedules it), the ticker thread runs, and a store becomes visible to   *)
(* other threads in finite time, so a thread that keeps reading the clock  *)
(* reads its newest value infinitely often.  Nobody has to call next_id.   *)
(***************************************************************************)
ReadFreshClock(t) == ReadClock(t) /\ now'[t] = millis

Fairness ==
  /\ WF_vars(Tick)
  /\ \A t \in Threads :
       /\ WF_vars(ReadClock(t)) /\ SF_vars(ReadFreshClock(t))
       /\ WF_vars(Load(t)) /\ WF_vars(Retry(t))
       /\ WF_vars(ExchangeSucceeds(t) \/ ExchangeFails(t))

FairSpec == Spec /\ Fairness

-----------------------------------------------------------------------------

\* Types of the variables; ids keep the generator's machine id and never set
\* a reserved bit, and no thread has seen the future of the modification order.
TypeOK ==
  /\ millis \in 0 .. MaxMillis
  /\ mo \in Seq(IdsOf(MachineId)) /\ Len(mo) >= 1
  /\ pc \in [Threads -> {"idle", "clock", "load", "cas", "pending", "panicked"}]
  /\ now \in [Threads -> 0 .. MaxMillis]
  /\ view \in [Threads -> 1 .. Len(mo)]
  /\ next_id \in [Threads -> Nat]
  /\ yield_for \in [Threads -> Nat]

\* The ids handed out by poll_id, whichever threads took them, are strictly
\* increasing in order of issue: unique, and sorted by time of issue.  This
\* is what every caller of the generator relies on.
StrictlyIncreasing ==
  \A i, j \in 1 .. Len(mo) : i < j => mo[i] < mo[j]

\* Within a tick the sequence counts 0, 1, 2, ... without a hole, although
\* threads race for every value (the sequence assertions of
\* run_generator_monotonic, generator/snowflake/tests.rs:149-159).
NoSequenceGaps ==
  \A i \in 2 .. Len(mo) :
    \/ sequence(mo[i]) = 0
    \/ /\ timestamp(mo[i]) = timestamp(mo[i - 1])
       /\ sequence(mo[i]) = sequence(mo[i - 1]) + 1

\* No id handed out carries a timestamp the time source has not reached.
NoFutureTimestamp ==
  \A i \in 2 .. Len(mo) : timestamp(mo[i]) <= millis

\* However stale a thread's clock reading or view of the state is, poll_id
\* never tells it to wait beyond the tick after the newest one in use: a
\* back-off cannot grow with contention.
BackoffBounded ==
  \A t \in Threads : pc[t] = "pending" =>
    \/ now[t] + yield_for[t] <= millis + 1
    \/ now[t] + yield_for[t] <= timestamp(mo[1]) + 1

Issuer == INSTANCE IdIssuer WITH
  Ids <- IdsOf(MachineId), last <- Newest, count <- Len(mo) - 1

\* The atomic generator implements the abstract issuer: poll_id either leaves
\* the shared state alone or issues one id, greater than all before, of the same
\* machine; an exchange of a value for itself would be an issue too.
IssuerSpec == Issuer!Spec

\* The last tick the bound allows is used up, or the generator was seeded
\* with a tick beyond it.
Exhausted ==
  /\ millis = MaxMillis
  /\ timestamp(Newest) = MaxMillis => ~ has_sequence_room(Newest)
  /\ timestamp(Newest) >= MaxMillis

\* Lock-freedom of next_id, while the clock fits the timestamp field: once some
\* thread is inside the call an id is issued, to that thread or to another, until
\* the bound on the time is used up.  Lost exchanges, stale loads, a full tick and
\* a clock that goes back delay it, none of them stops it.
Progress ==
  \A n \in 1 .. (MaxMillis + 1) * (SEQUENCE_MASK + 1) :
    (Len(mo) = n /\ \E t \in Threads : pc[t] # "idle")
      ~> Len(mo) > n \/ Exhausted
=============================================================================
