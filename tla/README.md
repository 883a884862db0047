# Verification of ferroid

ferroid generates Snowflake ids and ULIDs (`crates/ferroid`), serves Snowflake
ids over gRPC (`crates/ferroid-tonic-server`, `crates/ferroid-tonic-core`) and
offers ULIDs as a PostgreSQL type (`crates/pg-ferroid`). This directory holds
TLA+ models of it, TLC configurations that check them on small instances, and
TLAPS proofs that hold for every instance. Paths below are relative to the
source tree; those without a crate are in `crates/ferroid/src`.

## 1. The system and what must hold of it

| part | state | what is hard | what must hold |
|---|---|---|---|
| Id layouts (`id/snowflake.rs`, `id/ulid.rs`) | none | fields are masked in release builds and asserted in debug builds | the next id is greater; fields round-trip |
| Atomic Snowflake generator (`generator/snowflake/atomic.rs`) | one `AtomicU64` | relaxed loads, stale clock readings, lost exchanges | unique, ordered, gapless ids; bounded back-off; lock-freedom |
| Lock Snowflake generator (`generator/snowflake/lock.rs`) | an id behind a std or parking_lot mutex | the clock is read before the lock; panics poison | the same; no lost update, no id after poisoning, waiters released |
| Monotonic and plain ULID generators (`generator/ulid/*`, `thread_local.rs`) | an atomic, a locked, a thread's own id, or none | the random field is the counter; the random source runs under the lock and may panic | increasing ids, no half-made state |
| `MonotonicClock` (`time/mono_clock.rs`) | a counter advanced by one thread | two samples at start, late ticks, a system time that is set, granularity | never goes back, keeps its distance to the system time |
| Async generators (`futures/*`), basic generator (`generator/snowflake/basic.rs`) | an id | the length of the sleep between two polls; restarts | sleeps suffice; no id repeats after a restart |
| Base32, serde, integers, bytes, times | none | spare bits, aliases, lent buffers, validity | what is an id again is the same id; errors name their cause |
| PostgreSQL extension (`crates/pg-ferroid/src/lib.rs`) | none | times before 1970, infinities, NULL | the same; order and index scans are exact |
| Request handler (`service/handler.rs` of the server) | `SHUTDOWN`, `STREAMS_INFLIGHT` | the flag is read long before the counter is raised | the counter is exact |
| Coordinator (`streaming/coordinator.rs`) | per stream: remaining ids, two channels | a closed channel means "complete" and "dropped" | complete streams, or an error |
| Processor and workers (`streaming/processor.rs`, `pool/worker.rs`) | a generator, a buffer that outlives a request | early returns that do not reset the buffer | no id twice, a clean buffer, no worker held up by a client |
| Pool and shutdown (`pool/manager.rs`) | round-robin counter, token | sends that wait across the cancellation; a send without timeout | shutdown terminates; nothing is issued after it |
| Process and telemetry (`main.rs`, `telemetry.rs`) | listener, socket file, health, metrics | several processes on one address, crashes, errors at each step | clients reach who listens; the status precedes refusals; metrics add up |

How they interact: every generator asks a time source and updates its state. A
server worker owns one basic generator; `feed_chunks`, one task per stream, sends
one request at a time to the next worker's channel (capacity 1), receives its
chunk through a channel of its own (capacity 2), and forwards it to the client's
channel (capacity `stream_buffer_size`). Shutdown runs beside all of them, started
by `main`, which also owns the listener, the health status and the telemetry.

`PROJECT.json` lists every component with its status, and the hazards at the
line where each one bites.

## 2. Modules

| module | models | proofs |
|---|---|---|
| `SnowflakeId` | layout, `from_components`, accessors, `increment_sequence`, `rollover_to_timestamp` as arithmetic on naturals: a field of *n* bits is reduced modulo 2^n, as the masks do | `SnowflakeIdProofs` |
| `IdIssuer` | abstract specification: the last id issued and how many were; `Issue` issues a greater one. With the count an issue is never a stutter, so that issuing the last id again is not allowed | |
| `AtomicSnowflake` | the atomic generator, threads and the clock | `AtomicSnowflakeProofs` |
| `LockSnowflake` | the lock generator, threads and the clock | `LockSnowflakeProofs` |
| `UlidId`, `UlidGenerators` | the ULID layout; the five kinds of generator | `UlidGeneratorsProofs` |
| `MonotonicClock`, `AsyncSnowflake` | the ticker; tasks, retry loop and restarts of a process on it | `AsyncSnowflakeProofs` |
| `Crockford`, `IdForms`, `PgUlid` | the base32 codec; the journey of an id through text, buffers, serde and times; the forms of the extension | `PgUlidProofs` |
| `StreamServer` | handler, coordinator, workers, clients and shutdown, composed | `StreamServerProofs` |
| `ServerProcess` | the life of server processes on one address, with the bookkeeping of their streams | `ServerProcessProofs` |
| `MC*` | constants for TLC | |

Definitions whose comment contains "mutant" are faulty variants of the one that
follows; the specifications do not use them.

### AtomicSnowflake

`mo` is the modification order of the atomic state (all values it ever had, the
seed first), `view[t]` the newest position thread `t` knows of: a relaxed load
returns any value from there on, and a `compare_exchange` compares with the end of
the order. `millis` is the clock, `now[t]` a thread's reading, which for a
monotonic clock may be stale but never goes back, and for any other
`TimeSource` (`Monotonic = FALSE`) is arbitrary. One call of `poll_id` is
`ReadClock`, `Load` (with the decision) and `ExchangeSucceeds` or
`ExchangeFails`; `next_id` is `Call` and `Retry` around it. `ExchangeFails` only
happens when the values differ: the code uses the strong exchange. With
`DebugAssertions` a timestamp that does not fit its field panics, otherwise it is
masked.

### LockSnowflake

`holder` is the thread in the critical section, `current[t]` the state it read
on entry. `ReadClock`, `Lock` or `LockPoisoned`, then `Decide`, which ends in
`Ready`, `Pending` or `Panic`, each with the release of the guard. `ParkingLot`
selects the mutex: parking_lot never poisons.

### UlidGenerators

`kind` selects the generator: an `AtomicU128`, a std or a parking_lot mutex, a
thread's own `Cell`, or no state. They share `Match`, the decision of `poll_id`,
and differ in how they guard the id: `PollAtomic` proposes and exchanges,
`PollLocked` works with the guard held, `PollLocal` and `PollBasic` are one
thread's. `mo[c]` is the modification order of a cell. The random source draws any
number of `Randoms`, which has values wider than the field, or panics (`Panic`),
under the guard if there is one.

### MonotonicClock and AsyncSnowflake

Time is counted in units, several to the millisecond, so that truncation shows.
`time` is what `Instant` measures, `wall` the system time, which runs with it and
may be set at any moment (`SetWall`), also to before 1970. The ticker starts with
two samples (`SampleInstant`, `SampleSystemTime`) that a pause may separate, and
publishes (`Tick`); a relaxed load returns any published value that is not
older than the last one seen. `lead` is a history variable, how far the clock is
ahead of `wall`: by that pause, which the code counts twice, and by what `wall` was
set back since. A task is in `poll_id`, or
asleep until `deadline` (a timer) or until it is polled (a yield); its future may be
dropped (`Drop`). `Crash` loses the process; `high` keeps the greatest id of earlier
lives, and the next life makes its generator with `new` or, if `restore`, with
`from_components` on that id.

### IdForms and PgUlid

A behaviour is the journey of one id: it arrives in some form, well made or
not, and is converted again and again. `meaning` is the id that the first form
denotes, by a definition that does not use the code's tables and loops; each
conversion is an action named after its function. The codec's loops are recursive
functions of the number of bytes or characters done: `WriteBytes` is the
encoder's, over a buffer that holds anything, with an accumulator of `USIZE_BITS`
that loses its high bits; the decoder's loses those above the integer's width.

### StreamServer

A step is what a task does between two awaits or two accesses to shared state.
Channels are sequences with a capacity; taking a slot and storing a message is one
step, and a dropped receiver drops its messages. A generator is its machine id
and the number of ids it has issued, which is what `IdIssuer` guarantees. A
worker's `Poll::Pending` only yields and is not a step. `STREAMS_INFLIGHT`,
`SHUTDOWN` and the token are shared; reading them and acting on them are
separate steps where the code separates them (`Request` and `Admit`,
`NextChunk` and `SendRequest`). tokio is external and modelled from how the code
uses it. A client is described by what it can do: read, see the end, disconnect.

### ServerProcess

`pc[p]` is where process `p` is in `main`; `listening`, `file` and `stale` are the
shared address. `Configure` to `Serve` is the start, with an error exit at each
step, `Signal` to `Exit` the shutdown in the code's order, `Crash` may come
anywhere. `features` is what the process was built with, one of `Built`. Of a
stream it has the order of counter, metrics and response items (`Request` to
`Unmeter`), and `Truncate`, the end without an error of section 3; how ids are made
is `StreamServer`'s. A metric counts (`Add`) while its handles exist and the
provider has not been shut down. A client reads an item (`Deliver`) or hangs up
(`HangUp`), at any time or never. The supervisor, tonic and the operating system are
external; a socket file that a crash has left is removed by nobody.

## 3. Runs

| run | question | instance | distinct states |
|---|---|---|---|
| `atomic_safety` | are ids unique, ordered, gapless and not ahead of the clock; is the back-off bounded | 3 threads, ticks 0..2, 2 ids per tick, a monotonic clock, new and resumed generators (one resumed in the future) | 1,060,262 |
| `atomic_progress` | with a time source that jumps anywhere: is `IdIssuer` implemented, and do ids keep coming while threads lose races | 2 threads, ticks 0..1, all within the timestamp field, 4 ids per tick | 102,330 |
| `atomic_timestamp_overflow` | *violated*: unique ids in a release build past the timestamp field | 2 threads, timestamps of 1 bit, ticks 0..2 | |
| `lock` | is `IdIssuer` implemented; is poisoning final, are waiters released, do ids keep coming before it | 3 threads, std mutex, debug build, timestamps of 1 bit, ticks 0..2 | 262,084 |
| `ulid_generators` | is `IdIssuer` implemented by each monotonic generator; is the state always an id that was issued; are a thread's ids ordered in time; do ids keep coming | 2 threads, five kinds, random draws wider than the field, panics | 313,896 |
| `async_restart` | does the clock never go back, and keep its distance to a system time that is set; are sleeps long enough, do tasks finish; does no id repeat over a restart | 1 task, timer and yield, ticks of 2 ms of 2 units, time 0..6, system time in mid-millisecond and set before 1970, an epoch in the future, 1 restart | 503,040 |
| `id_forms` | is an id the same id after any sequence of conversions; is each refusal for the right reason; one canonical text, order kept; index scans exact | ids of 8 and 24 bits, every character class, all bytes, all times of a small `i64` | 67,440 |
| `server_process` | do clients reach who listens; does only a crash leave a file; does the status precede refusals; do metrics add up; does a signal end the process and the service return | 2 processes, 1 stream, three builds (without telemetry, with traces, with traces and metrics), 1 crash, 1 exit | 102,344 |
| `server_safety` | types and capacities, clean buffers, workers never held up, the in-flight counter, uniqueness, completeness | 2 streams, 2 workers, chunks of 2; counts 0 and 4 are refused, 2 is a full chunk, 3 a full and a partial one | 1,077,560 |
| `server_liveness` | does shutdown terminate; is a waiting client served and the task of a departed one ended | a stream of two chunks and one of one chunk, 1 worker | 99,274 |
| `server_truncation` | *violated*: a stream that ends without an error is complete | 1 request of 1 id | |
| `server_zero_chunk` | *violated*: a disconnect ends the task, with `IDS_PER_CHUNK=0` | 1 request of 1 id | |

Each property of a passing run has a mutant in `PROJECT.json`: a plausible fault
of the code under which the run finds the property violated.

**Bounds.** `MaxMillis` and `MaxTime` bound time: three ticks give a rollover from
a used and from an unused tick, and skipped ticks. A sequence (or random field) of
one bit reaches both "room" and "no room" in two ids. Three threads let two
others act between a thread's load and its exchange, or wait for one mutex. Two
units to the millisecond and two milliseconds to the tick make both truncations
happen. One restart is the least after which an id can repeat. Two streams
are the least that can compete for a worker; one-slot channels are full as soon as
they can be. Two processes are the least that can compete for an address. The three
builds of `server_process` have each feature on and off: `tracing` (a flush that
may time out), `metrics` (whether there is anything to count) and `honeycomb` (a
start that may lack its environment), which act at different steps. The sizes
in `id_forms` leave as many spare bits in the first character as the real ones.
In `atomic_progress` time stays within the timestamp field: past it each thread of a
debug build panics, and there is no progress to speak of. What such a panic leaves
behind is the question of `lock`, where it poisons the mutex.
The theorems of section 4 do not depend on these bounds.

`SYMMETRY` is used only in `atomic_safety` and `server_safety`, which check
invariants alone and treat threads or streams alike.

**Deadlock** is checked except in `atomic_progress`, `lock` and `ulid_generators`,
where all threads may have panicked or received their error, and in `id_forms`,
where a journey may end in a form that has no further conversion. The
server has an explicit `Terminated` step for its final states, so a stuck
server is an error.

### Fairness

* Generators: threads inside a call keep running (weak fairness), the ticker
  runs, and a store becomes visible in finite time, so a thread that reads the
  clock again and again reads its newest value infinitely often (strong fairness
  of `ReadFreshClock`). No thread has to call. Neither mutex is fair: `Lock`
  is only weakly fair, and `Progress` promises an id to somebody, not to
  everybody.
* Async: time passes, the ticker ticks, the runtime polls tasks and fires timers
  (weak), and fresh values become visible as above. Nobody has to call, drop a
  future, crash or set the clock.
* Server: tokio polls every task that can go on and its timers fire (weak);
  its bounded channels hand out slots in the order of the waiting senders, so a
  sender that finds room again and again gets it (strong fairness of `SendRequest`
  and `NotifyWorker`). Clients owe nothing: they need neither read nor disconnect,
  and nobody has to ask for a shutdown.
* Processes: a process and its tasks run, timeouts expire, and the supervisor starts
  a process that is gone. Nobody has to send a signal, and nobody removes the
  file a crash has left. Clients owe nothing here either: they need neither read
  what they were sent nor hang up. tonic's wait for them has no limit, so the
  two liveness properties name the state it may stay in for ever (`Held`), and
  each of their alternatives is needed.

### Disagreements between the code and its documentation

1. `atomic_timestamp_overflow`: in a release build `from_components` masks the
   timestamp. Past the last tick of the field `now` stays greater than the
   masked value, and each `poll_id` rolls over to the same id again, against
   "Returns a new, time-ordered, unique ID." (`generator/snowflake/atomic.rs:132`).
   With the Twitter layout this is 69 years after the epoch.
2. `server_truncation`: `send_to_next_worker` may wait for room across the
   cancellation. When the worker takes the `Shutdown` out of its channel, the
   waiting request takes the free slot, and the worker leaves its loop and drops it.
   `feed_chunks` sees the chunk channel closed, as after a complete chunk. If it
   was the last chunk the stream ends without an error and lacks ids, against
   `coordinator.rs:18-19`. Before the cancellation this cannot happen
   (`CompleteUnlessShutdown`, proved).
3. `server_zero_chunk`: `IDS_PER_CHUNK=0` is accepted; `feed_chunks` asks for
   chunks of no ids for ever and never touches the client's channel.

Two more have no run of their own; the properties of the passing runs state what
the code does instead.

* `config.rs:117-120` has shutdown proceed "with termination" once
  `shutdown_timeout` has passed. The timeout limits the drain only; tonic's own
  wait (`main.rs:112`) has none, and a client that neither reads its response nor
  hangs up keeps the process for ever. `SignalEndsProcess` holds but for that.
* The metric `errors` is described as "Errored/cancelled streams"
  (`telemetry.rs:342`); a stream whose client hangs up is not counted
  (`MetricsReconcile`).

Three things no document promises otherwise, but a reader should know. A pause
between the ticker's two samples (`time/mono_clock.rs:18-19`) is counted twice, and
the clock stays ahead of the system time by it for the life of the process
(`LeadKept`). A process that crashes with a Unix socket leaves its file, on which
each later start fails (`main.rs:49`) until somebody removes it: the second
alternative of `ServiceReturns`. `STREAM_BUFFER_SIZE=0` is accepted: the channel's
constructor panics after the in-flight counter was raised, and it is never lowered,
so that a shutdown waits for its full timeout. No run shows it; theorem `Inflight`
excludes it with its hypothesis.

## 4. Proofs

The theorems hold for any number of threads, tasks, streams, workers and
processes, any bit widths, chunk and buffer sizes, and any bound on time, restarts,
crashes and exits. They rest on the named assumptions on constants (`*Assumption`,
which TLC evaluates in the runs) and on the hypotheses named below.
`TimestampsFit` says that time does not outgrow the timestamp field, or that the
build asserts it; without it the theorems that have it are false
(`atomic_timestamp_overflow`).

Few of the invariants are inductive as the runs check them; the strengthening that
a theorem rests on is named with what it adds.

* **`SnowflakeIdProofs`**: what the layout's operators compute, from division by a
  radix. `Composed` and `Decomposed` show that fields round-trip; `Incremented`
  and `RolledOver` that the next id is greater, of the same machine, and has the
  expected fields. The proofs of the three Snowflake models use them;
  `UlidGeneratorsProofs` has the same for ULIDs.
* **`AtomicSnowflakeProofs`**
  * `TypeCorrect`: `TypeInv` adds that an id about to be exchanged belongs to this
    generator.
  * `Unique`, `Gapless` (`TimestampsFit`): `IssueInv` adds `OffersFollow`: what a
    thread is about to exchange follows the value *it loaded*, however old. A
    successful exchange makes the loaded value equal to the newest one, so the
    id also follows that.
  * `Refinement` (`TimestampsFit`): `Spec => IssuerSpec`. Every step that lengthens the
    modification order issues a greater id of the machine, every other step
    leaves the newest id and the number of ids alone.
  * `NoFuture`, `Backoff` (a monotonic clock): `TimeInv` adds that no reading is ahead
    of the clock.
* **`LockSnowflakeProofs`**: `NoUpdateLost` (what the holder read on entry is still
  the state; `LockInv` adds the types), and from it `Refinement` and `Gapless`
  (`TimestampsFit`). `Poisoning`: nobody is in the critical section of a poisoned
  mutex. `Backoff`: `ClockInv` adds that no reading is ahead of the clock, which was read
  before the lock was awaited.
* **`UlidGeneratorsProofs`**, for five kinds of generator at once: `UlidInv` says of a
  thread what it holds (a proposed id exceeds the value it was computed from and
  has the tick of the thread's reading; who is in the critical section holds the
  guard). On it rest `TypeCorrect` and `Refinement`. `IssueInv` adds that a cell's
  newest id was given to a thread and that no thread was given a greater one:
  `NothingHalfMade`, `Sorted`. `TimeInv` gives `NoFuture` and `Backoff`;
  `PoisonInv` (a poisoned mutex is a std one that nobody holds) gives `Poisoning`.
  That time does not outgrow the field is part of `UlidAssumption`.
* **`AsyncSnowflakeProofs`**
  * `TimeNeverGoesBack`, `ClockLead`: `ClockInv` says that every published value
    was the elapsed time once, cut to milliseconds, and relates the sampled
    system time to the present one through `lead`.
  * `SleepIsEnough`: `SleepInv` relates a sleeper's deadline to the value of the
    clock it acted on, in units, so that both truncations are accounted for.
  * `NoRepeat` (`TimestampsFit`): `LifeInv` says where a life begins (the restored id,
    or the first tick of its clock) and that its state is never behind that.
  * `TypeCorrect`.
* **`StreamServerProofs`**
  * `BufferEmpty`, `NeverBlocked`, `OneRequest`: these need each other. `PoolInv`
    says where a request can be: a stream has at most one in the pool; while it is
    queued, `feed_chunks` waits and the chunk channel is empty; while it is
    processed, either its only chunk is still to come (the buffer holds
    exactly what was generated), or the chunk is sent and the buffer is empty.
    Therefore there is always room for the chunk, and every way out of
    `handle_stream_request` leaves the buffer empty.
  * `Quiet`: `AckInv`, an acknowledged worker has left its loop.
  * `NoDuplicates`: `IdInv` says that every id anywhere (received, on the way to
    the client, with `feed_chunks`, in a chunk channel, in a buffer) was issued
    by its worker, and that no two places hold the same one.
  * `Complete`: as long as the token is not cancelled, ids made + ids that the
    current request still asks for + ids not requested yet = ids asked for
    (`Balance`, wherever the request is), and what an ended stream received is
    all of it. `OrderInv` says that no worker is told to stop before the
    cancellation, which is why a closed chunk channel means a complete chunk
    until then.
  * `Inflight` (`StreamBufferSize # 0`), `TypeCorrect`: `InflightInv`, the counter is
    the size of the set of streams between its increment and its decrement. It
    never goes below zero.
* **`ServerProcessProofs`**
  * `Reachable`, `NoFileLeft`: `NetworkInv`, the place in `main` says who listens and
    whose file it is.
  * `StatusFirst`: `HealthInv`, where `SHUTDOWN` is set or an error was sent the
    status was published.
  * `Reconciled`: `MetricsInv` gives each metric as the number of streams at certain
    labels while the provider exports (`Exact`), and bounds it by what that number
    was when the provider is shut down (`Bounded`), which must hold all along to
    hold then; it also says what a client may have been sent at each label. One
    lemma per metric operation says by how much it moves, one per label set by
    how much the set's size moves, and `StreamAccounts` matches the two for each
    step.
  * `TypeCorrect`, on the same invariant: neither `STREAMS_INFLIGHT`, an unsigned
    counter, nor the gauge `streams_inflight` goes below zero.

* **`PgUlidProofs`**, for both types at once: any number of bytes and reserved bits,
  any accumulator of 16 bits or more, any set of texts, integers, messages, times
  and buffer contents within their types.
  * The induction over characters and bytes starts from a least counterexample
    (`Least`), which the library has without an operator parameter; `Recursion` gives
    a recursive function its equations. `UsizeAssumption` and `FormsAssumption` state
    that 2^k doubles with k up to the widths in use (`Doubling`), a fact of arithmetic
    that the provers do not know and TLC evaluates.
  * `Encodes`: after each byte the buffer holds the characters of the bits read so
    far, and the accumulator the bits not written yet, however many high bits it
    has lost. `Decodes`: the accumulator is the number written so far less the bits
    above the width. With them `RoundTrip`, `OneText`, `TextOrder`, `BytesOrder`.
  * `Journeys`: `Journey` is the inductive invariant. It says for each form that the
    value stands for `meaning` (`StandsFor`): a text *denotes* it, a buffer *is* its
    canonical text, a datum *is* its bytes, a time is the one it carries, an error
    stands for no id and names its cause. One lemma per group of conversions shows
    that each carries what stands for an id to what stands for the same id.
  * From `Journey`: `Meaning`, `Refusals`, `BuffersAreText`, `Canonicity`, `Ordering` and
    `Scans`, all the invariants of the run `id_forms`. The last needs that
    `from_datetime` truncates to the millisecond that the scan's bound is cut to.
  * `PgAssumption` has what the real constants satisfy: the microseconds of a ULID's
    time fit an `i64`, and its time is in Postgres' range.

**Only model-checked.** Every liveness property (`Progress`, `WaitersAreReleased`,
`TasksFinish`, `ShutdownCompletes`, `StreamsAdvance`, `SignalEndsProcess`,
`ServiceReturns`): fairness and `ENABLED` are out of the prover's reach. Every
invariant and action property of a passing run, and every refinement, is a theorem.

## 5. Not modelled

* ULID timestamps past 48 bits of milliseconds (the year 10889); what masking does
  then is shown for the Snowflake layout.
* The extension's casts from and to `timestamp` without time zone, which go through
  the session's time zone in Postgres; operator classes, SQL declarations and the
  pgrx macros.
* The async loop for ULIDs, which has the same text as the one for Snowflake ids,
  and the smol providers.
* The statistical quality of random ids.
* Argument parsing and defaults, exporters, spans and log formatting, generated
  protocol code, tonic's transport. The metric `ids_generated` counts chunks in the
  model, as a stream has one there.
* Stopping the ticker when a `MonotonicClock` is dropped: the static that holds it
  lives as long as the process.
