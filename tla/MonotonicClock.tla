--------------------------- MODULE MonotonicClock ---------------------------
(***************************************************************************)
(* MonotonicClock<N> (time/mono_clock.rs): a process-global ticker thread  *)
(* publishes the milliseconds elapsed since the ticker was created; a      *)
(* clock adds the distance from its epoch to the system time sampled once  *)
(* at that creation, and counts in units of N milliseconds.                *)
(*                                                                         *)
(* Real time is counted in units, UnitsPerMs to the millisecond, so that   *)
(* truncation to milliseconds is visible.  `time' is what Instant measures *)
(* and `wall' what SystemTime returns, relative to the Unix epoch: it runs *)
(* with time but may also be set, and may lie before the epoch.  `current' *)
(* is read with relaxed loads: `stored' is what has been written to it and *)
(* a reader gets anything not older than what it has seen.  `lead' is a    *)
(* history variable, how far the clock is ahead of wall: by the pause      *)
(* between its two samples, and by what wall was set back since.           *)
(***************************************************************************)
EXTENDS Integers

CONSTANTS
  Readers,          \* threads that read the clock
  N,                \* GRANULARITY_MILLIS
  Epochs,           \* candidate epochs, in milliseconds since the Unix epoch
  WallOffsets,      \* what wall - time may be set to
  UnitsPerMs,
  MaxTime           \* bound on time

ASSUME ClockAssumption ==
  /\ N \in Nat \ {0} /\ UnitsPerMs \in Nat \ {0} /\ MaxTime \in Nat
  /\ Epochs \subseteq Nat /\ WallOffsets \subseteq Int

VARIABLES
  time, wall, lead,
  epoch,            \* the epoch the process is configured with
  lazy,             \* GLOBAL_TICKER: "unset", "start sampled", "running"
  start, base_system_now, tick,
  current, stored,
  epoch_offset,     \* of the clock, -1 before with_epoch
  seen              \* newest value of current each reader has seen

ticker == <<lazy, start, base_system_now, tick, current, stored>>
clock_vars == <<time, wall, lead, epoch, ticker, epoch_offset, seen>>

Ms(units) == units \div UnitsPerMs
AtLeast(x, floor) == IF x < floor THEN floor ELSE x

ClockInit ==
  /\ time = 0 /\ wall \in WallOffsets /\ lead = 0 /\ epoch \in Epochs
  /\ lazy = "unset" /\ start = 0 /\ base_system_now = 0 /\ tick = 0
  /\ current = 0 /\ stored = {0}
  /\ epoch_offset = -1 /\ seen = [r \in Readers |-> 0]

\* The process dies: what LazyLock and the clocks held is gone.
ClockLost ==
  /\ lazy' = "unset" /\ start' = 0 /\ base_system_now' = 0 /\ tick' = 0
  /\ current' = 0 /\ stored' = {0}
  /\ epoch_offset' = -1 /\ seen' = [r \in Readers |-> 0] /\ lead' = 0
  /\ UNCHANGED <<time, wall, epoch>>

-----------------------------------------------------------------------------

Advance ==
  /\ time < MaxTime
  /\ time' = time + 1 /\ wall' = wall + 1
  /\ UNCHANGED <<lead, epoch, ticker, epoch_offset, seen>>

SetWall ==
  /\ wall' \in { time + offset : offset \in WallOffsets } \ {wall}
  /\ lead' = IF lazy = "running" THEN lead + wall - wall' ELSE 0
  /\ UNCHANGED <<time, epoch, ticker, epoch_offset, seen>>

\* LazyLock takes two samples, which a pause may separate: first the Instant
\* from which the ticker measures,
SampleInstant ==
  /\ lazy = "unset"
  /\ lazy' = "start sampled" /\ start' = time
  /\ UNCHANGED <<time, wall, lead, epoch, base_system_now, tick, current, stored,
                 epoch_offset, seen>>

\* then the system time (the Unix epoch if it is before that); the thread starts.
\* The pause is part of the system time and will be part of what elapsed since
\* start: it is counted twice.
SampleSystemTime ==
  /\ lazy = "start sampled"
  /\ lazy' = "running" /\ lead' = time - start
  /\ base_system_now' = AtLeast(Ms(wall), 0)
  /\ UNCHANGED <<time, wall, epoch, start, tick, current, stored, epoch_offset, seen>>

Publish(now_ms) ==
  /\ current' = now_ms /\ stored' = stored \cup {now_ms}
  /\ UNCHANGED <<time, wall, lead, epoch, lazy, start, base_system_now, epoch_offset, seen>>

\* mutant: the elapsed time comes from the system clock
Tick_wall ==
  /\ lazy = "running" /\ time >= start + tick * UnitsPerMs
  /\ LET now_ms == AtLeast(Ms(wall) - base_system_now, 0)
     IN  Publish(now_ms) /\ tick' = now_ms + 1
\* One turn of the ticker's loop: it sleeps at least until its target, measures
\* how late it really is and publishes that.  (A store delayed after the
\* measurement is no different from a late visibility of the store.)
Tick ==
  /\ lazy = "running" /\ time >= start + tick * UnitsPerMs
  /\ LET now_ms == Ms(time - start) IN Publish(now_ms) /\ tick' = now_ms + 1

-----------------------------------------------------------------------------

\* mutant: the system time is sampled again for every clock
Offset_resampled == AtLeast(Ms(wall) - epoch, 0)
\* saturating_sub: an epoch after the sampled time is cut to offset 0.
Offset == AtLeast(base_system_now - epoch, 0)

\* current_millis, given the value v that the load of current returned.
current_millis(v) == (epoch_offset + v) \div N

\* The relaxed load of current by reader r.
Load(r, v) ==
  /\ v \in stored /\ v >= seen[r]
  /\ seen' = [seen EXCEPT ![r] = v]
  /\ UNCHANGED <<time, wall, lead, epoch, ticker, epoch_offset>>

ClockStep == Advance \/ SetWall \/ SampleInstant \/ SampleSystemTime \/ Tick

-----------------------------------------------------------------------------

\* What the clock would show now if the ticker were never late.
TrueTick == (epoch_offset + Ms(time - start)) \div N

\* What the ticker publishes grows within the life of a process, whatever
\* happens to the system time ("avoids wall-clock adjustments",
\* mono_clock.rs:73): readings never go back.
NeverBack ==
  [][lazy = "running" /\ lazy' = "running" => current' >= current]_clock_vars

\* The system time as the clock has it, if the ticker were never late.
Shown == (epoch + epoch_offset + Ms(time - start)) * UnitsPerMs

\* The clock differs from the system time by its lead and nothing else, whenever
\* the clock is made and whatever happens to the system time: the pause between
\* the samples of mono_clock.rs:18-19, which the code counts twice and keeps for
\* the life of the process, and what the system time was set back since.  The two
\* truncations to milliseconds lose less than a millisecond each, and the ticker
\* may be late but is never early.
LeadKept ==
  epoch_offset > 0 =>
    /\ Shown <= wall + lead /\ wall + lead < Shown + 2 * UnitsPerMs
    /\ current <= Ms(time - start)
=============================================================================
