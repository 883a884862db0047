--------------------------- MODULE LockSnowflake ---------------------------
(***************************************************************************)
(* LockSnowflakeGenerator (generator/snowflake/lock.rs): threads inside    *)
(* try_next_id/try_poll_id share one id behind a mutex, which is either    *)
(* std::sync::Mutex or parking_lot::Mutex (generator/mutex.rs).  The clock *)
(* is read before the lock is taken, so a thread may enter the critical    *)
(* section with a reading older than the id it finds there.                *)
(*                                                                         *)
(* The guard is held from Lock to the end of Decide.  Lock also reads the  *)
(* protected id: the two steps show what the mutex is for.  A panic while  *)
(* the guard is held releases it and, with std, poisons the mutex.         *)
(***************************************************************************)
EXTENDS SnowflakeId

CONSTANTS
  Threads,          \* threads sharing the generator
  NoThread,         \* the holder of a free mutex
  MachineId,        \* machine_id argument of the constructor
  Seeds,            \* <<timestamp, sequence>> the generator may start from
  MaxMillis,        \* bound on the time source
  ParkingLot,       \* TRUE: feature parking-lot, no poisoning; FALSE: std
  DebugAssertions   \* TRUE: a build with debug_assert! enabled

ASSUME LockAssumption ==
  /\ NoThread \notin Threads
  /\ MachineId \in 0 .. MACHINE_ID_MASK
  /\ Seeds \in SUBSET ((0 .. TIMESTAMP_MASK) \X (0 .. SEQUENCE_MASK))
  /\ MaxMillis \in Nat
  /\ ParkingLot \in BOOLEAN /\ DebugAssertions \in BOOLEAN

VARIABLES
  millis,           \* newest value of the time source
  state,            \* the id behind the mutex, the last one handed out
  holder,           \* the thread holding the mutex
  poisoned,         \* the std mutex is poisoned
  pc,               \* where each thread is in try_next_id
  now,              \* the thread's last reading of the clock
  current,          \* *id as the thread found it when it got the lock
  yield_for,        \* the back-off of the thread's last Poll::Pending
  issued            \* history: how many ids were handed out

vars == <<millis, state, holder, poisoned, pc, now, current, yield_for, issued>>

-----------------------------------------------------------------------------

Init ==
  /\ \E seed \in Seeds : state = from_components(seed[1], MachineId, seed[2])
  /\ millis = 0
  /\ holder = NoThread /\ poisoned = FALSE
  /\ pc = [t \in Threads |-> "idle"]
  /\ now = [t \in Threads |-> 0]
  /\ current = [t \in Threads |-> 0]
  /\ yield_for = [t \in Threads |-> 0]
  /\ issued = 0

Tick ==
  /\ millis' \in millis + 1 .. MaxMillis
  /\ UNCHANGED <<state, holder, poisoned, pc, now, current, yield_for, issued>>

\* A thread that got an id or an error may call again.
Call(t) ==
  /\ pc[t] \in {"idle", "error"}
  /\ pc' = [pc EXCEPT ![t] = "clock"]
  /\ UNCHANGED <<millis, state, holder, poisoned, now, current, yield_for, issued>>

ReadClock(t) ==
  /\ pc[t] = "clock"
  /\ \E n \in now[t] .. millis : now' = [now EXCEPT ![t] = n]
  /\ pc' = [pc EXCEPT ![t] = "lock"]
  /\ UNCHANGED <<millis, state, holder, poisoned, current, yield_for, issued>>

\* mutant: the critical section is entered without waiting for the holder
Lock_unguarded(t) ==
  /\ pc[t] = "lock" /\ ~ poisoned
  /\ holder' = t
  /\ current' = [current EXCEPT ![t] = state]
  /\ pc' = [pc EXCEPT ![t] = "locked"]
  /\ UNCHANGED <<millis, state, poisoned, now, yield_for, issued>>
\* mutant: poisoning is ignored (lock().unwrap_or_else(into_inner))
Lock_ignoring_poison(t) ==
  /\ pc[t] = "lock" /\ holder = NoThread
  /\ holder' = t
  /\ current' = [current EXCEPT ![t] = state]
  /\ pc' = [pc EXCEPT ![t] = "locked"]
  /\ UNCHANGED <<millis, state, poisoned, now, yield_for, issued>>
Lock(t) ==
  /\ pc[t] = "lock" /\ holder = NoThread /\ ~ poisoned
  /\ holder' = t
  /\ current' = [current EXCEPT ![t] = state]
  /\ pc' = [pc EXCEPT ![t] = "locked"]
  /\ UNCHANGED <<millis, state, poisoned, now, yield_for, issued>>

\* lock()? on a poisoned mutex: Err(LockPoisoned), the guard is dropped.
LockPoisoned(t) ==
  /\ pc[t] = "lock" /\ holder = NoThread /\ poisoned
  /\ pc' = [pc EXCEPT ![t] = "error"]
  /\ UNCHANGED <<millis, state, holder, poisoned, now, current, yield_for, issued>>

Ready(t, id) ==
  /\ state' = id /\ issued' = issued + 1
  /\ holder' = NoThread
  /\ pc' = [pc EXCEPT ![t] = "idle"]
  /\ UNCHANGED <<poisoned, yield_for>>

\* mutant: an early return that forgets the guard
Pending_keeping_guard(t, units) ==
  /\ pc' = [pc EXCEPT ![t] = "pending"]
  /\ yield_for' = [yield_for EXCEPT ![t] = units]
  /\ UNCHANGED <<state, poisoned, holder, issued>>
Pending(t, units) ==
  /\ holder' = NoThread
  /\ pc' = [pc EXCEPT ![t] = "pending"]
  /\ yield_for' = [yield_for EXCEPT ![t] = units]
  /\ UNCHANGED <<state, poisoned, issued>>

\* mutant: unwinding leaves the mutex locked
Panic_keeping_guard(t) ==
  /\ poisoned' = ~ ParkingLot
  /\ pc' = [pc EXCEPT ![t] = "panicked"]
  /\ UNCHANGED <<state, holder, yield_for, issued>>
\* Unwinding drops the guard before *id is assigned.
Panic(t) ==
  /\ holder' = NoThread
  /\ poisoned' = ~ ParkingLot
  /\ pc' = [pc EXCEPT ![t] = "panicked"]
  /\ UNCHANGED <<state, yield_for, issued>>

cold_clock_behind(n, current_ts) == current_ts - n

\* The match of try_poll_id and the release of the guard at its end.
Decide(t) ==
  LET id == current[t]
      current_ts == timestamp(id)
  IN  /\ pc[t] = "locked"
      /\ \/ /\ now[t] = current_ts /\ has_sequence_room(id)
            /\ Ready(t, increment_sequence(id))
         \/ /\ now[t] = current_ts /\ ~ has_sequence_room(id)
            /\ Pending(t, 1)
         \/ /\ now[t] > current_ts
            /\ DebugAssertions => ~ FieldOverflow(now[t], MachineId, 0)
            /\ Ready(t, rollover_to_timestamp(id, now[t]))
         \/ /\ now[t] > current_ts
            /\ DebugAssertions /\ FieldOverflow(now[t], MachineId, 0)
            /\ Panic(t)
         \/ /\ now[t] < current_ts
            /\ Pending(t, cold_clock_behind(now[t], current_ts))
      /\ UNCHANGED <<millis, now, current>>

\* The caller's back-off, then try_poll_id again.
Retry(t) ==
  /\ pc[t] = "pending"
  /\ pc' = [pc EXCEPT ![t] = "clock"]
  /\ UNCHANGED <<millis, state, holder, poisoned, now, current, yield_for, issued>>

Step(t) ==
  \/ Call(t) \/ ReadClock(t) \/ Lock(t) \/ LockPoisoned(t)
  \/ Decide(t) \/ Retry(t)

Next == Tick \/ \E t \in Threads : Step(t)

Spec == Init /\ [][Next]_vars

(***************************************************************************)
(* Fairness: as for AtomicSnowflake.  The mutex itself need not be fair: a *)
(* waiting thread gets it only if it is continuously free (WF), and may be *)
(* overtaken for ever by others.                                           *)
(***************************************************************************)
ReadFreshClock(t) == ReadClock(t) /\ now'[t] = millis

Fairness ==
  /\ WF_vars(Tick)
  /\ \A t \in Threads :
       /\ WF_vars(ReadClock(t)) /\ SF_vars(ReadFreshClock(t))
       /\ WF_vars(Lock(t)) /\ WF_vars(LockPoisoned(t))
       /\ WF_vars(Decide(t)) /\ WF_vars(Retry(t))

FairSpec == Spec /\ Fairness

-----------------------------------------------------------------------------

\* Types of the variables.
TypeOK ==
  /\ millis \in 0 .. MaxMillis
  /\ state \in IdsOf(MachineId)
  /\ holder \in Threads \cup {NoThread}
  /\ poisoned \in BOOLEAN
  /\ pc \in [Threads -> {"idle", "clock", "lock", "locked", "pending",
                         "error", "panicked"}]
  /\ now \in [Threads -> 0 .. MaxMillis]
  /\ current \in [Threads -> Nat]
  /\ yield_for \in [Threads -> Nat]
  /\ issued \in Nat

\* A thread between Lock and the end of Decide is the holder, alone, and what
\* it read is still the state: no update is lost.
NoLostUpdate ==
  \A t \in Threads :
    pc[t] = "locked" => holder = t /\ current[t] = state

Issuer == INSTANCE IdIssuer WITH
  Ids <- IdsOf(MachineId), last <- state, count <- issued

\* The lock generator implements the abstract issuer: every Ready hands out an
\* id greater than all before, although readings of the clock are stale; the
\* last id handed out a second time would be an issue too.
IssuerSpec == Issuer!Spec

\* Ids follow each other without a hole in the sequence, and the first one of
\* a tick is only issued once the clock has reached that tick.
NoSequenceGaps ==
  [][issued' # issued =>
       \/ state' = state + 1 /\ timestamp(state') = timestamp(state)
       \/ sequence(state') = 0 /\ timestamp(state') <= millis]_vars

\* try_poll_id never asks for a wait beyond the newest tick in use, which is
\* the clock's or, if the generator was started ahead of it, the state's; only
\* when that tick is full, for one unit more.
BackoffBounded ==
  \A t \in Threads : pc[t] = "pending" =>
    LET newest == IF millis > timestamp(state) THEN millis ELSE timestamp(state)
    IN \/ now[t] + yield_for[t] <= newest
       \/ now[t] <= newest /\ yield_for[t] = 1

\* Only a panic inside the critical section poisons the mutex, and it leaves
\* the id intact; from then on no id is issued and every call fails
\* (generator/error.rs, LockPoisoned).  With parking_lot no call ever fails.
PoisonIsFinal ==
  [][/\ poisoned => poisoned' /\ UNCHANGED <<state, issued>>
     /\ poisoned' # poisoned => UNCHANGED <<state, issued>> /\ ~ ParkingLot
     /\ \A t \in Threads : pc'[t] = "error" /\ pc[t] # "error" => poisoned]_vars

Exhausted ==
  /\ millis = MaxMillis
  /\ timestamp(state) = MaxMillis => ~ has_sequence_room(state)
  /\ timestamp(state) >= MaxMillis

\* Threads inside the call are never stuck behind the mutex for want of a
\* release, on any path out of the critical section: ids go on being issued
\* until nobody is inside, the mutex is poisoned or the time bound, which
\* limits the number of ids, is used up.
Progress ==
  []<>(\/ poisoned \/ Exhausted
       \/ \A t \in Threads : pc[t] \in {"idle", "error", "panicked"})

\* After a panic in the critical section every waiting std caller gets its
\* error: nobody waits for ever on a mutex whose holder is gone.
WaitersAreReleased ==
  \A t \in Threads : (pc[t] = "lock" /\ poisoned) ~> pc[t] = "error"
=============================================================================
