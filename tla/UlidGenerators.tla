--------------------------- MODULE UlidGenerators ---------------------------
(***************************************************************************)
(* The ULID generators (generator/ulid/).  `kind' is the one in use:       *)
(*   "atomic"  AtomicMonoUlidGenerator, threads share an AtomicU128        *)
(*   "std", "parking_lot"  LockMonoUlidGenerator, threads share an id      *)
(*             behind one of the two mutexes of generator/mutex.rs         *)
(*   "local"   BasicMonoUlidGenerator, one Cell for each thread, as        *)
(*             Ulid::new_ulid_mono uses it (thread_local.rs)               *)
(*   "basic"   BasicUlidGenerator, no state (Ulid::new_ulid)               *)
(* They differ in how they guard the last id and share the rest: the clock *)
(* is read first, an id of the same tick is incremented, a later tick      *)
(* starts at a random value, a full tick or a clock that is behind is      *)
(* Pending.  As in AtomicSnowflake, mo is the modification order of the    *)
(* guarded id, from which a relaxed load may return old values.  The       *)
(* random source is the caller's and may panic: in a lock generator it is  *)
(* called with the guard held (lock_mono.rs:296).                          *)
(***************************************************************************)
EXTENDS UlidId, Sequences

CONSTANTS
  Threads,          \* threads using the generator
  Shared,           \* the cell of a generator that threads share
  NoThread,         \* the holder of a free mutex
  Kinds,            \* the generators to check
  Seeds,            \* <<timestamp, random>> the generator may start from
  Randoms,          \* what the random source returns
  RngPanics,        \* TRUE: the random source may panic instead
  MaxMillis         \* bound on the time source

ASSUME UlidAssumption ==
  /\ NoThread \notin Threads /\ Shared \notin Threads
  /\ Kinds \subseteq {"atomic", "std", "parking_lot", "local", "basic"}
  /\ Seeds \in SUBSET ((0 .. TIMESTAMP_MASK) \X (0 .. RANDOM_MASK))
  /\ Randoms \subseteq Nat
  /\ RngPanics \in BOOLEAN
  /\ MaxMillis \in 0 .. TIMESTAMP_MASK

VARIABLES
  kind,             \* the generator in use
  millis,           \* newest value of the time source
  mo,               \* per cell, modification order of the last id
  holder, poisoned, \* the mutex
  pc,               \* where each thread is in next_id
  now,              \* the thread's last reading of the clock
  view,             \* index in mo of the newest value the thread has seen
  next_id,          \* the value the thread is about to exchange in
  yield_for,        \* the back-off of the thread's last Poll::Pending
  last              \* the last id the thread was given, or -1

shared == <<mo, holder, poisoned>>
vars == <<kind, millis, shared, pc, now, view, next_id, yield_for, last>>

Locking == kind \in {"std", "parking_lot"}
Cells == Threads \cup {Shared}
Cell(t) == IF kind = "local" THEN t ELSE Shared
Newest(c) == mo[c][Len(mo[c])]

-----------------------------------------------------------------------------

\* new and from_components of each generator; the basic one keeps no id.
NewAtomic(id) == kind = "atomic" /\ mo = [c \in Cells |-> << id >>]
NewLock(id) == Locking /\ mo = [c \in Cells |-> << id >>]
NewLocal(id) == kind = "local" /\ mo = [c \in Cells |-> << id >>]
NewBasic == kind = "basic" /\ mo = [c \in Cells |-> << 0 >>]

Init ==
  /\ kind \in Kinds
  /\ \/ \E seed \in Seeds :
          LET id == from_components(seed[1], seed[2])
          IN  NewAtomic(id) \/ NewLock(id) \/ NewLocal(id)
     \/ NewBasic
  /\ holder = NoThread /\ poisoned = FALSE
  /\ millis = 0
  /\ pc = [t \in Threads |-> "idle"]
  /\ now = [t \in Threads |-> 0]
  /\ view = [t \in Threads |-> 1]
  /\ next_id = [t \in Threads |-> 0]
  /\ yield_for = [t \in Threads |-> 0]
  /\ last = [t \in Threads |-> -1]

Tick ==
  /\ millis' \in millis + 1 .. MaxMillis
  /\ UNCHANGED <<kind, shared, pc, now, view, next_id, yield_for, last>>

\* A thread enters poll_id.
Poll(t) ==
  /\ pc' = [pc EXCEPT ![t] = "clock"]
  /\ UNCHANGED <<kind, millis, shared, now, view, next_id, yield_for, last>>

CallAtomic(t) == kind = "atomic" /\ pc[t] = "idle" /\ Poll(t)
CallLock(t) == Locking /\ pc[t] \in {"idle", "error"} /\ Poll(t)
CallLocal(t) == kind = "local" /\ pc[t] = "idle" /\ Poll(t)
CallBasic(t) == kind = "basic" /\ pc[t] = "idle" /\ Poll(t)

ReadClock(t) ==
  /\ pc[t] = "clock"
  /\ \E n \in now[t] .. millis : now' = [now EXCEPT ![t] = n]
  /\ pc' = [pc EXCEPT ![t] = IF Locking THEN "lock" ELSE "load"]
  /\ UNCHANGED <<kind, millis, shared, view, next_id, yield_for, last>>

Lock(t) ==
  /\ pc[t] = "lock" /\ holder = NoThread /\ ~ poisoned
  /\ holder' = t
  /\ view' = [view EXCEPT ![t] = Len(mo[Shared])]
  /\ pc' = [pc EXCEPT ![t] = "locked"]
  /\ UNCHANGED <<kind, millis, mo, poisoned, now, next_id, yield_for, last>>

LockPoisoned(t) ==
  /\ pc[t] = "lock" /\ holder = NoThread /\ poisoned
  /\ pc' = [pc EXCEPT ![t] = "error"]
  /\ UNCHANGED <<kind, millis, shared, now, view, next_id, yield_for, last>>

\* The id becomes the generator's last one and is returned; a guard is dropped.
Ready(t, id) ==
  /\ mo' = [mo EXCEPT ![Cell(t)] = Append(@, id)]
  /\ last' = [last EXCEPT ![t] = id]
  /\ pc' = [pc EXCEPT ![t] = "idle"]
  /\ holder' = NoThread
  /\ UNCHANGED <<poisoned, next_id, yield_for>>

\* With an AtomicU128 the id is only a candidate until it is exchanged in.
Propose(t, id) ==
  /\ next_id' = [next_id EXCEPT ![t] = id]
  /\ pc' = [pc EXCEPT ![t] = "cas"]
  /\ UNCHANGED <<shared, yield_for, last>>

Pending(t, units) ==
  /\ pc' = [pc EXCEPT ![t] = "pending"]
  /\ yield_for' = [yield_for EXCEPT ![t] = units]
  /\ holder' = NoThread
  /\ UNCHANGED <<mo, poisoned, next_id, last>>

\* mutant: the tick is stored first and its random part filled in afterwards
Panic_half_stored(t) ==
  /\ RngPanics
  /\ pc' = [pc EXCEPT ![t] = "panicked"]
  /\ holder' = NoThread
  /\ poisoned' = (kind = "std")
  /\ mo' = [mo EXCEPT ![Cell(t)] = Append(@, from_components(now[t], 0))]
  /\ UNCHANGED <<next_id, yield_for, last>>
\* mutant: the guard is leaked when the random source unwinds
Panic_keeping_guard(t) ==
  /\ RngPanics
  /\ pc' = [pc EXCEPT ![t] = "panicked"]
  /\ poisoned' = (kind = "std")
  /\ UNCHANGED <<mo, holder, next_id, yield_for, last>>
\* The random source unwinds through poll_id: a std mutex is poisoned.
Panic(t) ==
  /\ RngPanics
  /\ pc' = [pc EXCEPT ![t] = "panicked"]
  /\ holder' = NoThread
  /\ poisoned' = (kind = "std")
  /\ UNCHANGED <<mo, next_id, yield_for, last>>

cold_clock_behind(n, current_ts) == current_ts - n

\* What is new is only proposed with an AtomicU128.
Issue(t, id) ==
  \/ kind = "atomic" /\ Propose(t, id)
  \/ kind # "atomic" /\ Ready(t, id)

\* The match on the clock's reading and the last id.
Match(t, current_id) ==
  LET current_ts == timestamp(current_id)
  IN  \/ /\ now[t] = current_ts /\ has_random_room(current_id)
         /\ Issue(t, increment_random(current_id))
      \/ /\ now[t] = current_ts /\ ~ has_random_room(current_id)
         /\ Pending(t, 1)
      \/ /\ now[t] > current_ts
         /\ \E rand \in Randoms :
              Issue(t, rollover_to_timestamp(current_id, now[t], rand))
      \/ now[t] > current_ts /\ Panic(t)
      \/ /\ now[t] < current_ts
         /\ Pending(t, cold_clock_behind(now[t], current_ts))

\* poll_id up to the exchange, from a relaxed load of the AtomicU128.
PollAtomic(t) ==
  /\ pc[t] = "load" /\ kind = "atomic"
  /\ \E i \in view[t] .. Len(mo[Shared]) :
       /\ view' = [view EXCEPT ![t] = i]
       /\ Match(t, mo[Shared][i])
  /\ UNCHANGED <<kind, millis, now>>

\* try_poll_id after it has got the guard.
PollLocked(t) ==
  /\ pc[t] = "locked" /\ Match(t, Newest(Shared))
  /\ UNCHANGED <<kind, millis, now, view>>

\* poll_id of the generator with a Cell.
PollLocal(t) ==
  /\ pc[t] = "load" /\ kind = "local"
  /\ view' = [view EXCEPT ![t] = Len(mo[t])]
  /\ Match(t, Newest(t))
  /\ UNCHANGED <<kind, millis, now>>

\* poll_id of the generator without state: always Ready.
PollBasic(t) ==
  /\ pc[t] = "load" /\ kind = "basic"
  /\ \/ /\ \E rand \in Randoms :
             last' = [last EXCEPT ![t] = from_components(now[t], rand)]
        /\ pc' = [pc EXCEPT ![t] = "idle"]
        /\ UNCHANGED <<shared, next_id, yield_for>>
     \/ Panic(t)
  /\ UNCHANGED <<kind, millis, now, view>>

ExchangeSucceeds(t) ==
  /\ pc[t] = "cas"
  /\ Newest(Shared) = mo[Shared][view[t]]
  /\ view' = [view EXCEPT ![t] = Len(mo[Shared]) + 1]
  /\ Ready(t, next_id[t])
  /\ UNCHANGED <<kind, millis, now>>

ExchangeFails(t) ==
  /\ pc[t] = "cas"
  /\ \E i \in view[t] + 1 .. Len(mo[Shared]) :
       /\ mo[Shared][i] # mo[Shared][view[t]]
       /\ view' = [view EXCEPT ![t] = i]
  /\ Pending(t, 0)
  /\ UNCHANGED <<kind, millis, now>>

\* The loops of next_id and try_next_id: the caller's back-off, of any length,
\* then poll_id again.  The basic generator is never Pending.
RetryAtomic(t) == kind = "atomic" /\ pc[t] = "pending" /\ Poll(t)
RetryLock(t) == Locking /\ pc[t] = "pending" /\ Poll(t)
RetryLocal(t) == kind = "local" /\ pc[t] = "pending" /\ Poll(t)
Retry(t) == RetryAtomic(t) \/ RetryLock(t) \/ RetryLocal(t)

Step(t) ==
  \/ CallAtomic(t) \/ CallLock(t) \/ CallLocal(t) \/ CallBasic(t)
  \/ ReadClock(t) \/ Lock(t) \/ LockPoisoned(t)
  \/ PollAtomic(t) \/ PollLocked(t) \/ PollLocal(t) \/ PollBasic(t)
  \/ ExchangeSucceeds(t) \/ ExchangeFails(t)
  \/ RetryAtomic(t) \/ RetryLock(t) \/ RetryLocal(t)

Next == Tick \/ \E t \in Threads : Step(t)

Spec == Init /\ [][Next]_vars

(***************************************************************************)
(* Fairness as for the Snowflake generators: threads inside a call run,    *)
(* the ticker runs, and its stores become visible in finite time.  The     *)
(* mutex is not fair, the random source need not panic.                    *)
(***************************************************************************)
ReadFreshClock(t) == ReadClock(t) /\ now'[t] = millis

Fairness ==
  /\ WF_vars(Tick)
  /\ \A t \in Threads :
       /\ WF_vars(ReadClock(t)) /\ SF_vars(ReadFreshClock(t))
       /\ WF_vars(Lock(t)) /\ WF_vars(LockPoisoned(t))
       /\ WF_vars(PollAtomic(t)) /\ WF_vars(PollLocked(t))
       /\ WF_vars(PollLocal(t)) /\ WF_vars(PollBasic(t)) /\ WF_vars(Retry(t))
       /\ WF_vars(ExchangeSucceeds(t) \/ ExchangeFails(t))

FairSpec == Spec /\ Fairness

-----------------------------------------------------------------------------

\* Types of the variables.
TypeOK ==
  /\ kind \in Kinds
  /\ millis \in 0 .. MaxMillis
  /\ mo \in [Cells -> Seq(Ulids)]
  /\ \A c \in Cells : Len(mo[c]) >= 1
  /\ holder \in Threads \cup {NoThread} /\ poisoned \in BOOLEAN
  /\ pc \in [Threads -> {"idle", "clock", "load", "cas", "lock", "locked",
                         "pending", "error", "panicked"}]
  /\ now \in [Threads -> 0 .. MaxMillis]
  /\ view \in [Threads -> Nat]
  /\ \A t \in Threads : view[t] \in 1 .. Len(mo[Cell(t)])
  /\ next_id \in [Threads -> Ulids]
  /\ yield_for \in [Threads -> Nat]
  /\ last \in [Threads -> Ulids \cup {-1}]

Issuer(c) == INSTANCE IdIssuer WITH
  Ids <- Ulids, last <- Newest(c), count <- Len(mo[c]) - 1

\* Every monotonic generator, and every thread's own one, implements the
\* abstract issuer: its ids are unique and increase in order of issue, also
\* when a tick starts at, or is counted up to, the greatest random value.  To
\* store the newest id once more would be an issue, and is not allowed.
IssuerSpec ==
  /\ \A c \in Cells : Issuer(c)!Init
  /\ [][\A c \in Cells : [Issuer(c)!Issue]_(Issuer(c)!vars)]_vars

\* next_id returns an id to t.
Returned(t) == pc[t] # "idle" /\ pc'[t] = "idle"

\* The ids one thread gets, whoever else uses the generator, increase with a
\* monotonic generator, which never gives a thread its last id again, and never
\* go back in time with the basic one ("IDs are strictly increasing per thread",
\* thread_local.rs:79).
TimeOrdered ==
  [][\A t \in Threads : Returned(t) /\ last[t] # -1 =>
       IF kind = "basic" THEN timestamp(last'[t]) >= timestamp(last[t])
                         ELSE last'[t] > last[t]]_vars

\* A generator's state after its creation is an id that a caller received: a
\* panic of the random source, in or out of a lock, leaves no half-made id
\* behind for the next caller to continue from.
StateWasIssued ==
  \A c \in Cells : Len(mo[c]) > 1 =>
    \E t \in Threads : last[t] = Newest(c)

\* No id is ahead of the clock, although the random source fills more bits
\* than the field below the timestamp has.
NoFutureTimestamp ==
  \A t \in Threads : last[t] # -1 => timestamp(last[t]) <= millis

\* No wait is longer than to the tick after the newest one in use, however
\* stale the thread's clock reading or its view of the state.
BackoffBounded ==
  \A t \in Threads : pc[t] = "pending" =>
    \/ now[t] + yield_for[t] <= millis + 1
    \/ now[t] + yield_for[t] <= timestamp(mo[Cell(t)][1]) + 1

\* Calls fail only on a std mutex that a panic has poisoned; nothing is issued
\* after that.  A parking_lot mutex goes on working after the panic.
PoisonIsFinal ==
  [][/\ poisoned => poisoned' /\ UNCHANGED mo
     /\ poisoned' # poisoned => kind = "std" /\ UNCHANGED mo
     /\ \A t \in Threads : pc'[t] = "error" /\ pc[t] # "error" => poisoned]_vars

Exhausted(c) ==
  /\ millis = MaxMillis
  /\ timestamp(Newest(c)) = MaxMillis => ~ has_random_room(Newest(c))
  /\ timestamp(Newest(c)) >= MaxMillis

Idle(c) ==
  \A t \in Threads : Cell(t) = c => pc[t] \in {"idle", "error", "panicked"}

\* While threads are inside next_id ids are issued: a full tick, a panic of
\* the random source under the lock and lost races delay them, none stops
\* them.  (The bound leaves finitely many ids, so threads that keep calling
\* come to use them up, unless the mutex is poisoned.)
Progress ==
  \A c \in Cells :
    []<>(Idle(c) \/ poisoned \/ Exhausted(c) \/ kind = "basic")
=============================================================================
