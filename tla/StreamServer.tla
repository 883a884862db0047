---------------------------- MODULE StreamServer ----------------------------
(***************************************************************************)
(* The gRPC id server (crates/ferroid-tonic-server): per request a handler *)
(* (service/handler.rs) that spawns feed_chunks (streaming/coordinator.rs),*)
(* a pool of workers (pool/worker.rs, streaming/processor.rs) fed round    *)
(* robin through channels of capacity one (pool/manager.rs), the clients,  *)
(* and the graceful shutdown that runs concurrently with all of them.      *)
(*                                                                         *)
(* A step is what a task does between two awaits or two accesses to shared *)
(* state.  tokio's bounded mpsc channels are sequences with a capacity: a  *)
(* send waits for room and fails once the receiver is dropped, a receive   *)
(* returns None once the channel is empty and every sender is dropped, and *)
(* messages left in a dropped receiver's channel are dropped with it.      *)
(* Taking a slot and storing the message in it are one step.               *)
(* A generator is its machine id and the number of ids it has issued: that *)
(* it issues increasing ids is IdIssuer's promise.  Poll::Pending only     *)
(* makes the worker yield and is not a step.                               *)
(***************************************************************************)
EXTENDS Integers, Sequences, FiniteSets

CONSTANTS
  Streams,          \* requests clients may make
  NoStream,         \* in a WorkRequest: Shutdown
  Counts,           \* per stream, the counts its client may ask for
  MaxAllowedIds,    \* config.max_allowed_ids
  NumWorkers,       \* config.num_workers
  ShardOffset,      \* config.shard_offset
  MachineIds,       \* SnowflakeId::max_machine_id() + 1
  IdsPerChunk,      \* config.ids_per_chunk
  StreamBufferSize  \* config.stream_buffer_size

\* What ServerConfig::try_from checks: it bounds num_workers only.
ASSUME ConfigAssumption ==
  /\ NoStream \notin Streams
  /\ Counts \in [Streams -> SUBSET Nat] /\ MaxAllowedIds \in Nat
  /\ MachineIds \in Nat /\ NumWorkers \in 1 .. MachineIds
  /\ ShardOffset \in Nat /\ IdsPerChunk \in Nat /\ StreamBufferSize \in Nat

Workers == 0 .. NumWorkers - 1

\* mutant: the buffer is smaller than a chunk
BufferIds_small == IdsPerChunk - 1
\* chunk_bytes / SNOWFLAKE_ID_SIZE: the ids a worker's buffer holds
BufferIds == IdsPerChunk

\* capacity of the channel from a worker to feed_chunks
ChunkCapacity == 2

VARIABLES
  SHUTDOWN,         \* global flag: refuse new requests
  STREAMS_INFLIGHT, \* global counter the shutdown drains
  cancelled,        \* shutdown_token
  next_worker,      \* round-robin counter, modulo the number of workers
  fpc,              \* where each request's handler or feed_chunks task is
  total,            \* ids the client asked for
  remaining,        \* ids feed_chunks has yet to request
  target,           \* worker the current request goes to, and its size
  msg,              \* chunk in feed_chunks' hands
  chunks,           \* channel of the stream's current WorkRequest
  resp,             \* channel to the client
  outcome,          \* the client's end: none, open, ended, error, gone
  received,         \* ids the client has read
  wpc,              \* where each worker is in worker_loop
  work,             \* channel of WorkRequests to each worker
  job,              \* WorkRequest the worker is processing
  generated,        \* ids generated for it
  buff,             \* chunk_buf[..buff_pos], which outlives the request
  issued,           \* ids the worker's generator has issued
  spc,              \* where the shutdown is
  notified,         \* workers the shutdown has dealt with
  acks              \* workers whose acknowledgement has been sent

handlerVars == <<fpc, total, remaining, target, msg>>
clientVars == <<outcome, received>>
workerVars == <<wpc, job, generated, buff, issued>>
shutdownVars == <<SHUTDOWN, cancelled, spc, notified, acks>>
vars == <<handlerVars, clientVars, workerVars, shutdownVars,
          STREAMS_INFLIGHT, next_worker, chunks, resp, work>>

\* What the steps of each task never touch
FeedFrame == UNCHANGED <<total, clientVars, workerVars,
  shutdownVars, STREAMS_INFLIGHT>>
WorkerFrame == UNCHANGED <<handlerVars, clientVars, SHUTDOWN, cancelled, spc,
  notified, STREAMS_INFLIGHT, next_worker, resp>>
ShutdownFrame == UNCHANGED <<handlerVars, clientVars, workerVars, acks, STREAMS_INFLIGHT,
  next_worker, chunks, resp>>
ClientFrame == UNCHANGED <<handlerVars, workerVars, shutdownVars, STREAMS_INFLIGHT,
  next_worker, chunks, work>>
HandlerFrame == UNCHANGED <<target, msg, received, workerVars, shutdownVars,
  next_worker, chunks, resp, work>>

Shutdown == [stream |-> NoStream, size |-> 0]

\* The generator of worker w has machine id shard_offset + w, masked.
Generator(w) == (ShardOffset + w) % MachineIds

RxAlive(w) == wpc[w] \notin {"stopped", "panicked"}
ClientAlive(s) == outcome[s] = "open"
ChunkRxAlive(s) == fpc[s] \in {"send", "recv", "forward"}
Processes(w, s) == wpc[w] \in {"gen", "emit"} /\ job[w].stream = s
Queues(w, s) == \E i \in DOMAIN work[w] : work[w][i].stream = s
ChunkTxAlive(s) == \E w \in Workers : Processes(w, s) \/ Queues(w, s)

ToClient(s, err, ids) ==
  resp' = [resp EXCEPT ![s] = Append(@, [err |-> err, ids |-> ids])]

GoTo(s, label) == fpc' = [fpc EXCEPT ![s] = label]

-----------------------------------------------------------------------------
(* IdService::new *)

Init ==
  /\ SHUTDOWN = FALSE /\ STREAMS_INFLIGHT = 0 /\ cancelled = FALSE
  /\ next_worker = 0
  /\ fpc = [s \in Streams |-> "new"]
  /\ total = [s \in Streams |-> 0]
  /\ remaining = [s \in Streams |-> 0]
  /\ target = [s \in Streams |-> [worker |-> 0, size |-> 0]]
  /\ msg = [s \in Streams |-> <<>>]
  /\ chunks = [s \in Streams |-> <<>>]
  /\ resp = [s \in Streams |-> <<>>]
  /\ outcome = [s \in Streams |-> "none"]
  /\ received = [s \in Streams |-> <<>>]
  /\ wpc = [w \in Workers |-> "recv"]
  /\ work = [w \in Workers |-> <<>>]
  /\ job = [w \in Workers |-> Shutdown]
  /\ generated = [w \in Workers |-> 0]
  /\ buff = [w \in Workers |-> <<>>]
  /\ issued = [w \in Workers |-> 0]
  /\ spc = "running" /\ notified = 0 /\ acks = {}

-----------------------------------------------------------------------------
(* stream_ids *)

\* The early returns: shutting down, count zero, count above the maximum.
Request(s, n) ==
  /\ fpc[s] = "new"
  /\ IF SHUTDOWN \/ n = 0 \/ n > MaxAllowedIds
     THEN GoTo(s, "rejected") /\ UNCHANGED total
     ELSE GoTo(s, "checked") /\ total' = [total EXCEPT ![s] = n]
  /\ HandlerFrame /\ UNCHANGED <<STREAMS_INFLIGHT, remaining, outcome>>

\* Nothing orders the counter after the flag read in Request.  A channel of
\* capacity zero panics, after the counter was incremented.
Admit(s) ==
  /\ fpc[s] = "checked"
  /\ STREAMS_INFLIGHT' = STREAMS_INFLIGHT + 1
  /\ IF StreamBufferSize = 0
     THEN GoTo(s, "panicked") /\ outcome' = [outcome EXCEPT ![s] = "error"]
     ELSE GoTo(s, "loop") /\ outcome' = [outcome EXCEPT ![s] = "open"]
  /\ remaining' = [remaining EXCEPT ![s] = total[s]]
  /\ HandlerFrame /\ UNCHANGED total

\* feed_chunks has returned and dropped resp_tx.
Finish(s) ==
  /\ fpc[s] = "finish"
  /\ GoTo(s, "done")
  /\ STREAMS_INFLIGHT' = STREAMS_INFLIGHT - 1
  /\ HandlerFrame /\ UNCHANGED <<total, remaining, outcome>>

-----------------------------------------------------------------------------
(* feed_chunks and WorkerPool::send_to_next_worker *)

ChunkSize(s) == IF remaining[s] < IdsPerChunk THEN remaining[s] ELSE IdsPerChunk

next_worker_index == next_worker' = (next_worker + 1) % NumWorkers

\* The loop head, the token check and the choice of the worker.
NextChunk(s) ==
  /\ fpc[s] = "loop" /\ remaining[s] > 0
  /\ remaining' = [remaining EXCEPT ![s] = @ - ChunkSize(s)]
  /\ IF cancelled
     THEN GoTo(s, "senderr") /\ UNCHANGED <<target, next_worker>>
     ELSE /\ GoTo(s, "send")
          /\ target' = [target EXCEPT ![s] =
                          [worker |-> next_worker, size |-> ChunkSize(s)]]
          /\ next_worker_index
  /\ FeedFrame /\ UNCHANGED <<msg, chunks, resp, work>>

AllRequested(s) ==
  /\ fpc[s] = "loop" /\ remaining[s] = 0
  /\ GoTo(s, "finish")
  /\ FeedFrame /\ UNCHANGED <<next_worker, remaining, target, msg, chunks, resp, work>>

\* mutant: the channel to the worker is unbounded
SendRequest_unbounded(s) ==
  LET w == target[s].worker
  IN  /\ fpc[s] = "send" /\ RxAlive(w)
      /\ work' = [work EXCEPT ![w] =
                    Append(@, [stream |-> s, size |-> target[s].size])]
      /\ GoTo(s, "recv")
      /\ FeedFrame /\ UNCHANGED <<next_worker, remaining, target, msg, chunks, resp>>
\* worker.send(request).await
SendRequest(s) ==
  LET w == target[s].worker
  IN  /\ fpc[s] = "send" /\ RxAlive(w) /\ Len(work[w]) < 1
      /\ work' = [work EXCEPT ![w] =
                    Append(@, [stream |-> s, size |-> target[s].size])]
      /\ GoTo(s, "recv")
      /\ FeedFrame /\ UNCHANGED <<next_worker, remaining, target, msg, chunks, resp>>

WorkerGone(s) ==
  /\ fpc[s] = "send" /\ ~ RxAlive(target[s].worker)
  /\ GoTo(s, "senderr")
  /\ FeedFrame /\ UNCHANGED <<next_worker, remaining, target, msg, chunks, resp, work>>

\* chunk_rx.recv().await: a chunk, or None when the worker has dropped its end
RecvChunk(s) ==
  /\ fpc[s] = "recv" /\ chunks[s] # <<>>
  /\ msg' = [msg EXCEPT ![s] = Head(chunks[s])]
  /\ chunks' = [chunks EXCEPT ![s] = Tail(@)]
  /\ GoTo(s, "forward")
  /\ FeedFrame /\ UNCHANGED <<next_worker, remaining, target, resp, work>>

RecvNone(s) ==
  /\ fpc[s] = "recv" /\ chunks[s] = <<>> /\ ~ ChunkTxAlive(s)
  /\ GoTo(s, "loop")
  /\ FeedFrame /\ UNCHANGED <<next_worker, remaining, target, msg, chunks, resp, work>>

\* resp_tx.send(msg).await
Forward(s) ==
  /\ fpc[s] = "forward" /\ ClientAlive(s) /\ Len(resp[s]) < StreamBufferSize
  /\ ToClient(s, FALSE, msg[s])
  /\ msg' = [msg EXCEPT ![s] = <<>>]
  /\ GoTo(s, "recv")
  /\ FeedFrame /\ UNCHANGED <<next_worker, remaining, target, chunks, work>>

\* mutant: the error path leaves without the decrement
ClientGone_leak(s) ==
  /\ fpc[s] \in {"forward", "senderr"} /\ ~ ClientAlive(s)
  /\ msg' = [msg EXCEPT ![s] = <<>>]
  /\ chunks' = [chunks EXCEPT ![s] = <<>>]
  /\ GoTo(s, "done")
  /\ FeedFrame /\ UNCHANGED <<next_worker, remaining, target, resp, work>>
\* The client is gone: feed_chunks returns Err, chunk_rx is dropped.
ClientGone(s) ==
  /\ fpc[s] \in {"forward", "senderr"} /\ ~ ClientAlive(s)
  /\ msg' = [msg EXCEPT ![s] = <<>>]
  /\ chunks' = [chunks EXCEPT ![s] = <<>>]
  /\ GoTo(s, "finish")
  /\ FeedFrame /\ UNCHANGED <<next_worker, remaining, target, resp, work>>

\* resp_tx.send(Err(e)).await on a failed dispatch
SurfaceError(s) ==
  /\ fpc[s] = "senderr" /\ ClientAlive(s) /\ Len(resp[s]) < StreamBufferSize
  /\ ToClient(s, TRUE, <<>>)
  /\ GoTo(s, "finish")
  /\ FeedFrame /\ UNCHANGED <<next_worker, remaining, target, msg, chunks, work>>

-----------------------------------------------------------------------------
(* The client: reads the stream, sees its end, or disconnects. *)

Read(s) ==
  /\ ClientAlive(s) /\ resp[s] # <<>>
  /\ resp' = [resp EXCEPT ![s] = IF Head(resp[s]).err THEN <<>> ELSE Tail(@)]
  /\ received' = [received EXCEPT ![s] = @ \o Head(resp[s]).ids]
  /\ outcome' = [outcome EXCEPT ![s] = IF Head(resp[s]).err THEN "error" ELSE @]
  /\ ClientFrame

ReadEnd(s) ==
  /\ ClientAlive(s) /\ resp[s] = <<>> /\ fpc[s] \in {"finish", "done"}
  /\ outcome' = [outcome EXCEPT ![s] = "ended"]
  /\ ClientFrame /\ UNCHANGED <<resp, received>>

Disconnect(s) ==
  /\ ClientAlive(s)
  /\ outcome' = [outcome EXCEPT ![s] = "gone"]
  /\ resp' = [resp EXCEPT ![s] = <<>>]
  /\ ClientFrame /\ UNCHANGED received

-----------------------------------------------------------------------------
(* worker_loop and handle_stream_request *)

WorkerAt(w, label) == wpc' = [wpc EXCEPT ![w] = label]

RecvWork(w) ==
  /\ wpc[w] = "recv" /\ work[w] # <<>> /\ Head(work[w]) # Shutdown
  /\ job' = [job EXCEPT ![w] = Head(work[w])]
  /\ generated' = [generated EXCEPT ![w] = 0]
  /\ work' = [work EXCEPT ![w] = Tail(@)]
  /\ WorkerAt(w, "gen")
  /\ WorkerFrame /\ UNCHANGED <<acks, chunks, buff, issued>>

\* mutant: every worker is given the shard offset as its machine id
poll_id_aliased(w) == [machine |-> ShardOffset % MachineIds, n |-> issued[w]]
poll_id(w) == [machine |-> Generator(w), n |-> issued[w]]

\* One id into the buffer; past its end the slice index panics.
Generate(w) ==
  /\ wpc[w] = "gen" /\ generated[w] < job[w].size
  /\ generated' = [generated EXCEPT ![w] = @ + 1]
  /\ issued' = [issued EXCEPT ![w] = @ + 1]
  /\ IF Len(buff[w]) >= BufferIds
     THEN /\ WorkerAt(w, "panicked")
          /\ work' = [work EXCEPT ![w] = <<>>]
          /\ UNCHANGED buff
     ELSE /\ WorkerAt(w, IF Len(buff[w]) + 1 = BufferIds THEN "emit" ELSE "gen")
          /\ buff' = [buff EXCEPT ![w] = Append(@, poll_id(w))]
          /\ UNCHANGED work
  /\ WorkerFrame /\ UNCHANGED <<acks, chunks, job>>

\* mutant: the full buffer is sent but not reset
EmitChunk_no_reset(w) ==
  LET s == job[w].stream
  IN  /\ wpc[w] = "emit"
      /\ chunks' = [chunks EXCEPT ![s] = Append(@, buff[w])]
      /\ WorkerAt(w, "gen")
      /\ WorkerFrame /\ UNCHANGED <<acks, work, job, generated, buff, issued>>
\* The full buffer is sent and reset; if feed_chunks is gone the function
\* returns and leaves the buffer full.
EmitChunk(w) ==
  LET s == job[w].stream
  IN  /\ wpc[w] = "emit"
      /\ ChunkRxAlive(s) => Len(chunks[s]) < ChunkCapacity
      /\ IF ChunkRxAlive(s)
         THEN /\ chunks' = [chunks EXCEPT ![s] = Append(@, buff[w])]
              /\ buff' = [buff EXCEPT ![w] = <<>>]
              /\ WorkerAt(w, "gen")
         ELSE WorkerAt(w, "recv") /\ UNCHANGED <<chunks, buff>>
      /\ WorkerFrame /\ UNCHANGED <<acks, work, job, generated, issued>>

\* mutant: the final partial chunk is dropped
Flush_no_partial(w) ==
  /\ wpc[w] = "gen" /\ generated[w] >= job[w].size
  /\ buff' = [buff EXCEPT ![w] = <<>>]
  /\ WorkerAt(w, "recv")
  /\ WorkerFrame /\ UNCHANGED <<acks, chunks, work, job, generated, issued>>
\* The end of handle_stream_request: the final partial chunk, then chunk_tx
\* is dropped.
Flush(w) ==
  LET s == job[w].stream
      sends == buff[w] # <<>> /\ ChunkRxAlive(s)
  IN  /\ wpc[w] = "gen" /\ generated[w] >= job[w].size
      /\ sends => Len(chunks[s]) < ChunkCapacity
      /\ IF sends
         THEN /\ chunks' = [chunks EXCEPT ![s] = Append(@, buff[w])]
              /\ buff' = [buff EXCEPT ![w] = <<>>]
         ELSE UNCHANGED <<chunks, buff>>
      /\ WorkerAt(w, "recv")
      /\ WorkerFrame /\ UNCHANGED <<acks, work, job, generated, issued>>

\* WorkRequest::Shutdown is acknowledged before the receiver is dropped.
RecvShutdown(w) ==
  /\ wpc[w] = "recv" /\ work[w] # <<>> /\ Head(work[w]) = Shutdown
  /\ work' = [work EXCEPT ![w] = Tail(@)]
  /\ acks' = acks \cup {w}
  /\ WorkerAt(w, "stopping")
  /\ WorkerFrame /\ UNCHANGED <<chunks, job, generated, buff, issued>>

\* mutant: what is queued outlives the worker
Stop_keeping_queue(w) ==
  /\ wpc[w] = "stopping"
  /\ WorkerAt(w, "stopped")
  /\ WorkerFrame /\ UNCHANGED <<acks, chunks, work, job, generated, buff, issued>>
\* The loop is left and rx dropped, with what is still queued.
Stop(w) ==
  /\ wpc[w] = "stopping"
  /\ WorkerAt(w, "stopped")
  /\ work' = [work EXCEPT ![w] = <<>>]
  /\ WorkerFrame /\ UNCHANGED <<acks, chunks, job, generated, buff, issued>>

-----------------------------------------------------------------------------
(* WorkerPool::shutdown *)

BeginShutdown ==
  /\ spc = "running"
  /\ SHUTDOWN' = TRUE
  /\ spc' = "drain"
  /\ ShutdownFrame /\ UNCHANGED <<cancelled, notified, work>>

\* The counter is polled until it is zero, or shutdown_timeout has passed.
Drained ==
  /\ spc = "drain" /\ STREAMS_INFLIGHT = 0
  /\ spc' = "cancel"
  /\ ShutdownFrame /\ UNCHANGED <<SHUTDOWN, cancelled, notified, work>>

\* mutant: the drain waits for the streams without a timeout
DrainTimeout_none == FALSE
DrainTimeout ==
  /\ spc = "drain" /\ STREAMS_INFLIGHT > 0
  /\ spc' = "cancel"
  /\ ShutdownFrame /\ UNCHANGED <<SHUTDOWN, cancelled, notified, work>>

Cancel ==
  /\ spc = "cancel"
  /\ cancelled' = TRUE
  /\ spc' = "notify"
  /\ ShutdownFrame /\ UNCHANGED <<SHUTDOWN, notified, work>>

\* The workers in turn; the send waits for room, without a timeout, and a
\* worker whose receiver is gone is skipped.
NotifyWorker ==
  LET w == notified
  IN  /\ spc = "notify" /\ w < NumWorkers
      /\ RxAlive(w) => Len(work[w]) < 1
      /\ work' = IF RxAlive(w) THEN [work EXCEPT ![w] = Append(@, Shutdown)] ELSE work
      /\ notified' = notified + 1
      /\ ShutdownFrame /\ UNCHANGED <<SHUTDOWN, cancelled, spc>>

AllNotified ==
  /\ spc = "notify" /\ notified = NumWorkers
  /\ spc' = "acks"
  /\ ShutdownFrame /\ UNCHANGED <<SHUTDOWN, cancelled, notified, work>>

AllAcked ==
  /\ spc = "acks" /\ \A w \in Workers : w \in acks \/ ~ RxAlive(w)
  /\ spc' = "done"
  /\ ShutdownFrame /\ UNCHANGED <<SHUTDOWN, cancelled, notified, work>>

\* Three seconds have passed without all acknowledgements.
AckTimeout ==
  /\ spc = "acks" /\ ~ \A w \in Workers : w \in acks \/ ~ RxAlive(w)
  /\ spc' = "timed out"
  /\ ShutdownFrame /\ UNCHANGED <<SHUTDOWN, cancelled, notified, work>>

-----------------------------------------------------------------------------

Handler(s) == (\E n \in Counts[s] : Request(s, n)) \/ Admit(s) \/ Finish(s)

Feed(s) ==
  \/ NextChunk(s) \/ AllRequested(s) \/ SendRequest(s) \/ WorkerGone(s)
  \/ RecvChunk(s) \/ RecvNone(s) \/ Forward(s) \/ ClientGone(s) \/ SurfaceError(s)

Client(s) == Read(s) \/ ReadEnd(s) \/ Disconnect(s)

Worker(w) ==
  \/ RecvWork(w) \/ Generate(w) \/ EmitChunk(w) \/ Flush(w)
  \/ RecvShutdown(w) \/ Stop(w)

ShutdownTask ==
  \/ Drained \/ DrainTimeout \/ Cancel \/ NotifyWorker \/ AllNotified
  \/ AllAcked \/ AckTimeout

\* Everything the server owes anyone has been done.
Quiescent ==
  /\ spc \in {"done", "timed out"}
  /\ \A s \in Streams :
       /\ fpc[s] \in {"rejected", "done", "panicked"}
       /\ ~ ClientAlive(s)
  /\ \A w \in Workers : ~ RxAlive(w)
Terminated == Quiescent /\ UNCHANGED vars

Next ==
  \/ \E s \in Streams : Handler(s) \/ Feed(s) \/ Client(s)
  \/ \E w \in Workers : Worker(w)
  \/ BeginShutdown \/ ShutdownTask
  \/ Terminated

Spec == Init /\ [][Next]_vars

(***************************************************************************)
(* Fairness: tokio runs every task that can make progress, its timers fire *)
(* and its channels serve waiting senders in order (so a sender that finds *)
(* room again and again gets it: SF).  Clients owe nothing: they need not  *)
(* read or disconnect, and nobody has to ask for a shutdown.               *)
(***************************************************************************)
Fairness ==
  /\ \A s \in Streams :
       /\ WF_vars(Admit(s)) /\ WF_vars(Finish(s)) /\ WF_vars(Feed(s))
       /\ SF_vars(SendRequest(s))
  /\ \A w \in Workers : WF_vars(Worker(w))
  /\ WF_vars(ShutdownTask) /\ SF_vars(NotifyWorker)

FairSpec == Spec /\ Fairness

-----------------------------------------------------------------------------

Ids == [machine : 0 .. MachineIds - 1, n : Nat]
WorkRequests == [stream : Streams \cup {NoStream}, size : Nat]

\* Types of the variables; every channel stays within its capacity.
TypeOK ==
  /\ SHUTDOWN \in BOOLEAN /\ cancelled \in BOOLEAN
  /\ STREAMS_INFLIGHT \in Nat /\ next_worker \in Workers
  /\ fpc \in [Streams -> {"new", "rejected", "checked", "panicked", "loop", "send",
                          "recv", "forward", "senderr", "finish", "done"}]
  /\ total \in [Streams -> Nat] /\ remaining \in [Streams -> Nat]
  /\ target \in [Streams -> [worker : Workers, size : Nat]]
  /\ msg \in [Streams -> Seq(Ids)]
  /\ chunks \in [Streams -> Seq(Seq(Ids))]
  /\ \A s \in Streams : Len(chunks[s]) <= ChunkCapacity
  /\ resp \in [Streams -> Seq([err : BOOLEAN, ids : Seq(Ids)])]
  /\ \A s \in Streams : Len(resp[s]) <= StreamBufferSize
  /\ outcome \in [Streams -> {"none", "open", "ended", "error", "gone"}]
  /\ received \in [Streams -> Seq(Ids)]
  /\ wpc \in [Workers -> {"recv", "gen", "emit", "stopping", "stopped", "panicked"}]
  /\ work \in [Workers -> Seq(WorkRequests)]
  /\ \A w \in Workers : Len(work[w]) <= 1
  /\ job \in [Workers -> WorkRequests]
  /\ generated \in [Workers -> Nat] /\ issued \in [Workers -> Nat]
  /\ buff \in [Workers -> Seq(Ids)]
  /\ spc \in {"running", "drain", "cancel", "notify", "acks", "done", "timed out"}
  /\ notified \in 0 .. NumWorkers /\ acks \subseteq Workers

\* The worker's buffer outlives a request and two early returns of
\* handle_stream_request leave it filled.  Still no request ever starts on a
\* buffer holding ids of an earlier one, and no worker panics on its end.
BufferEmptyBetweenRequests ==
  \A w \in Workers :
    /\ wpc[w] \in {"recv", "stopping", "stopped"} => buff[w] = <<>>
    /\ wpc[w] # "panicked"

\* A worker never waits on a stream: while it has ids to make or to send,
\* feed_chunks is there to take them and the channel is empty, so a client that
\* does not read cannot hold up the worker or, through it, other clients and
\* the shutdown.
WorkerNeverBlocked ==
  \A w \in Workers :
    wpc[w] \in {"gen", "emit"} /\ (generated[w] < job[w].size \/ buff[w] # <<>>)
      => LET s == job[w].stream
         IN  ChunkRxAlive(s) /\ chunks[s] = <<>>

\* feed_chunks dispatches sequentially: of each stream at most one WorkRequest
\* is queued or processed in the whole pool, whatever its errors.
OneRequestPerStream ==
  \A s \in Streams : \A v, w \in Workers :
    /\ Processes(v, s) /\ Processes(w, s) => v = w
    /\ Queues(v, s) /\ Queues(w, s) => v = w
    /\ ~ (Processes(v, s) /\ Queues(w, s))

\* STREAMS_INFLIGHT counts the streams admitted and not finished, on every
\* path out of stream_ids and feed_chunks ("Global counter tracking the number
\* of active in-flight streams.", service/handler.rs:53).
InflightExact ==
  STREAMS_INFLIGHT = Cardinality({s \in Streams :
    fpc[s] \in {"loop", "send", "recv", "forward", "senderr", "finish"}})

\* No id reaches clients twice, within a stream or in different streams.
NoDuplicateIds ==
  \A s, r \in Streams : \A i \in DOMAIN received[s], j \in DOMAIN received[r] :
    received[s][i] = received[r][j] => s = r /\ i = j

Short(s) == outcome[s] = "ended" /\ Len(received[s]) # total[s]

\* Until the shutdown token is cancelled a stream that ends without an error
\* has delivered exactly the number of ids asked for.
CompleteUnlessShutdown ==
  \A s \in Streams : Short(s) => cancelled

\* "If any error occurs during dispatch or transmission, the stream is
\* terminated early and the error is surfaced to the client."
\* (streaming/coordinator.rs:18-19): a stream without an error is complete.
NoSilentTruncation == \A s \in Streams : ~ Short(s)

\* Once shutdown has collected its acknowledgements the workers are past
\* their last request: no id is issued any more.
QuietAfterShutdown ==
  spc = "done" => \A w \in Workers : wpc[w] \in {"stopping", "stopped"}

\* shutdown terminates whatever the clients do: it waits for a slot in every
\* worker's channel without a timeout, and gets it.
ShutdownCompletes == (spc # "running") ~> (spc \in {"done", "timed out"})

\* feed_chunks "Gracefully exits if the client disconnects mid-stream."
\* (streaming/coordinator.rs:35), also with requests queued at busy workers.
GracefulExit ==
  \A s \in Streams : (outcome[s] = "gone") ~> (fpc[s] = "done")

\* No stream hangs: a client that waits always gets something to read (a chunk,
\* an error or the end) and the task of one that has gone ends, whether or not
\* other clients read theirs, also when the server shuts down while the
\* stream's request is queued or processed.
StreamsAdvance ==
  \A s \in Streams :
    (outcome[s] \in {"open", "gone"})
      ~> (resp[s] # <<>> \/ fpc[s] = "done" \/ outcome[s] \in {"ended", "error"})
=============================================================================
