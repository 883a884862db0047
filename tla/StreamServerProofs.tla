------------------------- MODULE StreamServerProofs -------------------------
(***************************************************************************)
(* Safety of the streaming server for any number of streams and workers,   *)
(* any chunk size and any buffer size the configuration accepts: the types *)
(* of the variables, then the requests in the pool of workers (PoolInv),   *)
(* the acknowledgements of a shutdown (AckInv), where each id is (IdInv)   *)
(* and what is left of each request (DeliveryInv).  Each invariant rests   *)
(* on the ones before it.                                                  *)
(***************************************************************************)
EXTENDS StreamServer, TLAPS

\* What the proofs use of channels of small capacity.
LEMMA SeqLen ==
  ASSUME NEW S, NEW q \in Seq(S)
  PROVE  /\ Len(q) \in Nat /\ DOMAIN q = 1 .. Len(q)
         /\ q = <<>> <=> Len(q) = 0
         /\ \A i \in 1 .. Len(q) : q[i] \in S
  OBVIOUS

LEMMA SeqAppend ==
  ASSUME NEW S, NEW q \in Seq(S), NEW x \in S
  PROVE  /\ Append(q, x) \in Seq(S) /\ Len(Append(q, x)) = Len(q) + 1
         /\ Append(q, x)[Len(q) + 1] = x /\ Append(q, x) # <<>>
         /\ \A i \in 1 .. Len(q) : Append(q, x)[i] = q[i]
  OBVIOUS

LEMMA SeqTail ==
  ASSUME NEW S, NEW q \in Seq(S), q # <<>>
  PROVE  /\ Head(q) = q[1] /\ Head(q) \in S
         /\ Tail(q) \in Seq(S) /\ Len(Tail(q)) = Len(q) - 1
         /\ Len(q) >= 1 /\ 1 \in DOMAIN q
  OBVIOUS

LEMMA SeqOne ==
  ASSUME NEW S, NEW q \in Seq(S), q # <<>>, Len(q) <= 1
  PROVE  /\ Head(q) = q[1] /\ Head(q) \in S
         /\ Tail(q) \in Seq(S) /\ Len(Tail(q)) = 0
         /\ 1 \in DOMAIN q
<1> DEFINE n == Len(q)
<1>1. n \in Nat /\ n <= 1 /\ n # 0
  OBVIOUS
<1> HIDE DEF n
<1>2. n = 1
  BY <1>1
<1> QED BY <1>2, SeqTail DEF n

LEMMA Sizes ==
  /\ IdsPerChunk \in Nat /\ StreamBufferSize \in Nat /\ ChunkCapacity \in Nat
  /\ BufferIds = IdsPerChunk /\ Shutdown \in WorkRequests
  /\ NoStream \notin Streams /\ NumWorkers \in Nat \ {0} /\ MachineIds \in Nat \ {0}
  /\ 0 \in Workers
  BY ConfigAssumption DEF BufferIds, ChunkCapacity, Shutdown, WorkRequests, Workers

-----------------------------------------------------------------------------
(* The type invariant, in the parts that the tasks change. *)

FeedTypes ==
  /\ fpc \in [Streams -> {"new", "rejected", "checked", "panicked", "loop", "send",
                          "recv", "forward", "senderr", "finish", "done"}]
  /\ total \in [Streams -> Nat] /\ remaining \in [Streams -> Nat]
  /\ target \in [Streams -> [worker : Workers, size : Nat]]
  /\ msg \in [Streams -> Seq(Ids)]
  /\ chunks \in [Streams -> Seq(Seq(Ids))]
  /\ \A s \in Streams : Len(chunks[s]) <= ChunkCapacity

ClientTypes ==
  /\ resp \in [Streams -> Seq([err : BOOLEAN, ids : Seq(Ids)])]
  /\ \A s \in Streams : Len(resp[s]) <= StreamBufferSize
  /\ outcome \in [Streams -> {"none", "open", "ended", "error", "gone"}]
  /\ received \in [Streams -> Seq(Ids)]

WorkerTypes ==
  /\ wpc \in [Workers -> {"recv", "gen", "emit", "stopping", "stopped", "panicked"}]
  /\ work \in [Workers -> Seq(WorkRequests)]
  /\ \A w \in Workers : Len(work[w]) <= 1
  /\ job \in [Workers -> WorkRequests]
  /\ generated \in [Workers -> Nat] /\ issued \in [Workers -> Nat]
  /\ buff \in [Workers -> Seq(Ids)]

ShutdownTypes ==
  /\ next_worker \in Workers
  /\ spc \in {"running", "drain", "cancel", "notify", "acks", "done", "timed out"}
  /\ notified \in 0 .. NumWorkers /\ acks \subseteq Workers

Types == FeedTypes /\ ClientTypes /\ WorkerTypes /\ ShutdownTypes

\* The id a generator makes next is an id.
LEMMA NewId == ASSUME WorkerTypes, NEW w \in Workers PROVE poll_id(w) \in Ids
<1>1. ShardOffset + w \in Nat /\ MachineIds \in Nat \ {0}
  BY ConfigAssumption DEF Workers
<1>2. (ShardOffset + w) % MachineIds \in 0 .. MachineIds - 1
  BY <1>1
<1>3. issued[w] \in Nat
  BY Zenon DEF WorkerTypes
<1> QED BY <1>2, <1>3, Zenon DEF poll_id, Generator, Ids

LEMMA Init_Types == Init => Types
<1> SUFFICES ASSUME Init PROVE Types
  BY Zenon
<1> USE Sizes
<1>1. FeedTypes
  BY DEF Init, FeedTypes
<1>2. ClientTypes
  BY DEF Init, ClientTypes
<1>3. WorkerTypes
  BY DEF Init, WorkerTypes
<1>4. ShutdownTypes
  BY DEF Init, ShutdownTypes
<1> QED BY <1>1, <1>2, <1>3, <1>4, Zenon DEF Types

\* The steps of a request's handler and of feed_chunks.
LEMMA Feed_Types ==
  ASSUME Types, NEW s \in Streams, Handler(s) \/ Feed(s)
  PROVE  FeedTypes'
<1> USE DEF FeedTypes, Types
<1>0. remaining[s] \in Nat /\ total[s] \in Nat /\ ChunkSize(s) \in Nat
      /\ ChunkSize(s) <= remaining[s]
  BY Sizes DEF ChunkSize
<1>1. ASSUME NEW n \in Counts[s], Request(s, n) PROVE FeedTypes'
  <2>1. n \in Nat
    BY ConfigAssumption, Zenon
  <2> QED BY <1>1, <2>1, ZenonT(30) DEF Request, GoTo, HandlerFrame
<1>2. CASE Admit(s) \/ Finish(s)
  BY <1>0, <1>2, ZenonT(30) DEF Admit, Finish, GoTo, HandlerFrame
<1>3. CASE NextChunk(s)
  <2>0. next_worker \in Workers
    BY Zenon DEF ShutdownTypes
  <2>1. /\ remaining[s] - ChunkSize(s) \in Nat
        /\ [worker |-> next_worker, size |-> ChunkSize(s)] \in [worker : Workers, size : Nat]
    BY <1>0, <2>0
  <2>2. /\ remaining' = [remaining EXCEPT ![s] = @ - ChunkSize(s)]
        /\ \/ GoTo(s, "senderr") /\ target' = target
           \/ /\ GoTo(s, "send")
              /\ target' = [target EXCEPT ![s] =
                              [worker |-> next_worker, size |-> ChunkSize(s)]]
        /\ UNCHANGED <<total, msg, chunks>>
    BY <1>3, Zenon DEF NextChunk, FeedFrame
  <2>3. remaining' \in [Streams -> Nat]
    BY <2>1, <2>2, Zenon
  <2>4. /\ target' \in [Streams -> [worker : Workers, size : Nat]]
    BY <2>1, <2>2, Zenon
  <2>5. fpc' \in [Streams -> {"new", "rejected", "checked", "panicked", "loop", "send",
                          "recv", "forward", "senderr", "finish", "done"}]
    BY <2>2, Zenon DEF GoTo
  <2> QED BY <2>2, <2>3, <2>4, <2>5, Zenon
<1>4. CASE AllRequested(s) \/ SendRequest(s) \/ WorkerGone(s) \/ RecvNone(s)
           \/ SurfaceError(s)
  BY <1>4, Zenon DEF AllRequested, SendRequest, WorkerGone, RecvNone, SurfaceError, GoTo,
    FeedFrame
<1>5. CASE RecvChunk(s)
  <2>1. /\ Head(chunks[s]) \in Seq(Ids) /\ Tail(chunks[s]) \in Seq(Seq(Ids))
        /\ Len(Tail(chunks[s])) = Len(chunks[s]) - 1 /\ Len(chunks[s]) \in Nat
    BY <1>5, SeqTail, SeqLen, Zenon DEF RecvChunk
  <2> QED BY <1>5, <2>1, Sizes, SMTT(30) DEF RecvChunk, GoTo, FeedFrame
<1>6. CASE Forward(s)
  BY <1>6 DEF Forward, GoTo, FeedFrame
<1>7. CASE ClientGone(s)
  <2>1. <<>> \in Seq(Seq(Ids)) /\ <<>> \in Seq(Ids) /\ Len(<<>>) <= ChunkCapacity
    BY Sizes
  <2> QED BY <1>7, <2>1, Zenon DEF ClientGone, GoTo, FeedFrame
<1> QED BY <1>1, <1>2, <1>3, <1>4, <1>5, <1>6, <1>7, Zenon DEF Handler, Feed

\* The steps of a worker on the channel to feed_chunks.
LEMMA Chunk_Types ==
  ASSUME Types, NEW w \in Workers, Worker(w)
  PROVE  FeedTypes'
<1> USE DEF FeedTypes, Types
<1>1. CASE RecvWork(w) \/ Generate(w) \/ RecvShutdown(w) \/ Stop(w)
  BY <1>1, Zenon DEF RecvWork, Generate, RecvShutdown, Stop, WorkerFrame, handlerVars
<1>2. CASE EmitChunk(w) \/ Flush(w)
  <2> DEFINE s == job[w].stream
  <2>1. /\ UNCHANGED handlerVars
        /\ \/ chunks' = chunks
           \/ /\ Len(chunks[s]) < ChunkCapacity /\ ChunkRxAlive(s)
              /\ chunks' = [chunks EXCEPT ![s] = Append(@, buff[w])]
    BY <1>2, Zenon DEF EmitChunk, Flush, WorkerFrame
  <2> HIDE DEF s
  <2>2. ASSUME s \in Streams, Len(chunks[s]) < ChunkCapacity
        PROVE  /\ Append(chunks[s], buff[w]) \in Seq(Seq(Ids))
               /\ Len(Append(chunks[s], buff[w])) <= ChunkCapacity
    <3>1. buff[w] \in Seq(Ids) /\ chunks[s] \in Seq(Seq(Ids)) /\ Len(chunks[s]) \in Nat
      BY <2>2, SeqLen, Zenon DEF WorkerTypes
    <3>2. /\ Append(chunks[s], buff[w]) \in Seq(Seq(Ids))
          /\ Len(Append(chunks[s], buff[w])) = Len(chunks[s]) + 1
      BY <3>1, SeqAppend
    <3> QED BY <2>2, <3>1, <3>2, Sizes
  <2>3. CASE s \in Streams
    BY <2>1, <2>2, <2>3, Zenon DEF handlerVars
  <2>4. CASE s \notin Streams
    <3>1. chunks' = chunks
      BY <2>1, <2>4
    <3> QED BY <2>1, <3>1, Zenon DEF handlerVars
  <2> QED BY <2>3, <2>4, Zenon
<1> QED BY <1>1, <1>2, Zenon DEF Worker

LEMMA Client_Types ==
  ASSUME Types, NEW s \in Streams, Handler(s) \/ Feed(s) \/ Client(s)
  PROVE  ClientTypes'
<1> USE DEF ClientTypes, Types
<1> DEFINE Item == [err : BOOLEAN, ids : Seq(Ids)]
<1>0. resp[s] \in Seq(Item) /\ Len(resp[s]) \in Nat /\ Len(resp[s]) <= StreamBufferSize
  BY SeqLen, Zenon
<1>1. CASE \/ \E n \in Counts[s] : Request(s, n)
           \/ Finish(s) \/ NextChunk(s) \/ AllRequested(s) \/ SendRequest(s)
           \/ WorkerGone(s) \/ RecvChunk(s) \/ RecvNone(s) \/ ClientGone(s)
  <2>1. UNCHANGED <<resp, outcome, received>>
    BY <1>1, Zenon DEF Request, Finish, NextChunk, AllRequested, SendRequest, WorkerGone,
      RecvChunk, RecvNone, ClientGone, HandlerFrame, FeedFrame, clientVars
  <2> QED BY <2>1, Zenon
<1>2. CASE Admit(s)
  <2>1. UNCHANGED <<resp, received>>
        /\ \E o \in {"error", "open"} : outcome' = [outcome EXCEPT ![s] = o]
    BY <1>2, Zenon DEF Admit, HandlerFrame
  <2> QED BY <2>1, Zenon
<1>3. CASE Forward(s) \/ SurfaceError(s)
  <2>1. /\ UNCHANGED <<outcome, received>>
        /\ Len(resp[s]) < StreamBufferSize
        /\ \E x \in {[err |-> FALSE, ids |-> msg[s]], [err |-> TRUE, ids |-> <<>>]} :
             resp' = [resp EXCEPT ![s] = Append(@, x)]
    BY <1>3, Zenon DEF Forward, SurfaceError, ToClient, FeedFrame, clientVars
  <2>2. PICK x \in {[err |-> FALSE, ids |-> msg[s]], [err |-> TRUE, ids |-> <<>>]} :
             resp' = [resp EXCEPT ![s] = Append(@, x)]
    BY <2>1, Zenon
  <2>3. msg[s] \in Seq(Ids) /\ <<>> \in Seq(Ids)
    BY DEF FeedTypes
  <2>4. x \in Item
    <3>1. [err |-> FALSE, ids |-> msg[s]] \in Item
      BY <2>3, Zenon
    <3>2. [err |-> TRUE, ids |-> <<>>] \in Item
      BY <2>3, Zenon
    <3> QED BY <3>1, <3>2, Zenon
  <2> HIDE DEF Item
  <2>5. Append(resp[s], x) \in Seq(Item) /\ Len(Append(resp[s], x)) = Len(resp[s]) + 1
    BY <1>0, <2>4, SeqAppend
  <2>6. resp \in [Streams -> Seq(Item)]
    BY Zenon DEF Item
  <2>7. /\ resp' \in [Streams -> Seq(Item)]
        /\ \A r \in Streams : Len(resp'[r]) <= StreamBufferSize
    BY <1>0, <2>1, <2>2, <2>5, <2>6, Sizes
  <2> QED BY <2>1, <2>7, Zenon DEF Item
<1>4. CASE Read(s)
  <2>1. resp[s] # <<>>
    BY <1>4, Zenon DEF Read
  <2>2. /\ Head(resp[s]) \in Item /\ Tail(resp[s]) \in Seq(Item)
        /\ Len(Tail(resp[s])) = Len(resp[s]) - 1
    <3> HIDE DEF Item
    <3> QED BY <1>0, <2>1, SeqTail, Zenon
  <2>3. Head(resp[s]).ids \in Seq(Ids)
    BY <2>2, Zenon
  <2>4. received[s] \o Head(resp[s]).ids \in Seq(Ids)
    BY <2>3
  <2>5. /\ \E q \in {<<>>, Tail(resp[s])} : resp' = [resp EXCEPT ![s] = q]
        /\ received' = [received EXCEPT ![s] = @ \o Head(resp[s]).ids]
        /\ \E o \in {"error", outcome[s]} : outcome' = [outcome EXCEPT ![s] = o]
    BY <1>4, Zenon DEF Read
  <2>6. ASSUME NEW q \in {<<>>, Tail(resp[s])}
        PROVE  q \in Seq(Item) /\ Len(q) <= StreamBufferSize
    <3> HIDE DEF Item
    <3>1. CASE q = <<>>
      BY <3>1, Sizes
    <3>2. CASE q = Tail(resp[s])
      BY <1>0, <2>2, <3>2, Sizes
    <3> QED BY <3>1, <3>2, Zenon
  <2> HIDE DEF Item
  <2>7. resp \in [Streams -> Seq(Item)]
    BY Zenon DEF Item
  <2>8. /\ resp' \in [Streams -> Seq(Item)]
        /\ \A r \in Streams : Len(resp'[r]) <= StreamBufferSize
    BY <2>5, <2>6, <2>7, Zenon
  <2>9. received' \in [Streams -> Seq(Ids)]
    BY <2>4, <2>5, Zenon
  <2>10. outcome' \in [Streams -> {"none", "open", "ended", "error", "gone"}]
    BY <2>5, Zenon
  <2> QED BY <2>8, <2>9, <2>10, Zenon DEF Item
<1>5. CASE ReadEnd(s) \/ Disconnect(s)
  <2>1. /\ \E o \in {"ended", "gone"} : outcome' = [outcome EXCEPT ![s] = o]
        /\ received' = received
        /\ resp' = resp \/ resp' = [resp EXCEPT ![s] = <<>>]
    BY <1>5, Zenon DEF ReadEnd, Disconnect
  <2>2. <<>> \in Seq(Item) /\ Len(<<>>) <= StreamBufferSize
    BY Sizes
  <2> HIDE DEF Item
  <2>3. resp \in [Streams -> Seq(Item)]
    BY Zenon DEF Item
  <2>4. /\ resp' \in [Streams -> Seq(Item)]
        /\ \A r \in Streams : Len(resp'[r]) <= StreamBufferSize
    BY <2>1, <2>2, <2>3, Zenon
  <2>5. outcome' \in [Streams -> {"none", "open", "ended", "error", "gone"}]
    BY <2>1, Zenon
  <2> QED BY <2>1, <2>4, <2>5, Zenon DEF Item
<1> QED BY <1>1, <1>2, <1>3, <1>4, <1>5, Zenon DEF Handler, Feed, Client

\* Appending to a worker's empty channel keeps it within its capacity.
LEMMA Enqueued ==
  ASSUME WorkerTypes, NEW w \in Workers, Len(work[w]) < 1, NEW x \in WorkRequests,
         work' = [work EXCEPT ![w] = Append(@, x)]
  PROVE  /\ work' \in [Workers -> Seq(WorkRequests)]
         /\ \A v \in Workers : Len(work'[v]) <= 1
         /\ DOMAIN work'[w] = {1} /\ work'[w][1] = x
         /\ \A v \in Workers : v # w => work'[v] = work[v]
<1>1. /\ work \in [Workers -> Seq(WorkRequests)]
      /\ \A v \in Workers : Len(work[v]) <= 1
  BY Zenon DEF WorkerTypes
<1>2. work[w] \in Seq(WorkRequests) /\ Len(work[w]) = 0
  BY <1>1, SeqLen
<1>3. /\ Append(work[w], x) \in Seq(WorkRequests) /\ Len(Append(work[w], x)) = 1
      /\ Append(work[w], x)[1] = x
  BY <1>2, SeqAppend
<1>4. DOMAIN Append(work[w], x) = {1}
  BY <1>3, SeqLen
<1> QED BY <1>1, <1>3, <1>4

\* Taking the head of a worker's channel empties it.
LEMMA Dequeued ==
  ASSUME WorkerTypes, NEW w \in Workers, work[w] # <<>>,
         work' = [work EXCEPT ![w] = Tail(@)]
  PROVE  /\ work' \in [Workers -> Seq(WorkRequests)]
         /\ \A v \in Workers : Len(work'[v]) <= 1
         /\ Head(work[w]) \in WorkRequests /\ Head(work[w]) = work[w][1]
         /\ 1 \in DOMAIN work[w] /\ DOMAIN work'[w] = {}
         /\ \A v \in Workers : v # w => work'[v] = work[v]
<1>1. /\ work \in [Workers -> Seq(WorkRequests)]
      /\ \A v \in Workers : Len(work[v]) <= 1
  BY Zenon DEF WorkerTypes
<1>2. work[w] \in Seq(WorkRequests) /\ Len(work[w]) \in Nat /\ Len(work[w]) <= 1
  BY <1>1, SeqLen, Zenon
<1>3. /\ Tail(work[w]) \in Seq(WorkRequests) /\ Len(Tail(work[w])) = 0
      /\ Head(work[w]) \in WorkRequests /\ Head(work[w]) = work[w][1]
      /\ 1 \in DOMAIN work[w]
  BY <1>2, SeqOne, Zenon
<1>4. DOMAIN Tail(work[w]) = {}
  BY <1>3, SeqLen
<1> QED BY <1>1, <1>3, <1>4

LEMMA Worker_Types ==
  ASSUME Types, NEW w \in Workers, Worker(w)
  PROVE  WorkerTypes'
<1>a. WorkerTypes
  BY Zenon DEF Types
<1>b. /\ generated[w] \in Nat /\ issued[w] \in Nat /\ buff[w] \in Seq(Ids)
      /\ <<>> \in Seq(Ids) /\ <<>> \in Seq(WorkRequests)
  BY <1>a DEF WorkerTypes
<1>1. CASE RecvWork(w)
  <2>1. /\ work' \in [Workers -> Seq(WorkRequests)]
        /\ \A v \in Workers : Len(work'[v]) <= 1
        /\ Head(work[w]) \in WorkRequests
    BY <1>a, <1>1, Dequeued, Zenon DEF RecvWork
  <2>2. /\ job' = [job EXCEPT ![w] = Head(work[w])]
        /\ generated' = [generated EXCEPT ![w] = 0]
        /\ wpc' = [wpc EXCEPT ![w] = "gen"] /\ UNCHANGED <<buff, issued>>
    BY <1>1, Zenon DEF RecvWork, WorkerAt
  <2> QED BY <1>a, <2>1, <2>2, Zenon DEF WorkerTypes
<1>2. CASE Generate(w)
  <2>1. Append(buff[w], poll_id(w)) \in Seq(Ids)
    BY <1>a, <1>b, NewId, SeqAppend, Zenon
  <2>2. /\ generated' = [generated EXCEPT ![w] = @ + 1]
        /\ issued' = [issued EXCEPT ![w] = @ + 1]
        /\ \E l \in {"panicked", "emit", "gen"} : wpc' = [wpc EXCEPT ![w] = l]
        /\ work' = work \/ work' = [work EXCEPT ![w] = <<>>]
        /\ buff' = buff \/ buff' = [buff EXCEPT ![w] = Append(@, poll_id(w))]
        /\ job' = job
    BY <1>2, Zenon DEF Generate, WorkerAt
  <2>3. /\ work' \in [Workers -> Seq(WorkRequests)]
        /\ \A v \in Workers : Len(work'[v]) <= 1
    <3>1. /\ work \in [Workers -> Seq(WorkRequests)] /\ \A v \in Workers : Len(work[v]) <= 1
      BY <1>a, Zenon DEF WorkerTypes
    <3>2. CASE work' = work
      BY <3>1, <3>2, Zenon
    <3>3. CASE work' = [work EXCEPT ![w] = <<>>]
      BY <1>b, <3>1, <3>3
    <3> QED BY <2>2, <3>2, <3>3, Zenon
  <2>4. buff' \in [Workers -> Seq(Ids)]
    BY <1>a, <2>1, <2>2, ZenonT(30) DEF WorkerTypes
  <2>5. wpc' \in [Workers -> {"recv", "gen", "emit", "stopping", "stopped", "panicked"}]
    BY <1>a, <2>2, Zenon DEF WorkerTypes
  <2>6. generated' \in [Workers -> Nat] /\ issued' \in [Workers -> Nat]
    BY <1>a, <1>b, <2>2, SMTT(30) DEF WorkerTypes
  <2> QED BY <1>a, <2>2, <2>3, <2>4, <2>5, <2>6, Zenon DEF WorkerTypes
<1>3. CASE EmitChunk(w) \/ Flush(w)
  <2>1. /\ \E l \in {"gen", "recv"} : wpc' = [wpc EXCEPT ![w] = l]
        /\ buff' = buff \/ buff' = [buff EXCEPT ![w] = <<>>]
        /\ UNCHANGED <<work, job, generated, issued>>
    BY <1>3, Zenon DEF EmitChunk, Flush, WorkerAt
  <2> QED BY <1>a, <1>b, <2>1, Zenon DEF WorkerTypes
<1>4. CASE RecvShutdown(w)
  <2>1. /\ work' \in [Workers -> Seq(WorkRequests)]
        /\ \A v \in Workers : Len(work'[v]) <= 1
    BY <1>a, <1>4, Dequeued, Zenon DEF RecvShutdown
  <2>2. /\ wpc' = [wpc EXCEPT ![w] = "stopping"]
        /\ UNCHANGED <<job, generated, buff, issued>>
    BY <1>4, Zenon DEF RecvShutdown, WorkerAt
  <2> QED BY <1>a, <2>1, <2>2, Zenon DEF WorkerTypes
<1>5. CASE Stop(w)
  BY <1>a, <1>b, <1>5 DEF Stop, WorkerAt, WorkerTypes
<1> QED BY <1>1, <1>2, <1>3, <1>4, <1>5, Zenon DEF Worker

\* Every step keeps the types.
LEMMA Next_Types == Types /\ [Next]_vars => Types'
<1> SUFFICES ASSUME Types, [Next]_vars PROVE Types'
  BY Zenon
<1>a. FeedTypes /\ ClientTypes /\ WorkerTypes /\ ShutdownTypes
  BY Zenon DEF Types
<1>1. CASE UNCHANGED vars
  <2>1. UNCHANGED <<fpc, total, remaining, target, msg, chunks, resp, outcome, received,
                    wpc, work, job, generated, buff, issued, next_worker, spc, notified, acks>>
    BY <1>1, Zenon DEF vars, handlerVars, clientVars, workerVars, shutdownVars
  <2> QED BY <1>a, <2>1, Zenon DEF Types, FeedTypes, ClientTypes, WorkerTypes, ShutdownTypes
<1>2. ASSUME NEW s \in Streams, Handler(s) \/ Feed(s) PROVE Types'
  <2>1. FeedTypes'
    BY <1>2, Feed_Types, Zenon
  <2>2. ClientTypes'
    BY <1>2, Client_Types, Zenon
  <2>3. CASE Handler(s)
    <3>1. UNCHANGED <<workerVars, work, next_worker, spc, notified, acks>>
      BY <2>3, Zenon DEF Handler, Request, Admit, Finish, HandlerFrame, shutdownVars
    <3> QED BY <1>a, <2>1, <2>2, <3>1, Zenon DEF Types, WorkerTypes, ShutdownTypes, workerVars
  <2>4. CASE Feed(s)
    <3>1. UNCHANGED <<workerVars, spc, notified, acks>>
      BY <2>4, Zenon DEF Feed, NextChunk, AllRequested, SendRequest, WorkerGone, RecvChunk,
        RecvNone, Forward, ClientGone, SurfaceError, FeedFrame, shutdownVars
    <3>2. next_worker' = next_worker \/ next_worker' = (next_worker + 1) % NumWorkers
      BY <2>4, Zenon DEF Feed, NextChunk, AllRequested, SendRequest, WorkerGone, RecvChunk,
        RecvNone, Forward, ClientGone, SurfaceError, next_worker_index
    <3>3. next_worker' \in Workers
      <4>1. next_worker \in Nat /\ NumWorkers \in Nat \ {0} /\ next_worker \in Workers
        <5>1. next_worker \in Workers
          BY <1>a, Zenon DEF ShutdownTypes
        <5> QED BY <5>1, Sizes DEF Workers
      <4>2. (next_worker + 1) % NumWorkers \in 0 .. NumWorkers - 1
        BY <4>1
      <4> QED BY <3>2, <4>1, <4>2, Zenon DEF Workers
    <3>4. ShutdownTypes'
      BY <1>a, <3>1, <3>3, Zenon DEF ShutdownTypes
    <3>5. CASE SendRequest(s)
      <4>1. /\ target[s].worker \in Workers /\ target[s].size \in Nat
        BY <1>a, Zenon DEF FeedTypes
      <4>2. [stream |-> s, size |-> target[s].size] \in WorkRequests
        BY <4>1, Zenon DEF WorkRequests
      <4>3. /\ work' \in [Workers -> Seq(WorkRequests)]
            /\ \A v \in Workers : Len(work'[v]) <= 1
        BY <1>a, <3>5, <4>1, <4>2, Enqueued, Zenon DEF SendRequest
      <4> QED BY <1>a, <2>1, <2>2, <3>1, <3>4, <4>3, Zenon DEF Types, WorkerTypes, workerVars
    <3>6. CASE ~ SendRequest(s)
      <4>1. work' = work
        BY <2>4, <3>6, Zenon DEF Feed, NextChunk, AllRequested, WorkerGone, RecvChunk,
          RecvNone, Forward, ClientGone, SurfaceError
      <4> QED BY <1>a, <2>1, <2>2, <3>1, <3>4, <4>1, Zenon DEF Types, WorkerTypes, workerVars
    <3> QED BY <3>5, <3>6, Zenon
  <2> QED BY <1>2, <2>3, <2>4, Zenon
<1>3. ASSUME NEW s \in Streams, Client(s) PROVE Types'
  <2>1. ClientTypes'
    BY <1>3, Client_Types, Zenon
  <2>2. UNCHANGED <<fpc, total, remaining, target, msg, chunks, wpc, work, job, generated,
                    buff, issued, next_worker, spc, notified, acks>>
    BY <1>3, Zenon DEF Client, Read, ReadEnd, Disconnect, ClientFrame, handlerVars, workerVars,
      shutdownVars
  <2> QED BY <1>a, <2>1, <2>2, Zenon DEF Types, FeedTypes, WorkerTypes, ShutdownTypes
<1>4. ASSUME NEW w \in Workers, Worker(w) PROVE Types'
  <2>1. FeedTypes' /\ WorkerTypes'
    BY <1>4, Chunk_Types, Worker_Types, Zenon
  <2>2. UNCHANGED <<resp, outcome, received, next_worker, spc, notified>>
        /\ acks' \in {acks, acks \cup {w}}
    BY <1>4, Zenon DEF Worker, RecvWork, Generate, EmitChunk, Flush, RecvShutdown, Stop,
      WorkerFrame, clientVars
  <2> QED BY <1>a, <2>1, <2>2, Zenon DEF Types, ClientTypes, ShutdownTypes
<1>5. CASE BeginShutdown \/ ShutdownTask
  <2>1. UNCHANGED <<fpc, total, remaining, target, msg, chunks, resp, outcome, received,
                    wpc, job, generated, buff, issued, next_worker, acks>>
    BY <1>5, Zenon DEF BeginShutdown, ShutdownTask, Drained, DrainTimeout, Cancel,
      NotifyWorker,
      AllNotified, AllAcked, AckTimeout, ShutdownFrame, handlerVars, clientVars, workerVars
  <2>2. CASE NotifyWorker
    <3>1. notified \in Workers /\ notified' = notified + 1 /\ spc' = spc
      BY <1>a, <2>2, Sizes DEF NotifyWorker, ShutdownTypes, Workers
    <3>2. ShutdownTypes'
      <4>1. notified' \in 0 .. NumWorkers
        BY <3>1, Sizes DEF Workers
      <4> QED BY <1>a, <2>1, <3>1, <4>1, Zenon DEF ShutdownTypes
    <3>3. CASE RxAlive(notified)
      <4>1. /\ work' \in [Workers -> Seq(WorkRequests)]
            /\ \A v \in Workers : Len(work'[v]) <= 1
        BY <1>a, <2>2, <3>1, <3>3, Enqueued, Sizes, Zenon DEF NotifyWorker
      <4> QED BY <1>a, <2>1, <3>2, <4>1, Zenon DEF Types, FeedTypes, ClientTypes, WorkerTypes
    <3>4. CASE ~ RxAlive(notified)
      <4>1. work' = work
        BY <2>2, <3>4, Zenon DEF NotifyWorker
      <4> QED BY <1>a, <2>1, <3>2, <4>1, Zenon DEF Types, FeedTypes, ClientTypes, WorkerTypes
    <3> QED BY <3>3, <3>4, Zenon
  <2>3. CASE ~ NotifyWorker
    <3>1. /\ UNCHANGED <<work, notified>>
          /\ spc' \in {"drain", "cancel", "notify", "acks", "done", "timed out"}
      BY <1>5, <2>3, Zenon DEF BeginShutdown, ShutdownTask, Drained, DrainTimeout, Cancel,
        AllNotified, AllAcked, AckTimeout
    <3> QED BY <1>a, <2>1, <3>1, Zenon DEF Types, FeedTypes, ClientTypes, WorkerTypes,
      ShutdownTypes
  <2> QED BY <2>2, <2>3, Zenon
<1>6. CASE Terminated
  BY <1>1, <1>6, Zenon DEF Terminated
<1> QED BY <1>1, <1>2, <1>3, <1>4, <1>5, <1>6, Zenon DEF Next
-----------------------------------------------------------------------------
(* Requests, their chunks and the workers' buffers. *)

\* A request being processed is either before its only chunk, with feed_chunks
\* waiting for it and the channel empty, or past it with nothing left to do.
JobInv(w, s) ==
  /\ job[w].size <= IdsPerChunk
  /\ fpc[s] \in {"recv", "forward", "finish", "done"}
  /\ \/ /\ fpc[s] = "recv" /\ chunks[s] = <<>>
        /\ Len(buff[w]) = generated[w] /\ generated[w] <= job[w].size
        /\ wpc[w] = "emit" => generated[w] = IdsPerChunk
     \/ wpc[w] = "gen" /\ buff[w] = <<>> /\ generated[w] >= job[w].size

\* A worker does not panic, and its buffer is empty between requests, which all are
\* of a stream and no larger than a chunk.
WorkerInv(w) ==
  /\ wpc[w] # "panicked"
  /\ wpc[w] \in {"recv", "stopping", "stopped"} => buff[w] = <<>>
  /\ wpc[w] \in {"gen", "emit"} => job[w].stream \in Streams
  /\ \A i \in DOMAIN work[w] :
       work[w][i] = Shutdown \/ work[w][i].stream \in Streams
  /\ \A i \in DOMAIN work[w] : work[w][i].size <= IdsPerChunk

\* A chunk waits only while feed_chunks waits for it, and it is the only one; a
\* request still queued has none.
FeedInv(s) ==
  /\ chunks[s] # <<>> => fpc[s] = "recv" /\ Len(chunks[s]) = 1
  /\ target[s].size <= IdsPerChunk
  /\ \A w \in Workers : Queues(w, s) => fpc[s] = "recv" /\ chunks[s] = <<>>
  /\ \A w \in Workers : Processes(w, s) => JobInv(w, s)

\* A stream has at most one request in the pool, queued or in process.
PoolInv ==
  /\ \A w \in Workers : WorkerInv(w)
  /\ \A s \in Streams : FeedInv(s)
  /\ OneRequestPerStream

\* The acknowledged workers have left their loop.
AckInv ==
  /\ \A w \in acks : wpc[w] \in {"stopping", "stopped"}
  /\ QuietAfterShutdown

LEMMA Init_PoolInv == Init => PoolInv /\ AckInv
<1> SUFFICES ASSUME Init PROVE PoolInv /\ AckInv
  BY Zenon
<1>1. /\ \A w \in Workers : wpc[w] = "recv" /\ work[w] = <<>> /\ buff[w] = <<>>
      /\ \A s \in Streams : chunks[s] = <<>> /\ target[s].size = 0
      /\ acks = {} /\ spc = "running"
  BY Zenon DEF Init
<1>2. \A w \in Workers : \A s : ~ Processes(w, s) /\ ~ Queues(w, s)
  BY <1>1 DEF Processes, Queues
<1>3. \A w \in Workers : WorkerInv(w)
  BY <1>1 DEF WorkerInv
<1>4. \A s \in Streams : FeedInv(s)
  BY <1>1, <1>2, Sizes DEF FeedInv
<1>5. OneRequestPerStream
  BY <1>2, Zenon DEF OneRequestPerStream
<1> QED BY <1>1, <1>3, <1>4, <1>5, Zenon DEF PoolInv, AckInv, QuietAfterShutdown

\* The pool is as it was.
LEMMA SameWorkers ==
  ASSUME PoolInv, UNCHANGED <<wpc, buff, job, work>>
  PROVE  /\ \A w \in Workers : WorkerInv(w)'
         /\ \A w \in Workers : \A s : /\ Processes(w, s)' <=> Processes(w, s)
                                      /\ Queues(w, s)' <=> Queues(w, s)
         /\ OneRequestPerStream'
<1>1. \A w \in Workers : WorkerInv(w)
  BY Zenon DEF PoolInv
<1>2. \A w \in Workers : WorkerInv(w)'
  BY <1>1, Zenon DEF WorkerInv
<1>3. \A w \in Workers : \A s : /\ Processes(w, s)' <=> Processes(w, s)
                                /\ Queues(w, s)' <=> Queues(w, s)
  BY Zenon DEF Processes, Queues
<1> QED BY <1>2, <1>3, Zenon DEF PoolInv, OneRequestPerStream

\* A handler or feed_chunks goes on without touching the pool or its chunks.
LEMMA FpcMove ==
  ASSUME Types, PoolInv, NEW s \in Streams, NEW l,
         fpc' = [fpc EXCEPT ![s] = l],
         UNCHANGED <<wpc, buff, job, work, generated, chunks>>,
         \A r \in Streams : target'[r] = target[r] \/ target'[r].size <= IdsPerChunk,
         \/ fpc[s] = "recv" /\ chunks[s] = <<>> /\ ~ ChunkTxAlive(s)
         \/ fpc[s] \notin {"recv", "forward", "finish", "done"}
         \/ fpc[s] \in {"forward", "finish"} /\ l \in {"recv", "done"}
  PROVE  PoolInv'
<1>a. \A r \in Streams : fpc'[r] = IF r = s THEN l ELSE fpc[r]
  BY Zenon DEF Types, FeedTypes
<1>b. \A r \in Streams : FeedInv(r)
  BY Zenon DEF PoolInv
<1>c. /\ \A w \in Workers : WorkerInv(w)'
      /\ \A w \in Workers : \A r : /\ Processes(w, r)' <=> Processes(w, r)
                                   /\ Queues(w, r)' <=> Queues(w, r)
      /\ OneRequestPerStream'
  BY SameWorkers, Zenon
<1>1. ASSUME NEW r \in Streams, r # s PROVE FeedInv(r)'
  <2>1. fpc'[r] = fpc[r] /\ chunks' = chunks /\ FeedInv(r)
    BY <1>a, <1>b, <1>1, Zenon
  <2>2. \A w \in Workers : JobInv(w, r) => JobInv(w, r)'
    BY <2>1, Zenon DEF JobInv
  <2> QED BY <1>c, <2>1, <2>2, Zenon DEF FeedInv
<1>2. FeedInv(s)'
  <2>1. fpc'[s] = l /\ FeedInv(s)
    BY <1>a, <1>b, Zenon
  <2>2. \A w \in Workers : ~ Queues(w, s)
    BY <2>1, Zenon DEF FeedInv, ChunkTxAlive
  <2>3. chunks[s] = <<>>
    BY <2>1, Zenon DEF FeedInv
  <2>4. ASSUME NEW w \in Workers, Processes(w, s) PROVE JobInv(w, s)'
    BY <2>1, <2>4, Zenon DEF FeedInv, JobInv, ChunkTxAlive
  <2> QED BY <1>c, <2>1, <2>2, <2>3, <2>4, Zenon DEF FeedInv
<1> QED BY <1>c, <1>1, <1>2, Zenon DEF PoolInv

LEMMA Handler_PoolInv ==
  ASSUME Types, PoolInv, NEW s \in Streams, Handler(s)
  PROVE  PoolInv'
<1>1. UNCHANGED <<wpc, buff, job, work, generated, chunks, target>>
  BY Zenon DEF Handler, Request, Admit, Finish, HandlerFrame, workerVars
<1>2. PICK l \in {"rejected", "checked", "loop", "panicked", "done"} :
             /\ fpc' = [fpc EXCEPT ![s] = l]
             /\ \/ fpc[s] \in {"new", "checked"}
                \/ fpc[s] = "finish" /\ l = "done"
  BY Zenon DEF Handler, Request, Admit, Finish, GoTo
<1> QED BY <1>1, <1>2, FpcMove, Zenon

LEMMA Feed_PoolInv ==
  ASSUME Types, PoolInv, NEW s \in Streams, Feed(s)
  PROVE  PoolInv'
<1>a. /\ UNCHANGED <<wpc, buff, job, generated>>
  BY Zenon DEF Feed, NextChunk, AllRequested, SendRequest, WorkerGone, RecvChunk, RecvNone,
    Forward, ClientGone, SurfaceError, FeedFrame, workerVars
<1>b. /\ FeedTypes /\ WorkerTypes /\ \A r \in Streams : FeedInv(r)
      /\ \A w \in Workers : WorkerInv(w)
  BY Zenon DEF Types, PoolInv
<1>1. CASE NextChunk(s)
  <2>1. ChunkSize(s) <= IdsPerChunk
    BY <1>b, Sizes, SMTT(30) DEF ChunkSize, FeedTypes
  <2>2. /\ fpc[s] = "loop" /\ UNCHANGED <<work, chunks>>
        /\ \E l \in {"senderr", "send"} : fpc' = [fpc EXCEPT ![s] = l]
        /\ \/ target' = target
           \/ target' = [target EXCEPT ![s] =
                           [worker |-> next_worker, size |-> ChunkSize(s)]]
    BY <1>1, Zenon DEF NextChunk, GoTo
  <2>3. \A r \in Streams : target'[r] = target[r] \/ target'[r].size <= IdsPerChunk
    BY <1>b, <2>1, <2>2, SMTT(30) DEF FeedTypes
  <2> QED BY <1>a, <2>2, <2>3, FpcMove, Zenon
<1>2. CASE AllRequested(s) \/ WorkerGone(s) \/ SurfaceError(s) \/ Forward(s)
  <2>1. /\ UNCHANGED <<work, chunks, target>>
        /\ \/ /\ fpc[s] \in {"loop", "send", "senderr"}
              /\ \E l \in {"senderr", "finish"} : fpc' = [fpc EXCEPT ![s] = l]
           \/ fpc[s] = "forward" /\ fpc' = [fpc EXCEPT ![s] = "recv"]
    BY <1>2, Zenon DEF AllRequested, WorkerGone, SurfaceError, Forward, GoTo
  <2> QED BY <1>a, <2>1, FpcMove, Zenon
<1>3. CASE RecvNone(s)
  <2>1. /\ UNCHANGED <<work, chunks, target>> /\ chunks[s] = <<>> /\ ~ ChunkTxAlive(s)
        /\ fpc[s] = "recv" /\ fpc' = [fpc EXCEPT ![s] = "loop"]
    BY <1>3, Zenon DEF RecvNone, GoTo
  <2> QED BY <1>a, <2>1, FpcMove, Zenon
<1>4. CASE RecvChunk(s) \/ ClientGone(s)
  <2>1. /\ UNCHANGED <<work, target>>
        /\ fpc' = [fpc EXCEPT ![s] = "forward"] \/ fpc' = [fpc EXCEPT ![s] = "finish"]
        /\ \/ chunks[s] # <<>> /\ chunks' = [chunks EXCEPT ![s] = Tail(@)]
           \/ /\ chunks' = [chunks EXCEPT ![s] = <<>>]
              /\ fpc[s] \in {"forward", "senderr"}
    BY <1>4, Zenon DEF RecvChunk, ClientGone, GoTo
  <2>2. FeedInv(s)
    BY <1>b, Zenon
  <2>3. /\ fpc'[s] \in {"forward", "finish"} /\ \A r \in Streams \ {s} : fpc'[r] = fpc[r]
        /\ \A r \in Streams \ {s} : chunks'[r] = chunks[r]
    BY <1>b, <2>1, Zenon DEF FeedTypes
  <2>4. chunks'[s] = <<>>
    <3>1. chunks[s] \in Seq(Seq(Ids)) /\ chunks'[s] \in {Tail(chunks[s]), <<>>}
          /\ (chunks'[s] = <<>> \/ chunks[s] # <<>>)
      BY <1>b, <2>1, Zenon DEF FeedTypes
    <3>2. CASE chunks[s] # <<>>
      <4>0. Len(chunks[s]) = 1
        BY <2>2, <3>2, Zenon DEF FeedInv
      <4>1. Len(chunks[s]) <= 1
        BY <4>0, SMTT(30)
      <4>2. Tail(chunks[s]) \in Seq(Seq(Ids)) /\ Len(Tail(chunks[s])) = 0
        BY <3>1, <3>2, <4>1, SeqOne, Zenon
      <4>3. Tail(chunks[s]) = <<>>
        BY <4>2, SeqLen, Zenon
      <4> QED BY <3>1, <4>3, Zenon
    <3> QED BY <3>1, <3>2, Zenon
  <2>5. /\ \A w \in Workers : WorkerInv(w)'
        /\ \A w \in Workers : \A r : /\ Processes(w, r)' <=> Processes(w, r)
                                     /\ Queues(w, r)' <=> Queues(w, r)
        /\ OneRequestPerStream'
    BY <1>a, <2>1, SameWorkers, Zenon
  <2>6. ASSUME NEW r \in Streams, r # s PROVE FeedInv(r)'
    <3>1. fpc'[r] = fpc[r] /\ chunks'[r] = chunks[r] /\ FeedInv(r)
      BY <1>b, <2>3, <2>6, Zenon
    <3>2. \A w \in Workers : JobInv(w, r) => JobInv(w, r)'
      BY <1>a, <3>1, Zenon DEF JobInv
    <3> QED BY <2>1, <2>5, <3>1, <3>2, Zenon DEF FeedInv
  <2>7. FeedInv(s)'
    <3>1. \A w \in Workers : ~ Queues(w, s)
      BY <2>1, <2>2, Zenon DEF FeedInv
    <3>2. ASSUME NEW w \in Workers, Processes(w, s) PROVE JobInv(w, s)'
      BY <1>a, <2>1, <2>2, <2>3, <3>2, Zenon DEF FeedInv, JobInv
    <3> QED BY <2>1, <2>2, <2>4, <2>5, <3>1, <3>2, Zenon DEF FeedInv
  <2> QED BY <2>5, <2>6, <2>7, Zenon DEF PoolInv
<1>5. CASE SendRequest(s)
  <2>0. LET x == [stream |-> s, size |-> target[s].size]
        IN  /\ target[s].worker \in Workers /\ x \in WorkRequests
            /\ x.stream = s /\ x.size <= IdsPerChunk
    BY <1>b, Zenon DEF FeedTypes, FeedInv, WorkRequests
  <2>2. PICK w \in Workers, x \in WorkRequests :
               /\ w = target[s].worker /\ x = [stream |-> s, size |-> target[s].size]
               /\ x.stream = s /\ x.size <= IdsPerChunk
    BY <2>0, Zenon
  <2>1. /\ fpc[s] = "send" /\ Len(work[w]) < 1 /\ UNCHANGED <<target, chunks>>
        /\ work' = [work EXCEPT ![w] = Append(@, x)]
        /\ fpc' = [fpc EXCEPT ![s] = "recv"]
    BY <1>5, <2>2, Zenon DEF SendRequest, GoTo
  <2>3. /\ DOMAIN work'[w] = {1} /\ work'[w][1] = x
        /\ \A v \in Workers : v # w => work'[v] = work[v]
    BY <1>b, <2>1, Enqueued, Zenon
  <2>4. fpc'[s] = "recv" /\ \A r \in Streams \ {s} : fpc'[r] = fpc[r]
    BY <1>b, <2>1, Zenon DEF FeedTypes
  <2>5. \A v \in Workers : ~ Processes(v, s) /\ ~ Queues(v, s)
    BY <1>b, <2>1, Zenon DEF FeedInv, JobInv
  <2>6. DOMAIN work[w] = {}
    <3>1. work[w] \in Seq(WorkRequests) /\ Len(work[w]) = 0
      BY <1>b, <2>1, <2>2, SeqLen, SMTT(30) DEF WorkerTypes
    <3> QED BY <3>1, SeqLen, SMTT(30)
  <2>7. /\ \A v \in Workers : \A r : Processes(v, r)' <=> Processes(v, r)
        /\ \A v \in Workers : \A r : Queues(v, r)' <=> (Queues(v, r) \/ (v = w /\ r = s))
    BY <1>a, <2>2, <2>3, <2>6, ZenonT(40) DEF Processes, Queues
  <2>8. \A v \in Workers : WorkerInv(v)'
    <3>1. \A v \in Workers : v # w => WorkerInv(v)'
      BY <1>a, <1>b, <2>3, Zenon DEF WorkerInv
    <3>2. \A i \in DOMAIN work'[w] :
            work'[w][i].stream \in Streams /\ work'[w][i].size <= IdsPerChunk
      BY <2>2, <2>3, Zenon
    <3>3. WorkerInv(w)'
      BY <1>a, <1>b, <2>2, <3>2, Zenon DEF WorkerInv
    <3> QED BY <3>1, <3>3, Zenon
  <2>9. OneRequestPerStream'
    BY <2>5, <2>7, SMTT(30) DEF PoolInv, OneRequestPerStream
  <2>10. ASSUME NEW r \in Streams, r # s PROVE FeedInv(r)'
    <3>1. fpc'[r] = fpc[r] /\ chunks'[r] = chunks[r] /\ FeedInv(r)
      BY <1>b, <2>1, <2>4, <2>10, Zenon
    <3>2. \A v \in Workers : JobInv(v, r) => JobInv(v, r)'
      BY <1>a, <3>1, Zenon DEF JobInv
    <3> QED BY <2>1, <2>7, <2>10, <3>1, <3>2, Zenon DEF FeedInv
  <2>11. FeedInv(s)'
    <3>1. FeedInv(s) /\ chunks'[s] = <<>>
      BY <1>b, <2>1, Zenon DEF FeedInv
    <3> QED BY <2>1, <2>4, <2>5, <2>7, <3>1, Zenon DEF FeedInv
  <2> QED BY <2>8, <2>9, <2>10, <2>11, Zenon DEF PoolInv
<1> QED BY <1>1, <1>2, <1>3, <1>4, <1>5, Zenon DEF Feed

\* A worker's step, in terms of what it does to that worker and to its stream.
LEMMA WorkerMove ==
  ASSUME PoolInv, NEW w \in Workers, UNCHANGED <<fpc, target>>,
         \A v \in Workers : v # w =>
           /\ wpc'[v] = wpc[v] /\ job'[v] = job[v] /\ generated'[v] = generated[v]
           /\ buff'[v] = buff[v] /\ work'[v] = work[v],
         WorkerInv(w)', OneRequestPerStream',
         \A s \in Streams : Processes(w, s)' => JobInv(w, s)',
         \A s \in Streams : Queues(w, s)' => fpc[s] = "recv" /\ chunks'[s] = <<>>,
         \A s \in Streams : chunks'[s] # chunks[s] =>
           /\ fpc[s] = "recv" /\ Len(chunks'[s]) = 1
           /\ \A v \in Workers : v # w => ~ Processes(v, s) /\ ~ Queues(v, s)
  PROVE  PoolInv'
<1>a. /\ \A v \in Workers : WorkerInv(v)
      /\ \A s \in Streams : FeedInv(s)
  BY Zenon DEF PoolInv
<1>1. \A v \in Workers : v # w => WorkerInv(v)'
  BY <1>a, SMTT(30) DEF WorkerInv
<1>2. \A v \in Workers : \A s : v # w => /\ Processes(v, s)' <=> Processes(v, s)
                                         /\ Queues(v, s)' <=> Queues(v, s)
  BY Zenon DEF Processes, Queues
<1>3. ASSUME NEW s \in Streams PROVE FeedInv(s)'
  <2>1. FeedInv(s) /\ fpc' = fpc /\ target' = target
    BY <1>a, Zenon
  <2>2. chunks'[s] # <<>> => fpc'[s] = "recv" /\ Len(chunks'[s]) = 1
    BY <2>1, SMTT(30) DEF FeedInv
  <2>3. ASSUME NEW v \in Workers, Queues(v, s)'
        PROVE  fpc'[s] = "recv" /\ chunks'[s] = <<>>
    BY <1>2, <2>1, <2>3, Zenon DEF FeedInv
  <2>4. ASSUME NEW v \in Workers, Processes(v, s)' PROVE JobInv(v, s)'
    <3>1. CASE v = w
      BY <2>4, <3>1, Zenon
    <3>2. CASE v # w
      <4>1. Processes(v, s) /\ chunks'[s] = chunks[s] /\ JobInv(v, s)
        BY <1>2, <2>1, <2>4, <3>2, Zenon DEF FeedInv
      <4> QED BY <2>1, <3>2, <4>1, ZenonT(40) DEF JobInv
    <3> QED BY <3>1, <3>2, Zenon
  <2> QED BY <2>1, <2>2, <2>3, <2>4, Zenon DEF FeedInv
<1> QED BY <1>1, <1>3, Zenon DEF PoolInv

LEMMA RecvWork_PoolInv ==
  ASSUME Types, PoolInv, NEW w \in Workers, RecvWork(w)
  PROVE  PoolInv'
<1>a. WorkerTypes /\ WorkerInv(w) /\ (\A s \in Streams : FeedInv(s)) /\ OneRequestPerStream
  BY Zenon DEF Types, PoolInv
<1>1. /\ wpc[w] = "recv" /\ work[w] # <<>> /\ Head(work[w]) # Shutdown
      /\ job' = [job EXCEPT ![w] = Head(work[w])]
      /\ generated' = [generated EXCEPT ![w] = 0]
      /\ work' = [work EXCEPT ![w] = Tail(@)]
      /\ wpc' = [wpc EXCEPT ![w] = "gen"]
      /\ UNCHANGED <<fpc, target, chunks, buff>>
  BY Zenon DEF RecvWork, WorkerAt, WorkerFrame, handlerVars
<1>2. /\ Head(work[w]) \in WorkRequests /\ Head(work[w]) = work[w][1]
      /\ 1 \in DOMAIN work[w] /\ DOMAIN work'[w] = {}
      /\ \A v \in Workers : v # w => work'[v] = work[v]
  BY <1>a, <1>1, Dequeued, Zenon
<1>3. PICK s \in Streams : s = Head(work[w]).stream
  BY <1>a, <1>1, <1>2, Zenon DEF WorkerInv
<1>4. Head(work[w]).size <= IdsPerChunk /\ Head(work[w]).size \in Nat
  BY <1>a, <1>2, Zenon DEF WorkerInv, WorkRequests
<1>5. /\ wpc'[w] = "gen" /\ job'[w] = Head(work[w]) /\ generated'[w] = 0
      /\ buff'[w] = <<>>
      /\ \A v \in Workers : v # w => /\ wpc'[v] = wpc[v] /\ job'[v] = job[v]
                                     /\ generated'[v] = generated[v] /\ buff'[v] = buff[v]
  BY <1>a, <1>1, Zenon DEF WorkerTypes, WorkerInv
<1>6. Queues(w, s) /\ \A r : ~ Processes(w, r)
  BY <1>1, <1>2, <1>3, Zenon DEF Queues, Processes
<1>7. fpc[s] = "recv" /\ chunks[s] = <<>>
  BY <1>a, <1>6, Zenon DEF FeedInv
<1>8. /\ \A v \in Workers : \A r : Processes(v, r)' <=> (Processes(v, r) \/ (v = w /\ r = s))
      /\ \A v \in Workers : \A r : Queues(v, r)' <=> (Queues(v, r) /\ v # w)
  BY <1>2, <1>3, <1>5, <1>6, Zenon DEF Processes, Queues
<1>9. WorkerInv(w)'
  BY <1>2, <1>3, <1>5, Zenon DEF WorkerInv
<1>10. OneRequestPerStream'
  BY <1>a, <1>6, <1>8, SMTT(30) DEF OneRequestPerStream
<1>11. JobInv(w, s)'
  BY <1>1, <1>4, <1>5, <1>7, SMTT(30) DEF JobInv
<1> QED BY <1>1, <1>2, <1>5, <1>6, <1>8, <1>9, <1>10, <1>11, WorkerMove, SMTT(30)

\* The requests a worker works on and has queued are what they were.
LEMMA SameRequests ==
  ASSUME PoolInv, NEW w \in Workers, UNCHANGED <<job, work>>,
         \A v \in Workers : wpc'[v] \in {"gen", "emit"} <=> wpc[v] \in {"gen", "emit"}
  PROVE  /\ OneRequestPerStream'
         /\ \A v \in Workers : \A s : /\ Processes(v, s)' <=> Processes(v, s)
                                      /\ Queues(v, s)' <=> Queues(v, s)
<1>1. \A v \in Workers : \A s : /\ Processes(v, s)' <=> Processes(v, s)
                                /\ Queues(v, s)' <=> Queues(v, s)
  BY Zenon DEF Processes, Queues
<1> QED BY <1>1, Zenon DEF PoolInv, OneRequestPerStream

LEMMA Generate_PoolInv ==
  ASSUME Types, PoolInv, NEW w \in Workers, Generate(w)
  PROVE  PoolInv'
<1>a. WorkerTypes /\ WorkerInv(w) /\ \A s \in Streams : FeedInv(s)
  BY Zenon DEF Types, PoolInv
<1>1. wpc[w] = "gen" /\ generated[w] < job[w].size
  BY Zenon DEF Generate
<1>2. PICK s \in Streams : s = job[w].stream
  BY <1>a, <1>1, Zenon DEF WorkerInv
<1>3. Processes(w, s) /\ JobInv(w, s)
  BY <1>a, <1>1, <1>2, Zenon DEF Processes, FeedInv
<1>4. generated[w] \in Nat /\ job[w].size \in Nat /\ buff[w] \in Seq(Ids)
  BY <1>a, Zenon DEF WorkerTypes, WorkRequests
<1>5. /\ fpc[s] = "recv" /\ chunks[s] = <<>> /\ Len(buff[w]) = generated[w]
      /\ job[w].size <= IdsPerChunk /\ Len(buff[w]) < IdsPerChunk
  BY <1>1, <1>3, <1>4, Sizes, SMTT(30) DEF JobInv
<1>6. /\ generated' = [generated EXCEPT ![w] = @ + 1]
      /\ wpc' = [wpc EXCEPT ![w] = IF Len(buff[w]) + 1 = BufferIds THEN "emit" ELSE "gen"]
      /\ buff' = [buff EXCEPT ![w] = Append(@, poll_id(w))]
      /\ UNCHANGED <<fpc, target, chunks, work, job>>
  BY <1>4, <1>5, Sizes, SMTT(30) DEF Generate, WorkerAt, WorkerFrame, handlerVars, BufferIds
<1>7. Len(Append(buff[w], poll_id(w))) = Len(buff[w]) + 1
  BY <1>a, <1>4, NewId, SeqAppend, SMTT(30)
<1>8. /\ generated'[w] = generated[w] + 1 /\ Len(buff'[w]) = generated[w] + 1
      /\ wpc'[w] \in {"gen", "emit"} /\ (wpc'[w] = "emit" => generated'[w] = IdsPerChunk)
      /\ \A v \in Workers : v # w => /\ wpc'[v] = wpc[v] /\ generated'[v] = generated[v]
                                     /\ buff'[v] = buff[v]
  BY <1>a, <1>5, <1>6, <1>7, Zenon DEF WorkerTypes, BufferIds
<1>9. \A v \in Workers : wpc'[v] \in {"gen", "emit"} <=> wpc[v] \in {"gen", "emit"}
  BY <1>1, <1>8, Zenon
<1>10. /\ OneRequestPerStream'
       /\ \A v \in Workers : \A r : /\ Processes(v, r)' <=> Processes(v, r)
                                    /\ Queues(v, r)' <=> Queues(v, r)
  BY <1>6, <1>9, SameRequests, Zenon
<1>11. WorkerInv(w)'
  BY <1>a, <1>1, <1>6, <1>8, Zenon DEF WorkerInv
<1>12. JobInv(w, s)'
  BY <1>1, <1>4, <1>5, <1>6, <1>8, SMTT(30) DEF JobInv
<1>13. \A r \in Streams : Processes(w, r)' => r = s
  BY <1>2, <1>10, Zenon DEF Processes
<1>14. \A r \in Streams : Queues(w, r)' => fpc[r] = "recv" /\ chunks'[r] = <<>>
  BY <1>a, <1>6, <1>10, Zenon DEF FeedInv
<1> QED BY <1>6, <1>8, <1>10, <1>11, <1>12, <1>13, <1>14, WorkerMove, Zenon

\* A worker that sends its buffer finds the stream waiting with an empty channel.
LEMMA SendsOne ==
  ASSUME Types, PoolInv, NEW w \in Workers, NEW s \in Streams,
         chunks[s] = <<>>, chunks' = [chunks EXCEPT ![s] = Append(@, buff[w])]
  PROVE  /\ Len(chunks'[s]) = 1
         /\ \A r \in Streams : r # s => chunks'[r] = chunks[r]
<1>1. chunks \in [Streams -> Seq(Seq(Ids))] /\ buff[w] \in Seq(Ids)
  BY Zenon DEF Types, FeedTypes, WorkerTypes
<1>2. chunks[s] \in Seq(Seq(Ids)) /\ Len(chunks[s]) = 0
  BY <1>1, SeqLen, Zenon
<1>3. Len(Append(chunks[s], buff[w])) = 1
  <2> DEFINE q == chunks[s]
             y == buff[w]
  <2>1. q \in Seq(Seq(Ids)) /\ y \in Seq(Ids) /\ Len(q) = 0
    BY <1>1, <1>2, Zenon
  <2> HIDE DEF q, y
  <2>2. Len(Append(q, y)) = 1
    BY <2>1, SeqAppend
  <2> QED BY <2>2, Zenon DEF q, y
<1> QED BY <1>1, <1>3, Zenon

LEMMA EmitChunk_PoolInv ==
  ASSUME Types, PoolInv, NEW w \in Workers, EmitChunk(w)
  PROVE  PoolInv'
<1>a. /\ WorkerTypes /\ WorkerInv(w) /\ (\A s \in Streams : FeedInv(s))
      /\ OneRequestPerStream
  BY Zenon DEF Types, PoolInv
<1>1. wpc[w] = "emit"
  BY Zenon DEF EmitChunk
<1>2. PICK s \in Streams : s = job[w].stream
  BY <1>a, <1>1, Zenon DEF WorkerInv
<1>3. Processes(w, s) /\ JobInv(w, s)
  BY <1>a, <1>1, <1>2, Zenon DEF Processes, FeedInv
<1>4. /\ fpc[s] = "recv" /\ chunks[s] = <<>> /\ generated[w] = IdsPerChunk
      /\ job[w].size <= IdsPerChunk /\ IdsPerChunk \in Nat /\ job[w].size \in Nat
  BY <1>a, <1>1, <1>3, Sizes, Zenon DEF JobInv, WorkerTypes, WorkRequests
<1>5. /\ chunks' = [chunks EXCEPT ![s] = Append(@, buff[w])]
      /\ buff' = [buff EXCEPT ![w] = <<>>]
      /\ wpc' = [wpc EXCEPT ![w] = "gen"]
      /\ UNCHANGED <<fpc, target, work, job, generated>>
  BY <1>2, <1>4, Zenon DEF EmitChunk, ChunkRxAlive, WorkerAt, WorkerFrame, handlerVars
<1>6. /\ Len(chunks'[s]) = 1 /\ \A r \in Streams : r # s => chunks'[r] = chunks[r]
  BY <1>4, <1>5, SendsOne, Zenon
<1>7. /\ buff'[w] = <<>> /\ wpc'[w] = "gen"
      /\ \A v \in Workers : v # w => wpc'[v] = wpc[v] /\ buff'[v] = buff[v]
  BY <1>a, <1>5, Zenon DEF WorkerTypes
<1>8. \A v \in Workers : wpc'[v] \in {"gen", "emit"} <=> wpc[v] \in {"gen", "emit"}
  BY <1>1, <1>7, Zenon
<1>9. /\ OneRequestPerStream'
      /\ \A v \in Workers : \A r : /\ Processes(v, r)' <=> Processes(v, r)
                                   /\ Queues(v, r)' <=> Queues(v, r)
  BY <1>5, <1>8, SameRequests, Zenon
<1>10. WorkerInv(w)'
  BY <1>a, <1>1, <1>5, <1>7, Zenon DEF WorkerInv
<1>11. JobInv(w, s)'
  BY <1>4, <1>5, <1>7, Zenon DEF JobInv
<1>12. \A r \in Streams : Processes(w, r)' => r = s
  BY <1>2, <1>9, Zenon DEF Processes
<1>13. \A v \in Workers : ~ Queues(v, s) /\ (v # w => ~ Processes(v, s))
  BY <1>a, <1>3, Zenon DEF OneRequestPerStream
<1>14. \A r \in Streams : Queues(w, r)' => fpc[r] = "recv" /\ chunks'[r] = <<>>
  BY <1>a, <1>6, <1>9, <1>13, Zenon DEF FeedInv
<1> QED BY <1>4, <1>5, <1>6, <1>7, <1>9, <1>10, <1>11, <1>12, <1>13, <1>14, WorkerMove,
  SMTT(30)

LEMMA Flush_PoolInv ==
  ASSUME Types, PoolInv, NEW w \in Workers, Flush(w)
  PROVE  PoolInv'
<1>a. /\ WorkerTypes /\ WorkerInv(w) /\ (\A s \in Streams : FeedInv(s))
      /\ OneRequestPerStream
  BY Zenon DEF Types, PoolInv
<1>1. wpc[w] = "gen" /\ wpc' = [wpc EXCEPT ![w] = "recv"]
      /\ UNCHANGED <<fpc, target, work, job, generated>>
  BY Zenon DEF Flush, WorkerAt, WorkerFrame, handlerVars
<1>2. PICK s \in Streams : s = job[w].stream
  BY <1>a, <1>1, Zenon DEF WorkerInv
<1>3. Processes(w, s) /\ JobInv(w, s)
  BY <1>a, <1>1, <1>2, Zenon DEF Processes, FeedInv
<1>4. \/ buff[w] = <<>> /\ UNCHANGED <<chunks, buff>>
      \/ /\ fpc[s] = "recv" /\ chunks[s] = <<>>
         /\ chunks' = [chunks EXCEPT ![s] = Append(@, buff[w])]
         /\ buff' = [buff EXCEPT ![w] = <<>>]
  <2>1. buff[w] = <<>> \/ (fpc[s] = "recv" /\ chunks[s] = <<>>)
    BY <1>3, Zenon DEF JobInv
  <2> QED BY <1>2, <2>1, Zenon DEF Flush, ChunkRxAlive
<1>5. /\ buff'[w] = <<>> /\ wpc'[w] = "recv"
      /\ \A v \in Workers : v # w => wpc'[v] = wpc[v] /\ buff'[v] = buff[v]
  BY <1>a, <1>1, <1>4, Zenon DEF WorkerTypes
<1>6. /\ \A v \in Workers : \A r : Processes(v, r)' <=> (Processes(v, r) /\ v # w)
      /\ \A v \in Workers : \A r : Queues(v, r)' <=> Queues(v, r)
  BY <1>1, <1>5, Zenon DEF Processes, Queues
<1>7. OneRequestPerStream'
  BY <1>a, <1>6, Zenon DEF OneRequestPerStream
<1>8. WorkerInv(w)'
  BY <1>a, <1>1, <1>5, Zenon DEF WorkerInv
<1>9. \A v \in Workers : ~ Queues(v, s) /\ (v # w => ~ Processes(v, s))
  BY <1>a, <1>3, Zenon DEF OneRequestPerStream
<1>10. /\ \A r \in Streams : r # s => chunks'[r] = chunks[r]
       /\ chunks'[s] # chunks[s] => fpc[s] = "recv" /\ Len(chunks'[s]) = 1
  BY <1>4, SendsOne, Zenon
<1>11. \A r \in Streams : Queues(w, r)' => fpc[r] = "recv" /\ chunks'[r] = <<>>
  BY <1>a, <1>6, <1>9, <1>10, Zenon DEF FeedInv
<1> QED BY <1>1, <1>5, <1>6, <1>7, <1>8, <1>9, <1>10, <1>11, WorkerMove, Zenon

\* The shutdown request is taken, or the receiver is dropped with what it held.
LEMMA Leave_PoolInv ==
  ASSUME Types, PoolInv, NEW w \in Workers, RecvShutdown(w) \/ Stop(w)
  PROVE  PoolInv'
<1>a. WorkerTypes /\ WorkerInv(w) /\ OneRequestPerStream
  BY Zenon DEF Types, PoolInv
<1>1. /\ wpc[w] \in {"recv", "stopping"}
      /\ wpc' = [wpc EXCEPT ![w] = "stopping"] \/ wpc' = [wpc EXCEPT ![w] = "stopped"]
      /\ UNCHANGED <<fpc, target, chunks, job, generated, buff>>
  BY Zenon DEF RecvShutdown, Stop, WorkerAt, WorkerFrame, handlerVars
<1>2. /\ DOMAIN work'[w] = {} /\ \A v \in Workers : v # w => work'[v] = work[v]
  <2>1. CASE RecvShutdown(w)
    BY <1>a, <2>1, Dequeued, Zenon DEF RecvShutdown
  <2>2. CASE Stop(w)
    <3>1. work'[w] = <<>> /\ \A v \in Workers : v # w => work'[v] = work[v]
      BY <1>a, <2>2, Zenon DEF Stop, WorkerTypes
    <3> QED BY <3>1, SMTT(30)
  <2> QED BY <2>1, <2>2, Zenon
<1>3. /\ wpc'[w] \in {"stopping", "stopped"} /\ buff'[w] = <<>>
      /\ \A v \in Workers : v # w => wpc'[v] = wpc[v]
  BY <1>a, <1>1, Zenon DEF WorkerTypes, WorkerInv
<1>4. /\ \A v \in Workers : \A r : Processes(v, r)' <=> (Processes(v, r) /\ v # w)
      /\ \A v \in Workers : \A r : Queues(v, r)' <=> (Queues(v, r) /\ v # w)
  BY <1>1, <1>2, <1>3, Zenon DEF Processes, Queues
<1>5. OneRequestPerStream'
  BY <1>a, <1>4, Zenon DEF OneRequestPerStream
<1>6. WorkerInv(w)'
  BY <1>2, <1>3, Zenon DEF WorkerInv
<1> QED BY <1>1, <1>2, <1>3, <1>4, <1>5, <1>6, WorkerMove, Zenon

LEMMA Notify_PoolInv == ASSUME Types, PoolInv, NotifyWorker PROVE PoolInv'
<1>a. /\ WorkerTypes /\ (\A s \in Streams : FeedInv(s)) /\ OneRequestPerStream
      /\ \A w \in Workers : WorkerInv(w)
  BY Zenon DEF Types, PoolInv
<1>1. UNCHANGED <<fpc, target, chunks, wpc, job, generated, buff>>
  BY Zenon DEF NotifyWorker, ShutdownFrame, handlerVars, workerVars
<1>2. notified \in Workers
  BY Sizes, SMTT(30) DEF NotifyWorker, Types, ShutdownTypes, Workers
<1>3. PICK w \in Workers : w = notified
  BY <1>2, Zenon
<1>4. CASE work' = work
  <2>1. \A v \in Workers : \A s : /\ Processes(v, s)' <=> Processes(v, s)
                                  /\ Queues(v, s)' <=> Queues(v, s)
    BY <1>1, <1>4, Zenon DEF Processes, Queues
  <2>2. WorkerInv(w)'
    BY <1>a, <1>1, <1>4, Zenon DEF WorkerInv
  <2>3. OneRequestPerStream'
    BY <1>a, <2>1, Zenon DEF OneRequestPerStream
  <2>4. \A s \in Streams : Processes(w, s)' => JobInv(w, s)'
    BY <1>a, <1>1, <2>1, Zenon DEF FeedInv, JobInv
  <2>5. \A s \in Streams : Queues(w, s)' => fpc[s] = "recv" /\ chunks'[s] = <<>>
    BY <1>a, <1>1, <2>1, Zenon DEF FeedInv
  <2> QED BY <1>1, <1>4, <2>2, <2>3, <2>4, <2>5, WorkerMove, Zenon
<1>5. CASE Len(work[w]) < 1 /\ work' = [work EXCEPT ![w] = Append(@, Shutdown)]
  <2>1. Shutdown \in WorkRequests /\ Shutdown.stream \notin Streams /\ Shutdown.size = 0
    BY Sizes, ConfigAssumption, Zenon DEF Shutdown, WorkRequests
  <2>2. /\ DOMAIN work'[w] = {1} /\ work'[w][1] = Shutdown
        /\ \A v \in Workers : v # w => work'[v] = work[v]
    BY <1>a, <1>5, <2>1, Enqueued, Zenon
  <2>3. \A v \in Workers : \A s : Processes(v, s)' <=> Processes(v, s)
    BY <1>1, Zenon DEF Processes
  <2>4. /\ \A s \in Streams : ~ Queues(w, s)'
        /\ \A v \in Workers : \A s : v # w => (Queues(v, s)' <=> Queues(v, s))
    BY <2>1, <2>2, Zenon DEF Queues
  <2>5. WorkerInv(w)'
    <3>1. \A i \in DOMAIN work'[w] : work'[w][i] = Shutdown /\ work'[w][i].size <= IdsPerChunk
      BY <2>1, <2>2, Sizes, SMTT(30)
    <3> QED BY <1>a, <1>1, <3>1, Zenon DEF WorkerInv, Shutdown
  <2>6. OneRequestPerStream'
    BY <1>a, <2>3, <2>4, Zenon DEF OneRequestPerStream
  <2>7. \A s \in Streams : Processes(w, s)' => JobInv(w, s)'
    BY <1>a, <1>1, <2>3, Zenon DEF FeedInv, JobInv
  <2> QED BY <1>1, <2>2, <2>4, <2>5, <2>6, <2>7, WorkerMove, Zenon
<1> QED BY <1>3, <1>4, <1>5, Zenon DEF NotifyWorker

LEMMA Next_PoolInv == Types /\ PoolInv /\ [Next]_vars => PoolInv'
<1> SUFFICES ASSUME Types, PoolInv, [Next]_vars PROVE PoolInv'
  BY Zenon
<1>1. CASE UNCHANGED <<wpc, buff, job, work, generated, chunks, fpc, target>>
  <2>1. /\ \A w \in Workers : WorkerInv(w)'
        /\ \A w \in Workers : \A s : /\ Processes(w, s)' <=> Processes(w, s)
                                     /\ Queues(w, s)' <=> Queues(w, s)
        /\ OneRequestPerStream'
    BY <1>1, SameWorkers, Zenon
  <2>2. ASSUME NEW s \in Streams PROVE FeedInv(s)'
    <3>1. FeedInv(s)
      BY Zenon DEF PoolInv
    <3>2. \A w \in Workers : JobInv(w, s) => JobInv(w, s)'
      BY <1>1, Zenon DEF JobInv
    <3> QED BY <1>1, <2>1, <3>1, <3>2, Zenon DEF FeedInv
  <2> QED BY <2>1, <2>2, Zenon DEF PoolInv
<1>2. CASE UNCHANGED vars \/ Terminated
  <2>1. UNCHANGED <<wpc, buff, job, work, generated, chunks, fpc, target>>
    BY <1>2, Zenon DEF Terminated, vars, handlerVars, workerVars
  <2> QED BY <1>1, <2>1, Zenon
<1>3. ASSUME NEW s \in Streams, Client(s) PROVE PoolInv'
  <2>1. UNCHANGED <<wpc, buff, job, work, generated, chunks, fpc, target>>
    BY <1>3, Zenon DEF Client, Read, ReadEnd, Disconnect, ClientFrame, handlerVars, workerVars
  <2> QED BY <1>1, <2>1, Zenon
<1>4. CASE BeginShutdown \/ ShutdownTask
  <2>1. UNCHANGED <<wpc, buff, job, work, generated, chunks, fpc, target>> \/ NotifyWorker
    BY <1>4, Zenon DEF BeginShutdown, ShutdownTask, Drained, DrainTimeout, Cancel, AllNotified,
      AllAcked, AckTimeout, ShutdownFrame, handlerVars, workerVars
  <2> QED BY <1>1, <2>1, Notify_PoolInv, Zenon
<1>5. ASSUME NEW w \in Workers, Worker(w) PROVE PoolInv'
  BY <1>5, RecvWork_PoolInv, Generate_PoolInv, EmitChunk_PoolInv, Flush_PoolInv,
    Leave_PoolInv, Zenon DEF Worker
<1>6. ASSUME NEW s \in Streams, Handler(s) \/ Feed(s) PROVE PoolInv'
  BY <1>6, Handler_PoolInv, Feed_PoolInv, Zenon
<1> QED BY <1>2, <1>3, <1>4, <1>5, <1>6, Zenon DEF Next

LEMMA Next_AckInv == Types /\ PoolInv /\ AckInv /\ [Next]_vars => AckInv'
<1> SUFFICES ASSUME Types, PoolInv, AckInv, [Next]_vars PROVE AckInv'
  BY Zenon
<1>a. /\ wpc \in [Workers -> {"recv", "gen", "emit", "stopping", "stopped", "panicked"}]
      /\ acks \subseteq Workers /\ \A w \in Workers : wpc[w] # "panicked"
  BY Zenon DEF Types, WorkerTypes, ShutdownTypes, PoolInv, WorkerInv
<1>b. /\ \A w \in acks : wpc[w] \in {"stopping", "stopped"}
      /\ spc = "done" => \A w \in Workers : wpc[w] \in {"stopping", "stopped"}
  BY Zenon DEF AckInv, QuietAfterShutdown
<1>1. ASSUME UNCHANGED <<wpc, acks>>, spc' # "done" \/ spc' = spc PROVE AckInv'
  BY <1>b, <1>1, Zenon DEF AckInv, QuietAfterShutdown
<1>2. CASE UNCHANGED vars \/ Terminated
  BY <1>1, <1>2, Zenon DEF Terminated, vars, workerVars, shutdownVars
<1>3. ASSUME NEW s \in Streams, Handler(s) \/ Feed(s) \/ Client(s) PROVE AckInv'
  <2>1. UNCHANGED <<wpc, acks, spc>>
    BY <1>3, Zenon DEF Handler, Request, Admit, Finish, HandlerFrame, Feed, NextChunk,
      AllRequested,
      SendRequest, WorkerGone, RecvChunk, RecvNone, Forward, ClientGone, SurfaceError,
      FeedFrame, Client, Read, ReadEnd, Disconnect, ClientFrame, workerVars, shutdownVars
  <2> QED BY <1>1, <2>1, Zenon
<1>4. CASE AllAcked
  <2>1. /\ UNCHANGED <<wpc, acks>>
        /\ \A w \in Workers : w \in acks \/ wpc[w] \in {"stopped", "panicked"}
    BY <1>4, Zenon DEF AllAcked, RxAlive, ShutdownFrame, workerVars
  <2> QED BY <1>a, <1>b, <2>1, Zenon DEF AckInv, QuietAfterShutdown
<1>5. CASE (BeginShutdown \/ ShutdownTask) /\ ~ AllAcked
  <2>1. UNCHANGED <<wpc, acks>> /\ (spc' # "done" \/ spc' = spc)
    BY <1>5, Zenon DEF BeginShutdown, ShutdownTask, Drained, DrainTimeout, Cancel,
      NotifyWorker,
      AllNotified, AckTimeout, ShutdownFrame, workerVars
  <2> QED BY <1>1, <2>1, Zenon
<1>6. ASSUME NEW w \in Workers, Worker(w) PROVE AckInv'
  <2>1. /\ spc' = spc /\ acks' \in {acks, acks \cup {w}}
        /\ \/ /\ wpc[w] \notin {"stopping", "stopped"} /\ acks' = acks
              /\ \E l : wpc' = [wpc EXCEPT ![w] = l]
           \/ \E l \in {"stopping", "stopped"} : wpc' = [wpc EXCEPT ![w] = l]
    <3>1. CASE RecvShutdown(w) \/ Stop(w)
      BY <3>1, Zenon DEF RecvShutdown, Stop, WorkerFrame, WorkerAt
    <3>2. CASE RecvWork(w) \/ Generate(w) \/ EmitChunk(w) \/ Flush(w)
      <4>1. spc' = spc /\ acks' = acks /\ wpc[w] \in {"recv", "gen", "emit"}
        BY <3>2, Zenon DEF RecvWork, Generate, EmitChunk, Flush, WorkerFrame
      <4>2. \E l : wpc' = [wpc EXCEPT ![w] = l]
        BY <3>2, Zenon DEF RecvWork, Generate, EmitChunk, Flush, WorkerAt
      <4> QED BY <4>1, <4>2, Zenon
    <3> QED BY <1>6, <3>1, <3>2, Zenon DEF Worker
  <2> QED BY <1>a, <1>b, <2>1, Zenon DEF AckInv, QuietAfterShutdown
<1> QED BY <1>2, <1>3, <1>4, <1>5, <1>6, Zenon DEF Next
-----------------------------------------------------------------------------
(* What follows about the pool. *)

\* Requests, chunks and buffers are as PoolInv says in every reachable state.
LEMMA Pool == Spec => [](Types /\ PoolInv /\ AckInv)
<1>1. Init => Types /\ PoolInv /\ AckInv
  BY Init_Types, Init_PoolInv, Zenon
<1>2. (Types /\ PoolInv /\ AckInv) /\ [Next]_vars => (Types /\ PoolInv /\ AckInv)'
  BY Next_Types, Next_PoolInv, Next_AckInv, Zenon
<1> QED BY <1>1, <1>2, PTL DEF Spec

\* The buffer a worker reuses from request to request is empty whenever the
\* worker is not processing one, and its index never runs past the end: no worker
\* panics.
THEOREM BufferEmpty == Spec => []BufferEmptyBetweenRequests
<1>1. PoolInv => BufferEmptyBetweenRequests
  BY Zenon DEF PoolInv, WorkerInv, BufferEmptyBetweenRequests
<1> QED BY <1>1, Pool, PTL

\* A worker with ids to generate or to send finds feed_chunks still holding the
\* receiver and the channel empty: blocking_send never waits and never fails,
\* however slow the clients are.
THEOREM NeverBlocked == Spec => []WorkerNeverBlocked
<1>1. ASSUME Types, PoolInv PROVE WorkerNeverBlocked
  <2> SUFFICES ASSUME NEW w \in Workers, wpc[w] \in {"gen", "emit"},
                      generated[w] < job[w].size \/ buff[w] # <<>>
               PROVE  ChunkRxAlive(job[w].stream) /\ chunks[job[w].stream] = <<>>
    BY Zenon DEF WorkerNeverBlocked
  <2>1. job[w].stream \in Streams
    BY <1>1, Zenon DEF PoolInv, WorkerInv
  <2>2. JobInv(w, job[w].stream)
    BY <1>1, <2>1, Zenon DEF PoolInv, FeedInv, Processes
  <2>3. generated[w] \in Nat /\ job[w].size \in Nat
    BY <1>1, Zenon DEF Types, WorkerTypes, WorkRequests
  <2> QED BY <2>2, <2>3, SMTT(30) DEF JobInv, ChunkRxAlive
<1> QED BY <1>1, Pool, PTL

\* A stream has at most one request with the workers, queued or being processed:
\* its chunks cannot overtake each other.
THEOREM OneRequest == Spec => []OneRequestPerStream
<1>1. PoolInv => OneRequestPerStream
  BY Zenon DEF PoolInv
<1> QED BY <1>1, Pool, PTL

\* When WorkerPool::shutdown has returned Ok every worker has left its loop.
THEOREM Quiet == Spec => []QuietAfterShutdown
<1>1. AckInv => QuietAfterShutdown
  BY Zenon DEF AckInv
<1> QED BY <1>1, Pool, PTL
-----------------------------------------------------------------------------
\* Id x is the i-th of the ids a client has read, a message or chunk waits with
\* (the j-th of its channel), feed_chunks has in its hands, or a worker has in
\* its buffer.
Holds(k, o, j, i, x) ==
  \/ /\ k = "received" /\ o \in Streams /\ j = 0
     /\ i \in DOMAIN received[o] /\ x = received[o][i]
  \/ /\ k = "resp" /\ o \in Streams /\ j \in DOMAIN resp[o]
     /\ i \in DOMAIN resp[o][j].ids /\ x = resp[o][j].ids[i]
  \/ /\ k = "msg" /\ o \in Streams /\ j = 0
     /\ i \in DOMAIN msg[o] /\ x = msg[o][i]
  \/ /\ k = "chunks" /\ o \in Streams /\ j \in DOMAIN chunks[o]
     /\ i \in DOMAIN chunks[o][j] /\ x = chunks[o][j][i]
  \/ /\ k = "buff" /\ o \in Workers /\ j = 0
     /\ i \in DOMAIN buff[o] /\ x = buff[o][i]

\* Id x has been made by the generator of some worker.
Issued(x) == x \in Ids /\ \E w \in Workers : x.machine = Generator(w) /\ x.n < issued[w]

\* Every id anywhere in the server was issued, and is in one place only.
IdInv ==
  /\ \A k, o, j, i, x : Holds(k, o, j, i, x) => Issued(x)
  /\ \A k, o, j, i, l, q, m, h, x :
       Holds(k, o, j, i, x) /\ Holds(l, q, m, h, x) => k = l /\ o = q /\ j = m /\ i = h

\* Positions after Append, Tail and concatenation.
Adds(q, p, n, x) ==
  /\ n \notin DOMAIN q /\ n # 0 /\ p[n] = x
  /\ \A j \in DOMAIN p : j = n \/ (j \in DOMAIN q /\ p[j] = q[j])

LEMMA AppendAt ==
  ASSUME NEW S, NEW q \in Seq(S), NEW x, x \in S, NEW p, p = Append(q, x)
  PROVE  Adds(q, p, Len(q) + 1, x)
  BY DEF Adds

LEMMA TailAt ==
  ASSUME NEW S, NEW q \in Seq(S), q # <<>>, NEW p, p = <<>> \/ p = Tail(q)
  PROVE  \A j \in DOMAIN p : j + 1 \in DOMAIN q /\ j \in Nat \ {0} /\ p[j] = q[j + 1]
  OBVIOUS

LEMMA ConcatAt ==
  ASSUME NEW S, NEW q \in Seq(S), NEW y, y \in Seq(S), NEW n, n = Len(q), NEW p, p = q \o y
  PROVE  /\ n \in Nat
         /\ \A i \in DOMAIN p :
              \/ i \in DOMAIN q /\ p[i] = q[i] /\ i \in 1 .. n
              \/ i - n \in DOMAIN y /\ p[i] = y[i - n] /\ i \in Int /\ i > n
  OBVIOUS

\* The generators of the workers have different machine ids.
LEMMA Generators ==
  ASSUME NEW v \in Workers, NEW w \in Workers, Generator(v) = Generator(w) PROVE v = w
<1> DEFINE a == ShardOffset + v
           b == ShardOffset + w
           M == MachineIds
           c == a \div M
           d == b \div M
<1>1. M \in Nat /\ M > 0 /\ a \in Nat /\ b \in Nat /\ b - a < M /\ a - b < M
  BY ConfigAssumption DEF Workers
<1>2. a % M = b % M
  BY Zenon DEF Generator
<1> HIDE DEF a, b, M
<1>3. a = M * c + (a % M) /\ c \in Int /\ a % M \in 0 .. M - 1
  BY <1>1
<1>4. b = M * d + (b % M) /\ d \in Int
  BY <1>1
<1> HIDE DEF c, d
<1>5. b - a = M * (d - c)
  BY <1>1, <1>2, <1>3, <1>4
<1>6. d - c < 1
  <2>1. SUFFICES ASSUME d - c >= 1 PROVE M * (d - c) >= M
    BY <1>1, <1>3, <1>4, <1>5
  <2> QED BY <1>1, <1>3, <1>4, <2>1
<1>7. d - c > -1
  <2>1. SUFFICES ASSUME c - d >= 1 PROVE M * (c - d) >= M
    BY <1>1, <1>3, <1>4, <1>5
  <2> QED BY <1>1, <1>3, <1>4, <2>1
<1>8. a = b
  BY <1>1, <1>3, <1>4, <1>5, <1>6, <1>7
<1> QED BY <1>8, ConfigAssumption DEF a, b, Workers

LEMMA Init_IdInv == Init => IdInv
<1> SUFFICES ASSUME Init PROVE IdInv
  BY Zenon
<1>1. /\ \A s \in Streams : /\ received[s] = <<>> /\ resp[s] = <<>>
                            /\ msg[s] = <<>> /\ chunks[s] = <<>>
      /\ \A w \in Workers : buff[w] = <<>>
  BY Zenon DEF Init
<1>2. \A k, o, j, i, x : ~ Holds(k, o, j, i, x)
  BY <1>1 DEF Holds
<1> QED BY <1>2, ZenonT(40) DEF IdInv

\* No action but Generate issues an id.
LEMMA SameIssued ==
  ASSUME UNCHANGED issued, NEW x, Issued(x) PROVE Issued(x)'
  BY Zenon DEF Issued

\* Ids may be dropped anywhere.
LEMMA Fewer_IdInv ==
  ASSUME IdInv, UNCHANGED issued,
         \A k, o, j, i, x : Holds(k, o, j, i, x)' => Holds(k, o, j, i, x)
  PROVE  IdInv'
  BY SameIssued DEF IdInv

\* The steps that move ids: each leaves its old place for one new place.
LEMMA RecvChunk_IdInv ==
  ASSUME Types, IdInv, NEW s \in Streams, RecvChunk(s) PROVE IdInv'
<1>1. /\ chunks[s] # <<>> /\ UNCHANGED <<received, resp, buff, issued>>
      /\ msg' = [msg EXCEPT ![s] = Head(chunks[s])]
      /\ chunks' = [chunks EXCEPT ![s] = Tail(@)]
  BY Zenon DEF RecvChunk, FeedFrame, clientVars, workerVars
<1>2. /\ msg'[s] = chunks[s][1] /\ 1 \in DOMAIN chunks[s]
      /\ \A j \in DOMAIN chunks'[s] : /\ j + 1 \in DOMAIN chunks[s] /\ j \in Nat \ {0}
                                      /\ chunks'[s][j] = chunks[s][j + 1]
      /\ \A r \in Streams \ {s} : msg'[r] = msg[r] /\ chunks'[r] = chunks[r]
  <2>1. msg \in [Streams -> Seq(Ids)] /\ chunks \in [Streams -> Seq(Seq(Ids))]
    BY Zenon DEF Types, FeedTypes
  <2> QED BY <1>1, <2>1, SMTT(30)
<1>3. ASSUME NEW k, NEW o, NEW j, NEW i, NEW x, Holds(k, o, j, i, x)'
      PROVE  \/ k = "msg" /\ o = s /\ j = 0 /\ Holds("chunks", s, 1, i, x)
             \/ k = "chunks" /\ o = s /\ j \in Nat \ {0} /\ Holds("chunks", s, j + 1, i, x)
             \/ /\ ~ (k = "msg" /\ o = s) /\ ~ (k = "chunks" /\ o = s)
                /\ Holds(k, o, j, i, x)
  BY <1>1, <1>2, <1>3 DEF Holds
<1>4. ASSUME NEW k, NEW o, NEW j, NEW i, NEW x, Holds(k, o, j, i, x)' PROVE Issued(x)'
  BY <1>1, <1>3, <1>4, SameIssued DEF IdInv
<1>5. ASSUME NEW k, NEW o, NEW j, NEW i, NEW l, NEW q, NEW m, NEW h, NEW x,
             Holds(k, o, j, i, x)', Holds(l, q, m, h, x)'
      PROVE  k = l /\ o = q /\ j = m /\ i = h
  BY <1>3, <1>5 DEF IdInv
<1> QED BY <1>4, <1>5 DEF IdInv

LEMMA Forward_IdInv ==
  ASSUME Types, IdInv, NEW s \in Streams, Forward(s) PROVE IdInv'
<1>1. /\ UNCHANGED <<received, chunks, buff, issued>>
      /\ resp' = [resp EXCEPT ![s] = Append(@, [err |-> FALSE, ids |-> msg[s]])]
      /\ msg' = [msg EXCEPT ![s] = <<>>]
  BY Zenon DEF Forward, FeedFrame, ToClient, clientVars, workerVars
<1> DEFINE n == Len(resp[s]) + 1
<1>2. /\ msg'[s] = <<>>
      /\ n \notin DOMAIN resp[s] /\ n # 0 /\ resp'[s][n].ids = msg[s]
      /\ \A j \in DOMAIN resp'[s] :
           j = n \/ (j \in DOMAIN resp[s] /\ resp'[s][j] = resp[s][j])
      /\ \A r \in Streams \ {s} : msg'[r] = msg[r] /\ resp'[r] = resp[r]
  <2>1. /\ msg \in [Streams -> Seq(Ids)]
        /\ resp \in [Streams -> Seq([err : BOOLEAN, ids : Seq(Ids)])]
    BY Zenon DEF Types, FeedTypes, ClientTypes
  <2> DEFINE z == [err |-> FALSE, ids |-> msg[s]]
  <2>2. z \in [err : BOOLEAN, ids : Seq(Ids)] /\ z.ids = msg[s]
    BY <2>1, Zenon
  <2>3. resp'[s] = Append(resp[s], z) /\ msg'[s] = <<>>
    BY <1>1, <2>1, Zenon
  <2>4. \A r \in Streams \ {s} : msg'[r] = msg[r] /\ resp'[r] = resp[r]
    BY <1>1, <2>1, Zenon
  <2>5. resp[s] \in Seq([err : BOOLEAN, ids : Seq(Ids)])
    BY <2>1, Zenon
  <2> HIDE DEF z
  <2>6. /\ n \notin DOMAIN resp[s] /\ n # 0 /\ resp'[s][n] = z
        /\ \A j \in DOMAIN resp'[s] :
             j = n \/ (j \in DOMAIN resp[s] /\ resp'[s][j] = resp[s][j])
    <3>1. Adds(resp[s], resp'[s], n, z)
      BY <2>2, <2>3, <2>5, AppendAt, Zenon
    <3> HIDE DEF n
    <3> QED BY <3>1, Zenon DEF Adds
  <2> HIDE DEF n
  <2> QED BY <2>2, <2>3, <2>4, <2>6, Zenon
<1> HIDE DEF n
<1>3. ASSUME NEW k, NEW o, NEW j, NEW i, NEW x, Holds(k, o, j, i, x)'
      PROVE  \/ k = "resp" /\ o = s /\ j = n /\ Holds("msg", s, 0, i, x)
             \/ /\ ~ (k = "resp" /\ o = s /\ j = n) /\ ~ (k = "msg" /\ o = s)
                /\ Holds(k, o, j, i, x)
  BY <1>1, <1>2, <1>3 DEF Holds
<1>4. ASSUME NEW k, NEW o, NEW j, NEW i, NEW x, Holds(k, o, j, i, x)' PROVE Issued(x)'
  BY <1>1, <1>3, <1>4, SameIssued DEF IdInv
<1>5. ASSUME NEW k, NEW o, NEW j, NEW i, NEW l, NEW q, NEW m, NEW h, NEW x,
             Holds(k, o, j, i, x)', Holds(l, q, m, h, x)'
      PROVE  k = l /\ o = q /\ j = m /\ i = h
  BY <1>3, <1>5 DEF IdInv
<1> QED BY <1>4, <1>5 DEF IdInv

LEMMA Read_IdInv ==
  ASSUME Types, IdInv, NEW s \in Streams, Read(s) PROVE IdInv'
<1>1. /\ UNCHANGED <<msg, chunks, buff, issued>> /\ resp[s] # <<>>
      /\ resp' = [resp EXCEPT ![s] = IF Head(resp[s]).err THEN <<>> ELSE Tail(@)]
      /\ received' = [received EXCEPT ![s] = @ \o Head(resp[s]).ids]
  BY Zenon DEF Read, ClientFrame, handlerVars, workerVars
<1>a. /\ received \in [Streams -> Seq(Ids)]
      /\ resp \in [Streams -> Seq([err : BOOLEAN, ids : Seq(Ids)])]
  BY Zenon DEF Types, ClientTypes
<1> DEFINE n == Len(received[s])
           y == Head(resp[s]).ids
<1>2. y = resp[s][1].ids /\ 1 \in DOMAIN resp[s] /\ y \in Seq(Ids)
  <2>1. resp[s] \in Seq([err : BOOLEAN, ids : Seq(Ids)])
    BY <1>a, Zenon
  <2>2. /\ Head(resp[s]) = resp[s][1] /\ 1 \in DOMAIN resp[s]
        /\ Head(resp[s]) \in [err : BOOLEAN, ids : Seq(Ids)]
    BY <1>1, <2>1, SeqTail, Zenon
  <2> QED BY <2>2, Zenon
<1>3. /\ n \in Nat
      /\ \A i \in DOMAIN received'[s] :
           \/ i \in DOMAIN received[s] /\ received'[s][i] = received[s][i] /\ i \in 1 .. n
           \/ i - n \in DOMAIN y /\ received'[s][i] = y[i - n] /\ i \in Int /\ i > n
  <2>1. received'[s] = received[s] \o y /\ received[s] \in Seq(Ids)
    BY <1>1, <1>a, Zenon
  <2>2. n = Len(received[s]) /\ y \in Seq(Ids)
    BY <1>2, Zenon
  <2> HIDE DEF n, y
  <2> QED BY <2>1, <2>2, ConcatAt
<1>4. /\ \A j \in DOMAIN resp'[s] : /\ j + 1 \in DOMAIN resp[s] /\ j \in Nat \ {0}
                                    /\ resp'[s][j] = resp[s][j + 1]
      /\ \A r \in Streams \ {s} : resp'[r] = resp[r] /\ received'[r] = received[r]
  <2>1. resp'[s] = <<>> \/ resp'[s] = Tail(resp[s])
    BY <1>1, <1>a, Zenon
  <2>2. \A r \in Streams \ {s} : resp'[r] = resp[r] /\ received'[r] = received[r]
    BY <1>1, <1>a, Zenon
  <2>3. resp[s] \in Seq([err : BOOLEAN, ids : Seq(Ids)])
    BY <1>a, Zenon
  <2>4. \A j \in DOMAIN resp'[s] : /\ j + 1 \in DOMAIN resp[s] /\ j \in Nat \ {0}
                                    /\ resp'[s][j] = resp[s][j + 1]
    BY <1>1, <2>1, <2>3, TailAt, ZenonT(40)
  <2> QED BY <2>2, <2>4, Zenon
<1> HIDE DEF n, y
<1>5. ASSUME NEW k, NEW o, NEW j, NEW i, NEW x, Holds(k, o, j, i, x)'
      PROVE  \/ /\ k = "received" /\ o = s /\ j = 0 /\ i \in Int /\ i > n
                /\ Holds("resp", s, 1, i - n, x)
             \/ /\ k = "received" /\ o = s /\ j = 0 /\ i \in 1 .. n
                /\ Holds("received", s, 0, i, x)
             \/ k = "resp" /\ o = s /\ j \in Nat \ {0} /\ Holds("resp", s, j + 1, i, x)
             \/ /\ ~ (k = "received" /\ o = s) /\ ~ (k = "resp" /\ o = s)
                /\ Holds(k, o, j, i, x)
  <2>1. UNCHANGED <<msg, chunks, buff>>
    BY <1>1, Zenon
  <2>2. CASE k = "received" /\ o = s
    <3>1. j = 0 /\ i \in DOMAIN received'[s] /\ x = received'[s][i]
      BY <1>5, <2>2, Zenon DEF Holds
    <3>2. CASE i \in DOMAIN received[s] /\ received'[s][i] = received[s][i] /\ i \in 1 .. n
      BY <2>2, <3>1, <3>2, Zenon DEF Holds
    <3>3. CASE i - n \in DOMAIN y /\ received'[s][i] = y[i - n] /\ i \in Int /\ i > n
      BY <1>2, <2>2, <3>1, <3>3, Zenon DEF Holds
    <3> QED BY <1>3, <3>1, <3>2, <3>3, Zenon
  <2>3. CASE k = "resp" /\ o = s
    BY <1>4, <1>5, <2>3, ZenonT(40) DEF Holds
  <2>4. CASE ~ (k = "received" /\ o = s) /\ ~ (k = "resp" /\ o = s)
    <3>1. \A r \in Streams \ {s} : resp'[r] = resp[r] /\ received'[r] = received[r]
      BY <1>4, Zenon
    <3> QED BY <1>5, <2>1, <2>4, <3>1 DEF Holds
  <2> QED BY <2>2, <2>3, <2>4, Zenon
<1>6. ASSUME NEW k, NEW o, NEW j, NEW i, NEW x, Holds(k, o, j, i, x)' PROVE Issued(x)'
  BY <1>1, <1>5, <1>6, SameIssued, SMTT(30) DEF IdInv
<1>7. ASSUME NEW k, NEW o, NEW j, NEW i, NEW l, NEW q, NEW m, NEW h, NEW x,
             Holds(k, o, j, i, x)', Holds(l, q, m, h, x)'
      PROVE  k = l /\ o = q /\ j = m /\ i = h
  BY <1>3, <1>5, <1>7 DEF IdInv
<1> QED BY <1>6, <1>7 DEF IdInv

LEMMA Sent_IdInv ==
  ASSUME Types, IdInv, NEW w \in Workers, NEW s \in Streams,
         UNCHANGED <<received, resp, msg, issued>>,
         chunks' = [chunks EXCEPT ![s] = Append(@, buff[w])],
         buff' = [buff EXCEPT ![w] = <<>>]
  PROVE  IdInv'
<1> DEFINE n == Len(chunks[s]) + 1
<1>2. /\ buff'[w] = <<>>
      /\ n \notin DOMAIN chunks[s] /\ n # 0 /\ chunks'[s][n] = buff[w]
      /\ \A j \in DOMAIN chunks'[s] :
           j = n \/ (j \in DOMAIN chunks[s] /\ chunks'[s][j] = chunks[s][j])
      /\ \A r \in Streams \ {s} : chunks'[r] = chunks[r]
      /\ \A v \in Workers \ {w} : buff'[v] = buff[v]
  <2>1. buff \in [Workers -> Seq(Ids)] /\ chunks \in [Streams -> Seq(Seq(Ids))]
    BY Zenon DEF Types, FeedTypes, WorkerTypes
  <2>2. chunks'[s] = Append(chunks[s], buff[w]) /\ buff'[w] = <<>>
    BY <2>1, Zenon
  <2>3. /\ \A r \in Streams \ {s} : chunks'[r] = chunks[r]
        /\ \A v \in Workers \ {w} : buff'[v] = buff[v]
    BY <2>1, Zenon
  <2>4. chunks[s] \in Seq(Seq(Ids)) /\ buff[w] \in Seq(Ids)
    BY <2>1, Zenon
  <2>5. /\ n \notin DOMAIN chunks[s] /\ n # 0 /\ chunks'[s][n] = buff[w]
        /\ \A j \in DOMAIN chunks'[s] :
             j = n \/ (j \in DOMAIN chunks[s] /\ chunks'[s][j] = chunks[s][j])
    <3>1. Adds(chunks[s], chunks'[s], n, buff[w])
      BY <2>2, <2>4, AppendAt, Zenon
    <3> HIDE DEF n
    <3> QED BY <3>1, Zenon DEF Adds
  <2> HIDE DEF n
  <2> QED BY <2>2, <2>3, <2>5, Zenon
<1> HIDE DEF n
<1>3. ASSUME NEW k, NEW o, NEW j, NEW i, NEW x, Holds(k, o, j, i, x)'
      PROVE  \/ k = "chunks" /\ o = s /\ j = n /\ Holds("buff", w, 0, i, x)
             \/ /\ ~ (k = "chunks" /\ o = s /\ j = n) /\ ~ (k = "buff" /\ o = w)
                /\ Holds(k, o, j, i, x)
  BY <1>2, <1>3 DEF Holds
<1>4. ASSUME NEW k, NEW o, NEW j, NEW i, NEW x, Holds(k, o, j, i, x)' PROVE Issued(x)'
  BY <1>3, <1>4, SameIssued DEF IdInv
<1>5. ASSUME NEW k, NEW o, NEW j, NEW i, NEW l, NEW q, NEW m, NEW h, NEW x,
             Holds(k, o, j, i, x)', Holds(l, q, m, h, x)'
      PROVE  k = l /\ o = q /\ j = m /\ i = h
  BY <1>3, <1>5 DEF IdInv
<1> QED BY <1>4, <1>5 DEF IdInv

\* A fresh id is nobody's: the machine ids of the workers are different.
LEMMA Generate_IdInv ==
  ASSUME Types, IdInv, NEW w \in Workers, Generate(w) PROVE IdInv'
<1>a. /\ issued \in [Workers -> Nat] /\ buff \in [Workers -> Seq(Ids)]
      /\ issued[w] \in Nat /\ buff[w] \in Seq(Ids) /\ poll_id(w) \in Ids
  BY NewId, Zenon DEF Types, WorkerTypes
<1>1. /\ UNCHANGED <<received, resp, msg, chunks>>
      /\ issued' = [issued EXCEPT ![w] = @ + 1]
      /\ UNCHANGED buff \/ buff' = [buff EXCEPT ![w] = Append(@, poll_id(w))]
  BY Zenon DEF Generate, WorkerFrame, handlerVars, clientVars
<1>p. PICK z \in Ids : z = poll_id(w)
  BY <1>a, Zenon
<1> DEFINE n == Len(buff[w]) + 1
<1>2. z.machine = Generator(w) /\ z.n = issued[w]
  BY <1>p, Zenon DEF poll_id
<1>3. issued'[w] = issued[w] + 1 /\ \A v \in Workers \ {w} : issued'[v] = issued[v]
  BY <1>a, <1>1, Zenon
<1>4. ~ Issued(z) /\ Issued(z)'
  <2>1. Issued(z)'
    BY <1>a, <1>2, <1>3 DEF Issued, Generator
  <2>2. ASSUME NEW v \in Workers, z.machine = Generator(v), z.n < issued[v] PROVE FALSE
    <3>1. v = w
      BY <1>2, <2>2, Generators, Zenon
    <3> QED BY <1>a, <1>2, <2>2, <3>1
  <2> QED BY <2>1, <2>2, Zenon DEF Issued
<1>5. ASSUME NEW x, Issued(x) PROVE Issued(x)'
  <2>1. PICK v \in Workers : x.machine = Generator(v) /\ x.n < issued[v]
    BY <1>5, Zenon DEF Issued
  <2>2. x \in Ids /\ x.n \in Nat
    BY <1>5, Zenon DEF Issued, Ids
  <2>3. x.n < issued'[v]
    <3>1. issued[v] \in Nat /\ (issued'[v] = issued[v] \/ issued'[v] = issued[v] + 1)
      BY <1>a, <1>3, Zenon
    <3> QED BY <2>1, <2>2, <3>1
  <2> QED BY <2>1, <2>2, <2>3, Zenon DEF Issued, Generator
<1> HIDE DEF n
<1>6. ASSUME NEW k, NEW o, NEW j, NEW i, NEW x, Holds(k, o, j, i, x)'
      PROVE  \/ k = "buff" /\ o = w /\ j = 0 /\ i = n /\ x = z
             \/ Holds(k, o, j, i, x)
  <2>1. CASE UNCHANGED buff
    BY <1>1, <1>6, <2>1, Zenon DEF Holds
  <2>2. CASE buff' = [buff EXCEPT ![w] = Append(@, z)]
    <3>1. /\ buff'[w] = Append(buff[w], z)
          /\ \A v \in Workers \ {w} : buff'[v] = buff[v]
      BY <1>a, <2>2, Zenon
    <3>2. /\ n \notin DOMAIN buff[w] /\ buff'[w][n] = z
          /\ \A h \in DOMAIN buff'[w] :
               h = n \/ (h \in DOMAIN buff[w] /\ buff'[w][h] = buff[w][h])
      <4>1. Adds(buff[w], buff'[w], n, z)
        BY <1>a, <1>p, <3>1, AppendAt, Zenon DEF n
      <4> QED BY <4>1, Zenon DEF Adds
    <3>3. UNCHANGED <<received, resp, msg, chunks>>
      BY <1>1, Zenon
    <3>4. CASE k = "buff" /\ o = w
      BY <1>6, <3>2, <3>4, Zenon DEF Holds
    <3>5. CASE ~ (k = "buff" /\ o = w)
      BY <1>6, <3>1, <3>3, <3>5, Zenon DEF Holds
    <3> QED BY <3>4, <3>5, Zenon
  <2> QED BY <1>1, <1>p, <2>1, <2>2, Zenon
<1>7. ASSUME NEW k, NEW o, NEW j, NEW i, NEW x, Holds(k, o, j, i, x)' PROVE Issued(x)'
  BY <1>4, <1>5, <1>6, <1>7 DEF IdInv
<1>8. \A k, o, j, i : ~ Holds(k, o, j, i, z)
  BY <1>4, Zenon DEF IdInv
<1>9. ASSUME NEW k, NEW o, NEW j, NEW i, NEW l, NEW q, NEW m, NEW h, NEW x,
             Holds(k, o, j, i, x)', Holds(l, q, m, h, x)'
      PROVE  k = l /\ o = q /\ j = m /\ i = h
  BY <1>6, <1>8, <1>9 DEF IdInv
<1> QED BY <1>7, <1>9 DEF IdInv

\* Steps that touch no id.
LEMMA SameIds_IdInv ==
  ASSUME IdInv, UNCHANGED <<received, resp, msg, chunks, buff, issued>> PROVE IdInv'
<1>1. \A k, o, j, i, x : Holds(k, o, j, i, x)' => Holds(k, o, j, i, x)
  BY DEF Holds
<1> QED BY <1>1, Fewer_IdInv, Zenon

LEMMA Feed_IdInv == ASSUME Types, IdInv, NEW s \in Streams, Feed(s) PROVE IdInv'
<1>1. CASE RecvChunk(s)
  BY <1>1, RecvChunk_IdInv, Zenon
<1>2. CASE Forward(s)
  BY <1>2, Forward_IdInv, Zenon
<1>3. CASE ClientGone(s)
  <2>1. /\ UNCHANGED <<received, resp, buff, issued>>
        /\ msg' = [msg EXCEPT ![s] = <<>>] /\ chunks' = [chunks EXCEPT ![s] = <<>>]
    BY <1>3, Zenon DEF ClientGone, FeedFrame, clientVars, workerVars
  <2>2. msg \in [Streams -> Seq(Ids)] /\ chunks \in [Streams -> Seq(Seq(Ids))]
    BY Zenon DEF Types, FeedTypes
  <2>3. /\ DOMAIN msg'[s] = {} /\ DOMAIN chunks'[s] = {}
        /\ \A r \in Streams \ {s} : msg'[r] = msg[r] /\ chunks'[r] = chunks[r]
    BY <2>1, <2>2
  <2>4. UNCHANGED <<received, resp, buff>>
    BY <2>1, Zenon
  <2>5. \A k, o, j, i, x : Holds(k, o, j, i, x)' => Holds(k, o, j, i, x)
    BY <2>3, <2>4 DEF Holds
  <2> QED BY <2>1, <2>5, Fewer_IdInv, Zenon
<1>4. CASE SurfaceError(s)
  <2>1. /\ UNCHANGED <<received, msg, chunks, buff, issued>>
        /\ resp' = [resp EXCEPT ![s] = Append(@, [err |-> TRUE, ids |-> <<>>])]
    BY <1>4, Zenon DEF SurfaceError, ToClient, FeedFrame, clientVars, workerVars
  <2> DEFINE z == [err |-> TRUE, ids |-> <<>>]
             n == Len(resp[s]) + 1
  <2>2. /\ resp'[s] = Append(resp[s], z) /\ z.ids = <<>>
        /\ z \in [err : BOOLEAN, ids : Seq(Ids)]
        /\ resp[s] \in Seq([err : BOOLEAN, ids : Seq(Ids)])
        /\ \A r \in Streams \ {s} : resp'[r] = resp[r]
    <3>1. resp \in [Streams -> Seq([err : BOOLEAN, ids : Seq(Ids)])]
      BY Zenon DEF Types, ClientTypes
    <3>2. <<>> \in Seq(Ids)
      BY SMTT(30)
    <3> QED BY <2>1, <3>1, <3>2, Zenon
  <2> HIDE DEF z
  <2>3. /\ resp'[s][n] = z
        /\ \A j \in DOMAIN resp'[s] :
             j = n \/ (j \in DOMAIN resp[s] /\ resp'[s][j] = resp[s][j])
    <3>1. Adds(resp[s], resp'[s], n, z)
      BY <2>2, AppendAt, Zenon
    <3> HIDE DEF n
    <3> QED BY <3>1, Zenon DEF Adds
  <2> HIDE DEF n
  <2>4. UNCHANGED <<received, msg, chunks, buff>>
    BY <2>1, Zenon
  <2>5. \A k, o, j, i, x : Holds(k, o, j, i, x)' => Holds(k, o, j, i, x)
    <3>1. resp'[s][n].ids = <<>> /\ \A r \in Streams \ {s} : resp'[r] = resp[r]
      BY <2>2, <2>3, Zenon
    <3>2. \A j \in DOMAIN resp'[s] :
            j = n \/ (j \in DOMAIN resp[s] /\ resp'[s][j] = resp[s][j])
      BY <2>3, Zenon
    <3> QED BY <2>4, <3>1, <3>2 DEF Holds
  <2> QED BY <2>1, <2>5, Fewer_IdInv, Zenon
<1>5. CASE NextChunk(s) \/ AllRequested(s) \/ SendRequest(s) \/ WorkerGone(s) \/ RecvNone(s)
  <2>1. UNCHANGED <<received, resp, msg, chunks, buff, issued>>
    BY <1>5, Zenon DEF NextChunk, AllRequested, SendRequest, WorkerGone, RecvNone, FeedFrame,
      clientVars, workerVars
  <2> QED BY <2>1, SameIds_IdInv, Zenon
<1> QED BY <1>1, <1>2, <1>3, <1>4, <1>5, Zenon DEF Feed

LEMMA Client_IdInv == ASSUME Types, IdInv, NEW s \in Streams, Client(s) PROVE IdInv'
<1>1. CASE Read(s)
  BY <1>1, Read_IdInv, Zenon
<1>2. CASE ReadEnd(s)
  <2>1. UNCHANGED <<received, resp, msg, chunks, buff, issued>>
    BY <1>2, Zenon DEF ReadEnd, ClientFrame, handlerVars, workerVars
  <2> QED BY <2>1, SameIds_IdInv, Zenon
<1>3. CASE Disconnect(s)
  <2>1. /\ UNCHANGED <<received, msg, chunks, buff, issued>>
        /\ resp' = [resp EXCEPT ![s] = <<>>]
    BY <1>3, Zenon DEF Disconnect, ClientFrame, handlerVars, workerVars
  <2>2. resp \in [Streams -> Seq([err : BOOLEAN, ids : Seq(Ids)])]
    BY Zenon DEF Types, ClientTypes
  <2>3. DOMAIN resp'[s] = {} /\ \A r \in Streams \ {s} : resp'[r] = resp[r]
    BY <2>1, <2>2
  <2>4. UNCHANGED <<received, msg, chunks, buff>>
    BY <2>1, ZenonT(40)
  <2>5. \A k, o, j, i, x : Holds(k, o, j, i, x)' => Holds(k, o, j, i, x)
    BY <2>3, <2>4 DEF Holds
  <2> QED BY <2>1, <2>5, Fewer_IdInv, Zenon
<1> QED BY <1>1, <1>2, <1>3, Zenon DEF Client

LEMMA Worker_IdInv ==
  ASSUME Types, PoolInv, IdInv, NEW w \in Workers, Worker(w) PROVE IdInv'
<1>1. CASE Generate(w)
  BY <1>1, Generate_IdInv, Zenon
<1>2. CASE EmitChunk(w) \/ Flush(w)
  <2>1. job[w].stream \in Streams
    BY <1>2, Zenon DEF PoolInv, WorkerInv, EmitChunk, Flush
  <2>2. /\ UNCHANGED <<received, resp, msg, issued>>
        /\ \/ UNCHANGED <<chunks, buff>>
           \/ /\ chunks' = [chunks EXCEPT ![job[w].stream] = Append(@, buff[w])]
              /\ buff' = [buff EXCEPT ![w] = <<>>]
    BY <1>2, Zenon DEF EmitChunk, Flush, WorkerFrame, handlerVars, clientVars
  <2> QED BY <2>1, <2>2, Sent_IdInv, SameIds_IdInv, Zenon
<1>3. CASE RecvWork(w) \/ RecvShutdown(w) \/ Stop(w)
  <2>1. UNCHANGED <<received, resp, msg, chunks, buff, issued>>
    BY <1>3, Zenon DEF RecvWork, RecvShutdown, Stop, WorkerFrame, handlerVars, clientVars
  <2> QED BY <2>1, SameIds_IdInv, Zenon
<1> QED BY <1>1, <1>2, <1>3, Zenon DEF Worker

LEMMA Next_IdInv == Types /\ PoolInv /\ IdInv /\ [Next]_vars => IdInv'
<1> SUFFICES ASSUME Types, PoolInv, IdInv, [Next]_vars PROVE IdInv'
  BY Zenon
<1>1. ASSUME NEW s \in Streams, Handler(s)
      PROVE  UNCHANGED <<received, resp, msg, chunks, buff, issued>>
  BY <1>1, Zenon DEF Handler, Request, Admit, Finish, HandlerFrame, workerVars
<1>2. CASE BeginShutdown \/ ShutdownTask
  <2>1. UNCHANGED <<received, resp, msg, chunks, buff, issued>>
    BY <1>2, Zenon DEF BeginShutdown, ShutdownTask, Drained, DrainTimeout, Cancel,
      NotifyWorker, AllNotified, AllAcked, AckTimeout, ShutdownFrame, handlerVars, clientVars,
      workerVars
  <2> QED BY <2>1, SameIds_IdInv, Zenon
<1>3. CASE UNCHANGED vars \/ Terminated
  <2>1. UNCHANGED <<received, resp, msg, chunks, buff, issued>>
    BY <1>3, Zenon DEF Terminated, vars, handlerVars, clientVars, workerVars
  <2> QED BY <2>1, SameIds_IdInv, Zenon
<1> QED BY <1>1, <1>2, <1>3, SameIds_IdInv, Feed_IdInv, Client_IdInv, Worker_IdInv, Zenon
  DEF Next

\* No id reaches clients twice, within a stream or in different streams: the
\* workers' machine ids differ and a chunk is handed on, never copied.
THEOREM NoDuplicates == Spec => []NoDuplicateIds
<1>1. Init => Types /\ PoolInv /\ IdInv
  BY Init_Types, Init_PoolInv, Init_IdInv, Zenon
<1>2. (Types /\ PoolInv /\ IdInv) /\ [Next]_vars => (Types /\ PoolInv /\ IdInv)'
  BY Next_Types, Next_PoolInv, Next_IdInv, Zenon
<1>3. IdInv => NoDuplicateIds
  <2> SUFFICES ASSUME IdInv, NEW s \in Streams, NEW r \in Streams,
                      NEW i \in DOMAIN received[s], NEW j \in DOMAIN received[r],
                      received[s][i] = received[r][j]
               PROVE  s = r /\ i = j
    BY Zenon DEF NoDuplicateIds
  <2>1. /\ Holds("received", s, 0, i, received[s][i])
        /\ Holds("received", r, 0, j, received[s][i])
    BY Zenon DEF Holds
  <2> QED BY <2>1, Zenon DEF IdInv
<1> QED BY <1>1, <1>2, <1>3, PTL DEF Spec
-----------------------------------------------------------------------------
\* The n values of q are the elements of S, each once.
Enumerates(q, n, S) ==
  /\ q \in [1 .. n -> S]
  /\ \A i \in 1 .. n : \A j \in 1 .. n : q[i] = q[j] => i = j
  /\ \A x \in S : \E i \in 1 .. n : q[i] = x

\* What counting needs of the sizes of finite sets; it is taken from the
\* library of theorems at the end of this module.
SizeFacts ==
  /\ IsFiniteSet({}) /\ Cardinality({}) = 0
  /\ \A S : IsFiniteSet(S) => Cardinality(S) \in Nat
  /\ \A S, x : IsFiniteSet(S) /\ x \notin S =>
       IsFiniteSet(S \cup {x}) /\ Cardinality(S \cup {x}) = Cardinality(S) + 1
  /\ \A S, q : \A n \in Nat : Enumerates(q, n, S) => Cardinality(S) = n

\* Counting one element more.
LEMMA SizeAdd ==
  ASSUME SizeFacts, NEW S, NEW x, NEW T, IsFiniteSet(S), x \notin S, T = S \cup {x}
  PROVE  IsFiniteSet(T) /\ Cardinality(T) = Cardinality(S) + 1 /\ Cardinality(S) \in Nat
  BY ZenonT(40) DEF SizeFacts

\* The ids of a sequence, of a message, of the messages and of the chunks in a
\* channel, and of the buffer of the worker that processes a request of s.
Elems(q) == {q[i] : i \in DOMAIN q}

IdsIn(m) == m.ids

InMessages(q) == UNION {Elems(IdsIn(q[j])) : j \in DOMAIN q}

InChunks(q) == UNION {Elems(q[j]) : j \in DOMAIN q}

InBuffer(s) == UNION {Elems(buff[w]) : w \in {v \in Workers : Processes(v, s)}}

\* The ids made for stream s, wherever they are.
IdsFor(s) ==
  Elems(received[s]) \cup InMessages(resp[s]) \cup Elems(msg[s]) \cup InChunks(chunks[s])
    \cup InBuffer(s)

\* With n ids of the current request still to be made, none is missing.
Balance(s, n) == Cardinality(IdsFor(s)) + n + remaining[s] = total[s]

\* Before the token is cancelled no worker has been told to stop.
OrderInv ==
  ~ cancelled => /\ spc \in {"running", "drain", "cancel"}
                 /\ \A w \in Workers : /\ wpc[w] \notin {"stopping", "stopped"}
                                       /\ \A i \in DOMAIN work[w] : work[w][i] # Shutdown

\* Nothing happens to a stream before its request is admitted.
StartInv(s) ==
  fpc[s] \in {"new", "checked"} =>
    outcome[s] = "none" /\ received[s] = <<>> /\ resp[s] = <<>> /\ msg[s] = <<>>

\* For an open stream the ids made, those its current request still asks for,
\* wherever that request is (with feed_chunks, in a queue, with a worker), and
\* those not requested yet add up to the total.
CountInv(s) ==
  outcome[s] = "open" =>
    /\ fpc[s] # "senderr"
    /\ fpc[s] \in {"finish", "done"} => remaining[s] = 0
    /\ msg[s] # <<>> => fpc[s] = "forward"
    /\ IsFiniteSet(IdsFor(s))
    /\ fpc[s] = "send" => Balance(s, target[s].size)
    /\ \A w \in Workers : Queues(w, s) => Balance(s, work[w][1].size)
    /\ \A w \in Workers :
         Processes(w, s) => /\ fpc[s] \in {"recv", "forward"}
                            /\ generated[w] <= job[w].size
                            /\ Balance(s, job[w].size - generated[w])
    /\ fpc[s] # "send" /\ ~ ChunkTxAlive(s) => Balance(s, 0)

\* A stream that has ended without an error has all its ids.
EndInv(s) == outcome[s] = "ended" => Len(received[s]) = total[s]

StreamInv(s) == StartInv(s) /\ (~ cancelled => CountInv(s) /\ EndInv(s))

\* The count is kept as long as the token is not cancelled.
DeliveryInv ==
  /\ OrderInv
  /\ \A s \in Streams : StreamInv(s)

\* How Append, Tail and concatenation change these sets.
LEMMA ElemsEmpty == Elems(<<>>) = {} /\ InChunks(<<>>) = {} /\ InMessages(<<>>) = {}
  BY DEF Elems, InChunks, InMessages

LEMMA ElemsAppend ==
  ASSUME NEW S, NEW q \in Seq(S), NEW x, x \in S
  PROVE  Elems(Append(q, x)) = Elems(q) \cup {x}
<1>1. /\ DOMAIN Append(q, x) = DOMAIN q \cup {Len(q) + 1}
      /\ Append(q, x)[Len(q) + 1] = x
      /\ \A j \in DOMAIN q : Append(q, x)[j] = q[j]
  OBVIOUS
<1> QED BY <1>1 DEF Elems

LEMMA ElemsConcat ==
  ASSUME NEW S, NEW q \in Seq(S), NEW y, y \in Seq(S)
  PROVE  Elems(q \o y) = Elems(q) \cup Elems(y)
<1> DEFINE p == q \o y
           n == Len(q)
<1>1. /\ \A i \in DOMAIN q : i \in DOMAIN p /\ p[i] = q[i]
      /\ \A i \in DOMAIN y : n + i \in DOMAIN p /\ p[n + i] = y[i]
      /\ \A i \in DOMAIN p : i \in DOMAIN q \/ (i - n \in DOMAIN y /\ p[i] = y[i - n])
  OBVIOUS
<1> HIDE DEF p, n
<1>2. Elems(p) = Elems(q) \cup Elems(y)
  BY <1>1 DEF Elems
<1> QED BY <1>2, Zenon DEF p

LEMMA ChunkSent ==
  ASSUME NEW q \in Seq(Seq(Ids)), NEW y \in Seq(Ids)
  PROVE  InChunks(Append(q, y)) = InChunks(q) \cup Elems(y)
<1> DEFINE p == Append(q, y)
           n == Len(q) + 1
<1>1. /\ DOMAIN p = DOMAIN q \cup {n} /\ p[n] = y
      /\ \A j \in DOMAIN q : p[j] = q[j]
  OBVIOUS
<1> HIDE DEF p, n
<1>2. InChunks(p) = InChunks(q) \cup Elems(y)
  BY <1>1, Zenon DEF InChunks
<1> QED BY <1>2, Zenon DEF p

LEMMA ChunksTail ==
  ASSUME NEW S, NEW q \in Seq(S), q # <<>>
  PROVE  InChunks(q) = Elems(Head(q)) \cup InChunks(Tail(q))
<1>1. /\ Head(q) = q[1] /\ 1 \in DOMAIN q
      /\ \A j \in DOMAIN Tail(q) : j + 1 \in DOMAIN q /\ Tail(q)[j] = q[j + 1]
      /\ \A j \in DOMAIN q : j = 1 \/ (j - 1 \in DOMAIN Tail(q) /\ Tail(q)[j - 1] = q[j])
  OBVIOUS
<1> QED BY <1>1 DEF InChunks

\* The messages in p are those in q and the one with the ids xs.
AddsMessage(p, q, xs) == InMessages(p) = InMessages(q) \cup Elems(xs)

LEMMA MessagesAppend ==
  ASSUME NEW S, NEW q \in Seq(S), NEW x, x \in S, NEW p, p = Append(q, x)
  PROVE  AddsMessage(p, q, IdsIn(x))
<1>1. /\ DOMAIN p = DOMAIN q \cup {Len(q) + 1} /\ p[Len(q) + 1] = x
      /\ \A j \in DOMAIN q : p[j] = q[j]
  OBVIOUS
<1>2. InMessages(p) = InMessages(q) \cup Elems(IdsIn(x))
  BY <1>1 DEF InMessages
<1> QED BY <1>2, Zenon DEF AddsMessage

LEMMA MessageSent ==
  ASSUME NEW q \in Seq([err : BOOLEAN, ids : Seq(Ids)]), NEW y \in Seq(Ids)
  PROVE  InMessages(Append(q, [err |-> FALSE, ids |-> y])) = InMessages(q) \cup Elems(y)
<1> DEFINE M == [err : BOOLEAN, ids : Seq(Ids)]
           z == [err |-> FALSE, ids |-> y]
<1>1. q \in Seq(M) /\ z \in M
  BY Zenon
<1>2. IdsIn(z) = y
  BY Zenon DEF IdsIn
<1> DEFINE p == Append(q, z)
<1>3. p = Append(q, z)
  OBVIOUS
<1> HIDE DEF M, z, p
<1>4. AddsMessage(p, q, IdsIn(z))
  BY <1>1, <1>3, MessagesAppend, Zenon
<1> QED BY <1>2, <1>4, Zenon DEF p, z, AddsMessage

LEMMA MessagesTail ==
  ASSUME NEW S, NEW q \in Seq(S), q # <<>>
  PROVE  InMessages(q) = Elems(IdsIn(Head(q))) \cup InMessages(Tail(q))
<1>1. /\ Head(q) = q[1] /\ 1 \in DOMAIN q
      /\ \A j \in DOMAIN Tail(q) : j + 1 \in DOMAIN q /\ Tail(q)[j] = q[j + 1]
      /\ \A j \in DOMAIN q : j = 1 \/ (j - 1 \in DOMAIN Tail(q) /\ Tail(q)[j - 1] = q[j])
  OBVIOUS
<1> QED BY <1>1 DEF InMessages

LEMMA BufferOf ==
  ASSUME OneRequestPerStream, NEW s \in Streams, NEW w \in Workers, Processes(w, s)
  PROVE  InBuffer(s) = Elems(buff[w])
<1>1. {v \in Workers : Processes(v, s)} = {w}
  BY Zenon DEF OneRequestPerStream
<1> QED BY <1>1, Zenon DEF InBuffer

LEMMA NoBuffer ==
  ASSUME NEW s, \A w \in Workers : Processes(w, s) => buff[w] = <<>> PROVE InBuffer(s) = {}
  BY ElemsEmpty, Zenon DEF InBuffer

-----------------------------------------------------------------------------

\* A step that leaves stream r, its request and its ids alone.
SameContents(r) ==
  /\ received'[r] = received[r] /\ resp'[r] = resp[r] /\ msg'[r] = msg[r]
  /\ chunks'[r] = chunks[r] /\ \A w \in Workers : Processes(w, r) => buff'[w] = buff[w]

SamePool(r) ==
  \A w \in Workers :
    /\ Processes(w, r)' <=> Processes(w, r)
    /\ Queues(w, r)' <=> Queues(w, r)
    /\ Processes(w, r) => job'[w] = job[w] /\ generated'[w] = generated[w]
    /\ Queues(w, r) => work'[w] = work[w]

SameStream(r) ==
  /\ SameContents(r) /\ SamePool(r)
  /\ fpc'[r] = fpc[r] /\ outcome'[r] = outcome[r] /\ target'[r] = target[r]
  /\ remaining'[r] = remaining[r] /\ total'[r] = total[r]

LEMMA SameIds ==
  ASSUME NEW r, SameContents(r), SamePool(r) PROVE IdsFor(r)' = IdsFor(r)
<1>1. InBuffer(r)' = InBuffer(r)
  <2>1. {v \in Workers : Processes(v, r)'} = {v \in Workers : Processes(v, r)}
    BY Zenon DEF SamePool
  <2>2. \A v \in {u \in Workers : Processes(u, r)} : Elems(buff'[v]) = Elems(buff[v])
    BY Zenon DEF SameContents
  <2> QED BY <2>1, <2>2 DEF InBuffer, Elems
<1>2. /\ received'[r] = received[r] /\ resp'[r] = resp[r] /\ msg'[r] = msg[r]
      /\ chunks'[r] = chunks[r]
  BY Zenon DEF SameContents
<1> QED BY <1>1, <1>2, Zenon DEF IdsFor

\* The balance of a stream is kept by a step that neither makes ids for it nor
\* requests any.
LEMMA KeptCount ==
  ASSUME NEW s, CountInv(s), outcome[s] = "open", SamePool(s),
         IdsFor(s)' = IdsFor(s), remaining'[s] = remaining[s], total'[s] = total[s],
         target'[s] = target[s], fpc'[s] # "senderr", fpc'[s] = "send" <=> fpc[s] = "send",
         fpc'[s] \in {"finish", "done"} => remaining[s] = 0,
         msg'[s] # <<>> => fpc'[s] = "forward",
         \A w \in Workers : Processes(w, s) => fpc'[s] \in {"recv", "forward"}
  PROVE  CountInv(s)'
<1>1. \A n : Balance(s, n) => Balance(s, n)'
  BY Zenon DEF Balance
<1>2. ChunkTxAlive(s) => ChunkTxAlive(s)'
  BY Zenon DEF ChunkTxAlive, SamePool
<1>3. IsFiniteSet(IdsFor(s)') /\ (fpc'[s] = "send" => Balance(s, target[s].size)')
  BY <1>1, Zenon DEF CountInv
<1>4. ASSUME NEW w \in Workers, Queues(w, s)' PROVE Balance(s, work[w][1].size)'
  BY <1>1, <1>4, Zenon DEF SamePool, CountInv
<1>5. ASSUME NEW w \in Workers, Processes(w, s)'
      PROVE  /\ fpc'[s] \in {"recv", "forward"} /\ generated'[w] <= job'[w].size
             /\ Balance(s, job[w].size - generated[w])'
  BY <1>1, <1>5, Zenon DEF SamePool, CountInv
<1>6. ASSUME fpc'[s] # "send", ~ ChunkTxAlive(s)' PROVE Balance(s, 0)'
  BY <1>1, <1>2, <1>6, Zenon DEF CountInv
<1> QED BY <1>3, <1>4, <1>5, <1>6, Zenon DEF CountInv

\* Such a step keeps the count of r.
LEMMA Same_StreamInv ==
  ASSUME NEW r, SameStream(r), ~ cancelled' => ~ cancelled, StreamInv(r)
  PROVE  StreamInv(r)'
<1>1. StartInv(r)' /\ (EndInv(r) => EndInv(r)')
  BY Zenon DEF StreamInv, SameStream, SameContents, StartInv, EndInv
<1>2. ASSUME CountInv(r) PROVE CountInv(r)'
  <2> SUFFICES ASSUME outcome[r] = "open" PROVE CountInv(r)'
    BY Zenon DEF CountInv, SameStream
  <2>1. IdsFor(r)' = IdsFor(r)
    BY SameIds, Zenon DEF SameStream
  <2>2. /\ fpc[r] # "senderr"
        /\ fpc[r] \in {"finish", "done"} => remaining[r] = 0
        /\ msg[r] # <<>> => fpc[r] = "forward"
        /\ \A w \in Workers : Processes(w, r) => fpc[r] \in {"recv", "forward"}
    BY <1>2, Zenon DEF CountInv
  <2>3. /\ SamePool(r) /\ fpc'[r] = fpc[r] /\ msg'[r] = msg[r] /\ remaining'[r] = remaining[r]
        /\ total'[r] = total[r] /\ target'[r] = target[r]
    BY Zenon DEF SameStream, SameContents
  <2>4. /\ fpc'[r] # "senderr"
        /\ fpc'[r] \in {"finish", "done"} => remaining[r] = 0
        /\ msg'[r] # <<>> => fpc'[r] = "forward"
        /\ fpc'[r] = "send" <=> fpc[r] = "send"
        /\ \A w \in Workers : Processes(w, r) => fpc'[r] \in {"recv", "forward"}
    BY <2>2, <2>3, Zenon
  <2> QED BY <1>2, <2>1, <2>3, <2>4, KeptCount, Zenon
<1> QED BY <1>1, <1>2, Zenon DEF StreamInv

LEMMA Next_OrderInv == Types /\ PoolInv /\ OrderInv /\ [Next]_vars => OrderInv'
<1> SUFFICES ASSUME Types, PoolInv, OrderInv, [Next]_vars, ~ cancelled' PROVE OrderInv'
  BY Zenon DEF OrderInv
<1>a. WorkerTypes
  BY Zenon DEF Types
<1>1. CASE UNCHANGED vars \/ Terminated
  BY <1>1, Zenon DEF OrderInv, Terminated, vars, shutdownVars, workerVars
<1>2. ASSUME NEW s \in Streams, Handler(s) \/ Feed(s) \/ Client(s) PROVE OrderInv'
  <2>1. UNCHANGED <<wpc, cancelled, spc>>
    BY <1>2, Zenon DEF Handler, Request, Admit, Finish, HandlerFrame, Feed, NextChunk,
      AllRequested, SendRequest, WorkerGone, RecvChunk, RecvNone, Forward, ClientGone,
      SurfaceError, FeedFrame, Client, Read, ReadEnd, Disconnect, ClientFrame, shutdownVars,
      workerVars
  <2>2. CASE SendRequest(s)
    <3> DEFINE w == target[s].worker
               q == [stream |-> s, size |-> target[s].size]
    <3>1. w \in Workers /\ q \in WorkRequests
      BY Zenon DEF Types, FeedTypes, WorkRequests
    <3>2. Len(work[w]) < 1 /\ work' = [work EXCEPT ![w] = Append(@, q)]
      BY <2>2, Zenon DEF SendRequest
    <3>3. q # Shutdown
      BY Sizes, Zenon DEF Shutdown
    <3> HIDE DEF q
    <3>4. \A v \in Workers : \A i \in DOMAIN work'[v] :
            work'[v][i] = q \/ (i \in DOMAIN work[v] /\ work'[v][i] = work[v][i])
      <4>1. /\ DOMAIN work'[w] = {1} /\ work'[w][1] = q
            /\ \A v \in Workers : v # w => work'[v] = work[v]
        BY <1>a, <3>1, <3>2, Enqueued, Zenon
      <4> HIDE DEF w
      <4> QED BY <4>1, Zenon
    <3> QED BY <2>1, <3>3, <3>4, Zenon DEF OrderInv
  <2>3. CASE ~ SendRequest(s)
    <3>1. UNCHANGED work
      BY <1>2, <2>3, Zenon DEF Handler, Request, Admit, Finish, HandlerFrame, Feed, NextChunk,
        AllRequested, WorkerGone, RecvChunk, RecvNone, Forward, ClientGone, SurfaceError,
        Client, Read, ReadEnd, Disconnect, ClientFrame
    <3> QED BY <2>1, <3>1, Zenon DEF OrderInv
  <2> QED BY <2>2, <2>3, Zenon
<1>3. ASSUME NEW w \in Workers, Worker(w) PROVE OrderInv'
  <2>1. UNCHANGED <<cancelled, spc>>
    BY <1>3, Zenon DEF Worker, RecvWork, Generate, EmitChunk, Flush, RecvShutdown, Stop,
      WorkerFrame
  <2>2. /\ wpc[w] \notin {"stopping", "stopped"}
        /\ ~ RecvShutdown(w)
    <3>1. /\ wpc[w] \notin {"stopping", "stopped"}
          /\ \A i \in DOMAIN work[w] : work[w][i] # Shutdown
      BY <2>1, Zenon DEF OrderInv
    <3>2. ASSUME work[w] # <<>> PROVE Head(work[w]) = work[w][1] /\ 1 \in DOMAIN work[w]
      BY <1>a, <3>2, SeqTail, Zenon DEF WorkerTypes
    <3> QED BY <3>1, <3>2, Zenon DEF RecvShutdown
  <2>3. \A v \in Workers : wpc'[v] \notin {"stopping", "stopped"}
    <3>1. \E l \in {"recv", "gen", "emit", "panicked"} : wpc' = [wpc EXCEPT ![w] = l]
      BY <1>3, <2>2, Zenon DEF Worker, RecvWork, Generate, EmitChunk, Flush, Stop, WorkerAt
    <3>2. \A v \in Workers : wpc[v] \notin {"stopping", "stopped"}
      BY <2>1, Zenon DEF OrderInv
    <3>3. wpc \in [Workers -> {"recv", "gen", "emit", "stopping", "stopped", "panicked"}]
      BY <1>a, Zenon DEF WorkerTypes
    <3> QED BY <3>1, <3>2, <3>3, Zenon
  <2>4. \A v \in Workers : \A i \in DOMAIN work'[v] :
          i \in DOMAIN work[v] /\ work'[v][i] = work[v][i]
    <3>1. CASE UNCHANGED work
      BY <3>1, Zenon
    <3>2. CASE work' = [work EXCEPT ![w] = <<>>]
      BY <1>a, <3>2 DEF WorkerTypes
    <3>3. CASE RecvWork(w)
      <4>1. DOMAIN work'[w] = {} /\ \A v \in Workers : v # w => work'[v] = work[v]
        BY <1>a, <3>3, Dequeued, Zenon DEF RecvWork
      <4> QED BY <4>1, Zenon
    <3> QED BY <1>3, <2>2, <3>1, <3>2, <3>3, Zenon DEF Worker, Generate, EmitChunk, Flush, Stop
  <2> QED BY <2>1, <2>3, <2>4, Zenon DEF OrderInv
<1>4. CASE BeginShutdown \/ ShutdownTask
  <2>1. UNCHANGED <<cancelled, wpc>>
    BY <1>4, Zenon DEF BeginShutdown, ShutdownTask, Drained, DrainTimeout, Cancel,
      NotifyWorker, AllNotified, AllAcked, AckTimeout, ShutdownFrame, workerVars
  <2>2. spc \in {"running", "drain", "cancel"}
    BY <2>1, Zenon DEF OrderInv
  <2>3. UNCHANGED work /\ spc' \in {"drain", "cancel"}
    BY <1>4, <2>1, <2>2, Zenon DEF BeginShutdown, ShutdownTask, Drained, DrainTimeout, Cancel,
      NotifyWorker, AllNotified, AllAcked, AckTimeout
  <2> QED BY <2>1, <2>3, Zenon DEF OrderInv
<1> QED BY <1>1, <1>2, <1>3, <1>4, Zenon DEF Next

LEMMA PoolAtRest ==
  ASSUME UNCHANGED <<wpc, job, generated, work>>, NEW r PROVE SamePool(r)
  BY Zenon DEF SamePool, Processes, Queues

\* The steps of a stream's tasks and client leave the other streams alone.
LEMMA OtherStreams ==
  ASSUME Types, NEW s \in Streams, Handler(s) \/ Feed(s) \/ Client(s),
         NEW r \in Streams, r # s
  PROVE  SameStream(r)
<1>1. UNCHANGED <<wpc, job, generated, buff>>
  BY Zenon DEF Handler, Request, Admit, Finish, HandlerFrame, Feed, NextChunk,
      AllRequested,
    SendRequest, WorkerGone, RecvChunk, RecvNone, Forward, ClientGone, SurfaceError, FeedFrame,
    Client, Read, ReadEnd, Disconnect, ClientFrame, workerVars
<1>2. /\ fpc'[r] = fpc[r] /\ outcome'[r] = outcome[r] /\ received'[r] = received[r]
      /\ resp'[r] = resp[r] /\ msg'[r] = msg[r] /\ chunks'[r] = chunks[r]
      /\ remaining'[r] = remaining[r] /\ total'[r] = total[r] /\ target'[r] = target[r]
  <2>1. FeedTypes /\ ClientTypes
    BY Zenon DEF Types
  <2>2. CASE Handler(s)
    BY <2>1, <2>2, ZenonT(40) DEF Handler, Request, Admit, Finish, HandlerFrame, GoTo, FeedTypes,
      ClientTypes
  <2>3. CASE Feed(s)
    BY <2>1, <2>3, ZenonT(40) DEF Feed, NextChunk, AllRequested, SendRequest, WorkerGone, RecvChunk,
      RecvNone, Forward, ClientGone, SurfaceError, FeedFrame, clientVars, GoTo, ToClient,
      FeedTypes, ClientTypes
  <2>4. CASE Client(s)
    BY <2>1, <2>4, ZenonT(40) DEF Client, Read, ReadEnd, Disconnect, ClientFrame, handlerVars,
      FeedTypes, ClientTypes
  <2> QED BY <2>2, <2>3, <2>4, Zenon
<1>3. SamePool(r)
  <2>1. CASE UNCHANGED work
    BY <1>1, <2>1, PoolAtRest, Zenon
  <2>2. CASE SendRequest(s)
    <3>1. PICK w \in Workers, q \in WorkRequests :
            /\ q.stream = s /\ Len(work[w]) < 1
            /\ work' = [work EXCEPT ![w] = Append(@, q)]
      <4>1. /\ target[s].worker \in Workers
            /\ [stream |-> s, size |-> target[s].size] \in WorkRequests
        BY Zenon DEF Types, FeedTypes, WorkRequests
      <4> QED BY <2>2, <4>1, Zenon DEF SendRequest
    <3>2. /\ DOMAIN work'[w] = {1} /\ work'[w][1] = q
          /\ \A v \in Workers : v # w => work'[v] = work[v]
      BY <3>1, Enqueued, Zenon DEF Types
    <3>3. DOMAIN work[w] = {}
      BY <3>1, SeqLen DEF Types, WorkerTypes
    <3>4. ~ Queues(w, r) /\ ~ Queues(w, r)'
      BY <3>1, <3>2, <3>3, Zenon DEF Queues
    <3>5. \A v \in Workers : v # w => (Queues(v, r)' <=> Queues(v, r)) /\ work'[v] = work[v]
      BY <3>2, Zenon DEF Queues
    <3> QED BY <1>1, <3>4, <3>5, Zenon DEF SamePool, Processes
  <2>3. UNCHANGED work \/ SendRequest(s)
    BY Zenon DEF Handler, Request, Admit, Finish, HandlerFrame, Feed, NextChunk,
      AllRequested, WorkerGone, RecvChunk, RecvNone, Forward, ClientGone, SurfaceError,
      Client, Read, ReadEnd, Disconnect, ClientFrame
  <2> QED BY <2>1, <2>2, <2>3, Zenon
<1> QED BY <1>1, <1>2, <1>3, Zenon DEF SameStream, SameContents

\* Where no request of stream s is with the workers
LEMMA NoRequest ==
  ASSUME PoolInv, NEW s \in Streams, fpc[s] \notin {"recv", "forward", "finish", "done"}
  PROVE  (\A w \in Workers : ~ Processes(w, s) /\ ~ Queues(w, s)) /\ chunks[s] = <<>>
  BY Zenon DEF PoolInv, FeedInv, JobInv

\* One lemma per task: what its steps do to the count of their own stream.
LEMMA Handler_StreamInv ==
  ASSUME SizeFacts, Types, PoolInv, NEW s \in Streams, Handler(s), StreamInv(s)
  PROVE  StreamInv(s)'
<1>a. UNCHANGED <<wpc, job, generated, work, buff, target, msg, received, chunks, resp,
                  cancelled>>
  BY Zenon DEF Handler, Request, Admit, Finish, HandlerFrame, workerVars, shutdownVars
<1>b. /\ fpc \in [Streams -> {"new", "rejected", "checked", "panicked", "loop", "send",
                              "recv", "forward", "senderr", "finish", "done"}]
      /\ outcome \in [Streams -> {"none", "open", "ended", "error", "gone"}]
      /\ remaining \in [Streams -> Nat] /\ total[s] \in Nat
  BY Zenon DEF Types, FeedTypes, ClientTypes
<1>1. ASSUME NEW n \in Counts[s], Request(s, n) PROVE StreamInv(s)'
  <2>1. /\ fpc[s] = "new" /\ UNCHANGED outcome
        /\ \E l \in {"rejected", "checked"} : fpc' = [fpc EXCEPT ![s] = l]
    BY <1>1, Zenon DEF Request, GoTo
  <2>2. StartInv(s) /\ outcome[s] = "none"
    BY <2>1, Zenon DEF StreamInv, StartInv
  <2>3. StartInv(s)'
    BY <1>a, <2>1, <2>2, Zenon DEF StartInv
  <2>4. outcome'[s] # "open" /\ outcome'[s] # "ended"
    BY <2>1, <2>2, Zenon
  <2> QED BY <2>3, <2>4, Zenon DEF StreamInv, CountInv, EndInv
<1>2. CASE Admit(s)
  <2>1. /\ fpc[s] = "checked" /\ UNCHANGED total
        /\ \/ /\ fpc' = [fpc EXCEPT ![s] = "panicked"]
              /\ outcome' = [outcome EXCEPT ![s] = "error"]
           \/ fpc' = [fpc EXCEPT ![s] = "loop"] /\ outcome' = [outcome EXCEPT ![s] = "open"]
        /\ remaining' = [remaining EXCEPT ![s] = total[s]]
    BY <1>2, Zenon DEF Admit, GoTo
  <2>2. received[s] = <<>> /\ resp[s] = <<>> /\ msg[s] = <<>>
    BY <2>1, Zenon DEF StreamInv, StartInv
  <2>3. (\A w \in Workers : ~ Processes(w, s) /\ ~ Queues(w, s)) /\ chunks[s] = <<>>
    BY <2>1, NoRequest, Zenon
  <2>4. fpc'[s] \in {"panicked", "loop"} /\ outcome'[s] \in {"error", "open"}
    BY <1>b, <2>1, Zenon
  <2>5. StartInv(s)' /\ EndInv(s)'
    BY <2>4, Zenon DEF StartInv, EndInv
  <2>6. CASE outcome'[s] = "open"
    <3>1. fpc'[s] = "loop" /\ remaining'[s] = total[s]
      BY <1>b, <2>1, <2>6, Zenon
    <3>2. SamePool(s) /\ SameContents(s)
      BY <1>a, PoolAtRest, Zenon DEF SameContents
    <3>3. IdsFor(s) = {}
      <4>1. InBuffer(s) = {}
        BY <2>3, NoBuffer, Zenon
      <4> QED BY <2>2, <2>3, <4>1, ElemsEmpty, Zenon DEF IdsFor
    <3>4. IdsFor(s)' = {}
      BY <3>2, <3>3, SameIds, Zenon
    <3>5. IsFiniteSet(IdsFor(s)') /\ Cardinality(IdsFor(s)') = 0
      BY <3>4, Zenon DEF SizeFacts
    <3>6. Balance(s, 0)'
      BY <1>b, <2>1, <3>1, <3>5 DEF Balance
    <3>7. \A w \in Workers : ~ Processes(w, s)' /\ ~ Queues(w, s)'
      BY <2>3, <3>2, Zenon DEF SamePool
    <3>8. msg'[s] = <<>>
      BY <1>a, <2>2, Zenon
    <3>9. CountInv(s)'
      BY <3>1, <3>5, <3>6, <3>7, <3>8, Zenon DEF CountInv
    <3> QED BY <2>5, <3>9, Zenon DEF StreamInv
  <2>7. CASE outcome'[s] # "open"
    BY <2>5, <2>7, Zenon DEF StreamInv, CountInv
  <2> QED BY <2>6, <2>7, Zenon
<1>3. CASE Finish(s)
  <2>1. fpc[s] = "finish" /\ UNCHANGED <<outcome, total, remaining>> /\ fpc'[s] = "done"
    BY <1>3, <1>b, Zenon DEF Finish, GoTo
  <2>2. StartInv(s)' /\ (EndInv(s) => EndInv(s)')
    BY <1>a, <2>1, Zenon DEF StartInv, EndInv
  <2>3. ASSUME CountInv(s) PROVE CountInv(s)'
    <3> SUFFICES ASSUME outcome[s] = "open" PROVE CountInv(s)'
      BY <2>1, Zenon DEF CountInv
    <3>1. SamePool(s) /\ IdsFor(s)' = IdsFor(s)
      BY <1>a, PoolAtRest, SameIds, Zenon DEF SameContents
    <3>2. /\ remaining[s] = 0
          /\ msg[s] # <<>> => fpc[s] = "forward"
          /\ \A w \in Workers : Processes(w, s) => fpc[s] \in {"recv", "forward"}
      BY <2>1, <2>3, Zenon DEF CountInv
    <3>3. /\ msg'[s] = <<>> /\ remaining'[s] = remaining[s] /\ total'[s] = total[s]
          /\ target'[s] = target[s] /\ fpc'[s] # "senderr"
          /\ fpc'[s] # "send" /\ fpc[s] # "send"
          /\ \A w \in Workers : ~ Processes(w, s)
      BY <1>a, <2>1, <3>2, Zenon
    <3> QED BY <2>3, <3>1, <3>2, <3>3, KeptCount, Zenon
  <2> QED BY <1>a, <2>2, <2>3, Zenon DEF StreamInv
<1> QED BY <1>1, <1>2, <1>3, Zenon DEF Handler

LEMMA Feed_StreamInv ==
  ASSUME SizeFacts, Types, PoolInv, OrderInv, NEW s \in Streams, Feed(s), StreamInv(s)
  PROVE  StreamInv(s)'
<1>a. UNCHANGED <<wpc, job, generated, buff, total, outcome, received, cancelled>>
  BY Zenon DEF Feed, NextChunk, AllRequested, SendRequest, WorkerGone, RecvChunk, RecvNone,
    Forward, ClientGone, SurfaceError, FeedFrame, clientVars, workerVars, shutdownVars
<1>b. /\ fpc \in [Streams -> {"new", "rejected", "checked", "panicked", "loop", "send",
                              "recv", "forward", "senderr", "finish", "done"}]
      /\ remaining \in [Streams -> Nat] /\ total[s] \in Nat
      /\ target \in [Streams -> [worker : Workers, size : Nat]]
      /\ msg \in [Streams -> Seq(Ids)] /\ chunks \in [Streams -> Seq(Seq(Ids))]
      /\ resp \in [Streams -> Seq([err : BOOLEAN, ids : Seq(Ids)])]
  BY Zenon DEF Types, FeedTypes, ClientTypes
<1>1. StartInv(s)'
  <2>1. \E l \in {"loop", "send", "recv", "forward", "senderr", "finish"} :
          fpc' = [fpc EXCEPT ![s] = l]
    BY Zenon DEF Feed, NextChunk, AllRequested, SendRequest, WorkerGone, RecvChunk, RecvNone,
      Forward, ClientGone, SurfaceError, GoTo
  <2>2. fpc'[s] \notin {"new", "checked"}
    BY <1>b, <2>1, Zenon
  <2> QED BY <2>2, Zenon DEF StartInv
<1> SUFFICES ASSUME ~ cancelled, outcome[s] = "open", CountInv(s) PROVE CountInv(s)'
  BY <1>a, <1>1, Zenon DEF StreamInv, EndInv, CountInv
<1>c. /\ fpc[s] # "senderr" /\ IsFiniteSet(IdsFor(s))
      /\ msg[s] # <<>> => fpc[s] = "forward"
      /\ Cardinality(IdsFor(s)) \in Nat
  BY Zenon DEF SizeFacts, CountInv
<1>d. \A w \in Workers : Processes(w, s) => fpc[s] \in {"recv", "forward"}
  BY Zenon DEF CountInv
<1>2. CASE NextChunk(s)
  <2> DEFINE c == ChunkSize(s)
  <2>1. /\ fpc[s] = "loop" /\ remaining' = [remaining EXCEPT ![s] = @ - c]
        /\ fpc' = [fpc EXCEPT ![s] = "send"]
        /\ target' = [target EXCEPT ![s] = [worker |-> next_worker, size |-> c]]
        /\ UNCHANGED <<msg, chunks, resp, work>>
    BY <1>2, Zenon DEF NextChunk, GoTo
  <2>2. c \in Nat
    BY <1>b, Sizes, Zenon DEF ChunkSize
  <2> HIDE DEF c
  <2>3. \A w \in Workers : ~ Processes(w, s) /\ ~ Queues(w, s)
    BY <2>1, NoRequest, Zenon
  <2>4. Balance(s, 0) /\ msg[s] = <<>>
    <3>1. ~ ChunkTxAlive(s) /\ fpc[s] # "send" /\ fpc[s] # "forward"
      BY <2>1, <2>3, Zenon DEF ChunkTxAlive
    <3> QED BY <1>c, <3>1, Zenon DEF CountInv
  <2>5. SamePool(s) /\ IdsFor(s)' = IdsFor(s)
    BY <1>a, <2>1, PoolAtRest, SameIds, Zenon DEF SameContents
  <2>6. /\ fpc'[s] = "send" /\ remaining'[s] = remaining[s] - c /\ target'[s].size = c
        /\ msg'[s] = <<>> /\ total'[s] = total[s] /\ remaining[s] \in Nat
    BY <1>a, <1>b, <2>1, <2>4, ZenonT(40)
  <2>7. Balance(s, target[s].size)'
    BY <1>b, <1>c, <2>2, <2>4, <2>5, <2>6 DEF Balance
  <2>8. \A w \in Workers : ~ Processes(w, s)' /\ ~ Queues(w, s)'
    BY <2>3, <2>5, Zenon DEF SamePool
  <2> QED BY <1>c, <2>5, <2>6, <2>7, <2>8, Zenon DEF CountInv
<1>3. CASE SendRequest(s)
  <2>1. PICK w \in Workers, q \in WorkRequests :
          /\ q.stream = s /\ q.size = target[s].size /\ Len(work[w]) < 1
          /\ work' = [work EXCEPT ![w] = Append(@, q)]
    <3>1. /\ target[s].worker \in Workers
          /\ [stream |-> s, size |-> target[s].size] \in WorkRequests
      BY Zenon DEF Types, FeedTypes, WorkRequests
    <3> QED BY <1>3, <3>1, Zenon DEF SendRequest
  <2>2. /\ fpc[s] = "send" /\ fpc'[s] = "recv"
        /\ UNCHANGED <<remaining, target, msg, chunks, resp>>
    BY <1>3, <1>b, Zenon DEF SendRequest, GoTo
  <2>3. /\ DOMAIN work'[w] = {1} /\ work'[w][1] = q
        /\ \A v \in Workers : v # w => work'[v] = work[v]
    BY <2>1, Enqueued, Zenon DEF Types
  <2>4. \A v \in Workers : ~ Processes(v, s) /\ ~ Queues(v, s)
    BY <2>2, NoRequest, Zenon
  <2>5. \A v \in Workers : ~ Processes(v, s)'
    BY <1>a, <2>4, Zenon DEF Processes
  <2>6. IdsFor(s)' = IdsFor(s)
    <3>1. InBuffer(s)' = {} /\ InBuffer(s) = {}
      BY <2>4, <2>5, Zenon DEF InBuffer
    <3> QED BY <1>a, <2>2, <3>1, Zenon DEF IdsFor
  <2>7. Balance(s, q.size)'
    BY <1>a, <2>1, <2>2, <2>6, Zenon DEF Balance, CountInv
  <2>8. ASSUME NEW v \in Workers, Queues(v, s)' PROVE work'[v][1] = q
    BY <2>3, <2>4, <2>8, ZenonT(40) DEF Queues
  <2>9. ChunkTxAlive(s)'
    <3>1. Queues(w, s)'
      BY <2>1, <2>3, Zenon DEF Queues
    <3> QED BY <3>1, Zenon DEF ChunkTxAlive
  <2>10. ASSUME NEW v \in Workers, Queues(v, s)' PROVE Balance(s, work[v][1].size)'
    BY <2>7, <2>8, <2>10, Zenon
  <2>11. msg'[s] = <<>>
    BY <1>c, <2>2, Zenon
  <2> QED BY <1>c, <2>2, <2>5, <2>6, <2>9, <2>10, <2>11, Zenon DEF CountInv
<1>4. CASE WorkerGone(s)
  <2>1. PICK w \in Workers : ~ RxAlive(w)
    BY <1>4, <1>b, Zenon DEF WorkerGone
  <2>2. wpc[w] \notin {"stopping", "stopped"} /\ wpc[w] # "panicked"
    BY <2>1, Zenon DEF OrderInv, PoolInv, WorkerInv
  <2> QED BY <2>1, <2>2, Zenon DEF RxAlive
<1>5. CASE ClientGone(s) \/ SurfaceError(s)
  BY <1>5, <1>c, Zenon DEF ClientGone, SurfaceError, ClientAlive
<1> DEFINE Moves ==
      /\ IdsFor(s)' = IdsFor(s) /\ UNCHANGED <<work, remaining, target>>
      /\ fpc[s] # "send" /\ fpc'[s] \in {"loop", "recv", "forward", "finish"}
      /\ fpc'[s] = "finish" => remaining[s] = 0
      /\ msg'[s] # <<>> => fpc'[s] = "forward"
      /\ \A w \in Workers : Processes(w, s) => fpc'[s] \in {"recv", "forward"}
<1>6. ASSUME Moves PROVE CountInv(s)'
  <2>1. /\ SamePool(s) /\ remaining'[s] = remaining[s]
        /\ total'[s] = total[s] /\ target'[s] = target[s]
    BY <1>a, <1>6, PoolAtRest, Zenon
  <2>2. /\ fpc'[s] # "senderr" /\ (fpc'[s] = "send" <=> fpc[s] = "send")
        /\ fpc'[s] \in {"finish", "done"} => remaining[s] = 0
    BY <1>6, Zenon
  <2> QED BY <1>6, <2>1, <2>2, KeptCount, Zenon
<1>7. CASE AllRequested(s)
  <2>1. /\ fpc[s] = "loop" /\ fpc'[s] = "finish" /\ remaining[s] = 0
        /\ UNCHANGED <<remaining, target, msg, chunks, resp, work>>
    BY <1>7, <1>b, Zenon DEF AllRequested, GoTo
  <2>2. IdsFor(s)' = IdsFor(s)
    BY <1>a, <2>1, PoolAtRest, SameIds, Zenon DEF SameContents
  <2>3. Moves
    BY <1>c, <1>d, <2>1, <2>2, Zenon
  <2> QED BY <1>6, <2>3, Zenon
<1>8. CASE RecvNone(s)
  <2>1. /\ fpc[s] = "recv" /\ fpc'[s] = "loop" /\ ~ ChunkTxAlive(s)
        /\ UNCHANGED <<remaining, target, msg, chunks, resp, work>>
    BY <1>8, <1>b, Zenon DEF RecvNone, GoTo
  <2>2. IdsFor(s)' = IdsFor(s)
    BY <1>a, <2>1, PoolAtRest, SameIds, Zenon DEF SameContents
  <2>3. \A w \in Workers : ~ Processes(w, s)
    BY <2>1, Zenon DEF ChunkTxAlive
  <2>4. Moves
    BY <1>c, <2>1, <2>2, <2>3, Zenon
  <2> QED BY <1>6, <2>4, Zenon
<1>9. CASE RecvChunk(s)
  <2>1. /\ fpc[s] = "recv" /\ fpc'[s] = "forward" /\ chunks[s] # <<>>
        /\ msg'[s] = Head(chunks[s]) /\ chunks'[s] = Tail(chunks[s])
        /\ UNCHANGED <<remaining, target, resp, work>>
    BY <1>9, <1>b, Zenon DEF RecvChunk, GoTo
  <2>2. msg[s] = <<>>
    BY <1>c, <2>1, Zenon
  <2>3. InChunks(chunks[s]) = Elems(msg'[s]) \cup InChunks(chunks'[s])
    BY <1>b, <2>1, ChunksTail, Zenon
  <2>4. InBuffer(s)' = InBuffer(s)
    BY <1>a, Zenon DEF InBuffer, Processes
  <2>5. received'[s] = received[s] /\ resp'[s] = resp[s] /\ Elems(msg[s]) = {}
    BY <1>a, <2>1, <2>2, ElemsEmpty, Zenon
  <2>6. IdsFor(s)' = IdsFor(s)
    BY <2>3, <2>4, <2>5, Zenon DEF IdsFor
  <2>7. Moves
    BY <2>1, <2>6, Zenon
  <2> QED BY <1>6, <2>7, Zenon
<1>10. CASE Forward(s)
  <2>1. /\ fpc[s] = "forward" /\ fpc'[s] = "recv" /\ msg'[s] = <<>>
        /\ resp'[s] = Append(resp[s], [err |-> FALSE, ids |-> msg[s]])
        /\ UNCHANGED <<remaining, target, chunks, work>>
    BY <1>10, <1>b, Zenon DEF Forward, ToClient, GoTo
  <2>2. InMessages(resp'[s]) = InMessages(resp[s]) \cup Elems(msg[s])
    <3>1. msg[s] \in Seq(Ids) /\ resp[s] \in Seq([err : BOOLEAN, ids : Seq(Ids)])
      BY <1>b, Zenon
    <3> QED BY <2>1, <3>1, MessageSent, Zenon
  <2>3. InBuffer(s)' = InBuffer(s)
    BY <1>a, Zenon DEF InBuffer, Processes
  <2>4. received'[s] = received[s] /\ chunks'[s] = chunks[s] /\ Elems(msg'[s]) = {}
    BY <1>a, <2>1, ElemsEmpty, Zenon
  <2>5. IdsFor(s)' = IdsFor(s)
    BY <2>2, <2>3, <2>4, Zenon DEF IdsFor
  <2>6. Moves
    BY <2>1, <2>5, Zenon
  <2> QED BY <1>6, <2>6, Zenon
<1> QED BY <1>2, <1>3, <1>4, <1>5, <1>7, <1>8, <1>9, <1>10, Zenon DEF Feed

\* At the end of a stream all its ids have been received, each once.
LEMMA AllReceived ==
  ASSUME SizeFacts, IdInv, NEW s \in Streams, received[s] \in Seq(Ids),
         IdsFor(s) = Elems(received[s])
  PROVE  Cardinality(IdsFor(s)) = Len(received[s])
<1> DEFINE n == Len(received[s])
           q == received[s]
<1>1. n \in Nat /\ DOMAIN q = 1 .. n /\ q \in [1 .. n -> Elems(q)]
  BY DEF Elems
<1>2. ASSUME NEW i \in 1 .. n, NEW j \in 1 .. n, q[i] = q[j] PROVE i = j
  <2>1. Holds("received", s, 0, i, q[i]) /\ Holds("received", s, 0, j, q[i])
    BY <1>1, <1>2, Zenon DEF Holds
  <2> QED BY <2>1, Zenon DEF IdInv
<1>3. \A x \in Elems(q) : \E i \in 1 .. n : q[i] = x
  BY <1>1, Zenon DEF Elems
<1> HIDE DEF n, q
<1>4. \A i \in 1 .. n : \A j \in 1 .. n : q[i] = q[j] => i = j
  BY <1>2, Zenon
<1>5. Enumerates(q, n, Elems(q))
  BY <1>1, <1>3, <1>4, Zenon DEF Enumerates
<1>6. Cardinality(Elems(q)) = n
  BY <1>1, <1>5, Zenon DEF SizeFacts
<1> QED BY <1>6, Zenon DEF n, q

LEMMA Client_StreamInv ==
  ASSUME SizeFacts, Types, PoolInv, IdInv, NEW s \in Streams, Client(s), StreamInv(s)
  PROVE  StreamInv(s)'
<1>a. UNCHANGED <<wpc, job, generated, buff, work, fpc, total, remaining, target, msg, chunks,
                  cancelled>>
  BY Zenon DEF Client, Read, ReadEnd, Disconnect, ClientFrame, handlerVars, workerVars,
    shutdownVars
<1>b. /\ outcome \in [Streams -> {"none", "open", "ended", "error", "gone"}]
      /\ received \in [Streams -> Seq(Ids)]
      /\ resp \in [Streams -> Seq([err : BOOLEAN, ids : Seq(Ids)])]
      /\ total[s] \in Nat
  BY Zenon DEF Types, FeedTypes, ClientTypes
<1>c. outcome[s] = "open"
  BY Zenon DEF Client, Read, ReadEnd, Disconnect, ClientAlive
<1>1. StartInv(s)'
  BY <1>a, <1>c, Zenon DEF StreamInv, StartInv
<1> SUFFICES ASSUME ~ cancelled, CountInv(s) PROVE CountInv(s)' /\ EndInv(s)'
  BY <1>a, <1>1, Zenon DEF StreamInv
<1>2. CASE Disconnect(s)
  <2>1. outcome'[s] = "gone"
    BY <1>2, <1>b, Zenon DEF Disconnect
  <2> QED BY <2>1, Zenon DEF CountInv, EndInv
<1>3. CASE ReadEnd(s)
  <2>1. /\ outcome'[s] = "ended" /\ resp[s] = <<>> /\ fpc[s] \in {"finish", "done"}
        /\ UNCHANGED received
    BY <1>3, <1>b, Zenon DEF ReadEnd
  <2>2. /\ remaining[s] = 0 /\ msg[s] = <<>>
        /\ \A w \in Workers : ~ Processes(w, s)
    BY <1>c, <2>1, Zenon DEF CountInv
  <2>3. chunks[s] = <<>> /\ \A w \in Workers : ~ Queues(w, s)
    BY <2>1, Zenon DEF PoolInv, FeedInv
  <2>4. Balance(s, 0)
    BY <1>c, <2>1, <2>2, <2>3, Zenon DEF CountInv, ChunkTxAlive
  <2>5. IdsFor(s) = Elems(received[s])
    <3>1. InBuffer(s) = {}
      BY <2>2, NoBuffer, Zenon
    <3> QED BY <2>1, <2>2, <2>3, <3>1, ElemsEmpty, Zenon DEF IdsFor
  <2>6. Cardinality(IdsFor(s)) = Len(received[s]) /\ Len(received[s]) \in Nat
    <3>1. received[s] \in Seq(Ids)
      BY <1>b, ZenonT(40)
    <3> QED BY <2>5, <3>1, AllReceived, SeqLen, Zenon
  <2>7. Len(received'[s]) = total'[s]
    BY <1>a, <1>b, <2>1, <2>2, <2>4, <2>6 DEF Balance
  <2> QED BY <2>1, <2>7, Zenon DEF CountInv, EndInv
<1>4. CASE Read(s)
  <2>1. /\ resp[s] # <<>> /\ received'[s] = received[s] \o Head(resp[s]).ids
        /\ \/ outcome'[s] = "error"
           \/ outcome'[s] = "open" /\ resp'[s] = Tail(resp[s])
    BY <1>4, <1>b, <1>c, Zenon DEF Read
  <2>2. CASE outcome'[s] = "error"
    BY <2>2, Zenon DEF CountInv, EndInv
  <2>3. CASE outcome'[s] = "open" /\ resp'[s] = Tail(resp[s])
    <3>1. resp[s] \in Seq([err : BOOLEAN, ids : Seq(Ids)]) /\ received[s] \in Seq(Ids)
      BY <1>b, Zenon
    <3>2. Head(resp[s]) \in [err : BOOLEAN, ids : Seq(Ids)]
      BY <2>1, <3>1, SeqTail, Zenon
    <3>3. Head(resp[s]).ids \in Seq(Ids)
      BY <3>2, ZenonT(40)
    <3>4. Elems(received'[s]) = Elems(received[s]) \cup Elems(Head(resp[s]).ids)
      BY <2>1, <3>1, <3>3, ElemsConcat
    <3>5. InMessages(resp[s]) = Elems(Head(resp[s]).ids) \cup InMessages(resp'[s])
      BY <2>1, <2>3, <3>1, MessagesTail, ZenonT(40) DEF IdsIn
    <3>6. InBuffer(s)' = InBuffer(s) /\ msg'[s] = msg[s] /\ chunks'[s] = chunks[s]
      BY <1>a, Zenon DEF InBuffer, Processes
    <3>7. IdsFor(s)' = IdsFor(s)
      BY <3>4, <3>5, <3>6, Zenon DEF IdsFor
    <3>8. SamePool(s)
      BY <1>a, PoolAtRest, Zenon
    <3>9. /\ fpc'[s] # "senderr" /\ (fpc'[s] = "send" <=> fpc[s] = "send")
          /\ fpc'[s] \in {"finish", "done"} => remaining[s] = 0
          /\ msg'[s] # <<>> => fpc'[s] = "forward"
          /\ \A w \in Workers : Processes(w, s) => fpc'[s] \in {"recv", "forward"}
      BY <1>a, <1>c, Zenon DEF CountInv
    <3>10. remaining'[s] = remaining[s] /\ total'[s] = total[s] /\ target'[s] = target[s]
      BY <1>a, Zenon
    <3>11. CountInv(s)'
      BY <1>c, <3>7, <3>8, <3>9, <3>10, KeptCount, Zenon
    <3> QED BY <2>3, <3>11, Zenon DEF EndInv
  <2> QED BY <2>1, <2>2, <2>3, Zenon
<1> QED BY <1>2, <1>3, <1>4, Zenon DEF Client

\* A step of worker w, busy with stream s or taking its request, leaves the other
\* streams alone.
LEMMA OtherJobs ==
  ASSUME Types, PoolInv, NEW w \in Workers, NEW s \in Streams, NEW r \in Streams, r # s,
         UNCHANGED <<fpc, outcome, received, resp, msg, remaining, total, target>>,
         chunks'[r] = chunks[r], ~ Processes(w, r), ~ Processes(w, r)', ~ Queues(w, r),
         ~ Queues(w, r)',
         \A v \in Workers : v # w =>
           /\ wpc'[v] = wpc[v] /\ job'[v] = job[v] /\ generated'[v] = generated[v]
           /\ buff'[v] = buff[v] /\ work'[v] = work[v]
  PROVE  SameStream(r)
<1>1. \A v \in Workers : v # w =>
        /\ Processes(v, r)' <=> Processes(v, r)
        /\ Queues(v, r)' <=> Queues(v, r)
  BY Zenon DEF Processes, Queues
<1>2. SamePool(r)
  BY <1>1, Zenon DEF SamePool
<1>3. SameContents(r)
  BY Zenon DEF SameContents
<1> QED BY <1>2, <1>3, Zenon DEF SameStream

LEMMA RecvWork_StreamInv ==
  ASSUME Types, PoolInv, NEW w \in Workers, RecvWork(w), \A r \in Streams : StreamInv(r)
  PROVE  \A r \in Streams : StreamInv(r)'
<1>a. /\ WorkerTypes /\ WorkerInv(w) /\ OneRequestPerStream
      /\ \A r \in Streams : FeedInv(r)
  BY Zenon DEF Types, PoolInv
<1>1. /\ wpc[w] = "recv" /\ work[w] # <<>> /\ Head(work[w]) # Shutdown
      /\ job' = [job EXCEPT ![w] = Head(work[w])]
      /\ generated' = [generated EXCEPT ![w] = 0]
      /\ work' = [work EXCEPT ![w] = Tail(@)]
      /\ wpc' = [wpc EXCEPT ![w] = "gen"]
      /\ UNCHANGED <<fpc, outcome, received, resp, msg, remaining, total, target, chunks, buff,
                     cancelled>>
  BY Zenon DEF RecvWork, WorkerAt, WorkerFrame, handlerVars, clientVars
<1>2. /\ Head(work[w]) \in WorkRequests /\ Head(work[w]) = work[w][1]
      /\ 1 \in DOMAIN work[w] /\ DOMAIN work'[w] = {}
      /\ \A v \in Workers : v # w => work'[v] = work[v]
  BY <1>a, <1>1, Dequeued, Zenon
<1>3. DOMAIN work[w] = {1}
  BY <1>a, <1>2, SeqLen DEF WorkerTypes
<1>4. PICK s \in Streams : s = work[w][1].stream
  BY <1>a, <1>1, <1>2, Zenon DEF WorkerInv
<1>5. /\ wpc'[w] = "gen" /\ job'[w] = work[w][1] /\ generated'[w] = 0
      /\ \A v \in Workers : v # w =>
           wpc'[v] = wpc[v] /\ job'[v] = job[v] /\ generated'[v] = generated[v]
  BY <1>a, <1>1, <1>2, Zenon DEF WorkerTypes
<1>6. ASSUME NEW r \in Streams, r # s PROVE StreamInv(r)'
  <2>1. ~ Processes(w, r) /\ ~ Processes(w, r)' /\ ~ Queues(w, r) /\ ~ Queues(w, r)'
    BY <1>1, <1>2, <1>3, <1>4, <1>5, <1>6, Zenon DEF Processes, Queues
  <2>2. SameStream(r)
    BY <1>1, <1>2, <1>5, <1>6, <2>1, OtherJobs, ZenonT(40)
  <2> QED BY <1>1, <2>2, Same_StreamInv, Zenon
<1>7. StreamInv(s)'
  <2>1. Queues(w, s) /\ Processes(w, s)' /\ ~ Queues(w, s)' /\ fpc[s] = "recv"
    <3>1. Queues(w, s)
      BY <1>2, <1>4, Zenon DEF Queues
    <3> QED BY <1>a, <1>2, <1>4, <1>5, <3>1, Zenon DEF Processes, Queues, FeedInv
  <2>2. \A v \in Workers : /\ ~ Processes(v, s)
                           /\ v # w => ~ Queues(v, s) /\ ~ Queues(v, s)' /\ ~ Processes(v, s)'
    <3>1. \A v \in Workers : ~ Processes(v, s) /\ (v # w => ~ Queues(v, s))
      BY <1>a, <2>1, Zenon DEF OneRequestPerStream
    <3>2. \A v \in Workers : v # w => ~ Queues(v, s)' /\ ~ Processes(v, s)'
      BY <1>2, <1>5, <3>1 DEF Processes, Queues
    <3> QED BY <3>1, <3>2, Zenon
  <2>3. InBuffer(s) = {} /\ InBuffer(s)' = {}
    <3>1. buff'[w] = <<>>
      BY <1>a, <1>1, Zenon DEF WorkerInv
    <3>2. \A v \in Workers : Processes(v, s)' => buff'[v] = <<>>
      BY <2>2, <3>1, Zenon
    <3> QED BY <2>2, <3>2, ElemsEmpty, Zenon DEF InBuffer
  <2>4. IdsFor(s)' = IdsFor(s)
    BY <1>1, <2>3, Zenon DEF IdsFor
  <2>5. StartInv(s)' /\ (EndInv(s) => EndInv(s)')
    BY <1>1, Zenon DEF StreamInv, StartInv, EndInv
  <2>6. ASSUME CountInv(s), outcome[s] = "open" PROVE CountInv(s)'
    <3>1. Balance(s, work[w][1].size)
      BY <2>1, <2>6, Zenon DEF CountInv
    <3>2. work[w][1].size \in Nat
      BY <1>2, Zenon DEF WorkRequests
    <3>3. job'[w].size - generated'[w] = work[w][1].size /\ generated'[w] <= job'[w].size
      BY <1>5, <3>2
    <3>4. Balance(s, job[w].size - generated[w])'
      BY <1>1, <2>4, <3>1, <3>3, Zenon DEF Balance
    <3>5. ChunkTxAlive(s)'
      BY <2>1, Zenon DEF ChunkTxAlive
    <3>6. /\ fpc'[s] = "recv" /\ (msg'[s] # <<>> => fpc'[s] = "forward")
          /\ IsFiniteSet(IdsFor(s)')
      BY <1>1, <2>1, <2>4, <2>6, Zenon DEF CountInv
    <3> QED BY <2>1, <2>2, <3>3, <3>4, <3>5, <3>6, Zenon DEF CountInv
  <2> QED BY <1>1, <2>5, <2>6, Zenon DEF StreamInv, CountInv
<1> QED BY <1>6, <1>7, Zenon

\* An id being made is new to its stream.
LEMMA Fresh ==
  ASSUME IdInv, Types, NEW w \in Workers, NEW s \in Streams, Processes(w, s),
         OneRequestPerStream
  PROVE  poll_id(w) \notin IdsFor(s)
<1>1. ~ Issued(poll_id(w))
  <2>1. poll_id(w).machine = Generator(w) /\ poll_id(w).n = issued[w] /\ issued[w] \in Nat
    BY Zenon DEF poll_id, Types, WorkerTypes
  <2>2. ASSUME NEW v \in Workers, poll_id(w).machine = Generator(v), poll_id(w).n < issued[v]
        PROVE  FALSE
    <3>1. v = w
      BY <2>1, <2>2, Generators, Zenon
    <3> QED BY <2>1, <2>2, <3>1
  <2> QED BY <2>2, Zenon DEF Issued
<1>2. ASSUME NEW x \in IdsFor(s) PROVE \E k, o, j, i : Holds(k, o, j, i, x)
  <2>1. CASE x \in Elems(received[s])
    <3>1. PICK i \in DOMAIN received[s] : x = received[s][i]
      BY <2>1, Zenon DEF Elems
    <3>2. Holds("received", s, 0, i, x)
      BY <3>1, Zenon DEF Holds
    <3> QED BY <3>2, Zenon
  <2>2. CASE x \in InMessages(resp[s])
    <3>1. PICK j \in DOMAIN resp[s] : x \in Elems(IdsIn(resp[s][j]))
      BY <2>2, Zenon DEF InMessages
    <3>2. PICK i \in DOMAIN resp[s][j].ids : x = resp[s][j].ids[i]
      BY <3>1, Zenon DEF Elems, IdsIn
    <3>3. Holds("resp", s, j, i, x)
      BY <3>1, <3>2, Zenon DEF Holds
    <3> QED BY <3>3, Zenon
  <2>3. CASE x \in Elems(msg[s])
    <3>1. PICK i \in DOMAIN msg[s] : x = msg[s][i]
      BY <2>3, Zenon DEF Elems
    <3>2. Holds("msg", s, 0, i, x)
      BY <3>1, Zenon DEF Holds
    <3> QED BY <3>2, Zenon
  <2>4. CASE x \in InChunks(chunks[s])
    <3>1. PICK j \in DOMAIN chunks[s] : x \in Elems(chunks[s][j])
      BY <2>4, Zenon DEF InChunks
    <3>2. PICK i \in DOMAIN chunks[s][j] : x = chunks[s][j][i]
      BY <3>1, Zenon DEF Elems
    <3>3. Holds("chunks", s, j, i, x)
      BY <3>1, <3>2, Zenon DEF Holds
    <3> QED BY <3>3, Zenon
  <2>5. CASE x \in InBuffer(s)
    <3>1. x \in Elems(buff[w])
      BY <2>5, BufferOf, Zenon
    <3>2. PICK i \in DOMAIN buff[w] : x = buff[w][i]
      BY <3>1, Zenon DEF Elems
    <3>3. Holds("buff", w, 0, i, x)
      BY <3>2, Zenon DEF Holds
    <3> QED BY <3>3, Zenon
  <2> QED BY <1>2, <2>1, <2>2, <2>3, <2>4, <2>5, Zenon DEF IdsFor
<1> QED BY <1>1, <1>2, Zenon DEF IdInv

LEMMA Regroup ==
  ASSUME NEW A, NEW B, NEW C PROVE A \cup (B \cup C) = (A \cup B) \cup C
  OBVIOUS

LEMMA Generate_StreamInv ==
  ASSUME SizeFacts, Types, PoolInv, PoolInv', IdInv, NEW w \in Workers, Generate(w),
         \A r \in Streams : StreamInv(r)
  PROVE  \A r \in Streams : StreamInv(r)'
<1>a. /\ WorkerTypes /\ WorkerInv(w) /\ OneRequestPerStream
      /\ wpc'[w] # "panicked"
  BY Zenon DEF Types, PoolInv, WorkerInv
<1>1. /\ wpc[w] = "gen" /\ generated[w] < job[w].size
      /\ generated' = [generated EXCEPT ![w] = @ + 1]
      /\ UNCHANGED <<fpc, outcome, received, resp, msg, remaining, total, target, chunks, job,
                     cancelled>>
  BY Zenon DEF Generate, WorkerFrame, handlerVars, clientVars
<1>2. /\ UNCHANGED work /\ buff' = [buff EXCEPT ![w] = Append(@, poll_id(w))]
      /\ \E l \in {"emit", "gen"} : wpc' = [wpc EXCEPT ![w] = l]
  <2>1. wpc' # [wpc EXCEPT ![w] = "panicked"]
    BY <1>a, Zenon DEF WorkerTypes
  <2> QED BY <2>1, Zenon DEF Generate, WorkerAt
<1>3. PICK s \in Streams : s = job[w].stream
  BY <1>a, <1>1, Zenon DEF WorkerInv
<1>4. /\ wpc'[w] \in {"emit", "gen"} /\ generated'[w] = generated[w] + 1
      /\ buff'[w] = Append(buff[w], poll_id(w))
      /\ \A v \in Workers : v # w =>
           wpc'[v] = wpc[v] /\ generated'[v] = generated[v] /\ buff'[v] = buff[v]
  BY <1>a, <1>1, <1>2, Zenon DEF WorkerTypes
<1>5. Processes(w, s) /\ Processes(w, s)'
  BY <1>1, <1>3, <1>4, Zenon DEF Processes
<1>6. ASSUME NEW r \in Streams, r # s PROVE StreamInv(r)'
  <2>1. SamePool(r)
    <3>1. \A v \in Workers : (Queues(v, r)' <=> Queues(v, r)) /\ work'[v] = work[v]
      BY <1>2, Zenon DEF Queues
    <3>2. ~ Processes(w, r) /\ ~ Processes(w, r)'
      BY <1>1, <1>3, <1>6, Zenon DEF Processes
    <3>3. \A v \in Workers : v # w => (Processes(v, r)' <=> Processes(v, r))
      BY <1>1, <1>4, Zenon DEF Processes
    <3> QED BY <1>1, <1>4, <3>1, <3>2, <3>3, Zenon DEF SamePool
  <2>2. SameContents(r)
    <3>1. ~ Processes(w, r)
      BY <1>1, <1>3, <1>6, Zenon DEF Processes
    <3> QED BY <1>1, <1>4, <3>1, Zenon DEF SameContents
  <2> QED BY <1>1, <2>1, <2>2, Same_StreamInv, Zenon DEF SameStream
<1>7. StreamInv(s)'
  <2>1. \A v \in Workers : /\ ~ Queues(v, s) /\ ~ Queues(v, s)'
                           /\ v # w => ~ Processes(v, s)'
    <3>1. \A v \in Workers : ~ Queues(v, s) /\ (v # w => ~ Processes(v, s))
      BY <1>a, <1>5, Zenon DEF OneRequestPerStream
    <3> QED BY <1>1, <1>2, <1>4, <3>1, Zenon DEF Processes, Queues
  <2>2. IdsFor(s)' = IdsFor(s) \cup {poll_id(w)}
    <3>1. InBuffer(s) = Elems(buff[w])
      BY <1>a, <1>5, BufferOf, Zenon
    <3>2. InBuffer(s)' = Elems(buff'[w])
      <4>1. {v \in Workers : Processes(v, s)'} = {w}
        BY <1>5, <2>1, Zenon
      <4> QED BY <4>1, Zenon DEF InBuffer
    <3>3. Elems(buff'[w]) = Elems(buff[w]) \cup {poll_id(w)}
      <4>1. buff[w] \in Seq(Ids) /\ poll_id(w) \in Ids
        BY <1>a, NewId, Zenon DEF WorkerTypes
      <4> DEFINE q == buff[w]
                 x == poll_id(w)
      <4>2. q \in Seq(Ids) /\ x \in Ids
        BY <4>1, Zenon
      <4> HIDE DEF q, x
      <4>3. Elems(Append(q, x)) = Elems(q) \cup {x}
        BY <4>2, ElemsAppend, ZenonT(40)
      <4> QED BY <1>4, <4>3, Zenon DEF q, x
    <3> DEFINE sent == Elems(received[s]) \cup InMessages(resp[s]) \cup Elems(msg[s])
                         \cup InChunks(chunks[s])
    <3>4. IdsFor(s) = sent \cup InBuffer(s) /\ IdsFor(s)' = sent \cup InBuffer(s)'
      BY <1>1, Zenon DEF IdsFor
    <3> HIDE DEF sent
    <3>5. IdsFor(s)' = sent \cup (InBuffer(s) \cup {poll_id(w)})
      BY <3>1, <3>2, <3>3, <3>4, Zenon
    <3> QED BY <3>4, <3>5, Regroup, Zenon
  <2>3. poll_id(w) \notin IdsFor(s)
    BY <1>a, <1>5, Fresh, Zenon
  <2>4. StartInv(s)' /\ (EndInv(s) => EndInv(s)')
    BY <1>1, Zenon DEF StreamInv, StartInv, EndInv
  <2>5. ASSUME CountInv(s), outcome[s] = "open" PROVE CountInv(s)'
    <3>1. /\ IsFiniteSet(IdsFor(s)) /\ Balance(s, job[w].size - generated[w])
          /\ fpc[s] # "senderr" /\ fpc[s] \in {"recv", "forward"}
          /\ msg[s] # <<>> => fpc[s] = "forward"
      BY <1>5, <2>5, Zenon DEF CountInv
    <3>2. /\ IsFiniteSet(IdsFor(s)') /\ Cardinality(IdsFor(s)') = Cardinality(IdsFor(s)) + 1
          /\ Cardinality(IdsFor(s)) \in Nat
      BY <2>2, <2>3, <3>1, SizeAdd, Zenon
    <3>3. /\ generated[w] \in Nat /\ job[w].size \in Nat /\ remaining[s] \in Nat
          /\ total[s] \in Nat
      BY <1>a, Zenon DEF WorkerTypes, WorkRequests, Types, FeedTypes
    <3>4. Balance(s, job[w].size - generated[w])' /\ generated'[w] <= job'[w].size
      <4>1. job'[w] = job[w] /\ remaining'[s] = remaining[s] /\ total'[s] = total[s]
        BY <1>1, Zenon
      <4>2. /\ generated'[w] = generated[w] + 1 /\ generated[w] < job[w].size
            /\ Balance(s, job[w].size - generated[w])
        BY <1>1, <1>4, <3>1, Zenon
      <4>3. /\ (Cardinality(IdsFor(s)) + 1) + (job[w].size - (generated[w] + 1))
                 + remaining[s] = total[s]
            /\ generated[w] + 1 <= job[w].size
        BY <3>2, <3>3, <4>2, SMTT(30) DEF Balance
      <4> QED BY <3>2, <4>1, <4>2, <4>3, Zenon DEF Balance
    <3>5. fpc'[s] \in {"recv", "forward"} /\ (msg'[s] # <<>> => fpc'[s] = "forward")
      BY <1>1, <3>1, Zenon
    <3>6. ChunkTxAlive(s)'
      BY <1>5, Zenon DEF ChunkTxAlive
    <3> QED BY <2>1, <3>2, <3>4, <3>5, <3>6, Zenon DEF CountInv
  <2> QED BY <1>1, <2>4, <2>5, Zenon DEF StreamInv, CountInv
<1> QED BY <1>6, <1>7, Zenon

\* EmitChunk and Flush move the buffer to the channel, or lose it with a stream that
\* is no longer open.
LEMMA Sent_StreamInv ==
  ASSUME Types, PoolInv, NEW w \in Workers, EmitChunk(w) \/ Flush(w),
         \A r \in Streams : StreamInv(r)
  PROVE  \A r \in Streams : StreamInv(r)'
<1>a. /\ WorkerTypes /\ WorkerInv(w) /\ OneRequestPerStream
      /\ \A r \in Streams : FeedInv(r)
      /\ chunks \in [Streams -> Seq(Seq(Ids))]
  BY Zenon DEF Types, PoolInv, FeedTypes
<1>1. /\ wpc[w] \in {"gen", "emit"} /\ UNCHANGED <<work, job, generated>>
      /\ UNCHANGED <<fpc, outcome, received, resp, msg, remaining, total, target, cancelled>>
  BY Zenon DEF EmitChunk, Flush, WorkerFrame, handlerVars, clientVars
<1>2. PICK s \in Streams : s = job[w].stream
  BY <1>a, <1>1, Zenon DEF WorkerInv
<1>3. Processes(w, s) /\ JobInv(w, s)
  BY <1>a, <1>1, <1>2, Zenon DEF Processes, FeedInv
<1>4. \/ buff[w] = <<>> /\ UNCHANGED <<chunks, buff>>
      \/ /\ chunks' = [chunks EXCEPT ![s] = Append(@, buff[w])]
         /\ buff' = [buff EXCEPT ![w] = <<>>]
  <2>1. CASE buff[w] = <<>> /\ UNCHANGED <<chunks, buff>>
    BY <2>1, Zenon
  <2>2. CASE ChunkRxAlive(s)
    BY <1>2, <2>1, <2>2, Zenon DEF EmitChunk, Flush
  <2>3. CASE ~ ChunkRxAlive(s)
    <3>1. wpc[w] = "gen" /\ buff[w] = <<>>
      BY <1>3, <2>3, Zenon DEF JobInv, ChunkRxAlive
    <3> QED BY <1>2, <2>3, <3>1, Zenon DEF EmitChunk, Flush
  <2> QED BY <2>2, <2>3, Zenon
<1>5. /\ wpc' = [wpc EXCEPT ![w] = "gen"] \/ wpc' = [wpc EXCEPT ![w] = "recv"]
      /\ wpc' = [wpc EXCEPT ![w] = "recv"] => generated[w] >= job[w].size
  <2>1. CASE Flush(w)
    BY <2>1, Zenon DEF Flush, WorkerAt
  <2>2. CASE EmitChunk(w)
    <3>1. ChunkRxAlive(s)
      BY <1>3, <2>2, Zenon DEF JobInv, EmitChunk, ChunkRxAlive
    <3>2. wpc' = [wpc EXCEPT ![w] = "gen"]
      BY <1>2, <2>2, <3>1, Zenon DEF EmitChunk, WorkerAt
    <3>3. [wpc EXCEPT ![w] = "gen"] # [wpc EXCEPT ![w] = "recv"]
      BY <1>a, Zenon DEF WorkerTypes
    <3> QED BY <3>2, <3>3, Zenon
  <2> QED BY <2>1, <2>2, Zenon
<1>6. /\ wpc'[w] \in {"gen", "recv"} /\ (wpc'[w] = "recv" => generated[w] >= job[w].size)
      /\ \A v \in Workers : v # w => wpc'[v] = wpc[v] /\ buff'[v] = buff[v]
      /\ \A r \in Streams : r # s => chunks'[r] = chunks[r]
  <2>1. wpc \in [Workers -> {"recv", "gen", "emit", "stopping", "stopped", "panicked"}]
    BY <1>a, Zenon DEF WorkerTypes
  <2>2. wpc'[w] \in {"gen", "recv"} /\ (wpc'[w] = "recv" => generated[w] >= job[w].size)
    BY <1>5, <2>1, Zenon
  <2>3. \A v \in Workers : v # w => wpc'[v] = wpc[v] /\ buff'[v] = buff[v]
    BY <1>a, <1>4, <1>5, <2>1, Zenon DEF WorkerTypes
  <2>4. \A r \in Streams : r # s => chunks'[r] = chunks[r]
    BY <1>a, <1>4, Zenon
  <2> QED BY <2>2, <2>3, <2>4, Zenon
<1>7. ASSUME NEW r \in Streams, r # s PROVE StreamInv(r)'
  <2>1. ~ Processes(w, r) /\ ~ Processes(w, r)'
    BY <1>1, <1>2, <1>7, Zenon DEF Processes
  <2>2. SamePool(r)
    <3>1. \A v \in Workers : v # w => (Processes(v, r)' <=> Processes(v, r))
      BY <1>1, <1>6, Zenon DEF Processes
    <3>2. \A v \in Workers : (Queues(v, r)' <=> Queues(v, r)) /\ work'[v] = work[v]
      BY <1>1, Zenon DEF Queues
    <3> QED BY <1>1, <2>1, <3>1, <3>2, Zenon DEF SamePool
  <2>3. SameContents(r)
    BY <1>1, <1>6, <1>7, <2>1, Zenon DEF SameContents
  <2> QED BY <1>1, <2>2, <2>3, Same_StreamInv, Zenon DEF SameStream
<1>8. StreamInv(s)'
  <2>1. \A v \in Workers : /\ ~ Queues(v, s) /\ ~ Queues(v, s)'
                           /\ v # w => ~ Processes(v, s) /\ ~ Processes(v, s)'
    <3>1. \A v \in Workers : ~ Queues(v, s) /\ (v # w => ~ Processes(v, s))
      BY <1>a, <1>3, Zenon DEF OneRequestPerStream
    <3> QED BY <1>1, <1>6, <3>1, Zenon DEF Processes, Queues
  <2>2. InBuffer(s) = Elems(buff[w])
    BY <1>a, <1>3, BufferOf, Zenon
  <2>3. InBuffer(s)' = {} /\ InChunks(chunks'[s]) = InChunks(chunks[s]) \cup Elems(buff[w])
    <3>1. buff'[w] = <<>>
      BY <1>a, <1>4, Zenon DEF WorkerTypes
    <3>2. InBuffer(s)' = {}
      <4>1. \A v \in Workers : Processes(v, s)' => buff'[v] = <<>>
        BY <2>1, <3>1, Zenon
      <4> QED BY <4>1, ElemsEmpty, Zenon DEF InBuffer
    <3>3. CASE buff[w] = <<>> /\ UNCHANGED chunks
      BY <3>2, <3>3, ElemsEmpty, Zenon
    <3>4. CASE chunks' = [chunks EXCEPT ![s] = Append(@, buff[w])]
      <4>1. /\ chunks[s] \in Seq(Seq(Ids)) /\ buff[w] \in Seq(Ids)
            /\ chunks'[s] = Append(chunks[s], buff[w])
        BY <1>a, <3>4, Zenon DEF WorkerTypes
      <4>2. InChunks(chunks'[s]) = InChunks(chunks[s]) \cup Elems(buff[w])
        BY <4>1, ChunkSent, Zenon
      <4> QED BY <3>2, <4>2, Zenon
    <3> QED BY <1>4, <3>3, <3>4, Zenon
  <2>4. IdsFor(s)' = IdsFor(s)
    BY <1>1, <2>2, <2>3, Zenon DEF IdsFor
  <2>5. StartInv(s)' /\ (EndInv(s) => EndInv(s)')
    BY <1>1, Zenon DEF StreamInv, StartInv, EndInv
  <2>6. ASSUME CountInv(s), outcome[s] = "open" PROVE CountInv(s)'
    <3>1. /\ IsFiniteSet(IdsFor(s)) /\ Balance(s, job[w].size - generated[w])
          /\ fpc[s] \in {"recv", "forward"} /\ generated[w] <= job[w].size
          /\ msg[s] # <<>> => fpc[s] = "forward"
      BY <1>3, <2>6, Zenon DEF CountInv
    <3>2. /\ fpc'[s] \in {"recv", "forward"} /\ (msg'[s] # <<>> => fpc'[s] = "forward")
          /\ IsFiniteSet(IdsFor(s)')
          /\ Balance(s, job[w].size - generated[w])' /\ generated'[w] <= job'[w].size
      BY <1>1, <2>4, <3>1, Zenon DEF Balance
    <3>3. CASE wpc'[w] = "gen"
      <4>1. Processes(w, s)'
        BY <1>1, <1>2, <3>3, Zenon DEF Processes
      <4>2. ChunkTxAlive(s)'
        BY <4>1, Zenon DEF ChunkTxAlive
      <4> QED BY <2>1, <3>2, <4>2, Zenon DEF CountInv
    <3>4. CASE wpc'[w] = "recv"
      <4>1. \A v \in Workers : ~ Processes(v, s)'
        BY <2>1, <3>4, Zenon DEF Processes
      <4>2. job'[w].size - generated'[w] = 0
        <5>1. generated[w] \in Nat /\ job[w].size \in Nat
          BY <1>a, Zenon DEF WorkerTypes, WorkRequests
        <5>2. job'[w].size - generated'[w] = job[w].size - generated[w]
          BY <1>1, Zenon
        <5> QED BY <1>6, <3>1, <3>4, <5>1, <5>2
      <4>3. Balance(s, 0)'
        BY <3>2, <4>2, Zenon DEF Balance
      <4> QED BY <2>1, <3>2, <4>1, <4>3, Zenon DEF CountInv
    <3> QED BY <1>6, <3>3, <3>4, Zenon
  <2> QED BY <1>1, <2>5, <2>6, Zenon DEF StreamInv, CountInv
<1> QED BY <1>7, <1>8, Zenon

LEMMA Next_DeliveryInv ==
  ASSUME SizeFacts, Types, PoolInv, PoolInv', IdInv, DeliveryInv, [Next]_vars
  PROVE  DeliveryInv'
<1>a. OrderInv /\ OrderInv' /\ \A r \in Streams : StreamInv(r)
  BY Next_OrderInv, Zenon DEF DeliveryInv
<1> SUFFICES \A r \in Streams : StreamInv(r)'
  BY <1>a, Zenon DEF DeliveryInv
<1>1. ASSUME NEW s \in Streams, Handler(s) \/ Feed(s) \/ Client(s)
      PROVE  \A r \in Streams : StreamInv(r)'
  <2>1. UNCHANGED cancelled
    BY <1>1, Zenon DEF Handler, Request, Admit, Finish, HandlerFrame, Feed, NextChunk,
      AllRequested, SendRequest, WorkerGone, RecvChunk, RecvNone, Forward, ClientGone,
      SurfaceError, FeedFrame, Client, Read, ReadEnd, Disconnect, ClientFrame, shutdownVars
  <2>2. StreamInv(s)'
    BY <1>a, <1>1, Handler_StreamInv, Feed_StreamInv, Client_StreamInv, Zenon
  <2>3. ASSUME NEW r \in Streams, r # s PROVE StreamInv(r)'
    <3>1. SameStream(r)
      BY <1>1, <2>3, OtherStreams, Zenon
    <3> QED BY <1>a, <2>1, <3>1, Same_StreamInv, Zenon
  <2> QED BY <2>2, <2>3, Zenon
<1>2. ASSUME NEW w \in Workers, RecvShutdown(w) \/ Stop(w)
      PROVE  \A r \in Streams : StreamInv(r)'
  <2>1. /\ cancelled' = cancelled
        /\ UNCHANGED <<fpc, outcome, received, resp, msg, total>>
    BY <1>2, Zenon DEF RecvShutdown, Stop, WorkerFrame, handlerVars, clientVars
  <2>2. cancelled'
    <3>1. wpc'[w] \in {"stopping", "stopped"}
      BY <1>2, Zenon DEF Types, WorkerTypes, RecvShutdown, Stop, WorkerAt
    <3> QED BY <1>a, <3>1, Zenon DEF OrderInv
  <2>3. \A r \in Streams : StartInv(r)'
    BY <1>a, <2>1, Zenon DEF StreamInv, StartInv
  <2> QED BY <2>2, <2>3, Zenon DEF StreamInv
<1>3. CASE BeginShutdown \/ ShutdownTask
  <2>1. UNCHANGED <<fpc, outcome, received, resp, msg, remaining, total, target, chunks, wpc,
                    job, generated, buff>>
    BY <1>3, Zenon DEF BeginShutdown, ShutdownTask, Drained, DrainTimeout, Cancel,
      NotifyWorker, AllNotified, AllAcked, AckTimeout, ShutdownFrame, handlerVars, clientVars,
      workerVars
  <2>2. CASE cancelled'
    BY <1>a, <2>1, <2>2, Zenon DEF StreamInv, StartInv
  <2>3. CASE ~ cancelled'
    <3>1. UNCHANGED <<work, cancelled>>
      <4>1. UNCHANGED cancelled
        BY <1>3, <2>3, Zenon DEF BeginShutdown, ShutdownTask, Drained, DrainTimeout, Cancel,
          NotifyWorker, AllNotified, AllAcked, AckTimeout
      <4>2. spc # "notify"
        BY <1>a, <2>3, <4>1, Zenon DEF OrderInv
      <4> QED BY <1>3, <4>1, <4>2, Zenon DEF BeginShutdown, ShutdownTask, Drained,
        DrainTimeout, Cancel, NotifyWorker, AllNotified, AllAcked, AckTimeout
    <3>2. \A r \in Streams : SamePool(r)
      BY <2>1, <3>1, PoolAtRest, Zenon
    <3>3. \A r \in Streams : SameStream(r)
      BY <2>1, <3>2, Zenon DEF SameStream, SameContents
    <3> QED BY <1>a, <3>1, <3>3, Same_StreamInv, Zenon
  <2> QED BY <2>2, <2>3, Zenon
<1>4. CASE UNCHANGED vars \/ Terminated
  <2>1. UNCHANGED <<fpc, outcome, received, resp, msg, remaining, total, target, chunks, wpc,
                    job, generated, buff, work, cancelled>>
    BY <1>4, Zenon DEF Terminated, vars, handlerVars, clientVars, workerVars, shutdownVars
  <2>2. \A r \in Streams : SamePool(r)
    BY <2>1, PoolAtRest, Zenon
  <2>3. \A r \in Streams : SameStream(r)
    BY <2>1, <2>2, Zenon DEF SameStream, SameContents
  <2> QED BY <1>a, <2>1, <2>3, Same_StreamInv, Zenon
<1> QED BY <1>a, <1>1, <1>2, <1>3, <1>4, RecvWork_StreamInv, Generate_StreamInv,
  Sent_StreamInv, Zenon DEF Next, Worker

LEMMA Init_DeliveryInv == Init => DeliveryInv
<1> SUFFICES ASSUME Init PROVE DeliveryInv
  BY Zenon
<1>1. OrderInv
  BY DEF Init, OrderInv
<1>2. ASSUME NEW s \in Streams PROVE StreamInv(s)
  <2>1. /\ outcome[s] = "none" /\ received[s] = <<>> /\ resp[s] = <<>> /\ msg[s] = <<>>
    BY Zenon DEF Init
  <2> QED BY <2>1, Zenon DEF StreamInv, StartInv, CountInv, EndInv
<1> QED BY <1>1, <1>2, Zenon DEF DeliveryInv

-----------------------------------------------------------------------------
(***************************************************************************)
(* What the server counts: the streams in flight and the ids delivered to  *)
(* a stream.                                                               *)
(***************************************************************************)
INSTANCE FiniteSetTheorems

(* The counter of streams in flight. *)

\* A request that panics on a channel of capacity zero has been counted too.
Counted == {s \in Streams : fpc[s] \in {"panicked", "loop", "send", "recv", "forward",
                                        "senderr", "finish"}}

InflightInv ==
  /\ STREAMS_INFLIGHT = Cardinality(Counted) /\ IsFiniteSet(Counted)
  /\ StreamBufferSize # 0 => \A s \in Streams : fpc[s] # "panicked"

\* The handlers and feed_chunks tasks are what moves fpc and the counter.
LEMMA FpcSteps ==
  ASSUME [Next]_vars
  PROVE  \/ UNCHANGED <<fpc, STREAMS_INFLIGHT>>
         \/ \E s \in Streams : Handler(s) \/ Feed(s)
<1>1. CASE UNCHANGED vars \/ Terminated
  BY <1>1, Zenon DEF Terminated, vars, handlerVars
<1>2. ASSUME NEW s \in Streams, Client(s) PROVE UNCHANGED <<fpc, STREAMS_INFLIGHT>>
  BY <1>2, Zenon DEF Client, Read, ReadEnd, Disconnect, ClientFrame, handlerVars
<1>3. ASSUME NEW w \in Workers, Worker(w) PROVE UNCHANGED <<fpc, STREAMS_INFLIGHT>>
  BY <1>3, Zenon DEF Worker, RecvWork, Generate, EmitChunk, Flush, RecvShutdown, Stop,
    WorkerFrame, handlerVars
<1>4. CASE BeginShutdown \/ ShutdownTask
  BY <1>4, Zenon DEF BeginShutdown, ShutdownTask, Drained, DrainTimeout, Cancel, NotifyWorker,
    AllNotified, AllAcked, AckTimeout, ShutdownFrame, handlerVars
<1> QED BY <1>1, <1>2, <1>3, <1>4, ZenonT(40) DEF Next

LEMMA Init_InflightInv == Init => InflightInv
<1> SUFFICES ASSUME Init PROVE InflightInv
  BY Zenon
<1>1. \A s \in Streams : fpc[s] = "new"
  BY Zenon DEF Init
<1>2. Counted = {}
  BY <1>1, Zenon DEF Counted
<1>3. STREAMS_INFLIGHT = 0
  BY Zenon DEF Init
<1> QED BY <1>1, <1>2, <1>3, FS_EmptySet, ZenonT(40) DEF InflightInv

LEMMA Next_InflightInv == Types /\ InflightInv /\ [Next]_vars => InflightInv'
<1> SUFFICES ASSUME Types, InflightInv, [Next]_vars PROVE InflightInv'
  BY Zenon
<1>a. fpc \in [Streams -> {"new", "rejected", "checked", "panicked", "loop", "send",
                           "recv", "forward", "senderr", "finish", "done"}]
  BY Zenon DEF Types, FeedTypes
<1>b. /\ STREAMS_INFLIGHT = Cardinality(Counted) /\ IsFiniteSet(Counted)
      /\ StreamBufferSize # 0 => \A s \in Streams : fpc[s] # "panicked"
      /\ Cardinality(Counted) \in Nat
  BY FS_CardinalityType, Zenon DEF InflightInv
<1>1. CASE UNCHANGED <<fpc, STREAMS_INFLIGHT>>
  <2>1. Counted' = Counted
    BY <1>1, Zenon DEF Counted
  <2> QED BY <1>b, <1>1, <2>1, ZenonT(40) DEF InflightInv
<1>2. ASSUME NEW s \in Streams, Admit(s) PROVE InflightInv'
  <2>1. \/ fpc' = [fpc EXCEPT ![s] = "loop"]
        \/ fpc' = [fpc EXCEPT ![s] = "panicked"] /\ StreamBufferSize = 0
    BY <1>2, Zenon DEF Admit, GoTo
  <2>2. fpc[s] = "checked" /\ STREAMS_INFLIGHT' = STREAMS_INFLIGHT + 1
    BY <1>2, Zenon DEF Admit
  <2>3. Counted' = Counted \cup {s} /\ s \notin Counted
    BY <1>a, <2>1, <2>2, Zenon DEF Counted
  <2>4. IsFiniteSet(Counted') /\ Cardinality(Counted') = Cardinality(Counted) + 1
    BY <1>b, <2>3, FS_AddElement, Zenon
  <2> QED BY <1>a, <1>b, <2>1, <2>2, <2>4, ZenonT(40) DEF InflightInv
<1>3. ASSUME NEW s \in Streams, Finish(s) PROVE InflightInv'
  <2>1. /\ fpc[s] = "finish" /\ STREAMS_INFLIGHT' = STREAMS_INFLIGHT - 1
        /\ fpc' = [fpc EXCEPT ![s] = "done"]
    BY <1>3, Zenon DEF Finish, GoTo
  <2>2. Counted' = Counted \ {s} /\ s \in Counted
    BY <1>a, <2>1, ZenonT(40) DEF Counted
  <2>3. IsFiniteSet(Counted') /\ Cardinality(Counted') = Cardinality(Counted) - 1
    BY <1>b, <2>2, FS_RemoveElement, ZenonT(40)
  <2> QED BY <1>a, <1>b, <2>1, <2>3, ZenonT(40) DEF InflightInv
<1>4. ASSUME NEW s \in Streams, Feed(s) \/ \E n \in Counts[s] : Request(s, n)
      PROVE  InflightInv'
  <2>1. /\ STREAMS_INFLIGHT' = STREAMS_INFLIGHT
        /\ \/ /\ fpc[s] = "new"
              /\ \E l \in {"rejected", "checked"} : fpc' = [fpc EXCEPT ![s] = l]
           \/ /\ fpc[s] \in {"loop", "send", "recv", "forward", "senderr"}
              /\ \E l \in {"loop", "send", "recv", "forward", "senderr", "finish"} :
                   fpc' = [fpc EXCEPT ![s] = l]
    <3>1. ASSUME NEW n \in Counts[s], Request(s, n)
          PROVE  /\ STREAMS_INFLIGHT' = STREAMS_INFLIGHT /\ fpc[s] = "new"
                 /\ \E l \in {"rejected", "checked"} : fpc' = [fpc EXCEPT ![s] = l]
      BY <3>1, Zenon DEF Request, GoTo
    <3>2. CASE Feed(s)
      BY <3>2, ZenonT(40) DEF Feed, NextChunk, AllRequested, SendRequest, WorkerGone, RecvChunk,
        RecvNone, Forward, ClientGone, SurfaceError, FeedFrame, GoTo
    <3> QED BY <1>4, <3>1, <3>2, Zenon
  <2>2. Counted' = Counted /\ \A r \in Streams : fpc'[r] = "panicked" => fpc[r] = "panicked"
    BY <1>a, <2>1, Zenon DEF Counted
  <2> QED BY <1>b, <2>1, <2>2, Zenon DEF InflightInv
<1> QED BY <1>1, <1>2, <1>3, <1>4, FpcSteps, ZenonT(40) DEF Handler

LEMMA CountedInflight ==
  ASSUME InflightInv, StreamBufferSize # 0 PROVE InflightExact
<1>1. Counted = {s \in Streams : fpc[s] \in {"loop", "send", "recv", "forward", "senderr",
                                             "finish"}}
  BY Zenon DEF InflightInv, Counted
<1> QED BY <1>1, Zenon DEF InflightInv, InflightExact
-----------------------------------------------------------------------------
FlagTypes == SHUTDOWN \in BOOLEAN /\ cancelled \in BOOLEAN

LEMMA Next_FlagTypes == FlagTypes /\ [Next]_vars => FlagTypes'
<1> SUFFICES ASSUME FlagTypes, [Next]_vars PROVE FlagTypes'
  BY Zenon
<1>1. CASE UNCHANGED vars \/ Terminated
  BY <1>1, Zenon DEF Terminated, vars, shutdownVars, FlagTypes
<1>2. ASSUME NEW s \in Streams, Handler(s) \/ Feed(s) \/ Client(s) PROVE FlagTypes'
  BY <1>2, ZenonT(40) DEF Handler, Request, Admit, Finish, HandlerFrame, Feed, NextChunk,
    AllRequested, SendRequest, WorkerGone, RecvChunk, RecvNone, Forward, ClientGone,
    SurfaceError, FeedFrame, Client, Read, ReadEnd, Disconnect, ClientFrame, shutdownVars,
    FlagTypes
<1>3. ASSUME NEW w \in Workers, Worker(w) PROVE FlagTypes'
  BY <1>3, Zenon DEF Worker, RecvWork, Generate, EmitChunk, Flush, RecvShutdown, Stop,
    WorkerFrame, FlagTypes
<1>4. CASE BeginShutdown \/ ShutdownTask
  BY <1>4, Zenon DEF BeginShutdown, ShutdownTask, Drained, DrainTimeout, Cancel,
    NotifyWorker, AllNotified, AllAcked, AckTimeout, FlagTypes
<1> QED BY <1>1, <1>2, <1>3, <1>4, ZenonT(40) DEF Next

LEMMA TypesOK == ASSUME Types, FlagTypes, InflightInv PROVE TypeOK
<1>1. STREAMS_INFLIGHT \in Nat
  BY FS_CardinalityType, Zenon DEF InflightInv
<1> QED BY <1>1, Zenon DEF Types, FlagTypes, FeedTypes, ClientTypes, WorkerTypes,
  ShutdownTypes, TypeOK

\* Every variable keeps its type, the counter of streams in flight never goes
\* below zero, and no channel holds more than its capacity.
THEOREM TypeCorrect == Spec => []TypeOK
<1>1. Init => Types /\ FlagTypes /\ InflightInv
  BY Init_Types, Init_InflightInv, Zenon DEF Init, FlagTypes
<1>2. (Types /\ FlagTypes /\ InflightInv) /\ [Next]_vars
        => (Types /\ FlagTypes /\ InflightInv)'
  BY Next_Types, Next_FlagTypes, Next_InflightInv, Zenon
<1>3. Types /\ FlagTypes /\ InflightInv => TypeOK
  BY TypesOK, Zenon
<1> QED BY <1>1, <1>2, <1>3, PTL DEF Spec

\* STREAMS_INFLIGHT counts exactly the streams between its increment in
\* stream_ids and its decrement, in every interleaving, as long as the channel to
\* the client has room for a message.
THEOREM Inflight == (StreamBufferSize # 0) => (Spec => []InflightExact)
<1> SUFFICES ASSUME StreamBufferSize # 0 PROVE Spec => []InflightExact
  BY Zenon
<1>1. Init => Types /\ InflightInv
  BY Init_Types, Init_InflightInv, Zenon
<1>2. (Types /\ InflightInv) /\ [Next]_vars => (Types /\ InflightInv)'
  BY Next_Types, Next_InflightInv, Zenon
<1>3. Types /\ InflightInv => InflightExact
  BY CountedInflight, Zenon
<1> QED BY <1>1, <1>2, <1>3, PTL DEF Spec
-----------------------------------------------------------------------------
\* Until the shutdown token is cancelled a stream that ends without an error has
\* delivered every id asked for, whatever the sizes of chunks and buffers.
THEOREM Complete == Spec => []CompleteUnlessShutdown
<1>0. SizeFacts
  <2>1. ASSUME NEW S, IsFiniteSet(S) PROVE Cardinality(S) \in Nat
    BY <2>1, FS_CardinalityType, Zenon
  <2>2. ASSUME NEW S, NEW x, IsFiniteSet(S), x \notin S
        PROVE  IsFiniteSet(S \cup {x}) /\ Cardinality(S \cup {x}) = Cardinality(S) + 1
    BY <2>2, FS_AddElement, Zenon
  <2>3. ASSUME NEW S, NEW q, NEW n \in Nat, Enumerates(q, n, S)
        PROVE  Cardinality(S) = n
    <3>1. q \in Bijection(1 .. n, S)
      BY <2>3, Zenon DEF Enumerates, Bijection, Injection, IsInjective, Surjection
    <3> QED BY <3>1, FS_CountingElements, Zenon DEF ExistsBijection
  <2>4. IsFiniteSet({}) /\ Cardinality({}) = 0
    BY FS_EmptySet, Zenon
  <2> QED BY <2>1, <2>2, <2>3, <2>4, ZenonT(40) DEF SizeFacts
<1>1. Init => Types /\ PoolInv /\ IdInv /\ DeliveryInv
  BY Init_Types, Init_PoolInv, Init_IdInv, Init_DeliveryInv, ZenonT(40)
<1>2. (Types /\ PoolInv /\ IdInv /\ DeliveryInv) /\ [Next]_vars
        => (Types /\ PoolInv /\ IdInv /\ DeliveryInv)'
  BY <1>0, Next_Types, Next_PoolInv, Next_IdInv, Next_DeliveryInv, ZenonT(40)
<1>3. DeliveryInv => CompleteUnlessShutdown
  BY Zenon DEF DeliveryInv, StreamInv, EndInv, CompleteUnlessShutdown, Short
<1> QED BY <1>1, <1>2, <1>3, PTL DEF Spec
=============================================================================
