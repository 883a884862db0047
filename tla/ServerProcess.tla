--------------------------- MODULE ServerProcess ---------------------------
(***************************************************************************)
(* The life of the server process: main.rs and telemetry.rs.  Processes    *)
(* started for the same address, one to replace the other or by mistake,   *)
(* share a port or the path of a Unix socket.  A process reads its         *)
(* configuration, sets up telemetry, binds, serves, and shuts down on a    *)
(* signal; it may crash anywhere.  A TCP port is free when its process is  *)
(* gone; the file of a Unix socket stays when its process crashes.         *)
(* Of a stream only its handler's bookkeeping and what the client gets is  *)
(* modelled (handler.rs): one or two chunks, of one id each, and an error. *)
(* The channel to the client holds one item (stream_buffer_size is 1), so  *)
(* a client that does not read stops the task that feeds it.               *)
(* How ids are made, and WorkerPool::shutdown, are StreamServer's.         *)
(* External: the supervisor that starts processes; clients; tonic's        *)
(* server, which on shutdown stops accepting and waits, without a limit,   *)
(* for the responses under way; the operating system.                      *)
(***************************************************************************)
EXTENDS Integers, FiniteSets

CONSTANTS
  Processes, NoProcess,
  Built,            \* the builds, of those below, that may be deployed
  Streams,          \* requests one process may get in its life
  MaxCrashes,       \* bound on crashes
  MaxExits          \* bound on exits by a signal or an error

ASSUME ProcessAssumption ==
  /\ NoProcess \notin Processes /\ IsFiniteSet(Streams)
  /\ MaxCrashes \in Nat /\ MaxExits \in Nat

VARIABLES
  uds,              \* config.uds
  features,         \* cargo features of the build
  file,             \* the process that created the socket file
  stale,            \* a crash has left the file behind
  pc,               \* where each process is in main
  listening,        \* processes that hold a listener
  health,           \* what the health service reports
  SHUTDOWN, STREAMS_INFLIGHT,
  stream,           \* where the handler of each stream is
  item,             \* what waits in the stream's response channel
  seen,             \* what its client has got, or "gone": it has hung up
  handles,          \* the OnceLocks of the metrics are set
  meter,            \* the meter provider: "none", "on", "off"
  metric,           \* the metrics, a histogram as the number of its samples
  crashes, exits

network == <<uds, features, file, stale, listening>>
responses == <<stream, item, seen>>
service == <<health, SHUTDOWN, STREAMS_INFLIGHT, responses>>
telemetry == <<handles, meter, metric>>
bounds == <<crashes, exits>>
vars == <<network, pc, service, telemetry, bounds>>

Goto(p, label) == pc' = [pc EXCEPT ![p] = label]

Set(f, p, v) == [f EXCEPT ![p] = v]

Alive(p) == pc[p] \notin {"off", "exited"}

\* Builds that telemetry.rs does not refuse to compile.  A build with the stdout
\* exporter behaves like one without an exporter.
Builds ==
  { f \in SUBSET {"tracing", "metrics", "honeycomb"} :
      "honeycomb" \in f => f \cap {"tracing", "metrics"} # {} }

ASSUME BuiltAssumption == Built \subseteq Builds

Metrics == {"requests", "ids_per_request", "streams_inflight", "stream_duration",
            "ids_generated", "errors"}
NoStreams(v) == [s \in Streams |-> v]

Init ==
  /\ uds \in BOOLEAN /\ features \in Built
  /\ file = NoProcess /\ stale = FALSE /\ listening = {}
  /\ pc = [p \in Processes |-> "off"]
  /\ health = [p \in Processes |-> "none"]
  /\ SHUTDOWN = [p \in Processes |-> FALSE]
  /\ STREAMS_INFLIGHT = [p \in Processes |-> 0]
  /\ stream = [p \in Processes |-> NoStreams("none")]
  /\ item = [p \in Processes |-> NoStreams("none")]
  /\ seen = [p \in Processes |-> NoStreams("none")]
  /\ handles = [p \in Processes |-> FALSE]
  /\ meter = [p \in Processes |-> "none"]
  /\ metric = [p \in Processes |-> [m \in Metrics |-> 0]]
  /\ crashes = 0 /\ exits = 0

-----------------------------------------------------------------------------
(* main up to the listener.  A failure returns from main before anything   *)
(* is left behind that a later step would have to undo.                    *)

\* What a process has in memory is gone when it ends.
Memory(p) ==
  /\ health' = Set(health, p, "none")
  /\ SHUTDOWN' = Set(SHUTDOWN, p, FALSE)
  /\ STREAMS_INFLIGHT' = Set(STREAMS_INFLIGHT, p, 0)
  /\ stream' = Set(stream, p, NoStreams("none"))
  /\ item' = Set(item, p, NoStreams("none"))
  /\ seen' = Set(seen, p, NoStreams("none"))
  /\ handles' = Set(handles, p, FALSE)
  /\ meter' = Set(meter, p, "none")
  /\ metric' = Set(metric, p, [m \in Metrics |-> 0])

\* The supervisor starts a process; ServerConfig::try_from may refuse.
Configure(p) ==
  /\ ~ Alive(p)
  /\ Goto(p, "configured")
  /\ UNCHANGED <<network, service, telemetry, bounds>>

Fail(p) == Goto(p, "exited") /\ exits < MaxExits /\ exits' = exits + 1

ConfigError(p) ==
  /\ ~ Alive(p) /\ Fail(p)
  /\ UNCHANGED <<network, service, telemetry, crashes>>

\* Exporters fail only where the environment configures them, which is what
\* get_honeycomb_metadata reads: environment says whether it is complete.
get_honeycomb_metadata(environment) == "honeycomb" \in features => environment
init_tracer(environment) == "tracing" \in features => get_honeycomb_metadata(environment)
init_metrics(environment) == "metrics" \in features => get_honeycomb_metadata(environment)

init_metric_handles(p) == handles' = Set(handles, p, "metrics" \in features)

init_telemetry(p) ==
  /\ pc[p] = "configured"
  /\ init_metric_handles(p)
  /\ meter' = Set(meter, p, IF "metrics" \in features THEN "on" ELSE "none")
  /\ Goto(p, "telemetry")
  /\ UNCHANGED <<network, service, metric, bounds>>

TelemetryError(p) ==
  /\ pc[p] = "configured"
  /\ ~ (init_tracer(FALSE) /\ init_metrics(FALSE))
  /\ Fail(p)
  /\ UNCHANGED <<network, service, telemetry, crashes>>

\* UnixListener::bind creates the file and fails if there is one.
Bind(p) ==
  /\ pc[p] = "telemetry"
  /\ IF uds THEN file = NoProcess ELSE listening = {}
  /\ file' = IF uds THEN p ELSE file
  /\ listening' = listening \cup {p}
  /\ Goto(p, "bound")
  /\ UNCHANGED <<uds, features, stale, service, telemetry, bounds>>

\* mutant: the cleanup runs on every way out of main
BindError_cleaning(p) ==
  /\ pc[p] = "telemetry"
  /\ IF uds THEN file # NoProcess ELSE listening # {}
  /\ Goto(p, "closed") /\ Memory(p)
  /\ UNCHANGED <<network, bounds>>
\* The address is in use: main returns.
BindError(p) ==
  /\ pc[p] = "telemetry"
  /\ IF uds THEN file # NoProcess ELSE listening # {}
  /\ Goto(p, "exited") /\ Memory(p)
  /\ UNCHANGED <<network, bounds>>

-----------------------------------------------------------------------------
(* run_server_with_incoming and stream_ids *)

Serve(p) ==
  /\ pc[p] = "bound"
  /\ health' = Set(health, p, "serving")
  /\ Goto(p, "serving")
  /\ UNCHANGED <<network, SHUTDOWN, STREAMS_INFLIGHT, responses, telemetry, bounds>>

\* tonic accepts connections until the shutdown future is done.
Accepting(p) ==
  pc[p] \in {"serving", "signalled", "not serving", "draining", "cancelling",
             "flush traces", "flush metrics"}

\* WorkerPool::shutdown has cancelled the token.
Cancelled(p) == pc[p] \in {"cancelling", "flush traces", "flush metrics", "closing"}

At(f, p, s, v) == [f EXCEPT ![p][s] = v]

\* From<Error> for Status; RequestCancelled and IdGeneration are never made.
Status(error) ==
  CASE error = "ServiceShutdown" -> "unavailable"
    [] error = "InvalidRequest" -> "invalid_argument"
    [] error = "ChannelError" -> "internal"

\* A metric counts if its handle is set, for as long as its provider exports
\* it; without the feature it is a no-op.
And(n1, n2) == [m \in Metrics |-> n1[m] + n2[m]]
Add(p, n) ==
  metric' = IF handles[p] /\ meter[p] = "on" THEN [metric EXCEPT ![p] = And(@, n)] ELSE metric
Of(name, n) == [m \in Metrics |-> IF m = name THEN n ELSE 0]
increment_requests == Of("requests", 1)
record_ids_per_request == Of("ids_per_request", 1)
increment_streams_inflight == Of("streams_inflight", 1)
decrement_streams_inflight == Of("streams_inflight", -1)
record_stream_duration == Of("stream_duration", 1)
increment_ids_generated == Of("ids_generated", 1)
increment_stream_errors == Of("errors", 1)

\* stream_ids: during the shutdown a request is refused, and not counted.
Request(p, s) ==
  /\ Accepting(p) /\ stream[p][s] = "none"
  /\ stream' = At(stream, p, s, IF SHUTDOWN[p] THEN "refused" ELSE "checked")
  /\ seen' = At(seen, p, s, IF SHUTDOWN[p] THEN Status("ServiceShutdown") ELSE "none")
  /\ UNCHANGED <<network, pc, health, SHUTDOWN, STREAMS_INFLIGHT, item, telemetry, bounds>>

\* The count is zero or above max_allowed_ids.
Invalid(p, s) ==
  /\ Alive(p) /\ stream[p][s] = "checked"
  /\ stream' = At(stream, p, s, "invalid")
  /\ seen' = At(seen, p, s, Status("InvalidRequest"))
  /\ Add(p, increment_stream_errors)
  /\ UNCHANGED <<network, pc, health, SHUTDOWN, STREAMS_INFLIGHT, item, handles, meter, bounds>>

\* The metrics of the request, then the global counter.
Count(p, s) ==
  /\ Alive(p) /\ stream[p][s] = "checked"
  /\ stream' = At(stream, p, s, "counted")
  /\ Add(p, And(increment_requests, record_ids_per_request))
  /\ STREAMS_INFLIGHT' = [STREAMS_INFLIGHT EXCEPT ![p] = @ + 1]
  /\ UNCHANGED <<network, pc, health, SHUTDOWN, item, seen, handles, meter, bounds>>

\* The metric follows the global counter; the task is spawned.
Spawn(p, s) ==
  /\ Alive(p) /\ stream[p][s] = "counted"
  /\ stream' = At(stream, p, s, "open")
  /\ Add(p, increment_streams_inflight)
  /\ UNCHANGED <<network, pc, health, SHUTDOWN, STREAMS_INFLIGHT, item, seen, handles, meter, bounds>>

\* feed_chunks: a chunk is sent, the last one or one with more to come,
Forward(p, s) ==
  /\ Alive(p) /\ stream[p][s] = "open" /\ item[p][s] = "none"
  /\ \/ seen[p][s] = "none" /\ item' = At(item, p, s, "part")
     \/ seen[p][s] \in {"none", "part"} /\ item' = At(item, p, s, "last")
  /\ UNCHANGED <<network, pc, health, SHUTDOWN, STREAMS_INFLIGHT, stream, seen, telemetry, bounds>>

\* or the pool is shutting down or a worker is gone: the error is sent and
\* ends the stream,
SurfaceError(p, s) ==
  /\ Cancelled(p) /\ stream[p][s] = "open"
  /\ item[p][s] = "none" /\ seen[p][s] \in {"none", "part"}
  /\ \E error \in {"ServiceShutdown", "ChannelError"} : item' = At(item, p, s, Status(error))
  /\ stream' = At(stream, p, s, "ended")
  /\ UNCHANGED <<network, pc, health, SHUTDOWN, STREAMS_INFLIGHT, seen, telemetry, bounds>>

\* or a worker that shuts down has dropped the request for the last chunk,
\* and nothing is said,
Truncate(p, s) ==
  /\ Cancelled(p) /\ stream[p][s] = "open" /\ item[p][s] # "last"
  /\ stream' = At(stream, p, s, "ended")
  /\ UNCHANGED <<network, pc, health, SHUTDOWN, STREAMS_INFLIGHT, item, seen, telemetry, bounds>>

\* or all is sent, or the client is gone.
EndStream(p, s) ==
  /\ Alive(p) /\ stream[p][s] = "open"
  /\ item[p][s] = "last" \/ seen[p][s] \in {"last", "gone"}
  /\ stream' = At(stream, p, s, "ended")
  /\ UNCHANGED <<network, pc, health, SHUTDOWN, STREAMS_INFLIGHT, item, seen, telemetry, bounds>>

\* The client reads: tonic takes an item out of the channel, which counts it.
Deliver(p, s) ==
  /\ Alive(p) /\ item[p][s] # "none" /\ seen[p][s] # "gone"
  /\ seen' = At(seen, p, s, item[p][s]) /\ item' = At(item, p, s, "none")
  /\ Add(p, IF item[p][s] \in {"part", "last"} THEN increment_ids_generated ELSE increment_stream_errors)
  /\ UNCHANGED <<network, pc, health, SHUTDOWN, STREAMS_INFLIGHT, stream, handles, meter, bounds>>

\* The client is gone: the channel's receiver is dropped.
HangUp(p, s) ==
  /\ Alive(p) /\ stream[p][s] \in {"open", "ended", "uncounted", "done"}
  /\ seen[p][s] \in {"none", "part", "last"}
  /\ item' = At(item, p, s, "none") /\ seen' = At(seen, p, s, "gone")
  /\ UNCHANGED <<network, pc, health, SHUTDOWN, STREAMS_INFLIGHT, stream, telemetry, bounds>>

\* The global counter is decremented first,
Uncount(p, s) ==
  /\ Alive(p) /\ stream[p][s] = "ended"
  /\ stream' = At(stream, p, s, "uncounted")
  /\ STREAMS_INFLIGHT' = [STREAMS_INFLIGHT EXCEPT ![p] = @ - 1]
  /\ UNCHANGED <<network, pc, health, SHUTDOWN, item, seen, telemetry, bounds>>

\* mutant: a stream whose client has gone is not taken out of the metric
Unmeter_sometimes(p, s) ==
  /\ Alive(p) /\ stream[p][s] = "uncounted"
  /\ stream' = At(stream, p, s, "done")
  /\ Add(p, IF seen[p][s] = "gone" THEN record_stream_duration
            ELSE And(decrement_streams_inflight, record_stream_duration))
  /\ UNCHANGED <<network, pc, health, SHUTDOWN, STREAMS_INFLIGHT, item, seen, handles, meter, bounds>>
\* then the metrics.
Unmeter(p, s) ==
  /\ Alive(p) /\ stream[p][s] = "uncounted"
  /\ stream' = At(stream, p, s, "done")
  /\ Add(p, And(decrement_streams_inflight, record_stream_duration))
  /\ UNCHANGED <<network, pc, health, SHUTDOWN, STREAMS_INFLIGHT, item, seen, handles, meter, bounds>>
-----------------------------------------------------------------------------
(* shutdown_signal *)

\* Only the place in main and what the step names changes.
Then(p, from, to) ==
  pc[p] = from /\ Goto(p, to) /\ UNCHANGED <<uds, features, file, stale, crashes>>

\* mutant: the status is not published
Signal_unpublished(p) ==
  /\ Then(p, "serving", "not serving")
  /\ exits < MaxExits /\ exits' = exits + 1
  /\ UNCHANGED <<listening, service, telemetry>>
\* SIGTERM or Ctrl+C
Signal(p) ==
  /\ Then(p, "serving", "signalled")
  /\ exits < MaxExits /\ exits' = exits + 1
  /\ UNCHANGED <<listening, service, telemetry>>

SetNotServing(p) ==
  /\ Then(p, "signalled", "not serving")
  /\ health' = Set(health, p, "not serving")
  /\ UNCHANGED <<listening, SHUTDOWN, STREAMS_INFLIGHT, responses, telemetry, exits>>

BeginShutdown(p) ==
  /\ Then(p, "not serving", "draining")
  /\ SHUTDOWN' = Set(SHUTDOWN, p, TRUE)
  /\ UNCHANGED <<listening, health, STREAMS_INFLIGHT, responses, telemetry, exits>>

\* The counter is seen at zero, or shutdown_timeout has passed; then the
\* token is cancelled.
Drained(p) ==
  /\ Then(p, "draining", "cancelling") /\ STREAMS_INFLIGHT[p] = 0
  /\ UNCHANGED <<listening, service, telemetry, exits>>
\* mutant: the drain has no timeout
DrainTimeout_none(p) ==
  /\ Then(p, "draining", "cancelling") /\ STREAMS_INFLIGHT[p] = 0
  /\ UNCHANGED <<listening, service, telemetry, exits>>
DrainTimeout(p) ==
  /\ Then(p, "draining", "cancelling") /\ STREAMS_INFLIGHT[p] > 0
  /\ UNCHANGED <<listening, service, telemetry, exits>>

\* The rest of WorkerPool::shutdown, whose result is only logged.
StopWorkers(p) ==
  /\ Then(p, "cancelling", "flush traces")
  /\ UNCHANGED <<listening, service, telemetry, exits>>

\* mutant: the flush waits for a task of the runtime it blocks
FlushTraces_blocking(p) ==
  /\ Then(p, "flush traces", "flush metrics") /\ "tracing" \notin features
  /\ UNCHANGED <<listening, service, telemetry, exits>>
\* Errors of the providers are only printed.
FlushTraces(p) ==
  /\ Then(p, "flush traces", "flush metrics")
  /\ UNCHANGED <<listening, service, telemetry, exits>>

\* What is counted after this is not exported any more.
FlushMetrics(p) ==
  /\ Then(p, "flush metrics", "closing")
  /\ meter' = Set(meter, p, IF meter[p] = "on" THEN "off" ELSE "none")
  /\ UNCHANGED <<listening, service, handles, metric, exits>>

\* tonic waits for the responses under way, however long a client takes to
\* read or to hang up; then the listener is dropped.
Close(p) ==
  /\ Then(p, "closing", "closed")
  /\ \A s \in Streams : /\ stream[p][s] \notin {"checked", "counted"}
                         /\ stream[p][s] = "open" => seen[p][s] = "gone"
                         /\ item[p][s] = "none"
  /\ listening' = listening \ {p}
  /\ UNCHANGED <<service, telemetry, exits>>

\* The reflection service cannot be built, or an error of the transport ends
\* serving; nothing is flushed.
ServeError(p) ==
  /\ pc[p] = "bound" \/ Accepting(p)
  /\ Then(p, pc[p], "closed")
  /\ exits < MaxExits /\ exits' = exits + 1
  /\ listening' = listening \ {p}
  /\ UNCHANGED <<service, telemetry>>

\* mutant: the socket file is not removed
Exit_leaving_file(p) ==
  /\ pc[p] = "closed" /\ Goto(p, "exited") /\ Memory(p)
  /\ UNCHANGED <<network, bounds>>
\* The end of main, after success and error alike: the path is removed, and
\* the runtime with its tasks is dropped.
Exit(p) ==
  /\ pc[p] = "closed" /\ Goto(p, "exited") /\ Memory(p)
  /\ file' = IF uds THEN NoProcess ELSE file
  /\ UNCHANGED <<uds, features, stale, listening, bounds>>

-----------------------------------------------------------------------------
(* The environment *)

Crash(p) ==
  /\ Alive(p) /\ crashes < MaxCrashes
  /\ crashes' = crashes + 1
  /\ Goto(p, "off") /\ Memory(p)
  /\ listening' = listening \ {p}
  /\ stale' = (stale \/ (file = p /\ pc[p] \notin {"configured", "telemetry"}))
  /\ UNCHANGED <<uds, features, file, exits>>

-----------------------------------------------------------------------------

ShutdownStep(p) ==
  \/ SetNotServing(p) \/ BeginShutdown(p) \/ Drained(p) \/ DrainTimeout(p)
  \/ StopWorkers(p) \/ FlushTraces(p) \/ FlushMetrics(p) \/ Close(p) \/ Exit(p)

StartStep(p) ==
  Configure(p) \/ init_telemetry(p) \/ Bind(p) \/ BindError(p) \/ Serve(p)

\* Steps of the handler and of the task it spawns.
StreamStep(p, s) ==
  \/ Invalid(p, s) \/ Count(p, s) \/ Spawn(p, s) \/ Forward(p, s)
  \/ SurfaceError(p, s) \/ EndStream(p, s) \/ Uncount(p, s) \/ Unmeter(p, s)

\* Steps of the client.
ClientStep(p, s) == Request(p, s) \/ Deliver(p, s) \/ HangUp(p, s)

Next ==
  \E p \in Processes :
    \/ StartStep(p) \/ ShutdownStep(p)
    \/ ConfigError(p) \/ TelemetryError(p) \/ Signal(p) \/ ServeError(p) \/ Crash(p)
    \/ \E s \in Streams : ClientStep(p, s) \/ StreamStep(p, s) \/ Truncate(p, s)

Spec == Init /\ [][Next]_vars

(***************************************************************************)
(* Fairness: processes and their tasks run; timeouts expire; the           *)
(* supervisor starts a process again that is gone.  A client need neither  *)
(* ask, nor read, nor hang up, and nobody removes a file that a crash left *)
(* behind: nothing in the repository makes them.                           *)
(***************************************************************************)
Fairness ==
  \A p \in Processes :
    /\ WF_vars(StartStep(p)) /\ WF_vars(ShutdownStep(p))
    /\ \A s \in Streams : WF_vars(StreamStep(p, s))

FairSpec == Spec /\ Fairness

-----------------------------------------------------------------------------

\* Types of the variables.
TypeOK ==
  /\ uds \in BOOLEAN /\ features \in Built /\ file \in Processes \cup {NoProcess}
  /\ stale \in BOOLEAN /\ listening \subseteq Processes
  /\ pc \in [Processes -> {"off", "configured", "telemetry", "bound", "serving",
       "signalled", "not serving", "draining", "cancelling", "flush traces",
       "flush metrics", "closing", "closed", "exited"}]
  /\ health \in [Processes -> {"none", "serving", "not serving"}]
  /\ SHUTDOWN \in [Processes -> BOOLEAN] /\ STREAMS_INFLIGHT \in [Processes -> Nat]
  /\ stream \in [Processes -> [Streams -> {"none", "refused", "invalid", "checked",
       "counted", "open", "ended", "uncounted", "done"}]]
  /\ item \in [Processes -> [Streams -> {"none", "part", "last", "internal", "unavailable"}]]
  /\ seen \in [Processes -> [Streams -> {"none", "part", "last", "internal", "unavailable",
       "invalid_argument", "gone"}]]
  /\ handles \in [Processes -> BOOLEAN] /\ meter \in [Processes -> {"none", "on", "off"}]
  /\ metric \in [Processes -> [Metrics -> Nat]]
  /\ crashes \in 0 .. MaxCrashes /\ exits \in 0 .. MaxExits

\* Clients reach a process as long as it listens: the path is its own, no
\* other process that was started or shut down meanwhile has removed or
\* replaced the file, and no two processes share the port.
ReachableWhileListening ==
  /\ \A p \in listening : uds => file = p
  /\ Cardinality(listening) <= 1

\* A socket file without a process is left by a crash only: every way out of
\* main removes it ("Best effort to clean up the socket file although a panic
\* might leave it behind", main.rs:53).
FileOnlyAfterCrash ==
  file # NoProcess => stale \/ file \in listening \/ pc[file] = "closed"

\* A client is told "unavailable", by a refusal or in the middle of a stream,
\* only when the health service says so already: a balancer that follows it has
\* been told where not to retry.
HealthFirst ==
  \A p \in Processes, s \in Streams :
    seen[p][s] = "unavailable" => health[p] = "not serving"

\* The metrics agree with each other and with the counter the drain waits for,
\* whatever order requests, errors, hang-ups and the shutdown come in.  While the
\* provider exports, every accepted request is about to be opened, in flight or
\* has its duration recorded, and an error is counted once, when the client gets
\* it: a refusal during the shutdown is not counted, nor is a client that hangs
\* up, although the metric is described as "Errored/cancelled streams"
\* (telemetry.rs:342).  What happens after the provider's shutdown is lost, and
\* the loss is one-sided: the last export never shows more streams in flight and
\* finished than requests, nor a request, a duration or an error that was not.
MetricsReconcile ==
  \A p \in Processes :
    LET m == metric[p]
        Number(labels) == Cardinality({ s \in Streams : stream[p][s] \in labels })
        Told == Cardinality({ s \in Streams :
                  seen[p][s] \in {"internal", "unavailable", "invalid_argument"}
                  /\ stream[p][s] # "refused" })
        Accepted == Number({"counted", "open", "ended", "uncounted", "done"})
    IN /\ STREAMS_INFLIGHT[p] = Number({"counted", "open", "ended"})
       /\ m["ids_per_request"] = m["requests"]
       /\ meter[p] = "on" =>
            /\ m["requests"] = Accepted
            /\ m["streams_inflight"] = Number({"open", "ended", "uncounted"})
            /\ m["stream_duration"] = Number({"done"})
            /\ m["errors"] = Told
       /\ meter[p] = "off" =>
            /\ m["streams_inflight"] + m["stream_duration"] <= m["requests"]
            /\ m["requests"] <= Accepted
            /\ m["stream_duration"] <= Number({"done"})
            /\ m["errors"] <= Told

\* tonic waits for a client to read its response.
Held(p) == pc[p] = "closing" /\ \E s \in Streams : item[p][s] # "none"

\* A signal ends the process, with any set of features, whatever its streams are
\* doing: no client holds up the drain, the workers or the flushes.  Only tonic's
\* wait has no limit (main.rs:112), so a client that neither reads nor hangs up
\* keeps the process for ever, although "the server proceeds with termination"
\* (config.rs:119) once shutdown_timeout has passed.
SignalEndsProcess ==
  \A p \in Processes :
    pc[p] = "signalled" ~> (pc[p] \in {"exited", "off"} \/ []Held(p))

\* After the last crash and the last signal a process that is started again comes
\* to serve, where clients find it, and goes on serving, although others keep
\* trying to start on its address.  Two things keep it from doing so for ever: a
\* socket file left by a crash, which every later bind finds in use (main.rs:49),
\* and a process that does not end as it waits for a client.
ServiceReturns ==
  \/ <>[](\E p \in listening : pc[p] = "serving" /\ (uds => file = p))
  \/ <>[](uds /\ stale /\ listening = {})
  \/ <>[](\E p \in Processes : Held(p))
=============================================================================
