------------------------ MODULE ServerProcessProofs ------------------------
(***************************************************************************)
(* ServerProcess for any number of processes, crashes and exits.           *)
(***************************************************************************)
EXTENDS ServerProcess, FiniteSetTheorems, TLAPS

\* Where main has not served yet, where it holds a listener, and where it has
\* said that it is not serving.
Starting == {"off", "exited", "configured", "telemetry", "bound"}
Holding == {"bound", "serving", "signalled", "not serving", "draining",
            "cancelling", "flush traces", "flush metrics", "closing"}
Leaving == {"not serving", "draining", "cancelling", "flush traces",
            "flush metrics", "closing"}

\* The shape of the variables that the arguments are about.
Shape ==
  /\ uds \in BOOLEAN /\ stale \in BOOLEAN
  /\ file \in Processes \cup {NoProcess} /\ listening \subseteq Processes
  /\ DOMAIN pc = Processes /\ DOMAIN health = Processes
  /\ SHUTDOWN \in [Processes -> BOOLEAN]
  /\ DOMAIN stream = Processes /\ DOMAIN item = Processes /\ DOMAIN seen = Processes
  /\ \A p \in Processes : /\ DOMAIN stream[p] = Streams
                          /\ DOMAIN item[p] = Streams /\ DOMAIN seen[p] = Streams

\* The place in main says who listens.  With a Unix socket the file belongs
\* to the process that is past bind and has not removed it, unless a crash has
\* left it; without one there is no file.
NetworkInv ==
  /\ \A p \in Processes : p \in listening <=> pc[p] \in Holding
  /\ \A p, q \in listening : p = q
  /\ stale => file # NoProcess
  /\ file # NoProcess => uds
  /\ file # NoProcess /\ ~ stale => pc[file] \in Holding \cup {"closed"}
  /\ \A p \in Processes :
       uds /\ pc[p] \in Holding \cup {"closed"} => file = p /\ ~ stale

\* Requests are refused after SHUTDOWN is set, and streams fail after the
\* token is cancelled, both of which is after the status.
HealthOf(p) ==
  /\ pc[p] \in Starting =>
       /\ ~ SHUTDOWN[p]
       /\ \A s \in Streams : stream[p][s] = "none" /\ item[p][s] = "none" /\ seen[p][s] = "none"
  /\ pc[p] \in Leaving => health[p] = "not serving"
  /\ SHUTDOWN[p] => health[p] = "not serving"
  /\ \A s \in Streams : "unavailable" \in {item[p][s], seen[p][s]} => health[p] = "not serving"

HealthInv == \A p \in Processes : HealthOf(p)

ProcessInv == Shape /\ NetworkInv /\ HealthInv

-----------------------------------------------------------------------------

LEMMA ProcessInit == Init => ProcessInv
<1> SUFFICES ASSUME Init PROVE ProcessInv
  OBVIOUS
<1>1. Shape
  BY Zenon DEF Init, Shape, NoStreams
<1>2. NetworkInv
  BY DEF Init, NetworkInv, Holding
<1>3. HealthInv
  BY SMTT(20) DEF Init, HealthInv, HealthOf, Leaving, Starting, NoStreams
<1> QED
  BY <1>1, <1>2, <1>3 DEF ProcessInv

\* Responses keep their shape and all but those of one stream stay as they are.
OthersKept(p, s) ==
  /\ DOMAIN stream' = Processes /\ DOMAIN item' = Processes /\ DOMAIN seen' = Processes
  /\ \A q \in Processes :
       /\ DOMAIN stream'[q] = Streams /\ DOMAIN item'[q] = Streams /\ DOMAIN seen'[q] = Streams
       /\ \A r \in Streams : q # p \/ r # s =>
            stream'[q][r] = stream[q][r] /\ item'[q][r] = item[q][r] /\ seen'[q][r] = seen[q][r]

\* A step of a stream, by its client, its task or a worker.
Streaming(p, s) == ClientStep(p, s) \/ StreamStep(p, s) \/ Truncate(p, s)

\* It touches neither the network nor where main is, and makes
\* the client's answer "unavailable" only during the shutdown.
LEMMA StreamSteps ==
  ASSUME Shape, NEW p \in Processes, NEW s \in Streams, Streaming(p, s)
  PROVE  /\ UNCHANGED <<network, pc, health, SHUTDOWN, bounds>>
         /\ OthersKept(p, s)
         /\ "unavailable" \in {item'[p][s], seen'[p][s]} =>
              "unavailable" \in {item[p][s], seen[p][s]} \/ SHUTDOWN[p] \/ pc[p] \in Leaving
         /\ pc[p] \in Starting => stream[p][s] # "none" \/ item[p][s] # "none"
<1>1. CASE Request(p, s)
  BY <1>1 DEF Request, Status, Accepting, Starting, At, Shape, OthersKept
<1>2. CASE HangUp(p, s)
  BY <1>2 DEF HangUp, At, Shape, OthersKept
<1>3. CASE Invalid(p, s)
  BY <1>3 DEF Invalid, Status, At, Shape, OthersKept
<1>4. CASE Count(p, s)
  BY <1>4 DEF Count, At, Shape, OthersKept
<1>5. CASE Spawn(p, s)
  BY <1>5 DEF Spawn, At, Shape, OthersKept
<1>6. CASE Forward(p, s)
  <2>1. PICK v \in {"part", "last"} : item' = At(item, p, s, v)
    BY <1>6 DEF Forward
  <2> QED BY <1>6, <2>1 DEF Forward, At, Shape, OthersKept
<1>7. CASE SurfaceError(p, s)
  <2>1. pc[p] \in Leaving
    BY <1>7 DEF SurfaceError, Cancelled, Leaving
  <2>2. PICK v : item' = At(item, p, s, v)
    BY <1>7 DEF SurfaceError
  <2> QED BY <1>7, <2>1, <2>2 DEF SurfaceError, At, Shape, OthersKept
<1>8. CASE EndStream(p, s)
  BY <1>8 DEF EndStream, At, Shape, OthersKept
<1>9. CASE Deliver(p, s)
  BY <1>9 DEF Deliver, At, Shape, OthersKept
<1>10. CASE Uncount(p, s)
  BY <1>10 DEF Uncount, At, Shape, OthersKept
<1>11. CASE Unmeter(p, s)
  BY <1>11 DEF Unmeter, At, Shape, OthersKept
<1>12. CASE Truncate(p, s)
  BY <1>12 DEF Truncate, At, Shape, OthersKept
<1> QED
  BY <1>1, <1>2, <1>3, <1>4, <1>5, <1>6, <1>7, <1>8, <1>9, <1>10, <1>11, <1>12
  DEF Streaming, ClientStep, StreamStep

LEMMA ShapeNext == Shape /\ [Next]_vars => Shape'
<1> SUFFICES ASSUME Shape, [Next]_vars PROVE Shape'
  OBVIOUS
<1> USE DEF Shape
<1>1. CASE UNCHANGED vars
  BY <1>1, Zenon DEF vars, network, service, responses, telemetry, bounds
<1>2. ASSUME NEW p \in Processes, NEW s \in Streams, Streaming(p, s)
      PROVE  Shape'
  <2>1. UNCHANGED <<uds, file, stale, listening, pc, health, SHUTDOWN>>
    BY <1>2, StreamSteps DEF network
  <2>2. OthersKept(p, s)
    BY <1>2, StreamSteps
  <2> QED BY <2>1, <2>2 DEF OthersKept
<1>3. ASSUME NEW p \in Processes, StartStep(p) PROVE Shape'
  BY <1>3, Zenon DEF StartStep, Configure, init_telemetry, Bind, BindError, Serve, Goto, Set,
     Memory, NoStreams, network, service, responses, telemetry, bounds
<1>4. ASSUME NEW p \in Processes, ShutdownStep(p) PROVE Shape'
  BY <1>4, Zenon DEF ShutdownStep, SetNotServing, BeginShutdown, Drained, DrainTimeout,
     StopWorkers, FlushTraces, FlushMetrics, Close, Exit, Then, Goto, Set, Memory,
     NoStreams, network, service, responses, telemetry, bounds
<1>5. ASSUME NEW p \in Processes,
             ConfigError(p) \/ TelemetryError(p) \/ Signal(p) \/ ServeError(p)
      PROVE  Shape'
  BY <1>5, Zenon DEF ConfigError, TelemetryError, Signal, ServeError, Then, Fail, Goto,
     NoStreams, network, service, responses, telemetry, bounds
<1>6. ASSUME NEW p \in Processes, Crash(p) PROVE Shape'
  BY <1>6 DEF Crash, Goto, Memory, Set, NoStreams
<1> QED
  BY <1>1, <1>2, <1>3, <1>4, <1>5, <1>6 DEF Next, Streaming

\* A process that moves on while it holds, or does not hold, the address.
LEMMA SameHold ==
  ASSUME Shape, NetworkInv, NEW p \in Processes, NEW label,
         UNCHANGED <<uds, file, stale, listening>>, Goto(p, label),
         \/ pc[p] \in Holding /\ label \in Holding
         \/ pc[p] \notin Holding \cup {"closed"} /\ label \notin Holding \cup {"closed"}
  PROVE  NetworkInv'
  BY DEF Shape, NetworkInv, Goto, Holding

LEMMA NetworkNext == Shape /\ NetworkInv /\ [Next]_vars => NetworkInv'
<1> SUFFICES ASSUME Shape, NetworkInv, [Next]_vars PROVE NetworkInv'
  OBVIOUS
<1> USE ProcessAssumption
<1>2. CASE UNCHANGED <<uds, file, stale, listening, pc>>
  BY <1>2 DEF NetworkInv
<1>3. ASSUME NEW p \in Processes, Bind(p) PROVE NetworkInv'
  <2>1. /\ pc[p] = "telemetry" /\ pc' = [pc EXCEPT ![p] = "bound"]
        /\ listening' = listening \cup {p} /\ UNCHANGED <<uds, stale>>
        /\ uds => file = NoProcess /\ file' = p
        /\ ~ uds => listening = {} /\ file' = file
    BY <1>3 DEF Bind, Goto
  <2>2. listening = {}
    <3> SUFFICES ASSUME uds, NEW q \in listening PROVE FALSE
      BY <2>1
    <3>1. file = q /\ q \in Processes
      BY DEF Shape, NetworkInv
    <3> QED BY <2>1, <3>1
  <2>3. ~ stale
    BY <2>1 DEF NetworkInv
  <2>4. \A q \in Processes : uds => pc[q] \notin Holding \cup {"closed"}
    BY <2>1 DEF NetworkInv
  <2> QED BY <2>1, <2>2, <2>3, <2>4 DEF Shape, NetworkInv, Holding
<1>4. ASSUME NEW p \in Processes, Close(p) \/ ServeError(p) PROVE NetworkInv'
  <2>1. /\ pc[p] \in Holding /\ pc' = [pc EXCEPT ![p] = "closed"]
        /\ listening' = listening \ {p} /\ UNCHANGED <<uds, stale, file>>
    BY <1>4 DEF Close, ServeError, Accepting, Then, Goto, Holding
  <2> QED BY <2>1 DEF Shape, NetworkInv, Holding
<1>5. ASSUME NEW p \in Processes, Exit(p) PROVE NetworkInv'
  <2>1. /\ pc[p] = "closed" /\ pc' = [pc EXCEPT ![p] = "exited"]
        /\ uds => file' = NoProcess /\ file = p /\ ~ stale
        /\ ~ uds => file' = file
        /\ UNCHANGED <<uds, stale, listening>>
    BY <1>5 DEF Exit, Goto, NetworkInv
  <2> QED BY <2>1 DEF Shape, NetworkInv, Holding
<1>6. ASSUME NEW p \in Processes, Crash(p) PROVE NetworkInv'
  <2>1. /\ pc' = [pc EXCEPT ![p] = "off"] /\ pc[p] \notin {"off", "exited"}
        /\ listening' = listening \ {p} /\ UNCHANGED <<uds, file>>
        /\ stale' <=> stale \/ (file = p /\ pc[p] \notin {"configured", "telemetry"})
    BY <1>6, Zenon DEF Crash, Goto, Alive
  <2>2. CASE pc[p] \in Holding \cup {"closed"} /\ uds
    <3>1. file = p /\ ~ stale
      BY <2>2 DEF NetworkInv
    <3>2. stale'
      BY <2>1, <2>2, <3>1 DEF Holding
    <3>3. \A q \in Processes : q # p => pc[q] \notin Holding \cup {"closed"}
      BY <2>2, <3>1 DEF NetworkInv
    <3> QED BY <2>1, <2>2, <3>1, <3>2, <3>3 DEF Shape, NetworkInv, Holding
  <2>3. CASE pc[p] \notin Holding \cup {"closed"} \/ ~ uds
    <3>1. stale' = stale
      <4>1. file = p => stale
        BY <2>3 DEF NetworkInv, Shape
      <4> QED BY <2>1, <2>3, <4>1, <1>6 DEF Crash, Shape
    <3> QED BY <2>1, <2>3, <3>1 DEF Shape, NetworkInv, Holding
  <2> QED BY <2>2, <2>3
<1>7. ASSUME NEW p \in Processes,
             \/ Configure(p) \/ init_telemetry(p) \/ BindError(p)
             \/ ConfigError(p) \/ TelemetryError(p)
      PROVE  NetworkInv'
  <2>1. PICK label \in {"configured", "telemetry", "exited"} : Goto(p, label)
    BY <1>7, Zenon DEF Configure, init_telemetry, BindError, ConfigError, TelemetryError, Fail
  <2>2. /\ UNCHANGED <<uds, file, stale, listening>>
        /\ pc[p] \in {"off", "exited", "configured", "telemetry"}
    BY <1>7, Zenon DEF Configure, init_telemetry, BindError, ConfigError, TelemetryError,
       Alive, network
  <2> QED BY <2>1, <2>2, SameHold DEF Holding
<1>8. ASSUME NEW p \in Processes,
             \/ Serve(p) \/ Signal(p) \/ SetNotServing(p) \/ BeginShutdown(p)
             \/ Drained(p) \/ DrainTimeout(p) \/ StopWorkers(p)
             \/ FlushTraces(p) \/ FlushMetrics(p)
      PROVE  NetworkInv'
  <2>1. PICK label \in Holding : Goto(p, label)
    BY <1>8 DEF Serve, Signal, SetNotServing, BeginShutdown, Drained, DrainTimeout,
       StopWorkers, FlushTraces, FlushMetrics, Then, Holding
  <2>2. UNCHANGED <<uds, file, stale, listening>> /\ pc[p] \in Holding
    BY <1>8, ZenonT(40) DEF Serve, Signal, SetNotServing, BeginShutdown, Drained, DrainTimeout,
       StopWorkers, FlushTraces, FlushMetrics, Then, Holding, network
  <2> QED BY <2>1, <2>2, SameHold
<1>9. ASSUME NEW p \in Processes, NEW s \in Streams, Streaming(p, s)
      PROVE  NetworkInv'
  BY <1>2, <1>9, StreamSteps DEF network
<1> QED
  BY <1>2, <1>3, <1>4, <1>5, <1>6, <1>7, <1>8, <1>9
  DEF Next, StartStep, ShutdownStep, Streaming, vars, network

LEMMA HealthNext == Shape /\ HealthInv /\ [Next]_vars => HealthInv'
<1> SUFFICES ASSUME Shape, HealthInv, [Next]_vars PROVE HealthInv'
  OBVIOUS
<1>1. CASE UNCHANGED <<pc, health, SHUTDOWN, stream, item, seen>>
  BY <1>1, ZenonT(40) DEF HealthInv, HealthOf
<1>2. ASSUME NEW p \in Processes, NEW s \in Streams, Streaming(p, s)
      PROVE  HealthInv'
  <2>1. UNCHANGED <<pc, health, SHUTDOWN>>
    BY <1>2, StreamSteps
  <2>2. OthersKept(p, s)
    BY <1>2, StreamSteps
  <2>3. pc[p] \notin Starting
    <3>1. pc[p] \in Starting => stream[p][s] # "none" \/ item[p][s] # "none"
      BY <1>2, StreamSteps
    <3>2. HealthOf(p)
      BY DEF HealthInv
    <3> QED BY <3>1, <3>2, Zenon DEF HealthOf
  <2>4. "unavailable" \in {item'[p][s], seen'[p][s]} => health[p] = "not serving"
    BY <1>2, StreamSteps DEF HealthInv, HealthOf
  <2> SUFFICES ASSUME NEW q \in Processes PROVE HealthOf(q)'
    BY DEF HealthInv
  <2>5. HealthOf(q)
    BY DEF HealthInv
  <2>6. \A r \in Streams : "unavailable" \in {item'[q][r], seen'[q][r]} => health[q] = "not serving"
    BY <2>2, <2>4, <2>5 DEF OthersKept, HealthOf
  <2>7. pc[q] \in Starting => \A r \in Streams :
          stream'[q][r] = "none" /\ item'[q][r] = "none" /\ seen'[q][r] = "none"
    BY <2>2, <2>3, <2>5 DEF OthersKept, HealthOf
  <2> QED BY <2>1, <2>5, <2>6, <2>7, Zenon DEF HealthOf
<1>a. ASSUME NEW p \in Processes, HealthOf(p)',
             \A q \in Processes : q # p => /\ pc'[q] = pc[q] /\ health'[q] = health[q]
                                          /\ SHUTDOWN'[q] = SHUTDOWN[q]
                                          /\ UNCHANGED <<stream[q], item[q], seen[q]>>
      PROVE  HealthInv'
  <2> SUFFICES ASSUME NEW q \in Processes PROVE HealthOf(q)'
    BY DEF HealthInv
  <2>1. CASE q = p
    BY <1>a, <2>1
  <2>2. CASE q # p
    <3>1. /\ pc'[q] = pc[q] /\ health'[q] = health[q]
          /\ SHUTDOWN'[q] = SHUTDOWN[q] /\ UNCHANGED <<stream[q], item[q], seen[q]>>
      BY <1>a, <2>2
    <3>2. HealthOf(q)
      BY DEF HealthInv
    <3> QED BY <3>1, <3>2, Zenon DEF HealthOf
  <2> QED BY <2>1, <2>2
<1>3. ASSUME NEW p \in Processes, BindError(p) \/ Exit(p) \/ Crash(p)
      PROVE  HealthInv'
  <2>1. /\ \E label \in {"exited", "off"} : pc' = [pc EXCEPT ![p] = label]
        /\ SHUTDOWN' = [SHUTDOWN EXCEPT ![p] = FALSE]
        /\ health' = [health EXCEPT ![p] = "none"]
        /\ stream' = [stream EXCEPT ![p] = [s \in Streams |-> "none"]]
        /\ item' = [item EXCEPT ![p] = [s \in Streams |-> "none"]]
        /\ seen' = [seen EXCEPT ![p] = [s \in Streams |-> "none"]]
    BY <1>3 DEF BindError, Exit, Crash, Goto, Memory, Set, NoStreams
  <2>2. HealthOf(p)'
    BY <2>1 DEF Shape, HealthOf, Leaving
  <2> QED BY <2>1, <2>2, <1>a, Zenon DEF Shape
<1>4. ASSUME NEW p \in Processes, Serve(p) PROVE HealthInv'
  <2>1. /\ pc[p] = "bound" /\ pc' = [pc EXCEPT ![p] = "serving"]
        /\ health' = [health EXCEPT ![p] = "serving"] /\ UNCHANGED <<SHUTDOWN, stream, item, seen>>
    BY <1>4 DEF Serve, Goto, Set, responses
  <2>2. ~ SHUTDOWN[p] /\ \A s \in Streams : item[p][s] = "none" /\ seen[p][s] = "none"
    BY <2>1 DEF HealthInv, HealthOf, Starting
  <2>3. HealthOf(p)'
    BY <2>1, <2>2 DEF Shape, HealthOf, Leaving, Starting
  <2> QED BY <2>1, <2>3, <1>a DEF Shape
<1>6. ASSUME NEW p \in Processes, SetNotServing(p) PROVE HealthInv'
  <2>1. /\ pc[p] = "signalled" /\ pc' = [pc EXCEPT ![p] = "not serving"]
        /\ health' = [health EXCEPT ![p] = "not serving"]
        /\ UNCHANGED <<SHUTDOWN, stream, item, seen>>
    BY <1>6 DEF SetNotServing, Then, Goto, Set, responses
  <2>2. HealthOf(p)'
    BY <2>1 DEF Shape, HealthOf, Leaving, Starting
  <2> QED BY <2>1, <2>2, <1>a DEF Shape
<1>7. ASSUME NEW p \in Processes, BeginShutdown(p) PROVE HealthInv'
  <2>1. /\ pc[p] = "not serving" /\ pc' = [pc EXCEPT ![p] = "draining"]
        /\ SHUTDOWN' = [SHUTDOWN EXCEPT ![p] = TRUE]
        /\ UNCHANGED <<health, stream, item, seen>>
    BY <1>7 DEF BeginShutdown, Then, Goto, Set, responses
  <2>2. health[p] = "not serving"
    BY <2>1 DEF HealthInv, HealthOf, Leaving
  <2>3. HealthOf(p)'
    BY <2>1, <2>2 DEF Shape, HealthOf, Leaving, Starting
  <2> QED BY <2>1, <2>3, <1>a DEF Shape
<1>5. ASSUME NEW p \in Processes,
             \/ Configure(p) \/ init_telemetry(p) \/ Bind(p) \/ ConfigError(p)
             \/ TelemetryError(p) \/ Signal(p) \/ Close(p) \/ ServeError(p)
             \/ Drained(p) \/ DrainTimeout(p) \/ StopWorkers(p)
             \/ FlushTraces(p) \/ FlushMetrics(p)
      PROVE  HealthInv'
  <2>1. UNCHANGED <<health, SHUTDOWN, stream, item, seen>>
    BY <1>5 DEF Configure, init_telemetry, Bind, ConfigError, TelemetryError, Signal,
       Close, ServeError, Drained, DrainTimeout, StopWorkers, FlushTraces, FlushMetrics,
       service, responses
  <2>2. PICK label :
          /\ pc' = [pc EXCEPT ![p] = label]
          /\ label \in Leaving => pc[p] \in Leaving
          /\ label \in Starting => pc[p] \in Starting
    BY <1>5, ZenonT(40) DEF Configure, init_telemetry, Bind, ConfigError, TelemetryError, Signal,
       Close, ServeError, Drained, DrainTimeout, StopWorkers, FlushTraces, FlushMetrics,
       Then, Fail, Goto, Leaving, Starting, Alive
  <2>3. HealthOf(p)'
    <3>1. HealthOf(p) /\ pc'[p] = label
      BY <2>2 DEF Shape, HealthInv
    <3> QED BY <2>1, <2>2, <3>1, Zenon DEF HealthOf
  <2>4. \A q \in Processes : q # p => /\ pc'[q] = pc[q] /\ health'[q] = health[q]
                                      /\ SHUTDOWN'[q] = SHUTDOWN[q]
                                      /\ UNCHANGED <<stream[q], item[q], seen[q]>>
    BY <2>1, <2>2, Zenon DEF Shape
  <2> QED BY <2>3, <2>4, <1>a, Zenon
<1> QED
  BY <1>1, <1>2, <1>3, <1>4, <1>5, <1>6, <1>7
  DEF Next, StartStep, ShutdownStep, Streaming, vars, service, responses

LEMMA ProcessNext == ProcessInv /\ [Next]_vars => ProcessInv'
  BY ShapeNext, NetworkNext, HealthNext DEF ProcessInv

\* Clients that know the address reach the process that listens there, for any
\* number of processes that are started, stopped or crash around it.
THEOREM Reachable == Spec => []ReachableWhileListening
<1>1. ProcessInv => ReachableWhileListening
  <2> SUFFICES ASSUME ProcessInv PROVE ReachableWhileListening
    OBVIOUS
  <2>1. \A p \in listening : uds => file = p
    BY DEF ProcessInv, Shape, NetworkInv
  <2>2. CASE listening = {}
    BY <2>1, <2>2, FS_EmptySet DEF ReachableWhileListening
  <2>3. ASSUME NEW p \in listening PROVE ReachableWhileListening
    <3>1. listening = {p}
      BY DEF ProcessInv, NetworkInv
    <3>2. Cardinality(listening) = 1
      BY <3>1, FS_Singleton
    <3> QED BY <2>1, <3>2 DEF ReachableWhileListening
  <2> QED BY <2>2, <2>3
<1> QED
  BY <1>1, ProcessInit, ProcessNext, PTL DEF Spec

\* Whatever way main ends, only a crash leaves a socket file behind.
THEOREM NoFileLeft == Spec => []FileOnlyAfterCrash
<1>1. ProcessInv => FileOnlyAfterCrash
  BY DEF ProcessInv, Shape, NetworkInv, FileOnlyAfterCrash
<1> QED
  BY <1>1, ProcessInit, ProcessNext, PTL DEF Spec

\* No client is told "unavailable" before the health service reports the
\* shutdown.
THEOREM StatusFirst == Spec => []HealthFirst
<1>1. ProcessInv => HealthFirst
  BY ZenonT(40) DEF ProcessInv, HealthInv, HealthOf, HealthFirst
<1> QED
  BY <1>1, ProcessInit, ProcessNext, PTL DEF Spec
-----------------------------------------------------------------------------
(* The metrics. *)

Errors == {"internal", "unavailable", "invalid_argument"}
Flight == {"open", "ended", "uncounted"}
Admitted == Flight \cup {"counted", "done"}
Early == {"counted", "open", "ended"}

\* Streams that are at one of these labels, and streams whose client was told of an
\* error.
InOf(labelOf, labels) == {s \in Streams : labelOf[s] \in labels}
In(p, labels) == InOf(stream[p], labels)
Fault(label, told) == told \in Errors /\ label # "refused"
Fails(p, s) == Fault(stream[p][s], seen[p][s])
Failed(p) == {s \in Streams : Fails(p, s)}

Zero == [m \in Metrics |-> 0]

\* The metrics of p are exported.
On(p) == handles[p] /\ meter[p] = "on"

\* While they are, each is the number of streams in a state,
Exact(p) ==
  /\ metric[p]["streams_inflight"] = Cardinality(In(p, Flight))
  /\ metric[p]["stream_duration"] = Cardinality(In(p, {"done"}))
  /\ metric[p]["requests"] = Cardinality(In(p, Admitted))
  /\ metric[p]["errors"] = Cardinality(Failed(p))

\* and then what that number was when the provider was shut down.
Bounded(p) ==
  /\ metric[p]["streams_inflight"] \in Nat /\ metric[p]["stream_duration"] \in Nat
  /\ metric[p]["requests"] \in Nat /\ metric[p]["errors"] \in Nat
  /\ metric[p]["streams_inflight"] + metric[p]["stream_duration"] <= metric[p]["requests"]
  /\ metric[p]["requests"] <= Cardinality(In(p, Admitted))
  /\ metric[p]["stream_duration"] <= Cardinality(In(p, {"done"}))
  /\ metric[p]["errors"] <= Cardinality(Failed(p))

MetricsOf(p) ==
  /\ STREAMS_INFLIGHT[p] = Cardinality(In(p, Early))
  /\ metric[p]["ids_per_request"] = metric[p]["requests"]
  /\ metric[p]["ids_generated"] \in Nat
  /\ On(p) => Exact(p)
  /\ Bounded(p)
  /\ meter[p] = "on" => handles[p]
  /\ pc[p] \in {"off", "exited", "configured"} => metric[p] = Zero

\* Only an admitted stream has something for its client, one thing at a time, and
\* nothing after an error.
Response(label, next, told) ==
  /\ label \in {"none", "checked", "counted"} => next = "none" /\ told = "none"
  /\ label \in {"refused", "invalid"} => next = "none"
  /\ next # "none" => told \in {"none", "part"}
  /\ next \in {"none", "part", "last"} \cup Errors
ResponseOf(p, s) == Response(stream[p][s], item[p][s], seen[p][s])

MetricTypes ==
  /\ handles \in [Processes -> BOOLEAN] /\ meter \in [Processes -> {"none", "on", "off"}]
  /\ STREAMS_INFLIGHT \in [Processes -> Int]
  /\ metric \in [Processes -> [Metrics -> Int]]

MetricsInv ==
  /\ MetricTypes
  /\ \A p \in Processes : MetricsOf(p) /\ \A s \in Streams : ResponseOf(p, s)

One(b) == IF b THEN 1 ELSE 0

\* Two sets of streams that differ in s at most.
Apart(S, T, s) ==
  /\ S \subseteq Streams /\ T \subseteq Streams /\ s \in Streams
  /\ \A r \in Streams : r # s => (r \in T <=> r \in S)

LEMMA SetMoves ==
  ASSUME NEW S, NEW T, NEW s, Apart(S, T, s)
  PROVE  /\ Cardinality(S) \in Nat /\ Cardinality(T) \in Nat
         /\ Cardinality(T) = Cardinality(S) + One(s \in T) - One(s \in S)
<1>1. IsFiniteSet(S) /\ IsFiniteSet(T)
  BY ProcessAssumption, FS_Subset DEF Apart
<1>2. Cardinality(S) \in Nat /\ Cardinality(T) \in Nat
  BY <1>1, FS_CardinalityType
<1>3. CASE s \in T <=> s \in S
  <2>1. T = S
    BY <1>3 DEF Apart
  <2> QED BY <1>2, <1>3, <2>1 DEF One
<1>4. CASE s \in T /\ s \notin S
  <2>1. T = S \cup {s}
    BY <1>4 DEF Apart
  <2>2. Cardinality(T) = Cardinality(S) + 1
    BY <1>1, <1>4, <2>1, FS_AddElement
  <2> QED BY <1>2, <1>4, <2>2 DEF One
<1>5. CASE s \notin T /\ s \in S
  <2>1. T = S \ {s}
    BY <1>5 DEF Apart
  <2>2. Cardinality(T) = Cardinality(S) - 1
    BY <1>1, <1>5, <2>1, FS_RemoveElement
  <2> QED BY <1>2, <1>5, <2>2 DEF One
<1> QED BY <1>3, <1>4, <1>5, Zenon

\* What a step does to the number of streams in a state, and of those that failed.
Moves(p, s, labels) == One(stream'[p][s] \in labels) - One(stream[p][s] \in labels)
MoreFail(p, s) == One(Fails(p, s)') - One(Fails(p, s))

\* A step of a stream changes every metric that is exported by what it changes in
\* the set that the metric counts.  Requests, durations and errors only grow.
Accounts(p, s) ==
  /\ STREAMS_INFLIGHT'[p] = STREAMS_INFLIGHT[p] + Moves(p, s, Early)
  /\ On(p) =>
       /\ metric'[p]["streams_inflight"] = metric[p]["streams_inflight"] + Moves(p, s, Flight)
       /\ metric'[p]["stream_duration"] = metric[p]["stream_duration"] + Moves(p, s, {"done"})
       /\ metric'[p]["requests"] = metric[p]["requests"] + Moves(p, s, Admitted)
       /\ metric'[p]["ids_per_request"] = metric[p]["ids_per_request"] + Moves(p, s, Admitted)
       /\ metric'[p]["errors"] = metric[p]["errors"] + MoreFail(p, s)
       /\ metric'[p]["ids_generated"] >= metric[p]["ids_generated"]
  /\ ~ On(p) => metric'[p] = metric[p]
  /\ Moves(p, s, Admitted) \in Nat /\ Moves(p, s, {"done"}) \in Nat /\ MoreFail(p, s) \in Nat

LEMMA Numbers ==
  ASSUME NEW p \in Processes, NEW s \in Streams, OthersKept(p, s)
  PROVE  /\ \A labels :
              /\ Cardinality(In(p, labels)) \in Nat /\ Moves(p, s, labels) \in -1 .. 1
              /\ Cardinality(In(p, labels)') = Cardinality(In(p, labels)) + Moves(p, s, labels)
         /\ Cardinality(Failed(p)) \in Nat
         /\ Cardinality(Failed(p)') = Cardinality(Failed(p)) + MoreFail(p, s)
<1>1. \A r \in Streams : r # s =>
        stream'[p][r] = stream[p][r] /\ item'[p][r] = item[p][r] /\ seen'[p][r] = seen[p][r]
  BY Zenon DEF OthersKept
<1>2. ASSUME NEW labels
      PROVE  /\ Cardinality(In(p, labels)) \in Nat /\ Moves(p, s, labels) \in -1 .. 1
             /\ Cardinality(In(p, labels)') = Cardinality(In(p, labels)) + Moves(p, s, labels)
  <2> DEFINE S == In(p, labels)
             T == In(p, labels)'
  <2>1. /\ Apart(S, T, s)
        /\ s \in S <=> stream[p][s] \in labels
        /\ s \in T <=> stream'[p][s] \in labels
    BY <1>1, Zenon DEF In, InOf, Apart
  <2> HIDE DEF S, T
  <2>2. Cardinality(S) \in Nat /\ Cardinality(T) = Cardinality(S) + One(s \in T) - One(s \in S)
    BY <2>1, SetMoves DEF One
  <2> QED BY <2>1, <2>2 DEF Moves, One, S, T
<1>3. /\ Cardinality(Failed(p)) \in Nat
      /\ Cardinality(Failed(p)') = Cardinality(Failed(p)) + MoreFail(p, s)
  <2> DEFINE S == Failed(p)
             T == Failed(p)'
  <2>1. /\ Apart(S, T, s)
        /\ s \in S <=> Fails(p, s)
        /\ s \in T <=> Fails(p, s)'
    BY <1>1, Zenon DEF Failed, Fails, Apart
  <2> HIDE DEF S, T
  <2>2. Cardinality(S) \in Nat /\ Cardinality(T) = Cardinality(S) + One(s \in T) - One(s \in S)
    BY <2>1, SetMoves DEF One
  <2> QED BY <2>1, <2>2 DEF MoreFail, One, S, T
<1> QED BY <1>2, <1>3, Zenon

\* The streams at one label or another.
LEMMA Parts ==
  ASSUME NEW w, NEW A, NEW B, \A l \in A : l \notin B
  PROVE  /\ Cardinality(InOf(w, A)) \in Nat /\ Cardinality(InOf(w, B)) \in Nat
         /\ Cardinality(InOf(w, A \cup B)) = Cardinality(InOf(w, A)) + Cardinality(InOf(w, B))
<1> DEFINE S == InOf(w, A)
           T == InOf(w, B)
<1>1. S \subseteq Streams /\ T \subseteq Streams /\ S \cap T = {} /\ InOf(w, A \cup B) = S \cup T
  BY DEF InOf
<1> HIDE DEF S, T
<1>2. IsFiniteSet(S) /\ IsFiniteSet(T)
  BY <1>1, ProcessAssumption, FS_Subset
<1>3. Cardinality(S) \in Nat /\ Cardinality(T) \in Nat /\ Cardinality({}) = 0
  BY <1>2, FS_CardinalityType, FS_EmptySet
<1>4. Cardinality(S \cup T) = Cardinality(S) + Cardinality(T) - Cardinality(S \cap T)
  BY <1>2, FS_Union
<1>5. Cardinality(S \cup T) = Cardinality(S) + Cardinality(T)
  <2>1. Cardinality(S \cap T) = 0
    BY <1>1, <1>3, Zenon
  <2>2. \A a \in Nat, b \in Nat : a + b - 0 = a + b
    OBVIOUS
  <2> QED BY <1>3, <1>4, <2>1, <2>2, Zenon
<1> QED BY <1>1, <1>3, <1>5, Zenon DEF S, T

\* A stream that is in flight or done is admitted.
LEMMA FlightOrDone ==
  ASSUME NEW w
  PROVE  /\ Cardinality(InOf(w, Flight)) \in Nat /\ Cardinality(InOf(w, {"done"})) \in Nat
         /\ Cardinality(InOf(w, Admitted)) \in Nat
         /\ Cardinality(InOf(w, Flight)) + Cardinality(InOf(w, {"done"}))
              <= Cardinality(InOf(w, Admitted))
<1> DEFINE Number(labels) == Cardinality(InOf(w, labels))
<1>1. /\ \A l \in Flight : l \notin {"done"}
      /\ \A l \in Flight \cup {"done"} : l \notin {"counted"}
      /\ Admitted = (Flight \cup {"done"}) \cup {"counted"}
  BY DEF Flight, Admitted
<1>2. /\ Number(Flight) \in Nat /\ Number({"done"}) \in Nat
      /\ Number(Flight \cup {"done"}) = Number(Flight) + Number({"done"})
  BY <1>1, Parts, Zenon
<1>3. /\ Number(Flight \cup {"done"}) \in Nat /\ Number({"counted"}) \in Nat
      /\ Number(Admitted) = Number(Flight \cup {"done"}) + Number({"counted"})
  BY <1>1, Parts, Zenon
<1> HIDE DEF Number
<1>4. Number(Admitted) \in Nat /\ Number(Flight) + Number({"done"}) <= Number(Admitted)
  BY <1>2, <1>3
<1> QED BY <1>2, <1>4 DEF Number

LEMMA AccountsKept ==
  ASSUME MetricTypes, MetricTypes', NEW p \in Processes, NEW s \in Streams,
         OthersKept(p, s), Accounts(p, s), MetricsOf(p),
         UNCHANGED <<handles, meter, pc>>, pc[p] \notin {"off", "exited", "configured"}
  PROVE  MetricsOf(p)'
<1>1. STREAMS_INFLIGHT'[p] = Cardinality(In(p, Early)')
  BY Numbers, ZenonT(40) DEF MetricsOf, Accounts
<1>2. metric'[p]["ids_per_request"] = metric'[p]["requests"]
  BY Zenon DEF MetricsOf, Accounts
<1>3. metric'[p]["ids_generated"] \in Nat
  <2>1. metric'[p]["ids_generated"] \in Int
    BY DEF MetricTypes, Metrics
  <2>2. \/ metric'[p] = metric[p]
        \/ metric'[p]["ids_generated"] >= metric[p]["ids_generated"]
    BY Zenon DEF Accounts
  <2>3. metric[p]["ids_generated"] \in Nat
    BY Zenon DEF MetricsOf
  <2> QED BY <2>1, <2>2, <2>3
<1>4. Cardinality(Failed(p)') \in Nat
  BY ProcessAssumption, FS_Subset, FS_CardinalityType DEF Failed
<1>5. ASSUME On(p) PROVE Exact(p)' /\ Bounded(p)'
  <2>0. Exact(p)
    BY <1>5, Zenon DEF MetricsOf
  <2>1. metric'[p]["errors"] = Cardinality(Failed(p)')
    BY <1>5, <2>0, Numbers, Zenon DEF Exact, Accounts
  <2>2. /\ metric'[p]["streams_inflight"] = Cardinality(In(p, Flight)')
        /\ metric'[p]["stream_duration"] = Cardinality(In(p, {"done"})')
    BY <1>5, <2>0, Numbers, ZenonT(30) DEF Exact, Accounts
  <2>3. metric'[p]["requests"] = Cardinality(In(p, Admitted)')
    BY <1>5, <2>0, Numbers, Zenon DEF Exact, Accounts
  <2>4. Exact(p)'
    BY <2>1, <2>2, <2>3, Zenon DEF Exact
  <2>5. \A n \in Nat : n <= n
    OBVIOUS
  <2>6. /\ Cardinality(In(p, Flight)') \in Nat /\ Cardinality(In(p, {"done"})') \in Nat
        /\ Cardinality(In(p, Admitted)') \in Nat
        /\ Cardinality(In(p, Flight)') + Cardinality(In(p, {"done"})')
             <= Cardinality(In(p, Admitted)')
    BY FlightOrDone, Zenon DEF In
  <2> QED BY <1>4, <2>1, <2>2, <2>3, <2>4, <2>5, <2>6, Zenon DEF Bounded
<1>6. ASSUME ~ On(p) PROVE Bounded(p)'
  <2>1. metric'[p] = metric[p] /\ Bounded(p)
    BY <1>6, Zenon DEF MetricsOf, Accounts
  <2>2. \A n, a, m \in Nat : n <= a => n <= a + m
    OBVIOUS
  <2>3. /\ Cardinality(In(p, Admitted)) \in Nat /\ Cardinality(In(p, {"done"})) \in Nat
        /\ Cardinality(Failed(p)) \in Nat
        /\ Cardinality(In(p, Admitted)') = Cardinality(In(p, Admitted)) + Moves(p, s, Admitted)
        /\ Cardinality(In(p, {"done"})') = Cardinality(In(p, {"done"})) + Moves(p, s, {"done"})
        /\ Cardinality(Failed(p)') = Cardinality(Failed(p)) + MoreFail(p, s)
    BY Numbers, Zenon
  <2>4. Moves(p, s, Admitted) \in Nat /\ Moves(p, s, {"done"}) \in Nat /\ MoreFail(p, s) \in Nat
    BY Zenon DEF Accounts
  <2>5. /\ metric[p]["requests"] <= Cardinality(In(p, Admitted)')
        /\ metric[p]["stream_duration"] <= Cardinality(In(p, {"done"})')
        /\ metric[p]["errors"] <= Cardinality(Failed(p)')
    BY <2>1, <2>2, <2>3, <2>4, Zenon DEF Bounded
  <2> QED BY <2>1, <2>5, Zenon DEF Bounded
<1>7. On(p)' <=> On(p)
  BY Zenon DEF On
<1>8. meter'[p] = "on" => handles'[p]
  BY Zenon DEF MetricsOf
<1>9. pc'[p] \notin {"off", "exited", "configured"}
  OBVIOUS
<1> QED BY <1>1, <1>2, <1>3, <1>5, <1>6, <1>7, <1>8, <1>9, Zenon DEF MetricsOf

\* A call of Add changes the metrics of p, where they are exported, by n.
LEMMA Added ==
  ASSUME MetricTypes, NEW p \in Processes, NEW n \in [Metrics -> Int], Add(p, n)
  PROVE  /\ metric' \in [Processes -> [Metrics -> Int]]
         /\ On(p) => \A m \in Metrics : metric'[p][m] = metric[p][m] + n[m]
         /\ ~ On(p) => metric'[p] = metric[p]
         /\ \A q \in Processes : q # p => metric'[q] = metric[q]
<1>1. metric \in [Processes -> [Metrics -> Int]]
  BY Zenon DEF MetricTypes
<1>2. /\ And(metric[p], n) \in [Metrics -> Int]
      /\ \A m \in Metrics : And(metric[p], n)[m] = metric[p][m] + n[m]
  BY <1>1 DEF And
<1>3. metric' = IF On(p) THEN [metric EXCEPT ![p] = And(metric[p], n)] ELSE metric
  BY Zenon DEF Add, On
<1> HIDE DEF Metrics
<1> QED BY <1>1, <1>2, <1>3, Zenon

\* The metrics of p that are exported grow by so much: streams in flight, durations,
\* requests and ids per request, errors, ids generated.  Nobody else's change.
Grow(p, f, d, r, e, g) ==
  /\ On(p) =>
       /\ metric'[p]["streams_inflight"] = metric[p]["streams_inflight"] + f
       /\ metric'[p]["stream_duration"] = metric[p]["stream_duration"] + d
       /\ metric'[p]["requests"] = metric[p]["requests"] + r
       /\ metric'[p]["ids_per_request"] = metric[p]["ids_per_request"] + r
       /\ metric'[p]["errors"] = metric[p]["errors"] + e
       /\ metric'[p]["ids_generated"] = metric[p]["ids_generated"] + g
  /\ ~ On(p) => metric'[p] = metric[p]
  /\ \A q \in Processes : q # p => metric'[q] = metric[q]
  /\ metric' \in [Processes -> [Metrics -> Int]]

LEMMA GrowBy ==
  ASSUME MetricTypes, NEW p \in Processes
  PROVE  /\ metric' = metric => Grow(p, 0, 0, 0, 0, 0)
         /\ Add(p, increment_stream_errors) => Grow(p, 0, 0, 0, 1, 0)
         /\ Add(p, And(increment_requests, record_ids_per_request)) => Grow(p, 0, 0, 1, 0, 0)
         /\ Add(p, increment_streams_inflight) => Grow(p, 1, 0, 0, 0, 0)
         /\ Add(p, increment_ids_generated) => Grow(p, 0, 0, 0, 0, 1)
         /\ Add(p, And(decrement_streams_inflight, record_stream_duration))
              => Grow(p, -1, 1, 0, 0, 0)
<1>1. ASSUME metric' = metric PROVE Grow(p, 0, 0, 0, 0, 0)
  <2>1. metric[p] \in [Metrics -> Int] /\ metric \in [Processes -> [Metrics -> Int]]
    BY Zenon DEF MetricTypes
  <2>2. \A m \in Metrics : metric'[p][m] = metric[p][m] + 0
    BY <1>1, <2>1
  <2> QED BY <1>1, <2>1, <2>2 DEF Grow, Metrics
<1>2. ASSUME NEW n \in [Metrics -> Int], Add(p, n)
      PROVE  Grow(p, n["streams_inflight"], n["stream_duration"], n["requests"], n["errors"],
                  n["ids_generated"])
               \/ n["requests"] # n["ids_per_request"]
  <2> DEFINE Grown(m) == metric'[p][m] = metric[p][m] + n[m]
  <2>1. On(p) => \A m \in Metrics : Grown(m)
    BY <1>2, Added, Zenon
  <2>2. On(p) => /\ Grown("streams_inflight") /\ Grown("stream_duration") /\ Grown("requests")
                 /\ Grown("ids_per_request") /\ Grown("errors") /\ Grown("ids_generated")
    BY <2>1, Zenon DEF Metrics
  <2> QED BY <1>2, <2>2, Added, Zenon DEF Grow
<1>3. \A name, m \in Metrics : \A k \in Int :
        /\ Of(name, k) \in [Metrics -> Int] /\ Of(name, k)[m] = IF m = name THEN k ELSE 0
  BY DEF Of
<1>4. \A n1, n2 \in [Metrics -> Int] :
        /\ And(n1, n2) \in [Metrics -> Int] /\ \A m \in Metrics : And(n1, n2)[m] = n1[m] + n2[m]
  BY DEF And
<1>5. Add(p, increment_stream_errors) => Grow(p, 0, 0, 0, 1, 0)
  <2> DEFINE n == increment_stream_errors
  <2>1. /\ n \in [Metrics -> Int] /\ n["streams_inflight"] = 0 /\ n["stream_duration"] = 0
        /\ n["requests"] = 0 /\ n["ids_per_request"] = 0
        /\ n["errors"] = 1 /\ n["ids_generated"] = 0
    BY <1>3 DEF increment_stream_errors, Metrics
  <2> HIDE DEF n
  <2> QED BY <1>2, <2>1, Zenon DEF n
<1>6. Add(p, increment_streams_inflight) => Grow(p, 1, 0, 0, 0, 0)
  <2> DEFINE n == increment_streams_inflight
  <2>1. /\ n \in [Metrics -> Int] /\ n["streams_inflight"] = 1 /\ n["stream_duration"] = 0
        /\ n["requests"] = 0 /\ n["ids_per_request"] = 0
        /\ n["errors"] = 0 /\ n["ids_generated"] = 0
    BY <1>3 DEF increment_streams_inflight, Metrics
  <2> HIDE DEF n
  <2> QED BY <1>2, <2>1, Zenon DEF n
<1>7. Add(p, increment_ids_generated) => Grow(p, 0, 0, 0, 0, 1)
  <2> DEFINE n == increment_ids_generated
  <2>1. /\ n \in [Metrics -> Int] /\ n["streams_inflight"] = 0 /\ n["stream_duration"] = 0
        /\ n["requests"] = 0 /\ n["ids_per_request"] = 0
        /\ n["errors"] = 0 /\ n["ids_generated"] = 1
    BY <1>3 DEF increment_ids_generated, Metrics
  <2> HIDE DEF n
  <2> QED BY <1>2, <2>1, Zenon DEF n
<1>8. Add(p, And(increment_requests, record_ids_per_request)) => Grow(p, 0, 0, 1, 0, 0)
  <2> DEFINE n == And(increment_requests, record_ids_per_request)
  <2>1. /\ n \in [Metrics -> Int] /\ n["streams_inflight"] = 0 /\ n["stream_duration"] = 0
        /\ n["requests"] = 1 /\ n["ids_per_request"] = 1
        /\ n["errors"] = 0 /\ n["ids_generated"] = 0
    BY <1>3, <1>4 DEF increment_requests, record_ids_per_request, Metrics
  <2> HIDE DEF n
  <2> QED BY <1>2, <2>1, Zenon DEF n
<1>9. Add(p, And(decrement_streams_inflight, record_stream_duration)) => Grow(p, -1, 1, 0, 0, 0)
  <2> DEFINE n == And(decrement_streams_inflight, record_stream_duration)
  <2>1. /\ n \in [Metrics -> Int] /\ n["streams_inflight"] = -1 /\ n["stream_duration"] = 1
        /\ n["requests"] = 0 /\ n["ids_per_request"] = 0
        /\ n["errors"] = 0 /\ n["ids_generated"] = 0
    BY <1>3, <1>4 DEF decrement_streams_inflight, record_stream_duration, Metrics
  <2> HIDE DEF n
  <2> QED BY <1>2, <2>1, Zenon DEF n
<1> QED BY <1>1, <1>5, <1>6, <1>7, <1>8, <1>9, Zenon

\* STREAMS_INFLIGHT of p grows by n.
Raise(p, n) ==
  /\ STREAMS_INFLIGHT' \in [Processes -> Int]
  /\ STREAMS_INFLIGHT'[p] = STREAMS_INFLIGHT[p] + n
  /\ \A q \in Processes : q # p => STREAMS_INFLIGHT'[q] = STREAMS_INFLIGHT[q]

LEMMA RaiseBy ==
  ASSUME MetricTypes, NEW p \in Processes
  PROVE  /\ STREAMS_INFLIGHT' = STREAMS_INFLIGHT => Raise(p, 0)
         /\ STREAMS_INFLIGHT' = [STREAMS_INFLIGHT EXCEPT ![p] = @ + 1] => Raise(p, 1)
         /\ STREAMS_INFLIGHT' = [STREAMS_INFLIGHT EXCEPT ![p] = @ - 1] => Raise(p, -1)
  BY DEF MetricTypes, Raise

\* What a stream that was at a, whose client saw e, and is now at b, with j for
\* its client, who saw h, adds to what the metrics count.
Turn(a, e, b, j, h, n, f, d, r, x) ==
  /\ Response(b, j, h)
  /\ n = One(b \in Early) - One(a \in Early)
  /\ f = One(b \in Flight) - One(a \in Flight)
  /\ d = One(b \in {"done"}) - One(a \in {"done"})
  /\ r = One(b \in Admitted) - One(a \in Admitted)
  /\ x = One(Fault(b, h)) - One(Fault(a, e))

\* That of s in p.
Turned(p, s, n, f, d, r, x) ==
  Turn(stream[p][s], seen[p][s], stream'[p][s], item'[p][s], seen'[p][s], n, f, d, r, x)

\* What is to be shown of a step that raises the counter by n and the metrics by the
\* others.
Balanced(p, s, n, f, d, r, e, g) ==
  /\ Raise(p, n) /\ Grow(p, f, d, r, e, g) /\ UNCHANGED <<handles, meter>>
  /\ Turned(p, s, n, f, d, r, e)

Accounted(p, s) ==
  /\ Accounts(p, s) /\ ResponseOf(p, s)' /\ MetricTypes' /\ UNCHANGED <<handles, meter>>
  /\ \A q \in Processes : q # p => /\ metric'[q] = metric[q]
                                   /\ STREAMS_INFLIGHT'[q] = STREAMS_INFLIGHT[q]

\* By the step: Request, HangUp, Invalid, Count, Spawn, Forward, SurfaceError,
\* EndStream or Truncate, Uncount, Unmeter and Deliver.
LEMMA Turns ==
  ASSUME NEW a, NEW i, NEW e, NEW b, NEW j, NEW h, Response(a, i, e)
  PROVE  /\ /\ a = "none" /\ b \in {"refused", "checked"} /\ j = i
            /\ h \in {"none", "unavailable"} /\ (b = "checked" => h = "none")
            => Turn(a, e, b, j, h, 0, 0, 0, 0, 0)
         /\ /\ a \in {"open", "ended", "uncounted", "done"} /\ b = a
            /\ e \in {"none", "part", "last"} /\ j = "none" /\ h = "gone"
            => Turn(a, e, b, j, h, 0, 0, 0, 0, 0)
         /\ a = "checked" /\ b = "invalid" /\ j = i /\ h = "invalid_argument"
            => Turn(a, e, b, j, h, 0, 0, 0, 0, 1)
         /\ a = "checked" /\ b = "counted" /\ j = i /\ h = e
            => Turn(a, e, b, j, h, 1, 0, 0, 1, 0)
         /\ a = "counted" /\ b = "open" /\ j = i /\ h = e
            => Turn(a, e, b, j, h, 0, 1, 0, 0, 0)
         /\ /\ a = "open" /\ b = "open" /\ i = "none" /\ j \in {"part", "last"}
            /\ e \in {"none", "part"} /\ h = e
            => Turn(a, e, b, j, h, 0, 0, 0, 0, 0)
         /\ /\ a = "open" /\ b = "ended" /\ i = "none" /\ j \in {"internal", "unavailable"}
            /\ e \in {"none", "part"} /\ h = e
            => Turn(a, e, b, j, h, 0, 0, 0, 0, 0)
         /\ a = "open" /\ b = "ended" /\ j = i /\ h = e
            => Turn(a, e, b, j, h, 0, 0, 0, 0, 0)
         /\ a = "ended" /\ b = "uncounted" /\ j = i /\ h = e
            => Turn(a, e, b, j, h, -1, 0, 0, 0, 0)
         /\ a = "uncounted" /\ b = "done" /\ j = i /\ h = e
            => Turn(a, e, b, j, h, 0, -1, 1, 0, 0)
         /\ i \in {"part", "last"} /\ b = a /\ j = "none" /\ h = i
            => Turn(a, e, b, j, h, 0, 0, 0, 0, 0)
         /\ i \notin {"none", "part", "last"} /\ b = a /\ j = "none" /\ h = i
            => Turn(a, e, b, j, h, 0, 0, 0, 0, 1)
<1>1. /\ a = "none" /\ b \in {"refused", "checked"} /\ j = i
      /\ h \in {"none", "unavailable"} /\ (b = "checked" => h = "none")
      => Turn(a, e, b, j, h, 0, 0, 0, 0, 0)
  BY DEF Turn, Response, Fault, One, Early, Flight, Admitted, Errors
<1>2. /\ a \in {"open", "ended", "uncounted", "done"} /\ b = a
      /\ e \in {"none", "part", "last"} /\ j = "none" /\ h = "gone"
      => Turn(a, e, b, j, h, 0, 0, 0, 0, 0)
  BY DEF Turn, Response, Fault, One, Early, Flight, Admitted, Errors
<1>3. a = "checked" /\ b = "invalid" /\ j = i /\ h = "invalid_argument"
      => Turn(a, e, b, j, h, 0, 0, 0, 0, 1)
  BY DEF Turn, Response, Fault, One, Early, Flight, Admitted, Errors
<1>4. a = "checked" /\ b = "counted" /\ j = i /\ h = e
      => Turn(a, e, b, j, h, 1, 0, 0, 1, 0)
  BY DEF Turn, Response, Fault, One, Early, Flight, Admitted, Errors
<1>5. a = "counted" /\ b = "open" /\ j = i /\ h = e
      => Turn(a, e, b, j, h, 0, 1, 0, 0, 0)
  BY DEF Turn, Response, Fault, One, Early, Flight, Admitted, Errors
<1>6. /\ a = "open" /\ b = "open" /\ i = "none" /\ j \in {"part", "last"}
      /\ e \in {"none", "part"} /\ h = e
      => Turn(a, e, b, j, h, 0, 0, 0, 0, 0)
  BY DEF Turn, Response, Fault, One, Early, Flight, Admitted, Errors
<1>7. /\ a = "open" /\ b = "ended" /\ i = "none" /\ j \in {"internal", "unavailable"}
      /\ e \in {"none", "part"} /\ h = e
      => Turn(a, e, b, j, h, 0, 0, 0, 0, 0)
  BY DEF Turn, Response, Fault, One, Early, Flight, Admitted, Errors
<1>8. a = "open" /\ b = "ended" /\ j = i /\ h = e
      => Turn(a, e, b, j, h, 0, 0, 0, 0, 0)
  BY DEF Turn, Response, Fault, One, Early, Flight, Admitted, Errors
<1>9. a = "ended" /\ b = "uncounted" /\ j = i /\ h = e
      => Turn(a, e, b, j, h, -1, 0, 0, 0, 0)
  BY DEF Turn, Response, Fault, One, Early, Flight, Admitted, Errors
<1>10. a = "uncounted" /\ b = "done" /\ j = i /\ h = e
       => Turn(a, e, b, j, h, 0, -1, 1, 0, 0)
  BY DEF Turn, Response, Fault, One, Early, Flight, Admitted, Errors
<1>11. i \in {"part", "last"} /\ b = a /\ j = "none" /\ h = i
       => Turn(a, e, b, j, h, 0, 0, 0, 0, 0)
  BY DEF Turn, Response, Fault, One, Early, Flight, Admitted, Errors
<1>12. i \notin {"none", "part", "last"} /\ b = a /\ j = "none" /\ h = i
       => Turn(a, e, b, j, h, 0, 0, 0, 0, 1)
  BY DEF Turn, Response, Fault, One, Early, Flight, Admitted, Errors
<1> QED BY <1>1, <1>2, <1>3, <1>4, <1>5, <1>6, <1>7, <1>8, <1>9, <1>10, <1>11, <1>12, Zenon

LEMMA StreamAccounts ==
  ASSUME Shape, MetricTypes, NEW p \in Processes, NEW s \in Streams, ResponseOf(p, s),
         Streaming(p, s)
  PROVE  Accounted(p, s)
<1>a. ASSUME NEW n \in Int, NEW f \in Int, NEW d \in Nat, NEW r \in Nat, NEW e \in Nat,
             NEW g \in Nat, Balanced(p, s, n, f, d, r, e, g)
      PROVE  Accounted(p, s)
  <2>0. /\ ResponseOf(p, s)' /\ n = Moves(p, s, Early)
        /\ f = Moves(p, s, Flight) /\ d = Moves(p, s, {"done"}) /\ r = Moves(p, s, Admitted)
        /\ e = MoreFail(p, s)
    BY <1>a, Zenon DEF Balanced, Turned, Turn, ResponseOf, Moves, MoreFail, Fails
  <2>1. metric \in [Processes -> [Metrics -> Int]] /\ metric' \in [Processes -> [Metrics -> Int]]
    BY <1>a, Zenon DEF Balanced, MetricTypes, Grow
  <2>2. MetricTypes'
    BY <1>a, <2>1, Zenon DEF Balanced, MetricTypes, Raise
  <2>3. \A q \in Processes : q # p => /\ metric'[q] = metric[q]
                                      /\ STREAMS_INFLIGHT'[q] = STREAMS_INFLIGHT[q]
    BY <1>a, ZenonT(40) DEF Balanced, Raise, Grow
  <2>4. On(p) => metric'[p]["ids_generated"] >= metric[p]["ids_generated"]
    <3>1. metric[p]["ids_generated"] \in Int
      BY <2>1 DEF Metrics
    <3>2. On(p) => metric'[p]["ids_generated"] = metric[p]["ids_generated"] + g
      BY <1>a, Zenon DEF Balanced, Grow
    <3> QED BY <3>1, <3>2
  <2>5. Accounts(p, s)
    BY <1>a, <2>0, <2>4, Zenon DEF Balanced, Accounts, Raise, Grow
  <2> QED BY <1>a, <2>0, <2>2, <2>3, <2>5, Zenon DEF Balanced, Accounted
<1>b. 0 \in Int /\ 1 \in Int /\ -1 \in Int /\ 0 \in Nat /\ 1 \in Nat
  OBVIOUS
<1>1. CASE Request(p, s)
  <2>1. /\ stream[p][s] = "none" /\ stream'[p][s] \in {"refused", "checked"}
        /\ item'[p][s] = item[p][s] /\ seen'[p][s] \in {"none", "unavailable"}
        /\ stream'[p][s] = "checked" => seen'[p][s] = "none"
    BY <1>1 DEF Request, At, Shape, Status
  <2>2. Grow(p, 0, 0, 0, 0, 0) /\ UNCHANGED <<handles, meter>>
    BY <1>1, GrowBy, Zenon DEF Request, telemetry
  <2>3. Raise(p, 0)
    BY <1>1, RaiseBy, Zenon DEF Request
  <2>4. Turned(p, s, 0, 0, 0, 0, 0)
    BY <2>1, Turns, Zenon DEF Turned, ResponseOf
  <2>5. Balanced(p, s, 0, 0, 0, 0, 0, 0)
    BY <2>2, <2>3, <2>4, Zenon DEF Balanced
  <2> QED BY <1>a, <1>b, <2>5, Zenon
<1>2. CASE HangUp(p, s)
  <2>1. /\ stream[p][s] \in {"open", "ended", "uncounted", "done"} /\ stream'[p][s] = stream[p][s]
        /\ seen[p][s] \in {"none", "part", "last"} /\ item'[p][s] = "none" /\ seen'[p][s] = "gone"
    BY <1>2 DEF HangUp, At, Shape
  <2>2. Grow(p, 0, 0, 0, 0, 0) /\ UNCHANGED <<handles, meter>>
    BY <1>2, GrowBy, Zenon DEF HangUp, telemetry
  <2>3. Raise(p, 0)
    BY <1>2, RaiseBy, Zenon DEF HangUp
  <2>4. Turned(p, s, 0, 0, 0, 0, 0)
    BY <2>1, Turns, Zenon DEF Turned, ResponseOf
  <2>5. Balanced(p, s, 0, 0, 0, 0, 0, 0)
    BY <2>2, <2>3, <2>4, Zenon DEF Balanced
  <2> QED BY <1>a, <1>b, <2>5, Zenon
<1>3. CASE Invalid(p, s)
  <2>1. /\ stream[p][s] = "checked" /\ stream'[p][s] = "invalid"
        /\ item'[p][s] = item[p][s] /\ seen'[p][s] = "invalid_argument"
    BY <1>3 DEF Invalid, At, Shape, Status
  <2>2. Grow(p, 0, 0, 0, 1, 0) /\ UNCHANGED <<handles, meter>>
    BY <1>3, GrowBy, Zenon DEF Invalid
  <2>3. Raise(p, 0)
    BY <1>3, RaiseBy, Zenon DEF Invalid
  <2>4. Turned(p, s, 0, 0, 0, 0, 1)
    BY <2>1, Turns, Zenon DEF Turned, ResponseOf
  <2>5. Balanced(p, s, 0, 0, 0, 0, 1, 0)
    BY <2>2, <2>3, <2>4, Zenon DEF Balanced
  <2> QED BY <1>a, <1>b, <2>5, Zenon
<1>4. CASE Count(p, s)
  <2>1. /\ stream[p][s] = "checked" /\ stream'[p][s] = "counted"
        /\ item'[p][s] = item[p][s] /\ seen'[p][s] = seen[p][s]
    BY <1>4 DEF Count, At, Shape
  <2>2. Grow(p, 0, 0, 1, 0, 0) /\ UNCHANGED <<handles, meter>>
    BY <1>4, GrowBy, Zenon DEF Count
  <2>3. Raise(p, 1)
    BY <1>4, RaiseBy, Zenon DEF Count
  <2>4. Turned(p, s, 1, 0, 0, 1, 0)
    BY <2>1, Turns, Zenon DEF Turned, ResponseOf
  <2>5. Balanced(p, s, 1, 0, 0, 1, 0, 0)
    BY <2>2, <2>3, <2>4, Zenon DEF Balanced
  <2> QED BY <1>a, <1>b, <2>5, Zenon
<1>5. CASE Spawn(p, s)
  <2>1. /\ stream[p][s] = "counted" /\ stream'[p][s] = "open"
        /\ item'[p][s] = item[p][s] /\ seen'[p][s] = seen[p][s]
    BY <1>5 DEF Spawn, At, Shape
  <2>2. Grow(p, 1, 0, 0, 0, 0) /\ UNCHANGED <<handles, meter>>
    BY <1>5, GrowBy, Zenon DEF Spawn
  <2>3. Raise(p, 0)
    BY <1>5, RaiseBy, Zenon DEF Spawn
  <2>4. Turned(p, s, 0, 1, 0, 0, 0)
    BY <2>1, Turns, Zenon DEF Turned, ResponseOf
  <2>5. Balanced(p, s, 0, 1, 0, 0, 0, 0)
    BY <2>2, <2>3, <2>4, Zenon DEF Balanced
  <2> QED BY <1>a, <1>b, <2>5, Zenon
<1>6. CASE Forward(p, s)
  <2>1. /\ stream[p][s] = "open" /\ stream'[p][s] = "open"
        /\ item[p][s] = "none" /\ item'[p][s] \in {"part", "last"}
        /\ seen[p][s] \in {"none", "part"} /\ seen'[p][s] = seen[p][s]
    BY <1>6 DEF Forward, At, Shape
  <2>2. Grow(p, 0, 0, 0, 0, 0) /\ UNCHANGED <<handles, meter>>
    BY <1>6, GrowBy, Zenon DEF Forward, telemetry
  <2>3. Raise(p, 0)
    BY <1>6, RaiseBy, Zenon DEF Forward
  <2>4. Turned(p, s, 0, 0, 0, 0, 0)
    BY <2>1, Turns, Zenon DEF Turned, ResponseOf
  <2>5. Balanced(p, s, 0, 0, 0, 0, 0, 0)
    BY <2>2, <2>3, <2>4, Zenon DEF Balanced
  <2> QED BY <1>a, <1>b, <2>5, Zenon
<1>7. CASE SurfaceError(p, s)
  <2>1. /\ stream[p][s] = "open" /\ stream'[p][s] = "ended"
        /\ item[p][s] = "none" /\ item'[p][s] \in {"internal", "unavailable"}
        /\ seen[p][s] \in {"none", "part"} /\ seen'[p][s] = seen[p][s]
    BY <1>7 DEF SurfaceError, At, Shape, Status
  <2>2. Grow(p, 0, 0, 0, 0, 0) /\ UNCHANGED <<handles, meter>>
    BY <1>7, GrowBy, Zenon DEF SurfaceError, telemetry
  <2>3. Raise(p, 0)
    BY <1>7, RaiseBy, Zenon DEF SurfaceError
  <2>4. Turned(p, s, 0, 0, 0, 0, 0)
    BY <2>1, Turns, Zenon DEF Turned, ResponseOf
  <2>5. Balanced(p, s, 0, 0, 0, 0, 0, 0)
    BY <2>2, <2>3, <2>4, Zenon DEF Balanced
  <2> QED BY <1>a, <1>b, <2>5, Zenon
<1>8. CASE EndStream(p, s)
  <2>1. /\ stream[p][s] = "open" /\ stream'[p][s] = "ended"
        /\ item'[p][s] = item[p][s] /\ seen'[p][s] = seen[p][s]
    BY <1>8 DEF EndStream, At, Shape
  <2>2. Grow(p, 0, 0, 0, 0, 0) /\ UNCHANGED <<handles, meter>>
    BY <1>8, GrowBy, Zenon DEF EndStream, telemetry
  <2>3. Raise(p, 0)
    BY <1>8, RaiseBy, Zenon DEF EndStream
  <2>4. Turned(p, s, 0, 0, 0, 0, 0)
    BY <2>1, Turns, Zenon DEF Turned, ResponseOf
  <2>5. Balanced(p, s, 0, 0, 0, 0, 0, 0)
    BY <2>2, <2>3, <2>4, Zenon DEF Balanced
  <2> QED BY <1>a, <1>b, <2>5, Zenon
<1>9. CASE Truncate(p, s)
  <2>1. /\ stream[p][s] = "open" /\ stream'[p][s] = "ended"
        /\ item'[p][s] = item[p][s] /\ seen'[p][s] = seen[p][s]
    BY <1>9 DEF Truncate, At, Shape
  <2>2. Grow(p, 0, 0, 0, 0, 0) /\ UNCHANGED <<handles, meter>>
    BY <1>9, GrowBy, Zenon DEF Truncate, telemetry
  <2>3. Raise(p, 0)
    BY <1>9, RaiseBy, Zenon DEF Truncate
  <2>4. Turned(p, s, 0, 0, 0, 0, 0)
    BY <2>1, Turns, Zenon DEF Turned, ResponseOf
  <2>5. Balanced(p, s, 0, 0, 0, 0, 0, 0)
    BY <2>2, <2>3, <2>4, Zenon DEF Balanced
  <2> QED BY <1>a, <1>b, <2>5, Zenon
<1>10. CASE Uncount(p, s)
  <2>1. /\ stream[p][s] = "ended" /\ stream'[p][s] = "uncounted"
        /\ item'[p][s] = item[p][s] /\ seen'[p][s] = seen[p][s]
    BY <1>10 DEF Uncount, At, Shape
  <2>2. Grow(p, 0, 0, 0, 0, 0) /\ UNCHANGED <<handles, meter>>
    BY <1>10, GrowBy, Zenon DEF Uncount, telemetry
  <2>3. Raise(p, -1)
    BY <1>10, RaiseBy, Zenon DEF Uncount
  <2>4. Turned(p, s, -1, 0, 0, 0, 0)
    BY <2>1, Turns, Zenon DEF Turned, ResponseOf
  <2>5. Balanced(p, s, -1, 0, 0, 0, 0, 0)
    BY <2>2, <2>3, <2>4, Zenon DEF Balanced
  <2> QED BY <1>a, <1>b, <2>5, Zenon
<1>11. CASE Unmeter(p, s)
  <2>1. /\ stream[p][s] = "uncounted" /\ stream'[p][s] = "done"
        /\ item'[p][s] = item[p][s] /\ seen'[p][s] = seen[p][s]
    BY <1>11 DEF Unmeter, At, Shape
  <2>2. Grow(p, -1, 1, 0, 0, 0) /\ UNCHANGED <<handles, meter>>
    BY <1>11, GrowBy, Zenon DEF Unmeter
  <2>3. Raise(p, 0)
    BY <1>11, RaiseBy, Zenon DEF Unmeter
  <2>4. Turned(p, s, 0, -1, 1, 0, 0)
    BY <2>1, Turns, Zenon DEF Turned, ResponseOf
  <2>5. Balanced(p, s, 0, -1, 1, 0, 0, 0)
    BY <2>2, <2>3, <2>4, Zenon DEF Balanced
  <2> QED BY <1>a, <1>b, <2>5, Zenon
<1>12. CASE Deliver(p, s)
  <2>1. /\ item[p][s] # "none" /\ stream'[p][s] = stream[p][s]
        /\ item'[p][s] = "none" /\ seen'[p][s] = item[p][s]
    BY <1>12 DEF Deliver, At, Shape
  <2>2. /\ item[p][s] \in {"part", "last"} => Grow(p, 0, 0, 0, 0, 1)
        /\ item[p][s] \notin {"part", "last"} => Grow(p, 0, 0, 0, 1, 0)
        /\ UNCHANGED <<handles, meter>>
    BY <1>12, GrowBy, Zenon DEF Deliver
  <2>3. Raise(p, 0)
    BY <1>12, RaiseBy, Zenon DEF Deliver
  <2>4. /\ item[p][s] \in {"part", "last"} => Turned(p, s, 0, 0, 0, 0, 0)
        /\ item[p][s] \notin {"part", "last"} => Turned(p, s, 0, 0, 0, 0, 1)
    BY <2>1, Turns, Zenon DEF Turned, ResponseOf
  <2>5. Balanced(p, s, 0, 0, 0, 0, 0, 1) \/ Balanced(p, s, 0, 0, 0, 0, 1, 0)
    BY <2>2, <2>3, <2>4, Zenon DEF Balanced
  <2> QED BY <1>a, <1>b, <2>5, Zenon
<1> QED
  BY <1>1, <1>2, <1>3, <1>4, <1>5, <1>6, <1>7, <1>8, <1>9, <1>10, <1>11, <1>12, Zenon
  DEF Streaming, ClientStep, StreamStep

\* A process without streams.
LEMMA NoneCounted ==
  ASSUME NEW w, \A s \in Streams : w[s] = "none"
  PROVE  /\ InOf(w, Early) = {} /\ InOf(w, Flight) = {} /\ InOf(w, {"done"}) = {}
         /\ InOf(w, Admitted) = {}
BY DEF InOf, Early, Flight, Admitted

LEMMA Zeros ==
  /\ Zero["streams_inflight"] = 0 /\ Zero["stream_duration"] = 0 /\ Zero["requests"] = 0
  /\ Zero["ids_per_request"] = 0 /\ Zero["errors"] = 0 /\ Zero["ids_generated"] = 0
  /\ Cardinality({}) = 0 /\ 0 \in Nat /\ 0 <= 0 /\ 0 + 0 <= 0
BY FS_EmptySet DEF Zero, Metrics

LEMMA Init_Metrics == Init => MetricsInv
<1> SUFFICES ASSUME Init PROVE MetricsInv
  OBVIOUS
<1>1. MetricTypes
  BY DEF Init, MetricTypes
<1> SUFFICES ASSUME NEW p \in Processes PROVE MetricsOf(p) /\ \A s \in Streams : ResponseOf(p, s)
  BY <1>1, Zenon DEF MetricsInv
<1>2. \A s \in Streams : stream[p][s] = "none" /\ item[p][s] = "none" /\ seen[p][s] = "none"
  BY Zenon DEF Init, NoStreams
<1>3. metric[p] = Zero /\ STREAMS_INFLIGHT[p] = 0 /\ meter[p] = "none"
  BY Zenon DEF Init, Zero
<1>4. /\ In(p, Early) = {} /\ In(p, Flight) = {} /\ In(p, {"done"}) = {} /\ In(p, Admitted) = {}
  BY <1>2, NoneCounted, Zenon DEF In
<1>5. Failed(p) = {}
  BY <1>2 DEF Failed, Fails, Fault, Errors
<1>6. \A s \in Streams : ResponseOf(p, s)
  BY <1>2 DEF ResponseOf, Response
<1>7. Bounded(p)
  BY <1>3, <1>4, <1>5, Zeros, Zenon DEF Bounded
<1>8. meter[p] # "on"
  BY <1>3
<1> QED BY <1>3, <1>4, <1>6, <1>7, <1>8, Zeros, Zenon DEF MetricsOf, On

LEMMA Blank ==
  ASSUME NEW p \in Processes, metric'[p] = Zero, STREAMS_INFLIGHT'[p] = 0,
         meter'[p] = "on" => handles'[p],
         \A s \in Streams : stream'[p][s] = "none" /\ item'[p][s] = "none" /\ seen'[p][s] = "none"
  PROVE  MetricsOf(p)' /\ \A s \in Streams : ResponseOf(p, s)'
<1>1. /\ In(p, Early)' = {} /\ In(p, Flight)' = {} /\ In(p, {"done"})' = {} /\ In(p, Admitted)' = {}
  BY NoneCounted, Zenon DEF In
<1>2. Failed(p)' = {}
  BY DEF Failed, Fails, Fault, Errors
<1>3. Bounded(p)'
  BY <1>1, <1>2, Zeros, Zenon DEF Bounded
<1>4. Exact(p)'
  BY <1>1, <1>2, Zeros, Zenon DEF Exact
<1>5. MetricsOf(p)'
  BY <1>1, <1>3, <1>4, Zeros, Zenon DEF MetricsOf
<1>6. \A s \in Streams : ResponseOf(p, s)'
  BY DEF ResponseOf, Response
<1> QED BY <1>5, <1>6

\* Labels of processes that have not counted anything.
Unused == {"off", "exited", "configured"}

LEMMA SameMetrics ==
  ASSUME NEW p \in Processes, MetricsOf(p), \A s \in Streams : ResponseOf(p, s),
         metric'[p] = metric[p], STREAMS_INFLIGHT'[p] = STREAMS_INFLIGHT[p],
         handles'[p] = handles[p], meter'[p] = "on" => meter[p] = "on", pc'[p] \in Unused => pc[p] \in Unused,
         \A s \in Streams : /\ stream'[p][s] = stream[p][s] /\ item'[p][s] = item[p][s]
                            /\ seen'[p][s] = seen[p][s]
  PROVE  MetricsOf(p)' /\ \A s \in Streams : ResponseOf(p, s)'
<1>1. \A labels : In(p, labels)' = In(p, labels)
  BY DEF In, InOf
<1>2. Failed(p)' = Failed(p)
  BY DEF Failed, Fails
<1>3. MetricsOf(p)'
  <2>1. Bounded(p) => Bounded(p)'
    BY <1>1, <1>2, Zenon DEF Bounded
  <2>2. Exact(p) => Exact(p)'
    BY <1>1, <1>2, Zenon DEF Exact
  <2>3. On(p)' => On(p)
    BY Zenon DEF On
  <2>4. STREAMS_INFLIGHT[p] = Cardinality(In(p, Early)) => STREAMS_INFLIGHT'[p] = Cardinality(In(p, Early)')
    BY <1>1, Zenon
  <2> QED BY <2>1, <2>2, <2>3, <2>4, Zenon DEF MetricsOf, Unused
<1>4. \A s \in Streams : ResponseOf(p, s)'
  BY ZenonT(40) DEF ResponseOf
<1> QED BY <1>3, <1>4

LEMMA Next_Metrics == Shape /\ HealthInv /\ MetricsInv /\ [Next]_vars => MetricsInv'
<1> SUFFICES ASSUME Shape, HealthInv, MetricsInv, [Next]_vars PROVE MetricsInv'
  OBVIOUS
<1> DEFINE Kept(q) == /\ metric'[q] = metric[q] /\ STREAMS_INFLIGHT'[q] = STREAMS_INFLIGHT[q]
                      /\ handles'[q] = handles[q] /\ (meter'[q] = "on" => meter[q] = "on")
                      /\ (pc'[q] \in Unused => pc[q] \in Unused)
                      /\ \A s \in Streams : /\ stream'[q][s] = stream[q][s]
                                            /\ item'[q][s] = item[q][s]
                                            /\ seen'[q][s] = seen[q][s]
           Holds(q) == MetricsOf(q)' /\ \A s \in Streams : ResponseOf(q, s)'
<1>a. MetricTypes /\ \A p \in Processes : MetricsOf(p) /\ \A s \in Streams : ResponseOf(p, s)
  BY Zenon DEF MetricsInv
<1>b. \A q \in Processes : Kept(q) => Holds(q)
  BY <1>a, SameMetrics, Zenon
<1>1. CASE UNCHANGED <<pc, stream, item, seen, metric, handles, meter, STREAMS_INFLIGHT>>
  <2>1. \A q \in Processes : Kept(q)
    BY <1>1, Zenon
  <2>2. MetricTypes'
    BY <1>1, <1>a, Zenon DEF MetricTypes
  <2> QED BY <1>b, <2>1, <2>2, Zenon DEF MetricsInv
<1>2. ASSUME NEW p \in Processes, NEW s \in Streams, Streaming(p, s)
      PROVE  MetricsInv'
  <2>1. pc' = pc /\ OthersKept(p, s)
    BY <1>2, StreamSteps, Zenon
  <2>2. pc[p] \notin Unused
    <3>1. pc[p] \in Starting => stream[p][s] # "none" \/ item[p][s] # "none"
      BY <1>2, StreamSteps, Zenon
    <3>2. HealthOf(p)
      BY Zenon DEF HealthInv
    <3> QED BY <3>1, <3>2, Zenon DEF HealthOf, Starting, Unused
  <2>3. Accounted(p, s)
    BY <1>2, <1>a, StreamAccounts, Zenon
  <2>4. \A q \in Processes : q # p => Kept(q)
    BY <2>1, <2>3, Zenon DEF OthersKept, Accounted
  <2>5. MetricsOf(p)'
    BY <1>a, <2>1, <2>2, <2>3, AccountsKept, Zenon DEF Accounted, Unused
  <2>6. \A r \in Streams : ResponseOf(p, r)'
    <3>1. ASSUME NEW r \in Streams, r # s PROVE ResponseOf(p, r)'
      <4>1. ResponseOf(p, r)
        BY <1>a, Zenon
      <4>2. stream'[p][r] = stream[p][r] /\ item'[p][r] = item[p][r] /\ seen'[p][r] = seen[p][r]
        BY <2>1, <3>1, Zenon DEF OthersKept
      <4> QED BY <4>1, <4>2, Zenon DEF ResponseOf
    <3> QED BY <2>3, <3>1, Zenon DEF Accounted
  <2> QED BY <1>b, <2>3, <2>4, <2>5, <2>6, Zenon DEF MetricsInv, Accounted
<1> HIDE DEF Kept, Holds
<1>c. ASSUME NEW p \in Processes, Holds(p), MetricTypes',
             \A q \in Processes : q # p => Kept(q)
      PROVE  MetricsInv'
  BY <1>b, <1>c, Zenon DEF MetricsInv, Holds
<1>3. ASSUME NEW p \in Processes, BindError(p) \/ Exit(p) \/ Crash(p) PROVE MetricsInv'
  <2>1. /\ \E label : pc' = [pc EXCEPT ![p] = label]
        /\ STREAMS_INFLIGHT' = [STREAMS_INFLIGHT EXCEPT ![p] = 0]
        /\ stream' = [stream EXCEPT ![p] = NoStreams("none")]
        /\ item' = [item EXCEPT ![p] = NoStreams("none")]
        /\ seen' = [seen EXCEPT ![p] = NoStreams("none")]
        /\ handles' = [handles EXCEPT ![p] = FALSE] /\ meter' = [meter EXCEPT ![p] = "none"]
        /\ metric' = [metric EXCEPT ![p] = Zero]
    BY <1>3, Zenon DEF BindError, Exit, Crash, Goto, Memory, Set, Zero
  <2>2. Zero \in [Metrics -> Int] /\ 0 \in Int
    BY DEF Zero
  <2>3. MetricTypes'
    BY <1>a, <2>1, <2>2, Zenon DEF MetricTypes
  <2>4. /\ metric'[p] = Zero /\ STREAMS_INFLIGHT'[p] = 0 /\ meter'[p] # "on"
        /\ \A s \in Streams : stream'[p][s] = "none" /\ item'[p][s] = "none" /\ seen'[p][s] = "none"
    BY <1>a, <2>1, Zenon DEF MetricTypes, Shape, NoStreams
  <2>5. Holds(p)
    BY <2>4, Blank, Zenon DEF Holds
  <2>6. \A q \in Processes : q # p => Kept(q)
    BY <1>a, <2>1, Zenon DEF MetricTypes, Shape, Kept
  <2> QED BY <1>c, <2>3, <2>5, <2>6, Zenon
<1>4. ASSUME NEW p \in Processes, init_telemetry(p) PROVE MetricsInv'
  <2>1. /\ pc[p] = "configured" /\ pc' = [pc EXCEPT ![p] = "telemetry"]
        /\ handles' = [handles EXCEPT ![p] = "metrics" \in features]
        /\ meter' = [meter EXCEPT ![p] = IF "metrics" \in features THEN "on" ELSE "none"]
        /\ UNCHANGED <<stream, item, seen, STREAMS_INFLIGHT, metric>>
    BY <1>4, Zenon DEF init_telemetry, init_metric_handles, Set, Goto, service, responses
  <2>2. MetricTypes'
    <3>1. ("metrics" \in features) \in BOOLEAN
      BY SMT
    <3>2. (IF "metrics" \in features THEN "on" ELSE "none") \in {"none", "on", "off"}
      BY Zenon
    <3> QED BY <1>a, <2>1, <3>1, <3>2, Zenon DEF MetricTypes
  <2>3. \A s \in Streams : stream[p][s] = "none" /\ item[p][s] = "none" /\ seen[p][s] = "none"
    BY <2>1, Zenon DEF HealthInv, HealthOf, Starting
  <2>4. metric[p] = Zero
    BY <1>a, <2>1, Zenon DEF MetricsOf
  <2>5. STREAMS_INFLIGHT[p] = 0
    <3>1. In(p, Early) = {}
      BY <2>3, NoneCounted, Zenon DEF In
    <3>2. STREAMS_INFLIGHT[p] = Cardinality(In(p, Early))
      BY <1>a, Zenon DEF MetricsOf
    <3> QED BY <3>1, <3>2, FS_EmptySet
  <2>6. meter'[p] = "on" => handles'[p]
    BY <1>a, <2>1, Zenon DEF MetricTypes
  <2>7. Holds(p)
    BY <2>1, <2>3, <2>4, <2>5, <2>6, Blank, Zenon DEF Holds
  <2>8. \A q \in Processes : q # p => Kept(q)
    BY <1>a, <2>1, Zenon DEF MetricTypes, Shape, Kept
  <2> QED BY <1>c, <2>2, <2>7, <2>8, Zenon
<1>5. ASSUME NEW p \in Processes,
             \/ Configure(p) \/ Bind(p) \/ Serve(p) \/ ConfigError(p) \/ TelemetryError(p)
             \/ Signal(p) \/ SetNotServing(p) \/ BeginShutdown(p) \/ Drained(p)
             \/ DrainTimeout(p) \/ StopWorkers(p) \/ FlushTraces(p) \/ FlushMetrics(p)
             \/ Close(p) \/ ServeError(p)
      PROVE  MetricsInv'
  <2>1. UNCHANGED <<stream, item, seen, metric, handles, STREAMS_INFLIGHT>>
    BY <1>5, Zenon DEF Configure, Bind, Serve, ConfigError, TelemetryError, Signal,
       SetNotServing, BeginShutdown, Drained, DrainTimeout, StopWorkers, FlushTraces,
       FlushMetrics, Close, ServeError, service, responses, telemetry
  <2>2. PICK label : /\ pc' = [pc EXCEPT ![p] = label]
                     /\ label \in Unused => pc[p] \in Unused
    BY <1>5, Zenon DEF Configure, Bind, Serve, ConfigError, TelemetryError, Signal,
       SetNotServing, BeginShutdown, Drained, DrainTimeout, StopWorkers, FlushTraces,
       FlushMetrics, Close, ServeError, Then, Fail, Goto, Alive, Unused
  <2>3. meter' = meter \/ \E v \in {"none", "off"} : meter' = [meter EXCEPT ![p] = v]
    BY <1>5, Zenon DEF Configure, Bind, Serve, ConfigError, TelemetryError, Signal,
       SetNotServing, BeginShutdown, Drained, DrainTimeout, StopWorkers, FlushTraces,
       FlushMetrics, Close, ServeError, Set, telemetry
  <2>4. /\ meter' \in [Processes -> {"none", "on", "off"}]
        /\ \A q \in Processes : meter'[q] = "on" => meter[q] = "on"
    BY <1>a, <2>3 DEF MetricTypes
  <2>5. \A q \in Processes : Kept(q)
    BY <2>1, <2>2, <2>4, Zenon DEF Shape, Kept
  <2>6. MetricTypes'
    BY <1>a, <2>1, <2>4, Zenon DEF MetricTypes
  <2> QED BY <1>b, <1>c, <2>5, <2>6, Zenon
<1> QED
  BY <1>1, <1>2, <1>3, <1>4, <1>5, Zenon
  DEF Next, StartStep, ShutdownStep, Streaming, vars, service, responses, telemetry

\* The metrics add up with each other and with the counter of streams in flight,
\* for any number of streams and whatever order requests, errors, hang-ups and the
\* shutdown come in; the last export before the shutdown of the provider never
\* shows more than there was.
THEOREM Reconciled == Spec => []MetricsReconcile
<1>1. ProcessInv /\ MetricsInv => MetricsReconcile
  <2> SUFFICES ASSUME MetricsInv, NEW p \in Processes
               PROVE  LET m == metric[p]
                          Number(labels) == Cardinality({ s \in Streams : stream[p][s] \in labels })
                          Told == Cardinality({ s \in Streams :
                                    seen[p][s] \in {"internal", "unavailable", "invalid_argument"}
                                    /\ stream[p][s] # "refused" })
                          Accepted == Number({"counted", "open", "ended", "uncounted", "done"})
                      IN /\ STREAMS_INFLIGHT[p] = Number({"counted", "open", "ended"})
                         /\ m["ids_per_request"] = m["requests"]
                         /\ meter[p] = "on" =>
                              /\ m["requests"] = Accepted
                              /\ m["streams_inflight"] = Number({"open", "ended", "uncounted"})
                              /\ m["stream_duration"] = Number({"done"})
                              /\ m["errors"] = Told
                         /\ meter[p] = "off" =>
                              /\ m["streams_inflight"] + m["stream_duration"] <= m["requests"]
                              /\ m["requests"] <= Accepted
                              /\ m["stream_duration"] <= Number({"done"})
                              /\ m["errors"] <= Told
    BY Zenon DEF MetricsReconcile
  <2>1. MetricsOf(p)
    BY Zenon DEF MetricsInv
  <2>2. Bounded(p) /\ (meter[p] = "on" => Exact(p))
    BY <2>1, Zenon DEF MetricsOf, On
  <2>3. STREAMS_INFLIGHT[p] = Cardinality(In(p, Early))
        /\ metric[p]["ids_per_request"] = metric[p]["requests"]
    BY <2>1, Zenon DEF MetricsOf
  <2>4. Admitted = {"counted", "open", "ended", "uncounted", "done"}
    BY DEF Admitted, Flight
  <2>5. Cardinality(Failed(p)) = Cardinality({ s \in Streams :
           seen[p][s] \in {"internal", "unavailable", "invalid_argument"}
           /\ stream[p][s] # "refused" })
    BY Zenon DEF Failed, Fails, Fault, Errors
  <2> QED BY <2>2, <2>3, <2>4, <2>5, Zenon DEF Bounded, Exact, In, InOf, Early, Flight
<1>2. Init => ProcessInv /\ MetricsInv
  BY ProcessInit, Init_Metrics
<1>3. (ProcessInv /\ MetricsInv) /\ [Next]_vars => (ProcessInv /\ MetricsInv)'
  BY ProcessNext, Next_Metrics DEF ProcessInv
<1> QED BY <1>1, <1>2, <1>3, PTL DEF Spec

(* Types. *)

Labels == {"off", "configured", "telemetry", "bound", "serving", "signalled", "not serving",
           "draining", "cancelling", "flush traces", "flush metrics", "closing", "closed",
           "exited"}
StreamLabels == {"none", "refused", "invalid", "checked", "counted", "open", "ended",
                 "uncounted", "done"}
Items == {"none", "part", "last", "internal", "unavailable"}
Sights == {"none", "part", "last", "internal", "unavailable", "invalid_argument", "gone"}

LabelTypes ==
  /\ features \in Built /\ pc \in [Processes -> Labels]
  /\ health \in [Processes -> {"none", "serving", "not serving"}]
  /\ stream \in [Processes -> [Streams -> StreamLabels]]
  /\ item \in [Processes -> [Streams -> Items]]
  /\ seen \in [Processes -> [Streams -> Sights]]
  /\ crashes \in 0 .. MaxCrashes /\ exits \in 0 .. MaxExits

LEMMA Init_Labels == Init => LabelTypes
BY ProcessAssumption DEF Init, LabelTypes, Labels, StreamLabels, Items, Sights, NoStreams

LEMMA Next_Labels == LabelTypes /\ [Next]_vars => LabelTypes'
<1> SUFFICES ASSUME LabelTypes, [Next]_vars PROVE LabelTypes'
  OBVIOUS
<1>a. /\ features \in Built /\ pc \in [Processes -> Labels]
      /\ health \in [Processes -> {"none", "serving", "not serving"}]
      /\ stream \in [Processes -> [Streams -> StreamLabels]]
      /\ item \in [Processes -> [Streams -> Items]]
      /\ seen \in [Processes -> [Streams -> Sights]]
      /\ crashes \in 0 .. MaxCrashes /\ exits \in 0 .. MaxExits
  BY Zenon DEF LabelTypes
<1>b. /\ crashes < MaxCrashes => crashes + 1 \in 0 .. MaxCrashes
      /\ exits < MaxExits => exits + 1 \in 0 .. MaxExits
  <2>1. \A n \in Nat : \A i \in 0 .. n : i < n => i + 1 \in 0 .. n
    OBVIOUS
  <2> QED BY <1>a, <2>1, ProcessAssumption, Zenon
<1>1. CASE UNCHANGED vars
  BY <1>a, <1>1, Zenon
  DEF LabelTypes, vars, network, service, responses, telemetry, bounds
<1>2. ASSUME NEW p \in Processes, NEW s \in Streams, Streaming(p, s)
      PROVE  LabelTypes'
  <2>1. UNCHANGED <<features, pc, health, crashes, exits>>
    BY <1>2, Zenon DEF Streaming, ClientStep, StreamStep, Request, HangUp, Invalid, Count, Spawn,
       Forward, Deliver, SurfaceError, EndStream, Truncate, Uncount, Unmeter, network, telemetry, bounds
  <2>2. stream' = stream \/ \E v \in StreamLabels : stream' = At(stream, p, s, v)
    BY <1>2, Zenon DEF Streaming, ClientStep, StreamStep, Request, HangUp, Invalid, Count, Spawn,
       Forward, Deliver, SurfaceError, EndStream, Truncate, Uncount, Unmeter, StreamLabels
  <2>3. /\ Status("ServiceShutdown") = "unavailable" /\ Status("ChannelError") = "internal"
        /\ Status("InvalidRequest") = "invalid_argument"
    BY DEF Status
  <2>4. item' = item \/ \E v \in Items : item' = At(item, p, s, v)
    BY <1>2, <2>3, Zenon DEF Streaming, ClientStep, StreamStep, Request, HangUp, Invalid, Count,
       Spawn, Forward, Deliver, SurfaceError, EndStream, Truncate, Uncount, Unmeter, Items
  <2>5. seen' = seen \/ \E v \in Sights : seen' = At(seen, p, s, v)
    <3>1. item[p][s] \in Sights
      <4>1. item[p][s] \in Items
        BY <1>a, Zenon
      <4> QED BY <4>1 DEF Items, Sights
    <3> QED BY <1>2, <2>3, <3>1, Zenon DEF Streaming, ClientStep, StreamStep, Request, HangUp,
       Invalid, Count, Spawn, Forward, Deliver, SurfaceError, EndStream, Truncate, Uncount, Unmeter, Sights
  <2>6. stream' \in [Processes -> [Streams -> StreamLabels]]
    <3>1. \A v \in StreamLabels : At(stream, p, s, v) \in [Processes -> [Streams -> StreamLabels]]
      BY <1>a DEF At
    <3> QED BY <1>a, <2>2, <3>1, Zenon
  <2>7. item' \in [Processes -> [Streams -> Items]]
    <3>1. \A v \in Items : At(item, p, s, v) \in [Processes -> [Streams -> Items]]
      BY <1>a DEF At
    <3> QED BY <1>a, <2>4, <3>1, Zenon
  <2>8. seen' \in [Processes -> [Streams -> Sights]]
    <3>1. \A v \in Sights : At(seen, p, s, v) \in [Processes -> [Streams -> Sights]]
      BY <1>a DEF At
    <3> QED BY <1>a, <2>5, <3>1, Zenon
  <2> QED BY <1>a, <2>1, <2>6, <2>7, <2>8, Zenon DEF LabelTypes
<1>3. ASSUME NEW p \in Processes, BindError(p) \/ Exit(p) \/ Crash(p) PROVE LabelTypes'
  <2>1. /\ features' = features /\ exits' = exits
        /\ crashes' = crashes \/ (crashes < MaxCrashes /\ crashes' = crashes + 1)
        /\ \E l \in Labels : pc' = [pc EXCEPT ![p] = l]
        /\ stream' = [stream EXCEPT ![p] = NoStreams("none")]
        /\ item' = [item EXCEPT ![p] = NoStreams("none")]
        /\ seen' = [seen EXCEPT ![p] = NoStreams("none")]
        /\ health' = [health EXCEPT ![p] = "none"]
    BY <1>3, Zenon DEF BindError, Exit, Crash, Goto, Memory, Set, Labels, network, bounds
  <2>2. /\ NoStreams("none") \in [Streams -> StreamLabels]
        /\ NoStreams("none") \in [Streams -> Items]
        /\ NoStreams("none") \in [Streams -> Sights]
    BY Zenon DEF NoStreams, StreamLabels, Items, Sights
  <2> QED BY <1>a, <1>b, <2>1, <2>2, Zenon DEF LabelTypes
<1>4. ASSUME NEW p \in Processes,
             \/ Configure(p) \/ init_telemetry(p) \/ Bind(p) \/ Serve(p) \/ ConfigError(p)
             \/ TelemetryError(p) \/ Signal(p) \/ SetNotServing(p) \/ BeginShutdown(p)
             \/ Drained(p) \/ DrainTimeout(p) \/ StopWorkers(p) \/ FlushTraces(p)
             \/ FlushMetrics(p) \/ Close(p) \/ ServeError(p)
      PROVE  LabelTypes'
  <2>1. UNCHANGED <<features, stream, item, seen, crashes>>
    BY <1>4, Zenon DEF Configure, init_telemetry, Bind, Serve, ConfigError, TelemetryError,
       Signal, SetNotServing, BeginShutdown, Drained, DrainTimeout, StopWorkers, FlushTraces,
       FlushMetrics, Close, ServeError, Then, service, responses, network, bounds
  <2>2. exits' = exits \/ (exits < MaxExits /\ exits' = exits + 1)
    BY <1>4, Zenon DEF Configure, init_telemetry, Bind, Serve, ConfigError, TelemetryError,
       Signal, SetNotServing, BeginShutdown, Drained, DrainTimeout, StopWorkers, FlushTraces,
       FlushMetrics, Close, ServeError, Fail, bounds
  <2>3. \E l \in Labels : pc' = [pc EXCEPT ![p] = l]
    BY <1>4, Zenon DEF Configure, init_telemetry, Bind, Serve, ConfigError, TelemetryError,
       Signal, SetNotServing, BeginShutdown, Drained, DrainTimeout, StopWorkers, FlushTraces,
       FlushMetrics, Close, ServeError, Then, Fail, Goto, Labels
  <2>4. \/ health' = health \/ health' = [health EXCEPT ![p] = "serving"]
        \/ health' = [health EXCEPT ![p] = "not serving"]
    BY <1>4, Zenon DEF Configure, init_telemetry, Bind, Serve, ConfigError, TelemetryError,
       Signal, SetNotServing, BeginShutdown, Drained, DrainTimeout, StopWorkers, FlushTraces,
       FlushMetrics, Close, ServeError, Set, service
  <2>5. pc' \in [Processes -> Labels]
    BY <1>a, <2>3, Zenon
  <2>6. health' \in [Processes -> {"none", "serving", "not serving"}]
    BY <1>a, <2>4, Zenon
  <2>7. exits' \in 0 .. MaxExits
    BY <1>a, <1>b, <2>2, Zenon
  <2> QED BY <1>a, <2>1, <2>5, <2>6, <2>7, Zenon DEF LabelTypes
<1> QED BY <1>1, <1>2, <1>3, <1>4, Zenon DEF Next, StartStep, ShutdownStep, Streaming

LEMMA Typed == ASSUME ProcessInv, MetricsInv, LabelTypes PROVE TypeOK
<1>1. ASSUME NEW p \in Processes
      PROVE  STREAMS_INFLIGHT[p] \in Nat /\ metric[p] \in [Metrics -> Nat]
  <2>1. MetricsOf(p) /\ metric[p] \in [Metrics -> Int]
    BY Zenon DEF MetricsInv, MetricTypes
  <2>2. Cardinality(In(p, Early)) \in Nat
    <3>1. In(p, Early) \subseteq Streams
      BY DEF In, InOf
    <3> QED BY <3>1, ProcessAssumption, FS_Subset, FS_CardinalityType
  <2>3. /\ metric[p]["streams_inflight"] \in Nat /\ metric[p]["stream_duration"] \in Nat
        /\ metric[p]["requests"] \in Nat /\ metric[p]["ids_per_request"] \in Nat
        /\ metric[p]["errors"] \in Nat /\ metric[p]["ids_generated"] \in Nat
    BY <2>1, Zenon DEF MetricsOf, Bounded
  <2>4. \A m \in Metrics : metric[p][m] \in Nat
    BY <2>3 DEF Metrics
  <2> QED BY <2>1, <2>2, <2>4, Zenon DEF MetricsOf
<1>2. STREAMS_INFLIGHT \in [Processes -> Nat] /\ metric \in [Processes -> [Metrics -> Nat]]
  BY <1>1, Zenon DEF MetricsInv, MetricTypes
<1> QED BY <1>2, Zenon DEF ProcessInv, Shape, MetricsInv, MetricTypes, LabelTypes, Labels,
  StreamLabels, Items, Sights, TypeOK

\* Every variable keeps its type: STREAMS_INFLIGHT, an unsigned counter in the
\* code, and the gauge streams_inflight never go below zero.
THEOREM TypeCorrect == Spec => []TypeOK
<1>1. ProcessInv /\ MetricsInv /\ LabelTypes => TypeOK
  BY Typed
<1>2. Init => ProcessInv /\ MetricsInv /\ LabelTypes
  BY ProcessInit, Init_Metrics, Init_Labels
<1>3. (ProcessInv /\ MetricsInv /\ LabelTypes) /\ [Next]_vars
        => (ProcessInv /\ MetricsInv /\ LabelTypes)'
  BY ProcessNext, Next_Metrics, Next_Labels DEF ProcessInv
<1> QED BY <1>1, <1>2, <1>3, PTL DEF Spec
=============================================================================
