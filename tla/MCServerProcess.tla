-------------------------- MODULE MCServerProcess --------------------------
(* Constants for model-checking ServerProcess. *)
EXTENDS ServerProcess

CONSTANTS p1, p2, s1

TwoProcesses == {p1, p2}
OneStream == {s1}

\* No telemetry; traces only; traces and metrics.  With an exporter to honeycomb
\* setting up either may fail.
ThreeBuilds == {{}, {"tracing", "honeycomb"}, {"tracing", "metrics", "honeycomb"}}
=============================================================================
