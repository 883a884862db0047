-------------------------- MODULE MCAsyncSnowflake --------------------------
(* Constants for model-checking AsyncSnowflake. *)
EXTENDS AsyncSnowflake

CONSTANTS t1

OneTask == {t1}
BothProviders == {"sleep", "yield"}
\* before the system time and after it
PastAndFuture == {0, 5}
\* a system time in mid-millisecond, and set back before the Unix epoch
Adjusted == {-3, 3}
=============================================================================
