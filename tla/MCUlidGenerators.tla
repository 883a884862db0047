-------------------------- MODULE MCUlidGenerators --------------------------
(* Constants for model-checking UlidGenerators. *)
EXTENDS UlidGenerators

CONSTANTS t1, t2

TwoThreads == {t1, t2}
AllKinds == {"atomic", "std", "parking_lot", "local", "basic"}

\* new, and from_components resuming in the future at the greatest random
NewAndResumed == { <<0, 0>>, <<1, 1>> }
\* draws wider than the random field, as ThreadRandom's 128 bits are
WideRandoms == {0, 1, 2}
=============================================================================
