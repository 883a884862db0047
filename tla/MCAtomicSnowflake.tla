------------------------- MODULE MCAtomicSnowflake -------------------------
(* Constants for model-checking AtomicSnowflake. *)
EXTENDS AtomicSnowflake, TLC

CONSTANTS t1, t2, t3

TwoThreads == {t1, t2}
ThreeThreads == {t1, t2, t3}
ThreadSymmetry == Permutations(Threads)

NewOnly == { <<0, 0>> }
\* new, and from_components resuming in the present and in the future
NewAndResumed == { <<0, 0>>, <<1, 0>>, <<2, 1>> }
=============================================================================
