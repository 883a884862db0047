-------------------------- MODULE MCLockSnowflake --------------------------
(* Constants for model-checking LockSnowflake. *)
EXTENDS LockSnowflake, TLC

CONSTANTS t1, t2, t3

TwoThreads == {t1, t2}
ThreeThreads == {t1, t2, t3}

NewOnly == { <<0, 0>> }
\* new, and from_components resuming in the present or in the future
NewAndResumed == { <<0, 0>>, <<1, 0>>, <<1, 1>> }
=============================================================================
