--------------------------- MODULE MCStreamServer ---------------------------
(* Constants for model-checking StreamServer. *)
EXTENDS StreamServer, TLC

CONSTANTS s1, s2

OneStream == {s1}
TwoStreams == {s1, s2}

\* one id each; a longer and a shorter request; refused, partial and full chunks
SingleIds == [s \in Streams |-> {1}]
LongAndShort == [s \in Streams |-> IF s = s1 THEN {2} ELSE {1}]
AllKinds == [s \in Streams |-> {0, 2, 3, 4}]

StreamSymmetry == Permutations(Streams)
=============================================================================
