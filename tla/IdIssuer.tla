------------------------------ MODULE IdIssuer ------------------------------
(***************************************************************************)
(* What every monotonic generator of the crate promises its callers: "a    *)
(* new, time-ordered, unique ID" (e.g. generator/snowflake/atomic.rs:132). *)
(* Seen from outside a generator is the last id it issued and how many it  *)
(* has issued; an issue replaces the id by a greater one of the same       *)
(* generator.  The count makes every issue a step: to issue the last id    *)
(* again is not a stutter, and the order forbids it.  So no id is ever     *)
(* issued twice, and ids sort in order of issue.                           *)
(***************************************************************************)
EXTENDS Integers

CONSTANT Ids        \* the ids this generator may issue
VARIABLES
  last,             \* the last id issued, or the one it was created with
  count             \* how many ids it has issued

vars == <<last, count>>

Init == last \in Ids /\ count = 0

Issue ==
  /\ \E id \in Ids : id > last /\ last' = id
  /\ count' = count + 1

Spec == Init /\ [][Issue]_vars
=============================================================================
