-------------------------- MODULE MCEventDispatch --------------------------
(***************************************************************************)
(* A small instance of EventDispatch for TLC: two executions that have an  *)
(* event of one name in common, and one of them another or the same again. *)
(***************************************************************************)
EXTENDS EventDispatch

CONSTANTS n1, n2, x1, x2

SomeInCommon ==
  {[x \in Runs |-> IF x = x1 THEN <<n1, n>> ELSE <<n1>>] : n \in Names}
=============================================================================
