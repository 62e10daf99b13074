-------------------------- MODULE MCInMemoryUsers --------------------------
(***************************************************************************)
(* Small instances of InMemoryUsers for TLC.                               *)
(***************************************************************************)
EXTENDS InMemoryUsers, TLC

Symmetry == Permutations(Creates) \cup Permutations(Adds) \cup Permutations(Emails)
=============================================================================
