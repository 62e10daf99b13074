------------------------ MODULE MCApplicationService ------------------------
(***************************************************************************)
(* Small instances of ApplicationService for TLC.                          *)
(***************************************************************************)
EXTENDS ApplicationService, TLC

UseCaseOnly == {"useCase"}
AnyUserCode == {"useCase", "dispatch", "publish"}

Symmetry ==
  Permutations(Contexts) \cup Permutations(Exec) \cup Permutations(Events)
    \cup Permutations(Aggregates)
=============================================================================
