SPECIFICATION Spec
CONSTANTS
  Contexts = {c1, c2}
  Exec = {x1, x2, x3}
  Aggregates = {a1, a2}
  Adapters = {n1}
  Events = {e1, e2, e3}
  Retained = {}
  EmittingPhases <- AnyUserCode
  CatchingSubscribers = FALSE
SYMMETRY Symmetry
INVARIANTS
  TypeOK
  ScopesMatchCalls
  CommitPersistsOwn
  OwnershipInv
PROPERTY
  ImplementsUnitOfWork
