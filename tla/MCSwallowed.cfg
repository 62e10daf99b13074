SPECIFICATION Spec
CONSTANTS
  Contexts = {c1}
  Exec = {x1, x2}
  Aggregates = {a1}
  Adapters = {n1}
  Events = {e1, e2}
  Retained = {}
  EmittingPhases <- UseCaseOnly
  CatchingSubscribers = TRUE
INVARIANT
  CommitPersistsOwn
