SPECIFICATION FairSpec
CONSTANTS
  Contexts = {c1, c2}
  Exec = {x1, x2, x3}
  Aggregates = {a1}
  Adapters = {n1}
  Events = {e1, e2}
  Retained = {n1}
  EmittingPhases <- UseCaseOnly
  CatchingSubscribers = TRUE
INVARIANTS
  EventInOnePlace
  NoScopeLeft
  ReturnedMeansDelivered
PROPERTY
  EveryExecutionEnds
