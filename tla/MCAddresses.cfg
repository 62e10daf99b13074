SPECIFICATION FairSpec
CONSTANTS
  a1 = a1
  a2 = a2
  a3 = a3
  g1 = g1
  u1 = u1
  u2 = u2
  Adds = {a1, a2, a3}
  Gets = {g1}
  Users = {u1, u2}
  Cases <- SmallCases
  OrmEm = OrmEm
  Nobody = Nobody
  NotLoaded = NotLoaded
INVARIANTS TypeOK AcceptedIsNotLost ShownIsStored OnlyMissingNumberExits
PROPERTIES GetFailsOnlyAtFirst AcceptedBecomesDurable
