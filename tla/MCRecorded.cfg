SPECIFICATION Spec
CONSTANTS
  a1 = a1
  a2 = a2
  a3 = a3
  g1 = g1
  u1 = u1
  u2 = u2
  Adds = {a1, a2, a3}
  Gets = {}
  Users = {u1, u2}
  Cases <- OneMissing
  OrmEm = OrmEm
  Nobody = Nobody
  NotLoaded = NotLoaded
INVARIANT AcceptedIsRecorded
