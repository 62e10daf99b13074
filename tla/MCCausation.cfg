SPECIFICATION Spec
CONSTANTS
  r1 = r1
  r2 = r2
  r3 = r3
  m1 = m1
  m2 = m2
  Requests = {r1, r2}
  GraphqlRequests = {}
  Emails = {m1, m2}
  Bodies <- Named
  DatabaseFails = TRUE
  OrmEm = OrmEm
  Nobody = Nobody
INVARIANT
  CausesAreStored
