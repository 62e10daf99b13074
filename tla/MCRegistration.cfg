SPECIFICATION FairSpec
CONSTANTS
  r1 = r1
  r2 = r2
  r3 = r3
  m1 = m1
  m2 = m2
  Requests = {r1, r2, r3}
  GraphqlRequests = {r2}
  Emails = {m1, m2}
  Bodies <- TwoForOneAddress
  DatabaseFails = TRUE
  OrmEm = OrmEm
  Nobody = Nobody
INVARIANTS
  TypeOK
  FlushFindsOwn
  CreatedIsRecorded
  StrandedByFailure
  ConflictIsJustified
PROPERTIES
  CreatedBecomesDurable
  EveryRequestEnds
