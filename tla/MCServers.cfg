SPECIFICATION FairSpec
CONSTANTS
  k1 = k1
  k2 = k2
  t1 = t1
  t2 = t2
  q1 = q1
  q2 = q2
  Starts = {k1, k2}
  Stops = {t1, t2}
  Requests = {q1, q2}
  Instances <- SmallInstances
  PortMayBeTaken = TRUE
  NoServer = NoServer
  Paths <- OverlappingPaths
  Urls <- UserUrls
  NoMatch = NoMatch
  users = users
  me = me
  addresses = addresses
  u1 = u1
  userId = userId
  ParamSegments = {userId}
  Fragments <- ThreeFragments
  Fields <- FieldsOf
  SchemaSource = NoSchema
  NoSchema = NoSchema
  NoResolver = NoResolver
  Queries <- AllQueries
  NullBody = NullBody
  noQuery = noQuery
INVARIANTS TypeOK RoutedToFirstMatch NothingLeaks StoppedMeansAnswered RefusedIffUnknown LastOfNameResolves
PROPERTY EverythingSettles
