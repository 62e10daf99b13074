----------------------------- MODULE MCServers -----------------------------
(***************************************************************************)
(* Small instances of Servers for TLC.  The paths are those of the user    *)
(* module, one that overlaps them and one that repeats a parameter.  Two   *)
(* fragments of the schema extend Mutation, as that of the user module     *)
(* does, and one declares a field of Query with the name one of them has.  *)
(***************************************************************************)
EXTENDS Servers

CONSTANTS k1, k2, t1, t2, q1, q2, noQuery
CONSTANTS users, me, addresses, u1, userId

OverlappingPaths == {<<users, userId>>, <<users, me>>, <<userId, userId>>}
UserUrls == {<<users, u1>>, <<users, me>>, <<users, u1, addresses>>}

createUser == [type |-> "Mutation", name |-> "createUser"]
greet == [type |-> "Mutation", name |-> "greet"]
allUsers == [type |-> "Query", name |-> "users"]
greeting == [type |-> "Query", name |-> "greet"]

ThreeFragments == {"user", "greeter", "reader"}
FieldsOf == [user |-> <<createUser>>, greeter |-> <<allUsers, greet>>, reader |-> <<greeting>>]
AllQueries == {createUser, greet, allUsers, greeting, noQuery}

(* Routes and fragments registered at any time around one request; servers *)
(* started and stopped in turns, and overlapping, around two requests.     *)
SmallInstances ==
  { [kind |-> "http", takesTurns |-> TRUE, registrations |-> 3,
     starts |-> {k1}, stops |-> {}, requests |-> {q1}],
    [kind |-> "graphql", takesTurns |-> TRUE, registrations |-> 3,
     starts |-> {k1, k2}, stops |-> {t1}, requests |-> {q1}],
    [kind |-> "http", takesTurns |-> TRUE, registrations |-> 1,
     starts |-> {k1, k2}, stops |-> {t1, t2}, requests |-> {q1, q2}],
    [kind |-> "http", takesTurns |-> FALSE, registrations |-> 1,
     starts |-> {k1, k2}, stops |-> {t1, t2}, requests |-> {q1}] }
=============================================================================
