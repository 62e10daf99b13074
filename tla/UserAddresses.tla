--------------------------- MODULE UserAddresses ---------------------------
(***************************************************************************)
(* POST /users/:userId/addresses and GET /users/:userId with the production*)
(* adapters.  AddAddress runs under ApplicationService; GetUser bypasses it*)
(* and reads through whatever EntityManager the provider holds.  As in     *)
(* UserRegistration, a request runs from one wait for I/O to the next      *)
(* without a callback of the event loop in between, an upsert is not waited*)
(* for, and the one connection of the database serves one transaction at a *)
(* time. A GET that arrives while the COMMIT of the EntityManager it reads *)
(* through is under way is refused by it.                                  *)
(*                                                                         *)
(* The users have been registered before: nothing adds or removes one here.*)
(***************************************************************************)
EXTENDS Sequences, Integers, FiniteSets, ValueObjects

CONSTANTS
  Adds,           \* the POST /users/:userId/addresses received
  Gets,           \* the GET /users/:userId received
  Users,          \* the user ids that may be asked for
  Cases,          \* the bodies, ids, tables and faults to consider
  OrmEm,          \* the EntityManager made by MikroORM.init
  Nobody,         \* no execution, and no EntityManager
  NotLoaded       \* no entity in an identity map

Requests == Adds \cup Gets
EntityManagers == Adds \cup {OrmEm}

(* databaseFails: may a query or a flush fail for a reason of its own.     *)
ASSUME CasesAssumption ==
  Cases \subseteq [body : [Adds -> Forms], userId : [Requests -> Users],
                   users : SUBSET Users, databaseFails : BOOLEAN]
ASSUME NamesAssumption ==
  /\ OrmEm \notin Adds /\ Nobody \notin Adds \cup {OrmEm}
  /\ Adds \cap Gets = {}

VARIABLES
  pc, calls, scopes, tracked, domainEvents, touched, emitted, events, todo,
  published, stored, persisted,   \* the state of ApplicationService
  entityManager, pending, runner, writer, batch, flushQueue, resolved, rejected,
  systemEvents, cleared,          \* the state of MikroOrm
  committing,     \* the EntityManager whose COMMIT is under way, or Nobody
  identityMap,    \* identityMap[em][u]: the addresses of user u em has loaded
  upserts,        \* addresses whose upsert was issued and has not run
  users,          \* table users
  addresses,      \* table addresses, by the request that added the row
  body,           \* body[a]: the fields in the body of a
  userId,         \* userId[q]: the parameter of the url
  databaseFails,  \* the faults of this behaviour
  loaded,         \* loaded[a]: what findById answered
  instance,       \* instance[a]: the addresses of the User that a loaded
  through,        \* through[g]: the EntityManager that g reads through
  shown,          \* shown[g]: the addresses in the answer to g
  response,       \* response[q]
  turn,           \* the requests that run
  up              \* the process has not exited

appVars == <<pc, calls, scopes, tracked, domainEvents, touched, emitted,
             events, todo, published, stored, persisted>>
ormVars == <<entityManager, pending, runner, writer, batch, flushQueue, resolved,
             rejected, systemEvents, cleared>>
connection == <<committing, identityMap>>
tables == <<upserts, users, addresses>>
inputs == <<body, userId, databaseFails>>
useCaseVars == <<loaded, instance>>
readVars == <<through, shown>>
vars == <<appVars, ormVars, connection, tables, inputs, useCaseVars, readVars, response, turn, up>>

(* One execution per POST; it loads one User and emits one AddressAdded.   *)
App == INSTANCE ApplicationService WITH
         Contexts <- Adds, Exec <- Adds, Aggregates <- Adds, Adapters <- {},
         Events <- Adds, Retained <- {},
         EmittingPhases <- {"useCase"}, CatchingSubscribers <- FALSE

(* The one provider; an event entity is named after the request.           *)
Orm == INSTANCE MikroOrm WITH Executions <- Adds

TypeOK ==
  /\ App!TypeOK
  /\ Orm!TypeOK
  /\ committing \in EntityManagers \cup {Nobody}
  /\ \A em \in EntityManagers, u \in Users :
       identityMap[em][u] = NotLoaded \/ identityMap[em][u] \subseteq Adds
  /\ upserts \in SUBSET Adds
  /\ addresses \in SUBSET Adds
  /\ [body |-> body, userId |-> userId, users |-> users, databaseFails |-> databaseFails] \in Cases
  /\ loaded \in [Adds -> {"unknown", "found", "none", "failed"}]
  /\ instance \in [Adds -> SUBSET Adds]
  /\ through \in [Gets -> EntityManagers] /\ shown \in [Gets -> SUBSET Adds]
  /\ \A a \in Adds : response[a] \in {"none", "created", "invalid", "notFound", "error"}
  /\ \A g \in Gets : response[g] \in {"none", "ok", "notFound", "error"}
  /\ turn \in SUBSET Adds
  /\ up \in BOOLEAN

Init ==
  /\ App!Init
  /\ Orm!Init
  /\ committing = Nobody
  /\ identityMap = [em \in EntityManagers |-> [u \in Users |-> NotLoaded]]
  /\ upserts = {} /\ addresses = {}
  /\ \E case \in Cases :
       /\ body = case.body /\ userId = case.userId
       /\ users = case.users /\ databaseFails = case.databaseFails
  /\ loaded = [a \in Adds |-> "unknown"] /\ instance = [a \in Adds |-> {}]
  /\ through = [g \in Gets |-> OrmEm] /\ shown = [g \in Gets |-> {}]
  /\ response = [q \in Requests |-> "none"]
  /\ turn = {}
  /\ up = TRUE

-----------------------------------------------------------------------------

(* Whose microtasks run, as in UserRegistration.                           *)
Quiet == up /\ turn = {} /\ Orm!Idle
InBackground == Quiet /\ UNCHANGED turn
Resumes(a) == Quiet /\ turn' = {a}
Continues(a) == up /\ a \in turn /\ UNCHANGED turn
Yields(a) == up /\ a \in turn /\ turn' = turn \ {a}

Respond(q, status) == response' = [response EXCEPT ![q] = status]

(* AddAddressController.handle: what validate refuses is answered 400, and *)
(* when AddAddressCommand.of throws 500.                                   *)
RejectBody(a) ==
  /\ InBackground
  /\ pc[a] = "idle" /\ response[a] = "none"
  /\ \/ ~Validates(body[a]) /\ Respond(a, "invalid")
     \/ Validates(body[a]) /\ ~CommandOf(body[a]) /\ Respond(a, "error")
  /\ UNCHANGED <<appVars, ormVars, connection, tables, inputs, useCaseVars, readVars, up>>

(* The execution begins with a fork and runs until findById awaits.        *)
Submit(a) ==
  /\ InBackground
  /\ Validates(body[a]) /\ CommandOf(body[a])
  /\ App!Begin(a, a)
  /\ Orm!Fork(a)
  /\ UNCHANGED <<connection, tables, inputs, useCaseVars, readVars, response, up>>

AddressesOf(u) == {a \in addresses : userId[a] = u}

(* What a findOne by key through em may answer: the rows as they are, or   *)
(* the entity that em loaded before.                                       *)
Answers(em, u) ==
  {AddressesOf(u)} \cup (IF identityMap[em][u] = NotLoaded THEN {} ELSE {identityMap[em][u]})

(* An entity stays in the identity map as it was first loaded.             *)
Remember(em, u, S) ==
  identityMap' = IF identityMap[em][u] # NotLoaded THEN identityMap
                 ELSE [identityMap EXCEPT ![em][u] = S]

(* The database answers findById of the use case, in the fork of a: the    *)
(* provider was read when the execution began. It waits for the connection.*)
FindById(a) ==
  /\ InBackground
  /\ pc[a] = "useCase" /\ loaded[a] = "unknown"
  /\ \/ /\ committing = Nobody
        /\ userId[a] \in users
        /\ \E S \in Answers(a, userId[a]) :
             instance' = [instance EXCEPT ![a] = S] /\ Remember(a, userId[a], S)
        /\ loaded' = [loaded EXCEPT ![a] = "found"]
     \/ /\ committing = Nobody
        /\ userId[a] \notin users
        /\ loaded' = [loaded EXCEPT ![a] = "none"]
        /\ UNCHANGED <<instance, identityMap>>
     \/ /\ databaseFails
        /\ loaded' = [loaded EXCEPT ![a] = "failed"]
        /\ UNCHANGED <<instance, identityMap>>
  /\ UNCHANGED <<appVars, ormVars, committing, tables, inputs, readVars, response, up>>

(* A use case that does not look at what findById answered: a mutant.      *)
AddAddressAnyway(a) ==
  /\ Resumes(a)
  /\ loaded[a] \in {"found", "none"} /\ emitted[a] = {}
  /\ instance' = [instance EXCEPT ![a] = @ \cup {a}]
  /\ App!Emit(a, a, a, a)
  /\ UNCHANGED <<ormVars, connection, tables, inputs, loaded, readVars, response, up>>

(* User.addAddress: one address more on the instance, and AddressAdded ... *)
AddAddress(a) ==
  /\ Resumes(a)
  /\ loaded[a] = "found" /\ emitted[a] = {}
  /\ instance' = [instance EXCEPT ![a] = @ \cup {a}]
  /\ App!Emit(a, a, a, a)
  /\ UNCHANGED <<ormVars, connection, tables, inputs, loaded, readVars, response, up>>

(* ... or the use case throws.                                             *)
NotFound(a) ==
  /\ Resumes(a)
  /\ loaded[a] \in {"none", "failed"}
  /\ App!UseCaseThrows(a, a)
  /\ UNCHANGED <<ormVars, connection, tables, inputs, useCaseVars, readVars, response, up>>

(* The drain and the two loops; AddressAdded has no handler in production. *)
Deliver(a) ==
  /\ Continues(a)
  /\ \/ emitted[a] # {} /\ App!UseCaseReturns(a, a)
     \/ App!DispatchEvent(a, a, a) \/ App!DispatchDone(a, a)
     \/ App!PublishEvent(a, a, a) \/ App!PublishDone(a, a)
  /\ UNCHANGED <<ormVars, connection, tables, inputs, useCaseVars, readVars, response, up>>

(* MikroOrmEventStore.saveAll: em.persist on the current EntityManager.    *)
SaveAll(a) ==
  /\ Continues(a)
  /\ App!SaveAll(a, a)
  /\ Orm!Persist(events[a])
  /\ UNCHANGED <<connection, tables, inputs, useCaseVars, readVars, response, up>>

(* A persister that puts the entity in the identity map before it is       *)
(* written: a mutant.                                                      *)
UpsertManaged(a) ==
  /\ upserts' = upserts \cup (IF a \in persisted'[a] THEN instance[a] ELSE {})
  /\ identityMap' = [identityMap EXCEPT ![a][userId[a]] = instance[a]]
  /\ UNCHANGED addresses

(* A persister that replaces the addresses of the user: a mutant.          *)
UpsertReplacing(a) ==
  /\ upserts' = upserts \cup (IF a \in persisted'[a] THEN instance[a] ELSE {})
  /\ addresses' = {b \in addresses : userId[b] = userId[a] => b \in instance[a]}
  /\ UNCHANGED identityMap

(* UserMapper.toOrmEntity and MikroOrmAggregatePersister.persist: the user *)
(* as it was loaded, and every address of the instance, old or new.  The   *)
(* row of the user is rewritten with what it has.                          *)
Upsert(a) ==
  /\ upserts' = upserts \cup (IF a \in persisted'[a] THEN instance[a] ELSE {})
  /\ UNCHANGED <<identityMap, addresses>>

(* MikroOrmUnitOfWork.onCommit up to the wait for the flush.               *)
Commit(a) ==
  /\ Yields(a)
  /\ App!Commit(a, a)
  /\ Upsert(a)
  /\ Orm!Flush(a)
  /\ UNCHANGED <<committing, users, inputs, useCaseVars, readVars, response, up>>

(* The batch of a flush is inserted and its COMMIT is sent ...             *)
IssueCommit(em) ==
  /\ InBackground
  /\ Orm!Working(em) /\ committing = Nobody
  /\ committing' = em
  /\ UNCHANGED <<appVars, ormVars, identityMap, tables, inputs, useCaseVars, readVars,
                 response, up>>

(* ... and has returned; ...                                               *)
TransactionCommits(em) ==
  /\ InBackground
  /\ committing = em /\ committing' = Nobody
  /\ Orm!Written(em)
  /\ UNCHANGED <<appVars, identityMap, tables, inputs, useCaseVars, readVars, response, up>>

(* ... or the transaction is rolled back.                                  *)
TransactionFails(em) ==
  /\ databaseFails
  /\ InBackground
  /\ committing \in {em, Nobody} /\ committing' = Nobody
  /\ Orm!Working(em) /\ Orm!Refused(em)
  /\ UNCHANGED <<appVars, identityMap, tables, inputs, useCaseVars, readVars, response, up>>

(* A flush that finds nothing to write does not ask the database.          *)
NothingToWrite(em) ==
  /\ up
  /\ Orm!Working(em) /\ batch[em] = {} /\ Orm!Written(em)
  /\ UNCHANGED <<appVars, connection, tables, inputs, useCaseVars, readVars, response, turn, up>>

(* A controller that answers 200 where it should 201: a mutant.            *)
FlushReturnsOk(a) ==
  /\ up
  /\ App!CommitReturns(a, a)
  /\ Orm!Returns(a)
  /\ Respond(a, "ok")
  /\ UNCHANGED <<connection, tables, inputs, useCaseVars, readVars, turn, up>>

(* The await of flush ends, and the request is answered ...                *)
FlushReturns(a) ==
  /\ up
  /\ App!CommitReturns(a, a)
  /\ Orm!Returns(a)
  /\ Respond(a, "created")
  /\ UNCHANGED <<connection, tables, inputs, useCaseVars, readVars, turn, up>>

(* ... or it throws.                                                       *)
FlushThrows(a) ==
  /\ up /\ turn' = turn \cup {a}
  /\ App!CommitThrows(a, a)
  /\ Orm!Throws(a)
  /\ UNCHANGED <<connection, tables, inputs, useCaseVars, readVars, response, up>>

(* em.clear of the current EntityManager, whoever forked it.               *)
ClearEntityManager ==
  /\ Orm!Clear
  /\ identityMap' = [identityMap EXCEPT ![entityManager] = [u \in Users |-> NotLoaded]]

(* An onRollback that gives back the EntityManager of MikroORM.init: a     *)
(* mutant.                                                                 *)
RollbackToOrmEm(a) ==
  /\ Yields(a)
  /\ App!Rollback(a, a)
  /\ Orm!Fork(OrmEm)
  /\ Respond(a, IF loaded[a] = "none" THEN "notFound" ELSE "error")
  /\ UNCHANGED <<connection, tables, inputs, useCaseVars, readVars, up>>

(* onRollback, and handleError, which knows the error by its text.         *)
Rollback(a) ==
  /\ Yields(a)
  /\ App!Rollback(a, a)
  /\ ClearEntityManager
  /\ Respond(a, IF loaded[a] = "none" THEN "notFound" ELSE "error")
  /\ UNCHANGED <<committing, tables, inputs, useCaseVars, readVars, up>>

(* An upsert that is tried again when it fails: a mutant.                  *)
RunUpsertRetrying(a) ==
  /\ InBackground /\ committing = Nobody
  /\ a \in upserts
  /\ IF Storable(body[a]) THEN addresses' = addresses \cup {a} /\ upserts' = upserts \ {a}
     ELSE UNCHANGED <<addresses, upserts>>
  /\ UNCHANGED <<appVars, ormVars, connection, users, inputs, useCaseVars,
                 readVars, response, up>>

(* The upsert of an address runs, in a transaction of its own.  A missing  *)
(* number and a user without a row violate the constraints of the table;   *)
(* the promise rejects, nobody handles it, and the process exits.          *)
RunUpsert(a) ==
  /\ InBackground /\ committing = Nobody
  /\ a \in upserts
  /\ upserts' = upserts \ {a}
  /\ LET accepted == Storable(body[a]) /\ userId[a] \in users
     IN \/ accepted /\ addresses' = addresses \cup {a} /\ UNCHANGED up
        \/ (~accepted \/ databaseFails) /\ up' = FALSE /\ UNCHANGED addresses
  /\ UNCHANGED <<appVars, ormVars, connection, users, inputs, useCaseVars,
                 readVars, response>>

-----------------------------------------------------------------------------

(* GetUserController.handle: findById reads the provider and calls findOne,*)
(* which throws on the EntityManager of MikroORM.init, and on one whose    *)
(* COMMIT has been sent: the query would join that transaction.            *)
GetUser(g) ==
  /\ InBackground
  /\ response[g] = "none" /\ through[g] = OrmEm
  /\ IF entityManager \in {OrmEm, committing} THEN Respond(g, "error") /\ UNCHANGED through
     ELSE through' = [through EXCEPT ![g] = entityManager] /\ UNCHANGED response
  /\ UNCHANGED <<appVars, ormVars, connection, tables, inputs, useCaseVars, shown, up>>

(* The database, or the identity map, answers.                             *)
GetAnswers(g) ==
  /\ InBackground
  /\ response[g] = "none" /\ through[g] # OrmEm
  /\ LET u == userId[g] em == through[g]
     IN \/ /\ u \in users
           /\ \E S \in Answers(em, u) :
                shown' = [shown EXCEPT ![g] = S] /\ Remember(em, u, S)
           /\ Respond(g, "ok")
        \/ u \notin users /\ Respond(g, "notFound") /\ UNCHANGED <<shown, identityMap>>
        \/ databaseFails /\ Respond(g, "error") /\ UNCHANGED <<shown, identityMap>>
  /\ UNCHANGED <<appVars, ormVars, committing, tables, inputs, useCaseVars, through, up>>

Proceed(a) ==
  \/ FindById(a) \/ AddAddress(a) \/ NotFound(a) \/ Deliver(a)
  \/ SaveAll(a) \/ Commit(a) \/ FlushReturns(a) \/ FlushThrows(a) \/ Rollback(a)

(* What the database does for the flushes of an EntityManager.             *)
Serve(em) ==
  \/ IssueCommit(em) \/ TransactionCommits(em) \/ TransactionFails(em)
  \/ NothingToWrite(em)

(* A request has nothing to wait for: it is answered, or its flush is in a *)
(* queue that nobody serves.                                               *)
Over(q) == response[q] # "none" \/ (q \in Adds /\ Orm!Stranded(q))

Finished ==
  /\ ~up \/ ((\A q \in Requests : Over(q)) /\ upserts = {})
  /\ UNCHANGED vars

Next ==
  \/ \E a \in Adds : RejectBody(a) \/ Submit(a) \/ Proceed(a) \/ RunUpsert(a)
  \/ \E g \in Gets : GetUser(g) \/ GetAnswers(g)
  \/ \E em \in EntityManagers : Serve(em)
  \/ Finished

Spec == Init /\ [][Next]_vars

(* The process goes on while there is a request it can serve.              *)
GoesOn ==
  \/ \E a \in Adds : Proceed(a) \/ RunUpsert(a)
  \/ \E g \in Gets : GetAnswers(g)
  \/ \E em \in EntityManagers : Serve(em)

FairSpec == Spec /\ WF_vars(GoesOn)

-----------------------------------------------------------------------------

(* Of two requests that load a user, add an address each and write the user*)
(* back, neither undoes the other: an address answered 201 is in the table,*)
(* or still to be written, while the process is up (UserMapper.ts:36-57,   *)
(* MikroOrmAggregatePersister.ts:51-61); and its AddressAdded is in        *)
(* system_events, unless the rollback or the flush of another request made *)
(* the EntityManager forget it (MikroOrmUnitOfWork.ts:29, 44).             *)
AcceptedIsNotLost ==
  \A a \in Adds : response[a] = "created" =>
    /\ a \in systemEvents \cup cleared
    /\ up => a \in addresses \cup upserts

(* "Auditoria completa - todo evento de dominio e persistido com payload e *)
(* timestamp" (006-event-store-and-real-world-patterns.md:123): the        *)
(* AddressAdded of an address answered 201 is in system_events.            *)
AcceptedIsRecorded == \A a \in Adds : response[a] = "created" => a \in systemEvents

(* GET shows no address that is not in the table, or that belongs to       *)
(* somebody else: not one that is being added, whatever EntityManager it   *)
(* reads through (GetUserController.ts:23, MikroOrmUserRepository.ts:28).  *)
ShownIsStored ==
  \A g \in Gets : shown[g] \subseteq AddressesOf(userId[g])

(* While the database works, only a body without a number ends the process:*)
(* no interleaving of complete requests makes an upsert reject             *)
(* (AddAddressController.ts:54-60, AddressNumber.ts:12).                   *)
OnlyMissingNumberExits ==
  ~databaseFails /\ ~up =>
    \E a \in Adds : body[a].number \in {"null", "absent"} /\ userId[a] \in users

(* An address answered 201 gets its row, or the process ends               *)
(* (MikroOrmAggregatePersister.ts:57-60).                                  *)
AcceptedBecomesDurable ==
  \A a \in Adds : (response[a] = "created") ~> (a \in addresses \/ ~up)

(* While the database works, a GET fails only before the first command of  *)
(* the process, or while a flush is being committed: whatever commands do  *)
(* to the provider, or have failed to do, a read at any other time is      *)
(* served (GetUserController.ts:23, MikroOrmUserRepository.ts:28,          *)
(* EntityManagerProvider.ts:8-22).                                         *)
GetFailsOnlyAtFirst ==
  [][\A g \in Gets : ~databaseFails /\ response[g] = "none" /\ response'[g] = "error" =>
       (\A a \in Adds : pc[a] = "idle") \/ (\E a \in Adds : pc[a] = "flush")]_vars
=============================================================================
