-------------------------- MODULE UserRegistration --------------------------
(***************************************************************************)
(* POST /users, and createUser of GraphQL, with the production adapters:   *)
(* CreateUserController or CreateUserResolver, with CreateUserUseCase run  *)
(* by ApplicationService, the subscriber of UserCreated that runs          *)
(* SendWelcomeEmailUseCase in a nested execution, MikroOrmUnitOfWork and   *)
(* MikroOrmEventStore over the one EntityManagerProvider of the process,   *)
(* and the two tables they write.                                          *)
(*                                                                         *)
(* The actions conjoin those of ApplicationService with what the adapters  *)
(* do. Only the lookup and the flushes wait for I/O: between two of them a *)
(* request runs to completion, because the microtasks of a callback are    *)
(* drained before the event loop takes the next one. turn is the set of    *)
(* requests whose microtasks are being run: more than one when a callback  *)
(* of the database settles several flushes at once.                        *)
(*                                                                         *)
(* The database has one connection, so that a lookup, an upsert or the     *)
(* transaction of a flush is one step.                                     *)
(***************************************************************************)
EXTENDS Sequences, Integers, FiniteSets

CONSTANTS
  Requests,       \* the POST /users and mutations createUser received
  GraphqlRequests,\* those that came through GraphQL
  Emails,         \* the addresses they may carry
  Bodies,         \* what the requests carry: the cases to consider
  DatabaseFails,  \* may a query or a flush fail for a reason of its own
  OrmEm,          \* the EntityManager made by MikroORM.init
  Nobody          \* no execution

createUser(r) == <<r, "createUser">>
sendWelcomeEmail(r) == <<r, "sendWelcomeEmail">>
Commands == {createUser(r) : r \in Requests}
Notifications == {sendWelcomeEmail(r) : r \in Requests}
Executions == Commands \cup Notifications
EntityManagers == Executions \cup {OrmEm}

(* email: the address; nameless: the requests with a name of null, which   *)
(* the validation of POST /users lets pass and the type String! of the     *)
(* mutation does not.                                                      *)
ASSUME RequestsAssumption ==
  /\ GraphqlRequests \subseteq Requests
  /\ Bodies \subseteq [email : [Requests -> Emails],
                      nameless : SUBSET (Requests \ GraphqlRequests)]
ASSUME FaultAssumption == DatabaseFails \in BOOLEAN
ASSUME NamesAssumption == OrmEm \notin Executions /\ Nobody \notin Executions

VARIABLES
  pc, calls, scopes, tracked, domainEvents, touched, emitted, events, todo,
  published, stored, persisted,   \* the state of ApplicationService
  entityManager, pending, runner, writer, batch, flushQueue, resolved, rejected,
  systemEvents, cleared,          \* the state of MikroOrm
  upserts,        \* users whose upsert was issued and has not run
  users,          \* table users: the requests whose user has a row
  email,          \* email[r]: the address in the body of r
  nameless,       \* the requests whose name is null
  existingUser,   \* existingUser[r]: what findByEmail answered
  response,       \* response[r]
  turn,           \* the requests that run
  up              \* the process has not exited

appVars == <<pc, calls, scopes, tracked, domainEvents, touched, emitted,
             events, todo, published, stored, persisted>>
ormVars == <<entityManager, pending, runner, writer, batch, flushQueue, resolved,
             rejected, systemEvents, cleared>>
tables == <<upserts, users>>
requestVars == <<existingUser, response>>
bodies == <<email, nameless>>
vars == <<appVars, ormVars, tables, requestVars, bodies, turn, up>>

(* The one provider, and the entities of events, named after the emitter,  *)
(* as are the rows of system_events.                                       *)
Orm == INSTANCE MikroOrm

(* A user or a notification adapter lives in one execution and emits one   *)
(* event; source and event are named after the execution.                  *)
App == INSTANCE ApplicationService WITH
         Contexts <- Requests, Exec <- Executions,
         Aggregates <- Commands, Adapters <- Notifications,
         Events <- Executions, Retained <- {},
         EmittingPhases <- {"useCase"}, CatchingSubscribers <- FALSE

TypeOK ==
  /\ App!TypeOK
  /\ Orm!TypeOK
  /\ upserts \in SUBSET Requests /\ users \in SUBSET Requests
  /\ [email |-> email, nameless |-> nameless] \in Bodies
  /\ existingUser \in [Requests -> {"unknown", "found", "none", "failed"}]
  /\ response \in [Requests -> {"none", "created", "invalid", "conflict", "error", "failed"}]
  /\ turn \in SUBSET Requests
  /\ up \in BOOLEAN

Init ==
  /\ App!Init
  /\ Orm!Init
  /\ upserts = {} /\ users = {}
  /\ \E body \in Bodies : email = body.email /\ nameless = body.nameless
  /\ existingUser = [r \in Requests |-> "unknown"]
  /\ response = [r \in Requests |-> "none"]
  /\ turn = {}
  /\ up = TRUE

-----------------------------------------------------------------------------

(* The microtasks are drained: the event loop takes the next callback.     *)
Quiet == up /\ turn = {} /\ Orm!Idle

(* A callback starts the microtasks of r, and r goes on with them, or gives*)
(* the loop back when it waits for I/O or has answered.                    *)
Resumes(r) == Quiet /\ turn' = {r}
Continues(r) == up /\ r \in turn /\ UNCHANGED turn
Yields(r) == up /\ r \in turn /\ turn' = turn \ {r}
InBackground == Quiet /\ UNCHANGED turn

(* validate, or CreateUserCommand.of, refuses before anything has begun:   *)
(* 400, or 500 when the address is no string, or an error of GraphQL.      *)
RejectInvalid(r) ==
  /\ InBackground
  /\ pc[createUser(r)] = "idle" /\ response[r] = "none"
  /\ response' = [response EXCEPT ![r] = "invalid"]
  /\ UNCHANGED <<appVars, ormVars, tables, existingUser, bodies, up>>

(* A valid one begins an execution, which runs until findByEmail awaits.   *)
Submit(r) ==
  /\ InBackground
  /\ response[r] = "none"
  /\ App!Begin(r, createUser(r))
  /\ Orm!Fork(createUser(r))
  /\ UNCHANGED <<tables, requestVars, bodies, up>>

HasRow(address) == \E u \in users : email[u] = address

(* The database answers findByEmail; the request learns it when it runs.   *)
FindByEmail(r) ==
  /\ InBackground
  /\ pc[createUser(r)] = "useCase" /\ existingUser[r] = "unknown"
  /\ existingUser' = [existingUser EXCEPT ![r] = IF HasRow(email[r]) THEN "found" ELSE "none"]
  /\ UNCHANGED <<appVars, ormVars, tables, response, bodies, up>>

FindByEmailFails(r) ==
  /\ DatabaseFails
  /\ InBackground
  /\ pc[createUser(r)] = "useCase" /\ existingUser[r] = "unknown"
  /\ existingUser' = [existingUser EXCEPT ![r] = "failed"]
  /\ UNCHANGED <<appVars, ormVars, tables, response, bodies, up>>

(* CreateUserUseCase after the await: User.create emits UserCreated ...    *)
CreateUser(r) ==
  /\ Resumes(r)
  /\ existingUser[r] = "none" /\ emitted[createUser(r)] = {}
  /\ App!Emit(r, createUser(r), createUser(r), createUser(r))
  /\ UNCHANGED <<ormVars, tables, requestVars, bodies, up>>

(* A use case that asks again when the query failed: a mutant.             *)
RejectDuplicateRetrying(r) ==
  /\ \/ Resumes(r) /\ existingUser[r] = "found" /\ App!UseCaseThrows(r, createUser(r))
        /\ UNCHANGED existingUser
     \/ /\ InBackground /\ pc[createUser(r)] = "useCase" /\ existingUser[r] = "failed"
        /\ existingUser' = [existingUser EXCEPT ![r] = "unknown"]
        /\ UNCHANGED appVars
  /\ UNCHANGED <<ormVars, tables, response, bodies, up>>

(* ... or the use case throws.                                             *)
RejectDuplicate(r) ==
  /\ Resumes(r)
  /\ existingUser[r] \in {"found", "failed"}
  /\ App!UseCaseThrows(r, createUser(r))
  /\ UNCHANGED <<ormVars, tables, requestVars, bodies, up>>

UseCaseReturns(r, x) ==
  /\ Continues(r)
  /\ emitted[x] # {}
  /\ App!UseCaseReturns(r, x)
  /\ UNCHANGED <<ormVars, tables, requestVars, bodies, up>>

(* No handler is registered in the DomainEventManager of production.       *)
DispatchEvent(r, x) ==
  /\ Continues(r)
  /\ \E e \in Executions : App!DispatchEvent(r, x, e)
  /\ UNCHANGED <<ormVars, tables, requestVars, bodies, up>>

DispatchDone(r, x) ==
  /\ Continues(r)
  /\ App!DispatchDone(r, x)
  /\ UNCHANGED <<ormVars, tables, requestVars, bodies, up>>

PublishEvent(r, x) ==
  /\ Continues(r)
  /\ \E e \in Executions : App!PublishEvent(r, x, e)
  /\ UNCHANGED <<ormVars, tables, requestVars, bodies, up>>

(* The subscriber of UserCreated calls execute with SendWelcomeEmail ...   *)
SubscriberBegins(r) ==
  /\ Continues(r)
  /\ createUser(r) \in published
  /\ App!Begin(r, sendWelcomeEmail(r))
  /\ Orm!Fork(sendWelcomeEmail(r))
  /\ UNCHANGED <<tables, requestVars, bodies, up>>

(* ... and sendWelcomeEmail logs the email and emits WelcomeEmailSent, or  *)
(* WelcomeEmailFailed when the logger throws: one event, whose fate is the *)
(* same.                                                                   *)
SendWelcomeEmail(r) ==
  /\ Continues(r)
  /\ emitted[sendWelcomeEmail(r)] = {}
  /\ App!Emit(r, sendWelcomeEmail(r), sendWelcomeEmail(r), sendWelcomeEmail(r))
  /\ UNCHANGED <<ormVars, tables, requestVars, bodies, up>>

(* A publish that does not await the subscriber: a mutant.                 *)
SubscriberNotAwaited(r, x) == TRUE

(* The publish loop ends once the subscriber it awaits has ended;          *)
(* WelcomeEmailSent has no subscriber.                                     *)
SubscriberEnded(r, x) ==
  x = createUser(r) => pc[sendWelcomeEmail(r)] \in {"returned", "threw"}

PublishDone(r, x) ==
  /\ Continues(r)
  /\ SubscriberEnded(r, x)
  /\ App!PublishDone(r, x)
  /\ UNCHANGED <<ormVars, tables, requestVars, bodies, up>>

(* A saveAll on the EntityManager that begin forked for x: a mutant.       *)
SaveAllInOwnFork(r, x) ==
  /\ Continues(r)
  /\ App!SaveAll(r, x)
  /\ pending' = [pending EXCEPT ![x] = @ \cup events[x]]
  /\ UNCHANGED <<entityManager, runner, writer, batch, flushQueue, resolved, rejected,
                 systemEvents, cleared>>
  /\ UNCHANGED <<tables, requestVars, bodies, up>>

(* MikroOrmEventStore.saveAll: em.persist on the current EntityManager.    *)
SaveAll(r, x) ==
  /\ Continues(r)
  /\ App!SaveAll(r, x)
  /\ Orm!Persist(events[x])
  /\ UNCHANGED <<tables, requestVars, bodies, up>>

(* No persister supports the aggregate: a mutant of UpsertUsers.           *)
UpsertNobody(x) == upserts' = upserts

(* MikroOrmAggregatePersister.persist of each aggregate handed to onCommit.*)
UpsertUsers(x) ==
  upserts' = upserts \cup {q \in Requests : createUser(q) \in persisted'[x]}

(* MikroOrmUnitOfWork.onCommit: the persister issues an upsert of each user*)
(* and does not wait for it; the flush of the current EntityManager is     *)
(* awaited.                                                                *)
Commit(r, x) ==
  /\ Yields(r)
  /\ App!Commit(r, x)
  /\ UpsertUsers(x)
  /\ Orm!Flush(x)
  /\ UNCHANGED <<users, requestVars, bodies, up>>

(* The transaction of a flush commits ...                                  *)
TransactionCommits(em) ==
  /\ InBackground
  /\ Orm!Working(em) /\ Orm!Written(em)
  /\ UNCHANGED <<appVars, tables, requestVars, bodies, up>>

(* ... or is rolled back.                                                  *)
TransactionFails(em) ==
  /\ DatabaseFails
  /\ InBackground
  /\ Orm!Working(em) /\ Orm!Refused(em)
  /\ UNCHANGED <<appVars, tables, requestVars, bodies, up>>

(* A flush that finds nothing to write does not ask the database.          *)
NothingToWrite(em) ==
  /\ up
  /\ Orm!Working(em) /\ batch[em] = {} /\ Orm!Written(em)
  /\ UNCHANGED <<appVars, tables, requestVars, bodies, turn, up>>

(* The await of flush ends and the execution returns: the request is       *)
(* answered, or the command goes on after its subscriber.                  *)
FlushReturns(r, x) ==
  /\ up
  /\ App!CommitReturns(r, x)
  /\ Orm!Returns(x)
  /\ IF x = createUser(r) THEN response' = [response EXCEPT ![r] = "created"] /\ UNCHANGED turn
     ELSE turn' = turn \cup {r} /\ UNCHANGED response
  /\ UNCHANGED <<tables, existingUser, bodies, up>>

(* An onCommit that catches the error of flush: a mutant.                  *)
FlushThrowsCaught(r, x) ==
  /\ up
  /\ App!CommitReturns(r, x)
  /\ Orm!Throws(x)
  /\ IF x = createUser(r) THEN response' = [response EXCEPT ![r] = "created"] /\ UNCHANGED turn
     ELSE turn' = turn \cup {r} /\ UNCHANGED response
  /\ UNCHANGED <<tables, existingUser, bodies, up>>

FlushThrows(r, x) ==
  /\ up /\ turn' = turn \cup {r}
  /\ App!CommitThrows(r, x)
  /\ Orm!Throws(x)
  /\ UNCHANGED <<tables, requestVars, bodies, up>>

(* A handleError that takes every error for a conflict: a mutant.          *)
StatusAlwaysConflict(r) == "conflict"

(* CreateUserController.handleError tells the errors apart by their text;  *)
(* the resolver passes each on.                                            *)
StatusOfError(r) ==
  CASE r \in GraphqlRequests -> "failed"
    [] r \notin GraphqlRequests /\ existingUser[r] = "found" -> "conflict"
    [] OTHER -> "error"

(* onRollback clears the current EntityManager, whoever forked it; the     *)
(* controller answers once the command has failed.                         *)
Rollback(r, x) ==
  /\ App!Rollback(r, x)
  /\ Orm!Clear
  /\ IF x = createUser(r)
     THEN Yields(r) /\ response' = [response EXCEPT ![r] = StatusOfError(r)]
     ELSE Continues(r) /\ UNCHANGED response
  /\ UNCHANGED <<tables, existingUser, bodies, up>>

(* The upsert runs, in a transaction of its own. When another row has the  *)
(* email, the name is null or the database fails, its promise rejects,     *)
(* nobody handles the rejection, and the process exits with everything in  *)
(* flight.                                                                 *)
RunUpsert(r) ==
  /\ InBackground
  /\ r \in upserts
  /\ upserts' = upserts \ {r}
  /\ LET accepted == ~HasRow(email[r]) /\ r \notin nameless
     IN \/ accepted /\ users' = users \cup {r} /\ UNCHANGED up
        \/ (~accepted \/ DatabaseFails) /\ up' = FALSE /\ UNCHANGED users
  /\ UNCHANGED <<appVars, ormVars, requestVars, bodies>>

Execute(r, x) ==
  \/ UseCaseReturns(r, x)
  \/ DispatchEvent(r, x) \/ DispatchDone(r, x)
  \/ PublishEvent(r, x) \/ PublishDone(r, x)
  \/ SaveAll(r, x) \/ Commit(r, x)
  \/ FlushReturns(r, x) \/ FlushThrows(r, x) \/ Rollback(r, x)

(* What happens to request r once it has been submitted.                   *)
Proceed(r) ==
  \/ FindByEmail(r) \/ FindByEmailFails(r)
  \/ CreateUser(r) \/ RejectDuplicate(r)
  \/ SubscriberBegins(r) \/ SendWelcomeEmail(r)
  \/ \E x \in {createUser(r), sendWelcomeEmail(r)} : Execute(r, x)

(* What the database does for the flushes of an EntityManager.             *)
Serve(em) == TransactionCommits(em) \/ TransactionFails(em) \/ NothingToWrite(em)

(* The flush of a request is queued, and nobody serves the queue.          *)
Stranded(r) == Orm!Stranded(createUser(r)) \/ Orm!Stranded(sendWelcomeEmail(r))

Finished ==
  /\ ~up \/ (upserts = {} /\ \A r \in Requests : response[r] # "none" \/ Stranded(r))
  /\ UNCHANGED vars

Next ==
  \/ \E r \in Requests :
       RejectInvalid(r) \/ Submit(r) \/ Proceed(r) \/ RunUpsert(r)
  \/ \E em \in EntityManagers : Serve(em)
  \/ Finished

Spec == Init /\ [][Next]_vars

(* The process goes on while there is a request it can serve.              *)
GoesOn ==
  \/ \E r \in Requests : Proceed(r) \/ RunUpsert(r)
  \/ \E em \in EntityManagers : Serve(em)

FairSpec == Spec /\ WF_vars(GoesOn)

-----------------------------------------------------------------------------

(* The flush an execution waits for finds its events: they are where that  *)
(* flush will look, or they are written, or the EntityManager was made to  *)
(* forget them by another request's rollback or flush. saveAll and onCommit*)
(* read the shared provider at different awaits (MikroOrmEventStore.ts:14, *)
(* MikroOrmUnitOfWork.ts:29).                                              *)
FlushFindsOwn ==
  \A x \in Executions :
    pc[x] = "flush" /\ x \notin resolved \cup rejected =>
      \E em \in EntityManagers :
        /\ Orm!Flushing(x, em)
        /\ events[x] \subseteq pending[em] \cup systemEvents \cup cleared

(* A request answered 201 has both its events in system_events, unless the *)
(* rollback of another request (MikroOrmUnitOfWork.ts:44) or the end of    *)
(* another's flush (:29) made the EntityManager forget them; and its user  *)
(* has a row or an upsert still to run, while the process is up.           *)
CreatedIsRecorded ==
  \A r \in Requests :
    response[r] = "created" =>
      /\ {createUser(r), sendWelcomeEmail(r)} \subseteq systemEvents \cup cleared
      /\ up => r \in users \cup upserts

(* A flush that nobody will call has been left by the failure of another   *)
(* request, whose flush served the queue (MikroOrmUnitOfWork.ts:40).       *)
Failed(q) ==
  \E y \in {createUser(q), sendWelcomeEmail(q)} : y \in rejected \/ pc[y] \in {"rollback", "threw"}
StrandedByFailure ==
  \A r \in Requests : Stranded(r) => \E q \in Requests \ {r} : Failed(q)

(* 409 is answered only while another request's user has the address, and  *)
(* the request it is answered to has left nothing behind                   *)
(* (CreateUserUseCase.ts:15-19, CreateUserController.ts:62-65).            *)
ConflictIsJustified ==
  \A r \in Requests :
    response[r] = "conflict" =>
      /\ \E q \in users \ {r} : email[q] = email[r]
      /\ r \notin users \cup upserts
      /\ emitted[sendWelcomeEmail(r)] = {}

(* A 201 is followed by the row of its user, although nobody waits for the *)
(* upsert: or the process exits, which is how a rejected upsert shows      *)
(* (MikroOrmAggregatePersister.ts:55).                                     *)
CreatedBecomesDurable ==
  \A r \in Requests : (response[r] = "created") ~> (r \in users \/ ~up)

(* When requests wait for their answers, a time comes when none does: each *)
(* is answered, unless the process exits or the flush that would have      *)
(* called its own has failed (MikroOrmUnitOfWork.ts:40).                   *)
AwaitsAnswer(r) == up /\ pc[createUser(r)] # "idle" /\ response[r] = "none" /\ ~Stranded(r)
EveryRequestEnds ==
  (\E r \in Requests : AwaitsAnswer(r)) ~> (\A r \in Requests : ~AwaitsAnswer(r))

(* "Operacoes de dominio frequentemente envolvem multiplas escritas que    *)
(* devem ser atomicas" (004-unit-of-work-pattern.md:9): a user and its     *)
(* UserCreated are both written or neither, once nothing is in flight.     *)
InFlight(r) ==
  r \in upserts \/ \E em \in EntityManagers : createUser(r) \in pending[em] \cup batch[em]
RowAndEventTogether ==
  \A r \in Requests : ~InFlight(r) => (r \in users <=> createUser(r) \in systemEvents)

(* "Isso permite reconstruir a arvore completa de eventos a partir de      *)
(* qualquer ponto" (006-event-store-and-real-world-patterns.md:61): when a *)
(* request is over, the cause of every event it stored is stored.          *)
CausesAreStored ==
  \A r \in Requests :
    response[r] # "none" /\ sendWelcomeEmail(r) \in systemEvents => createUser(r) \in systemEvents
=============================================================================
