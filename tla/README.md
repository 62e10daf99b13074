# A TLA+ model of the DDD template

The repository is a TypeScript template for domain-driven services: a shared kernel
(application service, unit of work, domain events, HTTP and GraphQL servers) and one module,
`user`, that is built on it. This directory holds TLA+ modules translated from `src/src`,
TLC configurations that check them on small instances, and proofs that TLAPS checks for
every instance. Paths below are relative to `src/src`.

## The system

| component | state | operations | correct when |
|---|---|---|---|
| scopes (`shared/infrastructure/persistence/AggregateTracker.ts`) | per async context, a stack of sets of event sources | begin, track, drain, peek, clear | nested units of work never see or lose each other's sources |
| application service (`shared/application/ApplicationService.ts`) | none of its own; drives the unit of work | execute | every path opens and closes one scope; events of a use case are delivered, stored and committed, or nothing is |
| unit of work (`TrackedUnitOfWork.ts`) | the scopes | begin, commit, rollback, getTracked… | commit hands over exactly the aggregates of its execution |
| event sources (`AggregateRoot.ts`, `EventEmittingAdapter.ts`) | per instance, a list of events and a flag | addDomainEvent, drainDomainEvents | an event is drained once |
| dispatchers (`DomainEventManager.ts`, `EventEmitterEventBus.ts`) | registered handlers | register, clear, subscribe, dispatch, publish | handlers are awaited in order; whoever was registered is called once; the first error stops the loop |
| MikroORM persistence (`MikroOrmUnitOfWork.ts`, `MikroOrmEventStore.ts`, `MikroOrmAggregatePersister.ts`, `EntityManagerProvider.ts`, repository, mapper) | one current EntityManager for the process; of each, the identity map, what is pending and who waits for a flush; four tables | onBegin, onCommit, onRollback, saveAll, persist, findByEmail, findById | the flush of an execution finds its entities; no write undoes another's |
| user registration (`modules/user`) | `users`, `system_events` | POST /users, the mutation createUser, the subscriber of UserCreated | the answer agrees with the tables |
| AddAddress, GetUser (`modules/user`) | `users`, `addresses`, `system_events` | POST /users/:userId/addresses, GET /users/:userId | what was answered 201 stays; a read shows what is stored |
| HTTP server (`HttpServer.ts`) | routes, the listening server, open requests | get, post, start, stop, handleRequest | each request is answered once, by the route it matches; a stop waits for the answers |
| GraphQL server (`GraphqlServer.ts`) | fragments, resolvers, the schema, the listening server | addSchema, start, stop, handleRequest | a query is refused if the schema does not have its field, and resolved by the last that registered it |
| composition root (`main.ts`, the factories, `UserModule.ts`) | what is registered where, the ports | main | what listens is complete |
| migrations (`migrations/`) | the tables and the record of what was run | up | the record is true of the tables |
| in-memory adapters (`InMemoryUnitOfWork.ts`, `InMemoryUserRepository.ts`) | a map of User instances | onCommit, save, findById, findByEmail | executions that share an instance keep their events apart |
| value objects | - | constructors, validate | see `ValueObjects` |
| logging, benchmarks, scripts | - | - | not modelled |

A controller calls `execute` with a use case. `execute` begins a unit of work, runs the use
case, whose aggregates register themselves in the innermost scope through a static callback,
drains the events of the registered sources, dispatches them to the handlers of the
process, publishes them on the bus, stores them, and commits. A subscriber of the bus may
call `execute` again; it is awaited, so executions nest inside one async context and
interleave between contexts. All of them share the one `EntityManagerProvider`, whose
current EntityManager is replaced by every begin: several requests may persist into one
EntityManager, flush it, read through it and clear it. `main` migrates the database,
composes all this and starts the two servers one after the other.

What makes this hard: awaits at which other requests run and replace shared state; nested
executions on one stack; errors at any await, each with its own cleanup; effects that happen
before the commit that may still fail; upserts whose promises nobody awaits; errors thrown
in event listeners, which end the process; registrations while requests are in flight;
several processes that migrate one database. The `hazards` of `PROJECT.json` list them, each
at its line.

## The modules

Shared kernel:

* `AggregateTracker` - the stack of one context as pure operators (`BeginScope`, `TrackIn`,
  `PeekScope`, `DrainScope`, `ClearScope`). No store and an empty stack behave alike in all
  of them, so both are `<<>>`.
* `ApplicationService` - `execute` over that stack. An action is the code between two
  awaits: `Begin`, `UseCaseReturns` (which drains), the turns of the two delivery loops,
  `SaveAll`, `Commit` up to the await of `onCommit`, `CommitReturns`; and a throwing sibling
  for each, all of which lead to `Rollback`. `calls[c]` is the nest of executions of context
  `c`; only the innermost one runs. `Emit` is `addDomainEvent` of an aggregate or an
  adapter. `touched` and `emitted` are history: no guard of the code reads them (they choose
  fresh events and tell whose a private instance is). Constants say what user code may do:
  `EmittingPhases` (where it emits), `Retained` (instances shared by executions),
  `CatchingSubscribers` (whether a handler may swallow the error of an execution it nests).
* `UnitOfWork` - the abstract contract: a unit of work has a private set of touched sources,
  hands its aggregates over, and aborts its caller when it aborts. No stack, no flag, no
  context. `ApplicationService` implements it (`ImplementsUnitOfWork`), with `Status` and
  `Caller` as refinement mapping.
* `EventDispatch` - the two delivery loops from the inside, handler by handler, which
  `ApplicationService` takes as one handler per event. `handlers[g][n]` is the array made
  for name `n` after `g` clears: `clear` drops the map and not the arrays, so a loop that
  waits goes on with the array it walks. The bus walks a copy.
* `ServerLifecycle` - what the two servers have in common line for line: start, stop, the
  reading of a body, the answer, and the end of a connection, with the sockets of Node.js.
  `HttpServer` adds the routes and their matching, `GraphqlServer` the fragments, the schema
  and the root value; `Servers` is a process with either.

The user module, with the production adapters:

* `MikroOrm` - the EntityManagers and the provider, as `MikroOrmUnitOfWork` and
  `MikroOrmEventStore` use them: `Fork`, `Persist`, `Flush` and `Clear`, each on the
  EntityManager the provider holds at that moment, and what MikroORM then does with the
  flushes of one EntityManager. It is a set of actions and has no specification of its own:
  the compositions say when they happen.
* `UserRegistration` - POST /users and createUser. It instantiates `ApplicationService`
  (`App!…`) with two executions per request, createUser and the nested sendWelcomeEmail,
  and `MikroOrm` (`Orm!…`) with one entity per execution, and conjoins the actions of both
  with what happens to the tables and the answer.
* `UserAddresses` - POST of an address and GET of a user, built the same way, with the
  identity maps, the instance a use case loads and writes back, the unawaited upserts of its
  addresses, and the COMMIT that is under way (`committing`).
* `ValueObjects` - which forms the controller, the constructors and the table accept;
  `UserAddresses` uses it for its bodies.
* `InMemoryUsers` - both use cases over the in-memory adapters: the instances are shared by
  the executions, and the only waits are those of handlers.
* `Startup` - `main` in several processes next to `migration:up`, over the transactions of
  SQLite that the migrator runs in.

`MC…` are the instances for TLC; `…Proofs` the theorems about the module of that name.
`MikroOrmProofs` has lemmas only, which the proofs of both compositions use.

### Abstractions

* The events of one execution form a set in `ApplicationService`, and its loops take them in
  any order: the properties do not depend on the order. Payloads, ids and log lines are left
  out.
* A handler is what it does to the state: emit, begin a nested execution, throw. Executions
  are nested by handlers and subscribers only: no use case of the repository holds an
  `ApplicationService`.
* In the compositions over MikroORM, `turn` is the set of requests whose microtasks run.
  Only queries and flushes are real I/O; every other await continues in the same turn,
  before the event loop takes the next callback. A callback usually resumes one request, but
  the one that ends a flush may settle several (the last flush of a queue and the one that
  served it), and their microtasks then interleave. In `InMemoryUsers`, where only handlers
  wait, one execution runs at a time. Actions between two waits are still separate, so that
  each corresponds to its code.
* MikroORM is modelled by how the code uses it. `persist` adds to the pending entities of an
  EntityManager. Of the flushes of one EntityManager one writes at a time; those called
  meanwhile are queued, and each computes what it writes when its turn comes: the entities
  persisted since then, whoever persisted them, and none that a `clear` has removed. The
  flush that found nobody at work (`runner`) serves the queue and returns last. If its own
  changes are refused it throws at once, and the queue is served by nobody (`Stranded`); if
  those of a queued flush are, only that one rejects. When the runner is done, either way,
  the EntityManager forgets what is still pending. `cleared` is history: what was forgotten,
  through a rollback or so.
* The database has one connection, and the transaction of a flush is one step, except that
  `UserAddresses` tells the time between the sending of its COMMIT and its end apart. A
  query may answer with what the identity map has; it is refused by the EntityManager of
  `MikroORM.init`, and by one whose COMMIT is under way. `upsert` runs later, in a
  transaction of its own, and when it violates a constraint or the database fails its
  promise rejects. Nobody handles that rejection, so the Node.js process exits (`up`).
  Node.js sockets and SQLite locks are modelled likewise. Map entries for all these are
  marked external.
* A path and a url are sequences of segments; a query asks for one field; a connection
  carries one request; a field of a form is a text, the empty text, null or absent.
* A process that is killed comes back with empty memory (`Startup`); the crash of a process
  with requests in flight ends the behaviour in the other modules (`up`, `fatal`), since
  nothing of a request is taken up again by the next process.

Definitions whose name is that of another one with a suffix and whose comment calls them a
mutant are never used by a specification: each is a plausible bug of the code, kept to show
that a property would catch it.

## The runs

| run | instance | shows |
|---|---|---|
| `scopes` | 2 contexts, 3 executions, 2 aggregates, 1 adapter, 3 events, emission anywhere | `ScopesMatchCalls`, `CommitPersistsOwn`, the inductive invariant `OwnershipInv`; refinement of `UnitOfWork` |
| `delivery` | 2 contexts, 3 executions, 1 aggregate, 1 adapter shared by all, emission in use cases, errors swallowed or not | an event is in one place, no scope is left: `EventInOnePlace`, `NoScopeLeft`; what returned has delivered all its events; what began ends |
| `swallowed` | 1 context, 2 executions | **violated**: `CommitPersistsOwn` |
| `dispatch` | 2 executions, 3 handlers, 2 names, 1 clear | handlers registered at any await: who is called, in which order, once; the loops end |
| `servers` | both servers, 2 starts, 2 stops, 2 requests, 3 registrations | routing, restarts, what a stop waits for, what a schema refuses, who resolves |
| `registration` | 3 requests, 2 of them for one address, one through GraphQL, one without a name, failing database | where the event of a flush is; answers and tables agree; who is stranded, and by whom; a 201 gets its row or the process ends |
| `atomicity`, `causation` | 2 requests | **violated**: two statements of the ADRs |
| `addresses` | up to 3 addresses and a GET, 1 or 2 users, forms of every kind | no accepted address is undone by another request; what GET shows and when it fails; which body ends the process |
| `recorded` | 3 addresses, one of them for a user who does not exist | **violated**: a statement of the ADRs |
| `in_memory` | 2 creations, 3 additions | executions that share instances keep their events apart; what returned is kept |
| `startup` | 2 servers and 1 migrator, any earlier schema, crashes, ports taken | the record is true of the tables, what listens is complete, a start ends |

Why the bounds are enough: three executions give a nest of depth three, a nest of two beside
another context, and two siblings in one context; three events let each of them emit. Three
requests of which two compete for an address leave a third that moves the shared
EntityManager beside them; and three are what a flush takes that is queued behind one and
cleared by another, or three flushes of one EntityManager of which one writes, one waits and
one comes later. Of addresses, two requests are what it takes to undo one another,
a third is in flight beside them, and a GET reads through the fork of any. Three handlers
are one that is called, one that waits and one registered meanwhile; one clear separates the
arrays of before from those of after, and an older array is never reached again. Two starts
and two stops are a restart and whatever two calls can do to each other; two requests are
one on each side of it. Two processes that start together and a migrator are three
transactions, of which one writes, one reads and one waits.

Where the product of all choices would be too large, a constant says which cases to consider
and `Init` picks one: `Cases` (bodies, ids, users and faults; three addresses at a time go
with a database that works), `Instances` (a kind of server with the calls and requests it
gets), `Addressings` (who asks for which address) and `Lists` (the events of an execution).
Their values are in the MC modules. `MaxEvents`, `MaxClears` and `registrations` bound what
could go on for ever. Symmetry is used in safety runs only; the sets permuted are
interchangeable in every definition.

Deadlock is checked in every run: a state where an execution, request or call is neither
finished nor able to move is an error. `Finished` and `Quiet` are the only stuttering
actions; `Startup` has none, since a process can always be launched again.

### Fairness

Weak fairness throughout, of what goes on by itself and never of what somebody decides to
do:

* `ApplicationService`: `Advance(x)`, everything that happens to an execution once it has
  begun except the free choice of user code to emit or to nest. The event loop resumes every
  pending continuation, and the use cases, handlers and database calls are assumed to
  settle, in success or failure. The number of events and executions is finite, so handlers
  cannot nest for ever.
* `UserRegistration`, `UserAddresses`: `GoesOn`, some step of a request that was sent, of
  the database or of a pending upsert. One such condition is enough, since each of these
  steps brings some request nearer to its end and there are finitely many; that the event
  loop prefers nobody for ever is not needed. Nothing forces a request to be sent, and
  nothing calls the flush of a request that is stranded.
* `EventDispatch`: handlers settle and the loops go on.
* `Servers`: Node.js runs the callbacks of listen and close, and its `requestTimeout` and
  `keepAliveTimeout` end connections that stay (`TimesOut`); the handler of a request and
  graphql settle. A body need not arrive.
* `Startup`: a process that runs gets on (`Proceed`); nothing is assumed of launches and
  crashes. A writer that meets another is refused by SQLite after a time, which is why a
  start cannot wait for ever.

### What the violated runs say

1. `swallowed`: `commit` pops the scope before it awaits `onCommit`, and the `catch` of
   `execute` pops again. When a nested commit fails, that second pop takes the scope of the
   caller. If the subscriber lets the error pass, the caller fails as well and the stack
   still balances (`ScopesBalanced` proves it). If it catches the error, the caller goes on
   without a scope: its aggregates never reach `onCommit`, and it returns successfully.
2. `atomicity`: the row of a user and its UserCreated are written by two transactions.
3. `causation`: the nested execution stores its event before the outer one stores its cause.
   For the same reason the welcome email of a user has been sent when the creation fails.
4. `recorded`: requests 1, 2 and 3 begin, so that the provider holds the fork of 3. The
   flush of 1 runs on it, 2 persists its event there too and its flush is queued; 3 finds no
   user, rolls back and clears that fork. When the turn of 2 comes nothing is pending, its
   flush resolves, and the client is answered 201 although its AddressAdded is in no table.
   No fault of the database is needed.

Five more things the model shows, none of which needs a run to be seen:

* GET /users/:userId is answered 500 before the first command of the process, because the
  provider still holds the EntityManager of `MikroORM.init`, and while the EntityManager it
  reads through is committing, because the query would join that transaction
  (`MikroOrmUserRepository.ts:28`). `GetFailsOnlyAtFirst` says that, while the database
  works, it happens only then or while some request waits for a flush.
* When the running flush of an EntityManager is refused, the requests whose flushes are
  queued behind it are never answered (`MikroOrmUnitOfWork.ts:40`). `StrandedByFailure` says
  that nothing but the failure of another request strands one; `EveryRequestEnds` and the
  deadlock check say that only those wait for ever.
* An address without a number passes every check, is answered 201 and ends the process when
  its upsert meets NOT NULL (`AddressNumber.ts:12`). `OnlyMissingNumberExits` says that of
  the requests of `UserAddresses` no other does so while the database works.
* POST /users ends the process in two ways of its own: with a name of null, which
  `CreateUserController.ts:50` lets pass and the column refuses, and with an address that
  another request registers between its lookup and its upsert. Both are in
  `UserRegistration.RunUpsert`.
* After a rollback in memory the address is still on the instance that the repository gives
  out (`InMemoryUnitOfWork.ts:35`).

## The theorems

Every invariant and action property of the runs, and the refinement, is a theorem, for every
value of the constants that the assumptions of the modules admit. Each proof has the same
shape: an inductive invariant, which is the property and what it needs to survive a step;
lemmas that say once what a kind of step does to it; one case per action; and a last step
that combines them. Inductive invariants that no run checks are defined next to the proofs.

| module | theorem | property | if |
|---|---|---|---|
| `ApplicationServiceProofs` | `TypeCorrect` | `TypeOK` | |
| | `ScopesBalanced` | `ScopesMatchCalls` | no handler swallows errors |
| | `ScopesBelongToCalls` | `OwnershipInv` | in addition, no instance is shared |
| | `CommitsOwnAggregates` | `CommitPersistsOwn` | the same |
| | `UnitOfWorkImplemented` | `ImplementsUnitOfWork` | the same |
| | `NothingLeftOpen` | `NoScopeLeft` | |
| | `EventsInOnePlace` | `EventInOnePlace` | |
| | `ReturnsDelivered` | `ReturnedMeansDelivered` | no instance is shared, only use cases emit |
| `EventDispatchProofs` | `DispatchTypeCorrect` | `TypeOK` | |
| | `HandlersServedOnce` | `ServedOnce` | |
| | `RegisteredAreServed` | `EntitledAreServed` | |
| | `ClearedHandlersStayQuiet` | `ClearedStayQuiet` | |
| `UserRegistrationProofs` | `RegistrationRunsExecutions` | it implements `ApplicationService` and `UnitOfWork` | |
| | `RegistrationTypeCorrect` | `TypeOK` | |
| | `FlushesFindTheirEvents` | `FlushFindsOwn` | |
| | `CreatedMeansRecorded` | `CreatedIsRecorded` | |
| | `StrandedMeansFailed` | `StrandedByFailure` | |
| | `ConflictMeansTaken` | `ConflictIsJustified` | |
| `UserAddressesProofs` | `AddressesRunExecutions` | it implements `ApplicationService` and `UnitOfWork` | |
| | `AddressesTypeCorrect` | `TypeOK` | |
| | `AcceptedStays` | `AcceptedIsNotLost` | |
| | `ReadsAreTrue` | `ShownIsStored` | |
| | `ExitsForNumbersOnly` | `OnlyMissingNumberExits` | |
| | `ReadsFailAtFirstOnly` | `GetFailsOnlyAtFirst` | |
| `ServersProofs` | `ServersTypeCorrect` | `TypeOK` | |
| | `ListenersAreHeld` | `NothingLeaks` | callers take turns (part of the property) |
| | `StopLosesNoAnswer` | `StoppedMeansAnswered` | |
| | `FirstMatchHandles` | `RoutedToFirstMatch` | |
| | `UnknownAreRefused` | `RefusedIffUnknown` | |
| | `FieldsAreResolved` | `LastOfNameResolves` | |
| `StartupProofs` | `StartupTypeCorrect` | `TypeOK` | |
| | `SchemaIsRecorded` | `SchemaMatchesRecord` | |
| | `ListenersAreComplete` | `ListensComplete` | |
| `InMemoryUsersProofs` | `SharedInstancesKeepApart` | `OwnEventsOnly` | |
| | `ReturnedStays` | `ReturnedIsKept` | |

### The arguments

**Scopes.** `ScopesMatchCalls` speaks of the innermost call only and is not inductive: when
it leaves, the call below becomes the innermost one and has to satisfy it. `NestingInv` adds
that an execution is in at most one call (`CallsDistinct`) and that a call that is not the
innermost awaits a handler (`CallsNest`), so that its scope is still open.
`CommitPersistsOwn` needs to know, from the first event to the commit, that the scope an
execution will hand over is its own: `OwnershipInv` adds that scope *i* of a context holds
what call *i* touched (`ScopesHoldTouched`) and that a source belongs to one execution and
has its flag up only if it was registered by it (`SourcesOwned`). `LocalStep`, `LeaveStep`
and `BeginNests` say what the three kinds of step do to a nest. The condition on swallowed
errors is needed: `swallowed` is the counterexample.

**The unit of work.** The refinement maps the phase of an execution to the status of its
unit of work, and the call under it to its caller. `BeginCaller` and `LeaveCaller` say how
the nest of calls changes the callers: of the execution that begins or leaves and of nobody
else. `CommitHandsOver` uses `OwnershipInv`: what the innermost scope holds is what the
abstract unit of work touched. Every action then is one abstract step or a stutter
(`StepImplements`).

**Delivery.** Without the condition on swallowed errors the scopes no longer match the
calls, but never outnumber them (`ScopesWithinCalls`), so none is left when the last call
leaves. Events are partitioned between the lists of the sources and the sets the executions
collected (`EventsPartitioned`); a step moves whole lists and copies none. For what
returned, `EventsFollowPhases` says where the events of an execution are at each phase; it
starts from `UseCaseHasScope`: while a use case runs nothing is nested in it, so its own
scope is on top, whatever others have popped.

**Dispatch.** What a loop has called is at the front of the array it walks (`Walks`), and an
array only grows at its end; no handler is in two arrays (`ArraysApart`), so those of before
a clear are not called by a loop that starts after it.

**The compositions.** `Service` is `ApplicationServiceProofs` with the constants the
composition gives to `ApplicationService`. Every step of a composition is one of `Service`
or leaves its variables alone (`ServiceNext`), so what that module proves holds of it; this
is what `RegistrationRunsExecutions` and `AddressesRunExecutions` say. `OrmFacts` is
`MikroOrmProofs` in the same way.

**Flushes.** Whose event a flush writes cannot be told from its call, so the argument goes
by places. `Places` says that an execution that waits for a flush is the runner, the writer
or in the queue of one EntityManager, once, or has settled one way, and that somebody serves
whenever somebody writes. `Flow` says where its entity is meanwhile: pending in that
EntityManager, in the batch that is being written, written, or forgotten; and that what has
resolved is written or forgotten. `OrmInv` is both with the types, and `MikroOrmProofs` has
one lemma per action of `MikroOrm` for it. `FlushInv` ties it to the executions: those whose
phase is the flush are those that wait for one, and between `saveAll` and `onCommit` the
event is pending in the EntityManager the provider holds. That last part is what `turn` is
needed for: no `begin` of another request comes in between. A request that runs from its
lookup to its notification runs alone (`Alone`), and who does not run waits for the lookup
or for a flush (`Waits`, `InOrder`). For `StrandedByFailure`, `WaitsBehind` adds that
whoever is in a queue has the flush of another request in front, or one that has failed.

The answers follow: `Recorded` says what the answer, the row and the email of a request say
of each other. Of reads, `ReadsRows` says that an identity map holds rows that stay, and
`CommitsForSomebody` that a COMMIT is under way only for a flush that is awaited, which is
why a GET is not refused at other times; of the writes back, `OnlyAcceptable` says that
nothing reaches an upsert but what the command accepted.

**In memory.** An instance is shared by the executions that hold it, so `SourcesOwned` is
false here. `MemoryInv` says instead that the flag of an instance is up, and its list not
empty, only from `Emit` to the drain of the execution that has the turn (`OneCollects`).

**Servers.** The life cycle, the routes and the schema have an invariant each
(`LifecycleInv`, `RoutesInv`, `SchemaInv`), and `ServersInv` is all of them. A socket that
is not closed is held by the field as long as callers take turns (`OneServer`), and a
connection keeps its server from being closed (`RequestsInOrder`). The loops of
`extractParams`, `matchRoute` and `buildRootValue` go by the number of their steps.
`ExtractParamsIsMatch`, `MatchRouteIsFirst` and `BuildRootValueOfMaps` say what they
compute, for paths, tables and maps of any length: by `UpTo`, a set of numbers that has 0
and, with a number, the next one has them all, and `LoopHasValues`, such functions exist.
Both follow from the theorem of the library that the numbers are well-founded.

**Startup.** A transaction has seen the database of some earlier time and made what it has
run itself, records are never taken back, and who has migrated may rely on the last of them
(`MigrationsInOrder`). There are four prefixes of three migrations, so their schemas are
enumerated.

### What they assume

The assumptions of the modules, which TLC evaluates in every run: that names are apart (the
loop from the requests, aggregates from adapters, a mark such as `NoMatch` or `NoSchema`
from what it is not), that user code runs in the three phases that call it, that handlers
and processes are finitely many (`BoundsAssumption`, `ProcessesAssumption`), that paths and
urls are sequences of segments (`SegmentsAssumption`), that a fragment has a list of fields
(`SchemaAssumption`), and the types of the cases `Init` chooses from. The conditions of the
table are hypotheses of the theorem that has them.

### Only model-checked

Liveness: `EveryExecutionEnds`, `CreatedBecomesDurable`, `EveryRequestEnds`,
`AcceptedBecomesDurable`, `EverythingSettles`, `LoopsEnd` and `StartupEnds`. It follows from
fairness, that is from ENABLED, which is outside what the prover can do. Of `ValueObjects`,
which only evaluates forms, `AddressesInv` uses what `OnlyMissingNumberExits` needs.

## Not modelled

* Logging (`ConsoleLogger.ts`, `Log.ts`): it writes to the console and keeps no state, and
  the decorator is applied to no method of the program. `LoggingEventPublisher.ts` likewise.
* The benchmarks and `scripts/`: measurements of the program, on which nothing depends.
* What nothing in the program calls: `User.removeAddress`, `save` and `delete` of the
  MikroORM repository, `delete` of the in-memory one, `UserAggregatePersister`,
  `NoOpUnitOfWork`, `AggregateTracker.run`, `down` of the migrations. `NoOpEventStore` is a
  step of `InMemoryUsers`.
* Equality of value objects, entities and identifiers: no use case compares them.
* What handlers emit after the drain is never delivered; no document says that it should be,
  so no property speaks of it.
* Two executions that the same synchronous code starts share the stack of `enterWith`
  (`AggregateTracker.ts:18`): neither server does that, and the guard of `Begin` leaves it
  out. `onBegin` does not throw in any of the three units of work, and does not here.
* A handler that registers a new handler for the event it is called for, each time it is
  called, keeps its loop going (`DomainEventManager.ts:25`): handlers are finitely many in
  `EventDispatch`, and nothing in the program registers one after its start.
* Of two queries of one connection the model does not say which is served first, and of a
  query that meets the COMMIT of another EntityManager only that it waits, or, for a GET,
  that it is served before or after: the properties do not depend on it.
* Hazards that no property of a passing run covers, with the reason in `PROJECT.json`: a
  start that overlaps a stop, an error in a listener that ends the process with all
  requests in flight, the requests accepted before the second port is found taken, and
  events emitted by handlers. The models have these behaviours (`takesTurns`, `fatal`,
  `Ends`, `EmittingPhases`), and no document of the repository promises otherwise.

## Plan

Every part of the program that changes state has its module, with the exceptions above, and
the safety properties are proved. What is left:

1. In the compositions, that what returned is delivered: `ReturnedMeansDelivered` for the
   instances `App`, from `ReturnsDelivered` of `ApplicationServiceProofs`.
2. The safety half of the liveness properties: that an execution, a request or a start that
   can go no further has ended, which is what the weak fairness needs.
3. Runs of `Servers` in which a start overlaps a stop with more than one request in flight,
   to state what such a caller may still rely on.
