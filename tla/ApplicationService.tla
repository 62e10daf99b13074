------------------------- MODULE ApplicationService -------------------------
(***************************************************************************)
(* ApplicationService.execute, the unit of work it drives                  *)
(* (TrackedUnitOfWork over AggregateTracker) and the event sources that    *)
(* register themselves while a use case runs (AggregateRoot and            *)
(* EventEmittingAdapter, which share one protocol).                        *)
(*                                                                         *)
(* An action is one segment of execute between two awaits.  Async contexts *)
(* interleave at the awaits; inside a context the executions nest, because *)
(* a handler or subscriber that calls execute is awaited by its caller.    *)
(* The order of the events inside one execution is abstracted: a drained   *)
(* list is a set and the delivery loops take its members in any order.     *)
(***************************************************************************)
EXTENDS AggregateTracker, FiniteSets

CONSTANTS
  Contexts,            \* async contexts: one per request
  Exec,                \* the calls of execute that can be made
  Aggregates,          \* event sources that are AggregateRoots
  Adapters,            \* event sources that are EventEmittingAdapters
  Events,              \* identities of domain events
  Retained,            \* sources some object keeps and hands to any execution;
                       \* the others are instances of one execution
  EmittingPhases,      \* the phases of execute in which code emits events
  CatchingSubscribers  \* may a handler swallow the error of a nested execute

Sources == Aggregates \cup Adapters

ASSUME SourcesAssumption == Aggregates \cap Adapters = {} /\ Retained \subseteq Sources
ASSUME EmittingAssumption == EmittingPhases \subseteq {"useCase", "dispatch", "publish"}
ASSUME CatchingAssumption == CatchingSubscribers \in BOOLEAN

VARIABLES
  pc,            \* pc[x]: the await execution x is at
  calls,         \* calls[c]: the executions context c is inside, innermost last
  scopes,        \* scopes[c]: the AggregateTracker stack of context c
  tracked,       \* tracked[s]: the flag of AggregateRoot / EventEmittingAdapter
  domainEvents,  \* domainEvents[s]: events of source s not yet drained
  touched,       \* touched[x]: history, the sources x emitted on
  emitted,       \* emitted[x]: history, the events x emitted
  events,        \* events[x]: allEvents of execute
  todo,          \* todo[x]: those the loop x is in has still to deliver
  published,     \* events given to the publisher
  stored,        \* events given to the event store
  persisted      \* persisted[x]: trackedAggregates handed to onCommit by x

sourceVars == <<tracked, domainEvents, touched, emitted>>
outputVars == <<published, stored, persisted>>
vars == <<pc, calls, scopes, sourceVars, events, todo, outputVars>>

Delivering == {"dispatch", "publish"}
Ended == {"returned", "threw"}
Phases == {"idle", "useCase", "store", "commit", "flush", "rollback"}
            \cup Delivering \cup Ended

TypeOK ==
  /\ pc \in [Exec -> Phases]
  /\ calls \in [Contexts -> Seq(Exec)]
  /\ scopes \in [Contexts -> Seq(SUBSET Sources)]
  /\ tracked \in [Sources -> BOOLEAN]
  /\ domainEvents \in [Sources -> SUBSET Events]
  /\ touched \in [Exec -> SUBSET Sources]
  /\ emitted \in [Exec -> SUBSET Events]
  /\ events \in [Exec -> SUBSET Events]
  /\ todo \in [Exec -> SUBSET Events]
  /\ published \in SUBSET Events
  /\ stored \in SUBSET Events
  /\ persisted \in [Exec -> SUBSET Aggregates]

Init ==
  /\ pc = [x \in Exec |-> "idle"]
  /\ calls = [c \in Contexts |-> <<>>]
  /\ scopes = [c \in Contexts |-> <<>>]
  /\ tracked = [s \in Sources |-> FALSE]
  /\ domainEvents = [s \in Sources |-> {}]
  /\ touched = [x \in Exec |-> {}]
  /\ emitted = [x \in Exec |-> {}]
  /\ events = [x \in Exec |-> {}]
  /\ todo = [x \in Exec |-> {}]
  /\ published = {}
  /\ stored = {}
  /\ persisted = [x \in Exec |-> {}]

-----------------------------------------------------------------------------

(* x is the innermost execution of context c: the code that runs in c.     *)
Running(c, x) == calls[c] # <<>> /\ Innermost(calls[c]) = x
At(c, x, phase) == Running(c, x) /\ pc[x] = phase

Goto(x, phase) == pc' = [pc EXCEPT ![x] = phase]

(* A handler or a subscriber has been called and has not been left: the    *)
(* loop has taken an event.                                                *)
InHandler(x) == pc[x] \in Delivering /\ todo[x] # events[x]

(* execute -> begin: a root call in a context that runs nothing, or a call *)
(* made by a handler of the innermost execution, which awaits it.          *)
Begin(c, x) ==
  /\ pc[x] = "idle"
  /\ calls[c] # <<>> => InHandler(Innermost(calls[c]))
  /\ Goto(x, "useCase")
  /\ calls' = [calls EXCEPT ![c] = Append(@, x)]
  /\ scopes' = [scopes EXCEPT ![c] = BeginScope(@)]
  /\ UNCHANGED <<sourceVars, events, todo, outputVars>>

(* addDomainEvent: the source registers itself in the current scope on its *)
(* first event since the last drain.  An instance that is not retained is  *)
(* only reachable from the execution that made it.                         *)
Emit(c, x, s, e) ==
  /\ Running(c, x)
  /\ pc[x] \in EmittingPhases
  /\ pc[x] \in Delivering => InHandler(x)
  /\ \A y \in Exec : e \notin emitted[y]
  /\ s \notin Retained => \A y \in Exec \ {x} : s \notin touched[y]
  /\ domainEvents' = [domainEvents EXCEPT ![s] = @ \cup {e}]
  /\ tracked' = [tracked EXCEPT ![s] = TRUE]
  /\ scopes' = IF tracked[s] THEN scopes
               ELSE [scopes EXCEPT ![c] = TrackIn(@, s)]
  /\ touched' = [touched EXCEPT ![x] = @ \cup {s}]
  /\ emitted' = [emitted EXCEPT ![x] = @ \cup {e}]
  /\ UNCHANGED <<pc, calls, events, todo, outputVars>>

(* A drain that hands the events out but keeps them in the source: the     *)
(* mutant of DrainDomainEvents.                                            *)
DrainDomainEventsKeeping(drained) ==
  /\ domainEvents' = domainEvents
  /\ tracked' = [s \in Sources |-> s \notin drained /\ tracked[s]]

(* drainDomainEvents of every drained source: the list is emptied and the  *)
(* source may register again.                                              *)
DrainDomainEvents(drained) ==
  /\ domainEvents' = [s \in Sources |-> IF s \in drained THEN {} ELSE domainEvents[s]]
  /\ tracked' = [s \in Sources |-> s \notin drained /\ tracked[s]]

(* The use case resolved: getTrackedEventSources and drainEventsFromSources*)
(* run in one piece and the dispatch loop starts.                          *)
UseCaseReturns(c, x) ==
  /\ At(c, x, "useCase")
  /\ LET drained == PeekScope(scopes[c])
         collected == UNION {domainEvents[s] : s \in drained}
     IN /\ DrainDomainEvents(drained)
        /\ events' = [events EXCEPT ![x] = collected]
        /\ todo' = [todo EXCEPT ![x] = collected]
  /\ Goto(x, "dispatch")
  /\ UNCHANGED <<calls, scopes, touched, emitted, outputVars>>

UseCaseThrows(c, x) ==
  /\ At(c, x, "useCase")
  /\ Goto(x, "rollback")
  /\ UNCHANGED <<calls, scopes, sourceVars, events, todo, outputVars>>

(* One turn of the loop of DomainEventManager.dispatchAll.                 *)
DispatchEvent(c, x, e) ==
  /\ At(c, x, "dispatch")
  /\ e \in todo[x]
  /\ todo' = [todo EXCEPT ![x] = @ \ {e}]
  /\ UNCHANGED <<pc, calls, scopes, sourceVars, events, outputVars>>

(* A loop left one event early: the mutant of LoopDone.                    *)
LoopDoneEarly(x) == Cardinality(todo[x]) <= 1

LoopDone(x) == todo[x] = {}

DispatchDone(c, x) ==
  /\ At(c, x, "dispatch")
  /\ LoopDone(x)
  /\ todo' = [todo EXCEPT ![x] = events[x]]
  /\ Goto(x, "publish")
  /\ UNCHANGED <<calls, scopes, sourceVars, events, outputVars>>

(* One turn of the loop of EventPublisherPort.publishAll.                  *)
PublishEvent(c, x, e) ==
  /\ At(c, x, "publish")
  /\ e \in todo[x]
  /\ todo' = [todo EXCEPT ![x] = @ \ {e}]
  /\ published' = published \cup {e}
  /\ UNCHANGED <<pc, calls, scopes, sourceVars, events, stored, persisted>>

PublishDone(c, x) ==
  /\ At(c, x, "publish")
  /\ LoopDone(x)
  /\ Goto(x, "store")
  /\ UNCHANGED <<calls, scopes, sourceVars, events, todo, outputVars>>

(* A handler or a subscriber rejects by itself.                            *)
HandlerThrows(c, x) ==
  /\ Running(c, x)
  /\ InHandler(x)
  /\ Goto(x, "rollback")
  /\ UNCHANGED <<calls, scopes, sourceVars, events, todo, outputVars>>

SaveAll(c, x) ==
  /\ At(c, x, "store")
  /\ stored' = stored \cup events[x]
  /\ Goto(x, "commit")
  /\ UNCHANGED <<calls, scopes, sourceVars, events, todo, published, persisted>>

(* saveAll stops in the middle of its loop.                                *)
SaveAllThrows(c, x) ==
  /\ At(c, x, "store")
  /\ \E saved \in SUBSET events[x] : stored' = stored \cup saved
  /\ Goto(x, "rollback")
  /\ UNCHANGED <<calls, scopes, sourceVars, events, todo, published, persisted>>

(* A commit that hands over every tracked source: a mutant.                *)
CommitAllSources(c, x) ==
  /\ At(c, x, "commit")
  /\ persisted' = [persisted EXCEPT ![x] = DrainedSources(scopes[c])]
  /\ scopes' = [scopes EXCEPT ![c] = DrainScope(@)]
  /\ Goto(x, "flush")
  /\ UNCHANGED <<calls, sourceVars, events, todo, published, stored>>

(* TrackedUnitOfWork.commit up to the await of onCommit: the scope is      *)
(* popped and its aggregates, not its adapters, go to onCommit.            *)
Commit(c, x) ==
  /\ At(c, x, "commit")
  /\ persisted' = [persisted EXCEPT ![x] = DrainedSources(scopes[c]) \cap Aggregates]
  /\ scopes' = [scopes EXCEPT ![c] = DrainScope(@)]
  /\ Goto(x, "flush")
  /\ UNCHANGED <<calls, sourceVars, events, todo, published, stored>>

(* onCommit resolved: execute returns to its caller, which continues.      *)
CommitReturns(c, x) ==
  /\ At(c, x, "flush")
  /\ Goto(x, "returned")
  /\ calls' = [calls EXCEPT ![c] = Pop(@)]
  /\ UNCHANGED <<scopes, sourceVars, events, todo, outputVars>>

CommitThrows(c, x) ==
  /\ At(c, x, "flush")
  /\ Goto(x, "rollback")
  /\ UNCHANGED <<calls, scopes, sourceVars, events, todo, outputVars>>

(* An error that stops at the nested execution: the mutant of Rethrow.     *)
RethrowSwallowing(c, x) == Goto(x, "threw")

(* The error leaves x: it is thrown in the handler that called x, whose    *)
(* own execution fails with it unless the handler catches it.              *)
Rethrow(c, x) ==
  LET callers == Pop(calls[c])
  IN IF callers = <<>> THEN Goto(x, "threw")
     ELSE \/ pc' = [pc EXCEPT ![x] = "threw", ![Innermost(callers)] = "rollback"]
          \/ CatchingSubscribers /\ Goto(x, "threw")

(* An execute that starts over after an error: a mutant.                   *)
RollbackRetrying(c, x) ==
  /\ At(c, x, "rollback")
  /\ scopes' = [scopes EXCEPT ![c] = BeginScope(ClearScope(@))]
  /\ Goto(x, "useCase")
  /\ UNCHANGED <<calls, sourceVars, events, todo, outputVars>>

(* The catch clause: rollback clears the innermost scope of the context,   *)
(* whether or not commit has already popped the scope of x, and rethrows.  *)
Rollback(c, x) ==
  /\ At(c, x, "rollback")
  /\ scopes' = [scopes EXCEPT ![c] = ClearScope(@)]
  /\ Rethrow(c, x)
  /\ calls' = [calls EXCEPT ![c] = Pop(@)]
  /\ UNCHANGED <<sourceVars, events, todo, outputVars>>

-----------------------------------------------------------------------------

(* What the event loop does for x once it has begun: everything but the    *)
(* choice of user code to emit or to nest.                                 *)
Advance(x) ==
  \E c \in Contexts :
    \/ UseCaseReturns(c, x) \/ UseCaseThrows(c, x)
    \/ \E e \in Events : DispatchEvent(c, x, e) \/ PublishEvent(c, x, e)
    \/ DispatchDone(c, x) \/ PublishDone(c, x) \/ HandlerThrows(c, x)
    \/ SaveAll(c, x) \/ SaveAllThrows(c, x)
    \/ Commit(c, x) \/ CommitReturns(c, x) \/ CommitThrows(c, x)
    \/ Rollback(c, x)

(* Every execution has ended; nothing is left to run.                      *)
Finished == (\A x \in Exec : pc[x] \in Ended) /\ UNCHANGED vars

Next ==
  \/ \E x \in Exec :
       \/ Advance(x)
       \/ \E c \in Contexts :
            \/ Begin(c, x)
            \/ \E s \in Sources, e \in Events : Emit(c, x, s, e)
  \/ Finished

Spec == Init /\ [][Next]_vars

(* The event loop resumes every pending continuation, and use cases,       *)
(* handlers and onCommit settle.                                           *)
FairSpec == Spec /\ \A x \in Exec : WF_vars(Advance(x))

-----------------------------------------------------------------------------

(* The number of scopes that should be open at a phase of the innermost    *)
(* execution: commit pops its scope before it awaits onCommit, so that a   *)
(* rollback that follows a failed commit finds one scope fewer.            *)
OpenScopes(phase, depth) ==
  CASE phase = "flush" -> {depth - 1}
    [] phase = "rollback" -> {depth - 1, depth}
    [] OTHER -> {depth}

(* A context has as many open scopes as executions that have not handed    *)
(* theirs to commit: begin, commit and the rollback of every error path    *)
(* (ApplicationService.ts:31, 45, 49) balance at any nesting, and every    *)
(* execution that will still commit has its scope - provided that no       *)
(* handler swallows the error of an execution it nests.                    *)
ScopesMatchCalls ==
  \A c \in Contexts :
    IF calls[c] = <<>> THEN scopes[c] = <<>>
    ELSE Len(scopes[c]) \in OpenScopes(pc[Innermost(calls[c])], Len(calls[c]))

(* A context in which no execution runs has no open scope: whatever failed,*)
(* the next request of the context starts on an empty stack                *)
(* (AggregateTracker.ts:14-21 reuses the array of the context).            *)
NoScopeLeft == \A c \in Contexts : calls[c] = <<>> => scopes[c] = <<>>

(* What reaches onCommit is exactly the aggregates the execution itself    *)
(* emitted on: none of a caller, of a nested execution or of another       *)
(* context, and none missing (TrackedUnitOfWork.ts:13-24).                 *)
CommitPersistsOwn ==
  \A x \in Exec :
    pc[x] \in {"flush", "returned"} => persisted[x] = touched[x] \cap Aggregates

(* The inductive invariants behind these two.  Calls nest: an execution is *)
(* in one call at most, and those under the innermost await a handler.     *)
CallsNest ==
  \A c \in Contexts : \A i \in 1 .. Len(calls[c]) :
    /\ pc[calls[c][i]] \notin {"idle"} \cup Ended
    /\ i < Len(calls[c]) => pc[calls[c][i]] \in Delivering

CallsDistinct ==
  \A c, d \in Contexts : \A i \in 1 .. Len(calls[c]), j \in 1 .. Len(calls[d]) :
    calls[c][i] = calls[d][j] => c = d /\ i = j

NestingInv == TypeOK /\ CallsNest /\ CallsDistinct /\ ScopesMatchCalls

(* The scopes of a context hold, bottom up, what its calls touched; a      *)
(* source belongs to one execution, and its flag is up only if it has one. *)
ScopesHoldTouched ==
  \A c \in Contexts : \A i \in 1 .. Len(scopes[c]) : scopes[c][i] = touched[calls[c][i]]

SourcesOwned ==
  /\ \A x, y \in Exec : touched[x] \cap touched[y] # {} => x = y
  /\ \A s \in Sources : tracked[s] => \E x \in Exec : s \in touched[x]
  /\ \A x \in Exec : pc[x] = "idle" => touched[x] = {}

OwnershipInv == NestingInv /\ ScopesHoldTouched /\ SourcesOwned /\ CommitPersistsOwn

(* An emitted event is in one place: still in the list of one source, or   *)
(* collected by one execution.  No event is drained twice or by two        *)
(* executions, also when they share an instance (ApplicationService.ts:36- *)
(* 37, AggregateRoot.ts:34-39).                                            *)
EventInOnePlace ==
  \A e \in UNION {emitted[x] : x \in Exec} :
    Cardinality({s \in Sources : e \in domainEvents[s]})
      + Cardinality({x \in Exec : e \in events[x]}) = 1

(* An execution that returned has published and stored every event it      *)
(* emitted, and nothing of it is left in a source to surface in a later    *)
(* execution, provided that it emitted in its use case, on sources it      *)
(* shares with nobody (ApplicationService.ts:39-47).                       *)
ReturnedMeansDelivered ==
  \A x \in Exec :
    pc[x] = "returned" /\ touched[x] \cap Retained = {} =>
      /\ emitted[x] \subseteq published \cap stored
      /\ \A s \in touched[x] : domainEvents[s] = {}

(* An execution that began ends, returned or with an error, whatever is    *)
(* nested in it and wherever it fails (ApplicationService.ts:33-51).       *)
EveryExecutionEnds ==
  \A x \in Exec : (pc[x] = "useCase") ~> (pc[x] \in Ended)

(* The contract of a unit of work (UnitOfWork.tla): private sets of        *)
(* sources, no stack, no flag, no context.  The scopes of the nested and   *)
(* concurrent executions implement it (TrackedUnitOfWork.ts:8-29).         *)
Caller(x) ==
  {y \in Exec : \E c \in Contexts : \E i \in 1 .. Len(calls[c]) - 1 :
                  calls[c][i] = y /\ calls[c][i + 1] = x}

Status(x) ==
  CASE pc[x] = "idle" -> "new"
    [] pc[x] = "flush" -> "handed"
    [] pc[x] = "returned" -> "committed"
    [] pc[x] = "rollback" -> "doomed"
    [] pc[x] = "threw" -> "aborted"
    [] OTHER -> "open"

Contract ==
  INSTANCE UnitOfWork WITH
    status <- [x \in Exec |-> Status(x)],
    caller <- [x \in Exec |-> Caller(x)],
    handed <- persisted

ImplementsUnitOfWork == Contract!Spec
=============================================================================
