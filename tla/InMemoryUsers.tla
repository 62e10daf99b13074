--------------------------- MODULE InMemoryUsers ---------------------------
(***************************************************************************)
(* The use cases of the user module over the in-memory adapters: the       *)
(* repository keeps User instances in a map and gives out the very instance*)
(* it keeps; the unit of work saves at commit and does nothing at rollback;*)
(* the event store does nothing.                                           *)
(*                                                                         *)
(* No adapter waits for I/O, so an execution only lets others run while a  *)
(* handler or subscriber of its events waits: yielding is an action of its *)
(* own, and turn is the execution whose microtasks are being run.          *)
(***************************************************************************)
EXTENDS Sequences, Integers, FiniteSets

CONSTANTS
  Creates,    \* executions of CreateUser; the user and its event go by the
              \* execution too
  Adds,       \* executions of AddAddress; so do the address and its event
  Emails,     \* the addresses the users may have
  EventLoop   \* the value of turn when no execution runs

Executions == Creates \cup Adds
ASSUME NamesAssumption == EventLoop \notin Executions /\ Creates \cap Adds = {}

VARIABLES
  pc, calls, scopes, tracked, domainEvents, touched, emitted, events, todo,
  published, stored, persisted,   \* the state of ApplicationService
  users,      \* the map of the repository: the users it holds
  addresses,  \* addresses[u]: those on the instance of user u
  email,      \* email[r]: the address of the user that r creates
  userId,     \* userId[a]: the user that a asks for
  waiting,    \* executions whose handler waits for something
  turn        \* the execution that runs, or EventLoop

appVars == <<pc, calls, scopes, tracked, domainEvents, touched, emitted,
             events, todo, published, stored, persisted>>
vars == <<appVars, users, addresses, email, userId, waiting, turn>>

(* A user is retained by the repository: several executions load it.       *)
App == INSTANCE ApplicationService WITH
         Contexts <- Executions, Exec <- Executions,
         Aggregates <- Creates, Adapters <- {}, Events <- Executions,
         Retained <- Creates,
         EmittingPhases <- {"useCase"}, CatchingSubscribers <- FALSE

Init ==
  /\ App!Init
  /\ users = {}
  /\ addresses = [u \in Creates |-> {}]
  /\ email \in [Creates -> Emails] /\ userId \in [Adds -> Creates]
  /\ waiting = {}
  /\ turn = EventLoop

-----------------------------------------------------------------------------

(* x runs, and goes on running.                                            *)
Runs(x) == turn \in {x, EventLoop} /\ x \notin waiting /\ turn' = x

Begin(x) ==
  /\ turn = EventLoop /\ turn' = x
  /\ App!Begin(x, x)
  /\ UNCHANGED <<users, addresses, email, userId, waiting>>

(* CreateUserUseCase: nobody in the map has the address, and User.create   *)
(* emits UserCreated ...                                                   *)
CreateUser(r) ==
  /\ Runs(r)
  /\ emitted[r] = {}
  /\ \A u \in users : email[u] # email[r]
  /\ App!Emit(r, r, r, r)
  /\ UNCHANGED <<users, addresses, email, userId, waiting>>

(* An AddAddress that saves by itself and waits for it: a mutant.          *)
AddAddressWaiting(a) ==
  /\ turn \in {a, EventLoop} /\ turn' = EventLoop
  /\ emitted[a] = {}
  /\ userId[a] \in users
  /\ App!Emit(a, a, userId[a], a)
  /\ addresses' = [addresses EXCEPT ![userId[a]] = @ \cup {a}]
  /\ UNCHANGED <<users, email, userId, waiting>>

(* AddAddressUseCase: the address is put on the instance in the map.       *)
AddAddress(a) ==
  /\ Runs(a)
  /\ emitted[a] = {}
  /\ userId[a] \in users
  /\ App!Emit(a, a, userId[a], a)
  /\ addresses' = [addresses EXCEPT ![userId[a]] = @ \cup {a}]
  /\ UNCHANGED <<users, email, userId, waiting>>

(* ... or the use case throws: the address is taken, the user is not found.*)
Reject(x) ==
  /\ Runs(x)
  /\ emitted[x] = {}
  /\ IF x \in Creates THEN \E u \in users : email[u] = email[x] ELSE userId[x] \notin users
  /\ App!UseCaseThrows(x, x)
  /\ UNCHANGED <<users, addresses, email, userId, waiting>>

(* The drain, the loops and NoOpEventStore.saveAll.                        *)
Deliver(x) ==
  /\ Runs(x)
  /\ \/ emitted[x] # {} /\ App!UseCaseReturns(x, x)
     \/ \E e \in Executions : App!DispatchEvent(x, x, e) \/ App!PublishEvent(x, x, e)
     \/ App!DispatchDone(x, x) \/ App!PublishDone(x, x) \/ App!SaveAll(x, x)
  /\ UNCHANGED <<users, addresses, email, userId, waiting>>

(* A handler or subscriber waits, and others run ...                       *)
HandlerWaits(x) ==
  /\ turn = x /\ turn' = EventLoop
  /\ App!InHandler(x)
  /\ waiting' = waiting \cup {x}
  /\ UNCHANGED <<appVars, users, addresses, email, userId>>

HandlerResumes(x) ==
  /\ turn = EventLoop /\ turn' = x
  /\ x \in waiting
  /\ waiting' = waiting \ {x}
  /\ UNCHANGED <<appVars, users, addresses, email, userId>>

(* ... or throws.                                                          *)
HandlerThrows(x) ==
  /\ Runs(x)
  /\ App!HandlerThrows(x, x)
  /\ UNCHANGED <<users, addresses, email, userId, waiting>>

(* An onCommit that saves only while nobody waits: a mutant.               *)
SaveTrackedAlone(x) ==
  users' = IF waiting # {} THEN users ELSE users \cup persisted'[x]

(* onCommit: the repository puts the instance in the map, where it may be. *)
SaveTracked(x) == users' = users \cup persisted'[x]

Commit(x) ==
  /\ Runs(x)
  /\ App!Commit(x, x)
  /\ SaveTracked(x)
  /\ UNCHANGED <<addresses, email, userId, waiting>>

(* onCommit cannot fail here.                                              *)
CommitReturns(x) ==
  /\ turn = x /\ turn' = EventLoop
  /\ App!CommitReturns(x, x)
  /\ UNCHANGED <<users, addresses, email, userId, waiting>>

(* onRollback does nothing: what was done to an instance stays done.       *)
Rollback(x) ==
  /\ turn \in {x, EventLoop} /\ turn' = EventLoop
  /\ App!Rollback(x, x)
  /\ UNCHANGED <<users, addresses, email, userId, waiting>>

Step(x) ==
  \/ Begin(x) \/ Reject(x) \/ Deliver(x)
  \/ HandlerWaits(x) \/ HandlerResumes(x) \/ HandlerThrows(x)
  \/ Commit(x) \/ CommitReturns(x) \/ Rollback(x)

Finished ==
  /\ \A x \in Executions : pc[x] \in {"returned", "threw"}
  /\ UNCHANGED vars

Next ==
  \/ \E x \in Executions : Step(x)
  \/ \E r \in Creates : CreateUser(r)
  \/ \E a \in Adds : AddAddress(a)
  \/ Finished

Spec == Init /\ [][Next]_vars

-----------------------------------------------------------------------------

(* Executions that load one instance at a time when others hold it deliver *)
(* their own events and hand over what they touched, although the list of  *)
(* events and the flag are on the shared instance (AggregateRoot.ts:24-39, *)
(* InMemoryUserRepository.ts:13).                                          *)
OwnEventsOnly ==
  \A x \in Executions :
    /\ events[x] \subseteq emitted[x]
    /\ pc[x] = "returned" => events[x] = emitted[x] /\ persisted[x] = touched[x]

(* What an execution that returned has done is on the user the repository  *)
(* gives out, whoever else held the instance, waited or failed meanwhile   *)
(* (InMemoryUnitOfWork.ts:22-33, InMemoryUserRepository.ts:8-10).          *)
ReturnedIsKept ==
  /\ \A r \in Creates : pc[r] = "returned" => r \in users
  /\ \A a \in Adds : pc[a] = "returned" => userId[a] \in users /\ a \in addresses[userId[a]]
=============================================================================
