--------------------------- MODULE EventDispatch ---------------------------
(***************************************************************************)
(* The two delivery loops of ApplicationService.execute from the inside:   *)
(* DomainEventManager.dispatchAll and then EventEmitterEventBus.publishAll *)
(* over the same list of events, handler by handler, while other code      *)
(* registers handlers, subscribes and clears.                              *)
(*                                                                         *)
(* The manager walks the array it keeps for the event name, so it sees     *)
(* what is pushed to it during an await; clear drops the map and not the   *)
(* arrays.  The bus walks the copy that EventEmitter.listeners returns.    *)
(* A handler stands for one registration: a function that is registered    *)
(* twice is two of them.                                                   *)
(***************************************************************************)
EXTENDS Naturals, FiniteSets, SequencesExt

CONSTANTS
  Names,      \* event names
  Handlers,   \* registrations that may be made, at either dispatcher
  Runs,       \* executions that deliver their events
  Lists,      \* the events they may have, by name: the cases to consider
  MaxEvents,  \* bound: events of one execution
  MaxClears   \* bound: calls of clear

ASSUME BoundsAssumption ==
  MaxEvents \in Nat /\ MaxClears \in Nat /\ IsFiniteSet(Handlers)
ASSUME ListsAssumption == Lists \subseteq [Runs -> BoundedSeq(Names, MaxEvents)]

VARIABLES
  handlers,     \* handlers[g][n]: the array of name n made after g clears;
                \* an empty one stands for no entry in the map
  cleared,      \* how often clear was called: which arrays are in the map
  subscribers,  \* subscribers[n]: the listeners of the EventEmitter
  list,         \* list[x]: the events of x, by name
  stage,        \* stage[x]: the loop x is in
  pc,           \* pc[x]: where in it
  event,        \* event[x]: index of the event being delivered
  array,        \* array[x]: the generation of the array that dispatch walks
  copy,         \* copy[x]: the listeners that publish walks
  served,       \* served[x]: those called with the event, in order
  entitled      \* entitled[x]: history, those registered when it was taken

registry == <<handlers, cleared, subscribers>>
walk == <<array, copy, served, entitled>>
vars == <<registry, list, stage, pc, event, walk>>

Generations == 0..MaxClears
HandlerLists == {s \in BoundedSeq(Handlers, Cardinality(Handlers)) : IsInjective(s)}

TypeOK ==
  /\ handlers \in [Generations -> [Names -> HandlerLists]]
  /\ cleared \in Generations
  /\ subscribers \in [Names -> HandlerLists]
  /\ list \in Lists
  /\ stage \in [Runs -> {"idle", "dispatch", "publish", "over"}]
  /\ pc \in [Runs -> {"next", "handling", "between", "threw"}]
  /\ event \in [Runs -> 1..(MaxEvents + 1)]
  /\ array \in [Runs -> Generations] /\ copy \in [Runs -> HandlerLists]
  /\ served \in [Runs -> Seq(Handlers)] /\ entitled \in [Runs -> HandlerLists]

Init ==
  /\ handlers = [g \in Generations |-> [n \in Names |-> <<>>]]
  /\ cleared = 0
  /\ subscribers = [n \in Names |-> <<>>]
  /\ list \in Lists
  /\ stage = [x \in Runs |-> "idle"]
  /\ pc = [x \in Runs |-> "next"]
  /\ event = [x \in Runs |-> 1]
  /\ array = [x \in Runs |-> 0] /\ copy = [x \in Runs |-> <<>>]
  /\ served = [x \in Runs |-> <<>>] /\ entitled = [x \in Runs |-> <<>>]

-----------------------------------------------------------------------------

Registered(h) == \E n \in Names :
  h \in ToSet(subscribers[n]) \/ \E g \in Generations : h \in ToSet(handlers[g][n])

(* A register that puts the newest handler first: a mutant.                *)
RegisterInFront(n, h) ==
  /\ ~Registered(h)
  /\ handlers' = [handlers EXCEPT ![cleared][n] = <<h>> \o @]
  /\ UNCHANGED <<cleared, subscribers, list, stage, pc, event, walk>>

(* A register that goes on to push into the array it has made: a mutant.   *)
RegisterTwice(n, h) ==
  /\ ~Registered(h)
  /\ handlers' = [handlers EXCEPT ![cleared][n] = IF @ = <<>> THEN <<h, h>> ELSE Append(@, h)]
  /\ UNCHANGED <<cleared, subscribers, list, stage, pc, event, walk>>

(* DomainEventManager.register: into the array in the map, or a new one.   *)
Register(n, h) ==
  /\ ~Registered(h)
  /\ handlers' = [handlers EXCEPT ![cleared][n] = Append(@, h)]
  /\ UNCHANGED <<cleared, subscribers, list, stage, pc, event, walk>>

(* A clear that empties the arrays as well: a mutant.                      *)
ClearArrays ==
  /\ cleared < MaxClears
  /\ cleared' = cleared + 1
  /\ handlers' = [g \in Generations |-> [n \in Names |-> <<>>]]
  /\ UNCHANGED <<subscribers, list, stage, pc, event, walk>>

(* A clear that leaves the arrays in the map: a mutant.                    *)
ClearNothing ==
  /\ cleared < MaxClears
  /\ cleared' = cleared + 1
  /\ handlers' = [handlers EXCEPT ![cleared + 1] = handlers[cleared]]
  /\ UNCHANGED <<subscribers, list, stage, pc, event, walk>>

(* DomainEventManager.clear.                                               *)
Clear ==
  /\ cleared < MaxClears
  /\ cleared' = cleared + 1
  /\ UNCHANGED <<handlers, subscribers, list, stage, pc, event, walk>>

(* EventEmitterEventBus.subscribe.                                         *)
Subscribe(n, h) ==
  /\ ~Registered(h)
  /\ subscribers' = [subscribers EXCEPT ![n] = Append(@, h)]
  /\ UNCHANGED <<handlers, cleared, list, stage, pc, event, walk>>

-----------------------------------------------------------------------------

Name(x) == list[x][event[x]]

(* What the loop of x walks, as it is now.                                 *)
Walked(x) ==
  IF stage[x] = "dispatch" THEN handlers[array[x]][Name(x)] ELSE copy[x]

Start(x) ==
  /\ stage[x] = "idle"
  /\ stage' = [stage EXCEPT ![x] = "dispatch"]
  /\ UNCHANGED <<registry, list, pc, event, walk>>

Found(x) ==
  IF stage[x] = "dispatch" THEN handlers[cleared][Name(x)] ELSE subscribers[Name(x)]

(* dispatch or publish is called with the next event: it looks the handlers*)
(* up and calls the first one in one piece, or returns if there is none.   *)
TakeEvent(x) ==
  /\ stage[x] \in {"dispatch", "publish"} /\ pc[x] = "next"
  /\ event[x] <= Len(list[x])
  /\ entitled' = [entitled EXCEPT ![x] = Found(x)]
  /\ IF Found(x) = <<>>
     THEN /\ event' = [event EXCEPT ![x] = @ + 1]
          /\ served' = [served EXCEPT ![x] = <<>>]
          /\ UNCHANGED <<pc, array, copy>>
     ELSE /\ pc' = [pc EXCEPT ![x] = "handling"]
          /\ served' = [served EXCEPT ![x] = <<Head(Found(x))>>]
          /\ array' = [array EXCEPT ![x] = cleared]
          /\ copy' = [copy EXCEPT ![x] = IF stage[x] = "publish" THEN Found(x) ELSE <<>>]
          /\ UNCHANGED event
  /\ UNCHANGED <<registry, list, stage>>

HandlerResolves(x) ==
  /\ pc[x] = "handling"
  /\ pc' = [pc EXCEPT ![x] = "between"]
  /\ UNCHANGED <<registry, list, stage, event, walk>>

(* A handler that is called again until it resolves: a mutant.             *)
HandlerRejectsRetrying(x) ==
  /\ pc[x] = "handling"
  /\ pc' = [pc EXCEPT ![x] = "between"]
  /\ served' = [served EXCEPT ![x] = Front(@)]
  /\ UNCHANGED <<registry, list, stage, event, array, copy, entitled>>

(* The error leaves both loops: execute rolls back.                        *)
HandlerRejects(x) ==
  /\ pc[x] = "handling"
  /\ pc' = [pc EXCEPT ![x] = "threw"]
  /\ stage' = [stage EXCEPT ![x] = "over"]
  /\ UNCHANGED <<registry, list, event, walk>>

(* The element of the walked array behind the last one that was called.    *)
NextHandler(x) ==
  LET i == Len(served[x]) + 1 IN IF i \in DOMAIN Walked(x) THEN {Walked(x)[i]} ELSE {}

(* The await is over: the for loop goes on to the next element, if there   *)
(* is one by now ...                                                       *)
CallNext(x) ==
  /\ pc[x] = "between"
  /\ \E h \in NextHandler(x) : served' = [served EXCEPT ![x] = Append(@, h)]
  /\ pc' = [pc EXCEPT ![x] = "handling"]
  /\ UNCHANGED <<registry, list, stage, event, array, copy, entitled>>

(* ... and otherwise leaves the event.                                     *)
LeaveEvent(x) ==
  /\ pc[x] = "between"
  /\ NextHandler(x) = {}
  /\ event' = [event EXCEPT ![x] = @ + 1]
  /\ pc' = [pc EXCEPT ![x] = "next"]
  /\ copy' = [copy EXCEPT ![x] = <<>>]
  /\ UNCHANGED <<registry, list, stage, array, served, entitled>>

(* dispatchAll returned: publishAll starts over with the same list; after  *)
(* publishAll the execution goes on to the store.                          *)
LeaveLoop(x) ==
  /\ stage[x] \in {"dispatch", "publish"} /\ pc[x] = "next"
  /\ event[x] > Len(list[x])
  /\ stage' = [stage EXCEPT ![x] = IF @ = "dispatch" THEN "publish" ELSE "over"]
  /\ event' = [event EXCEPT ![x] = 1]
  /\ UNCHANGED <<registry, list, pc, walk>>

Deliver(x) ==
  \/ TakeEvent(x) \/ HandlerResolves(x) \/ HandlerRejects(x)
  \/ CallNext(x) \/ LeaveEvent(x) \/ LeaveLoop(x)

Finished == (\A x \in Runs : stage[x] = "over") /\ UNCHANGED vars

Next ==
  \/ \E n \in Names, h \in Handlers : Register(n, h) \/ Subscribe(n, h)
  \/ Clear
  \/ \E x \in Runs : Start(x) \/ Deliver(x)
  \/ Finished

Spec == Init /\ [][Next]_vars

(* The event loop resumes every await; the handlers settle.                *)
FairSpec == Spec /\ \A x \in Runs : WF_vars(Deliver(x))

-----------------------------------------------------------------------------

(* Whoever was registered when an event was taken is called with it before *)
(* the loop leaves it, in the order of registration and before any later   *)
(* one, even when clear is called meanwhile (DomainEventManager.ts:25,37); *)
(* the bus calls nobody else (EventEmitterEventBus.ts:19).                 *)
EntitledAreServed ==
  [][\A x \in Runs : event'[x] = event[x] + 1 =>
       IF stage[x] = "publish" THEN served'[x] = entitled'[x]
       ELSE IsPrefix(entitled'[x], served'[x])]_vars

(* Nobody is called twice with one event, however the array grows under    *)
(* the loop (DomainEventManager.ts:14,25).                                 *)
ServedOnce == \A x \in Runs : IsInjective(served[x])

(* The first handler called for an event that dispatch takes after clear is*)
(* none from before it: a new event finds the array of the map, not the one*)
(* an older dispatch still walks (DomainEventManager.ts:36-38).            *)
Forgotten == UNION {ToSet(handlers[g][n]) : g \in 0..(cleared - 1), n \in Names}
ClearedStayQuiet ==
  [][\A x \in Runs :
       stage[x] = "dispatch" /\ pc[x] = "next" /\ pc'[x] = "handling" =>
         ToSet(served'[x]) \cap Forgotten = {}]_vars

(* Every execution gets out of its loops, although a handler may register  *)
(* another for the event that is being dispatched, as long as there is     *)
(* another: the handlers of an instance are finitely many                  *)
(* (DomainEventManager.ts:25).                                             *)
LoopsEnd == \A x \in Runs : (stage[x] = "dispatch") ~> (stage[x] = "over")
=============================================================================
