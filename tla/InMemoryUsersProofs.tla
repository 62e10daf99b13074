------------------------ MODULE InMemoryUsersProofs ------------------------
(***************************************************************************)
(* Theorems about InMemoryUsers for any number of executions, users and    *)
(* addresses.                                                              *)
(*                                                                         *)
(* Every execution has a context of its own, so its stack of scopes has one*)
(* scope at most.  What is shared is the instance of a user: the argument  *)
(* is that its flag is up and its list holds an event only from Emit to the*)
(* drain of the same execution, in between which no other runs.            *)
(***************************************************************************)
EXTENDS InMemoryUsers, SequenceTheorems, TLAPS

-----------------------------------------------------------------------------
(* The inductive invariant.                                                *)

(* The user whose instance x emits on.                                     *)
UserOf(x) == IF x \in Creates THEN x ELSE userId[x]

(* x is between its Emit and its drain.                                    *)
Collecting(x) == pc[x] = "useCase" /\ emitted[x] = {x}

HasScope == {"useCase", "dispatch", "publish", "store", "commit"}
AfterUseCase == {"dispatch", "publish", "store", "commit", "flush", "returned"}

(* f has an entry for every execution, whatever it is.                     *)
PerExecution(f) == f = [x \in Executions |-> f[x]]

MemoryTypes ==
  /\ pc \in [Executions -> App!Phases]
  /\ PerExecution(calls) /\ PerExecution(scopes)
  /\ PerExecution(touched) /\ PerExecution(emitted)
  /\ PerExecution(events) /\ PerExecution(persisted)
  /\ tracked \in [Creates -> BOOLEAN]
  /\ DOMAIN domainEvents = Creates
  /\ users \subseteq Creates
  /\ DOMAIN addresses = Creates
  /\ userId \in [Adds -> Creates]
  /\ turn \in Executions \cup {EventLoop}

(* The stacks of the context of x.                                         *)
OwnStacks(x) ==
  /\ calls[x] = IF pc[x] \in {"idle", "returned", "threw"} THEN <<>> ELSE <<x>>
  /\ pc[x] \in {"idle", "flush", "returned", "threw"} => scopes[x] = <<>>
  /\ pc[x] \in HasScope => scopes[x] = <<touched[x]>>
  /\ pc[x] = "rollback" => scopes[x] \in {<<>>, <<touched[x]>>}

(* What x has done, and where it is.                                       *)
OwnWork(x) ==
  /\ emitted[x] \in {{}, {x}}
  /\ touched[x] = IF emitted[x] = {} THEN {} ELSE {UserOf(x)}
  /\ pc[x] = "idle" => emitted[x] = {}
  /\ events[x] \subseteq emitted[x]
  /\ pc[x] \in AfterUseCase => emitted[x] = {x} /\ events[x] = {x}
  /\ pc[x] \in {"flush", "returned"} => persisted[x] = touched[x] /\ UserOf(x) \in users
  /\ x \in Adds /\ emitted[x] = {x} => x \in addresses[userId[x]]

(* The list and the flag of an instance are those of the one execution that*)
(* runs.                                                                   *)
OneCollects ==
  /\ \A x \in Executions : Collecting(x) => turn = x /\ domainEvents[UserOf(x)] = {x}
  /\ \A u \in Creates : tracked[u] \/ domainEvents[u] # {} =>
       \E x \in Executions : Collecting(x) /\ UserOf(x) = u

MemoryInv ==
  /\ MemoryTypes
  /\ \A x \in Executions : OwnStacks(x) /\ OwnWork(x)
  /\ OneCollects

-----------------------------------------------------------------------------
(* A stack of one scope (AggregateTracker.ts:14-56).                       *)

LEMMA OneScope ==
  ASSUME NEW scope, NEW source
  PROVE  /\ App!BeginScope(<<>>) = <<{}>>
         /\ App!TrackIn(<<scope>>, source) = <<scope \cup {source}>>
         /\ App!PeekScope(<<scope>>) = scope
         /\ App!Pop(<<scope>>) = <<>> /\ App!Pop(<<>>) = <<>>
<1>1. Len(<<scope>>) = 1 /\ <<scope>>[1] = scope /\ <<scope>> # <<>>
  OBVIOUS
<1>2. App!BeginScope(<<>>) = <<{}>>
  BY DEF App!BeginScope
<1>3. App!TrackIn(<<scope>>, source) = <<scope \cup {source}>>
  <2>1. App!TrackIn(<<scope>>, source) = [<<scope>> EXCEPT ![1] = @ \cup {source}]
    BY <1>1 DEF App!TrackIn
  <2> QED
    BY <2>1
<1>4. App!PeekScope(<<scope>>) = scope
  BY <1>1 DEF App!PeekScope, App!Innermost
<1>5. App!Pop(<<scope>>) = <<>>
  <2>1. App!Pop(<<scope>>) = SubSeq(<<scope>>, 1, 0)
    BY <1>1 DEF App!Pop
  <2> QED
    BY <2>1
<1>6. App!Pop(<<>>) = <<>>
  BY DEF App!Pop
<1> QED
  BY <1>2, <1>3, <1>4, <1>5, <1>6

(* The execution that runs in a context is the one the context is of.      *)
LEMMA RunningIsOwn ==
  ASSUME NEW x \in Executions, OwnStacks(x), App!Running(x, x)
  PROVE  calls[x] = <<x>> /\ pc[x] \notin {"idle", "returned", "threw"}
BY DEF OwnStacks, App!Running

-----------------------------------------------------------------------------
(* What a step of one execution leaves to the others.                      *)

(* x is the only execution a step moves; users and addresses are only      *)
(* added.                                                                  *)
Moves(x) ==
  /\ pc' = [pc EXCEPT ![x] = pc'[x]]
  /\ calls' = [calls EXCEPT ![x] = calls'[x]]
  /\ scopes' = [scopes EXCEPT ![x] = scopes'[x]]
  /\ touched' = [touched EXCEPT ![x] = touched'[x]]
  /\ emitted' = [emitted EXCEPT ![x] = emitted'[x]]
  /\ events' = [events EXCEPT ![x] = events'[x]]
  /\ persisted' = [persisted EXCEPT ![x] = persisted'[x]]
  /\ users \subseteq users'
  /\ DOMAIN addresses' = Creates /\ \A u \in Creates : addresses[u] \subseteq addresses'[u]
  /\ userId' = userId

LEMMA OthersStay ==
  ASSUME MemoryInv, NEW x \in Executions, Moves(x)
  PROVE  \A y \in Executions \ {x} :
           /\ OwnStacks(y)' /\ OwnWork(y)'
           /\ Collecting(y)' <=> Collecting(y)
           /\ UserOf(y)' = UserOf(y)
<1> SUFFICES ASSUME NEW y \in Executions \ {x}
             PROVE  /\ OwnStacks(y)' /\ OwnWork(y)'
                    /\ Collecting(y)' <=> Collecting(y)
                    /\ UserOf(y)' = UserOf(y)
  OBVIOUS
<1>1. /\ pc'[y] = pc[y] /\ calls'[y] = calls[y] /\ scopes'[y] = scopes[y]
      /\ touched'[y] = touched[y] /\ emitted'[y] = emitted[y]
      /\ events'[y] = events[y] /\ persisted'[y] = persisted[y]
  BY DEF MemoryInv, MemoryTypes, PerExecution, Moves
<1>2. userId' = userId /\ UserOf(y)' = UserOf(y)
  BY DEF Moves, UserOf
<1>3. OwnStacks(y)' /\ (Collecting(y)' <=> Collecting(y))
  BY <1>1 DEF MemoryInv, OwnStacks, Collecting
<1>4. y \in Adds => userId[y] \in Creates
  BY DEF MemoryInv, MemoryTypes
<1>5. OwnWork(y)'
  <2>1. OwnWork(y)
    BY DEF MemoryInv
  <2>2. UserOf(y) \in users => UserOf(y) \in users'
    BY DEF Moves
  <2>3. y \in Adds /\ y \in addresses[userId[y]] => y \in addresses'[userId[y]]
    BY <1>4 DEF Moves
  <2> QED
    BY <1>1, <1>2, <2>1, <2>2, <2>3 DEF OwnWork
<1> QED
  BY <1>2, <1>3, <1>5

(* A step that emits and drains nothing, of an execution that has nothing  *)
(* to drain before or after it, leaves the instances as they are.          *)
LEMMA NobodyCollects ==
  ASSUME MemoryInv, NEW x \in Executions, Moves(x), UNCHANGED <<tracked, domainEvents>>,
         ~Collecting(x), ~Collecting(x)',
         turn \in {x, EventLoop} \/ UNCHANGED turn
  PROVE  OneCollects'
<1>1. \A y \in Executions : (Collecting(y)' <=> Collecting(y)) /\ (Collecting(y) => y # x)
  BY OthersStay
<1>2. \A y \in Executions : UserOf(y)' = UserOf(y)
  BY DEF Moves, UserOf
<1>3. \A y \in Executions : Collecting(y) => turn' = y
  BY <1>1, NamesAssumption DEF MemoryInv, OneCollects
<1> QED
  BY <1>1, <1>2, <1>3 DEF MemoryInv, OneCollects

(* The types after a step of x.                                            *)
LEMMA TypesStay ==
  ASSUME MemoryInv, NEW x \in Executions, Moves(x),
         pc'[x] \in App!Phases, tracked' \in [Creates -> BOOLEAN],
         DOMAIN domainEvents' = Creates, users' \subseteq Creates,
         turn' \in {x, EventLoop}
  PROVE  MemoryTypes'
<1>1. MemoryTypes
  BY DEF MemoryInv
<1>2. pc' \in [Executions -> App!Phases]
  BY <1>1 DEF MemoryTypes, PerExecution, Moves
<1> QED
  BY <1>1, <1>2 DEF MemoryTypes, PerExecution, Moves

(* So the invariant is kept if the step keeps what is x's own.             *)
LEMMA QuietKeeps ==
  ASSUME MemoryInv, NEW x \in Executions, Moves(x),
         pc'[x] \in App!Phases, UNCHANGED <<tracked, domainEvents>>,
         users' \subseteq Creates, turn \in {x, EventLoop}, turn' \in {x, EventLoop},
         ~Collecting(x), ~Collecting(x)', OwnStacks(x)', OwnWork(x)'
  PROVE  MemoryInv'
<1>1. MemoryTypes'
  <2>1. tracked' \in [Creates -> BOOLEAN] /\ DOMAIN domainEvents' = Creates
    BY DEF MemoryInv, MemoryTypes
  <2> QED
    BY <2>1, TypesStay
<1>2. OneCollects'
  BY NobodyCollects
<1>3. \A y \in Executions : OwnStacks(y)' /\ OwnWork(y)'
  BY OthersStay
<1> QED
  BY <1>1, <1>2, <1>3 DEF MemoryInv

-----------------------------------------------------------------------------
(* The steps.                                                              *)

(* begin opens the scope of the context (TrackedUnitOfWork.ts:8-11).       *)
LEMMA BeginKeeps ==
  ASSUME MemoryInv, NEW x \in Executions, Begin(x)
  PROVE  MemoryInv'
<1>1. MemoryTypes /\ OwnStacks(x) /\ OwnWork(x)
  BY DEF MemoryInv
<1>2. /\ pc[x] = "idle" /\ pc' = [pc EXCEPT ![x] = "useCase"]
      /\ calls' = [calls EXCEPT ![x] = Append(@, x)]
      /\ scopes' = [scopes EXCEPT ![x] = App!BeginScope(@)]
      /\ UNCHANGED <<tracked, domainEvents, touched, emitted, events, persisted>>
      /\ UNCHANGED <<users, addresses, userId>>
      /\ turn = EventLoop /\ turn' = x
  BY DEF Begin, App!Begin, App!Goto, App!sourceVars, App!outputVars
<1>3. calls[x] = <<>> /\ scopes[x] = <<>> /\ emitted[x] = {} /\ touched[x] = {}
  BY <1>1, <1>2 DEF OwnStacks, OwnWork
<1>4. pc'[x] = "useCase" /\ calls'[x] = <<x>> /\ scopes'[x] = <<{}>>
  BY <1>1, <1>2, <1>3, OneScope DEF MemoryTypes, PerExecution
<1>5. Moves(x)
  BY <1>1, <1>2 DEF Moves, MemoryTypes, PerExecution
<1>6. OwnStacks(x)'
  BY <1>2, <1>3, <1>4 DEF OwnStacks, HasScope
<1>7. OwnWork(x)'
  BY <1>1, <1>2, <1>3, <1>4 DEF OwnWork, UserOf, AfterUseCase
<1>8. ~Collecting(x) /\ ~Collecting(x)'
  BY <1>2, <1>3 DEF Collecting
<1>9. pc'[x] \in App!Phases /\ users' \subseteq Creates
  BY <1>1, <1>2, <1>4 DEF App!Phases, MemoryTypes
<1> QED
  BY <1>2, <1>5, <1>6, <1>7, <1>8, <1>9, QuietKeeps

(* A use case emits once, on an instance that nobody else has a pending    *)
(* event on (AggregateRoot.ts:21-31).                                      *)
LEMMA EmitKeeps ==
  ASSUME MemoryInv, NEW x \in Executions, turn \in {x, EventLoop}, turn' = x,
         emitted[x] = {}, App!Emit(x, x, UserOf(x), x), UNCHANGED <<users, userId>>,
         DOMAIN addresses' = Creates,
         \A u \in Creates : addresses[u] \subseteq addresses'[u],
         x \in Adds => x \in addresses'[userId[x]]
  PROVE  MemoryInv'
<1> DEFINE u == UserOf(x)
<1>1. MemoryTypes /\ OwnStacks(x) /\ OwnWork(x) /\ OneCollects
  BY DEF MemoryInv
<1>2. u \in Creates /\ UserOf(x)' = u
  BY <1>1 DEF MemoryTypes, UserOf, Executions
<1> HIDE DEF u
<1>3. \A y \in Executions : ~Collecting(y)
  BY <1>1, NamesAssumption DEF OneCollects, Collecting
<1>4. /\ \A v \in Creates : tracked[v] = FALSE
      /\ \A v \in Creates : domainEvents[v] = {}
  BY <1>1, <1>3 DEF OneCollects, MemoryTypes
<1>5. /\ pc[x] = "useCase"
      /\ domainEvents' = [domainEvents EXCEPT ![u] = @ \cup {x}]
      /\ tracked' = [tracked EXCEPT ![u] = TRUE]
      /\ scopes' = [scopes EXCEPT ![x] = App!TrackIn(@, u)]
      /\ touched' = [touched EXCEPT ![x] = @ \cup {u}]
      /\ emitted' = [emitted EXCEPT ![x] = @ \cup {x}]
      /\ UNCHANGED <<pc, calls, events, persisted>>
  BY <1>2, <1>4 DEF App!Emit, App!outputVars, u
<1>6. touched[x] = {} /\ scopes[x] = <<touched[x]>> /\ events[x] \subseteq emitted[x]
  BY <1>1, <1>5 DEF OwnStacks, OwnWork, HasScope
<1>7. scopes'[x] = <<{u}>> /\ touched'[x] = {u} /\ emitted'[x] = {x}
  <2>1. App!TrackIn(<<{}>>, u) = <<{} \cup {u}>>
    BY OneScope
  <2>2. {} \cup {u} = {u} /\ {} \cup {x} = {x}
    OBVIOUS
  <2>3. App!TrackIn(scopes[x], u) = <<{u}>>
    BY <1>6, <2>1, <2>2
  <2>4. touched[x] \cup {u} = {u} /\ emitted[x] \cup {x} = {x}
    BY <1>6
  <2> QED
    BY <1>1, <1>5, <2>3, <2>4 DEF MemoryTypes, PerExecution
<1>8. Moves(x)
  BY <1>1, <1>5 DEF Moves, MemoryTypes, PerExecution
<1>9. OwnStacks(x)'
  BY <1>1, <1>5, <1>7 DEF OwnStacks, HasScope
<1>10. OwnWork(x)'
  BY <1>2, <1>5, <1>6, <1>7 DEF OwnWork, AfterUseCase
<1>11. OneCollects'
  <2>1. \A y \in Executions : Collecting(y)' <=> y = x
    BY <1>3, <1>5, <1>7, <1>8, OthersStay DEF Collecting
  <2>2. domainEvents'[u] = {x}
    BY <1>1, <1>2, <1>4, <1>5 DEF MemoryTypes
  <2>3. \A v \in Creates : tracked'[v] \/ domainEvents'[v] # {} => v = u
    BY <1>1, <1>4, <1>5 DEF MemoryTypes
  <2> QED
    BY <1>2, <2>1, <2>2, <2>3 DEF OneCollects
<1>12. MemoryTypes'
  BY <1>1, <1>2, <1>5, <1>8, TypesStay DEF MemoryTypes
<1> QED
  BY <1>8, <1>9, <1>10, <1>11, <1>12, OthersStay DEF MemoryInv

(* The drain of an execution takes what it emitted, all of it and nothing  *)
(* else (ApplicationService.ts:34-37, AggregateRoot.ts:34-39).             *)
LEMMA DrainKeeps ==
  ASSUME MemoryInv, NEW x \in Executions, Runs(x), emitted[x] # {},
         App!UseCaseReturns(x, x), UNCHANGED <<users, addresses, userId>>
  PROVE  MemoryInv'
<1> DEFINE u == UserOf(x)
<1>1. MemoryTypes /\ OwnStacks(x) /\ OwnWork(x) /\ OneCollects
  BY DEF MemoryInv
<1>2. u \in Creates /\ UserOf(x)' = u
  BY <1>1 DEF MemoryTypes, UserOf, Executions
<1>3. pc[x] = "useCase" /\ emitted[x] = {x}
  BY <1>1 DEF App!UseCaseReturns, App!At, OwnWork
<1>4. touched[x] = {u} /\ scopes[x] = <<{u}>> /\ domainEvents[u] = {x} /\ turn = x
  BY <1>1, <1>3 DEF OwnStacks, OwnWork, HasScope, OneCollects, Collecting
<1> HIDE DEF u
<1>5. App!PeekScope(scopes[x]) = {u}
  BY <1>4, OneScope
<1>6. UNION {domainEvents[s] : s \in {u}} = {x}
  BY <1>4
<1>7. /\ pc' = [pc EXCEPT ![x] = "dispatch"]
      /\ App!DrainDomainEvents({u})
      /\ events' = [events EXCEPT ![x] = {x}]
      /\ UNCHANGED <<calls, scopes, touched, emitted, persisted>>
  BY <1>5, <1>6 DEF App!UseCaseReturns, App!Goto, App!outputVars
<1>8. /\ domainEvents' = [s \in Creates |-> IF s \in {u} THEN {} ELSE domainEvents[s]]
      /\ tracked' = [s \in Creates |-> s \notin {u} /\ tracked[s]]
  BY <1>7 DEF App!DrainDomainEvents, App!Sources
<1>9. pc'[x] = "dispatch" /\ events'[x] = {x} /\ turn' = x
  BY <1>1, <1>7 DEF MemoryTypes, PerExecution, Runs
<1>10. Moves(x)
  BY <1>1, <1>7 DEF Moves, MemoryTypes, PerExecution
<1>11. OwnStacks(x)'
  BY <1>1, <1>3, <1>4, <1>7, <1>9 DEF OwnStacks, HasScope
<1>12. OwnWork(x)'
  BY <1>1, <1>2, <1>3, <1>4, <1>7, <1>9 DEF OwnWork, AfterUseCase
<1>13. OneCollects'
  <2>1. \A y \in Executions : Collecting(y) => y = x
    BY <1>1, <1>4 DEF OneCollects
  <2>2. \A y \in Executions : ~Collecting(y)'
    BY <1>9, <1>10, <2>1, OthersStay DEF Collecting
  <2>3. \A v \in Creates : tracked[v] \/ domainEvents[v] # {} => v = u
    BY <1>1, <2>1 DEF OneCollects, u
  <2>4. \A v \in Creates : ~tracked'[v] /\ domainEvents'[v] = {}
    BY <1>8, <2>3
  <2> QED
    BY <2>2, <2>4 DEF OneCollects
<1>14. MemoryTypes'
  <2>1. tracked' \in [Creates -> BOOLEAN] /\ DOMAIN domainEvents' = Creates
    BY <1>8, <1>1 DEF MemoryTypes
  <2>2. pc'[x] \in App!Phases
    BY <1>9 DEF App!Phases, App!Delivering
  <2> QED
    BY <1>1, <1>9, <1>10, <2>1, <2>2, TypesStay DEF MemoryTypes
<1> QED
  BY <1>10, <1>11, <1>12, <1>13, <1>14, OthersStay DEF MemoryInv

(* An execution that is delivering, or has nothing to deliver, goes on in  *)
(* the scope it has.                                                       *)
LEMMA PhaseKeeps ==
  ASSUME MemoryInv, NEW x \in Executions, ~Collecting(x),
         turn \in {x, EventLoop}, turn' \in {x, EventLoop},
         UNCHANGED <<calls, scopes, tracked, domainEvents, touched, emitted, events, persisted>>,
         UNCHANGED <<users, addresses, userId>>,
         pc[x] \in HasScope \cup {"flush"},
         \/ UNCHANGED pc
         \/ pc' = [pc EXCEPT ![x] = "rollback"]
         \/ \E next \in {"publish", "store", "commit"} :
              pc[x] \in AfterUseCase \ {"flush"} /\ pc' = [pc EXCEPT ![x] = next]
  PROVE  MemoryInv'
<1>1. MemoryTypes /\ OwnStacks(x) /\ OwnWork(x)
  BY DEF MemoryInv
<1>2. \/ pc'[x] = pc[x]
      \/ pc'[x] = "rollback"
      \/ pc[x] \in AfterUseCase \ {"flush"} /\ pc'[x] \in {"publish", "store", "commit"}
  BY <1>1 DEF MemoryTypes
<1>3. Moves(x)
  BY <1>1 DEF Moves, MemoryTypes, PerExecution
<1>4. OwnStacks(x)'
  BY <1>1, <1>2 DEF OwnStacks, HasScope, AfterUseCase
<1>5. OwnWork(x)'
  BY <1>1, <1>2 DEF OwnWork, UserOf, HasScope, AfterUseCase
<1>6. ~Collecting(x)'
  BY <1>2 DEF Collecting, AfterUseCase
<1>7. pc'[x] \in App!Phases /\ users' \subseteq Creates
  BY <1>1, <1>2 DEF App!Phases, App!Delivering, MemoryTypes
<1> QED
  BY <1>3, <1>4, <1>5, <1>6, <1>7, QuietKeeps

(* An event in flight: the loops, the store, a handler or a use case that  *)
(* throws (ApplicationService.ts:33-43).                                   *)
LEMMA RunKeeps ==
  ASSUME MemoryInv, NEW x \in Executions,
         \/ Reject(x) \/ HandlerThrows(x) \/ HandlerWaits(x)
         \/ /\ Runs(x) /\ UNCHANGED <<users, addresses, email, userId, waiting>>
            /\ \/ \E e \in Executions : App!DispatchEvent(x, x, e) \/ App!PublishEvent(x, x, e)
               \/ App!DispatchDone(x, x) \/ App!PublishDone(x, x) \/ App!SaveAll(x, x)
  PROVE  MemoryInv'
<1> USE DEF App!sourceVars, App!outputVars, App!At, App!Goto, App!Delivering
<1>1. /\ turn \in {x, EventLoop} /\ turn' \in {x, EventLoop}
      /\ UNCHANGED <<users, addresses, userId>>
  BY DEF Reject, HandlerThrows, HandlerWaits, Runs
<1>2. CASE Reject(x)
  <2>1. pc[x] = "useCase" /\ ~Collecting(x) /\ pc' = [pc EXCEPT ![x] = "rollback"]
    BY <1>2 DEF Reject, App!UseCaseThrows, Collecting
  <2>2. UNCHANGED <<calls, scopes, tracked, domainEvents, touched, emitted, events, persisted>>
    BY <1>2 DEF Reject, App!UseCaseThrows
  <2> QED
    BY <1>1, <2>1, <2>2, PhaseKeeps DEF HasScope
<1>3. CASE HandlerThrows(x)
  <2>1. pc[x] \in {"dispatch", "publish"} /\ pc' = [pc EXCEPT ![x] = "rollback"]
    BY <1>3 DEF HandlerThrows, App!HandlerThrows, App!InHandler
  <2>2. UNCHANGED <<calls, scopes, tracked, domainEvents, touched, emitted, events, persisted>>
    BY <1>3 DEF HandlerThrows, App!HandlerThrows
  <2> QED
    BY <1>1, <2>1, <2>2, PhaseKeeps DEF HasScope, Collecting
<1>4. CASE HandlerWaits(x)
  <2>1. pc[x] \in {"dispatch", "publish"} /\ UNCHANGED pc
    BY <1>4 DEF HandlerWaits, App!InHandler, appVars
  <2>2. UNCHANGED <<calls, scopes, tracked, domainEvents, touched, emitted, events, persisted>>
    BY <1>4 DEF HandlerWaits, appVars
  <2> QED
    BY <1>1, <2>1, <2>2, PhaseKeeps DEF HasScope, Collecting
<1>5. CASE \E e \in Executions : App!DispatchEvent(x, x, e) \/ App!PublishEvent(x, x, e)
  <2>1. pc[x] \in {"dispatch", "publish"} /\ UNCHANGED pc
    BY <1>5 DEF App!DispatchEvent, App!PublishEvent
  <2>2. UNCHANGED <<calls, scopes, tracked, domainEvents, touched, emitted, events, persisted>>
    BY <1>5 DEF App!DispatchEvent, App!PublishEvent
  <2> QED
    BY <1>1, <2>1, <2>2, PhaseKeeps DEF HasScope, Collecting
<1>6. CASE App!DispatchDone(x, x) \/ App!PublishDone(x, x) \/ App!SaveAll(x, x)
  <2>1. /\ pc[x] \in {"dispatch", "publish", "store"}
        /\ \E next \in {"publish", "store", "commit"} : pc' = [pc EXCEPT ![x] = next]
    BY <1>6 DEF App!DispatchDone, App!PublishDone, App!SaveAll
  <2>2. UNCHANGED <<calls, scopes, tracked, domainEvents, touched, emitted, events, persisted>>
    BY <1>6 DEF App!DispatchDone, App!PublishDone, App!SaveAll
  <2> QED
    BY <1>1, <2>1, <2>2, PhaseKeeps DEF HasScope, AfterUseCase, Collecting
<1> QED
  BY <1>2, <1>3, <1>4, <1>5, <1>6

(* Nobody collects while a handler waits.                                  *)
LEMMA ResumeKeeps ==
  ASSUME MemoryInv, NEW x \in Executions, HandlerResumes(x)
  PROVE  MemoryInv'
<1>1. turn = EventLoop /\ turn' = x /\ UNCHANGED <<appVars, users, addresses, userId>>
  BY DEF HandlerResumes
<1>2. \A y \in Executions : ~Collecting(y)
  BY <1>1, NamesAssumption DEF MemoryInv, OneCollects
<1>3. MemoryTypes'
  BY <1>1 DEF MemoryInv, MemoryTypes, PerExecution, appVars
<1>4. OneCollects'
  BY <1>1, <1>2 DEF MemoryInv, OneCollects, Collecting, UserOf, appVars
<1>5. \A y \in Executions : OwnStacks(y)' /\ OwnWork(y)'
  BY <1>1 DEF MemoryInv, OwnStacks, OwnWork, UserOf, appVars
<1> QED
  BY <1>3, <1>4, <1>5 DEF MemoryInv

(* onCommit puts the user that was touched in the map                      *)
(* (InMemoryUnitOfWork.ts:22-33).                                          *)
LEMMA CommitKeeps ==
  ASSUME MemoryInv, NEW x \in Executions, Commit(x)
  PROVE  MemoryInv'
<1>1. MemoryTypes /\ OwnStacks(x) /\ OwnWork(x)
  BY DEF MemoryInv
<1>2. /\ pc[x] = "commit" /\ pc' = [pc EXCEPT ![x] = "flush"]
      /\ persisted' = [persisted EXCEPT ![x] = App!PeekScope(scopes[x]) \cap Creates]
      /\ scopes' = [scopes EXCEPT ![x] = App!Pop(@)]
      /\ UNCHANGED <<calls, tracked, domainEvents, touched, emitted, events>>
      /\ UNCHANGED <<addresses, userId>>
      /\ users' = users \cup persisted'[x]
      /\ turn \in {x, EventLoop} /\ turn' = x
  BY DEF Commit, SaveTracked, Runs, App!Commit, App!At, App!Goto, App!DrainScope,
         App!DrainedSources, App!sourceVars
<1>3. UserOf(x) \in Creates /\ UserOf(x)' = UserOf(x)
  BY <1>1, <1>2 DEF MemoryTypes, UserOf, Executions
<1>4. touched[x] = {UserOf(x)} /\ scopes[x] = <<touched[x]>>
  BY <1>1, <1>2 DEF OwnStacks, OwnWork, HasScope, AfterUseCase
<1>5. App!PeekScope(scopes[x]) = touched[x] /\ App!Pop(scopes[x]) = <<>>
  BY <1>4, OneScope
<1>6. persisted'[x] = touched[x] /\ scopes'[x] = <<>> /\ pc'[x] = "flush"
  BY <1>1, <1>2, <1>3, <1>4, <1>5 DEF MemoryTypes, PerExecution
<1>7. Moves(x)
  BY <1>1, <1>2 DEF Moves, MemoryTypes, PerExecution
<1>8. OwnStacks(x)'
  BY <1>1, <1>2, <1>6 DEF OwnStacks, HasScope
<1>9. OwnWork(x)'
  BY <1>1, <1>2, <1>3, <1>4, <1>6 DEF OwnWork, AfterUseCase
<1>10. ~Collecting(x) /\ ~Collecting(x)'
  BY <1>2, <1>6 DEF Collecting
<1>11. pc'[x] \in App!Phases /\ users' \subseteq Creates
  BY <1>1, <1>2, <1>3, <1>4, <1>6 DEF App!Phases, MemoryTypes
<1> QED
  BY <1>2, <1>7, <1>8, <1>9, <1>10, <1>11, QuietKeeps

(* An execution leaves its context empty, returned or failed               *)
(* (ApplicationService.ts:45-51).                                          *)
LEMMA LeaveKeeps ==
  ASSUME MemoryInv, NEW x \in Executions, CommitReturns(x) \/ Rollback(x)
  PROVE  MemoryInv'
<1>1. MemoryTypes /\ OwnStacks(x) /\ OwnWork(x)
  BY DEF MemoryInv
<1>2. /\ turn \in {x, EventLoop} /\ turn' = EventLoop
      /\ calls' = [calls EXCEPT ![x] = App!Pop(@)]
      /\ UNCHANGED <<tracked, domainEvents, touched, emitted, events, persisted>>
      /\ UNCHANGED <<users, addresses, userId>>
  BY DEF CommitReturns, Rollback, App!CommitReturns, App!Rollback, App!sourceVars,
         App!outputVars
<1>3. pc[x] \in {"flush", "rollback"}
  BY DEF CommitReturns, Rollback, App!CommitReturns, App!Rollback, App!At
<1>4. calls[x] = <<x>> /\ App!Pop(calls[x]) = <<>> /\ App!Pop(<<>>) = <<>>
  BY <1>1, <1>3, OneScope DEF OwnStacks
<1>5. calls'[x] = <<>>
  BY <1>1, <1>2, <1>4 DEF MemoryTypes, PerExecution
<1>6. /\ pc' = [pc EXCEPT ![x] = pc'[x]]
      /\ scopes' = [scopes EXCEPT ![x] = scopes'[x]]
      /\ scopes'[x] = <<>>
      /\ \/ pc[x] = "flush" /\ pc'[x] = "returned"
         \/ pc'[x] = "threw"
  <2>1. CASE CommitReturns(x)
    <3>1. pc[x] = "flush" /\ pc' = [pc EXCEPT ![x] = "returned"] /\ UNCHANGED scopes
      BY <2>1 DEF CommitReturns, App!CommitReturns, App!At, App!Goto
    <3>2. scopes[x] = <<>>
      BY <1>1, <3>1 DEF OwnStacks
    <3> QED
      BY <1>1, <3>1, <3>2 DEF MemoryTypes, PerExecution
  <2>2. CASE Rollback(x)
    <3>1. /\ pc[x] = "rollback" /\ App!Rethrow(x, x)
          /\ scopes' = [scopes EXCEPT ![x] = App!Pop(@)]
      BY <2>2 DEF Rollback, App!Rollback, App!At, App!ClearScope
    <3>2. pc' = [pc EXCEPT ![x] = "threw"]
      BY <1>4, <3>1 DEF App!Rethrow, App!Goto
    <3>3. App!Pop(scopes[x]) = <<>>
      BY <1>1, <3>1, OneScope DEF OwnStacks
    <3> QED
      BY <1>1, <3>1, <3>2, <3>3 DEF MemoryTypes, PerExecution
  <2> QED
    BY <2>1, <2>2
<1>7. Moves(x)
  BY <1>1, <1>2, <1>6 DEF Moves, MemoryTypes, PerExecution
<1>8. OwnStacks(x)'
  BY <1>5, <1>6 DEF OwnStacks, HasScope
<1>9. OwnWork(x)'
  BY <1>1, <1>2, <1>6 DEF OwnWork, UserOf, AfterUseCase
<1>10. ~Collecting(x) /\ ~Collecting(x)'
  BY <1>3, <1>6 DEF Collecting
<1>11. pc'[x] \in App!Phases /\ users' \subseteq Creates
  BY <1>1, <1>2, <1>6 DEF App!Phases, App!Ended, MemoryTypes
<1> QED
  BY <1>2, <1>7, <1>8, <1>9, <1>10, <1>11, QuietKeeps

(* The two use cases emit on the instance they made or loaded.             *)
LEMMA UseCasesKeep ==
  ASSUME MemoryInv, NEW x \in Executions,
         \/ x \in Creates /\ CreateUser(x)
         \/ x \in Adds /\ AddAddress(x)
  PROVE  MemoryInv'
<1>1. /\ DOMAIN addresses = Creates
      /\ userId \in [Adds -> Creates]
  BY DEF MemoryInv, MemoryTypes
<1>2. CASE x \in Creates /\ CreateUser(x)
  <2>1. UserOf(x) = x /\ x \notin Adds
    BY <1>2, NamesAssumption DEF UserOf
  <2>2. /\ turn \in {x, EventLoop} /\ turn' = x /\ emitted[x] = {}
        /\ App!Emit(x, x, UserOf(x), x)
        /\ UNCHANGED <<users, userId, addresses>>
    BY <1>2, <2>1 DEF CreateUser, Runs
  <2> QED
    BY <1>1, <2>1, <2>2, EmitKeeps
<1>3. CASE x \in Adds /\ AddAddress(x)
  <2>1. UserOf(x) = userId[x] /\ userId[x] \in Creates
    BY <1>1, <1>3, NamesAssumption DEF UserOf
  <2>2. /\ turn \in {x, EventLoop} /\ turn' = x /\ emitted[x] = {}
        /\ App!Emit(x, x, UserOf(x), x)
        /\ addresses' = [addresses EXCEPT ![userId[x]] = @ \cup {x}]
        /\ UNCHANGED <<users, userId>>
    BY <1>3, <2>1 DEF AddAddress, Runs
  <2>3. /\ DOMAIN addresses' = Creates /\ x \in addresses'[userId[x]]
        /\ \A u \in Creates : addresses[u] \subseteq addresses'[u]
    BY <1>1, <2>1, <2>2
  <2> QED
    BY <2>2, <2>3, EmitKeeps
<1> QED
  BY <1>2, <1>3

LEMMA MemoryStep == MemoryInv /\ [Next]_vars => MemoryInv'
<1> SUFFICES ASSUME MemoryInv, [Next]_vars
             PROVE  MemoryInv'
  OBVIOUS
<1>1. ASSUME NEW x \in Executions, Deliver(x)
      PROVE  MemoryInv'
  <2>1. CASE emitted[x] # {} /\ App!UseCaseReturns(x, x)
    BY <1>1, <2>1, DrainKeeps DEF Deliver
  <2> QED
    BY <1>1, <2>1, RunKeeps DEF Deliver
<1>2. ASSUME NEW x \in Executions, Step(x)
      PROVE  MemoryInv'
  BY <1>1, <1>2, BeginKeeps, RunKeeps, ResumeKeeps, CommitKeeps, LeaveKeeps DEF Step
<1>3. CASE \E r \in Creates : CreateUser(r)
  BY <1>3, UseCasesKeep DEF Executions
<1>4. CASE \E a \in Adds : AddAddress(a)
  BY <1>4, UseCasesKeep DEF Executions
<1>5. CASE UNCHANGED vars
  <2>1. MemoryTypes'
    BY <1>5 DEF MemoryInv, MemoryTypes, PerExecution, vars, appVars
  <2>2. OneCollects'
    BY <1>5 DEF MemoryInv, OneCollects, Collecting, UserOf, vars, appVars
  <2>3. \A y \in Executions : OwnStacks(y)' /\ OwnWork(y)'
    BY <1>5 DEF MemoryInv, OwnStacks, OwnWork, UserOf, vars, appVars
  <2> QED
    BY <2>1, <2>2, <2>3 DEF MemoryInv
<1> QED
  BY <1>2, <1>3, <1>4, <1>5 DEF Next, Finished

LEMMA MemoryInit == Init => MemoryInv
<1> SUFFICES ASSUME Init
             PROVE  MemoryInv
  OBVIOUS
<1>1. MemoryTypes
  BY DEF Init, App!Init, App!Phases, App!Sources, MemoryTypes, PerExecution
<1>2. \A x \in Executions : OwnStacks(x)
  BY DEF Init, App!Init, OwnStacks, HasScope
<1>3. \A x \in Executions : OwnWork(x)
  BY DEF Init, App!Init, OwnWork, AfterUseCase
<1>4. OneCollects
  BY DEF Init, App!Init, App!Sources, OneCollects, Collecting
<1> QED
  BY <1>1, <1>2, <1>3, <1>4 DEF MemoryInv

-----------------------------------------------------------------------------

LEMMA MemoryInvariant == Spec => []MemoryInv
BY MemoryInit, MemoryStep, PTL DEF Spec

(* Executions that hold one instance of a user at a time deliver their own *)
(* events, all of them, and hand over what they touched: nothing that      *)
(* another wrote into the shared list or the shared flag comes in between  *)
(* (AggregateRoot.ts:21-39, InMemoryUserRepository.ts:13).                 *)
THEOREM SharedInstancesKeepApart == Spec => []OwnEventsOnly
<1>1. MemoryInv => OwnEventsOnly
  BY DEF MemoryInv, OwnWork, AfterUseCase, OwnEventsOnly
<1> QED
  BY <1>1, MemoryInvariant, PTL

(* What an execution that returned has done is on the user the repository  *)
(* gives out, whatever waited, failed or committed in between              *)
(* (InMemoryUnitOfWork.ts:22-33, InMemoryUserRepository.ts:8-10).          *)
THEOREM ReturnedStays == Spec => []ReturnedIsKept
<1>1. ASSUME MemoryInv
      PROVE  ReturnedIsKept
  <2>1. ASSUME NEW x \in Executions, pc[x] = "returned"
        PROVE  emitted[x] = {x} /\ UserOf(x) \in users
    BY <1>1, <2>1 DEF MemoryInv, OwnWork, AfterUseCase
  <2>2. \A r \in Creates : UserOf(r) = r /\ r \in Executions
    BY DEF UserOf, Executions
  <2>3. \A a \in Adds : UserOf(a) = userId[a] /\ a \in Executions
    BY NamesAssumption DEF UserOf, Executions
  <2>4. \A a \in Adds : emitted[a] = {a} => a \in addresses[userId[a]]
    BY <1>1, <2>3 DEF MemoryInv, OwnWork
  <2> QED
    BY <2>1, <2>2, <2>3, <2>4 DEF ReturnedIsKept
<1> QED
  BY <1>1, MemoryInvariant, PTL
=============================================================================
