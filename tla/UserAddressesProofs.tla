------------------------- MODULE UserAddressesProofs -------------------------
(***************************************************************************)
(* Theorems about UserAddresses for any number of POST and GET requests,   *)
(* users, bodies and faults.                                               *)
(*                                                                         *)
(* The composition runs ApplicationService, one execution per POST, and    *)
(* MikroOrm, so what is proved about those modules holds here; Service and *)
(* OrmFacts name their theorems.                                           *)
(***************************************************************************)
EXTENDS UserAddresses, SequenceTheorems, TLAPS

Service ==
  INSTANCE ApplicationServiceProofs WITH
    Contexts <- Adds, Exec <- Adds, Aggregates <- Adds, Adapters <- {},
    Events <- Adds, Retained <- {},
    EmittingPhases <- {"useCase"}, CatchingSubscribers <- FALSE

OrmFacts == INSTANCE MikroOrmProofs WITH Executions <- Adds

(* What ApplicationService assumes of its constants.                       *)
LEMMA ServiceAssumptions ==
  Service!SourcesAssumption /\ Service!EmittingAssumption /\ Service!CatchingAssumption
BY DEF Service!SourcesAssumption, Service!EmittingAssumption, Service!CatchingAssumption,
       Service!Sources

-----------------------------------------------------------------------------
(* The composition runs ApplicationService.                                *)

(* What a request does to the state of ApplicationService is a step of it. *)
LEMMA ServiceSteps ==
  ASSUME NEW r, NEW x
  PROVE  /\ App!Begin(r, x) => Service!Begin(r, x)
         /\ App!UseCaseReturns(r, x) => Service!UseCaseReturns(r, x)
         /\ App!UseCaseThrows(r, x) => Service!UseCaseThrows(r, x)
         /\ App!DispatchDone(r, x) => Service!DispatchDone(r, x)
         /\ App!PublishDone(r, x) => Service!PublishDone(r, x)
         /\ App!SaveAll(r, x) => Service!SaveAll(r, x)
         /\ App!Commit(r, x) => Service!Commit(r, x)
         /\ App!CommitReturns(r, x) => Service!CommitReturns(r, x)
         /\ App!CommitThrows(r, x) => Service!CommitThrows(r, x)
         /\ App!Rollback(r, x) => Service!Rollback(r, x)
         /\ \A e : App!DispatchEvent(r, x, e) => Service!DispatchEvent(r, x, e)
         /\ \A e : App!PublishEvent(r, x, e) => Service!PublishEvent(r, x, e)
         /\ \A s, e : App!Emit(r, x, s, e) => Service!Emit(r, x, s, e)
<1> USE DEF App!Delivering, Service!Delivering, App!Ended, Service!Ended,
            App!Sources, Service!Sources, App!sourceVars, Service!sourceVars,
            App!outputVars, Service!outputVars, App!Innermost, Service!Innermost,
            App!Pop, Service!Pop, App!BeginScope, Service!BeginScope,
            App!TrackIn, Service!TrackIn, App!PeekScope, Service!PeekScope,
            App!DrainedSources, Service!DrainedSources, App!DrainScope, Service!DrainScope,
            App!ClearScope, Service!ClearScope, App!Running, Service!Running,
            App!At, Service!At, App!Goto, Service!Goto, App!InHandler, Service!InHandler,
            App!LoopDone, Service!LoopDone, App!Rethrow, Service!Rethrow,
            App!DrainDomainEvents, Service!DrainDomainEvents
<1>1. App!Begin(r, x) => Service!Begin(r, x)
  BY DEF App!Begin, Service!Begin
<1>2. /\ App!UseCaseReturns(r, x) => Service!UseCaseReturns(r, x)
      /\ App!UseCaseThrows(r, x) => Service!UseCaseThrows(r, x)
  BY DEF App!UseCaseReturns, Service!UseCaseReturns, App!UseCaseThrows, Service!UseCaseThrows
<1>3. /\ App!DispatchDone(r, x) => Service!DispatchDone(r, x)
      /\ App!PublishDone(r, x) => Service!PublishDone(r, x)
      /\ App!SaveAll(r, x) => Service!SaveAll(r, x)
  BY DEF App!DispatchDone, Service!DispatchDone, App!PublishDone, Service!PublishDone,
         App!SaveAll, Service!SaveAll
<1>4. /\ App!Commit(r, x) => Service!Commit(r, x)
      /\ App!CommitReturns(r, x) => Service!CommitReturns(r, x)
      /\ App!CommitThrows(r, x) => Service!CommitThrows(r, x)
      /\ App!Rollback(r, x) => Service!Rollback(r, x)
  BY DEF App!Commit, Service!Commit, App!CommitReturns, Service!CommitReturns,
         App!CommitThrows, Service!CommitThrows, App!Rollback, Service!Rollback
<1>5. /\ \A e : App!DispatchEvent(r, x, e) => Service!DispatchEvent(r, x, e)
      /\ \A e : App!PublishEvent(r, x, e) => Service!PublishEvent(r, x, e)
      /\ \A s, e : App!Emit(r, x, s, e) => Service!Emit(r, x, s, e)
  BY DEF App!DispatchEvent, Service!DispatchEvent, App!PublishEvent, Service!PublishEvent,
         App!Emit, Service!Emit
<1> QED
  BY <1>1, <1>2, <1>3, <1>4, <1>5

(* So is what it does to the EntityManagers a step of MikroOrm, of whose   *)
(* state both modules say the same.                                        *)
LEMMA OrmStates ==
  /\ Orm!EntityManagers = EntityManagers /\ OrmFacts!EntityManagers = EntityManagers
  /\ Orm!Init => OrmFacts!Init
  /\ Orm!TypeOK <=> OrmFacts!TypeOK
<1>1. Orm!EntityManagers = EntityManagers /\ OrmFacts!EntityManagers = EntityManagers
  BY DEF Orm!EntityManagers, OrmFacts!EntityManagers, EntityManagers
<1>2. Orm!Init => OrmFacts!Init
  BY <1>1 DEF Orm!Init, OrmFacts!Init
<1>3. Orm!TypeOK <=> OrmFacts!TypeOK
  BY <1>1 DEF Orm!TypeOK, OrmFacts!TypeOK
<1> QED
  BY <1>1, <1>2, <1>3

LEMMA OrmSteps ==
  ASSUME NEW x
  PROVE  /\ Orm!Clear => OrmFacts!Clear
         /\ Orm!Fork(x) => OrmFacts!Fork(x)
         /\ Orm!Persist(x) => OrmFacts!Persist(x)
         /\ Orm!Flush(x) => OrmFacts!Flush(x)
         /\ Orm!Returns(x) => OrmFacts!Returns(x)
         /\ Orm!Throws(x) => OrmFacts!Throws(x)
BY DEF Orm!Clear, OrmFacts!Clear, Orm!Fork, OrmFacts!Fork, Orm!Persist, OrmFacts!Persist,
       Orm!Flush, OrmFacts!Flush, Orm!Returns, OrmFacts!Returns, Orm!Throws, OrmFacts!Throws,
       Orm!flushVars, OrmFacts!flushVars, Orm!Forget, OrmFacts!Forget

LEMMA OrmServes ==
  ASSUME NEW em, Orm!Working(em), Orm!Written(em) \/ Orm!Refused(em)
  PROVE  OrmFacts!Served(em)
BY DEF Orm!Working, OrmFacts!Working, Orm!Written, OrmFacts!Written, Orm!Refused,
       OrmFacts!Refused, Orm!QueuedRefused, OrmFacts!QueuedRefused, Orm!RunnerRefused,
       OrmFacts!RunnerRefused, Orm!ServeNext, OrmFacts!ServeNext, Orm!Settling,
       OrmFacts!Settling, Orm!Forget, OrmFacts!Forget, OrmFacts!Served

(* What a step is: of a POST, its execution or its upsert, or of a GET.    *)
StepOf(a) == RejectBody(a) \/ Submit(a) \/ Proceed(a) \/ RunUpsert(a)
ReadOf(g) == GetUser(g) \/ GetAnswers(g)

(* Every step of the composition is one of ApplicationService, or leaves it*)
(* alone.                                                                  *)
LEMMA ServiceNext ==
  ASSUME [Next]_vars
  PROVE  [Service!Next]_(Service!vars)
<1> DEFINE Advances(a) ==
      \/ Service!UseCaseReturns(a, a) \/ Service!UseCaseThrows(a, a)
      \/ Service!DispatchEvent(a, a, a) \/ Service!PublishEvent(a, a, a)
      \/ Service!DispatchDone(a, a) \/ Service!PublishDone(a, a)
      \/ Service!SaveAll(a, a) \/ Service!Commit(a, a)
      \/ Service!CommitReturns(a, a) \/ Service!CommitThrows(a, a) \/ Service!Rollback(a, a)
<1>1. ASSUME NEW a \in Adds, Advances(a)
      PROVE  Service!Next
  BY <1>1 DEF Service!Next, Service!Advance
<1>2. ASSUME NEW a \in Adds, Service!Begin(a, a) \/ Service!Emit(a, a, a, a)
      PROVE  Service!Next
  BY <1>2 DEF Service!Next, Service!Sources
<1>3. ASSUME UNCHANGED appVars
      PROVE  UNCHANGED Service!vars
  BY <1>3 DEF appVars, Service!vars, Service!sourceVars, Service!outputVars
<1>4. ASSUME NEW a \in Adds, Deliver(a) \/ SaveAll(a) \/ Commit(a) \/ FlushReturns(a)
                             \/ FlushThrows(a) \/ Rollback(a) \/ NotFound(a)
      PROVE  Advances(a)
  BY <1>4, ServiceSteps
     DEF Deliver, SaveAll, Commit, FlushReturns, FlushThrows, Rollback, NotFound
<1> HIDE DEF Advances
<1>5. ASSUME NEW a \in Adds, Submit(a) \/ AddAddress(a)
      PROVE  Service!Next
  BY <1>2, <1>5, ServiceSteps DEF Submit, AddAddress
<1>6. ASSUME NEW a \in Adds, RejectBody(a) \/ FindById(a) \/ RunUpsert(a)
      PROVE  UNCHANGED Service!vars
  BY <1>3, <1>6 DEF RejectBody, FindById, RunUpsert
<1>7. ASSUME NEW g \in Gets, ReadOf(g)
      PROVE  UNCHANGED Service!vars
  BY <1>3, <1>7 DEF ReadOf, GetUser, GetAnswers
<1>8. CASE UNCHANGED vars
  BY <1>3, <1>8 DEF vars
<1>9. ASSUME NEW em \in EntityManagers, Serve(em)
      PROVE  UNCHANGED Service!vars
  BY <1>3, <1>9 DEF Serve, IssueCommit, TransactionCommits, TransactionFails, NothingToWrite
<1>10. ASSUME NEW a \in Adds, StepOf(a)
       PROVE  Service!Next \/ UNCHANGED Service!vars
  BY <1>1, <1>4, <1>5, <1>6, <1>10 DEF StepOf, Proceed
<1> QED
  BY <1>7, <1>8, <1>9, <1>10 DEF Next, Finished, StepOf, ReadOf

(* The POST requests are executions of ApplicationService, each with the   *)
(* user it loaded, and units of work (AddAddressController.ts:39,          *)
(* MikroOrmUnitOfWork.ts:20-48).                                           *)
THEOREM AddressesRunExecutions ==
  Spec => Service!Spec /\ []Service!OwnershipInv /\ Service!ImplementsUnitOfWork
<1>1. Init => Service!Init
  BY DEF Init, App!Init, Service!Init, App!Sources, Service!Sources
<1>2. ASSUME [Next]_vars
      PROVE  [Service!Next]_(Service!vars)
  BY <1>2, ServiceNext
<1>3. Spec => Service!Spec
  BY <1>1, <1>2, PTL DEF Spec, Service!Spec
<1>4. Service!Spec => []Service!OwnershipInv
  BY Service!ScopesBelongToCalls, ServiceAssumptions
<1>5. Service!Spec => Service!ImplementsUnitOfWork
  BY Service!UnitOfWorkImplemented, ServiceAssumptions
<1> QED
  BY <1>3, <1>4, <1>5, PTL

-----------------------------------------------------------------------------
(* The invariant.                                                          *)

(* A request is inside its own execution only, and gives the loop back     *)
(* while it waits for the lookup or the flush.                             *)
Inactive == {"idle", "returned", "threw"}
InOrder(a) ==
  /\ calls[a] = IF pc[a] \in Inactive THEN <<>> ELSE <<a>>
  /\ a \in turn => pc[a] \notin Inactive \cup {"flush"}
  /\ a \notin turn => pc[a] \in Inactive \cup {"useCase", "flush"}
  /\ a \notin turn /\ pc[a] = "useCase" => emitted[a] = {}

(* An execution has one user and one event, which goes from the use case   *)
(* by way of the user to the list of its events.                           *)
OwnEvent(a) ==
  /\ emitted[a] \subseteq {a} /\ touched[a] = emitted[a]
  /\ events[a] \subseteq emitted[a] /\ todo[a] \subseteq events[a]
  /\ pc[a] = "idle" => emitted[a] = {}
  /\ pc[a] \in {"idle", "useCase"} => domainEvents[a] = emitted[a]
  /\ pc[a] \in {"dispatch", "publish", "store", "commit", "flush", "returned"} => events[a] = {a}

(* Those at their flush are those that MikroOrm knows of. The event of an  *)
(* execution is pending in the EntityManager that its flush is going to    *)
(* take, and once it has returned it has been written, unless the          *)
(* EntityManager was made to forget it.                                    *)
FlushInv ==
  /\ OrmFacts!OrmInv
  /\ \A x \in Adds :
       /\ pc[x] = "flush" <=> x \in OrmFacts!Flushers
       /\ pc[x] = "commit" => x \in pending[entityManager] \cup OrmFacts!Done
       /\ pc[x] = "returned" => x \in OrmFacts!Done

(* A COMMIT is under way for somebody whose flush writes something.        *)
CommitsForSomebody ==
  committing # Nobody =>
    /\ committing \in EntityManagers
    /\ writer[committing] # Nobody /\ batch[committing] # {}

(* What was committed is written, or about to be.                          *)
Recorded(a) ==
  /\ response[a] = "created" => pc[a] = "returned"
  /\ pc[a] \in {"flush", "returned"} /\ up => a \in addresses \cup upserts
  /\ emitted[a] # {} => a \in instance[a]

(* What an EntityManager has loaded and what was shown are rows; they stay.*)
ReadsRows ==
  /\ identityMap \in [EntityManagers -> [Users -> (SUBSET Adds) \cup {NotLoaded}]]
  /\ \A em \in EntityManagers, u \in Users :
       identityMap[em][u] = NotLoaded \/ identityMap[em][u] \subseteq AddressesOf(u)
  /\ ShownIsStored

(* What the command accepts for a user that exists; nothing else comes to  *)
(* an upsert.                                                              *)
Acceptable == {a \in Adds : CommandOf(body[a]) /\ userId[a] \in users}
OnlyAcceptable ==
  /\ \A a \in Adds : pc[a] # "idle" => CommandOf(body[a])
  /\ \A a \in Adds : loaded[a] = "found" => userId[a] \in users
  /\ addresses \cup upserts \subseteq Acceptable
  /\ \A a \in Adds : instance[a] \subseteq Acceptable
  /\ OnlyMissingNumberExits

(* The first command replaces the EntityManager of MikroORM.init for good. *)
FirstFork == entityManager = OrmEm => \A a \in Adds : pc[a] = "idle"

Answered ==
  response \in [Requests -> {"none", "created", "invalid", "ok", "notFound", "error"}]

AddressesInv ==
  /\ TypeOK /\ Answered
  /\ \A a \in Adds : InOrder(a) /\ OwnEvent(a) /\ Recorded(a)
  /\ FlushInv /\ CommitsForSomebody /\ ReadsRows /\ OnlyAcceptable /\ FirstFork

(* The one call of a request.                                              *)
LEMMA OneCall ==
  ASSUME NEW a
  PROVE  /\ <<a>> # <<>> /\ Append(<<>>, a) = <<a>>
         /\ App!Innermost(<<a>>) = a /\ App!Pop(<<a>>) = <<>>
<1> DEFINE one == <<a>>
<1>1. Len(one) = 1 /\ one[1] = a /\ one # <<>> /\ Append(<<>>, a) = one
  OBVIOUS
<1>2. App!Pop(one) = <<>>
  BY DEF App!Pop, one
<1> HIDE DEF one
<1>3. App!Innermost(one) = a
  BY <1>1 DEF App!Innermost
<1> QED
  BY <1>1, <1>2, <1>3 DEF one

(* The types the steps need.                                               *)
LEMMA Typed ==
  ASSUME TypeOK
  PROVE  /\ pc \in [Adds -> App!Phases] /\ emitted \in [Adds -> SUBSET Adds]
         /\ calls \in [Adds -> Seq(Adds)]
         /\ todo \in [Adds -> SUBSET Adds] /\ touched \in [Adds -> SUBSET Adds]
         /\ events \in [Adds -> SUBSET Adds] /\ domainEvents \in [Adds -> SUBSET Adds]
         /\ entityManager \in EntityManagers /\ Adds \subseteq EntityManagers
         /\ body \in [Adds -> Forms] /\ userId \in [Requests -> Users]
         /\ loaded \in [Adds -> {"unknown", "found", "none", "failed"}]
         /\ instance \in [Adds -> SUBSET Adds] /\ turn \in SUBSET Adds
<1>1. /\ body \in [Adds -> Forms] /\ userId \in [Requests -> Users]
  <2>1. [body |-> body, userId |-> userId, users |-> users, databaseFails |-> databaseFails] \in
          [body : [Adds -> Forms], userId : [Requests -> Users],
           users : SUBSET Users, databaseFails : BOOLEAN]
    BY CasesAssumption DEF TypeOK
  <2> QED
    BY <2>1
<1> QED
  BY <1>1 DEF TypeOK, App!TypeOK, App!Sources, Orm!TypeOK, Orm!EntityManagers, EntityManagers

LEMMA AddressesInit ==
  ASSUME Init
  PROVE  AddressesInv
<1> USE DEF Init, App!Init
<1>0. OrmFacts!OrmInv /\ OrmFacts!Flushers = {}
  BY OrmStates, OrmFacts!OrmStarts, NamesAssumption
<1>1. TypeOK
  <2>1. App!TypeOK
    BY EmptySeq DEF App!TypeOK, App!Phases
  <2>2. [body |-> body, userId |-> userId, users |-> users, databaseFails |-> databaseFails]
          \in Cases
    <3>1. PICK case \in Cases :
            /\ body = case.body /\ userId = case.userId
            /\ users = case.users /\ databaseFails = case.databaseFails
      OBVIOUS
    <3>2. case \in [body : [Adds -> Forms], userId : [Requests -> Users],
                    users : SUBSET Users, databaseFails : BOOLEAN]
      BY CasesAssumption
    <3>3. case = [body |-> case.body, userId |-> case.userId, users |-> case.users,
                  databaseFails |-> case.databaseFails]
      BY <3>2
    <3> QED
      BY <3>1, <3>3
  <2>3. /\ \A a \in Adds : response[a] = "none"
        /\ \A g \in Gets : response[g] = "none"
    BY DEF Requests
  <2>4. \A em \in EntityManagers, u \in Users : identityMap[em][u] = NotLoaded
    OBVIOUS
  <2>5. through \in [Gets -> EntityManagers]
    BY DEF EntityManagers
  <2>6. Orm!TypeOK
    BY <1>0, OrmStates DEF OrmFacts!OrmInv
  <2> QED
    BY <2>1, <2>2, <2>3, <2>4, <2>5, <2>6 DEF TypeOK, EntityManagers
<1>2. Answered
  BY DEF Answered
<1>3. \A a \in Adds : InOrder(a) /\ OwnEvent(a) /\ Recorded(a)
  BY DEF InOrder, OwnEvent, Recorded, Inactive, App!Sources, Requests
<1>4. FlushInv /\ CommitsForSomebody
  BY <1>0 DEF FlushInv, CommitsForSomebody
<1>5. ReadsRows
  BY DEF ReadsRows, ShownIsStored, EntityManagers
<1>6. OnlyAcceptable
  BY DEF OnlyAcceptable, OnlyMissingNumberExits
<1>7. FirstFork
  BY DEF FirstFork
<1> QED
  BY <1>1, <1>2, <1>3, <1>4, <1>5, <1>6, <1>7 DEF AddressesInv

-----------------------------------------------------------------------------
(* The executions keep their part of the invariant.                        *)

(* What runs in the context of a request is its execution.                 *)
LEMMA WhoRuns ==
  ASSUME NEW a \in Adds, InOrder(a), App!Running(a, a)
  PROVE  pc[a] \notin Inactive /\ calls[a] = <<a>>
BY OneCall DEF InOrder, App!Running

(* Between saveAll and the flush a request runs.                           *)
LEMMA CommitsRun ==
  ASSUME AddressesInv, NEW a \in Adds, pc[a] = "commit"
  PROVE  a \in turn
BY DEF AddressesInv, InOrder, Inactive

(* A step of the request a does not change the others.                     *)
OthersRest(a) ==
  /\ turn' \ {a} = turn \ {a}
  /\ \A b \in Adds \ {a} :
       /\ pc'[b] = pc[b] /\ calls'[b] = calls[b]
       /\ emitted'[b] = emitted[b] /\ touched'[b] = touched[b]
       /\ events'[b] = events[b] /\ todo'[b] = todo[b] /\ domainEvents'[b] = domainEvents[b]
       /\ response'[b] = response[b] /\ instance'[b] = instance[b]
       /\ b \in addresses \cup upserts => b \in addresses' \cup upserts'
  /\ up' => up

ExecutionsKept == \A b \in Adds : InOrder(b)' /\ OwnEvent(b)' /\ Recorded(b)'

LEMMA OthersKept ==
  ASSUME AddressesInv, NEW a \in Adds, OthersRest(a),
         InOrder(a)', OwnEvent(a)', Recorded(a)'
  PROVE  ExecutionsKept
<1>1. SUFFICES ASSUME NEW b \in Adds, b # a
               PROVE  InOrder(b)' /\ OwnEvent(b)' /\ Recorded(b)'
  BY DEF ExecutionsKept
<1>2. b \in turn' <=> b \in turn
  BY <1>1 DEF OthersRest
<1>3. InOrder(b)'
  BY <1>1, <1>2 DEF AddressesInv, OthersRest, InOrder
<1>4. OwnEvent(b)'
  BY <1>1 DEF AddressesInv, OthersRest, OwnEvent
<1>5. Recorded(b)'
  BY <1>1 DEF AddressesInv, OthersRest, Recorded
<1> QED
  BY <1>3, <1>4, <1>5

(* A request that is refused, the lookup, the upsert.                      *)
LEMMA QuietKeeps ==
  ASSUME AddressesInv, NEW a \in Adds, RejectBody(a) \/ FindById(a) \/ RunUpsert(a)
  PROVE  ExecutionsKept
<1>0. InOrder(a) /\ OwnEvent(a) /\ Recorded(a) /\ TypeOK /\ Answered
      /\ a \notin turn /\ a \in Requests
  BY DEF AddressesInv, RejectBody, FindById, RunUpsert, InBackground, Quiet, Requests
<1>1. UNCHANGED <<appVars, turn>>
  BY DEF RejectBody, FindById, RunUpsert, InBackground
<1>2. UNCHANGED <<pc, calls, emitted, touched, events, todo, domainEvents>>
  BY <1>1 DEF appVars
<1>4. InOrder(a)' /\ OwnEvent(a)'
  BY <1>0, <1>1, <1>2 DEF InOrder, OwnEvent
<1>5. CASE RejectBody(a)
  <2>1. /\ \E status \in {"invalid", "error"} : response' = [response EXCEPT ![a] = status]
        /\ UNCHANGED <<tables, instance, up>>
    BY <1>5 DEF RejectBody, Respond, useCaseVars
  <2>2. OthersRest(a)
    BY <1>0, <1>1, <1>2, <2>1 DEF OthersRest, tables, Answered
  <2>3. Recorded(a)'
    BY <1>0, <1>2, <2>1 DEF Recorded, tables, Answered
  <2> QED
    BY <1>4, <2>2, <2>3, OthersKept
<1>6. CASE FindById(a)
  <2>1. /\ pc[a] = "useCase" /\ UNCHANGED <<tables, response, up>>
        /\ \E S : instance' = [instance EXCEPT ![a] = S] \/ instance' = instance
    BY <1>6 DEF FindById
  <2>2. OthersRest(a)
    BY <1>0, <1>1, <1>2, <2>1, Typed DEF OthersRest, tables
  <2>3. emitted'[a] = {}
    BY <1>0, <1>2, <2>1 DEF InOrder
  <2>4. Recorded(a)'
    BY <1>0, <1>2, <2>1, <2>3 DEF Recorded, tables
  <2> QED
    BY <1>4, <2>2, <2>4, OthersKept
<1>7. CASE RunUpsert(a)
  <2>1. /\ upserts' = upserts \ {a} /\ addresses \subseteq addresses'
        /\ up' => (a \in addresses' /\ up)
        /\ UNCHANGED <<instance, response>>
    BY <1>7 DEF RunUpsert, useCaseVars
  <2>2. OthersRest(a)
    BY <1>0, <1>1, <1>2, <2>1 DEF OthersRest
  <2>3. Recorded(a)'
    BY <1>0, <1>2, <2>1 DEF Recorded
  <2> QED
    BY <1>4, <2>2, <2>3, OthersKept
<1> QED
  BY <1>5, <1>6, <1>7

(* A GET and the database change nothing of them.                          *)
LEMMA ReadKeeps ==
  ASSUME AddressesInv,
         \/ \E g \in Gets : ReadOf(g)
         \/ \E em \in EntityManagers : Serve(em)
         \/ UNCHANGED vars
  PROVE  ExecutionsKept
<1>0. Answered /\ \A b \in Adds : InOrder(b) /\ OwnEvent(b) /\ Recorded(b)
  BY DEF AddressesInv
<1>1. /\ UNCHANGED <<appVars, tables, instance, turn, up>>
      /\ \A b \in Adds : response'[b] = response[b]
  <2>1. ASSUME NEW g \in Gets, ReadOf(g)
        PROVE  /\ UNCHANGED <<appVars, tables, instance, turn, up>>
               /\ \E status : response' = [response EXCEPT ![g] = status] \/ response' = response
    BY <2>1 DEF ReadOf, GetUser, GetAnswers, Respond, InBackground, useCaseVars
  <2>2. ASSUME NEW em \in EntityManagers, Serve(em)
        PROVE  UNCHANGED <<appVars, tables, instance, turn, up, response>>
    BY <2>2 DEF Serve, IssueCommit, TransactionCommits, TransactionFails, NothingToWrite,
                InBackground, useCaseVars
  <2>3. ASSUME NEW g \in Gets, NEW b \in Adds
        PROVE  g # b /\ b \in Requests
    BY NamesAssumption DEF Requests
  <2> QED
    BY <1>0, <2>1, <2>2, <2>3 DEF Answered, vars, useCaseVars
<1>2. UNCHANGED <<pc, calls, emitted, touched, events, todo, domainEvents, addresses, upserts>>
  BY <1>1 DEF appVars, tables
<1> QED
  BY <1>0, <1>1, <1>2 DEF ExecutionsKept, InOrder, OwnEvent, Recorded

(* An execution begins.                                                    *)
LEMMA BeginKeeps ==
  ASSUME AddressesInv, NEW a \in Adds, Submit(a)
  PROVE  ExecutionsKept
<1>0. InOrder(a) /\ OwnEvent(a) /\ Recorded(a) /\ TypeOK /\ a \notin turn
  BY DEF AddressesInv, Submit, InBackground, Quiet
<1>1. /\ pc[a] = "idle" /\ pc' = [pc EXCEPT ![a] = "useCase"]
      /\ calls' = [calls EXCEPT ![a] = Append(@, a)]
      /\ turn' = turn
      /\ UNCHANGED <<emitted, touched, events, todo, domainEvents, addresses, upserts,
                     instance, response, up>>
  BY DEF Submit, InBackground, App!Begin, App!Goto, App!sourceVars, App!outputVars, tables,
         useCaseVars
<1>2. pc'[a] = "useCase" /\ \A b \in Adds \ {a} : pc'[b] = pc[b]
  BY <1>0, <1>1, Typed
<1>3. InOrder(a)'
  <2>1. calls'[a] = <<a>>
    BY <1>0, <1>1, Typed, OneCall DEF InOrder, Inactive
  <2> QED
    BY <1>0, <1>1, <1>2, <2>1 DEF InOrder, OwnEvent, Inactive
<1>4. OwnEvent(a)' /\ Recorded(a)'
  BY <1>0, <1>1, <1>2 DEF OwnEvent, Recorded
<1>5. OthersRest(a)
  BY <1>0, <1>1, <1>2, Typed DEF OthersRest
<1> QED
  BY <1>3, <1>4, <1>5, OthersKept

(* The use case goes on with the user, or throws.                          *)
LEMMA UseCaseKeeps ==
  ASSUME AddressesInv, NEW a \in Adds, AddAddress(a) \/ NotFound(a)
  PROVE  ExecutionsKept
<1>0. InOrder(a) /\ OwnEvent(a) /\ Recorded(a) /\ TypeOK
  BY DEF AddressesInv
<1>1. /\ App!Running(a, a) /\ pc[a] = "useCase" /\ turn = {} /\ turn' = {a}
      /\ UNCHANGED <<calls, events, todo, addresses, upserts, response, up>>
      /\ \/ /\ instance' = [instance EXCEPT ![a] = @ \cup {a}] /\ UNCHANGED pc
            /\ emitted' = [emitted EXCEPT ![a] = @ \cup {a}]
            /\ touched' = [touched EXCEPT ![a] = @ \cup {a}]
            /\ domainEvents' = [domainEvents EXCEPT ![a] = @ \cup {a}]
         \/ /\ UNCHANGED <<instance, emitted, touched, domainEvents>>
            /\ pc' = [pc EXCEPT ![a] = "rollback"]
  <2>1. CASE AddAddress(a)
    BY <2>1 DEF AddAddress, Resumes, Quiet, App!Emit, App!outputVars, tables
  <2>2. CASE NotFound(a)
    BY <2>2 DEF NotFound, Resumes, Quiet, App!UseCaseThrows, App!At, App!Goto,
                App!sourceVars, App!outputVars, tables, useCaseVars
  <2> QED
    BY <2>1, <2>2
<1>2. pc'[a] \in {"useCase", "rollback"} /\ \A b \in Adds \ {a} : pc'[b] = pc[b]
  BY <1>0, <1>1, Typed
<1>3. InOrder(a)'
  BY <1>0, <1>1, <1>2, WhoRuns DEF InOrder, Inactive
<1>4. OwnEvent(a)'
  <2>1. \/ /\ emitted'[a] = {a} /\ touched'[a] = {a} /\ domainEvents'[a] = {a}
           /\ pc'[a] = "useCase"
        \/ /\ emitted'[a] = emitted[a] /\ touched'[a] = touched[a] /\ pc'[a] = "rollback"
    BY <1>0, <1>1, Typed DEF OwnEvent
  <2>2. events'[a] = events[a] /\ todo'[a] = todo[a]
    BY <1>1
  <2> QED
    BY <1>0, <2>1, <2>2 DEF OwnEvent
<1>5. Recorded(a)'
  BY <1>0, <1>1, <1>2, Typed DEF Recorded
<1>6. OthersRest(a)
  BY <1>0, <1>1, <1>2, Typed DEF OthersRest
<1> QED
  BY <1>3, <1>4, <1>5, <1>6, OthersKept

(* An execution drains its own user and no other: its scope holds what it  *)
(* touched (ApplicationService.ts:36-37).                                  *)
LEMMA CollectsOwn ==
  ASSUME AddressesInv, Service!OwnershipInv, NEW a \in Adds,
         App!UseCaseReturns(a, a), emitted[a] # {}
  PROVE  /\ App!Running(a, a) /\ pc[a] = "useCase" /\ emitted[a] = {a}
         /\ pc' = [pc EXCEPT ![a] = "dispatch"]
         /\ events' = [events EXCEPT ![a] = {a}] /\ todo' = [todo EXCEPT ![a] = {a}]
         /\ domainEvents' = [domainEvents EXCEPT ![a] = {}]
         /\ UNCHANGED <<calls, touched, emitted>>
<1>1. /\ App!Running(a, a) /\ pc[a] = "useCase"
      /\ App!DrainDomainEvents(App!PeekScope(scopes[a]))
      /\ events' = [events EXCEPT ![a] = UNION {domainEvents[s] : s \in App!PeekScope(scopes[a])}]
      /\ todo' = [todo EXCEPT ![a] = UNION {domainEvents[s] : s \in App!PeekScope(scopes[a])}]
      /\ pc' = [pc EXCEPT ![a] = "dispatch"]
      /\ UNCHANGED <<calls, touched, emitted>>
  BY DEF App!UseCaseReturns, App!At, App!Goto
<1>2. emitted[a] = {a} /\ touched[a] = {a} /\ domainEvents[a] = {a}
  BY <1>1 DEF AddressesInv, OwnEvent
<1>3. App!PeekScope(scopes[a]) = {a}
  <2>1. Service!Running(a, a)
    BY <1>1 DEF App!Running, Service!Running, App!Innermost, Service!Innermost
  <2>2. scopes[a] # <<>> /\ Service!Innermost(scopes[a]) = touched[a]
    BY <1>1, <2>1, Service!OwnScope, ServiceAssumptions
  <2> QED
    BY <1>2, <2>2 DEF App!PeekScope, App!Innermost, Service!Innermost
<1>4. UNION {domainEvents[s] : s \in {a}} = {a}
  BY <1>2
<1>5. domainEvents \in [App!Sources -> SUBSET Adds] /\ App!Sources = Adds
  BY DEF AddressesInv, TypeOK, App!TypeOK, App!Sources
<1>6. domainEvents' = [domainEvents EXCEPT ![a] = {}]
  BY <1>1, <1>3, <1>5 DEF App!DrainDomainEvents
<1> QED
  BY <1>1, <1>2, <1>3, <1>4, <1>6

(* The drain and the loops of dispatchAll and publishAll.                  *)
LEMMA LoopKeeps ==
  ASSUME AddressesInv, Service!OwnershipInv, NEW a \in Adds, Deliver(a)
  PROVE  ExecutionsKept
<1>0. InOrder(a) /\ OwnEvent(a) /\ Recorded(a) /\ TypeOK
  BY DEF AddressesInv
<1>1. /\ a \in turn /\ turn' = turn
      /\ UNCHANGED <<addresses, upserts, instance, response, up>>
  BY DEF Deliver, Continues, tables, useCaseVars
<1>2. /\ App!Running(a, a) /\ UNCHANGED <<calls, touched, emitted>>
      /\ \/ /\ emitted[a] = {a} /\ pc[a] = "useCase" /\ pc' = [pc EXCEPT ![a] = "dispatch"]
            /\ events' = [events EXCEPT ![a] = {a}] /\ todo' = [todo EXCEPT ![a] = {a}]
            /\ domainEvents' = [domainEvents EXCEPT ![a] = {}]
         \/ /\ pc[a] \in {"dispatch", "publish"} /\ UNCHANGED <<pc, events, domainEvents>>
            /\ todo' = [todo EXCEPT ![a] = @ \ {a}]
         \/ /\ pc[a] = "dispatch" /\ pc' = [pc EXCEPT ![a] = "publish"]
            /\ todo' = [todo EXCEPT ![a] = events[a]] /\ UNCHANGED <<events, domainEvents>>
         \/ /\ pc[a] = "publish" /\ pc' = [pc EXCEPT ![a] = "store"]
            /\ UNCHANGED <<events, todo, domainEvents>>
  <2>1. CASE emitted[a] # {} /\ App!UseCaseReturns(a, a)
    BY <2>1, CollectsOwn
  <2>2. CASE App!DispatchEvent(a, a, a) \/ App!PublishEvent(a, a, a)
    BY <2>2 DEF App!DispatchEvent, App!PublishEvent, App!At, App!sourceVars
  <2>3. CASE App!DispatchDone(a, a) \/ App!PublishDone(a, a)
    BY <2>3 DEF App!DispatchDone, App!PublishDone, App!At, App!Goto, App!sourceVars
  <2> QED
    BY <2>1, <2>2, <2>3 DEF Deliver
<1>3. /\ pc'[a] \in {"dispatch", "publish", "store"}
      /\ pc[a] \in {"useCase", "dispatch", "publish"}
      /\ \A b \in Adds \ {a} : pc'[b] = pc[b]
  BY <1>0, <1>2, Typed
<1>4. InOrder(a)'
  BY <1>0, <1>1, <1>2, <1>3, WhoRuns DEF InOrder, Inactive
<1>5. OwnEvent(a)'
  <2>1. events'[a] = {a} /\ emitted'[a] = {a}
    BY <1>0, <1>2, <1>3, Typed DEF OwnEvent
  <2>2. todo'[a] \subseteq events'[a]
    BY <1>0, <1>2, Typed DEF OwnEvent
  <2> QED
    BY <1>0, <1>2, <1>3, <2>1, <2>2 DEF OwnEvent
<1>6. Recorded(a)'
  BY <1>0, <1>1, <1>2, <1>3 DEF Recorded
<1>7. OthersRest(a)
  BY <1>0, <1>1, <1>2, <1>3, Typed DEF OthersRest
<1> QED
  BY <1>4, <1>5, <1>6, <1>7, OthersKept

(* saveAll and the start of the flush: the user that is handed to the      *)
(* persister is written with every address it has.                         *)
LEMMA CommitKeeps ==
  ASSUME AddressesInv, Service!OwnershipInv', NEW a \in Adds, SaveAll(a) \/ Commit(a)
  PROVE  ExecutionsKept
<1>0. InOrder(a) /\ OwnEvent(a) /\ Recorded(a) /\ TypeOK
  BY DEF AddressesInv
<1>1. /\ App!Running(a, a) /\ a \in turn
      /\ UNCHANGED <<calls, touched, emitted, domainEvents, events, todo, addresses, instance,
                     response, up>>
      /\ \/ /\ pc[a] = "store" /\ pc' = [pc EXCEPT ![a] = "commit"] /\ turn' = turn
            /\ UNCHANGED upserts
         \/ /\ pc[a] = "commit" /\ pc' = [pc EXCEPT ![a] = "flush"] /\ turn' = turn \ {a}
            /\ upserts' = upserts \cup (IF a \in persisted'[a] THEN instance[a] ELSE {})
  <2>1. CASE SaveAll(a)
    BY <2>1 DEF SaveAll, Continues, App!SaveAll, App!At, App!Goto, App!sourceVars, tables,
                useCaseVars
  <2>2. CASE Commit(a)
    BY <2>2 DEF Commit, Yields, Upsert, App!Commit, App!At, App!Goto, App!sourceVars,
                useCaseVars
  <2> QED
    BY <2>1, <2>2
<1>2. /\ pc'[a] \in {"commit", "flush"} /\ pc[a] \in {"store", "commit"}
      /\ \A b \in Adds \ {a} : pc'[b] = pc[b]
      /\ turn' \ {a} = turn \ {a} /\ (a \notin turn' <=> pc'[a] = "flush")
      /\ pc'[a] = "flush" <=> pc[a] = "commit"
  BY <1>0, <1>1, Typed
<1>3. InOrder(a)'
  BY <1>0, <1>1, <1>2, WhoRuns DEF InOrder, Inactive
<1>4. events[a] = {a} /\ emitted[a] = {a} /\ touched[a] = {a} /\ a \in instance[a]
  BY <1>0, <1>2 DEF OwnEvent, Recorded
<1>5. OwnEvent(a)'
  BY <1>0, <1>1, <1>2, <1>4 DEF OwnEvent
<1>6. pc'[a] = "flush" => a \in upserts'
  <2>1. SUFFICES ASSUME pc'[a] = "flush" PROVE a \in upserts'
    OBVIOUS
  <2>2. persisted'[a] = {a} \cap Adds
    BY <1>1, <1>4, <2>1 DEF Service!OwnershipInv, Service!CommitPersistsOwn
  <2> QED
    BY <1>1, <1>2, <1>4, <2>1, <2>2
<1>7. Recorded(a)'
  BY <1>0, <1>1, <1>2, <1>4, <1>6 DEF Recorded
<1>8. OthersRest(a)
  BY <1>1, <1>2 DEF OthersRest
<1> QED
  BY <1>3, <1>5, <1>7, <1>8, OthersKept

(* The await of flush ends, or the rollback is over.                       *)
LEMMA EndKeeps ==
  ASSUME AddressesInv, NEW a \in Adds, FlushReturns(a) \/ FlushThrows(a) \/ Rollback(a)
  PROVE  ExecutionsKept
<1>0. InOrder(a) /\ OwnEvent(a) /\ Recorded(a) /\ TypeOK /\ Answered /\ a \in Requests
  BY DEF AddressesInv, Requests
<1>1. /\ App!Running(a, a)
      /\ UNCHANGED <<touched, emitted, domainEvents, events, todo, addresses, upserts, instance, up>>
      /\ \/ /\ pc[a] = "flush" /\ calls' = [calls EXCEPT ![a] = App!Pop(@)]
            /\ pc' = [pc EXCEPT ![a] = "returned"] /\ turn' = turn
            /\ response' = [response EXCEPT ![a] = "created"]
         \/ /\ pc[a] = "flush" /\ calls' = calls /\ response' = response
            /\ pc' = [pc EXCEPT ![a] = "rollback"] /\ turn' = turn \cup {a}
         \/ /\ pc[a] = "rollback" /\ calls' = [calls EXCEPT ![a] = App!Pop(@)]
            /\ App!Rethrow(a, a) /\ turn' = turn \ {a}
            /\ \E status \in {"notFound", "error"} : response' = [response EXCEPT ![a] = status]
  BY DEF FlushReturns, FlushThrows, Rollback, Yields, Respond, App!CommitReturns,
         App!CommitThrows, App!Rollback, App!At, App!Goto, App!sourceVars, App!outputVars,
         tables, useCaseVars
<1>2. calls[a] = <<a>> /\ App!Pop(calls[a]) = <<>> /\ pc[a] \notin Inactive
  BY <1>0, <1>1, WhoRuns, OneCall
<1>3. \/ /\ pc[a] = "flush" /\ pc' = [pc EXCEPT ![a] = "returned"] /\ calls'[a] = <<>>
         /\ a \notin turn' /\ response'[a] = "created"
      \/ /\ pc[a] = "flush" /\ pc' = [pc EXCEPT ![a] = "rollback"] /\ calls'[a] = <<a>>
         /\ a \in turn' /\ response'[a] = response[a]
      \/ /\ pc[a] = "rollback" /\ pc' = [pc EXCEPT ![a] = "threw"] /\ calls'[a] = <<>>
         /\ a \notin turn' /\ response'[a] # "created"
  <2>1. App!Rethrow(a, a) => pc' = [pc EXCEPT ![a] = "threw"]
    BY <1>2 DEF App!Rethrow, App!Goto
  <2>2. pc[a] = "flush" => a \notin turn
    BY <1>0 DEF InOrder
  <2> QED
    BY <1>0, <1>1, <1>2, <2>1, <2>2, Typed DEF Answered
<1>4. /\ pc'[a] \in {"returned", "rollback", "threw"} /\ pc[a] \in {"flush", "rollback"}
      /\ \A b \in Adds \ {a} : pc'[b] = pc[b]
      /\ pc'[a] = "returned" => pc[a] = "flush"
  BY <1>0, <1>3, Typed
<1>5. InOrder(a)'
  <2>1. \/ pc'[a] \in {"returned", "threw"} /\ calls'[a] = <<>> /\ a \notin turn'
        \/ pc'[a] = "rollback" /\ calls'[a] = <<a>> /\ a \in turn'
    BY <1>0, <1>3, Typed
  <2> QED
    BY <2>1 DEF InOrder, Inactive
<1>6. OwnEvent(a)'
  BY <1>0, <1>1, <1>4 DEF OwnEvent
<1>7. Recorded(a)'
  <2>1. response'[a] = "created" => pc'[a] = "returned"
    BY <1>0, <1>3, <1>4, Typed DEF Recorded
  <2> QED
    BY <1>0, <1>1, <1>4, <2>1 DEF Recorded
<1>8. OthersRest(a)
  <2>1. \A b \in Adds \ {a} : response'[b] = response[b]
    BY <1>0, <1>1 DEF Answered, Requests
  <2>2. \A b \in Adds \ {a} : calls'[b] = calls[b]
    BY <1>0, <1>1, Typed
  <2>3. turn' \ {a} = turn \ {a}
    BY <1>1
  <2> QED
    BY <1>1, <1>4, <2>1, <2>2, <2>3 DEF OthersRest
<1> QED
  BY <1>5, <1>6, <1>7, <1>8, OthersKept

-----------------------------------------------------------------------------
(* The flushes keep theirs.                                                *)

(* Where the executions are with their flush has not changed.              *)
FlushPhasesRest ==
  \A y \in Adds :
    \/ pc'[y] = pc[y]
    \/ /\ pc[y] \notin {"commit", "flush", "returned"}
       /\ pc'[y] \notin {"commit", "flush", "returned"}

LEMMA FlushKept ==
  ASSUME FlushInv, UNCHANGED ormVars, FlushPhasesRest
  PROVE  FlushInv'
<1>1. OrmFacts!Places' /\ OrmFacts!Flushers' = OrmFacts!Flushers
      /\ \A x, em : OrmFacts!Flushing(x, em)' <=> OrmFacts!Flushing(x, em)
  BY OrmFacts!PlacesKept DEF FlushInv, OrmFacts!OrmInv, ormVars, OrmFacts!flushVars
<1>2. OrmFacts!TypeOK'
  BY DEF FlushInv, OrmFacts!OrmInv, OrmFacts!TypeOK, ormVars
<1>3. OrmFacts!Done' = OrmFacts!Done
  BY DEF OrmFacts!Done, ormVars
<1>4. OrmFacts!Flow'
  BY <1>1, <1>3 DEF FlushInv, OrmFacts!OrmInv, OrmFacts!Flow, ormVars
<1> QED
  BY <1>1, <1>2, <1>3, <1>4 DEF FlushInv, OrmFacts!OrmInv, ormVars, FlushPhasesRest

(* Requests that neither begin nor come to a flush.                        *)
LEMMA RestFlush ==
  ASSUME AddressesInv, Service!OwnershipInv, NEW a \in Adds,
         \/ RejectBody(a) \/ FindById(a) \/ RunUpsert(a) \/ AddAddress(a) \/ NotFound(a)
         \/ Deliver(a)
  PROVE  FlushInv'
<1>0. FlushInv /\ InOrder(a) /\ TypeOK
  BY DEF AddressesInv
<1>1. /\ UNCHANGED ormVars
      /\ \/ pc' = pc
         \/ /\ pc[a] \in {"useCase", "dispatch", "publish"}
            /\ \E phase \in {"rollback", "dispatch", "publish", "store"} :
                 pc' = [pc EXCEPT ![a] = phase]
  <2>1. CASE RejectBody(a) \/ FindById(a) \/ RunUpsert(a)
    BY <2>1 DEF RejectBody, FindById, RunUpsert, appVars
  <2>2. CASE AddAddress(a)
    BY <2>2 DEF AddAddress, App!Emit
  <2>3. CASE NotFound(a)
    BY <2>3 DEF NotFound, App!UseCaseThrows, App!At, App!Goto
  <2>4. CASE Deliver(a)
    BY <2>4 DEF Deliver, App!UseCaseReturns, App!DispatchEvent, App!DispatchDone,
                App!PublishEvent, App!PublishDone, App!At, App!Goto
  <2> QED
    BY <2>1, <2>2, <2>3, <2>4
<1>2. FlushPhasesRest
  BY <1>0, <1>1, Typed DEF FlushPhasesRest
<1> QED
  BY <1>0, <1>1, <1>2, FlushKept

(* The fork: no execution is between saveAll and its flush.                *)
LEMMA ForkFlush ==
  ASSUME AddressesInv, NEW a \in Adds, Submit(a)
  PROVE  FlushInv'
<1>0. FlushInv /\ TypeOK /\ turn = {} /\ Orm!Fork(a)
  BY DEF AddressesInv, Submit, InBackground, Quiet
<1>1. \A y \in Adds : pc[y] # "commit"
  BY <1>0, CommitsRun
<1>2. pc[a] = "idle" /\ pc' = [pc EXCEPT ![a] = "useCase"]
  BY DEF Submit, App!Begin, App!Goto
<1>3. \A y \in Adds :
        /\ pc'[y] # "commit" /\ (pc'[y] = "flush" <=> pc[y] = "flush")
        /\ pc'[y] = "returned" => pc[y] = "returned"
  BY <1>0, <1>1, <1>2, Typed
<1>4. OrmFacts!OrmInv' /\ OrmFacts!Flushers' = OrmFacts!Flushers
  BY <1>0, OrmSteps, OrmFacts!ForkKeeps DEF FlushInv
<1>5. OrmFacts!Done' = OrmFacts!Done
  BY <1>0 DEF Orm!Fork, OrmFacts!Done
<1> QED
  BY <1>0, <1>3, <1>4, <1>5 DEF FlushInv

(* saveAll persists the event that the flush is called for.                *)
LEMMA SaveFlush ==
  ASSUME AddressesInv, NEW a \in Adds, SaveAll(a)
  PROVE  FlushInv'
<1>0. FlushInv /\ TypeOK /\ OwnEvent(a)
  BY DEF AddressesInv
<1>1. /\ pc[a] = "store" /\ pc' = [pc EXCEPT ![a] = "commit"]
      /\ Orm!Persist(events[a])
  BY DEF SaveAll, App!SaveAll, App!At, App!Goto
<1>2. events[a] = {a}
  BY <1>0, <1>1 DEF OwnEvent
<1>3. /\ OrmFacts!OrmInv' /\ OrmFacts!Flushers' = OrmFacts!Flushers
      /\ entityManager' = entityManager
      /\ pending'[entityManager] = pending[entityManager] \cup {a}
      /\ OrmFacts!Done' = OrmFacts!Done
  <2>1. OrmFacts!Persist({a})
    BY <1>1, <1>2, OrmSteps
  <2> QED
    BY <1>0, <2>1, OrmFacts!PersistKeeps DEF FlushInv, OrmFacts!Done
<1>4. \A y \in Adds :
        /\ pc'[y] = "flush" <=> pc[y] = "flush"
        /\ pc'[y] = "commit" => y = a \/ pc[y] = "commit"
        /\ pc'[y] = "returned" => pc[y] = "returned"
  BY <1>0, <1>1, Typed
<1> QED
  BY <1>0, <1>3, <1>4 DEF FlushInv

(* The flush is called.                                                    *)
LEMMA CommitFlush ==
  ASSUME AddressesInv, NEW a \in Adds, Commit(a)
  PROVE  FlushInv'
<1>0. FlushInv /\ TypeOK
  BY DEF AddressesInv
<1>1. pc[a] = "commit" /\ pc' = [pc EXCEPT ![a] = "flush"] /\ Orm!Flush(a)
  BY DEF Commit, App!Commit, App!At, App!Goto
<1>2. /\ a \notin OrmFacts!Flushers /\ a \in pending[entityManager] \cup OrmFacts!Done
      /\ OrmFacts!OrmInv
  BY <1>0, <1>1 DEF FlushInv
<1>3. /\ OrmFacts!OrmInv' /\ OrmFacts!Flushers' = OrmFacts!Flushers \cup {a}
      /\ UNCHANGED <<entityManager, pending>> /\ OrmFacts!Done' = OrmFacts!Done
  BY <1>1, <1>2, OrmSteps, NamesAssumption, OrmFacts!FlushKeeps DEF OrmFacts!Done
<1>4. \A y \in Adds :
        /\ pc'[y] = "flush" <=> y = a \/ pc[y] = "flush"
        /\ pc'[y] = "commit" => pc[y] = "commit"
        /\ pc'[y] = "returned" => pc[y] = "returned"
  BY <1>0, <1>1, Typed
<1> QED
  BY <1>0, <1>3, <1>4 DEF FlushInv

(* Its await ends.                                                         *)
LEMMA AwaitFlush ==
  ASSUME AddressesInv, NEW a \in Adds, FlushReturns(a) \/ FlushThrows(a)
  PROVE  FlushInv'
<1>0. FlushInv /\ TypeOK
  BY DEF AddressesInv
<1>1. /\ pc[a] = "flush"
      /\ \/ pc' = [pc EXCEPT ![a] = "returned"] /\ Orm!Returns(a)
         \/ pc' = [pc EXCEPT ![a] = "rollback"] /\ Orm!Throws(a)
  BY DEF FlushReturns, FlushThrows, App!CommitReturns, App!CommitThrows, App!At, App!Goto
<1>2. /\ OrmFacts!OrmInv' /\ OrmFacts!Flushers' = OrmFacts!Flushers \ {a}
      /\ UNCHANGED <<entityManager, pending>> /\ OrmFacts!Done' = OrmFacts!Done
      /\ Orm!Returns(a) => a \in OrmFacts!Done
  BY <1>0, <1>1, OrmSteps, OrmFacts!AwaitEnds DEF FlushInv, OrmFacts!Done
<1>3. \A y \in Adds :
        /\ pc'[y] = "flush" <=> y # a /\ pc[y] = "flush"
        /\ pc'[y] = "commit" => pc[y] = "commit"
        /\ pc'[y] = "returned" => pc[y] = "returned" \/ (y = a /\ Orm!Returns(a))
  BY <1>0, <1>1, Typed
<1> QED
  BY <1>0, <1>2, <1>3 DEF FlushInv

(* What a rollback clears counts as done with.                             *)
LEMMA RollbackFlush ==
  ASSUME AddressesInv, NEW a \in Adds, Rollback(a)
  PROVE  FlushInv'
<1>0. FlushInv /\ TypeOK /\ InOrder(a)
  BY DEF AddressesInv
<1>1. pc[a] = "rollback" /\ App!Running(a, a) /\ App!Rethrow(a, a) /\ Orm!Clear
  BY DEF Rollback, ClearEntityManager, App!Rollback, App!At
<1>2. pc' = [pc EXCEPT ![a] = "threw"]
  <2>1. App!Pop(calls[a]) = <<>>
    BY <1>0, <1>1, WhoRuns, OneCall
  <2> QED
    BY <1>1, <2>1 DEF App!Rethrow, App!Goto
<1>3. /\ OrmFacts!OrmInv' /\ OrmFacts!Flushers' = OrmFacts!Flushers
      /\ entityManager' = entityManager /\ OrmFacts!Done \subseteq OrmFacts!Done'
      /\ \A em \in EntityManagers :
           pending[em] \cup OrmFacts!Done \subseteq pending'[em] \cup OrmFacts!Done'
  BY <1>0, <1>1, OrmStates, OrmSteps, OrmFacts!ClearKeeps DEF FlushInv
<1>4. \A y \in Adds :
        /\ pc'[y] = "flush" <=> pc[y] = "flush"
        /\ pc'[y] = "commit" => pc[y] = "commit"
        /\ pc'[y] = "returned" => pc[y] = "returned"
  BY <1>0, <1>1, <1>2, Typed
<1>5. entityManager \in EntityManagers
  BY <1>0, Typed
<1> QED
  BY <1>0, <1>3, <1>4, <1>5 DEF FlushInv

(* The database answers.                                                   *)
LEMMA ServeFlush ==
  ASSUME AddressesInv, NEW em \in EntityManagers, Serve(em)
  PROVE  FlushInv'
<1>0. FlushInv /\ TypeOK
  BY DEF AddressesInv
<1>1. UNCHANGED pc
  BY DEF Serve, IssueCommit, TransactionCommits, TransactionFails, NothingToWrite, appVars
<1>2. CASE IssueCommit(em)
  <2>1. UNCHANGED ormVars /\ FlushPhasesRest
    BY <1>1, <1>2 DEF IssueCommit, FlushPhasesRest
  <2> QED
    BY <1>0, <2>1, FlushKept
<1>3. CASE ~IssueCommit(em)
  <2>1. Orm!Working(em) /\ (Orm!Written(em) \/ Orm!Refused(em))
    <3>1. Orm!Working(em)
      BY <1>3, NamesAssumption
         DEF Serve, TransactionCommits, TransactionFails, NothingToWrite,
             AddressesInv, CommitsForSomebody, Orm!Working, EntityManagers
    <3> QED
      BY <1>3, <3>1 DEF Serve, TransactionCommits, TransactionFails, NothingToWrite
  <2>2. OrmFacts!OrmInv' /\ OrmFacts!ServedLeaves(em)
    BY <1>0, <2>1, OrmServes, OrmStates, NamesAssumption, OrmFacts!ServedKeeps DEF FlushInv
  <2>3. /\ OrmFacts!Flushers' = OrmFacts!Flushers /\ entityManager' = entityManager
        /\ OrmFacts!Done \subseteq OrmFacts!Done'
        /\ \A e \in EntityManagers :
             pending[e] \cup OrmFacts!Done \subseteq pending'[e] \cup OrmFacts!Done'
    BY <2>2, OrmStates DEF OrmFacts!ServedLeaves
  <2>4. entityManager \in EntityManagers
    BY <1>0, Typed
  <2> QED
    BY <1>0, <1>1, <2>2, <2>3, <2>4 DEF FlushInv
<1> QED
  BY <1>2, <1>3

(* The service of one EntityManager leaves the others alone.               *)
LEMMA OneServed ==
  ASSUME AddressesInv, NEW em \in EntityManagers, Orm!Written(em) \/ Orm!Refused(em)
  PROVE  \A e \in EntityManagers : e # em => writer'[e] = writer[e] /\ batch'[e] = batch[e]
<1>1. /\ writer \in [EntityManagers -> Adds \cup {Nobody}]
      /\ batch \in [EntityManagers -> SUBSET Adds]
  BY OrmStates DEF AddressesInv, TypeOK, Orm!TypeOK
<1>2. /\ \E x : writer' = [writer EXCEPT ![em] = x]
      /\ \E b : batch' = [batch EXCEPT ![em] = b]
  BY DEF Orm!Written, Orm!Refused, Orm!QueuedRefused, Orm!RunnerRefused, Orm!ServeNext
<1> QED
  BY <1>1, <1>2

(* A COMMIT ends before its flush does.                                    *)
LEMMA CommittingStep ==
  ASSUME AddressesInv, [Next]_vars
  PROVE  CommitsForSomebody'
<1>0. /\ CommitsForSomebody /\ OrmFacts!Places /\ entityManager \in EntityManagers
      /\ writer \in [EntityManagers -> Adds \cup {Nobody}]
      /\ batch \in [EntityManagers -> SUBSET Adds]
  BY Typed, OrmStates DEF AddressesInv, TypeOK, Orm!TypeOK, FlushInv, OrmFacts!OrmInv
<1>1. ASSUME UNCHANGED <<writer, batch, committing>>
      PROVE  CommitsForSomebody'
  BY <1>0, <1>1 DEF CommitsForSomebody
<1>2. ASSUME NEW a \in Adds, Commit(a)
      PROVE  CommitsForSomebody'
  <2>1. committing' = committing /\ Orm!Flush(a)
    BY <1>2 DEF Commit
  <2>2. CASE runner[entityManager] = Nobody
    <3>1. /\ writer' = [writer EXCEPT ![entityManager] = a]
          /\ batch' = [batch EXCEPT ![entityManager] = pending[entityManager]]
      BY <2>1, <2>2 DEF Orm!Flush
    <3>2. writer[entityManager] = Nobody
      BY <1>0, <2>2, OrmStates DEF OrmFacts!Places
    <3> QED
      BY <1>0, <2>1, <3>1, <3>2 DEF CommitsForSomebody
  <2>3. CASE runner[entityManager] # Nobody
    BY <1>1, <2>1, <2>3 DEF Orm!Flush
  <2> QED
    BY <2>2, <2>3
<1>3. ASSUME NEW a \in Adds, StepOf(a), ~Commit(a)
      PROVE  UNCHANGED <<writer, batch, committing>>
  BY <1>3 DEF StepOf, Proceed, RejectBody, Submit, FindById, AddAddress, NotFound, Deliver,
              SaveAll, FlushReturns, FlushThrows, Rollback, RunUpsert, ClearEntityManager,
              Orm!Fork, Orm!Persist, Orm!Returns, Orm!Throws, Orm!Clear, Orm!Forget,
              Orm!flushVars, ormVars, connection
<1>4. ASSUME NEW em \in EntityManagers, Serve(em)
      PROVE  CommitsForSomebody'
  <2>1. CASE IssueCommit(em)
    <3>1. /\ writer[em] # Nobody /\ UNCHANGED ormVars /\ committing' = em
      BY <2>1 DEF IssueCommit, Orm!Working
    <3>2. batch[em] # {}
      BY <2>1, OrmStates DEF IssueCommit, InBackground, Quiet, Orm!Idle, Orm!Working
    <3> QED
      BY <3>1, <3>2 DEF CommitsForSomebody, ormVars
  <2>2. CASE TransactionCommits(em) \/ TransactionFails(em)
    BY <2>2 DEF TransactionCommits, TransactionFails, CommitsForSomebody
  <2>3. CASE NothingToWrite(em)
    <3>1. batch[em] = {} /\ Orm!Written(em) /\ committing' = committing
      BY <2>3 DEF NothingToWrite, connection
    <3>2. committing # em \/ committing = Nobody
      BY <1>0, <3>1 DEF CommitsForSomebody
    <3> QED
      BY <1>0, <3>1, <3>2, OneServed DEF CommitsForSomebody
  <2> QED
    BY <1>4, <2>1, <2>2, <2>3 DEF Serve
<1>5. ASSUME NEW g \in Gets, ReadOf(g)
      PROVE  UNCHANGED <<writer, batch, committing>>
  BY <1>5 DEF ReadOf, GetUser, GetAnswers, ormVars, connection
<1>6. CASE UNCHANGED vars
  BY <1>1, <1>6 DEF vars, ormVars, connection
<1> QED
  BY <1>1, <1>2, <1>3, <1>4, <1>5, <1>6 DEF Next, Finished, StepOf, ReadOf

LEMMA FlushStep ==
  ASSUME AddressesInv, Service!OwnershipInv, [Next]_vars
  PROVE  FlushInv'
<1>0. FlushInv
  BY DEF AddressesInv
<1>1. ASSUME NEW a \in Adds, StepOf(a)
      PROVE  FlushInv'
  BY <1>1, RestFlush, ForkFlush, SaveFlush, CommitFlush, AwaitFlush, RollbackFlush
     DEF StepOf, Proceed
<1>2. ASSUME UNCHANGED <<pc, ormVars>>
      PROVE  FlushInv'
  BY <1>0, <1>2, FlushKept DEF FlushPhasesRest
<1>3. ASSUME NEW g \in Gets, ReadOf(g)
      PROVE  FlushInv'
  BY <1>2, <1>3 DEF ReadOf, GetUser, GetAnswers, appVars
<1>4. CASE UNCHANGED vars
  BY <1>2, <1>4 DEF vars, appVars
<1> QED
  BY <1>1, <1>3, <1>4, ServeFlush DEF Next, Finished, StepOf, ReadOf

-----------------------------------------------------------------------------
(* The rest of the invariant is kept.                                      *)

(* The requests, the tables and the provider keep their types.             *)
LEMMA RestTyped ==
  ASSUME AddressesInv, Service!OwnershipInv', FlushInv', [Next]_vars
  PROVE  /\ TypeOK' /\ Answered'
         /\ identityMap' \in [EntityManagers -> [Users -> (SUBSET Adds) \cup {NotLoaded}]]
         /\ UNCHANGED <<body, userId, users, databaseFails>>
<1> DEFINE Rest ==
      /\ entityManager \in EntityManagers
      /\ committing \in EntityManagers \cup {Nobody}
      /\ upserts \in SUBSET Adds
      /\ addresses \in SUBSET Adds
      /\ loaded \in [Adds -> {"unknown", "found", "none", "failed"}]
      /\ instance \in [Adds -> SUBSET Adds]
      /\ through \in [Gets -> EntityManagers] /\ shown \in [Gets -> SUBSET Adds]
      /\ turn \in SUBSET Adds
      /\ up \in BOOLEAN
    Statuses ==
      /\ Answered
      /\ \A a \in Adds : response[a] \in {"none", "created", "invalid", "notFound", "error"}
      /\ \A g \in Gets : response[g] \in {"none", "ok", "notFound", "error"}
    Constant == UNCHANGED <<body, userId, users, databaseFails>>
    Loads == \A em \in EntityManagers, u \in Users :
               identityMap[em][u] = NotLoaded \/ identityMap[em][u] \subseteq Adds
<1>0. Rest /\ Statuses /\ events \in [Adds -> SUBSET Adds] /\ Adds \subseteq EntityManagers
      /\ identityMap \in [EntityManagers -> [Users -> (SUBSET Adds) \cup {NotLoaded}]]
      /\ userId \in [Requests -> Users] /\ Adds \cap Gets = {} /\ Requests = Adds \cup Gets
  BY Typed, NamesAssumption DEF AddressesInv, ReadsRows, TypeOK, App!TypeOK, EntityManagers,
                                Requests
<1>1. App!TypeOK'
  BY DEF Service!OwnershipInv, Service!NestingInv, Service!TypeOK, App!TypeOK,
         Service!Phases, App!Phases, Service!Delivering, App!Delivering,
         Service!Ended, App!Ended, Service!Sources, App!Sources
<1>orm. Orm!TypeOK' /\ entityManager' \in EntityManagers
  BY DEF FlushInv, OrmFacts!OrmInv, OrmFacts!TypeOK, Orm!TypeOK, EntityManagers,
         OrmFacts!EntityManagers, Orm!EntityManagers
<1>2. \A em \in EntityManagers, u \in Users : \A S \in Answers(em, u) : S \subseteq Adds
  BY <1>0 DEF AddressesInv, TypeOK, Answers, AddressesOf
<1>3. ASSUME NEW em \in EntityManagers, NEW u \in Users, NEW S \in SUBSET Adds, Remember(em, u, S)
      PROVE  identityMap' \in [EntityManagers -> [Users -> (SUBSET Adds) \cup {NotLoaded}]]
  BY <1>0, <1>3 DEF Remember
<1>4. SUFFICES Rest' /\ Statuses' /\ Constant
                 /\ identityMap' \in [EntityManagers -> [Users -> (SUBSET Adds) \cup {NotLoaded}]]
  <2>1. CASE Rest' /\ Statuses' /\ Constant
             /\ identityMap' \in [EntityManagers -> [Users -> (SUBSET Adds) \cup {NotLoaded}]]
    <3>1. Loads'
      BY <2>1
    <3>2. [body |-> body', userId |-> userId', users |-> users', databaseFails |-> databaseFails']
            \in Cases
      BY <2>1 DEF AddressesInv, TypeOK
    <3> QED
      BY <1>1, <1>orm, <2>1, <3>1, <3>2 DEF TypeOK
  <2> QED
    BY <2>1
<1> USE <1>orm DEF tables, inputs, useCaseVars, readVars, connection, Answered
<1>5. ASSUME NEW a \in Adds, StepOf(a)
      PROVE  Rest' /\ Statuses' /\ Constant
             /\ identityMap' \in [EntityManagers -> [Users -> (SUBSET Adds) \cup {NotLoaded}]]
  <2>1. CASE RejectBody(a) \/ Submit(a) \/ RunUpsert(a)
    BY <1>0, <2>1 DEF RejectBody, Submit, RunUpsert, InBackground, Respond
  <2>2. CASE FindById(a)
    <3>1. userId[a] \in Users /\ a \in EntityManagers
      BY <1>0
    <3>2. loaded' \in [Adds -> {"unknown", "found", "none", "failed"}]
      BY <1>0, <2>2 DEF FindById
    <3>3. CASE UNCHANGED <<instance, identityMap>>
      BY <1>0, <2>2, <3>2, <3>3 DEF FindById, InBackground
    <3>4. CASE \E S \in Answers(a, userId[a]) :
                 instance' = [instance EXCEPT ![a] = S] /\ Remember(a, userId[a], S)
      <4>1. PICK S \in Answers(a, userId[a]) :
              instance' = [instance EXCEPT ![a] = S] /\ Remember(a, userId[a], S)
        BY <3>4
      <4>2. S \in SUBSET Adds
        BY <1>2, <3>1
      <4>3. identityMap' \in [EntityManagers -> [Users -> (SUBSET Adds) \cup {NotLoaded}]]
        BY <1>3, <3>1, <4>1, <4>2
      <4>4. instance' \in [Adds -> SUBSET Adds]
        BY <1>0, <4>1, <4>2
      <4> QED
        BY <1>0, <2>2, <3>2, <4>3, <4>4 DEF FindById, InBackground
    <3> QED
      BY <2>2, <3>3, <3>4 DEF FindById
  <2>3. CASE AddAddress(a) \/ NotFound(a) \/ Deliver(a) \/ FlushThrows(a) \/ SaveAll(a)
    <3>1. /\ instance' = [instance EXCEPT ![a] = @ \cup {a}] \/ instance' = instance
          /\ turn' \in SUBSET Adds
          /\ UNCHANGED <<connection, tables, inputs, loaded, readVars, response, up>>
      BY <1>0, <2>3 DEF AddAddress, NotFound, Deliver, FlushThrows, SaveAll, Resumes, Continues
    <3>2. instance' \in [Adds -> SUBSET Adds]
      <4>1. instance \in [Adds -> SUBSET Adds] /\ instance[a] \cup {a} \in SUBSET Adds
        BY <1>0
      <4> QED
        BY <3>1, <4>1
    <3> QED
      BY <1>0, <3>1, <3>2
  <2>5. CASE Commit(a)
    BY <1>0, <2>5 DEF Commit, Upsert, Yields
  <2>6. CASE FlushReturns(a)
    BY <1>0, <2>6 DEF FlushReturns, Respond
  <2>7. CASE Rollback(a)
    <3>1. identityMap' \in [EntityManagers -> [Users -> (SUBSET Adds) \cup {NotLoaded}]]
      BY <1>0, <2>7 DEF Rollback, ClearEntityManager
    <3> QED
      BY <1>0, <2>7, <3>1 DEF Rollback, Respond, Yields
  <2> QED
    BY <1>5, <2>1, <2>2, <2>3, <2>5, <2>6, <2>7 DEF StepOf, Proceed
<1>6. ASSUME NEW g \in Gets, ReadOf(g)
      PROVE  Rest' /\ Statuses' /\ Constant
             /\ identityMap' \in [EntityManagers -> [Users -> (SUBSET Adds) \cup {NotLoaded}]]
  <2>1. CASE GetUser(g)
    BY <1>0, <2>1 DEF GetUser, InBackground, Respond
  <2>2. CASE GetAnswers(g)
    <3>1. userId[g] \in Users /\ through[g] \in EntityManagers
      BY <1>0
    <3>2. /\ shown' \in [Gets -> SUBSET Adds]
          /\ identityMap' \in [EntityManagers -> [Users -> (SUBSET Adds) \cup {NotLoaded}]]
      BY <1>0, <1>2, <1>3, <2>2, <3>1 DEF GetAnswers
    <3>3. Statuses'
      BY <1>0, <2>2 DEF GetAnswers, Respond
    <3> QED
      BY <1>0, <2>2, <3>2, <3>3 DEF GetAnswers, InBackground
  <2> QED
    BY <1>6, <2>1, <2>2 DEF ReadOf
<1>7. CASE UNCHANGED vars
  BY <1>0, <1>7 DEF vars
<1>8. ASSUME NEW em \in EntityManagers, Serve(em)
      PROVE  Rest' /\ Statuses' /\ Constant
             /\ identityMap' \in [EntityManagers -> [Users -> (SUBSET Adds) \cup {NotLoaded}]]
  BY <1>0, <1>8 DEF Serve, IssueCommit, TransactionCommits, TransactionFails, NothingToWrite,
                    InBackground
<1> QED
  BY <1>5, <1>6, <1>7, <1>8 DEF Next, Finished, StepOf, ReadOf

(* A step for one POST leaves the phase of the others alone, and an        *)
(* execution that has not begun begins with Submit.                        *)
LEMMA PhaseStep ==
  ASSUME AddressesInv, NEW a \in Adds, StepOf(a)
  PROVE  /\ \A b \in Adds \ {a} : pc'[b] = pc[b]
         /\ Submit(a) \/ pc[a] # "idle" \/ pc' = pc
         /\ ~Submit(a) => entityManager' = entityManager
<1>0. InOrder(a) /\ TypeOK /\ pc \in [Adds -> App!Phases]
  BY Typed DEF AddressesInv
<1>1. CASE RejectBody(a) \/ FindById(a) \/ RunUpsert(a)
  BY <1>1 DEF RejectBody, FindById, RunUpsert, appVars, ormVars
<1>2. CASE Submit(a)
  BY <1>0, <1>2 DEF Submit, App!Begin, App!Goto
<1>3. CASE AddAddress(a) \/ NotFound(a) \/ FlushThrows(a)
  BY <1>0, <1>3 DEF AddAddress, NotFound, FlushThrows, App!Emit, App!UseCaseThrows,
                    App!CommitThrows, App!At, App!Goto, ormVars, Orm!Throws
<1>4. CASE Deliver(a)
  BY <1>0, <1>4 DEF Deliver, App!UseCaseReturns, App!DispatchEvent, App!DispatchDone,
                    App!PublishEvent, App!PublishDone, App!At, App!Goto, ormVars
<1>5. CASE SaveAll(a) \/ Commit(a) \/ FlushReturns(a)
  BY <1>0, <1>5 DEF SaveAll, Commit, FlushReturns, App!SaveAll, App!Commit, App!CommitReturns,
                    App!At, App!Goto, Orm!Persist, Orm!Flush, Orm!Returns
<1>6. CASE Rollback(a)
  <2>1. /\ pc[a] = "rollback" /\ App!Running(a, a) /\ App!Rethrow(a, a)
        /\ entityManager' = entityManager
    BY <1>6 DEF Rollback, App!Rollback, App!At, ClearEntityManager, Orm!Clear
  <2>2. App!Pop(calls[a]) = <<>>
    BY <1>0, <2>1, WhoRuns, OneCall
  <2>3. pc' = [pc EXCEPT ![a] = "threw"]
    BY <2>1, <2>2 DEF App!Rethrow, App!Goto
  <2> QED
    BY <1>0, <2>1, <2>3
<1> QED
  BY <1>1, <1>2, <1>3, <1>4, <1>5, <1>6 DEF StepOf, Proceed

(* The EntityManager of MikroORM.init does not come back.                  *)
LEMMA ForkStep ==
  ASSUME AddressesInv, [Next]_vars
  PROVE  FirstFork'
<1>1. ASSUME NEW a \in Adds, StepOf(a)
      PROVE  FirstFork'
  <2>1. CASE Submit(a)
    BY <2>1, NamesAssumption DEF Submit, FirstFork, Orm!Fork
  <2>2. CASE ~Submit(a)
    <3>1. SUFFICES ASSUME entityManager' = OrmEm
                   PROVE  \A b \in Adds : pc'[b] = "idle"
      BY DEF FirstFork
    <3>2. entityManager = OrmEm /\ \A b \in Adds : pc[b] = "idle"
      BY <1>1, <2>2, <3>1, PhaseStep DEF AddressesInv, FirstFork
    <3> QED
      BY <1>1, <2>2, <3>2, PhaseStep
  <2> QED
    BY <2>1, <2>2
<1>2. ASSUME NEW g \in Gets, ReadOf(g)
      PROVE  FirstFork'
  BY <1>2 DEF ReadOf, GetUser, GetAnswers, appVars, ormVars, AddressesInv, FirstFork
<1>3. CASE UNCHANGED vars
  BY <1>3 DEF vars, appVars, ormVars, AddressesInv, FirstFork
<1>4. ASSUME NEW em \in EntityManagers, Serve(em)
      PROVE  FirstFork'
  <2>1. UNCHANGED pc /\ UNCHANGED entityManager
    BY <1>4 DEF Serve, IssueCommit, TransactionCommits, TransactionFails, NothingToWrite,
                Orm!Written, Orm!Refused, Orm!QueuedRefused, Orm!RunnerRefused, appVars, ormVars
  <2> QED
    BY <2>1 DEF AddressesInv, FirstFork
<1> QED
  BY <1>1, <1>2, <1>3, <1>4 DEF Next, Finished, StepOf, ReadOf

(* Rows stay, and so what was loaded or shown stays true of them.          *)
LEMMA ReadsStep ==
  ASSUME AddressesInv, Service!OwnershipInv', FlushInv', [Next]_vars
  PROVE  ReadsRows'
<1> DEFINE Loaded == \A em \in EntityManagers, u \in Users :
                       identityMap[em][u] = NotLoaded \/ identityMap[em][u] \subseteq AddressesOf(u)
<1>0. /\ identityMap \in [EntityManagers -> [Users -> (SUBSET Adds) \cup {NotLoaded}]]
      /\ identityMap' \in [EntityManagers -> [Users -> (SUBSET Adds) \cup {NotLoaded}]]
      /\ userId' = userId /\ userId \in [Requests -> Users] /\ Adds \subseteq Requests
      /\ Gets \subseteq Requests /\ Adds \subseteq EntityManagers
      /\ through \in [Gets -> EntityManagers] /\ shown \in [Gets -> SUBSET Adds]
      /\ Loaded /\ ShownIsStored
  BY RestTyped, Typed DEF AddressesInv, ReadsRows, TypeOK, Requests
<1> USE DEF tables, inputs, useCaseVars, readVars, connection
<1>1. addresses \subseteq addresses'
  <2>1. ASSUME NEW a \in Adds, StepOf(a)
        PROVE  addresses \subseteq addresses'
    BY <2>1 DEF StepOf, Proceed, RejectBody, Submit, FindById, AddAddress, NotFound, Deliver,
                SaveAll, Commit, Upsert, FlushReturns, FlushThrows, Rollback, RunUpsert
  <2>2. ASSUME NEW g \in Gets, ReadOf(g)
        PROVE  addresses \subseteq addresses'
    BY <2>2 DEF ReadOf, GetUser, GetAnswers
  <2>3. ASSUME NEW em \in EntityManagers, Serve(em)
        PROVE  addresses \subseteq addresses'
    BY <2>3 DEF Serve, IssueCommit, TransactionCommits, TransactionFails, NothingToWrite
  <2> QED
    BY <2>1, <2>2, <2>3 DEF Next, Finished, StepOf, ReadOf, vars
<1>2. \A u \in Users : AddressesOf(u) \subseteq AddressesOf(u)'
  BY <1>0, <1>1 DEF AddressesOf
<1>3. \A em \in EntityManagers, u \in Users : \A S \in Answers(em, u) : S \subseteq AddressesOf(u)
  BY <1>0 DEF Answers
<1>4. ASSUME NEW em \in EntityManagers, NEW u \in Users, NEW S \in Answers(em, u),
             Remember(em, u, S)
      PROVE  Loaded'
  <2>1. SUFFICES ASSUME NEW em2 \in EntityManagers, NEW u2 \in Users
                 PROVE  identityMap'[em2][u2] = NotLoaded
                          \/ identityMap'[em2][u2] \subseteq AddressesOf(u2)'
    OBVIOUS
  <2>2. identityMap'[em2][u2] \in {identityMap[em2][u2], S}
        /\ (identityMap'[em2][u2] # identityMap[em2][u2] => em2 = em /\ u2 = u)
    BY <1>0, <1>4 DEF Remember
  <2> QED
    BY <1>0, <1>2, <1>3, <2>2
<1>5. UNCHANGED identityMap => Loaded'
  BY <1>0, <1>2
<1>6. UNCHANGED shown => ShownIsStored'
  BY <1>0, <1>2 DEF ShownIsStored
<1> SUFFICES Loaded' /\ ShownIsStored'
  BY <1>0 DEF ReadsRows
<1>7. ASSUME NEW a \in Adds, StepOf(a)
      PROVE  Loaded' /\ ShownIsStored'
  <2>1. CASE FindById(a)
    <3>1. userId[a] \in Users /\ a \in EntityManagers
      BY <1>0
    <3> QED
      BY <1>4, <1>5, <1>6, <2>1, <3>1 DEF FindById
  <2>2. CASE Rollback(a)
    <3>1. /\ identityMap' = [identityMap EXCEPT ![entityManager] = [u \in Users |-> NotLoaded]]
          /\ UNCHANGED shown
      BY <2>2 DEF Rollback, ClearEntityManager
    <3>2. Loaded'
      BY <1>0, <1>2, <3>1
    <3> QED
      BY <1>6, <3>1, <3>2
  <2>3. CASE RejectBody(a) \/ Submit(a) \/ AddAddress(a) \/ NotFound(a) \/ Deliver(a)
             \/ SaveAll(a) \/ Commit(a) \/ FlushReturns(a) \/ FlushThrows(a) \/ RunUpsert(a)
    <3>1. UNCHANGED <<identityMap, shown>>
      BY <2>3 DEF RejectBody, Submit, AddAddress, NotFound, Deliver, SaveAll, Commit, Upsert,
                  FlushReturns, FlushThrows, RunUpsert
    <3> QED
      BY <1>5, <1>6, <3>1
  <2> QED
    BY <1>7, <2>1, <2>2, <2>3 DEF StepOf, Proceed
<1>8. ASSUME NEW g \in Gets, ReadOf(g)
      PROVE  Loaded' /\ ShownIsStored'
  <2>1. CASE UNCHANGED <<identityMap, shown>>
    BY <1>5, <1>6, <2>1
  <2>2. CASE \E S \in Answers(through[g], userId[g]) :
               shown' = [shown EXCEPT ![g] = S] /\ Remember(through[g], userId[g], S)
    <3>1. PICK S \in Answers(through[g], userId[g]) :
            shown' = [shown EXCEPT ![g] = S] /\ Remember(through[g], userId[g], S)
      BY <2>2
    <3>2. userId[g] \in Users /\ through[g] \in EntityManagers
      BY <1>0
    <3>3. Loaded'
      BY <1>4, <3>1, <3>2
    <3>4. S \subseteq AddressesOf(userId[g])'
      BY <1>0, <1>2, <1>3, <3>2 DEF AddressesOf
    <3>5. ShownIsStored'
      <4>1. SUFFICES ASSUME NEW h \in Gets
                     PROVE  shown'[h] \subseteq AddressesOf(userId[h])'
        BY <1>0 DEF ShownIsStored
      <4>2. CASE h = g
        BY <1>0, <3>1, <3>4, <4>2
      <4>3. CASE h # g
        <5>1. shown'[h] = shown[h] /\ userId[h] \in Users
          BY <1>0, <3>1, <4>3
        <5> QED
          BY <1>0, <1>2, <5>1 DEF ShownIsStored
      <4> QED
        BY <4>2, <4>3
    <3> QED
      BY <3>3, <3>5
  <2> QED
    BY <1>8, <2>1, <2>2 DEF ReadOf, GetUser, GetAnswers
<1>9. CASE UNCHANGED vars
  BY <1>5, <1>6, <1>9 DEF vars
<1>10. ASSUME NEW em \in EntityManagers, Serve(em)
       PROVE  UNCHANGED <<identityMap, shown>>
  BY <1>10 DEF Serve, IssueCommit, TransactionCommits, TransactionFails, NothingToWrite
<1> QED
  BY <1>5, <1>6, <1>7, <1>8, <1>9, <1>10 DEF Next, Finished, StepOf, ReadOf

(* What a command accepts for a user that exists can be stored, but for the*)
(* number (AddAddressController.ts:54-60, AddressNumber.ts:12).            *)
LEMMA OnlyNumberMissing ==
  ASSUME NEW form \in Forms, CommandOf(form), ~Storable(form)
  PROVE  form.number \in {"null", "absent"}
BY DEF CommandOf, Storable, Forms, Fields, HasLength, Street, City, State, ZipCode

LEMMA AcceptableStep ==
  ASSUME AddressesInv, Service!OwnershipInv', FlushInv', [Next]_vars
  PROVE  OnlyAcceptable'
<1> DEFINE Good == {b \in Adds : CommandOf(body[b]) /\ userId[b] \in users}
<1>0. /\ UNCHANGED <<body, userId, users, databaseFails>>
      /\ body \in [Adds -> Forms] /\ instance \in [Adds -> SUBSET Adds]
      /\ loaded \in [Adds -> {"unknown", "found", "none", "failed"}]
      /\ \A a \in Adds : pc[a] # "idle" => CommandOf(body[a])
      /\ \A a \in Adds : loaded[a] = "found" => userId[a] \in users
      /\ addresses \cup upserts \subseteq Good
      /\ \A a \in Adds : instance[a] \subseteq Good
      /\ OnlyMissingNumberExits /\ TypeOK /\ userId \in [Requests -> Users]
      /\ Adds \subseteq Requests /\ Adds \subseteq EntityManagers
  BY RestTyped, Typed DEF AddressesInv, OnlyAcceptable, Acceptable, Requests
<1> USE DEF tables, inputs, useCaseVars, readVars, connection
<1>1. ASSUME NEW a \in Adds, StepOf(a)
      PROVE  \A b \in Adds : pc'[b] # "idle" => CommandOf(body[b])
  BY <1>0, <1>1, PhaseStep DEF Submit
<1>2. ASSUME NEW a \in Adds, StepOf(a)
      PROVE  /\ \A b \in Adds : loaded'[b] = "found" => userId[b] \in users
             /\ addresses' \cup upserts' \subseteq Good
             /\ \A b \in Adds : instance'[b] \subseteq Good
             /\ OnlyMissingNumberExits'
  <2>1. CASE FindById(a)
    <3>1. /\ UNCHANGED <<addresses, upserts, up>>
          /\ \E answer \in {"found", "none", "failed"} :
               loaded' = [loaded EXCEPT ![a] = answer] /\ (answer = "found" => userId[a] \in users)
          /\ \/ \E S \in Answers(a, userId[a]) : instance' = [instance EXCEPT ![a] = S]
             \/ UNCHANGED instance
      BY <2>1 DEF FindById
    <3>2. \A S \in Answers(a, userId[a]) : S \subseteq Good
      <4>1. userId[a] \in Users /\ a \in EntityManagers
        BY <1>0
      <4>2. \A S \in Answers(a, userId[a]) : S \subseteq AddressesOf(userId[a])
        BY <4>1 DEF AddressesInv, ReadsRows, Answers
      <4> QED
        BY <1>0, <4>2 DEF AddressesOf
    <3>3. \A b \in Adds : loaded'[b] = "found" => userId[b] \in users
      BY <1>0, <3>1
    <3>4. \A b \in Adds : instance'[b] \subseteq Good
      BY <1>0, <3>1, <3>2
    <3>5. OnlyMissingNumberExits'
      BY <1>0, <3>1 DEF OnlyMissingNumberExits
    <3> QED
      BY <1>0, <3>1, <3>3, <3>4, <3>5
  <2>2. CASE AddAddress(a)
    <3>1. /\ UNCHANGED <<addresses, upserts, up, loaded>> /\ loaded[a] = "found"
          /\ instance' = [instance EXCEPT ![a] = @ \cup {a}] /\ pc[a] = "useCase"
      BY <2>2 DEF AddAddress, App!Emit
    <3>2. a \in Good
      BY <1>0, <3>1
    <3>3. \A b \in Adds : instance'[b] \subseteq Good
      BY <1>0, <3>1, <3>2
    <3> QED
      BY <1>0, <3>1, <3>3 DEF OnlyMissingNumberExits
  <2>3. CASE Commit(a)
    <3>1. /\ UNCHANGED <<addresses, up, loaded, instance>>
          /\ upserts' = upserts \cup (IF a \in persisted'[a] THEN instance[a] ELSE {})
      BY <2>3 DEF Commit, Upsert
    <3> QED
      BY <1>0, <3>1 DEF OnlyMissingNumberExits
  <2>4. CASE RunUpsert(a)
    <3>1. /\ a \in upserts /\ upserts' = upserts \ {a} /\ UNCHANGED <<loaded, instance>> /\ up
          /\ \/ addresses' = addresses \cup {a} /\ up' = up
             \/ (~(Storable(body[a]) /\ userId[a] \in users) \/ databaseFails)
                /\ addresses' = addresses
      BY <2>4 DEF RunUpsert, InBackground, Quiet
    <3>2. a \in Good
      BY <1>0, <3>1
    <3>3. OnlyMissingNumberExits'
      <4>1. ~databaseFails /\ ~up' => ~Storable(body[a])
        BY <1>0, <3>1, <3>2
      <4>2. ~Storable(body[a]) => body[a].number \in {"null", "absent"}
        BY <1>0, <3>2, OnlyNumberMissing
      <4>3. userId[a] \in users
        BY <3>2
      <4> QED
        BY <1>0, <4>1, <4>2, <4>3 DEF OnlyMissingNumberExits
    <3> QED
      BY <1>0, <3>1, <3>2, <3>3
  <2>5. CASE RejectBody(a) \/ Submit(a) \/ NotFound(a) \/ Deliver(a) \/ SaveAll(a)
             \/ FlushReturns(a) \/ FlushThrows(a) \/ Rollback(a)
    <3>1. UNCHANGED <<addresses, upserts, up, loaded, instance>>
      BY <2>5 DEF RejectBody, Submit, NotFound, Deliver, SaveAll, FlushReturns, FlushThrows,
                  Rollback
    <3> QED
      BY <1>0, <3>1 DEF OnlyMissingNumberExits
  <2> QED
    BY <1>2, <2>1, <2>2, <2>3, <2>4, <2>5 DEF StepOf, Proceed
<1>3. ASSUME UNCHANGED <<pc, addresses, upserts, up, loaded, instance>>
      PROVE  OnlyAcceptable'
  BY <1>0, <1>3 DEF OnlyAcceptable, Acceptable, OnlyMissingNumberExits
<1>4. ASSUME NEW a \in Adds, StepOf(a)
      PROVE  OnlyAcceptable'
  <2>1. Acceptable' = Good
    BY <1>0 DEF Acceptable
  <2> QED
    BY <1>0, <1>1, <1>2, <1>4, <2>1 DEF OnlyAcceptable
<1>5. ASSUME NEW g \in Gets, ReadOf(g)
      PROVE  OnlyAcceptable'
  BY <1>3, <1>5 DEF ReadOf, GetUser, GetAnswers, appVars
<1>6. CASE UNCHANGED vars
  BY <1>3, <1>6 DEF vars, appVars
<1>7. ASSUME NEW em \in EntityManagers, Serve(em)
      PROVE  OnlyAcceptable'
  BY <1>3, <1>7 DEF Serve, IssueCommit, TransactionCommits, TransactionFails, NothingToWrite,
                    appVars
<1> QED
  BY <1>4, <1>5, <1>6, <1>7 DEF Next, Finished, StepOf, ReadOf

LEMMA AddressesStep ==
  ASSUME AddressesInv, Service!OwnershipInv, Service!OwnershipInv', [Next]_vars
  PROVE  AddressesInv'
<1>1. ASSUME NEW a \in Adds, StepOf(a)
      PROVE  ExecutionsKept
  BY <1>1, QuietKeeps, BeginKeeps, UseCaseKeeps, LoopKeeps, CommitKeeps, EndKeeps
     DEF StepOf, Proceed
<1>2. ExecutionsKept
  BY <1>1, ReadKeeps DEF Next, Finished, StepOf, ReadOf
<1>3. FlushInv' /\ CommitsForSomebody'
  BY FlushStep, CommittingStep
<1>4. TypeOK' /\ Answered' /\ ReadsRows' /\ OnlyAcceptable' /\ FirstFork'
  BY <1>3, RestTyped, ReadsStep, AcceptableStep, ForkStep
<1> QED
  BY <1>2, <1>3, <1>4 DEF AddressesInv, ExecutionsKept

LEMMA AddressesInvariant == Spec => []AddressesInv
<1>1. Init => AddressesInv
  BY AddressesInit
<1>2. AddressesInv /\ Service!OwnershipInv /\ Service!OwnershipInv' /\ [Next]_vars
        => AddressesInv'
  BY AddressesStep
<1>3. Spec => []Service!OwnershipInv
  BY AddressesRunExecutions, PTL
<1> QED
  BY <1>1, <1>2, <1>3, PTL DEF Spec

-----------------------------------------------------------------------------

(* The state of the requests, of the provider and of the tables stays      *)
(* within its types, whatever is interleaved and whatever fails.           *)
THEOREM AddressesTypeCorrect == Spec => []TypeOK
<1>1. AddressesInv => TypeOK
  BY DEF AddressesInv
<1> QED
  BY <1>1, AddressesInvariant, PTL

(* Of two requests that write one user back neither undoes the other: an   *)
(* address answered 201 has a row or an upsert to run (UserMapper.ts:36-57,*)
(* MikroOrmAggregatePersister.ts:51-61). Its event is in system_events,    *)
(* unless the EntityManager it was persisted in was made to forget it:     *)
(* nothing else that other requests do to that EntityManager, no order of  *)
(* the flushes queued in it and no failure of one of them loses it         *)
(* (MikroOrmUnitOfWork.ts:29, 44).                                         *)
THEOREM AcceptedStays == Spec => []AcceptedIsNotLost
<1>1. AddressesInv => AcceptedIsNotLost
  BY DEF AddressesInv, Recorded, FlushInv, OrmFacts!Done, AcceptedIsNotLost
<1> QED
  BY <1>1, AddressesInvariant, PTL

(* GET shows rows of its user only, whatever EntityManager it reads        *)
(* through (GetUserController.ts:23, MikroOrmUserRepository.ts:28).        *)
THEOREM ReadsAreTrue == Spec => []ShownIsStored
<1>1. AddressesInv => ShownIsStored
  BY DEF AddressesInv, ReadsRows
<1> QED
  BY <1>1, AddressesInvariant, PTL

(* While the database works only a body without a number ends the process  *)
(* (AddAddressController.ts:54-60, AddressNumber.ts:12).                   *)
THEOREM ExitsForNumbersOnly == Spec => []OnlyMissingNumberExits
<1>1. AddressesInv => OnlyMissingNumberExits
  BY DEF AddressesInv, OnlyAcceptable
<1> QED
  BY <1>1, AddressesInvariant, PTL

(* While the database works a GET fails only before the first command of   *)
(* the process, or while somebody waits for a flush, whose COMMIT the      *)
(* EntityManager may be in: no EntityManager that commands have put in the *)
(* provider, or left there when they failed, refuses reads for good        *)
(* (GetUserController.ts:23, MikroOrmUserRepository.ts:28,                 *)
(* EntityManagerProvider.ts:8-22).                                         *)
THEOREM ReadsFailAtFirstOnly == Spec => GetFailsOnlyAtFirst
<1> DEFINE FailsAtFirst ==
      \A g \in Gets : ~databaseFails /\ response[g] = "none" /\ response'[g] = "error" =>
        (\A a \in Adds : pc[a] = "idle") \/ (\E a \in Adds : pc[a] = "flush")
<1>1. ASSUME AddressesInv, [Next]_vars
      PROVE  FailsAtFirst
  <2>1. SUFFICES ASSUME NEW g \in Gets, ~databaseFails,
                        response[g] = "none", response'[g] = "error"
                 PROVE  (\A a \in Adds : pc[a] = "idle") \/ (\E a \in Adds : pc[a] = "flush")
    OBVIOUS
  <2>2. Answered /\ g \notin Adds /\ g \in Requests
    BY <1>1, NamesAssumption DEF AddressesInv, Requests
  <2>3. ASSUME NEW a \in Adds, StepOf(a)
        PROVE  FALSE
    <3>1. \E status : response' = [response EXCEPT ![a] = status] \/ response' = response
      BY <2>3 DEF StepOf, Proceed, RejectBody, Submit, FindById, AddAddress, NotFound, Deliver,
                  SaveAll, Commit, FlushReturns, FlushThrows, Rollback, RunUpsert, Respond
    <3> QED
      BY <2>1, <2>2, <3>1 DEF Answered
  <2>4. ASSUME NEW h \in Gets, ReadOf(h)
        PROVE  entityManager \in {OrmEm, committing}
    <3>1. h = g
      BY <2>1, <2>2, <2>4 DEF ReadOf, GetUser, GetAnswers, Respond, Answered
    <3>2. h \in Requests /\ "ok" # "error" /\ "notFound" # "error"
      BY <2>4 DEF Requests
    <3> QED
      BY <2>1, <2>2, <2>4, <3>1, <3>2 DEF ReadOf, GetUser, GetAnswers, Respond, Answered
  <2>5. ~UNCHANGED vars
    BY <2>1 DEF vars
  <2>6. ASSUME NEW em \in EntityManagers, Serve(em)
        PROVE  FALSE
    BY <2>1, <2>6 DEF Serve, IssueCommit, TransactionCommits, TransactionFails, NothingToWrite
  <2>7. entityManager = OrmEm => \A a \in Adds : pc[a] = "idle"
    BY <1>1 DEF AddressesInv, FirstFork
  <2>8. entityManager = committing => \E a \in Adds : pc[a] = "flush"
    <3>1. SUFFICES ASSUME entityManager = committing
                   PROVE  \E a \in Adds : pc[a] = "flush"
      OBVIOUS
    <3>2. entityManager \in EntityManagers /\ TypeOK /\ FlushInv
      BY <1>1, Typed DEF AddressesInv
    <3>3. committing # Nobody
      BY <3>1, <3>2, NamesAssumption DEF EntityManagers
    <3>4. committing \in EntityManagers /\ writer[committing] # Nobody
      BY <1>1, <3>3 DEF AddressesInv, CommitsForSomebody
    <3>5. writer[committing] \in Adds
      BY <3>2, <3>4, OrmStates DEF TypeOK, Orm!TypeOK
    <3>6. writer[committing] \in OrmFacts!Flushers
      BY <3>4, <3>5, OrmStates DEF OrmFacts!Flushers, OrmFacts!Flushing
    <3> QED
      BY <3>2, <3>5, <3>6 DEF FlushInv
  <2>9. \E h \in Gets : ReadOf(h)
    BY <1>1, <2>3, <2>5, <2>6 DEF Next, Finished, StepOf, ReadOf
  <2> QED
    BY <2>4, <2>7, <2>8, <2>9
<1> QED
  BY <1>1, AddressesInvariant, PTL DEF Spec, GetFailsOnlyAtFirst
=============================================================================
