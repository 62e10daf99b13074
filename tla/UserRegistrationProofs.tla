----------------------- MODULE UserRegistrationProofs -----------------------
(***************************************************************************)
(* Theorems about UserRegistration for any number of requests, addresses   *)
(* and faults.                                                             *)
(*                                                                         *)
(* The composition runs ApplicationService and MikroOrm, so what is proved *)
(* about those modules holds here; Service and OrmFacts name their         *)
(* theorems.                                                               *)
(***************************************************************************)
EXTENDS UserRegistration, SequenceTheorems, TLAPS

Service ==
  INSTANCE ApplicationServiceProofs WITH
    Contexts <- Requests, Exec <- Executions,
    Aggregates <- Commands, Adapters <- Notifications,
    Events <- Executions, Retained <- {},
    EmittingPhases <- {"useCase"}, CatchingSubscribers <- FALSE

OrmFacts == INSTANCE MikroOrmProofs

-----------------------------------------------------------------------------
(* Names.                                                                  *)

(* The two executions of a request have names of their own.                *)
LEMMA NamesApart ==
  /\ \A r \in Requests : createUser(r) \in Executions /\ sendWelcomeEmail(r) \in Executions
  /\ \A q, r \in Requests : createUser(q) = createUser(r) => q = r
  /\ \A q, r \in Requests : sendWelcomeEmail(q) = sendWelcomeEmail(r) => q = r
  /\ \A q, r \in Requests : createUser(q) # sendWelcomeEmail(r)
  /\ \A x \in Executions : \E r \in Requests : x = createUser(r) \/ x = sendWelcomeEmail(r)
  /\ \A r \in Requests : createUser(r) \in Commands /\ sendWelcomeEmail(r) \notin Commands
BY DEF Executions, Commands, Notifications, createUser, sendWelcomeEmail

(* What ApplicationService assumes of its constants.                       *)
LEMMA ServiceAssumptions ==
  Service!SourcesAssumption /\ Service!EmittingAssumption /\ Service!CatchingAssumption
<1>1. Commands \cap Notifications = {}
  BY DEF Commands, Notifications, createUser, sendWelcomeEmail
<1> QED
  BY <1>1 DEF Service!SourcesAssumption, Service!EmittingAssumption,
              Service!CatchingAssumption, Service!Sources

-----------------------------------------------------------------------------
(* The composition runs ApplicationService.                                *)

(* What a request does to the state of ApplicationService is a step of it. *)
LEMMA ServiceSteps ==
  ASSUME NEW r, NEW x
  PROVE  /\ App!Begin(r, x) => Service!Begin(r, x)
         /\ App!UseCaseReturns(r, x) => Service!UseCaseReturns(r, x)
         /\ App!UseCaseThrows(r, x) => Service!UseCaseThrows(r, x)
         /\ App!DispatchDone(r, x) => Service!DispatchDone(r, x)
         /\ App!PublishDone(r, x) => Service!PublishDone(r, x)
         /\ App!SaveAll(r, x) => Service!SaveAll(r, x)
         /\ App!Commit(r, x) => Service!Commit(r, x)
         /\ App!CommitReturns(r, x) => Service!CommitReturns(r, x)
         /\ App!CommitThrows(r, x) => Service!CommitThrows(r, x)
         /\ App!Rollback(r, x) => Service!Rollback(r, x)
         /\ \A e : App!DispatchEvent(r, x, e) => Service!DispatchEvent(r, x, e)
         /\ \A e : App!PublishEvent(r, x, e) => Service!PublishEvent(r, x, e)
         /\ \A s, e : App!Emit(r, x, s, e) => Service!Emit(r, x, s, e)
<1> USE DEF App!Delivering, Service!Delivering, App!Ended, Service!Ended,
            App!Sources, Service!Sources, App!sourceVars, Service!sourceVars,
            App!outputVars, Service!outputVars, App!Innermost, Service!Innermost,
            App!Pop, Service!Pop, App!BeginScope, Service!BeginScope,
            App!TrackIn, Service!TrackIn, App!PeekScope, Service!PeekScope,
            App!DrainedSources, Service!DrainedSources, App!DrainScope, Service!DrainScope,
            App!ClearScope, Service!ClearScope, App!Running, Service!Running,
            App!At, Service!At, App!Goto, Service!Goto, App!InHandler, Service!InHandler,
            App!LoopDone, Service!LoopDone, App!Rethrow, Service!Rethrow,
            App!DrainDomainEvents, Service!DrainDomainEvents
<1>1. App!Begin(r, x) => Service!Begin(r, x)
  BY DEF App!Begin, Service!Begin
<1>2. /\ App!UseCaseReturns(r, x) => Service!UseCaseReturns(r, x)
      /\ App!UseCaseThrows(r, x) => Service!UseCaseThrows(r, x)
  BY DEF App!UseCaseReturns, Service!UseCaseReturns, App!UseCaseThrows, Service!UseCaseThrows
<1>3. /\ App!DispatchDone(r, x) => Service!DispatchDone(r, x)
      /\ App!PublishDone(r, x) => Service!PublishDone(r, x)
      /\ App!SaveAll(r, x) => Service!SaveAll(r, x)
  BY DEF App!DispatchDone, Service!DispatchDone, App!PublishDone, Service!PublishDone,
         App!SaveAll, Service!SaveAll
<1>4. /\ App!Commit(r, x) => Service!Commit(r, x)
      /\ App!CommitReturns(r, x) => Service!CommitReturns(r, x)
      /\ App!CommitThrows(r, x) => Service!CommitThrows(r, x)
      /\ App!Rollback(r, x) => Service!Rollback(r, x)
  BY DEF App!Commit, Service!Commit, App!CommitReturns, Service!CommitReturns,
         App!CommitThrows, Service!CommitThrows, App!Rollback, Service!Rollback
<1>5. /\ \A e : App!DispatchEvent(r, x, e) => Service!DispatchEvent(r, x, e)
      /\ \A e : App!PublishEvent(r, x, e) => Service!PublishEvent(r, x, e)
      /\ \A s, e : App!Emit(r, x, s, e) => Service!Emit(r, x, s, e)
  BY DEF App!DispatchEvent, Service!DispatchEvent, App!PublishEvent, Service!PublishEvent,
         App!Emit, Service!Emit
<1> QED
  BY <1>1, <1>2, <1>3, <1>4, <1>5

(* So is what it does to the EntityManagers a step of MikroOrm, of whose   *)
(* state both modules say the same.                                        *)
LEMMA OrmStates ==
  /\ Orm!EntityManagers = EntityManagers /\ OrmFacts!EntityManagers = EntityManagers
  /\ Orm!Init => OrmFacts!Init
  /\ Orm!TypeOK <=> OrmFacts!TypeOK
<1>1. Orm!EntityManagers = EntityManagers /\ OrmFacts!EntityManagers = EntityManagers
  BY DEF Orm!EntityManagers, OrmFacts!EntityManagers, EntityManagers
<1>2. Orm!Init => OrmFacts!Init
  BY <1>1 DEF Orm!Init, OrmFacts!Init
<1>3. Orm!TypeOK <=> OrmFacts!TypeOK
  BY <1>1 DEF Orm!TypeOK, OrmFacts!TypeOK
<1> QED
  BY <1>1, <1>2, <1>3

LEMMA OrmQueues ==
  ASSUME NEW x, NEW em
  PROVE  /\ Orm!Queued(x, em) <=> OrmFacts!Queued(x, em)
         /\ Orm!Flushing(x, em) <=> OrmFacts!Flushing(x, em)
BY DEF Orm!Queued, OrmFacts!Queued, Orm!Flushing, OrmFacts!Flushing

LEMMA OrmSteps ==
  ASSUME NEW x
  PROVE  /\ Orm!Clear => OrmFacts!Clear
         /\ Orm!Fork(x) => OrmFacts!Fork(x)
         /\ Orm!Persist(x) => OrmFacts!Persist(x)
         /\ Orm!Flush(x) => OrmFacts!Flush(x)
         /\ Orm!Returns(x) => OrmFacts!Returns(x)
         /\ Orm!Throws(x) => OrmFacts!Throws(x)
BY DEF Orm!Clear, OrmFacts!Clear, Orm!Fork, OrmFacts!Fork, Orm!Persist, OrmFacts!Persist,
       Orm!Flush, OrmFacts!Flush, Orm!Returns, OrmFacts!Returns, Orm!Throws, OrmFacts!Throws,
       Orm!flushVars, OrmFacts!flushVars, Orm!Forget, OrmFacts!Forget

LEMMA OrmServes ==
  ASSUME NEW em, Orm!Working(em), Orm!Written(em) \/ Orm!Refused(em)
  PROVE  OrmFacts!Served(em)
BY DEF Orm!Working, OrmFacts!Working, Orm!Written, OrmFacts!Written, Orm!Refused,
       OrmFacts!Refused, Orm!QueuedRefused, OrmFacts!QueuedRefused, Orm!RunnerRefused,
       OrmFacts!RunnerRefused, Orm!ServeNext, OrmFacts!ServeNext, Orm!Settling,
       OrmFacts!Settling, Orm!Forget, OrmFacts!Forget, OrmFacts!Served

(* Every step of the composition is one of ApplicationService, or leaves it*)
(* alone.                                                                  *)
LEMMA ServiceNext ==
  ASSUME [Next]_vars
  PROVE  [Service!Next]_(Service!vars)
<1> DEFINE Advances(r, x) ==
      \/ Service!UseCaseReturns(r, x) \/ Service!UseCaseThrows(r, x)
      \/ \E e \in Executions : Service!DispatchEvent(r, x, e) \/ Service!PublishEvent(r, x, e)
      \/ Service!DispatchDone(r, x) \/ Service!PublishDone(r, x)
      \/ Service!SaveAll(r, x) \/ Service!Commit(r, x)
      \/ Service!CommitReturns(r, x) \/ Service!CommitThrows(r, x) \/ Service!Rollback(r, x)
<1>1. ASSUME NEW r \in Requests, NEW x \in Executions, Advances(r, x)
      PROVE  Service!Next
  BY <1>1 DEF Service!Next, Service!Advance
<1>2. ASSUME NEW r \in Requests, NEW x \in Executions, Service!Begin(r, x)
      PROVE  Service!Next
  BY <1>2 DEF Service!Next
<1>3. ASSUME NEW r \in Requests, NEW x \in Executions, Service!Emit(r, x, x, x)
      PROVE  Service!Next
  BY <1>3 DEF Service!Next, Service!Sources, Executions
<1>4. ASSUME UNCHANGED appVars
      PROVE  UNCHANGED Service!vars
  BY <1>4 DEF appVars, Service!vars, Service!sourceVars, Service!outputVars
<1>5. ASSUME NEW r \in Requests, NEW x \in Executions, Execute(r, x)
      PROVE  Advances(r, x)
  BY <1>5, ServiceSteps
     DEF Execute, UseCaseReturns, DispatchEvent, DispatchDone, PublishEvent, PublishDone,
         SaveAll, Commit, FlushReturns, FlushThrows, Rollback
<1> HIDE DEF Advances
<1>6. ASSUME NEW r \in Requests, Proceed(r)
      PROVE  Service!Next \/ UNCHANGED Service!vars
  <2>0. createUser(r) \in Executions /\ sendWelcomeEmail(r) \in Executions
    BY NamesApart
  <2>1. CASE FindByEmail(r) \/ FindByEmailFails(r)
    BY <1>4, <2>1 DEF FindByEmail, FindByEmailFails
  <2>2. CASE CreateUser(r) \/ SendWelcomeEmail(r)
    BY <1>3, <2>0, <2>2, ServiceSteps DEF CreateUser, SendWelcomeEmail
  <2>3. CASE RejectDuplicate(r)
    <3>1. Advances(r, createUser(r))
      BY <2>3, ServiceSteps DEF RejectDuplicate, Advances
    <3> QED
      BY <1>1, <2>0, <3>1
  <2>4. CASE SubscriberBegins(r)
    BY <1>2, <2>0, <2>4, ServiceSteps DEF SubscriberBegins
  <2>5. CASE \E x \in {createUser(r), sendWelcomeEmail(r)} : Execute(r, x)
    BY <1>1, <1>5, <2>0, <2>5
  <2> QED
    BY <1>6, <2>1, <2>2, <2>3, <2>4, <2>5 DEF Proceed
<1>7. ASSUME NEW r \in Requests, RejectInvalid(r) \/ Submit(r) \/ RunUpsert(r)
      PROVE  Service!Next \/ UNCHANGED Service!vars
  BY <1>2, <1>4, <1>7, NamesApart, ServiceSteps DEF RejectInvalid, Submit, RunUpsert
<1>8. ASSUME NEW em \in EntityManagers, Serve(em)
      PROVE  UNCHANGED Service!vars
  BY <1>4, <1>8 DEF Serve, TransactionCommits, TransactionFails, NothingToWrite
<1>9. CASE UNCHANGED vars
  BY <1>4, <1>9 DEF vars
<1> QED
  BY <1>6, <1>7, <1>8, <1>9 DEF Next, Finished

(* The requests, however they interleave, are executions of                *)
(* ApplicationService, each with the aggregates it emitted on, and units of*)
(* work (CreateUserController.ts:34, MikroOrmUnitOfWork.ts:20-48).         *)
THEOREM RegistrationRunsExecutions ==
  Spec => Service!Spec /\ []Service!OwnershipInv /\ Service!ImplementsUnitOfWork
<1>1. Init => Service!Init
  BY DEF Init, App!Init, Service!Init, App!Sources, Service!Sources
<1>2. ASSUME [Next]_vars
      PROVE  [Service!Next]_(Service!vars)
  BY <1>2, ServiceNext
<1>3. Spec => Service!Spec
  BY <1>1, <1>2, PTL DEF Spec, Service!Spec
<1>4. Service!Spec => []Service!OwnershipInv
  BY Service!ScopesBelongToCalls, ServiceAssumptions
<1>5. Service!Spec => Service!ImplementsUnitOfWork
  BY Service!UnitOfWorkImplemented, ServiceAssumptions
<1> QED
  BY <1>3, <1>4, <1>5, PTL

-----------------------------------------------------------------------------
(* The invariant.                                                          *)

Inactive == {"idle", "returned", "threw"}

(* A request is inside its own executions only, the notification nested in *)
(* the command.                                                            *)
CallsOf(r) ==
  IF pc[createUser(r)] \in Inactive THEN <<>>
  ELSE IF pc[sendWelcomeEmail(r)] \in Inactive THEN <<createUser(r)>>
  ELSE <<createUser(r), sendWelcomeEmail(r)>>

(* A request whose turn it is not waits for the lookup or for a flush.     *)
Waits(r) ==
  /\ pc[createUser(r)] \in Inactive \cup {"useCase", "publish", "flush"}
  /\ pc[createUser(r)] = "useCase" => emitted[createUser(r)] = {}
  /\ pc[createUser(r)] = "publish" => pc[sendWelcomeEmail(r)] = "flush"

(* The notification runs while the command publishes, and has succeeded if *)
(* the command goes on.                                                    *)
InOrder(r) ==
  /\ calls[r] = CallsOf(r)
  /\ pc[sendWelcomeEmail(r)] \notin Inactive => pc[createUser(r)] = "publish"
  /\ pc[sendWelcomeEmail(r)] # "idle" \/ createUser(r) \in published =>
       pc[createUser(r)] \notin {"idle", "useCase", "dispatch"}
  /\ pc[createUser(r)] \in {"store", "commit", "flush", "returned"} =>
       pc[sendWelcomeEmail(r)] = "returned"
  /\ pc[sendWelcomeEmail(r)] = "threw" => pc[createUser(r)] \in {"rollback", "threw"}
  /\ r \in turn => /\ pc[createUser(r)] \notin Inactive \cup {"flush"}
                   /\ pc[sendWelcomeEmail(r)] # "flush"
  /\ r \notin turn => Waits(r)

(* A request that runs between its lookup and its notification runs alone: *)
(* the callback of the lookup settled nothing else.                        *)
BeforeNotification(r) ==
  /\ r \in turn
  /\ pc[createUser(r)] \in {"useCase", "dispatch", "publish"}
  /\ pc[sendWelcomeEmail(r)] = "idle"
Alone(r) == BeforeNotification(r) => turn = {r} /\ Orm!Idle

(* An execution has one source and one event, which goes from the use case *)
(* by way of the source to the list of its events.                         *)
OwnEvent(x) ==
  /\ emitted[x] \subseteq {x} /\ touched[x] = emitted[x]
  /\ events[x] \subseteq emitted[x] /\ todo[x] \subseteq events[x]
  /\ pc[x] = "idle" => emitted[x] = {}
  /\ pc[x] \in {"idle", "useCase"} => domainEvents[x] = emitted[x]
  /\ pc[x] \in {"dispatch", "publish", "store", "commit", "flush", "returned"} => events[x] = {x}
  /\ x \in published => events[x] = {x}

(* A queued flush waits for that of another request, or that other request *)
(* has failed.                                                             *)
WaitsBehind ==
  \A em \in EntityManagers : \A x \in Executions :
    OrmFacts!Queued(x, em) =>
      \E q \in Requests :
        /\ x \notin {createUser(q), sendWelcomeEmail(q)}
        /\ runner[em] \in {createUser(q), sendWelcomeEmail(q)} \/ Failed(q)

(* Those at their flush are those that MikroOrm knows of.  The event of an *)
(* execution is pending in the EntityManager that its flush is going to    *)
(* take, and once it has returned it has been written, unless some clear   *)
(* has found it.                                                           *)
FlushInv ==
  /\ OrmFacts!OrmInv
  /\ \A x \in Executions :
       /\ pc[x] = "flush" <=> x \in OrmFacts!Flushers
       /\ pc[x] = "commit" => x \in pending[entityManager] \cup OrmFacts!Done
       /\ pc[x] = "returned" => x \in OrmFacts!Done
  /\ WaitsBehind

(* What the answer, the row and the email of a request say of each other.  *)
Refusals == {"invalid", "conflict", "error", "failed"}
Recorded(r) ==
  /\ response[r] # "none" => pc[createUser(r)] \in Inactive
  /\ response[r] = "created" => pc[createUser(r)] = "returned"
  /\ response[r] \in Refusals => pc[createUser(r)] \in {"idle", "threw"}
  /\ pc[createUser(r)] \in {"flush", "returned"} /\ up => r \in users \cup upserts
  /\ r \in users \cup upserts => emitted[createUser(r)] # {}
  /\ pc[sendWelcomeEmail(r)] # "idle" => emitted[createUser(r)] # {}
  /\ existingUser[r] = "found" =>
       emitted[createUser(r)] = {} /\ \E q \in users : email[q] = email[r]
  /\ response[r] = "conflict" => existingUser[r] = "found"

RegistrationInv ==
  /\ TypeOK
  /\ \A r \in Requests : InOrder(r) /\ Alone(r) /\ Recorded(r)
  /\ \A x \in Executions : OwnEvent(x)
  /\ FlushInv

(* The calls of a request are few.                                         *)
LEMMA ShortCalls ==
  ASSUME NEW a, NEW b
  PROVE  /\ <<a>> # <<>> /\ <<a, b>> # <<>>
         /\ Append(<<>>, a) = <<a>> /\ Append(<<a>>, b) = <<a, b>>
         /\ App!Innermost(<<a>>) = a /\ App!Innermost(<<a, b>>) = b
         /\ App!Pop(<<a>>) = <<>> /\ App!Pop(<<a, b>>) = <<a>>
<1> DEFINE one == <<a>>
           two == <<a, b>>
<1>1. /\ one \in Seq({a, b}) /\ Len(one) = 1 /\ one[1] = a
      /\ two \in Seq({a, b}) /\ Len(two) = 2 /\ two[1] = a /\ two[2] = b
  OBVIOUS
<1>2. Append(<<>>, a) = one /\ one # <<>> /\ two # <<>>
  OBVIOUS
<1> HIDE DEF one, two
<1>3. Append(one, b) = two
  <2>1. /\ Append(one, b) \in Seq({a, b}) /\ Len(Append(one, b)) = 2
        /\ Append(one, b)[1] = a /\ Append(one, b)[2] = b
    BY <1>1, AppendProperties
  <2> QED
    BY <1>1, <2>1, SeqEqual
<1>4. SubSeq(two, 1, 1) = one
  <2>1. /\ SubSeq(two, 1, 1) \in Seq({a, b})
        /\ Len(SubSeq(two, 1, 1)) = 1
        /\ SubSeq(two, 1, 1)[1] = two[1]
    BY <1>1, SubSeqProperties
  <2> QED
    BY <1>1, <2>1, SeqEqual
<1>5. App!Innermost(one) = a /\ App!Innermost(two) = b
  BY <1>1 DEF App!Innermost
<1>6. App!Pop(one) = <<>>
  BY DEF App!Pop, one
<1>7. App!Pop(two) = one
  BY <1>1, <1>2, <1>4 DEF App!Pop
<1> QED
  BY <1>2, <1>3, <1>5, <1>6, <1>7 DEF one, two

(* What runs in the context of a request is its command, or the            *)
(* notification that its command has called.                               *)
LEMMA WhoRuns ==
  ASSUME NEW r \in Requests, InOrder(r), NEW x, App!Running(r, x)
  PROVE  \/ /\ x = createUser(r) /\ calls[r] = <<createUser(r)>>
            /\ pc[createUser(r)] \notin Inactive /\ pc[sendWelcomeEmail(r)] \in Inactive
         \/ /\ x = sendWelcomeEmail(r)
            /\ calls[r] = <<createUser(r), sendWelcomeEmail(r)>>
            /\ pc[sendWelcomeEmail(r)] \notin Inactive /\ pc[createUser(r)] = "publish"
BY ShortCalls DEF InOrder, CallsOf, App!Running

(* A request that takes no part in a step.                                 *)
LEMMA OthersInOrder ==
  ASSUME NEW q \in Requests, InOrder(q), q \in turn' <=> q \in turn,
         pc'[createUser(q)] = pc[createUser(q)],
         pc'[sendWelcomeEmail(q)] = pc[sendWelcomeEmail(q)],
         calls'[q] = calls[q], emitted'[createUser(q)] = emitted[createUser(q)],
         createUser(q) \in published' => createUser(q) \in published
  PROVE  InOrder(q)'
<1>1. CallsOf(q)' = CallsOf(q)
  BY DEF CallsOf
<1>2. Waits(q)' <=> Waits(q)
  BY DEF Waits
<1> QED
  BY <1>1, <1>2 DEF InOrder

LEMMA RegistrationInit ==
  ASSUME Init
  PROVE  RegistrationInv
<1> USE NamesApart DEF Init, App!Init
<1>1. OrmFacts!OrmInv /\ OrmFacts!Flushers = {}
  BY OrmStates, OrmFacts!OrmStarts, NamesAssumption
<1>2. TypeOK
  <2>1. App!TypeOK
    BY EmptySeq DEF App!TypeOK, App!Phases
  <2>2. Orm!TypeOK
    BY <1>1, OrmStates DEF OrmFacts!OrmInv
  <2>3. [email |-> email, nameless |-> nameless] \in Bodies
    <3>1. PICK body \in Bodies : email = body.email /\ nameless = body.nameless
      OBVIOUS
    <3>2. body = [email |-> body.email, nameless |-> body.nameless]
      BY RequestsAssumption
    <3> QED
      BY <3>1, <3>2
  <2> QED
    BY <2>1, <2>2, <2>3 DEF TypeOK
<1>3. \A r \in Requests : InOrder(r) /\ Alone(r)
  BY DEF InOrder, CallsOf, Waits, Inactive, Alone, BeforeNotification
<1>4. \A x \in Executions : OwnEvent(x)
  BY DEF OwnEvent, App!Sources, Executions
<1>5. FlushInv
  <2>1. \A x, em : em \in EntityManagers => ~OrmFacts!Queued(x, em)
    BY EmptySeq DEF OrmFacts!Queued, Orm!Init, Orm!EntityManagers, EntityManagers
  <2>2. \A x \in Executions : pc[x] = "idle"
    OBVIOUS
  <2> QED
    BY <1>1, <2>1, <2>2 DEF FlushInv, WaitsBehind
<1>6. \A r \in Requests : Recorded(r)
  BY DEF Recorded, Inactive, Refusals
<1> QED
  BY <1>2, <1>3, <1>4, <1>5, <1>6 DEF RegistrationInv

-----------------------------------------------------------------------------
(* What a step changes.                                                    *)

(* What a request does, or what is done for it.                            *)
StepOf(r) == RejectInvalid(r) \/ Submit(r) \/ Proceed(r) \/ RunUpsert(r)

(* An execution drains its own source and no other: its scope holds what it*)
(* touched (ApplicationService.ts:36-37).                                  *)
LEMMA CollectsOwn ==
  ASSUME RegistrationInv, Service!OwnershipInv,
         NEW r \in Requests, NEW x \in Executions, UseCaseReturns(r, x)
  PROVE  /\ App!Running(r, x) /\ pc[x] = "useCase" /\ emitted[x] = {x}
         /\ pc' = [pc EXCEPT ![x] = "dispatch"]
         /\ events' = [events EXCEPT ![x] = {x}] /\ todo' = [todo EXCEPT ![x] = {x}]
         /\ domainEvents' = [domainEvents EXCEPT ![x] = {}]
         /\ UNCHANGED <<calls, touched, emitted, published, stored, persisted>>
<1>1. /\ App!Running(r, x) /\ pc[x] = "useCase" /\ emitted[x] # {}
      /\ App!DrainDomainEvents(App!PeekScope(scopes[r]))
      /\ events' = [events EXCEPT ![x] = UNION {domainEvents[s] : s \in App!PeekScope(scopes[r])}]
      /\ todo' = [todo EXCEPT ![x] = UNION {domainEvents[s] : s \in App!PeekScope(scopes[r])}]
      /\ pc' = [pc EXCEPT ![x] = "dispatch"]
      /\ UNCHANGED <<calls, touched, emitted, published, stored, persisted>>
  BY DEF UseCaseReturns, App!UseCaseReturns, App!At, App!Goto, App!outputVars
<1>2. emitted[x] = {x} /\ touched[x] = {x} /\ domainEvents[x] = {x}
  BY <1>1 DEF RegistrationInv, OwnEvent
<1>3. App!PeekScope(scopes[r]) = {x}
  <2>1. Service!Running(r, x)
    BY <1>1 DEF App!Running, Service!Running, App!Innermost, Service!Innermost
  <2>2. scopes[r] # <<>> /\ Service!Innermost(scopes[r]) = touched[x]
    BY <1>1, <2>1, Service!OwnScope, ServiceAssumptions
  <2> QED
    BY <1>2, <2>2 DEF App!PeekScope, App!Innermost, Service!Innermost
<1>4. UNION {domainEvents[s] : s \in {x}} = {x}
  BY <1>2
<1>5. domainEvents \in [App!Sources -> SUBSET Executions] /\ App!Sources = Executions
  BY DEF RegistrationInv, TypeOK, App!TypeOK, App!Sources, Executions
<1>6. domainEvents' = [domainEvents EXCEPT ![x] = {}]
  BY <1>1, <1>3, <1>5 DEF App!DrainDomainEvents
<1> QED
  BY <1>1, <1>2, <1>3, <1>4, <1>6

(* A command hands its user to the persister, a notification nothing       *)
(* (TrackedUnitOfWork.ts:13-24, MikroOrmUnitOfWork.ts:20-30).              *)
LEMMA UpsertsOwn ==
  ASSUME RegistrationInv, Service!OwnershipInv', NEW r \in Requests,
         NEW x \in {createUser(r), sendWelcomeEmail(r)}, Commit(r, x)
  PROVE  upserts' = IF x = createUser(r) THEN upserts \cup {r} ELSE upserts
<1>0. x \in Executions
  BY NamesApart
<1>1. pc[x] = "commit" /\ pc' = [pc EXCEPT ![x] = "flush"] /\ touched' = touched
  BY DEF Commit, App!Commit, App!At, App!Goto, App!sourceVars
<1>2. touched[x] = {x}
  BY <1>0, <1>1 DEF RegistrationInv, OwnEvent
<1>3. pc'[x] = "flush"
  BY <1>0, <1>1 DEF RegistrationInv, TypeOK, App!TypeOK
<1>4. persisted'[x] = {x} \cap Commands
  BY <1>0, <1>1, <1>2, <1>3 DEF Service!OwnershipInv, Service!CommitPersistsOwn
<1>5. upserts' = upserts \cup {q \in Requests : createUser(q) \in {x} \cap Commands}
  BY <1>4 DEF Commit, UpsertUsers
<1>6. CASE x = createUser(r)
  BY <1>5, <1>6, NamesApart
<1>7. CASE x = sendWelcomeEmail(r)
  BY <1>5, <1>7, NamesApart
<1> QED
  BY <1>6, <1>7

(* The state of the executions other than those of r.                      *)
OthersRest(r) ==
  \A y \in Executions \ {createUser(r), sendWelcomeEmail(r)} :
    /\ pc'[y] = pc[y] /\ emitted'[y] = emitted[y] /\ touched'[y] = touched[y]
    /\ events'[y] = events[y] /\ todo'[y] = todo[y] /\ domainEvents'[y] = domainEvents[y]
    /\ y \in published' <=> y \in published

(* A step for r leaves the executions, the answers and the rows of the     *)
(* other requests alone.                                                   *)
LEMMA OnlyOwn ==
  ASSUME RegistrationInv, Service!OwnershipInv, Service!OwnershipInv',
         NEW r \in Requests, StepOf(r)
  PROVE  /\ OthersRest(r)
         /\ \A q \in Requests \ {r} :
              /\ q \in turn' <=> q \in turn
              /\ calls'[q] = calls[q] /\ response'[q] = response[q]
              /\ existingUser'[q] = existingUser[q]
              /\ q \in upserts' <=> q \in upserts
              /\ q \in users' <=> q \in users
         /\ bodies' = bodies /\ users \subseteq users' /\ (up' => up)
<1> DEFINE Own == /\ OthersRest(r)
                  /\ \A q \in Requests \ {r} :
                       /\ q \in turn' <=> q \in turn
                       /\ calls'[q] = calls[q] /\ response'[q] = response[q]
                       /\ existingUser'[q] = existingUser[q]
                       /\ q \in upserts' <=> q \in upserts
                       /\ q \in users' <=> q \in users
                  /\ bodies' = bodies /\ users \subseteq users' /\ (up' => up)
           c == createUser(r)
           s == sendWelcomeEmail(r)
<1>0. c \in Executions /\ s \in Executions
  BY NamesApart
<1>t. /\ pc \in [Executions -> App!Phases] /\ emitted \in [Executions -> SUBSET Executions]
      /\ calls \in [Requests -> Seq(Executions)] /\ todo \in [Executions -> SUBSET Executions]
      /\ touched \in [Executions -> SUBSET Executions]
      /\ events \in [Executions -> SUBSET Executions]
      /\ domainEvents \in [Executions -> SUBSET Executions]
      /\ response \in [Requests -> {"none", "created", "invalid", "conflict", "error", "failed"}]
      /\ existingUser \in [Requests -> {"unknown", "found", "none", "failed"}]
  BY DEF RegistrationInv, TypeOK, App!TypeOK, App!Sources, Executions
<1> USE DEF OthersRest
<1>1. CASE RejectInvalid(r) \/ FindByEmail(r) \/ FindByEmailFails(r) \/ RunUpsert(r)
  <2>1. turn' = turn /\ UNCHANGED <<appVars, bodies>>
    BY <1>1 DEF RejectInvalid, FindByEmail, FindByEmailFails, RunUpsert, InBackground
  <2>2. OthersRest(r) /\ calls' = calls
    BY <2>1 DEF appVars
  <2>3. CASE RejectInvalid(r)
    BY <1>t, <2>1, <2>2, <2>3 DEF RejectInvalid, tables
  <2>4. CASE FindByEmail(r) \/ FindByEmailFails(r)
    BY <1>t, <2>1, <2>2, <2>4 DEF FindByEmail, FindByEmailFails, tables
  <2>5. CASE RunUpsert(r)
    BY <1>t, <2>1, <2>2, <2>5 DEF RunUpsert, requestVars
  <2> QED
    BY <1>1, <2>3, <2>4, <2>5
<1>2. CASE Submit(r) \/ SubscriberBegins(r)
  <2>1. PICK x \in {c, s} : App!Begin(r, x)
    BY <1>2 DEF Submit, SubscriberBegins
  <2>2. turn' = turn /\ UNCHANGED <<tables, requestVars, bodies, up>>
    BY <1>2 DEF Submit, SubscriberBegins, InBackground, Continues
  <2>3. /\ pc' = [pc EXCEPT ![x] = "useCase"] /\ calls' = [calls EXCEPT ![r] = Append(@, x)]
        /\ UNCHANGED <<emitted, touched, events, todo, domainEvents, published>>
    BY <2>1 DEF App!Begin, App!Goto, App!sourceVars, App!outputVars
  <2> QED
    BY <1>t, <2>2, <2>3 DEF tables, requestVars
<1>3. CASE CreateUser(r) \/ SendWelcomeEmail(r)
  <2>1. PICK x \in {c, s} : App!Emit(r, x, x, x)
    BY <1>3 DEF CreateUser, SendWelcomeEmail
  <2>2. /\ turn' = turn \/ (turn = {} /\ turn' = {r})
        /\ UNCHANGED <<tables, requestVars, bodies, up>>
    BY <1>3 DEF CreateUser, SendWelcomeEmail, Resumes, Continues, Quiet
  <2>3. /\ emitted' = [emitted EXCEPT ![x] = @ \cup {x}]
        /\ touched' = [touched EXCEPT ![x] = @ \cup {x}]
        /\ domainEvents' = [domainEvents EXCEPT ![x] = @ \cup {x}]
        /\ UNCHANGED <<pc, calls, events, todo, published>>
    BY <2>1 DEF App!Emit, App!outputVars
  <2> QED
    BY <1>t, <2>2, <2>3 DEF tables, requestVars
<1>4. CASE RejectDuplicate(r)
  BY <1>4, <1>t DEF RejectDuplicate, Resumes, Quiet, App!UseCaseThrows, App!Goto,
                    App!sourceVars, App!outputVars, tables, requestVars
<1>5. ASSUME NEW x \in {c, s}, Execute(r, x)
      PROVE  Own
  <2>1. CASE UseCaseReturns(r, x)
    <3>1. /\ pc' = [pc EXCEPT ![x] = "dispatch"]
          /\ events' = [events EXCEPT ![x] = {x}] /\ todo' = [todo EXCEPT ![x] = {x}]
          /\ domainEvents' = [domainEvents EXCEPT ![x] = {}]
          /\ UNCHANGED <<calls, touched, emitted, published>>
      BY <1>0, <2>1, CollectsOwn
    <3>2. turn' = turn /\ UNCHANGED <<tables, requestVars, bodies, up>>
      BY <2>1 DEF UseCaseReturns, Continues
    <3> QED
      BY <1>t, <3>1, <3>2 DEF tables, requestVars
  <2>2. CASE DispatchEvent(r, x) \/ PublishEvent(r, x)
    <3>1. PICK e \in Executions : App!DispatchEvent(r, x, e) \/ App!PublishEvent(r, x, e)
      BY <2>2 DEF DispatchEvent, PublishEvent
    <3>2. /\ e \in todo[x] /\ todo' = [todo EXCEPT ![x] = @ \ {e}]
          /\ published' \in {published, published \cup {e}}
          /\ UNCHANGED <<pc, calls, emitted, touched, events, domainEvents>>
      BY <3>1 DEF App!DispatchEvent, App!PublishEvent, App!sourceVars, App!outputVars
    <3>3. e = x
      BY <1>0, <3>2 DEF RegistrationInv, OwnEvent
    <3>4. turn' = turn /\ UNCHANGED <<tables, requestVars, bodies, up>>
      BY <2>2 DEF DispatchEvent, PublishEvent, Continues
    <3> QED
      BY <1>t, <3>2, <3>3, <3>4 DEF tables, requestVars
  <2>3. CASE DispatchDone(r, x) \/ PublishDone(r, x) \/ SaveAll(r, x)
    <3>1. /\ \E phase : pc' = [pc EXCEPT ![x] = phase]
          /\ \E left : todo' = [todo EXCEPT ![x] = left] \/ todo' = todo
          /\ UNCHANGED <<calls, emitted, touched, events, domainEvents, published>>
      BY <2>3 DEF DispatchDone, PublishDone, SaveAll, App!DispatchDone, App!PublishDone,
                  App!SaveAll, App!Goto, App!sourceVars, App!outputVars
    <3>2. turn' = turn /\ UNCHANGED <<tables, requestVars, bodies, up>>
      BY <2>3 DEF DispatchDone, PublishDone, SaveAll, Continues
    <3> QED
      BY <1>t, <3>1, <3>2 DEF tables, requestVars
  <2>4. CASE Commit(r, x)
    <3>1. /\ pc' = [pc EXCEPT ![x] = "flush"]
          /\ UNCHANGED <<calls, emitted, touched, events, todo, domainEvents, published>>
      BY <2>4 DEF Commit, App!Commit, App!Goto, App!sourceVars
    <3>2. turn' = turn \ {r} /\ UNCHANGED <<users, requestVars, bodies, up>>
      BY <2>4 DEF Commit, Yields
    <3>3. upserts' = IF x = createUser(r) THEN upserts \cup {r} ELSE upserts
      BY <2>4, UpsertsOwn
    <3> QED
      BY <1>t, <3>1, <3>2, <3>3 DEF requestVars
  <2>5. CASE FlushReturns(r, x)
    <3>1. /\ pc' = [pc EXCEPT ![x] = "returned"] /\ calls' = [calls EXCEPT ![r] = App!Pop(@)]
          /\ UNCHANGED <<emitted, touched, events, todo, domainEvents, published>>
      BY <2>5 DEF FlushReturns, App!CommitReturns, App!Goto, App!sourceVars, App!outputVars
    <3>2. /\ turn' \in {turn, turn \cup {r}}
          /\ response' \in {response, [response EXCEPT ![r] = "created"]}
          /\ UNCHANGED <<upserts, users, existingUser, bodies, up>>
      BY <2>5 DEF FlushReturns, tables
    <3> QED
      BY <1>t, <3>1, <3>2
  <2>6. CASE FlushThrows(r, x)
    BY <1>t, <2>6 DEF FlushThrows, App!CommitThrows, App!Goto, App!sourceVars,
                      App!outputVars, tables, requestVars
  <2>7. CASE Rollback(r, x)
    <3>1. /\ calls' = [calls EXCEPT ![r] = App!Pop(@)] /\ App!Running(r, x) /\ App!Rethrow(r, x)
          /\ UNCHANGED <<emitted, touched, events, todo, domainEvents, published>>
      BY <2>7 DEF Rollback, App!Rollback, App!At, App!sourceVars, App!outputVars
    <3>2. /\ turn' \in {turn, turn \ {r}}
          /\ response' \in {response, [response EXCEPT ![r] = StatusOfError(r)]}
          /\ UNCHANGED <<upserts, users, existingUser, bodies, up>>
      BY <2>7 DEF Rollback, Yields, Continues, tables
    <3>3. \A y \in Executions \ {c, s} : pc'[y] = pc[y]
      <4>1. App!Pop(calls[r]) \in {<<>>, <<c>>}
        BY <3>1, WhoRuns, ShortCalls DEF RegistrationInv
      <4>2. App!Pop(calls[r]) # <<>> => App!Innermost(App!Pop(calls[r])) = c
        BY <4>1, ShortCalls
      <4> QED
        BY <1>t, <3>1, <4>2 DEF App!Rethrow, App!Goto
    <3> QED
      BY <1>t, <3>1, <3>2, <3>3
  <2> QED
    BY <1>5, <2>1, <2>2, <2>3, <2>4, <2>5, <2>6, <2>7 DEF Execute
<1> QED
  BY <1>1, <1>2, <1>3, <1>4, <1>5 DEF StepOf, Proceed

-----------------------------------------------------------------------------
(* The invariant is kept.                                                  *)

(* The types the steps need.                                               *)
LEMMA Typed ==
  ASSUME TypeOK
  PROVE  /\ pc \in [Executions -> App!Phases] /\ emitted \in [Executions -> SUBSET Executions]
         /\ calls \in [Requests -> Seq(Executions)]
         /\ todo \in [Executions -> SUBSET Executions]
         /\ touched \in [Executions -> SUBSET Executions]
         /\ events \in [Executions -> SUBSET Executions]
         /\ domainEvents \in [Executions -> SUBSET Executions]
         /\ response \in [Requests -> {"none", "created", "invalid", "conflict", "error", "failed"}]
         /\ existingUser \in [Requests -> {"unknown", "found", "none", "failed"}]
         /\ turn \in SUBSET Requests
BY DEF TypeOK, App!TypeOK, App!Sources, Executions

(* Between saveAll and the flush no request gives the loop back.           *)
LEMMA CommitsRun ==
  ASSUME RegistrationInv, NEW y \in Executions, pc[y] = "commit"
  PROVE  \E r \in Requests :
           /\ r \in turn /\ y \in {createUser(r), sendWelcomeEmail(r)}
           /\ y = sendWelcomeEmail(r) => pc[createUser(r)] = "publish"
           /\ y = createUser(r) => pc[sendWelcomeEmail(r)] = "returned"
<1>1. PICK r \in Requests : y = createUser(r) \/ y = sendWelcomeEmail(r)
  BY NamesApart
<1>2. InOrder(r)
  BY DEF RegistrationInv
<1> QED
  BY <1>1, <1>2 DEF InOrder, Waits, Inactive

(* Who has failed has failed for good.                                     *)
LEMMA FailuresStay ==
  ASSUME \A y \in Executions :
           /\ y \in rejected => y \in rejected' \/ pc'[y] \in {"rollback", "threw"}
           /\ pc[y] \in {"rollback", "threw"} => pc'[y] \in {"rollback", "threw"},
         NEW q \in Requests, Failed(q)
  PROVE  Failed(q)'
BY NamesApart DEF Failed

(* A flush of the queue waits behind another request also after a step that*)
(* puts no other in its place, unless that one has failed.                 *)
LEMMA BehindKept ==
  ASSUME WaitsBehind,
         \A y \in Executions :
           /\ y \in rejected => y \in rejected' \/ pc'[y] \in {"rollback", "threw"}
           /\ pc[y] \in {"rollback", "threw"} => pc'[y] \in {"rollback", "threw"},
         NEW em \in EntityManagers, NEW x \in Executions, OrmFacts!Queued(x, em),
         runner'[em] = runner[em] \/ runner[em] \in rejected'
  PROVE  \E q \in Requests :
           /\ x \notin {createUser(q), sendWelcomeEmail(q)}
           /\ runner'[em] \in {createUser(q), sendWelcomeEmail(q)} \/ Failed(q)'
<1>1. PICK q \in Requests :
        /\ x \notin {createUser(q), sendWelcomeEmail(q)}
        /\ runner[em] \in {createUser(q), sendWelcomeEmail(q)} \/ Failed(q)
  BY DEF WaitsBehind
<1>2. Failed(q) => Failed(q)'
  BY FailuresStay
<1>3. runner[em] \in {createUser(q), sendWelcomeEmail(q)} /\ runner[em] \in rejected' => Failed(q)'
  BY DEF Failed
<1> QED
  BY <1>1, <1>2, <1>3

(* A step in which no flush begins or ends.                                *)
LEMMA FlushKept ==
  ASSUME FlushInv, UNCHANGED ormVars,
         \A y \in Executions :
           \/ pc'[y] = pc[y]
           \/ /\ pc[y] \notin {"commit", "flush", "returned", "rollback", "threw"}
              /\ pc'[y] \notin {"commit", "flush", "returned"}
  PROVE  FlushInv'
<1>1. OrmFacts!Places' /\ OrmFacts!Flushers' = OrmFacts!Flushers
      /\ \A x, em : /\ OrmFacts!Queued(x, em)' <=> OrmFacts!Queued(x, em)
                    /\ OrmFacts!Flushing(x, em)' <=> OrmFacts!Flushing(x, em)
  BY OrmFacts!PlacesKept DEF FlushInv, OrmFacts!OrmInv, ormVars, OrmFacts!flushVars
<1>2. OrmFacts!TypeOK'
  BY DEF FlushInv, OrmFacts!OrmInv, OrmFacts!TypeOK, ormVars
<1>3. OrmFacts!Done' = OrmFacts!Done
  BY DEF OrmFacts!Done, ormVars
<1>4. OrmFacts!Flow'
  BY <1>1, <1>3 DEF FlushInv, OrmFacts!OrmInv, OrmFacts!Flow, ormVars
<1>5. \A x \in Executions :
        /\ pc'[x] = "flush" <=> x \in OrmFacts!Flushers'
        /\ pc'[x] = "commit" => x \in pending'[entityManager'] \cup OrmFacts!Done'
        /\ pc'[x] = "returned" => x \in OrmFacts!Done'
  BY <1>1, <1>3 DEF FlushInv, ormVars
<1>6. rejected' = rejected /\ runner' = runner
  BY DEF ormVars
<1>7. WaitsBehind'
  BY <1>1, <1>6, BehindKept DEF FlushInv, WaitsBehind, EntityManagers
<1> QED
  BY <1>1, <1>2, <1>4, <1>5, <1>7 DEF FlushInv, OrmFacts!OrmInv

(* Nothing that the rest of a request's invariant speaks of has changed.   *)
LEMMA EventsKept ==
  ASSUME NEW x \in Executions, OwnEvent(x),
         pc'[x] = pc[x], emitted'[x] = emitted[x], touched'[x] = touched[x],
         events'[x] = events[x], todo'[x] = todo[x], domainEvents'[x] = domainEvents[x],
         x \in published' <=> x \in published
  PROVE  OwnEvent(x)'
BY DEF OwnEvent

LEMMA OthersKept ==
  ASSUME RegistrationInv, Service!OwnershipInv, Service!OwnershipInv',
         NEW r \in Requests, StepOf(r)
  PROVE  /\ \A q \in Requests \ {r} : InOrder(q)' /\ Recorded(q)'
         /\ \A y \in Executions \ {createUser(r), sendWelcomeEmail(r)} : OwnEvent(y)'
<1>1. ASSUME NEW y \in Executions \ {createUser(r), sendWelcomeEmail(r)}
      PROVE  OwnEvent(y)'
  BY <1>1, OnlyOwn, EventsKept DEF OthersRest, RegistrationInv
<1>2. ASSUME NEW q \in Requests \ {r}
      PROVE  InOrder(q)' /\ Recorded(q)'
  <2>1. {createUser(q), sendWelcomeEmail(q)} \subseteq
          Executions \ {createUser(r), sendWelcomeEmail(r)}
    BY <1>2, NamesApart
  <2>2. /\ pc'[createUser(q)] = pc[createUser(q)]
        /\ pc'[sendWelcomeEmail(q)] = pc[sendWelcomeEmail(q)]
        /\ emitted'[createUser(q)] = emitted[createUser(q)]
        /\ createUser(q) \in published' <=> createUser(q) \in published
    BY <2>1, OnlyOwn DEF OthersRest
  <2>3. /\ q \in turn' <=> q \in turn
        /\ calls'[q] = calls[q]
        /\ response'[q] = response[q] /\ existingUser'[q] = existingUser[q]
        /\ q \in upserts' <=> q \in upserts
        /\ q \in users' <=> q \in users
        /\ email' = email /\ users \subseteq users' /\ (up' => up)
    BY <1>2, OnlyOwn DEF bodies
  <2>4. InOrder(q)'
    BY <1>2, <2>2, <2>3, OthersInOrder DEF RegistrationInv
  <2>5. Recorded(q)
    BY DEF RegistrationInv
  <2>6. existingUser'[q] = "found" =>
          emitted'[createUser(q)] = {} /\ \E p \in users' : email'[p] = email'[q]
    BY <2>2, <2>3, <2>5 DEF Recorded
  <2>7. pc'[createUser(q)] \in {"flush", "returned"} /\ up' => q \in users' \cup upserts'
    BY <2>2, <2>3, <2>5 DEF Recorded
  <2>8. Recorded(q)'
    BY <2>2, <2>3, <2>5, <2>6, <2>7 DEF Recorded
  <2> QED
    BY <2>4, <2>8
<1> QED
  BY <1>1, <1>2

(* Nothing settles while a request runs between its lookup and its         *)
(* notification, and no other request does anything.                       *)
LEMMA AloneKept ==
  ASSUME RegistrationInv, Service!OwnershipInv, Service!OwnershipInv',
         NEW r \in Requests, StepOf(r), NEW q \in Requests
  PROVE  Alone(q)'
<1> DEFINE c == createUser(r)
           s == sendWelcomeEmail(r)
<1>0. /\ c \in Executions /\ s \in Executions /\ c # s /\ InOrder(r)
      /\ Alone(q) /\ TypeOK
      /\ pc \in [Executions -> App!Phases]
  BY NamesApart, Typed DEF RegistrationInv
<1>1. ASSUME q # r
      PROVE  BeforeNotification(q)' <=> BeforeNotification(q)
  <2>1. {createUser(q), sendWelcomeEmail(q)} \subseteq Executions \ {c, s}
    BY <1>1, NamesApart
  <2>2. /\ pc'[createUser(q)] = pc[createUser(q)]
        /\ pc'[sendWelcomeEmail(q)] = pc[sendWelcomeEmail(q)]
        /\ q \in turn' <=> q \in turn
    BY <1>1, <2>1, OnlyOwn DEF OthersRest
  <2> QED
    BY <2>2 DEF BeforeNotification
<1>2. CASE turn' = {}
  BY <1>2 DEF Alone, BeforeNotification
<1>3. CASE turn' = {r} /\ Orm!Idle /\ UNCHANGED ormVars
  <2>1. Orm!Idle'
    BY <1>3 DEF Orm!Idle, Orm!Working, Orm!EntityManagers, ormVars
  <2> QED
    BY <1>3, <2>1 DEF Alone, BeforeNotification
<1>4. CASE r \in turn /\ turn' = turn /\ UNCHANGED ormVars
           /\ (BeforeNotification(r)' => BeforeNotification(r))
  <2>1. Orm!Idle => Orm!Idle'
    BY <1>4 DEF Orm!Idle, Orm!Working, Orm!EntityManagers, ormVars
  <2> QED
    BY <1>0, <1>1, <1>4, <2>1 DEF Alone
<1>5. CASE r \in turn /\ ~BeforeNotification(r)'
  <2>1. q = r \/ ~BeforeNotification(q)
    BY <1>0, <1>5 DEF Alone
  <2> QED
    BY <1>1, <1>5, <2>1 DEF Alone
<1>6. CASE ~Orm!Idle /\ ~BeforeNotification(r)'
  BY <1>0, <1>1, <1>6 DEF Alone
<1>7. CASE RejectInvalid(r) \/ FindByEmail(r) \/ FindByEmailFails(r) \/ RunUpsert(r) \/ Submit(r)
  BY <1>2, <1>7 DEF RejectInvalid, FindByEmail, FindByEmailFails, RunUpsert, Submit,
                    InBackground, Quiet
<1>8. CASE CreateUser(r) \/ RejectDuplicate(r)
  BY <1>3, <1>8 DEF CreateUser, RejectDuplicate, Resumes, Quiet
<1>9. CASE SubscriberBegins(r)
  <2>1. r \in turn /\ pc'[s] = "useCase"
    BY <1>0, <1>9 DEF SubscriberBegins, Continues, App!Begin, App!Goto
  <2> QED
    BY <1>5, <2>1 DEF BeforeNotification
<1>10. CASE SendWelcomeEmail(r)
  BY <1>4, <1>10 DEF SendWelcomeEmail, Continues, App!Emit, BeforeNotification
<1>11. ASSUME NEW x \in {c, s}, Execute(r, x)
       PROVE  Alone(q)'
  <2>1. \/ x = c /\ pc[s] \in Inactive
        \/ x = s /\ pc[s] \notin Inactive /\ pc[c] = "publish"
    <3>1. App!Running(r, x)
      BY <1>11 DEF Execute, UseCaseReturns, DispatchEvent, DispatchDone, PublishEvent,
                   PublishDone, SaveAll, Commit, FlushReturns, FlushThrows, Rollback,
                   App!UseCaseReturns, App!DispatchEvent, App!DispatchDone, App!PublishEvent,
                   App!PublishDone, App!SaveAll, App!Commit, App!CommitReturns,
                   App!CommitThrows, App!Rollback, App!At
    <3> QED
      BY <1>0, <3>1, WhoRuns
  <2>2. CASE UseCaseReturns(r, x) \/ DispatchEvent(r, x) \/ DispatchDone(r, x)
             \/ PublishEvent(r, x)
    <3>1. /\ r \in turn /\ turn' = turn /\ UNCHANGED ormVars
          /\ pc[x] \in {"useCase", "dispatch", "publish"}
          /\ \/ pc' = pc
             \/ pc' = [pc EXCEPT ![x] = "dispatch"] \/ pc' = [pc EXCEPT ![x] = "publish"]
      BY <2>2 DEF UseCaseReturns, DispatchEvent, DispatchDone, PublishEvent, Continues,
                  App!UseCaseReturns, App!DispatchEvent, App!DispatchDone, App!PublishEvent,
                  App!At, App!Goto
    <3>2. BeforeNotification(r)' => BeforeNotification(r)
      BY <1>0, <2>1, <3>1 DEF BeforeNotification, Inactive
    <3> QED
      BY <1>4, <3>1, <3>2
  <2>3. CASE PublishDone(r, x) \/ SaveAll(r, x) \/ Commit(r, x)
    <3>1. /\ r \in turn /\ \E phase \in {"store", "commit", "flush"} :
                             pc' = [pc EXCEPT ![x] = phase]
      BY <2>3 DEF PublishDone, SaveAll, Commit, Continues, Yields, App!PublishDone,
                  App!SaveAll, App!Commit, App!Goto
    <3>2. ~BeforeNotification(r)'
      BY <1>0, <2>1, <3>1 DEF BeforeNotification
    <3> QED
      BY <1>5, <3>1, <3>2
  <2>4. CASE FlushReturns(r, x) \/ FlushThrows(r, x)
    <3>1. /\ ~Orm!Idle
          /\ \E phase \in {"returned", "rollback"} : pc' = [pc EXCEPT ![x] = phase]
      BY <2>4 DEF FlushReturns, FlushThrows, Orm!Returns, Orm!Throws, Orm!Idle,
                  App!CommitReturns, App!CommitThrows, App!Goto
    <3>2. ~BeforeNotification(r)'
      BY <1>0, <2>1, <3>1 DEF BeforeNotification
    <3> QED
      BY <1>6, <3>1, <3>2
  <2>5. CASE Rollback(r, x)
    <3>1. r \in turn /\ App!Running(r, x) /\ App!Rethrow(r, x)
      BY <2>5 DEF Rollback, Yields, Continues, App!Rollback, App!At
    <3>2. \/ pc' = [pc EXCEPT ![x] = "threw"] /\ x = c
          \/ pc' = [pc EXCEPT ![x] = "threw", ![c] = "rollback"]
      <4>1. \/ x = c /\ App!Pop(calls[r]) = <<>>
            \/ x = s /\ App!Pop(calls[r]) # <<>> /\ App!Innermost(App!Pop(calls[r])) = c
        BY <1>0, <3>1, WhoRuns, ShortCalls
      <4> QED
        BY <3>1, <4>1 DEF App!Rethrow, App!Goto
    <3>3. ~BeforeNotification(r)'
      BY <1>0, <3>2 DEF BeforeNotification
    <3> QED
      BY <1>5, <3>1, <3>3
  <2> QED
    BY <1>11, <2>2, <2>3, <2>4, <2>5 DEF Execute
<1> QED
  BY <1>7, <1>8, <1>9, <1>10, <1>11 DEF StepOf, Proceed

(* What remains: the request itself, its two executions and the flush.     *)
OwnKept(r) ==
  InOrder(r)' /\ OwnEvent(createUser(r))' /\ OwnEvent(sendWelcomeEmail(r))' /\ FlushInv'
    /\ Recorded(r)'

LEMMA QuietKeeps ==
  ASSUME RegistrationInv, NEW r \in Requests,
         RejectInvalid(r) \/ FindByEmail(r) \/ FindByEmailFails(r) \/ RunUpsert(r)
  PROVE  OwnKept(r)
<1> DEFINE c == createUser(r)
           s == sendWelcomeEmail(r)
<1>0. c \in Executions /\ s \in Executions /\ InOrder(r) /\ OwnEvent(c) /\ OwnEvent(s)
      /\ FlushInv /\ Recorded(r) /\ r \notin turn /\ TypeOK
  BY NamesApart
     DEF RegistrationInv, RejectInvalid, FindByEmail, FindByEmailFails, RunUpsert, InBackground,
         Quiet
<1>1. UNCHANGED <<appVars, ormVars, turn, bodies>>
  BY DEF RejectInvalid, FindByEmail, FindByEmailFails, RunUpsert, InBackground
<1>2. InOrder(r)'
  BY <1>0, <1>1 DEF InOrder, CallsOf, Waits, appVars
<1>3. OwnEvent(c)' /\ OwnEvent(s)'
  BY <1>0, <1>1 DEF OwnEvent, appVars
<1>4. FlushInv'
  BY <1>0, <1>1, FlushKept DEF appVars
<1>5. Recorded(r)'
  <2>1. CASE RejectInvalid(r)
    <3>1. /\ pc[c] = "idle" /\ response'[r] = "invalid" /\ UNCHANGED <<tables, existingUser, up>>
      BY <1>0, <2>1, Typed DEF RejectInvalid
    <3> QED
      BY <1>0, <1>1, <3>1 DEF Recorded, appVars, tables, bodies, Inactive, Refusals
  <2>2. CASE FindByEmail(r) \/ FindByEmailFails(r)
    <3>1. /\ pc[c] = "useCase" /\ UNCHANGED <<response, tables, up>>
          /\ existingUser'[r] = "found" => \E q \in users : email[q] = email[r]
      BY <1>0, <2>2, Typed DEF FindByEmail, FindByEmailFails, HasRow
    <3>2. emitted[c] = {}
      BY <1>0, <3>1 DEF InOrder, Waits
    <3>3. response[r] = "none"
      BY <1>0, <3>1, Typed DEF Recorded, Inactive
    <3> QED
      BY <1>0, <1>1, <3>1, <3>2, <3>3 DEF Recorded, appVars, tables, bodies, Refusals
  <2>3. CASE RunUpsert(r)
    <3>1. /\ r \in upserts /\ UNCHANGED requestVars
          /\ up' => r \in users' \cup upserts' /\ up
          /\ r \in users' \cup upserts' => r \in users \cup upserts
          /\ users \subseteq users'
      BY <2>3 DEF RunUpsert, InBackground, Quiet
    <3> QED
      BY <1>0, <1>1, <3>1 DEF Recorded, appVars, requestVars, bodies
  <2> QED
    BY <2>1, <2>2, <2>3
<1> QED
  BY <1>2, <1>3, <1>4, <1>5 DEF OwnKept

LEMMA BeginKeeps ==
  ASSUME RegistrationInv, NEW r \in Requests, Submit(r) \/ SubscriberBegins(r)
  PROVE  OwnKept(r)
<1> DEFINE c == createUser(r)
           s == sendWelcomeEmail(r)
<1>0. c \in Executions /\ s \in Executions /\ InOrder(r) /\ OwnEvent(c) /\ OwnEvent(s)
      /\ FlushInv /\ Recorded(r) /\ TypeOK /\ c # s
  BY NamesApart DEF RegistrationInv
<1>1. PICK x \in {c, s} :
        /\ pc[x] = "idle" /\ pc' = [pc EXCEPT ![x] = "useCase"]
        /\ calls' = [calls EXCEPT ![r] = Append(@, x)]
        /\ Orm!Fork(x)
        /\ UNCHANGED <<emitted, touched, events, todo, domainEvents, published,
                       tables, requestVars, bodies, up>>
        /\ \/ x = c /\ InBackground /\ response[r] = "none"
           \/ /\ x = s /\ Continues(r) /\ c \in published
              /\ calls[r] # <<>> => App!InHandler(App!Innermost(calls[r]))
  <2>1. PICK x \in {c, s} :
          /\ App!Begin(r, x) /\ Orm!Fork(x) /\ UNCHANGED <<tables, requestVars, bodies, up>>
          /\ \/ x = c /\ InBackground /\ response[r] = "none"
             \/ x = s /\ Continues(r) /\ c \in published
    BY DEF Submit, SubscriberBegins
  <2> QED
    BY <2>1 DEF App!Begin, App!Goto, App!sourceVars, App!outputVars
<1>2. pc \in [Executions -> App!Phases] /\ calls \in [Requests -> Seq(Executions)]
  BY <1>0, Typed
<1>3. /\ x = c => /\ calls[r] = <<>> /\ pc[s] = "idle" /\ c \notin published
                  /\ turn = {} /\ turn' = {}
      /\ x = s => /\ calls[r] = <<c>> /\ pc[c] = "publish" /\ r \in turn /\ turn' = turn
                  /\ emitted[c] # {} /\ turn = {r}
  <2>1. CASE x = c
    BY <1>0, <1>1, <2>1 DEF InOrder, CallsOf, Inactive, InBackground, Quiet
  <2>2. CASE x = s
    <3>1. r \in turn /\ turn' = turn /\ c \in published /\ pc[s] = "idle" /\ pc[c] \notin Inactive
      BY <1>0, <1>1, <2>2 DEF Continues, InOrder
    <3>2. calls[r] = <<c>> /\ App!Innermost(calls[r]) = c /\ calls[r] # <<>>
      BY <1>0, <3>1, ShortCalls DEF InOrder, CallsOf, Inactive
    <3>3. pc[c] = "publish"
      BY <1>0, <1>1, <2>2, <3>1, <3>2 DEF App!InHandler, App!Delivering, InOrder
    <3>4. turn = {r}
      BY <3>1, <3>3 DEF RegistrationInv, Alone, BeforeNotification
    <3> QED
      BY <1>0, <2>2, <3>1, <3>2, <3>3, <3>4 DEF OwnEvent
  <2> QED
    BY <2>1, <2>2
<1>4. InOrder(r)'
  <2>1. CASE x = c
    <3>1. /\ pc'[c] = "useCase" /\ pc'[s] = "idle" /\ r \notin turn' /\ emitted'[c] = {}
          /\ c \notin published'
      BY <1>0, <1>1, <1>2, <1>3, <2>1 DEF OwnEvent
    <3>2. calls'[r] = <<c>>
      BY <1>1, <1>2, <1>3, <2>1, ShortCalls
    <3> QED
      BY <3>1, <3>2 DEF InOrder, CallsOf, Waits, Inactive
  <2>2. CASE x = s
    <3>1. pc'[c] = "publish" /\ pc'[s] = "useCase" /\ r \in turn'
      BY <1>0, <1>1, <1>2, <1>3, <2>2
    <3>2. calls'[r] = <<c, s>>
      BY <1>1, <1>2, <1>3, <2>2, ShortCalls
    <3> QED
      BY <3>1, <3>2 DEF InOrder, CallsOf, Inactive
  <2> QED
    BY <2>1, <2>2
<1>5. OwnEvent(c)' /\ OwnEvent(s)'
  BY <1>0, <1>1, <1>2 DEF OwnEvent
<1>6. FlushInv'
  <2>1. \A y \in Executions : pc[y] # "commit"
    <3>1. SUFFICES ASSUME NEW y \in Executions, pc[y] = "commit" PROVE FALSE
      OBVIOUS
    <3>2. PICK q \in Requests :
            /\ q \in turn /\ y \in {createUser(q), sendWelcomeEmail(q)}
            /\ y = sendWelcomeEmail(q) => pc[createUser(q)] = "publish"
            /\ y = createUser(q) => pc[sendWelcomeEmail(q)] = "returned"
      BY <3>1, CommitsRun
    <3>3. x = s /\ q = r
      BY <1>1, <1>3, <3>2
    <3> QED
      BY <1>0, <1>1, <1>3, <3>1, <3>2, <3>3
  <2>2. \A y \in Executions :
          \/ pc'[y] = pc[y]
          \/ pc[y] = "idle" /\ pc'[y] = "useCase"
    BY <1>1, <1>2
  <2>3. /\ OrmFacts!OrmInv' /\ OrmFacts!Flushers' = OrmFacts!Flushers
    BY <1>0, <1>1, OrmSteps, OrmFacts!ForkKeeps DEF FlushInv
  <2>4. /\ UNCHANGED <<runner, rejected, flushQueue>>
        /\ OrmFacts!Done' = OrmFacts!Done
    BY <1>1 DEF Orm!Fork, Orm!flushVars, OrmFacts!Done
  <2>5. \A y \in Executions :
          /\ pc'[y] = "flush" <=> y \in OrmFacts!Flushers'
          /\ pc'[y] # "commit"
          /\ pc'[y] = "returned" => y \in OrmFacts!Done'
    BY <1>0, <2>1, <2>2, <2>3, <2>4 DEF FlushInv
  <2>6. \A y, em : OrmFacts!Queued(y, em)' <=> OrmFacts!Queued(y, em)
    BY <2>4 DEF OrmFacts!Queued
  <2>7. WaitsBehind'
    BY <1>0, <2>2, <2>4, <2>6, BehindKept DEF FlushInv, WaitsBehind, EntityManagers
  <2> QED
    BY <2>3, <2>5, <2>7 DEF FlushInv
<1>7. Recorded(r)'
  BY <1>0, <1>1, <1>2, <1>3, Typed DEF Recorded, Inactive, Refusals, tables, requestVars, bodies
<1> QED
  BY <1>4, <1>5, <1>6, <1>7 DEF OwnKept

(* The use case and the subscriber emit.                                   *)
LEMMA EmitKeeps ==
  ASSUME RegistrationInv, NEW r \in Requests, CreateUser(r) \/ SendWelcomeEmail(r)
  PROVE  OwnKept(r)
<1> DEFINE c == createUser(r)
           s == sendWelcomeEmail(r)
<1>0. c \in Executions /\ s \in Executions /\ InOrder(r) /\ OwnEvent(c) /\ OwnEvent(s)
      /\ FlushInv /\ Recorded(r) /\ TypeOK /\ c # s
  BY NamesApart DEF RegistrationInv
<1>1. PICK x \in {c, s} :
        /\ App!Running(r, x) /\ pc[x] = "useCase"
        /\ emitted' = [emitted EXCEPT ![x] = @ \cup {x}]
        /\ touched' = [touched EXCEPT ![x] = @ \cup {x}]
        /\ domainEvents' = [domainEvents EXCEPT ![x] = @ \cup {x}]
        /\ UNCHANGED <<pc, calls, events, todo, published, ormVars, tables, requestVars,
                       bodies, up>>
        /\ x = c => existingUser[r] = "none"
        /\ r \in turn'
  <2>1. PICK x \in {c, s} :
          /\ App!Emit(r, x, x, x) /\ UNCHANGED <<ormVars, tables, requestVars, bodies, up>>
          /\ x = c => existingUser[r] = "none"
          /\ r \in turn'
    BY <1>0 DEF CreateUser, SendWelcomeEmail, Resumes, Continues
  <2> QED
    BY <2>1 DEF App!Emit, App!outputVars
<1>2. InOrder(r)'
  <2>1. /\ pc[c] \notin Inactive \cup {"flush"} /\ pc[s] # "flush"
    BY <1>0, <1>1, WhoRuns DEF Inactive
  <2> QED
    BY <1>0, <1>1, <2>1 DEF InOrder, CallsOf
<1>3. OwnEvent(c)' /\ OwnEvent(s)'
  BY <1>0, <1>1, Typed DEF OwnEvent
<1>4. FlushInv'
  BY <1>0, <1>1, FlushKept
<1>5. Recorded(r)'
  <2>1. x = s => pc[s] # "idle" /\ emitted'[c] = emitted[c]
    BY <1>0, <1>1, Typed
  <2>2. emitted[c] # {} => emitted'[c] # {}
    BY <1>0, <1>1, Typed
  <2> QED
    BY <1>0, <1>1, <2>1, <2>2 DEF Recorded, tables, requestVars, bodies
<1> QED
  BY <1>2, <1>3, <1>4, <1>5 DEF OwnKept

(* The use case ends.                                                      *)
LEMMA UseCaseKeeps ==
  ASSUME RegistrationInv, Service!OwnershipInv, NEW r \in Requests,
         \/ RejectDuplicate(r)
         \/ \E x \in {createUser(r), sendWelcomeEmail(r)} : UseCaseReturns(r, x)
  PROVE  OwnKept(r)
<1> DEFINE c == createUser(r)
           s == sendWelcomeEmail(r)
<1>0. c \in Executions /\ s \in Executions /\ InOrder(r) /\ OwnEvent(c) /\ OwnEvent(s)
      /\ FlushInv /\ Recorded(r) /\ TypeOK /\ c # s
  BY NamesApart DEF RegistrationInv
<1>1. PICK x \in {c, s} :
        /\ App!Running(r, x) /\ pc[x] = "useCase"
        /\ UNCHANGED <<calls, touched, emitted, published, ormVars, tables, requestVars, bodies, up>>
        /\ \/ /\ x = c /\ pc' = [pc EXCEPT ![x] = "rollback"]
              /\ UNCHANGED <<events, todo, domainEvents>>
           \/ /\ emitted[x] = {x} /\ pc' = [pc EXCEPT ![x] = "dispatch"]
              /\ events' = [events EXCEPT ![x] = {x}] /\ todo' = [todo EXCEPT ![x] = {x}]
              /\ domainEvents' = [domainEvents EXCEPT ![x] = {}]
        /\ r \in turn'
  <2>1. CASE RejectDuplicate(r)
    BY <2>1 DEF RejectDuplicate, Resumes, App!UseCaseThrows, App!At, App!Goto, App!sourceVars,
                App!outputVars
  <2>2. CASE \E x \in {c, s} : UseCaseReturns(r, x)
    <3>1. PICK x \in {c, s} : UseCaseReturns(r, x)
      BY <2>2
    <3>2. /\ App!Running(r, x) /\ pc[x] = "useCase" /\ emitted[x] = {x}
          /\ pc' = [pc EXCEPT ![x] = "dispatch"]
          /\ events' = [events EXCEPT ![x] = {x}] /\ todo' = [todo EXCEPT ![x] = {x}]
          /\ domainEvents' = [domainEvents EXCEPT ![x] = {}]
          /\ UNCHANGED <<calls, touched, emitted, published>>
      BY <1>0, <3>1, CollectsOwn
    <3>3. r \in turn' /\ UNCHANGED <<ormVars, tables, requestVars, bodies, up>>
      BY <3>1 DEF UseCaseReturns, Continues
    <3> QED
      BY <3>2, <3>3
  <2> QED
    BY <2>1, <2>2
<1>2. /\ pc[c] \notin Inactive
      /\ x = c => pc[s] = "idle"
      /\ x = s => pc[c] = "publish" /\ pc[s] \notin Inactive
  BY <1>0, <1>1, WhoRuns DEF Inactive, InOrder
<1>3. /\ pc'[x] \in {"dispatch", "rollback"}
      /\ \A y \in Executions \ {x} : pc'[y] = pc[y]
  BY <1>0, <1>1, Typed
<1>4. InOrder(r)'
  <2>1. CASE x = c
    BY <1>0, <1>1, <1>2, <1>3, <2>1 DEF InOrder, CallsOf, Inactive
  <2>2. CASE x = s
    BY <1>0, <1>1, <1>2, <1>3, <2>2 DEF InOrder, CallsOf, Inactive
  <2> QED
    BY <2>1, <2>2
<1>5. OwnEvent(c)' /\ OwnEvent(s)'
  BY <1>0, <1>1, Typed DEF OwnEvent
<1>6. FlushInv'
  <2>1. \A y \in Executions : y # x => pc'[y] = pc[y] /\ events'[y] = events[y]
    BY <1>0, <1>1, <1>3, Typed
  <2>2. pc[x] = "useCase" /\ pc'[x] \notin {"commit", "flush", "returned"}
    BY <1>1, <1>3
  <2> QED
    BY <1>0, <1>1, <2>1, <2>2, FlushKept
<1>7. Recorded(r)'
  <2>1. CASE x = c
    BY <1>0, <1>1, <1>2, <1>3, <2>1, Typed DEF Recorded, tables, requestVars, bodies, Inactive, Refusals
  <2>2. CASE x = s
    BY <1>0, <1>1, <1>2, <1>3, <2>2, Typed DEF Recorded, tables, requestVars, bodies, Inactive, Refusals
  <2> QED
    BY <2>1, <2>2
<1> QED
  BY <1>4, <1>5, <1>6, <1>7 DEF OwnKept

(* The loops of dispatchAll and publishAll.                                *)
LEMMA LoopKeeps ==
  ASSUME RegistrationInv, NEW r \in Requests, NEW x \in {createUser(r), sendWelcomeEmail(r)},
         \/ DispatchEvent(r, x) \/ DispatchDone(r, x)
         \/ PublishEvent(r, x) \/ PublishDone(r, x)
  PROVE  OwnKept(r)
<1> DEFINE c == createUser(r)
           s == sendWelcomeEmail(r)
<1>0. c \in Executions /\ s \in Executions /\ InOrder(r) /\ OwnEvent(c) /\ OwnEvent(s)
      /\ FlushInv /\ Recorded(r) /\ TypeOK /\ c # s /\ x \in Executions
  BY NamesApart DEF RegistrationInv
<1>1. /\ App!Running(r, x) /\ r \in turn'
      /\ UNCHANGED <<calls, touched, emitted, domainEvents, events,
                     ormVars, tables, requestVars, bodies, up>>
      /\ \/ /\ pc[x] = "dispatch" /\ UNCHANGED <<pc, published>>
            /\ \E e : todo' = [todo EXCEPT ![x] = @ \ {e}]
         \/ /\ pc[x] = "dispatch" /\ pc' = [pc EXCEPT ![x] = "publish"] /\ published' = published
            /\ todo' = [todo EXCEPT ![x] = events[x]]
         \/ /\ pc[x] = "publish" /\ UNCHANGED pc
            /\ \E e \in todo[x] : todo' = [todo EXCEPT ![x] = @ \ {e}]
                                  /\ published' = published \cup {e}
         \/ /\ pc[x] = "publish" /\ pc' = [pc EXCEPT ![x] = "store"]
            /\ UNCHANGED <<todo, published>>
            /\ x = c => pc[s] \in {"returned", "threw"}
  <2>1. CASE DispatchEvent(r, x)
    BY <2>1 DEF DispatchEvent, Continues, App!DispatchEvent, App!At, App!sourceVars,
                App!outputVars
  <2>2. CASE DispatchDone(r, x)
    BY <2>2 DEF DispatchDone, Continues, App!DispatchDone, App!At, App!Goto, App!sourceVars,
                App!outputVars
  <2>3. CASE PublishEvent(r, x)
    BY <2>3 DEF PublishEvent, Continues, App!PublishEvent, App!At, App!sourceVars
  <2>4. CASE PublishDone(r, x)
    BY <2>4 DEF PublishDone, Continues, App!PublishDone, App!At, App!Goto, App!sourceVars,
                App!outputVars, SubscriberEnded
  <2> QED
    BY <2>1, <2>2, <2>3, <2>4
<1>2. /\ pc[c] \notin Inactive
      /\ x = c => pc[s] \in Inactive
      /\ x = s => pc[c] = "publish" /\ pc[s] \notin Inactive
  BY <1>0, <1>1, WhoRuns DEF Inactive, InOrder
<1>3. /\ pc'[x] \in {"dispatch", "publish", "store"}
      /\ \A y \in Executions \ {x} : pc'[y] = pc[y]
      /\ pc[x] \in {"dispatch", "publish"}
      /\ pc[x] # "dispatch" => pc'[x] # "dispatch"
  BY <1>0, <1>1, Typed DEF Inactive
<1>4. /\ \A y \in published' : y \in published \/ (y = x /\ pc[x] = "publish")
      /\ todo'[x] \subseteq events[x] /\ \A y \in Executions \ {x} : todo'[y] = todo[y]
  <2>1. /\ todo[x] \subseteq {x} /\ todo[x] \subseteq events[x]
        /\ todo \in [Executions -> SUBSET Executions]
    BY <1>0, Typed DEF OwnEvent
  <2>2. \/ /\ pc[x] = "publish"
           /\ \E e \in todo[x] : published' = published \cup {e}
        \/ published' = published
    BY <1>1
  <2>3. \/ \E e : todo' = [todo EXCEPT ![x] = @ \ {e}]
        \/ todo' = [todo EXCEPT ![x] = events[x]]
        \/ todo' = todo
    BY <1>1
  <2>4. \A y \in published' : y \in published \/ (y = x /\ pc[x] = "publish")
    BY <2>1, <2>2
  <2>5. todo'[x] \subseteq events[x] /\ \A y \in Executions \ {x} : todo'[y] = todo[y]
    BY <1>0, <2>1, <2>3
  <2> QED
    BY <2>4, <2>5
<1>5. InOrder(r)'
  <2>1. CASE x = c
    <3>1. /\ pc'[s] = pc[s] /\ pc'[c] \in {"dispatch", "publish", "store"}
          /\ calls'[r] = calls[r] /\ r \in turn' /\ pc[s] \in Inactive
      BY <1>0, <1>1, <1>2, <1>3, <2>1 DEF Inactive
    <3>2. CallsOf(r)' = CallsOf(r)
      BY <1>2, <3>1 DEF CallsOf, Inactive
    <3>3. pc[s] # "idle" \/ c \in published' => pc'[c] # "dispatch"
      BY <1>0, <1>1, <1>3, <1>4, <2>1 DEF InOrder
    <3>4. pc'[c] = "store" => pc[s] = "returned"
      BY <1>0, <1>1, <1>3, <2>1, Typed DEF InOrder
    <3>5. pc[s] # "threw"
      BY <1>0, <1>1, <1>2, <2>1 DEF InOrder, Inactive
    <3> QED
      BY <1>0, <3>1, <3>2, <3>3, <3>4, <3>5 DEF InOrder, Inactive
  <2>2. CASE x = s
    <3>1. /\ pc'[c] = "publish" /\ pc'[s] \notin Inactive \cup {"flush"}
          /\ calls'[r] = calls[r] /\ r \in turn'
      BY <1>0, <1>1, <1>2, <1>3, <2>2 DEF Inactive
    <3> QED
      BY <1>0, <1>2, <2>2, <3>1 DEF InOrder, CallsOf, Inactive
  <2> QED
    BY <2>1, <2>2
<1>6. OwnEvent(c)' /\ OwnEvent(s)'
  <2>1. OwnEvent(x)'
    <3>1. events[x] = {x}
      BY <1>0, <1>1 DEF OwnEvent
    <3> QED
      BY <1>0, <1>1, <1>3, <1>4, <3>1 DEF OwnEvent, Inactive
  <2>2. ASSUME NEW y \in {c, s}, y # x
        PROVE  OwnEvent(y)'
    <3>1. y \in published' => y \in published
      BY <1>4, <2>2
    <3>2. pc'[y] = pc[y] /\ todo'[y] = todo[y]
      BY <1>0, <1>3, <1>4, <2>2
    <3> QED
      BY <1>0, <1>1, <3>1, <3>2 DEF OwnEvent
  <2> QED
    BY <2>1, <2>2
<1>7. FlushInv'
  <2>1. \A y \in Executions : y # x => pc'[y] = pc[y] /\ events'[y] = events[y]
    BY <1>1, <1>3
  <2> QED
    BY <1>0, <1>1, <1>3, <2>1, FlushKept
<1>8. Recorded(r)'
  <2>1. pc'[c] \notin {"idle", "returned", "threw", "flush"}
    BY <1>0, <1>2, <1>3 DEF Inactive
  <2>2. response[r] = "none"
    BY <1>0, <1>2, Typed DEF Recorded
  <2>3. pc'[s] = "idle" <=> pc[s] = "idle"
    BY <1>0, <1>3 DEF Inactive
  <2> QED
    BY <1>0, <1>1, <2>1, <2>2, <2>3 DEF Recorded, tables, requestVars, bodies, Refusals
<1> QED
  BY <1>5, <1>6, <1>7, <1>8 DEF OwnKept

(* saveAll: the event is persisted in the EntityManager the provider holds *)
(* (MikroOrmEventStore.ts:14).                                             *)
LEMMA SaveKeeps ==
  ASSUME RegistrationInv, NEW r \in Requests,
         NEW x \in {createUser(r), sendWelcomeEmail(r)}, SaveAll(r, x)
  PROVE  OwnKept(r)
<1> DEFINE c == createUser(r)
           s == sendWelcomeEmail(r)
<1>0. c \in Executions /\ s \in Executions /\ InOrder(r) /\ OwnEvent(c) /\ OwnEvent(s)
      /\ FlushInv /\ Recorded(r) /\ TypeOK /\ c # s /\ x \in Executions
  BY NamesApart DEF RegistrationInv
<1>1. /\ App!Running(r, x) /\ r \in turn'
      /\ UNCHANGED <<calls, touched, emitted, domainEvents, events, todo, published,
                     tables, requestVars, bodies, up>>
      /\ pc[x] = "store" /\ pc' = [pc EXCEPT ![x] = "commit"]
      /\ Orm!Persist(events[x])
  BY DEF SaveAll, Continues, App!SaveAll, App!At, App!Goto, App!sourceVars
<1>2. \/ x = c /\ pc[s] = "returned"
      \/ x = s /\ pc[c] = "publish"
  BY <1>0, <1>1, WhoRuns DEF Inactive, InOrder
<1>3. pc'[x] = "commit" /\ \A y \in Executions \ {x} : pc'[y] = pc[y]
  BY <1>0, <1>1, Typed
<1>4. InOrder(r)'
  <2>1. CASE x = c
    BY <1>0, <1>1, <1>2, <1>3, <2>1 DEF InOrder, CallsOf, Inactive
  <2>2. CASE x = s
    BY <1>0, <1>1, <1>2, <1>3, <2>2 DEF InOrder, CallsOf, Inactive
  <2> QED
    BY <1>2, <2>1, <2>2
<1>5. events[x] = {x}
  BY <1>0, <1>1 DEF OwnEvent
<1>6. OwnEvent(c)' /\ OwnEvent(s)'
  BY <1>0, <1>1, <1>3, <1>5 DEF OwnEvent
<1>7. FlushInv'
  <2>1. events[x] \in SUBSET Executions /\ OrmFacts!Persist(events[x])
    BY <1>0, <1>1, <1>5, OrmSteps
  <2>2. /\ OrmFacts!OrmInv' /\ OrmFacts!Flushers' = OrmFacts!Flushers
        /\ entityManager' = entityManager
        /\ pending'[entityManager] = pending[entityManager] \cup events[x]
        /\ UNCHANGED <<rejected, runner, systemEvents, cleared>>
    BY <1>0, <2>1, OrmFacts!PersistKeeps DEF FlushInv
  <2>3. OrmFacts!Done' = OrmFacts!Done /\ flushQueue' = flushQueue
    BY <1>1, <2>2 DEF OrmFacts!Done, Orm!Persist, Orm!flushVars
  <2>4. \A y \in Executions :
          /\ pc'[y] = "flush" <=> y \in OrmFacts!Flushers'
          /\ pc'[y] = "commit" => y \in pending'[entityManager'] \cup OrmFacts!Done'
          /\ pc'[y] = "returned" => y \in OrmFacts!Done'
    BY <1>0, <1>1, <1>3, <1>5, <2>2, <2>3 DEF FlushInv
  <2>5. \A y, em : OrmFacts!Queued(y, em)' <=> OrmFacts!Queued(y, em)
    BY <2>3 DEF OrmFacts!Queued
  <2>6. \A y \in Executions : pc[y] \in {"rollback", "threw"} => pc'[y] \in {"rollback", "threw"}
    BY <1>1, <1>3
  <2>7. WaitsBehind'
    BY <1>0, <2>2, <2>5, <2>6, BehindKept DEF FlushInv, WaitsBehind, EntityManagers
  <2> QED
    BY <2>2, <2>4, <2>7 DEF FlushInv
<1>8. Recorded(r)'
  <2>1. CASE x = c
    BY <1>0, <1>1, <1>2, <1>3, <2>1 DEF Recorded, tables, requestVars, bodies, Inactive, Refusals
  <2>2. CASE x = s
    BY <1>0, <1>1, <1>2, <1>3, <2>2 DEF Recorded, tables, requestVars, bodies, Inactive, Refusals
  <2> QED
    BY <1>2, <2>1, <2>2
<1> QED
  BY <1>4, <1>6, <1>7, <1>8 DEF OwnKept

(* onCommit: the flush that is called finds the event pending, or behind   *)
(* whom it is queued is another request (MikroOrmUnitOfWork.ts:29-40).     *)
LEMMA CommitKeeps ==
  ASSUME RegistrationInv, Service!OwnershipInv', NEW r \in Requests,
         NEW x \in {createUser(r), sendWelcomeEmail(r)}, Commit(r, x)
  PROVE  OwnKept(r)
<1> DEFINE c == createUser(r)
           s == sendWelcomeEmail(r)
<1>0. c \in Executions /\ s \in Executions /\ InOrder(r) /\ OwnEvent(c) /\ OwnEvent(s)
      /\ FlushInv /\ Recorded(r) /\ TypeOK /\ c # s /\ x \in Executions
  BY NamesApart DEF RegistrationInv
<1>1. /\ App!Running(r, x) /\ r \in turn /\ r \notin turn'
      /\ UNCHANGED <<calls, touched, emitted, domainEvents, events, todo, published,
                     users, requestVars, bodies, up>>
      /\ pc[x] = "commit" /\ pc' = [pc EXCEPT ![x] = "flush"]
      /\ Orm!Flush(x)
      /\ upserts' = IF x = c THEN upserts \cup {r} ELSE upserts
  BY UpsertsOwn DEF Commit, Yields, App!Commit, App!At, App!Goto, App!sourceVars
<1>2. \/ x = c /\ pc[s] = "returned"
      \/ x = s /\ pc[c] = "publish"
  BY <1>0, <1>1, WhoRuns DEF Inactive, InOrder
<1>3. pc'[x] = "flush" /\ \A y \in Executions \ {x} : pc'[y] = pc[y]
  BY <1>0, <1>1, Typed
<1>4. InOrder(r)'
  <2>1. CASE x = c
    BY <1>0, <1>1, <1>2, <1>3, <2>1 DEF InOrder, CallsOf, Waits, Inactive
  <2>2. CASE x = s
    BY <1>0, <1>1, <1>2, <1>3, <2>2 DEF InOrder, CallsOf, Waits, Inactive
  <2> QED
    BY <1>2, <2>1, <2>2
<1>5. events[x] = {x} /\ emitted[x] = {x}
  BY <1>0, <1>1 DEF OwnEvent
<1>6. OwnEvent(c)' /\ OwnEvent(s)'
  BY <1>0, <1>1, <1>3, <1>5 DEF OwnEvent
<1>7. FlushInv'
  <2>1. /\ x \notin OrmFacts!Flushers /\ x \in pending[entityManager] \cup OrmFacts!Done
        /\ OrmFacts!Flush(x)
    BY <1>0, <1>1, OrmSteps DEF FlushInv
  <2>2. /\ OrmFacts!OrmInv' /\ OrmFacts!Flushers' = OrmFacts!Flushers \cup {x}
        /\ UNCHANGED <<entityManager, pending, rejected, systemEvents, cleared>>
        /\ \A em \in EntityManagers : runner[em] # Nobody => runner'[em] = runner[em]
        /\ \A y, em : OrmFacts!Queued(y, em)' =>
             \/ OrmFacts!Queued(y, em)
             \/ y = x /\ runner[em] # Nobody
    BY <1>0, <2>1, OrmFacts!FlushKeeps, OrmStates, NamesAssumption DEF FlushInv
  <2>3. OrmFacts!Done' = OrmFacts!Done
    BY <2>2 DEF OrmFacts!Done
  <2>4. \A y \in Executions :
          /\ pc'[y] = "flush" <=> y \in OrmFacts!Flushers'
          /\ pc'[y] = "commit" => y \in pending'[entityManager'] \cup OrmFacts!Done'
          /\ pc'[y] = "returned" => y \in OrmFacts!Done'
    BY <1>0, <1>3, <2>2, <2>3 DEF FlushInv
  <2>5. ASSUME NEW em \in EntityManagers, NEW y \in Executions, OrmFacts!Queued(y, em)'
        PROVE  \E q \in Requests :
                 /\ y \notin {createUser(q), sendWelcomeEmail(q)}
                 /\ runner'[em] \in {createUser(q), sendWelcomeEmail(q)} \/ Failed(q)'
    <3>1. CASE y = x /\ runner[em] # Nobody
      <4>1. runner[em] \in Executions /\ runner'[em] = runner[em]
        BY <1>0, <2>2, <3>1, OrmStates DEF FlushInv, OrmFacts!OrmInv, OrmFacts!TypeOK
      <4>2. pc[runner[em]] = "flush"
        BY <1>0, <4>1, OrmStates DEF FlushInv, OrmFacts!Flushers, OrmFacts!Flushing
      <4>3. PICK q \in Requests : runner[em] \in {createUser(q), sendWelcomeEmail(q)}
        BY <4>1, NamesApart
      <4>4. q # r
        BY <1>0, <1>1, <4>2, <4>3 DEF InOrder
      <4>5. x \notin {createUser(q), sendWelcomeEmail(q)}
        BY <4>4, NamesApart
      <4> QED
        BY <3>1, <4>1, <4>3, <4>5
    <3>2. CASE OrmFacts!Queued(y, em)
      <4>1. runner[em] # Nobody => runner'[em] = runner[em]
        BY <2>2
      <4>2. rejected' = rejected
            /\ \A z \in Executions : pc[z] \in {"rollback", "threw"} => pc'[z] \in {"rollback", "threw"}
        BY <1>1, <1>3, <2>2
      <4>3. CASE runner[em] # Nobody
        BY <1>0, <3>2, <4>1, <4>2, <4>3, BehindKept DEF FlushInv
      <4>4. CASE runner[em] = Nobody
        <5>1. PICK q \in Requests :
                /\ y \notin {createUser(q), sendWelcomeEmail(q)}
                /\ runner[em] \in {createUser(q), sendWelcomeEmail(q)} \/ Failed(q)
          BY <1>0, <3>2 DEF FlushInv, WaitsBehind
        <5>2. Failed(q)
          BY <4>4, <5>1, NamesApart, NamesAssumption
        <5>3. Failed(q)'
          BY <4>2, <5>2, FailuresStay
        <5> QED
          BY <5>1, <5>3
      <4> QED
        BY <4>3, <4>4
    <3> QED
      BY <2>2, <2>5, <3>1, <3>2
  <2>6. WaitsBehind'
    BY <2>5 DEF WaitsBehind, EntityManagers
  <2> QED
    BY <2>2, <2>4, <2>6 DEF FlushInv
<1>8. Recorded(r)'
  <2>1. CASE x = c
    BY <1>0, <1>1, <1>2, <1>3, <1>5, <2>1 DEF Recorded, requestVars, bodies, Inactive, Refusals
  <2>2. CASE x = s
    BY <1>0, <1>1, <1>2, <1>3, <2>2 DEF Recorded, requestVars, bodies, Inactive, Refusals
  <2> QED
    BY <1>2, <2>1, <2>2
<1> QED
  BY <1>4, <1>6, <1>7, <1>8 DEF OwnKept

(* The await of flush ends, well or with an error.                         *)
LEMMA AwaitKeeps ==
  ASSUME RegistrationInv, NEW r \in Requests,
         NEW x \in {createUser(r), sendWelcomeEmail(r)}, FlushReturns(r, x) \/ FlushThrows(r, x)
  PROVE  OwnKept(r)
<1> DEFINE c == createUser(r)
           s == sendWelcomeEmail(r)
<1>0. c \in Executions /\ s \in Executions /\ InOrder(r) /\ OwnEvent(c) /\ OwnEvent(s)
      /\ FlushInv /\ Recorded(r) /\ TypeOK /\ c # s /\ x \in Executions
  BY NamesApart DEF RegistrationInv
<1>1. /\ App!Running(r, x) /\ pc[x] = "flush"
      /\ UNCHANGED <<touched, emitted, domainEvents, events, todo, published,
                     tables, existingUser, bodies, up>>
      /\ \/ /\ pc' = [pc EXCEPT ![x] = "returned"] /\ calls' = [calls EXCEPT ![r] = App!Pop(@)]
            /\ Orm!Returns(x)
            /\ IF x = c THEN response' = [response EXCEPT ![r] = "created"] /\ turn' = turn
               ELSE turn' = turn \cup {r} /\ UNCHANGED response
         \/ /\ pc' = [pc EXCEPT ![x] = "rollback"] /\ turn' = turn \cup {r}
            /\ UNCHANGED <<calls, response>>
            /\ Orm!Throws(x)
  BY DEF FlushReturns, FlushThrows, App!CommitReturns, App!CommitThrows, App!At, App!Goto,
         App!sourceVars, App!outputVars, requestVars
<1>2. \/ x = c /\ calls[r] = <<c>> /\ pc[s] = "returned"
      \/ x = s /\ calls[r] = <<c, s>> /\ pc[c] = "publish"
  BY <1>0, <1>1, WhoRuns DEF Inactive, InOrder
<1>3. /\ pc'[x] \in {"returned", "rollback"} /\ \A y \in Executions \ {x} : pc'[y] = pc[y]
      /\ pc'[x] = "returned" => calls'[r] = App!Pop(calls[r]) /\ Orm!Returns(x)
      /\ pc'[x] = "rollback" => calls' = calls /\ response' = response /\ r \in turn'
      /\ r \notin turn
  BY <1>0, <1>1, Typed DEF InOrder
<1>4. InOrder(r)'
  <2>1. CASE x = c /\ pc'[c] = "returned"
    <3>0. calls[r] = <<c>> /\ pc[s] = "returned"
      BY <1>0, <1>2, <2>1
    <3>1. pc'[s] = "returned"
      BY <1>0, <1>3, <2>1, <3>0
    <3>2. calls'[r] = <<>>
      BY <1>3, <2>1, <3>0, ShortCalls
    <3>3. pc'[x] # "rollback"
      BY <2>1
    <3>4. pc'[x] = "rollback" \/ turn' = turn
      BY <1>0, <1>1, <2>1, Typed
    <3>5. r \notin turn'
      BY <1>3, <3>3, <3>4
    <3> QED
      BY <2>1, <3>1, <3>2, <3>5 DEF InOrder, CallsOf, Waits, Inactive
  <2>2. CASE x = s /\ pc'[s] = "returned"
    <3>1. pc'[c] = "publish" /\ calls'[r] = <<c>> /\ r \in turn'
      BY <1>0, <1>1, <1>2, <1>3, <2>2, ShortCalls
    <3> QED
      BY <2>2, <3>1 DEF InOrder, CallsOf, Inactive
  <2>3. CASE x = c /\ pc'[c] = "rollback"
    BY <1>0, <1>1, <1>2, <1>3, <2>3 DEF InOrder, CallsOf, Inactive
  <2>4. CASE x = s /\ pc'[s] = "rollback"
    BY <1>0, <1>1, <1>2, <1>3, <2>4 DEF InOrder, CallsOf, Inactive
  <2> QED
    BY <1>3, <2>1, <2>2, <2>3, <2>4
<1>5. events[x] = {x} /\ emitted[x] = {x}
  BY <1>0, <1>1 DEF OwnEvent
<1>6. OwnEvent(c)' /\ OwnEvent(s)'
  BY <1>0, <1>1, <1>3, <1>5 DEF OwnEvent
<1>7. FlushInv'
  <2>1. OrmFacts!Returns(x) \/ OrmFacts!Throws(x)
    BY <1>1, OrmSteps
  <2>2. /\ OrmFacts!OrmInv' /\ OrmFacts!Flushers' = OrmFacts!Flushers \ {x}
        /\ UNCHANGED <<entityManager, pending, runner, flushQueue, systemEvents, cleared>>
        /\ rejected \ {x} \subseteq rejected'
        /\ OrmFacts!Returns(x) => x \in OrmFacts!Done
    BY <1>0, <2>1, OrmFacts!AwaitEnds DEF FlushInv
  <2>3. OrmFacts!Done' = OrmFacts!Done
    BY <2>2 DEF OrmFacts!Done
  <2>4. pc'[x] = "returned" => x \in OrmFacts!Done
    BY <1>3, <2>2, OrmSteps
  <2>5. \A y \in Executions :
          /\ pc'[y] = "flush" <=> y \in OrmFacts!Flushers'
          /\ pc'[y] = "commit" => y \in pending'[entityManager'] \cup OrmFacts!Done'
          /\ pc'[y] = "returned" => y \in OrmFacts!Done'
    BY <1>0, <1>3, <2>2, <2>3, <2>4 DEF FlushInv
  <2>6. \A y, em : OrmFacts!Queued(y, em)' <=> OrmFacts!Queued(y, em)
    BY <2>2 DEF OrmFacts!Queued
  <2>7. pc'[x] = "returned" => x \notin rejected
    BY <1>0, <1>3 DEF Orm!Returns, FlushInv, OrmFacts!OrmInv, OrmFacts!Places
  <2>8. \A y \in Executions :
          /\ y \in rejected => y \in rejected' \/ pc'[y] \in {"rollback", "threw"}
          /\ pc[y] \in {"rollback", "threw"} => pc'[y] \in {"rollback", "threw"}
    BY <1>1, <1>3, <2>2, <2>7
  <2>9. WaitsBehind'
    BY <1>0, <2>2, <2>6, <2>8, BehindKept DEF FlushInv, WaitsBehind, EntityManagers
  <2> QED
    BY <2>2, <2>5, <2>9 DEF FlushInv
<1>8. Recorded(r)'
  <2>1. CASE x = c
    <3>1. /\ pc'[c] \in {"returned", "rollback"} /\ pc[c] = "flush" /\ pc'[s] = pc[s]
          /\ response[r] = "none"
          /\ response'[r] = IF pc'[c] = "returned" THEN "created" ELSE "none"
      BY <1>0, <1>1, <1>3, <2>1, Typed DEF Recorded, Inactive
    <3> QED
      BY <1>0, <1>1, <3>1 DEF Recorded, tables, bodies, Refusals, Inactive
  <2>2. CASE x = s
    <3>1. /\ pc'[c] = "publish" /\ pc[c] = "publish" /\ pc'[s] # "idle" /\ pc[s] # "idle"
          /\ response' = response /\ response[r] = "none"
      BY <1>0, <1>1, <1>2, <1>3, <2>2, Typed DEF Recorded, Inactive
    <3> QED
      BY <1>0, <1>1, <3>1 DEF Recorded, tables, bodies, Refusals
  <2> QED
    BY <2>1, <2>2
<1> QED
  BY <1>4, <1>6, <1>7, <1>8 DEF OwnKept

(* An execution fails, and what called it with it: the EntityManager the   *)
(* provider holds is cleared (MikroOrmUnitOfWork.ts:44).                   *)
LEMMA RollbackKeeps ==
  ASSUME RegistrationInv, NEW r \in Requests,
         NEW x \in {createUser(r), sendWelcomeEmail(r)}, Rollback(r, x)
  PROVE  OwnKept(r)
<1> DEFINE c == createUser(r)
           s == sendWelcomeEmail(r)
<1>0. c \in Executions /\ s \in Executions /\ InOrder(r) /\ OwnEvent(c) /\ OwnEvent(s)
      /\ FlushInv /\ Recorded(r) /\ TypeOK /\ c # s /\ x \in Executions
  BY NamesApart DEF RegistrationInv
<1>1. /\ App!Running(r, x) /\ pc[x] = "rollback" /\ r \in turn
      /\ calls' = [calls EXCEPT ![r] = App!Pop(@)] /\ App!Rethrow(r, x)
      /\ UNCHANGED <<touched, emitted, domainEvents, events, todo, published>>
      /\ Orm!Clear
      /\ UNCHANGED <<tables, existingUser, bodies, up>>
      /\ IF x = c
         THEN response' = [response EXCEPT ![r] = StatusOfError(r)] /\ turn' = turn \ {r}
         ELSE turn' = turn /\ UNCHANGED response
  BY DEF Rollback, Yields, Continues, App!Rollback, App!At, App!sourceVars, App!outputVars
<1>2. \/ x = c /\ calls[r] = <<c>> /\ pc[s] \in Inactive
      \/ x = s /\ calls[r] = <<c, s>> /\ pc[c] = "publish"
  BY <1>0, <1>1, WhoRuns
<1>3. /\ x = c => pc' = [pc EXCEPT ![c] = "threw"] /\ calls'[r] = <<>>
      /\ x = s => pc' = [pc EXCEPT ![s] = "threw", ![c] = "rollback"] /\ calls'[r] = <<c>>
  <2>1. calls'[r] = App!Pop(calls[r])
    BY <1>0, <1>1, Typed
  <2>2. CASE x = c
    <3>1. App!Pop(calls[r]) = <<>>
      BY <1>0, <1>2, <2>2, ShortCalls
    <3> QED
      BY <1>0, <1>1, <2>1, <2>2, <3>1 DEF App!Rethrow, App!Goto
  <2>3. CASE x = s
    <3>1. App!Pop(calls[r]) = <<c>> /\ <<c>> # <<>> /\ App!Innermost(<<c>>) = c
      BY <1>0, <1>2, <2>3, ShortCalls
    <3> QED
      BY <1>0, <1>1, <2>1, <2>3, <3>1 DEF App!Rethrow, App!Goto
  <2> QED
    BY <2>2, <2>3
<1>4. /\ pc'[x] = "threw" /\ \A y \in Executions \ {c, s} : pc'[y] = pc[y]
      /\ x = c => pc'[s] = pc[s]
      /\ x = s => pc'[c] = "rollback"
  BY <1>0, <1>3, Typed
<1>5. InOrder(r)'
  <2>1. CASE x = c
    <3>1. pc'[c] = "threw" /\ pc'[s] \in Inactive /\ calls'[r] = <<>> /\ r \notin turn'
      BY <1>0, <1>1, <1>2, <1>3, <1>4, <2>1
    <3> QED
      BY <1>0, <3>1 DEF InOrder, CallsOf, Waits, Inactive
  <2>2. CASE x = s
    <3>1. pc'[c] = "rollback" /\ pc'[s] = "threw" /\ calls'[r] = <<c>> /\ r \in turn'
      BY <1>0, <1>1, <1>3, <1>4, <2>2
    <3> QED
      BY <3>1 DEF InOrder, CallsOf, Inactive
  <2> QED
    BY <2>1, <2>2
<1>6. OwnEvent(c)' /\ OwnEvent(s)'
  <2>1. \A y \in {c, s} : pc'[y] = pc[y] \/ pc'[y] \in {"threw", "rollback"}
    BY <1>2, <1>4
  <2> QED
    BY <1>0, <1>1, <2>1 DEF OwnEvent
<1>7. FlushInv'
  <2>1. /\ OrmFacts!OrmInv' /\ OrmFacts!Flushers' = OrmFacts!Flushers
        /\ entityManager' = entityManager
        /\ \A em \in EntityManagers :
             pending[em] \cup OrmFacts!Done \subseteq pending'[em] \cup OrmFacts!Done'
        /\ OrmFacts!Done \subseteq OrmFacts!Done' /\ UNCHANGED <<rejected, runner>>
    BY <1>0, <1>1, OrmSteps, OrmStates, OrmFacts!ClearKeeps DEF FlushInv
  <2>2. \A y \in Executions :
          \/ pc'[y] = pc[y]
          \/ pc'[y] \in {"threw", "rollback"} /\ pc[y] \in {"publish", "rollback"}
    BY <1>1, <1>2, <1>4
  <2>3. entityManager \in EntityManagers
    BY <1>0, OrmStates DEF FlushInv, OrmFacts!OrmInv, OrmFacts!TypeOK
  <2>4. \A y \in Executions :
          /\ pc'[y] = "flush" <=> y \in OrmFacts!Flushers'
          /\ pc'[y] = "commit" => y \in pending'[entityManager'] \cup OrmFacts!Done'
          /\ pc'[y] = "returned" => y \in OrmFacts!Done'
    BY <1>0, <2>1, <2>2, <2>3 DEF FlushInv
  <2>5. \A y, em : OrmFacts!Queued(y, em)' <=> OrmFacts!Queued(y, em)
    BY <1>1 DEF OrmFacts!Queued, Orm!Clear, Orm!flushVars
  <2>6. WaitsBehind'
    BY <1>0, <2>1, <2>2, <2>5, BehindKept DEF FlushInv, WaitsBehind, EntityManagers
  <2> QED
    BY <2>1, <2>4, <2>6 DEF FlushInv
<1>8. Recorded(r)'
  <2>1. CASE x = c
    <3>1. /\ pc'[c] = "threw" /\ pc'[s] = pc[s] /\ response'[r] = StatusOfError(r)
      BY <1>0, <1>1, <1>4, <2>1, Typed
    <3>2. /\ StatusOfError(r) \in {"failed", "conflict", "error"}
          /\ StatusOfError(r) = "conflict" => existingUser[r] = "found"
      BY DEF StatusOfError
    <3> QED
      BY <1>0, <1>1, <3>1, <3>2 DEF Recorded, Refusals, Inactive, tables, bodies
  <2>2. CASE x = s
    <3>1. /\ pc'[c] = "rollback" /\ pc[c] = "publish" /\ pc'[s] = "threw" /\ pc[s] # "idle"
          /\ response' = response /\ response[r] = "none"
      BY <1>0, <1>1, <1>2, <1>4, <2>2, Typed DEF Recorded, Inactive
    <3> QED
      BY <1>0, <1>1, <3>1 DEF Recorded, Refusals, tables, bodies
  <2> QED
    BY <2>1, <2>2
<1> QED
  BY <1>5, <1>6, <1>7, <1>8 DEF OwnKept

(* The database answers for a flush.                                       *)
LEMMA ServeKeeps ==
  ASSUME RegistrationInv, NEW em \in EntityManagers, Serve(em)
  PROVE  RegistrationInv'
<1>1. /\ UNCHANGED <<appVars, tables, requestVars, bodies, turn, up>>
      /\ Orm!Working(em) /\ (Orm!Written(em) \/ Orm!Refused(em))
      /\ turn = {} \/ ~Orm!Idle
  <2>1. batch[em] = {} /\ Orm!Working(em) => ~Orm!Idle
    BY DEF Orm!Idle, Orm!EntityManagers, EntityManagers
  <2> QED
    BY <2>1 DEF Serve, TransactionCommits, TransactionFails, NothingToWrite, InBackground, Quiet
<1>2. OrmFacts!OrmInv' /\ OrmFacts!ServedLeaves(em)
  BY <1>1, OrmServes, OrmStates, NamesAssumption, OrmFacts!ServedKeeps
     DEF RegistrationInv, FlushInv
<1>3. \A r \in Requests : InOrder(r)'
  BY <1>1 DEF RegistrationInv, InOrder, CallsOf, Waits, appVars
<1>4. \A r \in Requests : Alone(r)'
  BY <1>1 DEF RegistrationInv, Alone, BeforeNotification, appVars
<1>5. \A r \in Requests : Recorded(r)'
  BY <1>1 DEF RegistrationInv, Recorded, appVars, tables, requestVars, bodies
<1>6. \A x \in Executions : OwnEvent(x)'
  BY <1>1 DEF RegistrationInv, OwnEvent, appVars
<1>7. pc' = pc
  BY <1>1 DEF appVars
<1>8. entityManager \in EntityManagers /\ OrmFacts!EntityManagers = EntityManagers
  BY OrmStates DEF RegistrationInv, FlushInv, OrmFacts!OrmInv, OrmFacts!TypeOK
<1>9. \A x \in Executions :
        /\ pc'[x] = "flush" <=> x \in OrmFacts!Flushers'
        /\ pc'[x] = "commit" => x \in pending'[entityManager'] \cup OrmFacts!Done'
        /\ pc'[x] = "returned" => x \in OrmFacts!Done'
  BY <1>2, <1>7, <1>8 DEF RegistrationInv, FlushInv, OrmFacts!ServedLeaves
<1>10. WaitsBehind'
  <2>1. \A y \in Executions :
          /\ y \in rejected => y \in rejected' \/ pc'[y] \in {"rollback", "threw"}
          /\ pc[y] \in {"rollback", "threw"} => pc'[y] \in {"rollback", "threw"}
    BY <1>2, <1>7 DEF OrmFacts!ServedLeaves
  <2>2. \A x : \A e \in EntityManagers :
          OrmFacts!Queued(x, e)' =>
            OrmFacts!Queued(x, e) /\ (runner'[e] = runner[e] \/ runner[e] \in rejected')
    BY <1>2, <1>8 DEF OrmFacts!ServedLeaves
  <2> QED
    BY <2>1, <2>2, BehindKept DEF RegistrationInv, FlushInv, WaitsBehind, EntityManagers
<1>11. FlushInv'
  BY <1>2, <1>9, <1>10 DEF FlushInv
<1>12. TypeOK'
  <2>1. Orm!TypeOK'
    BY <1>2 DEF OrmFacts!OrmInv, OrmFacts!TypeOK, Orm!TypeOK, Orm!EntityManagers,
                OrmFacts!EntityManagers
  <2>2. App!TypeOK'
    BY <1>1 DEF RegistrationInv, TypeOK, App!TypeOK, appVars
  <2> QED
    BY <1>1, <2>1, <2>2 DEF RegistrationInv, TypeOK, tables, requestVars, bodies
<1> QED
  BY <1>3, <1>4, <1>5, <1>6, <1>11, <1>12 DEF RegistrationInv

(* The tables and the answers keep their types.                            *)
LEMMA RestTyped ==
  ASSUME RegistrationInv, Service!OwnershipInv', FlushInv', NEW r \in Requests, StepOf(r)
  PROVE  TypeOK'
<1> DEFINE Rest ==
      /\ upserts \in SUBSET Requests /\ users \in SUBSET Requests
      /\ [email |-> email, nameless |-> nameless] \in Bodies
      /\ existingUser \in [Requests -> {"unknown", "found", "none", "failed"}]
      /\ response \in [Requests -> {"none", "created", "invalid", "conflict", "error", "failed"}]
      /\ turn \in SUBSET Requests
      /\ up \in BOOLEAN
<1>0. Rest
  BY DEF RegistrationInv, TypeOK
<1>1. App!TypeOK'
  BY DEF Service!OwnershipInv, Service!NestingInv, Service!TypeOK, App!TypeOK,
         Service!Phases, App!Phases, Service!Delivering, App!Delivering,
         Service!Ended, App!Ended, Service!Sources, App!Sources
<1>2. Orm!TypeOK'
  BY DEF FlushInv, OrmFacts!OrmInv, OrmFacts!TypeOK, Orm!TypeOK, Orm!EntityManagers,
         OrmFacts!EntityManagers
<1> SUFFICES Rest'
  BY <1>1, <1>2 DEF TypeOK
<1> USE DEF tables, requestVars, bodies
<1>3. CASE RejectInvalid(r) \/ FindByEmail(r) \/ FindByEmailFails(r)
  BY <1>0, <1>3 DEF RejectInvalid, FindByEmail, FindByEmailFails, InBackground
<1>4. CASE Submit(r) \/ SubscriberBegins(r)
  BY <1>0, <1>4 DEF Submit, SubscriberBegins, InBackground, Continues
<1>5. CASE CreateUser(r) \/ RejectDuplicate(r) \/ SendWelcomeEmail(r)
  BY <1>0, <1>5 DEF CreateUser, RejectDuplicate, SendWelcomeEmail, Resumes, Continues
<1>6. CASE RunUpsert(r)
  BY <1>0, <1>6 DEF RunUpsert, InBackground
<1>7. ASSUME NEW x \in {createUser(r), sendWelcomeEmail(r)}, Execute(r, x)
      PROVE  Rest'
  <2>1. CASE UseCaseReturns(r, x) \/ DispatchEvent(r, x) \/ DispatchDone(r, x)
             \/ PublishEvent(r, x) \/ PublishDone(r, x) \/ SaveAll(r, x) \/ FlushThrows(r, x)
    BY <1>0, <2>1 DEF UseCaseReturns, DispatchEvent, DispatchDone, PublishEvent, PublishDone,
                      SaveAll, FlushThrows, Continues
  <2>2. CASE Commit(r, x)
    BY <1>0, <2>2 DEF Commit, UpsertUsers, Yields
  <2>3. CASE FlushReturns(r, x)
    BY <1>0, <2>3 DEF FlushReturns
  <2>4. CASE Rollback(r, x)
    <3>1. StatusOfError(r) \in {"failed", "conflict", "error"}
      BY DEF StatusOfError
    <3> QED
      BY <1>0, <2>4, <3>1 DEF Rollback, Yields, Continues
  <2> QED
    BY <1>7, <2>1, <2>2, <2>3, <2>4 DEF Execute
<1> QED
  BY <1>3, <1>4, <1>5, <1>6, <1>7 DEF StepOf, Proceed

LEMMA RegistrationStep ==
  ASSUME RegistrationInv, Service!OwnershipInv, Service!OwnershipInv', [Next]_vars
  PROVE  RegistrationInv'
<1>1. CASE UNCHANGED vars
  <2>1. UNCHANGED <<appVars, ormVars, tables, requestVars, bodies, turn, up>>
    BY <1>1 DEF vars
  <2>2. TypeOK'
    <3>1. App!TypeOK'
      BY <2>1 DEF RegistrationInv, TypeOK, App!TypeOK, appVars
    <3>2. Orm!TypeOK'
      BY <2>1 DEF RegistrationInv, TypeOK, Orm!TypeOK, ormVars
    <3> QED
      BY <2>1, <3>1, <3>2 DEF RegistrationInv, TypeOK, tables, requestVars, bodies
  <2>3. \A r \in Requests : InOrder(r)' /\ Recorded(r)'
    BY <2>1 DEF RegistrationInv, InOrder, CallsOf, Waits, Recorded, appVars, tables, requestVars,
                bodies
  <2>4. \A r \in Requests : Alone(r)'
    BY <2>1 DEF RegistrationInv, Alone, BeforeNotification, Orm!Idle, Orm!Working, appVars,
                ormVars
  <2>5. \A x \in Executions : OwnEvent(x)'
    BY <2>1 DEF RegistrationInv, OwnEvent, appVars
  <2>6. FlushInv'
    BY <2>1, FlushKept DEF RegistrationInv, appVars
  <2> QED
    BY <2>2, <2>3, <2>4, <2>5, <2>6 DEF RegistrationInv
<1>2. ASSUME NEW r \in Requests, StepOf(r)
      PROVE  RegistrationInv'
  <2>1. OwnKept(r)
    <3>1. CASE RejectInvalid(r) \/ FindByEmail(r) \/ FindByEmailFails(r) \/ RunUpsert(r)
      BY <3>1, QuietKeeps
    <3>2. CASE Submit(r) \/ SubscriberBegins(r)
      BY <3>2, BeginKeeps
    <3>3. CASE CreateUser(r) \/ SendWelcomeEmail(r)
      BY <3>3, EmitKeeps
    <3>4. CASE RejectDuplicate(r)
      BY <3>4, UseCaseKeeps
    <3>5. ASSUME NEW x \in {createUser(r), sendWelcomeEmail(r)}, Execute(r, x)
          PROVE  OwnKept(r)
      BY <3>5, UseCaseKeeps, LoopKeeps, SaveKeeps, CommitKeeps, AwaitKeeps, RollbackKeeps
         DEF Execute
    <3> QED
      BY <1>2, <3>1, <3>2, <3>3, <3>4, <3>5 DEF StepOf, Proceed
  <2>2. TypeOK'
    BY <1>2, <2>1, RestTyped DEF OwnKept
  <2>3. \A q \in Requests : InOrder(q)' /\ Recorded(q)' /\ Alone(q)'
    BY <1>2, <2>1, OthersKept, AloneKept DEF OwnKept
  <2>4. \A y \in Executions : OwnEvent(y)'
    BY <1>2, <2>1, OthersKept DEF OwnKept
  <2> QED
    BY <2>1, <2>2, <2>3, <2>4 DEF RegistrationInv, OwnKept
<1>3. ASSUME NEW em \in EntityManagers, Serve(em)
      PROVE  RegistrationInv'
  BY <1>3, ServeKeeps
<1> QED
  BY <1>1, <1>2, <1>3 DEF Next, Finished, StepOf

LEMMA RegistrationInvariant == Spec => []RegistrationInv
<1>1. Init => RegistrationInv
  BY RegistrationInit
<1>2. RegistrationInv /\ Service!OwnershipInv /\ Service!OwnershipInv' /\ [Next]_vars
        => RegistrationInv'
  BY RegistrationStep
<1>3. Spec => []Service!OwnershipInv
  BY RegistrationRunsExecutions, PTL
<1> QED
  BY <1>1, <1>2, <1>3, PTL DEF Spec

-----------------------------------------------------------------------------

(* The state of the requests, of the EntityManagers and of the tables stays*)
(* within its types, whatever is interleaved and whatever fails.           *)
THEOREM RegistrationTypeCorrect == Spec => []TypeOK
<1>1. RegistrationInv => TypeOK
  BY DEF RegistrationInv
<1> QED
  BY <1>1, RegistrationInvariant, PTL

(* A flush that is awaited finds the event it was called for, however many *)
(* requests share the EntityManager and however long it is queued: in that *)
(* EntityManager, or already written by a flush before it, or forgotten    *)
(* through the rollback or the flush of another request                    *)
(* (MikroOrmEventStore.ts:14, MikroOrmUnitOfWork.ts:29, 44).               *)
THEOREM FlushesFindTheirEvents == Spec => []FlushFindsOwn
<1>1. RegistrationInv => FlushFindsOwn
  <2>1. SUFFICES ASSUME RegistrationInv, NEW x \in Executions,
                        pc[x] = "flush", x \notin resolved \cup rejected
                 PROVE  \E em \in EntityManagers :
                          /\ Orm!Flushing(x, em)
                          /\ events[x] \subseteq pending[em] \cup systemEvents \cup cleared
    BY DEF FlushFindsOwn
  <2>2. PICK em \in EntityManagers : OrmFacts!Flushing(x, em)
    BY <2>1, OrmStates DEF RegistrationInv, FlushInv, OrmFacts!Flushers
  <2>3. events[x] = {x}
    BY <2>1 DEF RegistrationInv, OwnEvent
  <2>4. x \in pending[em] \cup systemEvents \cup cleared
    BY <2>1, <2>2, OrmStates
       DEF RegistrationInv, FlushInv, OrmFacts!OrmInv, OrmFacts!Flow, OrmFacts!Done
  <2> QED
    BY <2>2, <2>3, <2>4, OrmQueues
<1> QED
  BY <1>1, RegistrationInvariant, PTL

(* A request answered 201 has both its events in system_events, or the     *)
(* rollback or the flush of another request made the EntityManager forget  *)
(* them before its queued flush had its turn; and its user a row or an     *)
(* upsert to run (CreateUserController.ts:24-40,                           *)
(* MikroOrmUnitOfWork.ts:26-46).                                           *)
THEOREM CreatedMeansRecorded == Spec => []CreatedIsRecorded
<1>1. RegistrationInv => CreatedIsRecorded
  <2>1. SUFFICES ASSUME RegistrationInv, NEW r \in Requests, response[r] = "created"
                 PROVE  /\ {createUser(r), sendWelcomeEmail(r)} \subseteq systemEvents \cup cleared
                        /\ up => r \in users \cup upserts
    BY DEF CreatedIsRecorded
  <2>2. pc[createUser(r)] = "returned" /\ (up => r \in users \cup upserts)
    BY <2>1 DEF RegistrationInv, Recorded
  <2>3. pc[sendWelcomeEmail(r)] = "returned"
    BY <2>1, <2>2 DEF RegistrationInv, InOrder
  <2> QED
    BY <2>1, <2>2, <2>3, NamesApart DEF RegistrationInv, FlushInv, OrmFacts!Done
<1> QED
  BY <1>1, RegistrationInvariant, PTL

(* A request whose flush nobody will ever call is the victim of another    *)
(* one, whose own flush was refused before it came to the queue            *)
(* (MikroOrmUnitOfWork.ts:40); it never strands itself.                    *)
THEOREM StrandedMeansFailed == Spec => []StrandedByFailure
<1>1. RegistrationInv => StrandedByFailure
  <2>1. SUFFICES ASSUME RegistrationInv, NEW r \in Requests, Stranded(r)
                 PROVE  \E q \in Requests \ {r} : Failed(q)
    BY DEF StrandedByFailure
  <2>2. PICK x \in {createUser(r), sendWelcomeEmail(r)} : Orm!Stranded(x)
    BY <2>1 DEF Stranded
  <2>3. PICK em \in EntityManagers : runner[em] = Nobody /\ OrmFacts!Queued(x, em)
    BY <2>2, OrmStates, OrmQueues DEF Orm!Stranded
  <2>4. PICK q \in Requests :
          /\ x \notin {createUser(q), sendWelcomeEmail(q)}
          /\ runner[em] \in {createUser(q), sendWelcomeEmail(q)} \/ Failed(q)
    BY <2>1, <2>3, NamesApart DEF RegistrationInv, FlushInv, WaitsBehind
  <2>5. Failed(q)
    BY <2>3, <2>4, NamesApart, NamesAssumption
  <2> QED
    BY <2>2, <2>4, <2>5
<1> QED
  BY <1>1, RegistrationInvariant, PTL

(* 409 is answered only while another user has the address, and to a       *)
(* request that left nothing behind (CreateUserUseCase.ts:15-19,           *)
(* CreateUserController.ts:62-65).                                         *)
THEOREM ConflictMeansTaken == Spec => []ConflictIsJustified
<1>1. RegistrationInv => ConflictIsJustified
  <2>1. SUFFICES ASSUME RegistrationInv, NEW r \in Requests, response[r] = "conflict"
                 PROVE  /\ \E q \in users \ {r} : email[q] = email[r]
                        /\ r \notin users \cup upserts
                        /\ emitted[sendWelcomeEmail(r)] = {}
    BY DEF ConflictIsJustified
  <2>2. emitted[createUser(r)] = {} /\ \E q \in users : email[q] = email[r]
    BY <2>1 DEF RegistrationInv, Recorded
  <2>3. r \notin users \cup upserts /\ pc[sendWelcomeEmail(r)] = "idle"
    BY <2>1, <2>2 DEF RegistrationInv, Recorded
  <2>4. emitted[sendWelcomeEmail(r)] = {}
    BY <2>1, <2>3, NamesApart DEF RegistrationInv, OwnEvent
  <2> QED
    BY <2>2, <2>3, <2>4
<1> QED
  BY <1>1, RegistrationInvariant, PTL
=============================================================================
