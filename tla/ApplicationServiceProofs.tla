---------------------- MODULE ApplicationServiceProofs ----------------------
(***************************************************************************)
(* Theorems about ApplicationService for every set of contexts, executions,*)
(* sources and events, and every nesting: its scopes, that it implements   *)
(* UnitOfWork, and, with no discipline asked of the subscribers, what is   *)
(* left behind and where the events go.                                    *)
(***************************************************************************)
EXTENDS ApplicationService, SequenceTheorems, FiniteSetTheorems, TLAPS

-----------------------------------------------------------------------------
(* The operations of AggregateTracker on one stack.                        *)

(* A pop keeps what is under the innermost element (AggregateTracker.ts:   *)
(* 32-39, 50-56).                                                          *)
LEMMA PopProperties ==
  ASSUME NEW S, NEW stack \in Seq(S)
  PROVE  /\ Pop(stack) \in Seq(S)
         /\ stack = <<>> => Pop(stack) = <<>>
         /\ stack # <<>> => Len(Pop(stack)) = Len(stack) - 1
         /\ \A i \in 1 .. Len(Pop(stack)) : Pop(stack)[i] = stack[i]
<1>1. CASE stack = <<>>
  BY <1>1 DEF Pop
<1>2. CASE stack # <<>>
  <2>1. Len(stack) \in Nat /\ Len(stack) > 0
    BY <1>2, EmptySeq
  <2>2. Pop(stack) = SubSeq(stack, 1, Len(stack) - 1)
    BY <1>2 DEF Pop
  <2>3. \A i \in 1 .. Len(stack) - 1 : stack[i] \in S
    BY <2>1, ElementOfSeq
  <2> DEFINE n == Len(stack) - 1
  <2>4. n \in Nat /\ n = Len(stack) - 1 /\ Pop(stack) = SubSeq(stack, 1, n)
    BY <2>1, <2>2
  <2> HIDE DEF n
  <2>5. /\ SubSeq(stack, 1, n) \in Seq(S)
        /\ Len(SubSeq(stack, 1, n)) = n
        /\ \A i \in 1 .. n : SubSeq(stack, 1, n)[i] = stack[i]
    <3>1. \A i \in 1 .. n : stack[i] \in S
      BY <2>3, <2>4
    <3>2. /\ SubSeq(stack, 1, n) \in Seq(S)
          /\ Len(SubSeq(stack, 1, n)) = IF 1 <= n THEN n - 1 + 1 ELSE 0
          /\ \A i \in 1 .. n - 1 + 1 : SubSeq(stack, 1, n)[i] = stack[1 + i - 1]
      BY <2>4, <3>1, SubSeqProperties
    <3> QED
      BY <2>4, <3>2
  <2> QED
    BY <1>2, <2>4, <2>5
<1> QED
  BY <1>1, <1>2

(* The innermost element of a stack is one of its elements.                *)
LEMMA InnermostProperties ==
  ASSUME NEW S, NEW stack \in Seq(S), stack # <<>>
  PROVE  Len(stack) \in 1 .. Len(stack) /\ Innermost(stack) \in S
<1>1. Len(stack) \in Nat /\ Len(stack) > 0
  BY EmptySeq
<1> QED
  BY <1>1, ElementOfSeq DEF Innermost

(* begin pushes an empty scope (AggregateTracker.ts:14-21).                *)
LEMMA BeginScopeProperties ==
  ASSUME NEW S, NEW stack \in Seq(SUBSET S)
  PROVE  /\ BeginScope(stack) \in Seq(SUBSET S)
         /\ Len(BeginScope(stack)) = Len(stack) + 1
         /\ \A i \in 1 .. Len(stack) : BeginScope(stack)[i] = stack[i]
         /\ BeginScope(stack)[Len(stack) + 1] = {}
BY {} \in SUBSET S, AppendProperties DEF BeginScope

(* track changes the innermost scope only (AggregateTracker.ts:23-30).     *)
LEMMA TrackInProperties ==
  ASSUME NEW S, NEW stack \in Seq(SUBSET S), NEW source \in S
  PROVE  /\ TrackIn(stack, source) \in Seq(SUBSET S)
         /\ Len(TrackIn(stack, source)) = Len(stack)
         /\ \A i \in 1 .. Len(stack) :
              TrackIn(stack, source)[i] =
                IF i = Len(stack) THEN stack[i] \cup {source} ELSE stack[i]
<1>1. CASE stack = <<>>
  BY <1>1 DEF TrackIn
<1>2. CASE stack # <<>>
  <2>1. Innermost(stack) \in SUBSET S /\ Len(stack) \in 1 .. Len(stack)
    BY <1>2, InnermostProperties
  <2>2. stack[Len(stack)] \cup {source} \in SUBSET S
    BY <2>1 DEF Innermost
  <2>3. TrackIn(stack, source) = [stack EXCEPT ![Len(stack)] = @ \cup {source}]
    BY <1>2 DEF TrackIn
  <2> DEFINE larger == stack[Len(stack)] \cup {source}
             longer == [stack EXCEPT ![Len(stack)] = larger]
  <2>4. /\ longer \in Seq(SUBSET S)
        /\ Len(longer) = Len(stack)
        /\ \A j \in 1 .. Len(stack) :
              longer[j] = IF j = Len(stack) THEN larger ELSE stack[j]
    <3> HIDE DEF larger
    <3> QED
      BY <2>1, <2>2, ExceptSeq DEF larger
  <2>5. TrackIn(stack, source) = longer
    BY <2>3
  <2> HIDE DEF longer
  <2>6. \A i \in 1 .. Len(stack) :
          longer[i] = IF i = Len(stack) THEN stack[i] \cup {source} ELSE stack[i]
    BY <2>4
  <2> QED
    BY <2>4, <2>5, <2>6
<1> QED
  BY <1>1, <1>2

(* peek reads a set of sources (AggregateTracker.ts:41-48).                *)
LEMMA PeekScopeType ==
  ASSUME NEW S, NEW stack \in Seq(SUBSET S)
  PROVE  PeekScope(stack) \in SUBSET S
BY InnermostProperties DEF PeekScope

-----------------------------------------------------------------------------
(* Type correctness.                                                       *)

(* The code that runs in a context is one of its calls.                    *)
LEMMA RunningProperties ==
  ASSUME TypeOK, NEW c \in Contexts, NEW x, Running(c, x)
  PROVE  /\ x \in Exec
         /\ calls[c] \in Seq(Exec)
         /\ Len(calls[c]) \in 1 .. Len(calls[c])
         /\ calls[c][Len(calls[c])] = x
<1>1. calls[c] \in Seq(Exec)
  BY DEF TypeOK
<1> QED
  BY <1>1, InnermostProperties DEF Running, Innermost

(* Rethrow only moves executions to known phases.                          *)
LEMMA RethrowType ==
  ASSUME TypeOK, NEW c \in Contexts, NEW x \in Exec, Rethrow(c, x)
  PROVE  pc' \in [Exec -> Phases]
<1>1. pc \in [Exec -> Phases] /\ {"threw", "rollback"} \subseteq Phases
  BY DEF TypeOK, Phases, Ended
<1> QED
  BY <1>1 DEF Rethrow, Goto

(* Every step keeps every variable in its type.                            *)
LEMMA TypeStep ==
  ASSUME TypeOK, [Next]_vars
  PROVE  TypeOK'
<1> USE DEF TypeOK
<1> DEFINE Known == {"idle", "useCase", "dispatch", "publish", "store", "commit",
                     "flush", "rollback", "returned", "threw"}
<1>0. Phases = Known
  BY DEF Phases, Delivering, Ended
<1>1. ASSUME NEW x \in Exec, NEW c \in Contexts, Begin(c, x)
      PROVE  TypeOK'
  <2>1. calls' \in [Contexts -> Seq(Exec)]
    BY <1>1, AppendProperties DEF Begin
  <2>2. BeginScope(scopes[c]) \in Seq(SUBSET Sources)
    BY BeginScopeProperties
  <2>3. scopes' \in [Contexts -> Seq(SUBSET Sources)]
    BY <1>1, <2>2 DEF Begin
  <2>4. pc' \in [Exec -> Phases]
    BY <1>0, <1>1 DEF Begin, Goto
  <2> QED
    BY <1>1, <2>1, <2>3, <2>4 DEF Begin, sourceVars, outputVars
<1>2. ASSUME NEW x \in Exec, NEW c \in Contexts, NEW s \in Sources, NEW e \in Events,
             Emit(c, x, s, e)
      PROVE  TypeOK'
  <2>1. TrackIn(scopes[c], s) \in Seq(SUBSET Sources)
    BY TrackInProperties
  <2>2. scopes' \in [Contexts -> Seq(SUBSET Sources)]
    BY <1>2, <2>1 DEF Emit
  <2>3. /\ tracked' \in [Sources -> BOOLEAN]
        /\ domainEvents' \in [Sources -> SUBSET Events]
        /\ touched' \in [Exec -> SUBSET Sources]
        /\ emitted' \in [Exec -> SUBSET Events]
    BY <1>2 DEF Emit
  <2> QED
    BY <1>2, <2>2, <2>3 DEF Emit, outputVars
<1>3. ASSUME NEW x \in Exec, NEW c \in Contexts, UseCaseReturns(c, x)
      PROVE  TypeOK'
  <2> DEFINE drained == PeekScope(scopes[c])
             collected == UNION {domainEvents[s] : s \in drained}
  <2>1. drained \in SUBSET Sources
    BY PeekScopeType
  <2>2. collected \in SUBSET Events
    BY <2>1
  <2>3. DrainDomainEvents(drained)
        /\ events' = [events EXCEPT ![x] = collected]
        /\ todo' = [todo EXCEPT ![x] = collected]
    BY <1>3 DEF UseCaseReturns
  <2> HIDE DEF drained, collected
  <2>4. events' \in [Exec -> SUBSET Events] /\ todo' \in [Exec -> SUBSET Events]
    BY <2>2, <2>3
  <2>5. tracked' \in [Sources -> BOOLEAN]
    BY <2>3, Zenon DEF DrainDomainEvents
  <2>6. domainEvents' \in [Sources -> SUBSET Events]
    BY <2>3 DEF DrainDomainEvents
  <2>7. pc' \in [Exec -> Phases]
    BY <1>0, <1>3 DEF UseCaseReturns, Goto
  <2> QED
    BY <1>3, <2>4, <2>5, <2>6, <2>7 DEF UseCaseReturns, outputVars
<1>4. ASSUME NEW x \in Exec, NEW c \in Contexts,
             \/ UseCaseThrows(c, x) \/ HandlerThrows(c, x) \/ CommitThrows(c, x)
             \/ PublishDone(c, x)
      PROVE  TypeOK'
  <2>1. pc' \in [Exec -> Phases]
    BY <1>0, <1>4 DEF UseCaseThrows, HandlerThrows, CommitThrows, PublishDone, Goto
  <2> QED
    BY <1>4, <2>1 DEF UseCaseThrows, HandlerThrows, CommitThrows, PublishDone,
                      sourceVars, outputVars
<1>5. ASSUME NEW x \in Exec, NEW c \in Contexts, NEW e \in Events,
             DispatchEvent(c, x, e) \/ PublishEvent(c, x, e)
      PROVE  TypeOK'
  BY <1>5 DEF DispatchEvent, PublishEvent, sourceVars, outputVars
<1>6. ASSUME NEW x \in Exec, NEW c \in Contexts, DispatchDone(c, x)
      PROVE  TypeOK'
  BY <1>0, <1>6 DEF DispatchDone, Goto, sourceVars, outputVars
<1>7. ASSUME NEW x \in Exec, NEW c \in Contexts, SaveAll(c, x) \/ SaveAllThrows(c, x)
      PROVE  TypeOK'
  <2>1. pc' \in [Exec -> Phases]
    BY <1>0, <1>7 DEF SaveAll, SaveAllThrows, Goto
  <2>2. stored' \in SUBSET Events
    BY <1>7 DEF SaveAll, SaveAllThrows
  <2> QED
    BY <1>7, <2>1, <2>2 DEF SaveAll, SaveAllThrows, sourceVars
<1>8. ASSUME NEW x \in Exec, NEW c \in Contexts, Commit(c, x)
      PROVE  TypeOK'
  <2>1. pc' \in [Exec -> Phases]
    BY <1>0, <1>8 DEF Commit, Goto
  <2>2. DrainScope(scopes[c]) \in Seq(SUBSET Sources)
    BY PopProperties DEF DrainScope
  <2>3. scopes' \in [Contexts -> Seq(SUBSET Sources)]
    BY <1>8, <2>2 DEF Commit
  <2>4. persisted' \in [Exec -> SUBSET Aggregates]
    BY <1>8 DEF Commit
  <2> QED
    BY <1>8, <2>1, <2>3, <2>4 DEF Commit, sourceVars
<1>9. ASSUME NEW x \in Exec, NEW c \in Contexts, CommitReturns(c, x)
      PROVE  TypeOK'
  <2>1. pc' \in [Exec -> Phases]
    BY <1>0, <1>9 DEF CommitReturns, Goto
  <2>2. Pop(calls[c]) \in Seq(Exec)
    BY PopProperties
  <2> QED
    BY <1>9, <2>1, <2>2 DEF CommitReturns, sourceVars, outputVars
<1>10. ASSUME NEW x \in Exec, NEW c \in Contexts, Rollback(c, x)
       PROVE  TypeOK'
  <2>1. pc' \in [Exec -> Phases]
    BY <1>10, RethrowType DEF Rollback
  <2>2. Pop(calls[c]) \in Seq(Exec)
    BY PopProperties
  <2>3. ClearScope(scopes[c]) \in Seq(SUBSET Sources)
    BY PopProperties DEF ClearScope
  <2>4. scopes' \in [Contexts -> Seq(SUBSET Sources)]
    BY <1>10, <2>3 DEF Rollback
  <2> QED
    BY <1>10, <2>1, <2>2, <2>4 DEF Rollback, sourceVars, outputVars
<1>11. CASE UNCHANGED vars
  BY <1>11 DEF vars, sourceVars, outputVars
<1> QED
  BY <1>1, <1>2, <1>3, <1>4, <1>5, <1>6, <1>7, <1>8, <1>9, <1>10, <1>11
     DEF Next, Advance, Finished

(* The variables of ApplicationService keep their types in every behaviour.*)
THEOREM TypeCorrect == Spec => []TypeOK
<1>1. Init => TypeOK
  BY EmptySeq DEF Init, TypeOK, Phases
<1>2. TypeOK /\ [Next]_vars => TypeOK'
  BY TypeStep
<1> QED
  BY <1>1, <1>2, PTL DEF Spec

-----------------------------------------------------------------------------
(* Scopes and calls stay balanced.                                         *)

(* The calls are a forest of waiting executions, whatever the scopes do:   *)
(* this holds also when handlers swallow errors.                           *)
CallsInv == TypeOK /\ CallsNest /\ CallsDistinct

(* An execution that runs in one context is innermost in no other, and is  *)
(* on a stack at its innermost place only.                                 *)
LEMMA RunningOnce ==
  ASSUME CallsInv, NEW c \in Contexts, NEW x, Running(c, x)
  PROVE  /\ \A d \in Contexts : d # c => \A i \in 1 .. Len(calls[d]) : calls[d][i] # x
         /\ \A i \in 1 .. Len(calls[c]) : calls[c][i] = x => i = Len(calls[c])
BY RunningProperties DEF CallsInv, CallsDistinct

(* A step of the innermost execution to another phase leaves the nesting   *)
(* of the calls as it is.                                                  *)
LEMMA LocalCalls ==
  ASSUME CallsInv,
         NEW c \in Contexts, NEW x \in Exec, Running(c, x),
         NEW phase \in Phases \ ({"idle"} \cup Ended),
         pc' = [pc EXCEPT ![x] = phase],
         UNCHANGED calls
  PROVE  CallsNest' /\ CallsDistinct'
<1>1. TypeOK /\ CallsNest /\ CallsDistinct
  BY DEF CallsInv
<1>2. pc \in [Exec -> Phases] /\ calls \in [Contexts -> Seq(Exec)]
  BY <1>1 DEF TypeOK
<1>3. \A d \in Contexts : \A i \in 1 .. Len(calls[d]) : calls[d][i] \in Exec
  BY <1>2, ElementOfSeq
<1>4. pc'[x] = phase /\ \A y \in Exec : y # x => pc'[y] = pc[y]
  BY <1>2
<1>5. CallsNest'
  <2> SUFFICES ASSUME NEW d \in Contexts, NEW i \in 1 .. Len(calls[d])
               PROVE  /\ pc'[calls[d][i]] \notin {"idle"} \cup Ended
                      /\ i < Len(calls[d]) => pc'[calls[d][i]] \in Delivering
    BY DEF CallsNest
  <2>1. /\ pc[calls[d][i]] \notin {"idle"} \cup Ended
        /\ i < Len(calls[d]) => pc[calls[d][i]] \in Delivering
    BY <1>1 DEF CallsNest
  <2>2. CASE calls[d][i] = x
    <3>1. d = c /\ i = Len(calls[d])
      BY <2>2, RunningOnce
    <3>2. ~(i < Len(calls[d]))
      BY <1>2, <3>1
    <3> QED
      BY <1>4, <2>2, <3>2
  <2>3. CASE calls[d][i] # x
    BY <1>3, <1>4, <2>1, <2>3
  <2> QED
    BY <2>2, <2>3
<1>6. CallsDistinct'
  BY <1>1 DEF CallsDistinct
<1> QED
  BY <1>5, <1>6

(* What a context looks like after its innermost execution has left it.    *)
LEMMA CallsLeft ==
  ASSUME CallsInv, NEW c \in Contexts, NEW x \in Exec, Running(c, x),
         calls' = [calls EXCEPT ![c] = Pop(@)]
  PROVE  /\ Len(calls'[c]) = Len(calls[c]) - 1
         /\ \A d \in Contexts :
              /\ Len(calls'[d]) \in Nat
              /\ \A i \in 1 .. Len(calls'[d]) :
                   /\ i \in 1 .. Len(calls[d])
                   /\ d = c => i < Len(calls[c])
                   /\ calls'[d][i] = calls[d][i]
                   /\ calls'[d][i] \in Exec /\ calls'[d][i] # x
<1>1. calls \in [Contexts -> Seq(Exec)]
  BY DEF CallsInv, TypeOK
<1>2. calls'[c] = Pop(calls[c]) /\ \A d \in Contexts : d # c => calls'[d] = calls[d]
  BY <1>1
<1>3. calls[c] # <<>> /\ Len(calls[c]) \in Nat
  BY <1>1, LenProperties DEF Running
<1>4. /\ Len(calls'[c]) = Len(calls[c]) - 1
      /\ Len(calls'[c]) \in Nat
      /\ \A i \in 1 .. Len(calls'[c]) : calls'[c][i] = calls[c][i]
  BY <1>1, <1>2, <1>3, PopProperties, LenProperties
<1>5. ASSUME NEW d \in Contexts, NEW i \in 1 .. Len(calls'[d])
      PROVE  /\ i \in 1 .. Len(calls[d])
             /\ d = c => i < Len(calls[c])
             /\ calls'[d][i] = calls[d][i]
  BY <1>2, <1>3, <1>4
<1>6. \A d \in Contexts : Len(calls'[d]) \in Nat
  BY <1>1, <1>2, <1>4, LenProperties
<1>7. ASSUME NEW d \in Contexts, NEW i \in 1 .. Len(calls'[d])
      PROVE  calls'[d][i] \in Exec /\ calls'[d][i] # x
  <2>1. calls[d][i] \in Exec
    BY <1>1, <1>5, ElementOfSeq
  <2>2. calls[d][i] # x
    BY <1>3, <1>5, RunningOnce
  <2> QED
    BY <1>5, <2>1, <2>2
<1> QED
  BY <1>4, <1>5, <1>6, <1>7

(* The nesting of the calls after the innermost execution has left: its    *)
(* caller, if it has one, either goes on or fails with it.                 *)
LEMMA LeaveCalls ==
  ASSUME CallsInv, TypeOK',
         NEW c \in Contexts, NEW x \in Exec, Running(c, x),
         calls' = [calls EXCEPT ![c] = Pop(@)],
         pc'[x] \in Ended,
         \A y \in Exec : y # x =>
            \/ pc'[y] = pc[y]
            \/ calls'[c] # <<>> /\ y = Innermost(calls'[c]) /\ pc'[y] = "rollback"
  PROVE  /\ CallsNest' /\ CallsDistinct'
         /\ \A d \in Contexts : \A i \in 1 .. Len(calls'[d]) :
              ~(d = c /\ i = Len(calls'[c])) => pc'[calls'[d][i]] = pc[calls[d][i]]
<1>1. TypeOK /\ CallsNest /\ CallsDistinct
  BY DEF CallsInv
<1>2. calls' \in [Contexts -> Seq(Exec)] /\ calls \in [Contexts -> Seq(Exec)]
  BY <1>1 DEF TypeOK
<1>3. calls'[c] # <<>> => /\ Len(calls'[c]) \in 1 .. Len(calls'[c])
                          /\ Innermost(calls'[c]) = calls'[c][Len(calls'[c])]
  BY <1>2, InnermostProperties DEF Innermost
<1>4. \A d \in Contexts : d # c => calls'[d] = calls[d]
  BY <1>2
<1>left. /\ Len(calls'[c]) = Len(calls[c]) - 1
         /\ \A d \in Contexts :
              /\ Len(calls'[d]) \in Nat
              /\ \A i \in 1 .. Len(calls'[d]) :
                   /\ i \in 1 .. Len(calls[d])
                   /\ d = c => i < Len(calls[c])
                   /\ calls'[d][i] = calls[d][i]
                   /\ calls'[d][i] \in Exec /\ calls'[d][i] # x
  BY CallsLeft
<1>5. ASSUME NEW d \in Contexts, NEW i \in 1 .. Len(calls'[d])
      PROVE  \/ pc'[calls'[d][i]] = pc[calls[d][i]]
             \/ d = c /\ i = Len(calls'[c]) /\ pc'[calls'[d][i]] = "rollback"
  <2>1. calls'[d][i] \in Exec /\ calls'[d][i] # x /\ calls'[d][i] = calls[d][i]
        /\ i \in 1 .. Len(calls[d])
    BY <1>left
  <2>2. CASE pc'[calls'[d][i]] = pc[calls'[d][i]]
    BY <2>1, <2>2
  <2>3. CASE /\ calls'[c] # <<>> /\ calls'[d][i] = Innermost(calls'[c])
             /\ pc'[calls'[d][i]] = "rollback"
    <3> DEFINE j == Len(calls'[c])
    <3>1. j \in 1 .. Len(calls'[c]) /\ j \in 1 .. Len(calls[c]) /\ calls'[c][j] = calls[c][j]
      BY <1>3, <1>left, <2>3
    <3>2. calls[d][i] = calls[c][j]
      BY <1>3, <2>1, <2>3, <3>1
    <3> HIDE DEF j
    <3>3. d = c /\ i = j
      BY <1>1, <2>1, <3>1, <3>2 DEF CallsDistinct
    <3> QED
      BY <2>3, <3>3 DEF j
  <2> QED
    BY <2>1, <2>2, <2>3
<1>6. CallsNest'
  <2> SUFFICES ASSUME NEW d \in Contexts, NEW i \in 1 .. Len(calls'[d])
               PROVE  /\ pc'[calls'[d][i]] \notin {"idle"} \cup Ended
                      /\ i < Len(calls'[d]) => pc'[calls'[d][i]] \in Delivering
    BY DEF CallsNest
  <2>1. i \in 1 .. Len(calls[d])
        /\ (i < Len(calls'[d]) => i < Len(calls[d]))
    BY <1>4, <1>left
  <2>2. /\ pc[calls[d][i]] \notin {"idle"} \cup Ended
        /\ i < Len(calls'[d]) => pc[calls[d][i]] \in Delivering
    BY <1>1, <2>1 DEF CallsNest
  <2>3. "rollback" \notin {"idle"} \cup Ended
    BY DEF Ended
  <2>4. CASE pc'[calls'[d][i]] = pc[calls[d][i]]
    BY <2>2, <2>1, <2>4
  <2>5. CASE d = c /\ i = Len(calls'[c]) /\ pc'[calls'[d][i]] = "rollback"
    <3>1. ~(i < Len(calls'[d]))
      BY <1>left, <2>5
    <3> QED
      BY <2>3, <2>5, <3>1
  <2> QED
    BY <1>5, <2>4, <2>5
<1>7. CallsDistinct'
  <2> SUFFICES ASSUME NEW d \in Contexts, NEW e \in Contexts,
                      NEW i \in 1 .. Len(calls'[d]), NEW j \in 1 .. Len(calls'[e]),
                      calls'[d][i] = calls'[e][j]
               PROVE  d = e /\ i = j
    BY DEF CallsDistinct
  <2>1. i \in 1 .. Len(calls[d]) /\ j \in 1 .. Len(calls[e]) /\ calls[d][i] = calls[e][j]
    BY <1>left
  <2> QED
    BY <1>1, <2>1 DEF CallsDistinct
<1> QED
  BY <1>5, <1>6, <1>7

(* The innermost call of a context with a stack.                           *)
LEMMA InnermostCall ==
  ASSUME TypeOK, NEW d \in Contexts, calls[d] # <<>>
  PROVE  /\ Innermost(calls[d]) \in Exec /\ Running(d, Innermost(calls[d]))
         /\ Len(calls[d]) \in 1 .. Len(calls[d])
         /\ calls[d][Len(calls[d])] = Innermost(calls[d])
BY InnermostProperties DEF TypeOK, Running, Innermost

(* When the innermost execution leaves, its caller is in a delivery loop.  *)
LEMMA CallerDelivers ==
  ASSUME CallsInv, NEW c \in Contexts, NEW x \in Exec, Running(c, x),
         calls' = [calls EXCEPT ![c] = Pop(@)], calls'[c] # <<>>
  PROVE  /\ Innermost(calls'[c]) \in Exec /\ Innermost(calls'[c]) # x
         /\ pc[Innermost(calls'[c])] \in Delivering
<1> DEFINE j == Len(calls'[c])
<1>1. /\ Len(calls'[c]) = Len(calls[c]) - 1
      /\ \A d \in Contexts :
           /\ Len(calls'[d]) \in Nat
           /\ \A i \in 1 .. Len(calls'[d]) :
                /\ i \in 1 .. Len(calls[d])
                /\ d = c => i < Len(calls[c])
                /\ calls'[d][i] = calls[d][i]
                /\ calls'[d][i] \in Exec /\ calls'[d][i] # x
  BY CallsLeft
<1>2. calls'[c] \in Seq(Exec)
  BY PopProperties DEF CallsInv, TypeOK
<1>3. j \in 1 .. Len(calls'[c])
  BY <1>2, InnermostProperties
<1>4. /\ j \in 1 .. Len(calls[c]) /\ j < Len(calls[c]) /\ calls'[c][j] = calls[c][j]
      /\ calls'[c][j] \in Exec /\ calls'[c][j] # x
  BY <1>1, <1>3
<1> HIDE DEF j
<1>5. pc[calls[c][j]] \in Delivering
  BY <1>4 DEF CallsInv, CallsNest
<1> QED
  BY <1>4, <1>5 DEF Innermost, j

(* Begin nests a call in the handler that makes it.                        *)
LEMMA BeginCalls ==
  ASSUME CallsInv, NEW c \in Contexts, NEW x \in Exec, Begin(c, x)
  PROVE  CallsNest' /\ CallsDistinct'
<1>1. TypeOK /\ CallsNest /\ CallsDistinct
  BY DEF CallsInv
<1>2. pc \in [Exec -> Phases] /\ calls \in [Contexts -> Seq(Exec)]
  BY <1>1 DEF TypeOK
<1>3. /\ pc[x] = "idle" /\ pc' = [pc EXCEPT ![x] = "useCase"]
      /\ calls' = [calls EXCEPT ![c] = Append(@, x)]
      /\ calls[c] # <<>> => InHandler(Innermost(calls[c]))
  BY DEF Begin, Goto
<1>4. /\ \A d \in Contexts : d # c => calls'[d] = calls[d]
      /\ Len(calls'[c]) = Len(calls[c]) + 1 /\ Len(calls[c]) \in Nat
      /\ calls'[c][Len(calls[c]) + 1] = x
      /\ \A i \in 1 .. Len(calls[c]) : calls'[c][i] = calls[c][i]
  <2>1. calls[c] \in Seq(Exec) /\ Len(calls[c]) \in Nat
    BY <1>2, LenProperties
  <2>2. calls'[c] = Append(calls[c], x)
    BY <1>2, <1>3
  <2>3. \A d \in Contexts : d # c => calls'[d] = calls[d]
    BY <1>2, <1>3
  <2> QED
    BY <2>1, <2>2, <2>3, AppendProperties
<1>5. \A d \in Contexts : \A i \in 1 .. Len(calls[d]) : calls[d][i] \in Exec /\ calls[d][i] # x
  <2> SUFFICES ASSUME NEW d \in Contexts, NEW i \in 1 .. Len(calls[d])
               PROVE  calls[d][i] \in Exec /\ calls[d][i] # x
    OBVIOUS
  <2>1. calls[d][i] \in Exec
    BY <1>2, ElementOfSeq
  <2>2. pc[calls[d][i]] # "idle"
    BY <1>1 DEF CallsNest
  <2> QED
    BY <1>3, <2>1, <2>2
<1>6. \A y \in Exec : y # x => pc'[y] = pc[y]
  BY <1>2, <1>3
<1>7. pc'[x] = "useCase"
  BY <1>2, <1>3
<1>8. CallsNest'
  <2> SUFFICES ASSUME NEW d \in Contexts, NEW i \in 1 .. Len(calls'[d])
               PROVE  /\ pc'[calls'[d][i]] \notin {"idle"} \cup Ended
                      /\ i < Len(calls'[d]) => pc'[calls'[d][i]] \in Delivering
    BY DEF CallsNest
  <2>1. CASE d # c
    BY <1>1, <1>4, <1>5, <1>6, <2>1 DEF CallsNest
  <2>2. CASE d = c /\ i = Len(calls[c]) + 1
    BY <1>4, <1>7, <2>2 DEF Ended
  <2>3. CASE d = c /\ i \in 1 .. Len(calls[c])
    <3>1. calls'[c][i] = calls[c][i] /\ pc'[calls'[c][i]] = pc[calls[c][i]]
      BY <1>4, <1>5, <1>6, <2>3
    <3>2. pc[calls[c][i]] \notin {"idle"} \cup Ended
          /\ (i < Len(calls[c]) => pc[calls[c][i]] \in Delivering)
      BY <1>1, <2>3 DEF CallsNest
    <3>3. i = Len(calls[c]) => pc[calls[c][i]] \in Delivering
      BY <1>3, <2>3, EmptySeq DEF InHandler, Innermost
    <3> QED
      BY <1>4, <2>3, <3>1, <3>2, <3>3
  <2> QED
    BY <1>4, <2>1, <2>2, <2>3
<1>9. CallsDistinct'
  <2> SUFFICES ASSUME NEW d \in Contexts, NEW e \in Contexts,
                      NEW i \in 1 .. Len(calls'[d]), NEW j \in 1 .. Len(calls'[e]),
                      calls'[d][i] = calls'[e][j]
               PROVE  d = e /\ i = j
    BY DEF CallsDistinct
  <2>1. \/ calls'[d][i] = x /\ d = c /\ i = Len(calls[c]) + 1
        \/ calls'[d][i] = calls[d][i] /\ i \in 1 .. Len(calls[d])
    BY <1>4
  <2>2. \/ calls'[e][j] = x /\ e = c /\ j = Len(calls[c]) + 1
        \/ calls'[e][j] = calls[e][j] /\ j \in 1 .. Len(calls[e])
    BY <1>4
  <2> QED
    BY <1>1, <1>5, <2>1, <2>2 DEF CallsDistinct
<1> QED
  BY <1>8, <1>9

(* A step of the innermost execution that leaves the calls alone, moves it *)
(* to another phase and leaves as many scopes open as that phase demands.  *)
LEMMA LocalStep ==
  ASSUME NestingInv, TypeOK',
         NEW c \in Contexts, NEW x \in Exec, Running(c, x),
         NEW phase \in Phases \ ({"idle"} \cup Ended),
         pc' = [pc EXCEPT ![x] = phase],
         UNCHANGED calls,
         \A d \in Contexts : d # c => scopes'[d] = scopes[d],
         Len(scopes'[c]) \in OpenScopes(phase, Len(calls[c]))
  PROVE  NestingInv'
<1>1. TypeOK /\ CallsNest /\ CallsDistinct /\ ScopesMatchCalls
  BY DEF NestingInv
<1>2. pc \in [Exec -> Phases] /\ calls \in [Contexts -> Seq(Exec)]
  BY <1>1 DEF TypeOK
<1>3. \A d \in Contexts : \A i \in 1 .. Len(calls[d]) : calls[d][i] \in Exec
  BY <1>2, ElementOfSeq
<1>4. pc'[x] = phase /\ \A y \in Exec : y # x => pc'[y] = pc[y]
  BY <1>2
<1>5. CallsNest' /\ CallsDistinct'
  BY <1>1, LocalCalls DEF CallsInv
<1>7. ScopesMatchCalls'
  <2> SUFFICES ASSUME NEW d \in Contexts
               PROVE  IF calls[d] = <<>> THEN scopes'[d] = <<>>
                      ELSE Len(scopes'[d]) \in OpenScopes(pc'[Innermost(calls[d])], Len(calls[d]))
    BY DEF ScopesMatchCalls, Innermost
  <2>1. CASE d = c
    BY <1>4, <2>1 DEF Running
  <2>2. CASE d # c /\ calls[d] = <<>>
    BY <1>1, <2>2 DEF ScopesMatchCalls
  <2>3. CASE d # c /\ calls[d] # <<>>
    <3>1. Innermost(calls[d]) \in Exec /\ Innermost(calls[d]) # x
      BY <1>2, <2>3, InnermostProperties, RunningOnce DEF CallsInv, NestingInv, Innermost
    <3>2. Len(scopes[d]) \in OpenScopes(pc[Innermost(calls[d])], Len(calls[d]))
      BY <1>1, <2>3 DEF ScopesMatchCalls
    <3>3. scopes'[d] = scopes[d] /\ pc'[Innermost(calls[d])] = pc[Innermost(calls[d])]
      BY <1>4, <2>3, <3>1
    <3> QED
      BY <2>3, <3>2, <3>3
  <2> QED
    BY <2>1, <2>2, <2>3
<1> QED
  BY <1>5, <1>7 DEF NestingInv

(* What an execution that runs knows of its context.                       *)
LEMMA RunningScopes ==
  ASSUME NestingInv, NEW c \in Contexts, NEW x, Running(c, x)
  PROVE  /\ x \in Exec
         /\ calls[c] \in Seq(Exec) /\ calls[c] # <<>>
         /\ Len(calls[c]) \in Nat /\ Len(calls[c]) >= 1
         /\ scopes[c] \in Seq(SUBSET Sources)
         /\ Len(scopes[c]) \in Nat
         /\ Len(scopes[c]) \in OpenScopes(pc[x], Len(calls[c]))
         /\ pc[x] \in Phases \ ({"idle"} \cup Ended)
<1>1. TypeOK /\ CallsNest /\ ScopesMatchCalls
  BY DEF NestingInv
<1>2. x \in Exec /\ calls[c] \in Seq(Exec) /\ Len(calls[c]) \in 1 .. Len(calls[c])
      /\ calls[c][Len(calls[c])] = x /\ calls[c] # <<>> /\ Innermost(calls[c]) = x
  BY <1>1, RunningProperties DEF Running
<1>3. scopes[c] \in Seq(SUBSET Sources) /\ pc[x] \in Phases
  BY <1>1, <1>2 DEF TypeOK
<1>4. Len(scopes[c]) \in OpenScopes(pc[x], Len(calls[c]))
  BY <1>1, <1>2 DEF ScopesMatchCalls
<1>5. pc[x] \notin {"idle"} \cup Ended
  BY <1>1, <1>2 DEF CallsNest
<1> QED
  BY <1>2, <1>3, <1>4, <1>5, LenProperties

(* The nested call structure after the innermost execution has left: its   *)
(* caller, if it has one, either goes on or fails with it.                 *)
LEMMA LeaveStep ==
  ASSUME NestingInv, TypeOK',
         NEW c \in Contexts, NEW x \in Exec, Running(c, x),
         calls' = [calls EXCEPT ![c] = Pop(@)],
         NEW failing \in BOOLEAN,
         \A d \in Contexts : d # c => scopes'[d] = scopes[d],
         pc'[x] \in Ended,
         \A y \in Exec : y # x =>
            pc'[y] = IF failing /\ calls'[c] # <<>> /\ y = Innermost(calls'[c])
                     THEN "rollback" ELSE pc[y],
         IF calls'[c] = <<>> THEN scopes'[c] = <<>>
         ELSE Len(scopes'[c]) \in
                OpenScopes(IF failing THEN "rollback" ELSE "publish", Len(calls'[c]))
  PROVE  NestingInv'
<1>1. TypeOK /\ CallsNest /\ CallsDistinct /\ ScopesMatchCalls
  BY DEF NestingInv
<1>0. CallsInv
  BY <1>1 DEF CallsInv
<1>2. calls' \in [Contexts -> Seq(Exec)] /\ calls \in [Contexts -> Seq(Exec)]
  BY <1>1 DEF TypeOK
<1>3. calls'[c] # <<>> => /\ Len(calls'[c]) \in 1 .. Len(calls'[c])
                          /\ Innermost(calls'[c]) = calls'[c][Len(calls'[c])]
  BY <1>2, InnermostProperties DEF Innermost
<1>4. \A d \in Contexts : d # c => calls'[d] = calls[d]
  BY <1>2
<1>left. /\ Len(calls'[c]) = Len(calls[c]) - 1
         /\ \A d \in Contexts :
              /\ Len(calls'[d]) \in Nat
              /\ \A i \in 1 .. Len(calls'[d]) :
                   /\ i \in 1 .. Len(calls[d])
                   /\ d = c => i < Len(calls[c])
                   /\ calls'[d][i] = calls[d][i]
                   /\ calls'[d][i] \in Exec /\ calls'[d][i] # x
  BY <1>1, CallsLeft DEF CallsInv
<1>5. /\ CallsNest' /\ CallsDistinct'
      /\ \A d \in Contexts : \A i \in 1 .. Len(calls'[d]) :
           ~(d = c /\ i = Len(calls'[c])) => pc'[calls'[d][i]] = pc[calls[d][i]]
  BY <1>0, LeaveCalls
<1>8. ScopesMatchCalls'
  <2> SUFFICES ASSUME NEW d \in Contexts
               PROVE  IF calls'[d] = <<>> THEN scopes'[d] = <<>>
                      ELSE Len(scopes'[d]) \in
                             OpenScopes(pc'[Innermost(calls'[d])], Len(calls'[d]))
    BY DEF ScopesMatchCalls, Innermost
  <2>1. CASE d # c
    <3>1. CASE calls[d] = <<>>
      BY <1>1, <1>4, <2>1, <3>1 DEF ScopesMatchCalls
    <3>2. CASE calls[d] # <<>>
      <4>1. Len(calls'[d]) \in 1 .. Len(calls'[d]) /\ Innermost(calls'[d]) = calls'[d][Len(calls'[d])]
        BY <1>2, <1>4, <2>1, <3>2, InnermostProperties DEF Innermost
      <4>2. pc'[Innermost(calls'[d])] = pc[Innermost(calls[d])]
        BY <1>4, <1>5, <2>1, <4>1 DEF Innermost
      <4> QED
        BY <1>1, <1>4, <2>1, <3>2, <4>2 DEF ScopesMatchCalls
    <3> QED
      BY <3>1, <3>2
  <2>2. CASE d = c /\ calls'[c] # <<>>
    <3> DEFINE j == Len(calls'[c])
    <3>1. j \in 1 .. Len(calls'[c]) /\ j \in 1 .. Len(calls[c]) /\ j < Len(calls[c])
      BY <1>3, <2>2, <1>left
    <3>2. pc[calls[c][j]] \in Delivering
      BY <1>1, <3>1 DEF CallsNest
    <3>3. pc'[Innermost(calls'[c])] = IF failing THEN "rollback" ELSE pc[calls[c][j]]
      BY <1>3, <1>left, <2>2, <3>1
    <3>4. OpenScopes(pc[calls[c][j]], j) = OpenScopes("publish", j)
      BY <3>2 DEF OpenScopes, Delivering
    <3> QED
      BY <2>2, <3>3, <3>4
  <2>3. CASE d = c /\ calls'[c] = <<>>
    BY <2>3
  <2> QED
    BY <2>1, <2>2, <2>3
<1> QED
  BY <1>5, <1>8 DEF NestingInv

(* Begin pushes a call and a scope.                                        *)
LEMMA BeginNests ==
  ASSUME NestingInv, TypeOK', NEW c \in Contexts, NEW x \in Exec, Begin(c, x)
  PROVE  NestingInv'
<1>1. TypeOK /\ CallsNest /\ CallsDistinct /\ ScopesMatchCalls
  BY DEF NestingInv
<1>2. /\ pc \in [Exec -> Phases] /\ calls \in [Contexts -> Seq(Exec)]
      /\ scopes \in [Contexts -> Seq(SUBSET Sources)]
  BY <1>1 DEF TypeOK
<1>3. /\ pc[x] = "idle" /\ pc' = [pc EXCEPT ![x] = "useCase"]
      /\ calls' = [calls EXCEPT ![c] = Append(@, x)]
      /\ scopes' = [scopes EXCEPT ![c] = BeginScope(@)]
      /\ calls[c] # <<>> => InHandler(Innermost(calls[c]))
  BY DEF Begin, Goto
<1>4. /\ \A d \in Contexts : d # c => calls'[d] = calls[d] /\ scopes'[d] = scopes[d]
      /\ Len(calls'[c]) = Len(calls[c]) + 1 /\ Len(calls[c]) \in Nat
      /\ calls'[c][Len(calls[c]) + 1] = x
      /\ \A i \in 1 .. Len(calls[c]) : calls'[c][i] = calls[c][i]
      /\ Len(scopes'[c]) = Len(scopes[c]) + 1 /\ Len(scopes[c]) \in Nat
  <2>1. calls[c] \in Seq(Exec) /\ scopes[c] \in Seq(SUBSET Sources)
    BY <1>2
  <2>2. calls'[c] = Append(calls[c], x) /\ scopes'[c] = BeginScope(scopes[c])
    BY <1>2, <1>3
  <2>3. Len(calls[c]) \in Nat /\ Len(scopes[c]) \in Nat
    BY <2>1, LenProperties
  <2>4. /\ Len(calls'[c]) = Len(calls[c]) + 1
        /\ calls'[c][Len(calls[c]) + 1] = x
        /\ \A i \in 1 .. Len(calls[c]) : calls'[c][i] = calls[c][i]
    BY <2>1, <2>2, AppendProperties
  <2>5. Len(scopes'[c]) = Len(scopes[c]) + 1
    BY <2>1, <2>2, BeginScopeProperties
  <2>6. \A d \in Contexts : d # c => calls'[d] = calls[d] /\ scopes'[d] = scopes[d]
    BY <1>2, <1>3
  <2> QED
    BY <2>3, <2>4, <2>5, <2>6
<1>5. \A d \in Contexts : \A i \in 1 .. Len(calls[d]) : calls[d][i] \in Exec /\ calls[d][i] # x
  <2> SUFFICES ASSUME NEW d \in Contexts, NEW i \in 1 .. Len(calls[d])
               PROVE  calls[d][i] \in Exec /\ calls[d][i] # x
    OBVIOUS
  <2>1. calls[d][i] \in Exec
    BY <1>2, ElementOfSeq
  <2>2. pc[calls[d][i]] # "idle"
    BY <1>1 DEF CallsNest
  <2> QED
    BY <1>3, <2>1, <2>2
<1>6. \A y \in Exec : y # x => pc'[y] = pc[y]
  BY <1>2, <1>3
<1>7. pc'[x] = "useCase"
  BY <1>2, <1>3
<1>8. CallsNest' /\ CallsDistinct'
  BY <1>1, BeginCalls DEF CallsInv
<1>10. ScopesMatchCalls'
  <2> SUFFICES ASSUME NEW d \in Contexts
               PROVE  IF calls'[d] = <<>> THEN scopes'[d] = <<>>
                      ELSE Len(scopes'[d]) \in
                             OpenScopes(pc'[Innermost(calls'[d])], Len(calls'[d]))
    BY DEF ScopesMatchCalls, Innermost
  <2>1. CASE d # c /\ calls[d] = <<>>
    BY <1>1, <1>4, <2>1 DEF ScopesMatchCalls
  <2>2. CASE d # c /\ calls[d] # <<>>
    <3>1. Innermost(calls[d]) \in Exec /\ Innermost(calls[d]) # x
      BY <1>2, <1>5, <2>2, InnermostProperties DEF Innermost
    <3> QED
      BY <1>1, <1>4, <1>6, <2>2, <3>1 DEF ScopesMatchCalls
  <2>3. CASE d = c
    <3>1. Len(scopes[c]) = Len(calls[c])
      <4>1. CASE calls[c] = <<>>
        BY <1>1, <4>1 DEF ScopesMatchCalls
      <4>2. CASE calls[c] # <<>>
        <5>1. pc[Innermost(calls[c])] \in Delivering
          BY <1>3, <4>2 DEF InHandler
        <5>2. Len(scopes[c]) \in OpenScopes(pc[Innermost(calls[c])], Len(calls[c]))
          BY <1>1, <4>2 DEF ScopesMatchCalls
        <5> QED
          BY <5>1, <5>2 DEF OpenScopes, Delivering
      <4> QED
        BY <4>1, <4>2
    <3>2. Innermost(calls'[c]) = x
      BY <1>4 DEF Innermost
    <3>3. calls'[c] # <<>>
      BY <1>4, EmptySeq
    <3>4. OpenScopes("useCase", Len(calls'[c])) = {Len(calls'[c])}
      BY DEF OpenScopes
    <3> QED
      BY <1>4, <1>7, <2>3, <3>1, <3>2, <3>3, <3>4
  <2> QED
    BY <2>1, <2>2, <2>3
<1> QED
  BY <1>8, <1>10 DEF NestingInv

(* Every step keeps the balance, when errors leave every handler.          *)
LEMMA NestingStep ==
  ASSUME ~CatchingSubscribers, NestingInv, [Next]_vars
  PROVE  NestingInv'
<1>0. TypeOK /\ TypeOK'
  BY TypeStep DEF NestingInv
<1>1. /\ pc \in [Exec -> Phases] /\ scopes \in [Contexts -> Seq(SUBSET Sources)]
  BY <1>0 DEF TypeOK
<1> DEFINE Between == {"useCase", "dispatch", "publish", "store", "commit", "rollback"}
<1>2. Between \cup {"flush"} = Phases \ ({"idle"} \cup Ended)
  BY DEF Phases, Delivering, Ended
<1>3. ASSUME NEW x \in Exec, NEW c \in Contexts, Begin(c, x)
      PROVE  NestingInv'
  BY <1>0, <1>3, BeginNests
<1>4. ASSUME NEW x \in Exec, NEW c \in Contexts, NEW s \in Sources, NEW e \in Events,
             Emit(c, x, s, e)
      PROVE  NestingInv'
  <2>1. Running(c, x) /\ UNCHANGED calls /\ pc' = [pc EXCEPT ![x] = pc[x]]
    BY <1>1, <1>4 DEF Emit
  <2>2. pc[x] \in Phases \ ({"idle"} \cup Ended)
    BY <2>1, RunningScopes
  <2>3. Len(scopes'[c]) = Len(scopes[c]) /\ \A d \in Contexts : d # c => scopes'[d] = scopes[d]
    <3>1. CASE tracked[s]
      BY <1>4, <3>1 DEF Emit
    <3>2. CASE ~tracked[s]
      <4>1. scopes' = [scopes EXCEPT ![c] = TrackIn(@, s)]
        BY <1>4, <3>2 DEF Emit
      <4>2. scopes[c] \in Seq(SUBSET Sources)
        BY <1>1
      <4>3. Len(TrackIn(scopes[c], s)) = Len(scopes[c])
        BY <4>2, TrackInProperties
      <4> QED
        BY <1>1, <4>1, <4>3
    <3> QED
      BY <3>1, <3>2
  <2>4. Len(scopes'[c]) \in OpenScopes(pc[x], Len(calls[c]))
    BY <2>1, <2>3, RunningScopes
  <2> QED
    BY <1>0, <2>1, <2>2, <2>3, <2>4, LocalStep
<1>5. ASSUME NEW x \in Exec, NEW c \in Contexts, NEW e \in Events,
             DispatchEvent(c, x, e) \/ PublishEvent(c, x, e)
      PROVE  NestingInv'
  <2>1. Running(c, x) /\ UNCHANGED <<calls, scopes>> /\ pc' = [pc EXCEPT ![x] = pc[x]]
    BY <1>1, <1>5 DEF DispatchEvent, PublishEvent, At
  <2>2. pc[x] \in Phases \ ({"idle"} \cup Ended)
        /\ Len(scopes'[c]) \in OpenScopes(pc[x], Len(calls[c]))
    BY <2>1, RunningScopes
  <2> QED
    BY <1>0, <2>1, <2>2, LocalStep
<1>6. ASSUME NEW x \in Exec, NEW c \in Contexts,
             \/ UseCaseReturns(c, x) \/ DispatchDone(c, x) \/ PublishDone(c, x)
             \/ SaveAll(c, x) \/ UseCaseThrows(c, x) \/ HandlerThrows(c, x)
             \/ SaveAllThrows(c, x) \/ CommitThrows(c, x)
      PROVE  NestingInv'
  <2>1. Running(c, x) /\ UNCHANGED <<calls, scopes>>
    BY <1>6 DEF UseCaseReturns, DispatchDone, PublishDone, SaveAll, UseCaseThrows,
                HandlerThrows, SaveAllThrows, CommitThrows, At
  <2>2. Len(scopes[c]) \in OpenScopes(pc[x], Len(calls[c])) /\ Len(calls[c]) \in Nat
    BY <2>1, RunningScopes
  <2>3. CASE UseCaseReturns(c, x) \/ DispatchDone(c, x) \/ PublishDone(c, x) \/ SaveAll(c, x)
    <3>1. PICK phase \in {"dispatch", "publish", "store", "commit"} :
            pc' = [pc EXCEPT ![x] = phase]
      BY <2>3 DEF UseCaseReturns, DispatchDone, PublishDone, SaveAll, Goto
    <3>2. pc[x] \in {"useCase", "dispatch", "publish", "store"}
      BY <2>3 DEF UseCaseReturns, DispatchDone, PublishDone, SaveAll, At
    <3>3. Len(scopes'[c]) \in OpenScopes(phase, Len(calls[c]))
      BY <2>1, <2>2, <3>2 DEF OpenScopes
    <3>4. phase \in Phases \ ({"idle"} \cup Ended)
      BY <1>2
    <3> QED
      BY <1>0, <2>1, <3>1, <3>3, <3>4, LocalStep
  <2>4. CASE UseCaseThrows(c, x) \/ HandlerThrows(c, x) \/ SaveAllThrows(c, x) \/ CommitThrows(c, x)
    <3>1. pc' = [pc EXCEPT ![x] = "rollback"]
      BY <2>4 DEF UseCaseThrows, HandlerThrows, SaveAllThrows, CommitThrows, Goto
    <3>2. Len(scopes'[c]) \in OpenScopes("rollback", Len(calls[c]))
      BY <2>1, <2>2 DEF OpenScopes
    <3>3. "rollback" \in Phases \ ({"idle"} \cup Ended)
      BY <1>2
    <3> QED
      BY <1>0, <2>1, <3>1, <3>2, <3>3, LocalStep
  <2> QED
    BY <1>6, <2>3, <2>4
<1>7. ASSUME NEW x \in Exec, NEW c \in Contexts, Commit(c, x)
      PROVE  NestingInv'
  <2>1. Running(c, x) /\ pc[x] = "commit" /\ UNCHANGED calls
        /\ pc' = [pc EXCEPT ![x] = "flush"]
    BY <1>7 DEF Commit, At, Goto
  <2>2. /\ Len(scopes[c]) = Len(calls[c]) /\ Len(calls[c]) >= 1 /\ Len(calls[c]) \in Nat
        /\ scopes[c] \in Seq(SUBSET Sources)
    BY <2>1, RunningScopes DEF OpenScopes
  <2>3. scopes[c] # <<>>
    BY <2>2, EmptySeq
  <2>4. scopes'[c] = Pop(scopes[c]) /\ \A d \in Contexts : d # c => scopes'[d] = scopes[d]
    BY <1>1, <1>7 DEF Commit, DrainScope
  <2>5. Len(scopes'[c]) = Len(calls[c]) - 1
    BY <2>2, <2>3, <2>4, PopProperties
  <2>6. Len(scopes'[c]) \in OpenScopes("flush", Len(calls[c]))
    BY <2>5 DEF OpenScopes
  <2>7. "flush" \in Phases \ ({"idle"} \cup Ended)
    BY <1>2
  <2> QED
    BY <1>0, <2>1, <2>4, <2>6, <2>7, LocalStep
<1>8. ASSUME NEW x \in Exec, NEW c \in Contexts, CommitReturns(c, x)
      PROVE  NestingInv'
  <2>1. Running(c, x) /\ pc[x] = "flush" /\ UNCHANGED scopes
        /\ pc' = [pc EXCEPT ![x] = "returned"] /\ calls' = [calls EXCEPT ![c] = Pop(@)]
    BY <1>8 DEF CommitReturns, At, Goto
  <2>2. /\ Len(scopes[c]) = Len(calls[c]) - 1 /\ Len(calls[c]) \in Nat
        /\ scopes[c] \in Seq(SUBSET Sources)
    BY <2>1, RunningScopes DEF OpenScopes
  <2>3. Len(calls'[c]) = Len(calls[c]) - 1
    BY <2>1, CallsLeft DEF CallsInv, NestingInv
  <2>4. IF calls'[c] = <<>> THEN scopes'[c] = <<>>
        ELSE Len(scopes'[c]) \in OpenScopes(IF FALSE THEN "rollback" ELSE "publish", Len(calls'[c]))
    <3>1. calls'[c] = <<>> => scopes'[c] = <<>>
      BY <2>1, <2>2, <2>3, EmptySeq
    <3>2. Len(scopes'[c]) \in OpenScopes("publish", Len(calls'[c]))
      BY <2>1, <2>2, <2>3 DEF OpenScopes
    <3> QED
      BY <3>1, <3>2
  <2>5. pc'[x] \in Ended /\ \A y \in Exec : y # x => pc'[y] = pc[y]
    BY <1>1, <2>1 DEF Ended
  <2> QED
    BY <1>0, <2>1, <2>4, <2>5, LeaveStep
<1>9. ASSUME NEW x \in Exec, NEW c \in Contexts, Rollback(c, x)
      PROVE  NestingInv'
  <2>1. Running(c, x) /\ pc[x] = "rollback" /\ calls' = [calls EXCEPT ![c] = Pop(@)]
        /\ scopes' = [scopes EXCEPT ![c] = Pop(@)] /\ Rethrow(c, x)
    BY <1>9 DEF Rollback, At, ClearScope
  <2>2. /\ Len(scopes[c]) \in {Len(calls[c]) - 1, Len(calls[c])} /\ Len(calls[c]) \in Nat
        /\ Len(calls[c]) >= 1 /\ scopes[c] \in Seq(SUBSET Sources)
        /\ calls[c] \in Seq(Exec) /\ calls[c] # <<>>
    BY <2>1, RunningScopes DEF OpenScopes
  <2>3. Len(calls'[c]) = Len(calls[c]) - 1 /\ calls'[c] = Pop(calls[c])
    BY <2>1, CallsLeft, <1>0 DEF CallsInv, NestingInv, TypeOK
  <2>4. scopes'[c] = Pop(scopes[c]) /\ \A d \in Contexts : d # c => scopes'[d] = scopes[d]
    BY <1>1, <2>1
  <2>5. /\ Pop(scopes[c]) \in Seq(SUBSET Sources)
        /\ scopes[c] = <<>> => Pop(scopes[c]) = <<>>
        /\ scopes[c] # <<>> => Len(Pop(scopes[c])) = Len(scopes[c]) - 1
    BY <2>2, PopProperties
  <2>6. IF calls'[c] = <<>> THEN scopes'[c] = <<>>
        ELSE Len(scopes'[c]) \in OpenScopes(IF TRUE THEN "rollback" ELSE "publish", Len(calls'[c]))
    <3>1. Len(Pop(scopes[c])) = 0 => Pop(scopes[c]) = <<>>
      BY <2>5, EmptySeq
    <3>2. scopes[c] = <<>> <=> Len(scopes[c]) = 0
      BY <2>2, EmptySeq
    <3>3. calls'[c] = <<>> => scopes'[c] = <<>>
      BY <2>2, <2>3, <2>4, <2>5, <3>1, <3>2, EmptySeq
    <3>4. calls'[c] # <<>> => Len(calls'[c]) >= 1
      <4>1. calls'[c] \in Seq(Exec)
        BY <1>0 DEF TypeOK
      <4> QED
        BY <4>1, EmptySeq
    <3>5. calls'[c] # <<>> => Len(scopes'[c]) \in {Len(calls'[c]) - 1, Len(calls'[c])}
      BY <2>2, <2>3, <2>4, <2>5, <3>2, <3>4
    <3> QED
      BY <3>3, <3>5 DEF OpenScopes
  <2>7. /\ pc'[x] \in Ended
        /\ \A y \in Exec : y # x =>
              pc'[y] = IF TRUE /\ calls'[c] # <<>> /\ y = Innermost(calls'[c])
                       THEN "rollback" ELSE pc[y]
    <3>1. calls'[c] # <<>> => Innermost(calls'[c]) \in Exec /\ Innermost(calls'[c]) # x
      <4> SUFFICES ASSUME calls'[c] # <<>>
                   PROVE  Innermost(calls'[c]) \in Exec /\ Innermost(calls'[c]) # x
        OBVIOUS
      <4>1. Len(calls'[c]) \in 1 .. Len(calls'[c])
        BY <1>0, InnermostProperties DEF TypeOK
      <4>2. \A i \in 1 .. Len(calls'[c]) : calls'[c][i] \in Exec /\ calls'[c][i] # x
        <5>1. \A d \in Contexts :
                /\ Len(calls'[d]) \in Nat
                /\ \A i \in 1 .. Len(calls'[d]) :
                     /\ i \in 1 .. Len(calls[d])
                     /\ d = c => i < Len(calls[c])
                     /\ calls'[d][i] = calls[d][i]
                     /\ calls'[d][i] \in Exec /\ calls'[d][i] # x
          BY <2>1, CallsLeft DEF CallsInv, NestingInv
        <5> QED
          BY <5>1
      <4>3. Innermost(calls'[c]) = calls'[c][Len(calls'[c])]
        BY DEF Innermost
      <4> QED
        BY <4>1, <4>2, <4>3
    <3>2. CASE calls'[c] = <<>>
      BY <1>1, <2>1, <2>3, <3>2 DEF Rethrow, Goto, Ended
    <3>3. CASE calls'[c] # <<>>
      <4>1. pc' = [pc EXCEPT ![x] = "threw", ![Innermost(calls'[c])] = "rollback"]
        BY <2>1, <2>3, <3>3 DEF Rethrow
      <4> QED
        BY <1>1, <3>1, <3>3, <4>1 DEF Ended
    <3> QED
      BY <3>2, <3>3
  <2> QED
    BY <1>0, <2>1, <2>4, <2>6, <2>7, LeaveStep
<1>10. CASE UNCHANGED vars
  BY <1>10 DEF vars, sourceVars, outputVars, NestingInv, TypeOK, CallsNest, CallsDistinct,
               ScopesMatchCalls, Innermost
<1> QED
  BY <1>3, <1>4, <1>5, <1>6, <1>7, <1>8, <1>9, <1>10 DEF Next, Advance, Finished

(* No failure at any depth of nesting leaves a scope open, or closes the   *)
(* scope of an execution that still needs it, as long as every handler     *)
(* lets the error of a nested execution pass.                              *)
THEOREM ScopesBalanced ==
  ASSUME ~CatchingSubscribers
  PROVE  Spec => []ScopesMatchCalls
<1>1. Init => NestingInv
  <2> SUFFICES ASSUME Init PROVE NestingInv
    OBVIOUS
  <2>1. TypeOK
    BY EmptySeq DEF Init, TypeOK, Phases
  <2>2. \A c \in Contexts : calls[c] = <<>> /\ scopes[c] = <<>> /\ Len(calls[c]) = 0
    BY EmptySeq DEF Init
  <2> QED
    BY <2>1, <2>2 DEF NestingInv, CallsNest, CallsDistinct, ScopesMatchCalls
<1>2. NestingInv /\ [Next]_vars => NestingInv'
  BY NestingStep
<1>3. NestingInv => ScopesMatchCalls
  BY DEF NestingInv
<1> QED
  BY <1>1, <1>2, <1>3, PTL DEF Spec

-----------------------------------------------------------------------------
(* A unit of work persists its own aggregates.                             *)

(* The scopes of an execution that runs: its own on top, once it is not    *)
(* committing, and none above its caller's once it is.                     *)
LEMMA OwnScope ==
  ASSUME OwnershipInv, NEW c \in Contexts, NEW x \in Exec, Running(c, x),
         pc[x] \in {"useCase", "dispatch", "publish", "store", "commit"}
  PROVE  /\ scopes[c] # <<>> /\ Len(scopes[c]) = Len(calls[c])
         /\ Len(scopes[c]) \in 1 .. Len(scopes[c])
         /\ Innermost(scopes[c]) = touched[x]
<1>1. /\ NestingInv /\ Len(scopes[c]) = Len(calls[c]) /\ Len(calls[c]) >= 1
      /\ Len(calls[c]) \in Nat /\ calls[c] \in Seq(Exec) /\ scopes[c] \in Seq(SUBSET Sources)
  BY RunningScopes DEF OwnershipInv, OpenScopes
<1>2. scopes[c] # <<>>
  BY <1>1, EmptySeq
<1>3. calls[c][Len(calls[c])] = x
  BY DEF Running, Innermost
<1>4. scopes[c][Len(scopes[c])] = touched[calls[c][Len(calls[c])]]
  BY <1>1 DEF OwnershipInv, ScopesHoldTouched
<1> QED
  BY <1>1, <1>2, <1>3, <1>4 DEF Innermost

(* No step puts an execution back to idle, and only commit and the return  *)
(* that follows it lead to flush and to returned.                          *)
LEMMA QuietStep ==
  ASSUME OwnershipInv, TypeOK',
         UNCHANGED <<calls, scopes, touched, persisted>>,
         \A s \in Sources : tracked'[s] => tracked[s],
         NEW x \in Exec, NEW phase \in Phases \ {"idle", "flush", "returned"},
         pc' = [pc EXCEPT ![x] = phase]
  PROVE  ScopesHoldTouched' /\ SourcesOwned' /\ CommitPersistsOwn'
<1>1. pc \in [Exec -> Phases]
  BY DEF OwnershipInv, NestingInv, TypeOK
<1>2. \A y \in Exec : pc'[y] = IF y = x THEN phase ELSE pc[y]
  BY <1>1
<1>3. ScopesHoldTouched'
  BY DEF OwnershipInv, ScopesHoldTouched
<1>4. SourcesOwned'
  BY <1>2 DEF OwnershipInv, SourcesOwned
<1>5. CommitPersistsOwn'
  BY <1>2 DEF OwnershipInv, CommitPersistsOwn
<1> QED
  BY <1>3, <1>4, <1>5

(* A commit that pops a scope leaves the others as they are.               *)
LEMMA PoppedScopes ==
  ASSUME ScopesHoldTouched, TypeOK, NEW c \in Contexts, scopes[c] # <<>>,
         scopes' = [scopes EXCEPT ![c] = Pop(@)], UNCHANGED <<calls, touched>>
  PROVE  ScopesHoldTouched'
<1> SUFFICES ASSUME NEW d \in Contexts, NEW i \in 1 .. Len(scopes'[d])
             PROVE  scopes'[d][i] = touched[calls[d][i]]
  BY DEF ScopesHoldTouched
<1>1. /\ scopes \in [Contexts -> Seq(SUBSET Sources)] /\ scopes[d] \in Seq(SUBSET Sources)
      /\ Len(scopes[d]) \in Nat
  BY LenProperties DEF TypeOK
<1>2. i \in 1 .. Len(scopes[d]) /\ scopes'[d][i] = scopes[d][i]
  <2>1. CASE d # c
    BY <1>1, <2>1
  <2>2. CASE d = c
    <3>1. scopes'[d] = Pop(scopes[d])
      BY <1>1, <2>2
    <3> QED
      BY <1>1, <2>2, <3>1, PopProperties
  <2> QED
    BY <2>1, <2>2
<1> QED
  BY <1>2 DEF ScopesHoldTouched

(* An execution that leaves takes its scope with it, if it is still there: *)
(* the scopes that remain belong to the calls that remain.                 *)
LEMMA PoppedCalls ==
  ASSUME NestingInv, NestingInv', ScopesHoldTouched,
         NEW c \in Contexts, NEW x \in Exec, Running(c, x),
         calls' = [calls EXCEPT ![c] = Pop(@)],
         scopes' = scopes \/ scopes' = [scopes EXCEPT ![c] = Pop(@)],
         UNCHANGED touched
  PROVE  ScopesHoldTouched'
<1> SUFFICES ASSUME NEW d \in Contexts, NEW i \in 1 .. Len(scopes'[d])
             PROVE  scopes'[d][i] = touched[calls'[d][i]]
  BY DEF ScopesHoldTouched
<1>1. /\ scopes \in [Contexts -> Seq(SUBSET Sources)] /\ scopes[d] \in Seq(SUBSET Sources)
      /\ Len(scopes[d]) \in Nat
      /\ scopes' \in [Contexts -> Seq(SUBSET Sources)] /\ scopes'[d] \in Seq(SUBSET Sources)
      /\ Len(scopes'[d]) \in Nat
      /\ calls' \in [Contexts -> Seq(Exec)] /\ calls'[d] \in Seq(Exec) /\ Len(calls'[d]) \in Nat
  BY LenProperties DEF NestingInv, TypeOK
<1>2. i \in 1 .. Len(scopes[d]) /\ scopes'[d][i] = scopes[d][i]
  <2>1. CASE scopes'[d] = scopes[d]
    BY <2>1
  <2>2. CASE scopes'[d] # scopes[d]
    <3>1. scopes'[d] = Pop(scopes[d])
      BY <1>1, <2>2
    <3>2. scopes[d] # <<>>
      BY <2>2, <3>1 DEF Pop
    <3> QED
      BY <1>1, <3>1, <3>2, PopProperties
  <2> QED
    BY <2>1, <2>2
<1>3. Len(scopes'[d]) <= Len(calls'[d])
  <2>1. CASE calls'[d] = <<>>
    BY <1>1, <2>1, EmptySeq DEF NestingInv, ScopesMatchCalls
  <2>2. CASE calls'[d] # <<>>
    <3>1. Len(scopes'[d]) \in OpenScopes(pc'[Innermost(calls'[d])], Len(calls'[d]))
      BY <2>2 DEF NestingInv, ScopesMatchCalls, Innermost
    <3> QED
      BY <1>1, <3>1 DEF OpenScopes
  <2> QED
    BY <2>1, <2>2
<1>4. i \in 1 .. Len(calls'[d])
  BY <1>1, <1>3
<1>5. calls'[d][i] = calls[d][i]
  <2>1. \A b \in Contexts :
          /\ Len(calls'[b]) \in Nat
          /\ \A j \in 1 .. Len(calls'[b]) :
               /\ j \in 1 .. Len(calls[b])
               /\ b = c => j < Len(calls[c])
               /\ calls'[b][j] = calls[b][j]
               /\ calls'[b][j] \in Exec /\ calls'[b][j] # x
    BY CallsLeft DEF CallsInv, NestingInv
  <2> QED
    BY <1>4, <2>1
<1> QED
  BY <1>2, <1>5 DEF ScopesHoldTouched

(* Every step keeps the ownership of sources and scopes, when no instance  *)
(* is shared and errors leave every handler.                               *)
LEMMA OwnershipStep ==
  ASSUME ~CatchingSubscribers, Retained = {}, OwnershipInv, [Next]_vars
  PROVE  OwnershipInv'
<1>0. NestingInv /\ TypeOK /\ ScopesHoldTouched /\ SourcesOwned /\ CommitPersistsOwn
  BY DEF OwnershipInv, NestingInv
<1>1. NestingInv' /\ TypeOK'
  BY <1>0, NestingStep DEF NestingInv
<1>2. /\ pc \in [Exec -> Phases] /\ scopes \in [Contexts -> Seq(SUBSET Sources)]
      /\ calls \in [Contexts -> Seq(Exec)] /\ touched \in [Exec -> SUBSET Sources]
      /\ tracked \in [Sources -> BOOLEAN] /\ persisted \in [Exec -> SUBSET Aggregates]
  BY <1>0 DEF TypeOK
<1> SUFFICES ScopesHoldTouched' /\ SourcesOwned' /\ CommitPersistsOwn'
  BY <1>1 DEF OwnershipInv
<1>3. ASSUME NEW x \in Exec, NEW c \in Contexts, Begin(c, x)
      PROVE  ScopesHoldTouched' /\ SourcesOwned' /\ CommitPersistsOwn'
  <2>1. /\ pc[x] = "idle" /\ pc' = [pc EXCEPT ![x] = "useCase"]
        /\ calls' = [calls EXCEPT ![c] = Append(@, x)]
        /\ scopes' = [scopes EXCEPT ![c] = BeginScope(@)]
        /\ UNCHANGED <<tracked, touched, persisted>>
    BY <1>3 DEF Begin, Goto, sourceVars, outputVars
  <2>2. \A y \in Exec : pc'[y] = IF y = x THEN "useCase" ELSE pc[y]
    BY <1>2, <2>1
  <2>3. SourcesOwned' /\ CommitPersistsOwn'
    BY <1>0, <2>1, <2>2 DEF SourcesOwned, CommitPersistsOwn
  <2>4. ScopesHoldTouched'
    <3> SUFFICES ASSUME NEW d \in Contexts, NEW i \in 1 .. Len(scopes'[d])
                 PROVE  scopes'[d][i] = touched[calls'[d][i]]
      <4>1. touched' = touched
        BY <2>1
      <4> QED
        BY <4>1 DEF ScopesHoldTouched
    <3>1. CASE d # c
      BY <1>0, <1>2, <2>1, <3>1 DEF ScopesHoldTouched
    <3>2. CASE d = c
      <4>1. /\ calls[c] \in Seq(Exec) /\ scopes[c] \in Seq(SUBSET Sources)
            /\ Len(calls[c]) \in Nat /\ Len(scopes[c]) \in Nat
            /\ calls'[c] = Append(calls[c], x) /\ scopes'[c] = BeginScope(scopes[c])
        BY <1>2, <2>1, LenProperties
      <4>2. Len(scopes[c]) = Len(calls[c])
        <5>1. CASE calls[c] = <<>>
          BY <1>0, <5>1 DEF NestingInv, ScopesMatchCalls
        <5>2. CASE calls[c] # <<>>
          <6>1. pc[Innermost(calls[c])] \in Delivering
            BY <1>3, <5>2 DEF Begin, InHandler
          <6>2. Len(scopes[c]) \in OpenScopes(pc[Innermost(calls[c])], Len(calls[c]))
            BY <1>0, <5>2 DEF NestingInv, ScopesMatchCalls
          <6> QED
            BY <6>1, <6>2 DEF OpenScopes, Delivering
        <5> QED
          BY <5>1, <5>2
      <4>3. /\ \A j \in 1 .. Len(calls[c]) : calls'[c][j] = calls[c][j] /\ scopes'[c][j] = scopes[c][j]
            /\ calls'[c][Len(calls[c]) + 1] = x /\ scopes'[c][Len(scopes[c]) + 1] = {}
            /\ Len(scopes'[c]) = Len(scopes[c]) + 1
        <5>1. /\ \A j \in 1 .. Len(calls[c]) : calls'[c][j] = calls[c][j]
              /\ calls'[c][Len(calls[c]) + 1] = x
          BY <4>1, AppendProperties
        <5>2. /\ \A j \in 1 .. Len(scopes[c]) : BeginScope(scopes[c])[j] = scopes[c][j]
              /\ BeginScope(scopes[c])[Len(scopes[c]) + 1] = {}
              /\ Len(BeginScope(scopes[c])) = Len(scopes[c]) + 1
          BY <4>1, BeginScopeProperties
        <5> QED
          BY <4>1, <4>2, <5>1, <5>2
      <4>4. touched[x] = {}
        BY <1>0, <2>1 DEF SourcesOwned
      <4>5. CASE i = Len(scopes[c]) + 1
        BY <3>2, <4>2, <4>3, <4>4, <4>5
      <4>6. CASE i \in 1 .. Len(scopes[c])
        BY <1>0, <3>2, <4>2, <4>3, <4>6 DEF ScopesHoldTouched
      <4> QED
        BY <3>2, <4>2, <4>1, <4>3, <4>5, <4>6
    <3> QED
      BY <3>1, <3>2
  <2> QED
    BY <2>3, <2>4
<1>4. ASSUME NEW x \in Exec, NEW c \in Contexts, NEW s \in Sources, NEW e \in Events,
             Emit(c, x, s, e)
      PROVE  ScopesHoldTouched' /\ SourcesOwned' /\ CommitPersistsOwn'
  <2>1. /\ Running(c, x) /\ pc[x] \in EmittingPhases /\ \A y \in Exec \ {x} : s \notin touched[y]
        /\ tracked' = [tracked EXCEPT ![s] = TRUE]
        /\ touched' = [touched EXCEPT ![x] = @ \cup {s}]
        /\ UNCHANGED <<pc, calls, persisted>>
    BY <1>4 DEF Emit, outputVars
  <2>2. pc[x] \in {"useCase", "dispatch", "publish", "store", "commit"}
    BY <2>1, EmittingAssumption
  <2>3. touched'[x] = touched[x] \cup {s} /\ \A y \in Exec : y # x => touched'[y] = touched[y]
    BY <1>2, <2>1
  <2>4. tracked[s] => s \in touched[x]
    BY <1>0, <2>1 DEF SourcesOwned
  <2>5. SourcesOwned'
    <3>1. \A y, z \in Exec : touched'[y] \cap touched'[z] # {} => y = z
      BY <1>0, <2>1, <2>3 DEF SourcesOwned
    <3>2. \A t \in Sources : tracked'[t] => \E y \in Exec : t \in touched'[y]
      <4> SUFFICES ASSUME NEW t \in Sources, tracked'[t]
                   PROVE  \E y \in Exec : t \in touched'[y]
        OBVIOUS
      <4>1. CASE t = s
        BY <2>3, <4>1
      <4>2. CASE t # s
        <5>1. tracked[t]
          BY <1>2, <2>1, <4>2
        <5>2. PICK y \in Exec : t \in touched[y]
          BY <1>0, <5>1 DEF SourcesOwned
        <5> QED
          BY <2>3, <5>2
      <4> QED
        BY <4>1, <4>2
    <3>3. \A y \in Exec : pc'[y] = "idle" => touched'[y] = {}
      BY <1>0, <2>1, <2>2, <2>3 DEF SourcesOwned
    <3> QED
      BY <3>1, <3>2, <3>3 DEF SourcesOwned
  <2>6. CommitPersistsOwn'
    BY <1>0, <2>1, <2>2, <2>3 DEF CommitPersistsOwn
  <2>7. ScopesHoldTouched'
    <3> SUFFICES ASSUME NEW d \in Contexts, NEW i \in 1 .. Len(scopes'[d])
                 PROVE  scopes'[d][i] = touched'[calls[d][i]]
      BY <2>1 DEF ScopesHoldTouched
    <3>1. /\ scopes[c] # <<>> /\ Len(scopes[c]) = Len(calls[c]) /\ Innermost(scopes[c]) = touched[x]
          /\ Len(scopes[c]) \in 1 .. Len(scopes[c])
      BY <2>1, <2>2, OwnScope
    <3>2. /\ calls[c][Len(calls[c])] = x
          /\ \A j \in 1 .. Len(calls[c]) : calls[c][j] = x => j = Len(calls[c])
          /\ \A b \in Contexts : b # c => \A j \in 1 .. Len(calls[b]) : calls[b][j] # x
      BY <1>0, <2>1, RunningOnce DEF CallsInv, NestingInv, Running, Innermost
    <3>3. \A b \in Contexts : \A j \in 1 .. Len(calls[b]) : calls[b][j] \in Exec
      BY <1>2, ElementOfSeq
    <3>4. \A b \in Contexts : b # c => scopes'[b] = scopes[b] /\ Len(scopes[b]) <= Len(calls[b])
      <4> SUFFICES ASSUME NEW b \in Contexts, b # c
                   PROVE  scopes'[b] = scopes[b] /\ Len(scopes[b]) <= Len(calls[b])
        OBVIOUS
      <4>1. scopes'[b] = scopes[b]
        BY <1>2, <1>4 DEF Emit
      <4>2. Len(calls[b]) \in Nat /\ Len(scopes[b]) \in Nat
        BY <1>2, LenProperties
      <4>3. CASE calls[b] = <<>>
        <5>1. scopes[b] = <<>> /\ Len(scopes[b]) = 0 /\ Len(calls[b]) = 0
          BY <1>0, <4>3, EmptySeq DEF NestingInv, ScopesMatchCalls
        <5> QED
          BY <4>1, <5>1
      <4>4. CASE calls[b] # <<>>
        <5>1. Len(scopes[b]) \in OpenScopes(pc[Innermost(calls[b])], Len(calls[b]))
          BY <1>0, <4>4 DEF NestingInv, ScopesMatchCalls
        <5>2. Len(scopes[b]) \in {Len(calls[b]) - 1, Len(calls[b])}
          BY <5>1 DEF OpenScopes
        <5> QED
          BY <4>1, <4>2, <5>2
      <4> QED
        BY <4>1, <4>3, <4>4
    <3>5. CASE d # c
      <4>1. i \in 1 .. Len(scopes[d]) /\ i \in 1 .. Len(calls[d]) /\ scopes'[d][i] = scopes[d][i]
        <5>1. Len(calls[d]) \in Nat /\ Len(scopes[d]) \in Nat
          BY <1>2, LenProperties
        <5> QED
          BY <3>4, <3>5, <5>1
      <4>2. calls[d][i] \in Exec /\ calls[d][i] # x
        BY <3>2, <3>3, <3>5, <4>1
      <4>3. scopes[d][i] = touched[calls[d][i]]
        BY <1>0, <4>1 DEF ScopesHoldTouched
      <4> QED
        BY <2>3, <4>1, <4>2, <4>3
    <3>6. CASE d = c
      <4>1. /\ Len(scopes'[c]) = Len(scopes[c])
            /\ \A j \in 1 .. Len(scopes[c]) :
                  scopes'[c][j] = IF j = Len(scopes[c]) THEN scopes[c][j] \cup {s} ELSE scopes[c][j]
        <5>1. CASE tracked[s]
          <6>1. scopes' = scopes
            BY <1>4, <5>1 DEF Emit
          <6>2. scopes[c][Len(scopes[c])] = touched[x]
            BY <3>1 DEF Innermost
          <6>3. scopes[c][Len(scopes[c])] \cup {s} = scopes[c][Len(scopes[c])]
            BY <2>4, <5>1, <6>2
          <6> QED
            BY <6>1, <6>3
        <5>2. CASE ~tracked[s]
          <6>1. scopes'[c] = TrackIn(scopes[c], s)
            BY <1>2, <1>4, <5>2 DEF Emit
          <6>2. scopes[c] \in Seq(SUBSET Sources)
            BY <1>2
          <6>3. Len(TrackIn(scopes[c], s)) = Len(scopes[c])
            BY <6>2, TrackInProperties
          <6>4. TrackIn(scopes[c], s) = [scopes[c] EXCEPT ![Len(scopes[c])] = @ \cup {s}]
            BY <3>1 DEF TrackIn
          <6>5. DOMAIN scopes[c] = 1 .. Len(scopes[c])
            BY <6>2, LenProperties
          <6>6. \A j \in 1 .. Len(scopes[c]) :
                  TrackIn(scopes[c], s)[j] =
                    IF j = Len(scopes[c]) THEN scopes[c][j] \cup {s} ELSE scopes[c][j]
            BY <6>4, <6>5
          <6> QED
            BY <6>1, <6>3, <6>6
        <5> QED
          BY <5>1, <5>2
      <4>2. i \in 1 .. Len(scopes[c]) /\ i \in 1 .. Len(calls[c])
        BY <3>1, <3>6, <4>1
      <4>3. scopes[c][i] = touched[calls[c][i]]
        BY <1>0, <4>2 DEF ScopesHoldTouched
      <4>4. CASE i = Len(scopes[c])
        BY <2>3, <3>1, <3>2, <3>6, <4>1, <4>2, <4>3, <4>4
      <4>5. CASE i # Len(scopes[c])
        BY <2>3, <3>1, <3>2, <3>3, <3>6, <4>1, <4>2, <4>3, <4>5
      <4> QED
        BY <4>4, <4>5
    <3> QED
      BY <3>5, <3>6
  <2> QED
    BY <2>5, <2>6, <2>7
<1>5. ASSUME NEW x \in Exec, NEW c \in Contexts,
             \/ UseCaseReturns(c, x) \/ UseCaseThrows(c, x) \/ DispatchDone(c, x)
             \/ PublishDone(c, x) \/ HandlerThrows(c, x) \/ SaveAll(c, x)
             \/ SaveAllThrows(c, x) \/ CommitThrows(c, x)
             \/ \E e \in Events : DispatchEvent(c, x, e) \/ PublishEvent(c, x, e)
      PROVE  ScopesHoldTouched' /\ SourcesOwned' /\ CommitPersistsOwn'
  <2>1. UNCHANGED <<calls, scopes, touched, persisted>>
    BY <1>5 DEF UseCaseReturns, UseCaseThrows, DispatchDone, PublishDone, HandlerThrows,
                SaveAll, SaveAllThrows, CommitThrows, DispatchEvent, PublishEvent,
                sourceVars, outputVars
  <2>2. \A s \in Sources : tracked'[s] => tracked[s]
    <3>1. CASE UseCaseReturns(c, x)
      BY <3>1 DEF UseCaseReturns, DrainDomainEvents
    <3>2. CASE ~UseCaseReturns(c, x)
      <4>1. UNCHANGED tracked
        BY <1>5, <3>2 DEF UseCaseThrows, DispatchDone, PublishDone, HandlerThrows, SaveAll,
                  SaveAllThrows, CommitThrows, DispatchEvent, PublishEvent, sourceVars
      <4> QED
        BY <4>1
    <3> QED
      BY <3>1, <3>2
  <2>3. \E phase \in {"dispatch", "publish", "store", "commit", "rollback"} :
           pc' = [pc EXCEPT ![x] = phase]
    <3>1. CASE \E e \in Events : DispatchEvent(c, x, e) \/ PublishEvent(c, x, e)
      BY <1>2, <3>1 DEF DispatchEvent, PublishEvent, At
    <3>2. CASE ~\E e \in Events : DispatchEvent(c, x, e) \/ PublishEvent(c, x, e)
      BY <1>5, <3>2 DEF UseCaseReturns, UseCaseThrows, DispatchDone, PublishDone,
                HandlerThrows, SaveAll, SaveAllThrows, CommitThrows, Goto
    <3> QED
      BY <3>1, <3>2
  <2>4. {"dispatch", "publish", "store", "commit", "rollback"}
          \subseteq Phases \ {"idle", "flush", "returned"}
    BY DEF Phases, Delivering
  <2> QED
    BY <1>1, <2>1, <2>2, <2>3, <2>4, QuietStep
<1>6. ASSUME NEW x \in Exec, NEW c \in Contexts, Commit(c, x)
      PROVE  ScopesHoldTouched' /\ SourcesOwned' /\ CommitPersistsOwn'
  <2>1. /\ Running(c, x) /\ pc[x] = "commit" /\ pc' = [pc EXCEPT ![x] = "flush"]
        /\ persisted' = [persisted EXCEPT ![x] = PeekScope(scopes[c]) \cap Aggregates]
        /\ scopes' = [scopes EXCEPT ![c] = Pop(@)]
        /\ UNCHANGED <<calls, tracked, touched>>
    BY <1>6 DEF Commit, At, Goto, DrainedSources, DrainScope, sourceVars
  <2>2. /\ scopes[c] # <<>> /\ Innermost(scopes[c]) = touched[x]
        /\ Len(scopes[c]) \in 1 .. Len(scopes[c])
    BY <2>1, OwnScope
  <2>3. \A y \in Exec : pc'[y] = IF y = x THEN "flush" ELSE pc[y]
    BY <1>2, <2>1
  <2>4. SourcesOwned'
    BY <1>0, <2>1, <2>3 DEF SourcesOwned
  <2>5. \A y \in Exec : persisted'[y] = IF y = x THEN touched[x] \cap Aggregates ELSE persisted[y]
    BY <1>2, <2>1, <2>2 DEF PeekScope
  <2>6. CommitPersistsOwn'
    BY <1>0, <2>1, <2>3, <2>5 DEF CommitPersistsOwn
  <2>7. ScopesHoldTouched'
    <3>1. UNCHANGED <<calls, touched>>
      BY <2>1
    <3> QED
      BY <1>0, <2>1, <2>2, <3>1, PoppedScopes
  <2> QED
    BY <2>4, <2>6, <2>7
<1>7. ASSUME NEW x \in Exec, NEW c \in Contexts, CommitReturns(c, x)
      PROVE  ScopesHoldTouched' /\ SourcesOwned' /\ CommitPersistsOwn'
  <2>1. /\ Running(c, x) /\ pc[x] = "flush" /\ pc' = [pc EXCEPT ![x] = "returned"]
        /\ calls' = [calls EXCEPT ![c] = Pop(@)]
        /\ UNCHANGED <<scopes, tracked, touched, persisted>>
    BY <1>7 DEF CommitReturns, At, Goto, sourceVars, outputVars
  <2>2. \A y \in Exec : pc'[y] = IF y = x THEN "returned" ELSE pc[y]
    BY <1>2, <2>1
  <2>3. SourcesOwned' /\ CommitPersistsOwn'
    BY <1>0, <2>1, <2>2 DEF SourcesOwned, CommitPersistsOwn
  <2>4. ScopesHoldTouched'
    BY <1>0, <1>1, <2>1, PoppedCalls
  <2> QED
    BY <2>3, <2>4
<1>8. ASSUME NEW x \in Exec, NEW c \in Contexts, Rollback(c, x)
      PROVE  ScopesHoldTouched' /\ SourcesOwned' /\ CommitPersistsOwn'
  <2>1. /\ Running(c, x) /\ pc[x] = "rollback" /\ calls' = [calls EXCEPT ![c] = Pop(@)]
        /\ scopes' = [scopes EXCEPT ![c] = Pop(@)] /\ Rethrow(c, x)
        /\ UNCHANGED <<tracked, touched, persisted>>
    BY <1>8 DEF Rollback, At, ClearScope, sourceVars, outputVars
  <2>2. \A y \in Exec : pc'[y] \in {pc[y], "threw", "rollback"}
    BY <1>2, <2>1 DEF Rethrow, Goto
  <2>3. SourcesOwned' /\ CommitPersistsOwn'
    BY <1>0, <2>1, <2>2 DEF SourcesOwned, CommitPersistsOwn
  <2>4. ScopesHoldTouched'
    BY <1>0, <1>1, <2>1, PoppedCalls
  <2> QED
    BY <2>3, <2>4
<1>9. CASE UNCHANGED vars
  BY <1>0, <1>9 DEF vars, sourceVars, outputVars, ScopesHoldTouched, SourcesOwned, CommitPersistsOwn
<1> QED
  BY <1>3, <1>4, <1>5, <1>6, <1>7, <1>8, <1>9 DEF Next, Advance, Finished

(* At first no scope is open, no source is tracked and nothing is handed   *)
(* over.                                                                   *)
LEMMA OwnershipInit ==
  ASSUME Init
  PROVE  OwnershipInv
<1>1. TypeOK
  BY EmptySeq DEF Init, TypeOK, Phases
<1>2. \A c \in Contexts : /\ calls[c] = <<>> /\ scopes[c] = <<>>
                         /\ Len(calls[c]) = 0 /\ Len(scopes[c]) = 0
  BY EmptySeq DEF Init
<1>3. NestingInv /\ ScopesHoldTouched
  BY <1>1, <1>2 DEF NestingInv, CallsNest, CallsDistinct, ScopesMatchCalls, ScopesHoldTouched
<1>4. SourcesOwned /\ CommitPersistsOwn
  BY DEF Init, SourcesOwned, CommitPersistsOwn
<1> QED
  BY <1>3, <1>4 DEF OwnershipInv

(* The stack of scopes of a context mirrors its stack of calls: the scope  *)
(* of an execution holds what that execution touched and nothing else, and *)
(* a source is touched by one execution (AggregateTracker.ts:14-56), when  *)
(* no instance is shared and no handler swallows the error of an execution *)
(* it nests.                                                               *)
THEOREM ScopesBelongToCalls ==
  ASSUME ~CatchingSubscribers, Retained = {}
  PROVE  Spec => []OwnershipInv
<1>1. Init => OwnershipInv
  BY OwnershipInit
<1>2. OwnershipInv /\ [Next]_vars => OwnershipInv'
  BY OwnershipStep
<1> QED
  BY <1>1, <1>2, PTL DEF Spec

(* What a unit of work hands to onCommit is the set of aggregates its own  *)
(* execution emitted on, for any number of concurrent and nested           *)
(* executions: when no instance is shared by two of them and no handler    *)
(* swallows the error of an execution it nests.                            *)
THEOREM CommitsOwnAggregates ==
  ASSUME ~CatchingSubscribers, Retained = {}
  PROVE  Spec => []CommitPersistsOwn
<1>1. OwnershipInv => CommitPersistsOwn
  BY DEF OwnershipInv
<1> QED
  BY <1>1, ScopesBelongToCalls, PTL

-----------------------------------------------------------------------------
(* ApplicationService implements UnitOfWork: every step of an execution is *)
(* a step of its unit of work, or leaves all of them as they are.          *)

(* What the refinement mapping gives for the abstract variables.           *)
status == [x \in Exec |-> Status(x)]
caller == [x \in Exec |-> Caller(x)]

-----------------------------------------------------------------------------
(* The callers.                                                            *)

(* The innermost execution is nobody's caller.                             *)
LEMMA InnermostIsActive ==
  ASSUME CallsInv, NEW c \in Contexts, NEW x \in Exec, Running(c, x)
  PROVE  Contract!Active(x)
<1> SUFFICES ASSUME NEW y \in Exec, x \in Caller(y)
             PROVE  FALSE
  BY DEF Contract!Active
<1>0. PICK d \in Contexts : \E i \in 1 .. Len(calls[d]) - 1 : calls[d][i] = x
  BY DEF Caller
<1>1. PICK i \in 1 .. Len(calls[d]) - 1 : calls[d][i] = x
  BY <1>0
<1>2. Len(calls[d]) \in Nat /\ Len(calls[c]) \in Nat
  BY LenProperties DEF CallsInv, TypeOK
<1>3. i \in 1 .. Len(calls[d]) /\ i # Len(calls[d])
  BY <1>2
<1> QED
  BY <1>1, <1>3, RunningOnce

(* A call is nested in the one that was innermost, and an execution that   *)
(* has not begun is nested in none.                                        *)
LEMMA BeginCaller ==
  ASSUME CallsInv, NEW c \in Contexts, NEW x \in Exec, Begin(c, x)
  PROVE  /\ \A y \in Exec : y # x => Caller(y)' = Caller(y)
         /\ Caller(x) = {}
         /\ Caller(x)' = IF calls[c] = <<>> THEN {} ELSE {Innermost(calls[c])}
<1>1. /\ pc[x] = "idle" /\ pc \in [Exec -> Phases]
      /\ calls' = [calls EXCEPT ![c] = Append(@, x)]
      /\ calls \in [Contexts -> Seq(Exec)] /\ CallsNest
  BY DEF Begin, CallsInv, TypeOK
<1>2. /\ \A d \in Contexts : d # c => calls'[d] = calls[d]
      /\ \A d \in Contexts : Len(calls[d]) \in Nat
      /\ Len(calls'[c]) = Len(calls[c]) + 1
      /\ calls'[c][Len(calls[c]) + 1] = x
      /\ \A i \in 1 .. Len(calls[c]) : calls'[c][i] = calls[c][i]
  <2>1. calls[c] \in Seq(Exec) /\ calls'[c] = Append(calls[c], x)
    BY <1>1
  <2>2. /\ Len(calls'[c]) = Len(calls[c]) + 1
        /\ calls'[c][Len(calls[c]) + 1] = x
        /\ \A i \in 1 .. Len(calls[c]) : calls'[c][i] = calls[c][i]
    BY <2>1, AppendProperties
  <2>3. /\ \A d \in Contexts : d # c => calls'[d] = calls[d]
        /\ \A d \in Contexts : Len(calls[d]) \in Nat
    BY <1>1, LenProperties
  <2> QED
    BY <2>2, <2>3
<1>3. \A d \in Contexts : \A i \in 1 .. Len(calls[d]) : calls[d][i] # x
  BY <1>1 DEF CallsNest
<1> DEFINE Under(y, z) == \E d \in Contexts : \E i \in 1 .. Len(calls[d]) - 1 :
                            calls[d][i] = y /\ calls[d][i + 1] = z
           UnderNow(y, z) == \E d \in Contexts : \E i \in 1 .. Len(calls'[d]) - 1 :
                               calls'[d][i] = y /\ calls'[d][i + 1] = z
<1>4. ASSUME NEW y \in Exec, NEW z \in Exec, z # x, Under(y, z)
      PROVE  UnderNow(y, z)
  <2>0. PICK d \in Contexts : \E i \in 1 .. Len(calls[d]) - 1 :
           calls[d][i] = y /\ calls[d][i + 1] = z
    BY <1>4
  <2>1. PICK i \in 1 .. Len(calls[d]) - 1 : calls[d][i] = y /\ calls[d][i + 1] = z
    BY <2>0
  <2>2. CASE d # c
    BY <1>2, <2>1, <2>2
  <2>3. CASE d = c
    <3>1. i \in 1 .. Len(calls'[c]) - 1 /\ i \in 1 .. Len(calls[c]) /\ i + 1 \in 1 .. Len(calls[c])
      BY <1>2, <2>1, <2>3
    <3>2. calls'[c][i] = y /\ calls'[c][i + 1] = z
      BY <1>2, <2>1, <2>3, <3>1
    <3> QED
      BY <3>1, <3>2
  <2> QED
    BY <2>2, <2>3
<1>5. ASSUME NEW y \in Exec, NEW z \in Exec, UnderNow(y, z)
      PROVE  \/ z # x /\ Under(y, z)
             \/ z = x /\ calls[c] # <<>> /\ y = Innermost(calls[c])
  <2>0. PICK d \in Contexts : \E i \in 1 .. Len(calls'[d]) - 1 :
           calls'[d][i] = y /\ calls'[d][i + 1] = z
    BY <1>5
  <2>1. PICK i \in 1 .. Len(calls'[d]) - 1 : calls'[d][i] = y /\ calls'[d][i + 1] = z
    BY <2>0
  <2>2. CASE d # c
    <3>1. i \in 1 .. Len(calls[d]) - 1 /\ i + 1 \in 1 .. Len(calls[d])
          /\ calls[d][i] = y /\ calls[d][i + 1] = z
      BY <1>2, <2>1, <2>2
    <3> QED
      BY <1>3, <3>1
  <2>3. CASE d = c /\ i = Len(calls[c])
    <3>1. z = x /\ y = Innermost(calls[c])
      BY <1>2, <2>1, <2>3 DEF Innermost
    <3>2. calls[c] # <<>>
      BY <1>2, <2>1, <2>3, EmptySeq
    <3> QED
      BY <3>1, <3>2
  <2>4. CASE d = c /\ i \in 1 .. Len(calls[c]) - 1
    <3>1. i \in 1 .. Len(calls[c]) /\ i + 1 \in 1 .. Len(calls[c])
      BY <1>2, <2>4
    <3>2. calls[c][i] = y /\ calls[c][i + 1] = z
      BY <1>2, <2>1, <2>4, <3>1
    <3> QED
      BY <1>3, <2>4, <3>1, <3>2
  <2> QED
    BY <1>2, <2>1, <2>2, <2>3, <2>4
<1>6. ASSUME calls[c] # <<>>
      PROVE  Innermost(calls[c]) \in Exec /\ UnderNow(Innermost(calls[c]), x)
  <2>1. Len(calls[c]) \in 1 .. Len(calls[c]) /\ Innermost(calls[c]) \in Exec
    BY <1>1, <1>6, InnermostProperties
  <2>2. Len(calls[c]) \in 1 .. Len(calls'[c]) - 1
    BY <1>2, <2>1
  <2> QED
    BY <1>2, <2>1, <2>2 DEF Innermost
<1>7. \A z : Caller(z) = {y \in Exec : Under(y, z)} /\ Caller(z)' = {y \in Exec : UnderNow(y, z)}
  BY DEF Caller
<1>8. \A y \in Exec : ~Under(y, x)
  BY <1>2, <1>3
<1> HIDE DEF Under, UnderNow
<1> QED
  BY <1>4, <1>5, <1>6, <1>7, <1>8

(* An execution that leaves is under its caller no more, and nobody else's *)
(* caller changes.                                                         *)
LEMMA LeaveCaller ==
  ASSUME CallsInv, NEW c \in Contexts, NEW x \in Exec, Running(c, x),
         calls' = [calls EXCEPT ![c] = Pop(@)]
  PROVE  /\ \A y \in Exec : y # x => Caller(y)' = Caller(y)
         /\ Caller(x)' = {}
         /\ Caller(x) = IF Pop(calls[c]) = <<>> THEN {} ELSE {Innermost(Pop(calls[c]))}
<1>1. /\ calls \in [Contexts -> Seq(Exec)] /\ calls'[c] = Pop(calls[c])
      /\ calls' \in [Contexts -> Seq(Exec)]
  BY PopProperties DEF CallsInv, TypeOK
<1>2. /\ Len(calls'[c]) = Len(calls[c]) - 1
      /\ \A d \in Contexts :
           /\ Len(calls'[d]) \in Nat
           /\ \A i \in 1 .. Len(calls'[d]) :
                /\ i \in 1 .. Len(calls[d])
                /\ d = c => i < Len(calls[c])
                /\ calls'[d][i] = calls[d][i]
                /\ calls'[d][i] \in Exec /\ calls'[d][i] # x
  BY CallsLeft
<1>3. /\ \A d \in Contexts : Len(calls[d]) \in Nat /\ (d # c => calls'[d] = calls[d])
      /\ calls[c][Len(calls[c])] = x /\ Len(calls[c]) \in 1 .. Len(calls[c])
  BY <1>1, LenProperties, InnermostProperties DEF Running, Innermost
<1>4. \A d \in Contexts : \A i \in 1 .. Len(calls[d]) : calls[d][i] = x => d = c /\ i = Len(calls[c])
  BY RunningOnce
<1> DEFINE Under(y, z) == \E d \in Contexts : \E i \in 1 .. Len(calls[d]) - 1 :
                            calls[d][i] = y /\ calls[d][i + 1] = z
           UnderNow(y, z) == \E d \in Contexts : \E i \in 1 .. Len(calls'[d]) - 1 :
                               calls'[d][i] = y /\ calls'[d][i + 1] = z
<1>5. ASSUME NEW y \in Exec, NEW z \in Exec, UnderNow(y, z)
      PROVE  z # x /\ Under(y, z)
  <2>0. PICK d \in Contexts : \E i \in 1 .. Len(calls'[d]) - 1 :
           calls'[d][i] = y /\ calls'[d][i + 1] = z
    BY <1>5
  <2>1. PICK i \in 1 .. Len(calls'[d]) - 1 : calls'[d][i] = y /\ calls'[d][i + 1] = z
    BY <2>0
  <2>2. i \in 1 .. Len(calls'[d]) /\ i + 1 \in 1 .. Len(calls'[d])
    BY <1>2, <2>1
  <2>3. calls[d][i] = y /\ calls[d][i + 1] = z /\ z # x /\ i \in 1 .. Len(calls[d]) - 1
    BY <1>2, <1>3, <2>1, <2>2
  <2> QED
    BY <2>3
<1>6. ASSUME NEW y \in Exec, NEW z \in Exec, Under(y, z)
      PROVE  \/ z # x /\ UnderNow(y, z)
             \/ z = x /\ calls'[c] # <<>> /\ y = Innermost(calls'[c])
  <2>0. PICK d \in Contexts : \E i \in 1 .. Len(calls[d]) - 1 :
           calls[d][i] = y /\ calls[d][i + 1] = z
    BY <1>6
  <2>1. PICK i \in 1 .. Len(calls[d]) - 1 : calls[d][i] = y /\ calls[d][i + 1] = z
    BY <2>0
  <2>2. i \in 1 .. Len(calls[d]) /\ i + 1 \in 1 .. Len(calls[d])
    BY <1>3, <2>1
  <2>3. CASE z = x
    <3>1. d = c /\ i + 1 = Len(calls[c])
      BY <1>4, <2>1, <2>2, <2>3
    <3>2. i = Len(calls'[c]) /\ i \in 1 .. Len(calls'[c]) /\ calls'[c][i] = y
      BY <1>2, <1>3, <2>1, <2>2, <3>1
    <3> QED
      BY <2>3, <3>2, EmptySeq DEF Innermost
  <2>4. CASE z # x
    <3>1. d = c => i + 1 # Len(calls[c])
      BY <1>3, <2>1, <2>4
    <3>2. i \in 1 .. Len(calls'[d]) - 1 /\ i \in 1 .. Len(calls'[d]) /\ i + 1 \in 1 .. Len(calls'[d])
      BY <1>2, <1>3, <2>1, <2>2, <3>1
    <3>3. calls'[d][i] = y /\ calls'[d][i + 1] = z
      BY <1>2, <2>1, <3>2
    <3> QED
      BY <2>4, <3>2, <3>3
  <2> QED
    BY <2>3, <2>4
<1>7. ASSUME calls'[c] # <<>>
      PROVE  Innermost(calls'[c]) \in Exec /\ Under(Innermost(calls'[c]), x)
  <2> DEFINE j == Len(calls'[c])
  <2>1. j \in 1 .. Len(calls'[c])
    BY <1>1, <1>7, InnermostProperties
  <2>2. j \in 1 .. Len(calls[c]) - 1 /\ j + 1 = Len(calls[c])
        /\ calls'[c][j] = calls[c][j] /\ calls'[c][j] \in Exec
    BY <1>2, <1>3, <2>1
  <2> HIDE DEF j
  <2>3. calls[c][j + 1] = x
    BY <1>3, <2>2
  <2>4. Under(calls'[c][j], x)
    BY <2>2, <2>3
  <2> QED
    BY <2>2, <2>4 DEF Innermost, j
<1>8. \A z : Caller(z) = {y \in Exec : Under(y, z)} /\ Caller(z)' = {y \in Exec : UnderNow(y, z)}
  BY DEF Caller
<1> HIDE DEF Under, UnderNow
<1> QED
  BY <1>1, <1>5, <1>6, <1>7, <1>8

-----------------------------------------------------------------------------
(* The steps.                                                              *)

(* A step that moves only x between phases gives the other units of work   *)
(* the status they had.                                                    *)
LEMMA OtherStatus ==
  ASSUME NEW x \in Exec, \A y \in Exec : y # x => pc'[y] = pc[y]
  PROVE  \A y \in Exec : y # x => Status(y)' = Status(y)
BY DEF Status

(* The same, for the whole of status.                                      *)
LEMMA StatusMove ==
  ASSUME NEW x \in Exec, \A y \in Exec : y # x => pc'[y] = pc[y], NEW next, Status(x)' = next
  PROVE  status' = [status EXCEPT ![x] = next]
BY OtherStatus DEF status

(* A step that leaves the calls alone leaves the callers alone.            *)
LEMMA SameCaller ==
  ASSUME UNCHANGED calls
  PROVE  caller' = caller
BY DEF caller, Caller

(* begin opens a unit of work (TrackedUnitOfWork.ts:8-11).                 *)
LEMMA BeginOpens ==
  ASSUME CallsInv, NEW c \in Contexts, NEW x \in Exec, Begin(c, x)
  PROVE  Contract!Open(x)
<1>1. /\ pc \in [Exec -> Phases] /\ calls \in [Contexts -> Seq(Exec)]
      /\ pc[x] = "idle" /\ pc' = [pc EXCEPT ![x] = "useCase"]
      /\ calls[c] # <<>> => InHandler(Innermost(calls[c]))
      /\ UNCHANGED <<touched, persisted>>
  BY DEF CallsInv, TypeOK, Begin, Goto, sourceVars, outputVars
<1>2. Status(x) = "new" /\ Status(x)' = "open"
  BY <1>1 DEF Status
<1>3. status' = [status EXCEPT ![x] = "open"]
  BY <1>1, <1>2, StatusMove
<1>4. CASE calls[c] = <<>>
  <2>1. caller' = caller
    BY <1>4, BeginCaller DEF caller
  <2> QED
    BY <1>1, <1>2, <1>3, <2>1 DEF Contract!Open, status, caller
<1>5. CASE calls[c] # <<>>
  <2> DEFINE y == Innermost(calls[c])
  <2>1. y \in Exec /\ Running(c, y)
    BY <1>5, InnermostCall DEF CallsInv
  <2>2. Status(y) = "open"
    BY <1>1, <1>5 DEF InHandler, Delivering, Status
  <2>3. Contract!Active(y)
    BY <2>1, InnermostIsActive
  <2>4. caller' = [caller EXCEPT ![x] = {y}]
    BY <1>5, BeginCaller DEF caller
  <2> HIDE DEF y
  <2>5. /\ y \in Exec /\ status[y] = "open" /\ Contract!Active(y)
        /\ caller' = [caller EXCEPT ![x] = {y}]
    BY <2>1, <2>2, <2>3, <2>4 DEF status
  <2> QED
    BY <1>1, <1>2, <1>3, <2>5 DEF Contract!Open, status, caller
<1> QED
  BY <1>4, <1>5

(* A failure of the use case, of a handler, of the store or of onCommit    *)
(* dooms the unit of work (ApplicationService.ts:48-50).                   *)
LEMMA ThrowFails ==
  ASSUME CallsInv, NEW c \in Contexts, NEW x \in Exec,
         \/ UseCaseThrows(c, x) \/ HandlerThrows(c, x)
         \/ SaveAllThrows(c, x) \/ CommitThrows(c, x)
  PROVE  Contract!Fail(x)
<1>1. /\ pc \in [Exec -> Phases] /\ Running(c, x)
      /\ pc[x] \in {"useCase", "dispatch", "publish", "store", "flush"}
      /\ pc' = [pc EXCEPT ![x] = "rollback"]
      /\ UNCHANGED <<calls, touched, persisted>>
  BY DEF CallsInv, TypeOK, UseCaseThrows, HandlerThrows, SaveAllThrows, CommitThrows, At,
         InHandler, Delivering, Goto, sourceVars, outputVars
<1>2. Status(x) \in {"open", "handed"} /\ Status(x)' = "doomed"
  BY <1>1 DEF Status
<1>3. status' = [status EXCEPT ![x] = "doomed"] /\ caller' = caller
  BY <1>1, <1>2, StatusMove, SameCaller
<1>4. Contract!Active(x)
  BY <1>1, InnermostIsActive
<1> QED
  BY <1>1, <1>2, <1>3, <1>4 DEF Contract!Fail, status, caller

(* commit hands over what the unit of work touched, by way of the innermost*)
(* scope (TrackedUnitOfWork.ts:13-24).                                     *)
LEMMA CommitHandsOver ==
  ASSUME OwnershipInv, CallsInv, NEW c \in Contexts, NEW x \in Exec, Commit(c, x)
  PROVE  Contract!HandOver(x)
<1>1. /\ pc \in [Exec -> Phases] /\ Running(c, x) /\ pc[x] = "commit"
      /\ pc' = [pc EXCEPT ![x] = "flush"]
      /\ persisted' = [persisted EXCEPT ![x] = PeekScope(scopes[c]) \cap Aggregates]
      /\ UNCHANGED <<calls, touched>>
  BY DEF CallsInv, TypeOK, Commit, At, Goto, DrainedSources, sourceVars
<1>2. PeekScope(scopes[c]) = touched[x]
  BY <1>1, OwnScope DEF PeekScope
<1>3. Status(x) = "open" /\ Status(x)' = "handed"
  BY <1>1 DEF Status
<1>4. status' = [status EXCEPT ![x] = "handed"] /\ caller' = caller
  BY <1>1, <1>3, StatusMove, SameCaller
<1>5. Contract!Active(x)
  BY <1>1, InnermostIsActive
<1> QED
  BY <1>1, <1>2, <1>3, <1>4, <1>5 DEF Contract!HandOver, status, caller

(* onCommit resolved: the unit of work has committed.                      *)
LEMMA ReturnCommits ==
  ASSUME CallsInv, NEW c \in Contexts, NEW x \in Exec, CommitReturns(c, x)
  PROVE  Contract!Commit(x)
<1>1. /\ pc \in [Exec -> Phases] /\ Running(c, x) /\ pc[x] = "flush"
      /\ pc' = [pc EXCEPT ![x] = "returned"]
      /\ calls' = [calls EXCEPT ![c] = Pop(@)]
      /\ UNCHANGED <<touched, persisted>>
  BY DEF CallsInv, TypeOK, CommitReturns, At, Goto, sourceVars, outputVars
<1>2. Status(x) = "handed" /\ Status(x)' = "committed"
  BY <1>1 DEF Status
<1>3. status' = [status EXCEPT ![x] = "committed"]
  BY <1>1, <1>2, StatusMove
<1>4. (\A y \in Exec : y # x => Caller(y)' = Caller(y)) /\ Caller(x)' = {}
  BY <1>1, LeaveCaller
<1>5. caller' = [caller EXCEPT ![x] = {}]
  BY <1>4 DEF caller
<1> QED
  BY <1>1, <1>2, <1>3, <1>5 DEF Contract!Commit, status, caller

(* The rollback aborts the unit of work, and the rethrown error dooms the  *)
(* one that called it (ApplicationService.ts:48-51).                       *)
LEMMA RollbackAborts ==
  ASSUME ~CatchingSubscribers, CallsInv, NEW c \in Contexts, NEW x \in Exec, Rollback(c, x)
  PROVE  Contract!Abort(x)
<1>1. /\ pc \in [Exec -> Phases] /\ calls \in [Contexts -> Seq(Exec)]
      /\ Running(c, x) /\ pc[x] = "rollback" /\ Rethrow(c, x)
      /\ calls' = [calls EXCEPT ![c] = Pop(@)]
      /\ UNCHANGED <<touched, persisted>>
  BY DEF CallsInv, TypeOK, Rollback, At, sourceVars, outputVars
<1> DEFINE callers == Pop(calls[c])
<1>2. /\ \A y \in Exec : y # x => Caller(y)' = Caller(y)
      /\ Caller(x)' = {}
      /\ Caller(x) = IF callers = <<>> THEN {} ELSE {Innermost(callers)}
  BY <1>1, LeaveCaller
<1>3. callers # <<>> => Innermost(callers) \in Exec /\ Innermost(callers) # x
  <2>1. calls'[c] = callers
    BY <1>1
  <2> QED
    BY <1>1, <2>1, CallerDelivers
<1>4. pc' = IF callers = <<>> THEN [pc EXCEPT ![x] = "threw"]
            ELSE [pc EXCEPT ![x] = "threw", ![Innermost(callers)] = "rollback"]
  BY <1>1 DEF Rethrow, Goto
<1> HIDE DEF callers
<1>5. \A y \in Exec : pc'[y] = IF y = x THEN "threw"
                              ELSE IF y \in Caller(x) THEN "rollback"
                              ELSE pc[y]
  BY <1>1, <1>2, <1>3, <1>4
<1>6. \A y \in Exec : Status(y)' = IF y = x THEN "aborted"
                                  ELSE IF y \in Caller(x) THEN "doomed"
                                  ELSE Status(y)
  BY <1>5 DEF Status
<1>7. status' = [y \in Exec |-> IF y = x THEN "aborted"
                               ELSE IF y \in caller[x] THEN "doomed"
                               ELSE status[y]]
  BY <1>6 DEF status, caller
<1>8. caller' = [caller EXCEPT ![x] = {}]
  BY <1>2 DEF caller
<1>9. Status(x) = "doomed"
  BY <1>1 DEF Status
<1> QED
  BY <1>1, <1>7, <1>8, <1>9 DEF Contract!Abort, status, caller

(* An event registered on a source is a touch of the unit of work that is  *)
(* running (AggregateRoot.ts:21-31, EventEmittingAdapter.ts:28-38).        *)
LEMMA EmitTouches ==
  ASSUME CallsInv, NEW c \in Contexts, NEW x \in Exec, NEW s \in Sources, NEW e \in Events,
         Emit(c, x, s, e)
  PROVE  Contract!Touch(x, s)
<1>1. /\ Running(c, x) /\ pc[x] \in {"useCase", "dispatch", "publish"}
      /\ touched' = [touched EXCEPT ![x] = @ \cup {s}]
      /\ UNCHANGED <<pc, calls, persisted>>
  BY EmittingAssumption DEF Emit, outputVars
<1>2. Status(x) = "open"
  BY <1>1 DEF Status
<1>3. status' = status /\ caller' = caller
  BY <1>1, SameCaller DEF status, Status
<1>4. Contract!Active(x)
  BY <1>1, InnermostIsActive
<1> QED
  BY <1>1, <1>2, <1>3, <1>4 DEF Contract!Touch, status, caller

(* The other segments of execute are steps of no unit of work.             *)
LEMMA QuietSteps ==
  ASSUME CallsInv, NEW c \in Contexts, NEW x \in Exec,
         \/ UseCaseReturns(c, x) \/ DispatchDone(c, x) \/ PublishDone(c, x) \/ SaveAll(c, x)
         \/ \E e \in Events : DispatchEvent(c, x, e) \/ PublishEvent(c, x, e)
  PROVE  UNCHANGED Contract!vars
<1>1. /\ pc \in [Exec -> Phases] /\ UNCHANGED <<calls, touched, persisted>>
      /\ pc[x] \in {"useCase", "dispatch", "publish", "store"}
      /\ pc'[x] \in {"dispatch", "publish", "store", "commit"}
      /\ \A y \in Exec : y # x => pc'[y] = pc[y]
  BY DEF CallsInv, TypeOK, UseCaseReturns, DispatchDone, PublishDone, SaveAll, DispatchEvent,
         PublishEvent, At, Goto, sourceVars, outputVars
<1>2. Status(x) = "open" /\ Status(x)' = "open"
  BY <1>1 DEF Status
<1>3. status' = [status EXCEPT ![x] = "open"]
  BY <1>1, <1>2, StatusMove
<1>4. status' = status
  BY <1>2, <1>3 DEF status
<1>5. caller' = caller
  BY <1>1, SameCaller
<1> QED
  BY <1>1, <1>4, <1>5 DEF Contract!vars, status, caller

(* Every step of ApplicationService is a step of UnitOfWork or a stutter.  *)
LEMMA StepImplements ==
  ASSUME ~CatchingSubscribers, OwnershipInv, [Next]_vars
  PROVE  [Contract!Next]_(Contract!vars)
<1>0. CallsInv
  BY DEF OwnershipInv, NestingInv, CallsInv
<1>1. ASSUME NEW x \in Exec, NEW c \in Contexts, Begin(c, x)
      PROVE  Contract!Next
  BY <1>0, <1>1, BeginOpens DEF Contract!Next
<1>2. ASSUME NEW x \in Exec, NEW c \in Contexts, NEW s \in Sources, NEW e \in Events,
             Emit(c, x, s, e)
      PROVE  Contract!Next
  BY <1>0, <1>2, EmitTouches DEF Contract!Next
<1>3. ASSUME NEW x \in Exec, NEW c \in Contexts,
             \/ UseCaseThrows(c, x) \/ HandlerThrows(c, x)
             \/ SaveAllThrows(c, x) \/ CommitThrows(c, x)
      PROVE  Contract!Next
  BY <1>0, <1>3, ThrowFails DEF Contract!Next
<1>4. ASSUME NEW x \in Exec, NEW c \in Contexts, Commit(c, x)
      PROVE  Contract!Next
  BY <1>0, <1>4, CommitHandsOver DEF Contract!Next
<1>5. ASSUME NEW x \in Exec, NEW c \in Contexts, CommitReturns(c, x)
      PROVE  Contract!Next
  BY <1>0, <1>5, ReturnCommits DEF Contract!Next
<1>6. ASSUME NEW x \in Exec, NEW c \in Contexts, Rollback(c, x)
      PROVE  Contract!Next
  BY <1>0, <1>6, RollbackAborts DEF Contract!Next
<1>7. ASSUME NEW x \in Exec, NEW c \in Contexts,
             \/ UseCaseReturns(c, x) \/ DispatchDone(c, x) \/ PublishDone(c, x) \/ SaveAll(c, x)
             \/ \E e \in Events : DispatchEvent(c, x, e) \/ PublishEvent(c, x, e)
      PROVE  UNCHANGED Contract!vars
  BY <1>0, <1>7, QuietSteps
<1>8. CASE UNCHANGED vars
  BY <1>8 DEF vars, sourceVars, outputVars, Contract!vars, Status, Caller
<1> QED
  BY <1>1, <1>2, <1>3, <1>4, <1>5, <1>6, <1>7, <1>8 DEF Next, Advance, Finished

(* The stack of scopes in the storage of an async context, the tracked flag*)
(* of the sources and the segments of execute implement a unit of work     *)
(* with a private set of sources: it opens under its caller, hands over    *)
(* what it touched, commits, or aborts and dooms its caller                *)
(* (TrackedUnitOfWork.ts:8-29, AggregateTracker.ts:14-56).  Instances that *)
(* executions share, and handlers that swallow errors, are left out.       *)
THEOREM UnitOfWorkImplemented ==
  ASSUME ~CatchingSubscribers, Retained = {}
  PROVE  Spec => ImplementsUnitOfWork
<1>1. Init => Contract!Init
  <2> SUFFICES ASSUME Init PROVE Contract!Init
    OBVIOUS
  <2>1. \A x \in Exec : Status(x) = "new"
    BY DEF Init, Status
  <2>2. \A x \in Exec : Caller(x) = {}
    <3>1. \A c \in Contexts : Len(calls[c]) = 0
      BY EmptySeq DEF Init
    <3> QED
      BY <3>1 DEF Caller
  <2> QED
    BY <2>1, <2>2 DEF Init, Contract!Init
<1>2. OwnershipInv /\ [Next]_vars => [Contract!Next]_(Contract!vars)
  BY StepImplements
<1>3. Spec => []OwnershipInv
  BY ScopesBelongToCalls
<1> QED
  BY <1>1, <1>2, <1>3, PTL DEF Spec, ImplementsUnitOfWork, Contract!Spec

-----------------------------------------------------------------------------
(* The nesting of the calls.                                               *)

(* The phases an execution that runs moves to without leaving its context. *)
OpenPhases == {"dispatch", "publish", "store", "commit", "flush", "rollback"}

(* Every step keeps the calls of the contexts nested.                      *)
LEMMA CallsStep ==
  ASSUME CallsInv, [Next]_vars
  PROVE  CallsInv'
<1>0. TypeOK /\ CallsNest /\ CallsDistinct
  BY DEF CallsInv
<1>1. TypeOK'
  BY <1>0, TypeStep
<1>2. pc \in [Exec -> Phases] /\ calls \in [Contexts -> Seq(Exec)]
  BY <1>0 DEF TypeOK
<1> SUFFICES CallsNest' /\ CallsDistinct'
  BY <1>1 DEF CallsInv
<1>3. ASSUME NEW x \in Exec, NEW c \in Contexts, Begin(c, x)
      PROVE  CallsNest' /\ CallsDistinct'
  BY <1>3, BeginCalls
<1>4. ASSUME NEW x \in Exec, NEW c \in Contexts,
             \/ UseCaseReturns(c, x) \/ UseCaseThrows(c, x) \/ DispatchDone(c, x)
             \/ PublishDone(c, x) \/ HandlerThrows(c, x) \/ SaveAll(c, x)
             \/ SaveAllThrows(c, x) \/ Commit(c, x) \/ CommitThrows(c, x)
      PROVE  CallsNest' /\ CallsDistinct'
  <2>1. PICK phase \in OpenPhases : pc' = [pc EXCEPT ![x] = phase]
    BY <1>4 DEF UseCaseReturns, UseCaseThrows, DispatchDone, PublishDone, HandlerThrows,
                SaveAll, SaveAllThrows, Commit, CommitThrows, Goto, OpenPhases
  <2>2. phase \in Phases \ ({"idle"} \cup Ended)
    BY DEF OpenPhases, Phases, Delivering, Ended
  <2>3. Running(c, x) /\ UNCHANGED calls
    BY <1>4 DEF UseCaseReturns, UseCaseThrows, DispatchDone, PublishDone, HandlerThrows,
                SaveAll, SaveAllThrows, Commit, CommitThrows, At
  <2> QED
    BY <2>1, <2>2, <2>3, LocalCalls
<1>5. ASSUME NEW x \in Exec, NEW c \in Contexts, CommitReturns(c, x)
      PROVE  CallsNest' /\ CallsDistinct'
  <2>1. /\ Running(c, x) /\ calls' = [calls EXCEPT ![c] = Pop(@)]
        /\ pc' = [pc EXCEPT ![x] = "returned"]
    BY <1>5 DEF CommitReturns, At, Goto
  <2>2. pc'[x] \in Ended /\ \A y \in Exec : y # x => pc'[y] = pc[y]
    BY <1>2, <2>1 DEF Ended
  <2> QED
    BY <1>1, <2>1, <2>2, LeaveCalls
<1>6. ASSUME NEW x \in Exec, NEW c \in Contexts, Rollback(c, x)
      PROVE  CallsNest' /\ CallsDistinct'
  <2>1. /\ Running(c, x) /\ calls' = [calls EXCEPT ![c] = Pop(@)] /\ Rethrow(c, x)
    BY <1>6 DEF Rollback, At
  <2>2. calls'[c] = Pop(calls[c])
    BY <1>2, <2>1
  <2>3. calls'[c] # <<>> => Innermost(calls'[c]) # x
    BY <2>1, CallerDelivers
  <2>4. pc'[x] \in Ended
    BY <1>2, <2>1, <2>2, <2>3 DEF Rethrow, Goto, Ended
  <2>5. \A y \in Exec : y # x =>
           \/ pc'[y] = pc[y]
           \/ calls'[c] # <<>> /\ y = Innermost(calls'[c]) /\ pc'[y] = "rollback"
    BY <1>2, <2>1, <2>2 DEF Rethrow, Goto
  <2> QED
    BY <1>1, <2>1, <2>4, <2>5, LeaveCalls
<1>7. CASE UNCHANGED <<pc, calls>>
  BY <1>0, <1>7 DEF CallsNest, CallsDistinct
<1>8. ASSUME NEW x \in Exec, NEW c \in Contexts, NEW e \in Events,
             \/ DispatchEvent(c, x, e) \/ PublishEvent(c, x, e)
             \/ \E s \in Sources : Emit(c, x, s, e)
      PROVE  CallsNest' /\ CallsDistinct'
  BY <1>7, <1>8 DEF DispatchEvent, PublishEvent, Emit
<1>9. CASE UNCHANGED vars
  BY <1>7, <1>9 DEF vars
<1> QED
  BY <1>3, <1>4, <1>5, <1>6, <1>8, <1>9 DEF Next, Advance, Finished

(* Nothing is called at first.                                             *)
LEMMA CallsInit ==
  ASSUME Init
  PROVE  CallsInv
BY OwnershipInit DEF OwnershipInv, NestingInv, CallsInv

-----------------------------------------------------------------------------
(* No scope is left behind.                                                *)

(* A context has at most as many scopes as calls, and fewer while its      *)
(* innermost execution awaits onCommit, its own being popped by then.      *)
ScopesWithinCalls ==
  \A c \in Contexts :
    /\ Len(scopes[c]) <= Len(calls[c])
    /\ calls[c] # <<>> /\ pc[Innermost(calls[c])] = "flush" => Len(scopes[c]) < Len(calls[c])

(* A step that pushes and pops nothing and awaits no onCommit.             *)
LEMMA SameScopes ==
  ASSUME ScopesWithinCalls, UNCHANGED calls,
         \A d \in Contexts : Len(scopes'[d]) = Len(scopes[d]),
         \A d \in Contexts : calls[d] # <<>> /\ pc'[Innermost(calls[d])] = "flush" =>
                              pc[Innermost(calls[d])] = "flush"
  PROVE  ScopesWithinCalls'
BY DEF ScopesWithinCalls, Innermost

(* Another context is not disturbed by what x does to its own.             *)
LEMMA OtherContext ==
  ASSUME CallsInv, ScopesWithinCalls, NEW c \in Contexts, NEW x \in Exec,
         Running(c, x) \/ pc[x] = "idle",
         NEW d \in Contexts, calls'[d] = calls[d], scopes'[d] = scopes[d], d # c,
         \A y \in Exec : y # x /\ pc'[y] = "flush" => pc[y] = "flush"
  PROVE  /\ Len(scopes'[d]) <= Len(calls'[d])
         /\ calls'[d] # <<>> /\ pc'[Innermost(calls'[d])] = "flush" =>
              Len(scopes'[d]) < Len(calls'[d])
<1>1. /\ Len(scopes[d]) <= Len(calls[d])
      /\ calls[d] # <<>> /\ pc[Innermost(calls[d])] = "flush" => Len(scopes[d]) < Len(calls[d])
  BY DEF ScopesWithinCalls
<1>2. ASSUME calls[d] # <<>>, pc'[Innermost(calls[d])] = "flush"
      PROVE  pc[Innermost(calls[d])] = "flush"
  <2>1. /\ Innermost(calls[d]) \in Exec
        /\ Len(calls[d]) \in 1 .. Len(calls[d]) /\ calls[d][Len(calls[d])] = Innermost(calls[d])
    BY <1>2, InnermostCall DEF CallsInv
  <2>2. CASE Running(c, x)
    <3>1. Innermost(calls[d]) # x
      BY <2>1, <2>2, RunningOnce
    <3> QED
      BY <1>2, <2>1, <3>1
  <2>3. CASE pc[x] = "idle"
    <3>1. pc[calls[d][Len(calls[d])]] # "idle"
      BY <2>1 DEF CallsInv, CallsNest
    <3> QED
      BY <1>2, <2>1, <2>3, <3>1
  <2> QED
    BY <2>2, <2>3
<1> QED
  BY <1>1, <1>2 DEF Innermost

(* Every step keeps a context from having more scopes than calls.          *)
LEMMA ScopesWithinStep ==
  ASSUME CallsInv, ScopesWithinCalls, [Next]_vars
  PROVE  ScopesWithinCalls'
<1>0. TypeOK /\ CallsInv'
  BY CallsStep DEF CallsInv
<1>1. TypeOK' /\ CallsNest
  BY <1>0 DEF CallsInv
<1>2. /\ pc \in [Exec -> Phases] /\ calls \in [Contexts -> Seq(Exec)]
      /\ scopes \in [Contexts -> Seq(SUBSET Sources)]
      /\ scopes' \in [Contexts -> Seq(SUBSET Sources)] /\ calls' \in [Contexts -> Seq(Exec)]
  BY <1>0, <1>1 DEF TypeOK
<1>3. \A d \in Contexts : /\ Len(scopes[d]) \in Nat /\ Len(calls[d]) \in Nat
                          /\ Len(scopes'[d]) \in Nat /\ Len(calls'[d]) \in Nat
                          /\ calls[d] # <<>> => Len(calls[d]) >= 1
                          /\ scopes[d] # <<>> => Len(scopes[d]) >= 1
                          /\ scopes[d] = <<>> => Len(scopes[d]) = 0
  BY <1>2, EmptySeq, LenProperties
<1>4. ASSUME NEW x \in Exec, NEW c \in Contexts, Begin(c, x)
      PROVE  ScopesWithinCalls'
  <2>1. /\ pc[x] = "idle" /\ pc' = [pc EXCEPT ![x] = "useCase"]
        /\ calls' = [calls EXCEPT ![c] = Append(@, x)]
        /\ scopes' = [scopes EXCEPT ![c] = BeginScope(@)]
    BY <1>4 DEF Begin, Goto
  <2>2. \A y \in Exec : y # x => pc'[y] = pc[y]
    BY <1>2, <2>1
  <2>3. /\ calls'[c] = Append(calls[c], x) /\ scopes'[c] = BeginScope(scopes[c])
        /\ calls[c] \in Seq(Exec) /\ scopes[c] \in Seq(SUBSET Sources)
    BY <1>2, <2>1
  <2>4. Len(calls'[c]) = Len(calls[c]) + 1 /\ calls'[c][Len(calls[c]) + 1] = x
    BY <2>3, AppendProperties
  <2>5. Len(scopes'[c]) = Len(scopes[c]) + 1
    BY <2>3, BeginScopeProperties
  <2>6. Innermost(calls'[c]) = x /\ pc'[x] # "flush"
    BY <1>2, <2>1, <2>4 DEF Innermost
  <2>7. Len(scopes[c]) <= Len(calls[c])
    BY DEF ScopesWithinCalls
  <2> SUFFICES ASSUME NEW d \in Contexts
               PROVE  /\ Len(scopes'[d]) <= Len(calls'[d])
                      /\ calls'[d] # <<>> /\ pc'[Innermost(calls'[d])] = "flush" =>
                           Len(scopes'[d]) < Len(calls'[d])
    BY DEF ScopesWithinCalls, Innermost
  <2>8. CASE d = c
    BY <1>3, <2>4, <2>5, <2>6, <2>7, <2>8
  <2>9. CASE d # c
    <3>1. calls'[d] = calls[d] /\ scopes'[d] = scopes[d]
      BY <1>2, <2>1, <2>9
    <3> QED
      BY <2>1, <2>2, <2>9, <3>1, OtherContext
  <2> QED
    BY <2>8, <2>9
<1>5. ASSUME NEW x \in Exec, NEW c \in Contexts, Commit(c, x)
      PROVE  ScopesWithinCalls'
  <2>1. /\ Running(c, x) /\ pc' = [pc EXCEPT ![x] = "flush"] /\ UNCHANGED calls
        /\ scopes' = [scopes EXCEPT ![c] = Pop(@)]
    BY <1>5 DEF Commit, At, Goto, DrainScope
  <2>2. \A y \in Exec : y # x => pc'[y] = pc[y]
    BY <1>2, <2>1
  <2>3. Len(scopes'[c]) < Len(calls[c])
    <3>1. scopes'[c] = Pop(scopes[c]) /\ scopes[c] \in Seq(SUBSET Sources)
      BY <1>2, <2>1
    <3>2. Len(scopes[c]) <= Len(calls[c]) /\ Len(calls[c]) >= 1
      BY <1>3, <2>1 DEF ScopesWithinCalls, Running
    <3>3. CASE scopes[c] = <<>>
      BY <1>3, <3>1, <3>2, <3>3, EmptySeq DEF Pop
    <3>4. CASE scopes[c] # <<>>
      <4>1. Len(Pop(scopes[c])) = Len(scopes[c]) - 1
        BY <3>1, <3>4, PopProperties
      <4> QED
        BY <1>3, <3>1, <3>2, <4>1
    <3> QED
      BY <3>3, <3>4
  <2> SUFFICES ASSUME NEW d \in Contexts
               PROVE  /\ Len(scopes'[d]) <= Len(calls'[d])
                      /\ calls'[d] # <<>> /\ pc'[Innermost(calls'[d])] = "flush" =>
                           Len(scopes'[d]) < Len(calls'[d])
    BY DEF ScopesWithinCalls, Innermost
  <2>4. CASE d = c
    BY <1>3, <2>1, <2>3, <2>4
  <2>5. CASE d # c
    <3>1. calls'[d] = calls[d] /\ scopes'[d] = scopes[d]
      BY <1>2, <2>1, <2>5
    <3> QED
      BY <2>1, <2>2, <2>5, <3>1, OtherContext
  <2> QED
    BY <2>4, <2>5
<1>6. ASSUME NEW x \in Exec, NEW c \in Contexts, CommitReturns(c, x) \/ Rollback(c, x)
      PROVE  ScopesWithinCalls'
  <2>1. Running(c, x) /\ calls' = [calls EXCEPT ![c] = Pop(@)]
    BY <1>6 DEF CommitReturns, Rollback, At
  <2>2. \A y \in Exec : pc'[y] = "flush" => pc[y] = "flush"
    BY <1>2, <1>6 DEF CommitReturns, Rollback, Rethrow, Goto
  <2>3. Len(calls'[c]) = Len(calls[c]) - 1
    <3>1. calls'[c] = Pop(calls[c]) /\ calls[c] \in Seq(Exec) /\ calls[c] # <<>>
      BY <1>2, <2>1 DEF Running
    <3> QED
      BY <3>1, PopProperties
  <2>4. Len(scopes'[c]) <= Len(calls'[c])
    <3>1. /\ Len(scopes[c]) <= Len(calls[c])
          /\ pc[x] = "flush" => Len(scopes[c]) < Len(calls[c])
      BY <2>1 DEF ScopesWithinCalls, Running
    <3>2. CASE CommitReturns(c, x)
      <4>1. scopes'[c] = scopes[c] /\ pc[x] = "flush"
        BY <3>2 DEF CommitReturns, At
      <4> QED
        BY <1>3, <2>3, <3>1, <4>1
    <3>3. CASE Rollback(c, x)
      <4>1. scopes'[c] = Pop(scopes[c]) /\ scopes[c] \in Seq(SUBSET Sources)
        BY <1>2, <3>3 DEF Rollback, ClearScope
      <4>2. CASE scopes[c] = <<>>
        BY <1>3, <2>3, <4>1, <4>2, EmptySeq DEF Pop
      <4>3. CASE scopes[c] # <<>>
        <5>1. Len(Pop(scopes[c])) = Len(scopes[c]) - 1
          BY <4>1, <4>3, PopProperties
        <5> QED
          BY <1>3, <2>3, <3>1, <4>1, <5>1
      <4> QED
        BY <4>2, <4>3
    <3> QED
      BY <1>6, <3>2, <3>3
  <2>5. calls'[c] # <<>> => pc'[Innermost(calls'[c])] # "flush"
    <3> SUFFICES ASSUME calls'[c] # <<>>
                 PROVE  pc'[Innermost(calls'[c])] # "flush"
      OBVIOUS
    <3>1. Innermost(calls'[c]) \in Exec /\ pc[Innermost(calls'[c])] \in Delivering
      BY <2>1, CallerDelivers
    <3> QED
      BY <2>2, <3>1 DEF Delivering
  <2> SUFFICES ASSUME NEW d \in Contexts
               PROVE  /\ Len(scopes'[d]) <= Len(calls'[d])
                      /\ calls'[d] # <<>> /\ pc'[Innermost(calls'[d])] = "flush" =>
                           Len(scopes'[d]) < Len(calls'[d])
    BY DEF ScopesWithinCalls, Innermost
  <2>6. CASE d = c
    BY <2>4, <2>5, <2>6
  <2>7. CASE d # c
    <3>1. calls'[d] = calls[d] /\ scopes'[d] = scopes[d]
      BY <1>2, <1>6, <2>7 DEF CommitReturns, Rollback
    <3> QED
      BY <2>1, <2>2, <2>7, <3>1, OtherContext
  <2> QED
    BY <2>6, <2>7
<1>7. ASSUME UNCHANGED calls,
             \A d \in Contexts : Len(scopes'[d]) = Len(scopes[d]),
             \A y \in Exec : pc'[y] = "flush" => pc[y] = "flush"
      PROVE  ScopesWithinCalls'
  <2>1. \A d \in Contexts : calls[d] # <<>> => Innermost(calls[d]) \in Exec
    BY <1>0, InnermostCall
  <2> QED
    BY <1>7, <2>1, SameScopes
<1>8. ASSUME NEW x \in Exec, NEW c \in Contexts,
             \/ UseCaseReturns(c, x) \/ UseCaseThrows(c, x) \/ DispatchDone(c, x)
             \/ PublishDone(c, x) \/ HandlerThrows(c, x) \/ SaveAll(c, x)
             \/ SaveAllThrows(c, x) \/ CommitThrows(c, x)
             \/ \E e \in Events : DispatchEvent(c, x, e) \/ PublishEvent(c, x, e)
      PROVE  ScopesWithinCalls'
  <2>1. UNCHANGED <<calls, scopes>>
    BY <1>8 DEF UseCaseReturns, UseCaseThrows, DispatchDone, PublishDone, HandlerThrows,
                SaveAll, SaveAllThrows, CommitThrows, DispatchEvent, PublishEvent
  <2>2. \A y \in Exec : pc'[y] = "flush" => pc[y] = "flush"
    BY <1>2, <1>8 DEF UseCaseReturns, UseCaseThrows, DispatchDone, PublishDone, HandlerThrows,
                SaveAll, SaveAllThrows, CommitThrows, DispatchEvent, PublishEvent, Goto
  <2> QED
    BY <1>7, <2>1, <2>2
<1>9. ASSUME NEW x \in Exec, NEW c \in Contexts, NEW s \in Sources, NEW e \in Events,
             Emit(c, x, s, e)
      PROVE  ScopesWithinCalls'
  <2>1. UNCHANGED <<pc, calls>>
    BY <1>9 DEF Emit
  <2>2. ASSUME NEW d \in Contexts PROVE Len(scopes'[d]) = Len(scopes[d])
    <3>1. scopes'[d] = scopes[d] \/ scopes'[d] = TrackIn(scopes[d], s)
      BY <1>2, <1>9 DEF Emit
    <3>2. scopes[d] \in Seq(SUBSET Sources)
      BY <1>2
    <3>3. Len(TrackIn(scopes[d], s)) = Len(scopes[d])
      BY <3>2, TrackInProperties
    <3> QED
      BY <3>1, <3>3
  <2> QED
    BY <1>7, <2>1, <2>2
<1>10. CASE UNCHANGED vars
  BY <1>7, <1>10 DEF vars
<1> QED
  BY <1>4, <1>5, <1>6, <1>8, <1>9, <1>10 DEF Next, Advance, Finished

(* A context in which nothing runs has no open scope, whoever swallowed    *)
(* which error before, and whichever instances are shared                  *)
(* (AggregateTracker.ts:14-21, TrackedUnitOfWork.ts:13-29).                *)
THEOREM NothingLeftOpen == Spec => []NoScopeLeft
<1> DEFINE Inv == CallsInv /\ ScopesWithinCalls
<1>1. Init => Inv
  <2> SUFFICES ASSUME Init PROVE Inv
    OBVIOUS
  <2>1. \A c \in Contexts : calls[c] = <<>> /\ Len(calls[c]) = 0 /\ Len(scopes[c]) = 0
    BY EmptySeq DEF Init
  <2> QED
    BY <2>1, CallsInit DEF ScopesWithinCalls
<1>2. Inv /\ [Next]_vars => Inv'
  BY CallsStep, ScopesWithinStep
<1>3. Inv => NoScopeLeft
  <2> SUFFICES ASSUME Inv, NEW c \in Contexts, calls[c] = <<>>
               PROVE  scopes[c] = <<>>
    BY DEF NoScopeLeft
  <2>1. scopes[c] \in Seq(SUBSET Sources) /\ Len(scopes[c]) \in Nat /\ Len(calls[c]) = 0
    BY EmptySeq, LenProperties DEF CallsInv, TypeOK
  <2>2. Len(scopes[c]) = 0
    BY <2>1 DEF ScopesWithinCalls
  <2> QED
    BY <2>1, <2>2, EmptySeq
<1> QED
  BY <1>1, <1>2, <1>3, PTL DEF Spec

-----------------------------------------------------------------------------
(* An event is in one place.                                               *)

Emitted == UNION {emitted[x] : x \in Exec}

(* The lists of the sources and those the executions collected hold the    *)
(* emitted events between them, each in one list; nothing is collected     *)
(* before the use case has resolved.                                       *)
EventsPartitioned ==
  /\ \A e \in Emitted : \/ \E s \in Sources : e \in domainEvents[s]
                        \/ \E x \in Exec : e \in events[x]
  /\ \A s \in Sources : domainEvents[s] \subseteq Emitted
  /\ \A x \in Exec : events[x] \subseteq Emitted
  /\ \A e \in Emitted : \A s, t \in Sources :
       e \in domainEvents[s] /\ e \in domainEvents[t] => s = t
  /\ \A e \in Emitted : \A x, y \in Exec : e \in events[x] /\ e \in events[y] => x = y
  /\ \A e \in Emitted : \A s \in Sources, x \in Exec :
       ~(e \in domainEvents[s] /\ e \in events[x])
  /\ \A x \in Exec : pc[x] \in {"idle", "useCase"} => events[x] = {}

(* Every step moves whole lists and copies none.                           *)
LEMMA PartitionStep ==
  ASSUME TypeOK, EventsPartitioned, [Next]_vars
  PROVE  EventsPartitioned'
<1>1. /\ pc \in [Exec -> Phases] /\ scopes \in [Contexts -> Seq(SUBSET Sources)]
      /\ domainEvents \in [Sources -> SUBSET Events]
      /\ emitted \in [Exec -> SUBSET Events] /\ events \in [Exec -> SUBSET Events]
  BY DEF TypeOK
<1>2. ASSUME UNCHANGED <<domainEvents, emitted, events>>,
             \A y \in Exec : pc'[y] \in {"idle", "useCase"} => pc[y] \in {"idle", "useCase"}
      PROVE  EventsPartitioned'
  <2>1. Emitted' = Emitted
    BY <1>2 DEF Emitted
  <2> QED
    BY <1>2, <2>1 DEF EventsPartitioned
<1>3. ASSUME NEW x \in Exec, NEW c \in Contexts,
             \/ Begin(c, x) \/ UseCaseThrows(c, x) \/ DispatchDone(c, x)
             \/ PublishDone(c, x) \/ HandlerThrows(c, x) \/ SaveAll(c, x)
             \/ SaveAllThrows(c, x) \/ Commit(c, x) \/ CommitReturns(c, x) \/ CommitThrows(c, x)
             \/ \E e \in Events : DispatchEvent(c, x, e) \/ PublishEvent(c, x, e)
      PROVE  EventsPartitioned'
  <2>1. UNCHANGED <<domainEvents, emitted, events>>
    BY <1>3 DEF Begin, UseCaseThrows, DispatchDone, PublishDone, HandlerThrows, SaveAll,
                SaveAllThrows, Commit, CommitReturns, CommitThrows, DispatchEvent,
                PublishEvent, sourceVars
  <2>2. \A y \in Exec : pc'[y] \in {"idle", "useCase"} => pc[y] \in {"idle", "useCase"}
    BY <1>1, <1>3 DEF Begin, UseCaseThrows, DispatchDone, PublishDone, HandlerThrows, SaveAll,
                SaveAllThrows, Commit, CommitReturns, CommitThrows, DispatchEvent,
                PublishEvent, Goto
  <2> QED
    BY <1>2, <2>1, <2>2
<1>4. ASSUME NEW x \in Exec, NEW c \in Contexts, Rollback(c, x)
      PROVE  EventsPartitioned'
  <2>1. UNCHANGED <<domainEvents, emitted, events>>
    BY <1>4 DEF Rollback, sourceVars
  <2>2. \A y \in Exec : pc'[y] \in {"idle", "useCase"} => pc[y] \in {"idle", "useCase"}
    BY <1>1, <1>4 DEF Rollback, Rethrow, Goto
  <2> QED
    BY <1>2, <2>1, <2>2
<1>5. ASSUME NEW x \in Exec, NEW c \in Contexts, NEW s \in Sources, NEW e \in Events,
             Emit(c, x, s, e)
      PROVE  EventsPartitioned'
  <2>1. /\ \A y \in Exec : e \notin emitted[y]
        /\ domainEvents' = [domainEvents EXCEPT ![s] = @ \cup {e}]
        /\ emitted' = [emitted EXCEPT ![x] = @ \cup {e}]
        /\ UNCHANGED <<pc, events>>
    BY <1>5 DEF Emit
  <2>2. e \notin Emitted /\ Emitted' = Emitted \cup {e}
    BY <1>1, <2>1 DEF Emitted
  <2>3. \A t \in Sources : domainEvents'[t] = IF t = s THEN domainEvents[t] \cup {e}
                                              ELSE domainEvents[t]
    BY <1>1, <2>1
  <2>4. /\ \A t \in Sources : e \notin domainEvents[t]
        /\ \A y \in Exec : e \notin events[y]
    BY <2>2 DEF EventsPartitioned
  <2>5. \A f \in Emitted' : \/ \E t \in Sources : f \in domainEvents'[t]
                            \/ \E y \in Exec : f \in events[y]
    BY <2>2, <2>3 DEF EventsPartitioned
  <2>6. /\ \A t \in Sources : domainEvents'[t] \subseteq Emitted'
        /\ \A y \in Exec : events[y] \subseteq Emitted'
    BY <2>2, <2>3 DEF EventsPartitioned
  <2>7. \A f \in Emitted' : \A t, u \in Sources :
           f \in domainEvents'[t] /\ f \in domainEvents'[u] => t = u
    <3> SUFFICES ASSUME NEW f \in Emitted', NEW t \in Sources, NEW u \in Sources,
                        f \in domainEvents'[t], f \in domainEvents'[u]
                 PROVE  t = u
      OBVIOUS
    <3>1. CASE f = e
      BY <2>3, <2>4, <3>1
    <3>2. CASE f # e
      <4>1. f \in Emitted
        BY <2>2, <3>2
      <4>2. f \in domainEvents[t]
        BY <2>3, <3>2
      <4>3. f \in domainEvents[u]
        BY <2>3, <3>2
      <4> QED
        BY <4>1, <4>2, <4>3 DEF EventsPartitioned
    <3> QED
      BY <3>1, <3>2
  <2>8. \A f \in Emitted' : \A y, z \in Exec : f \in events[y] /\ f \in events[z] => y = z
    BY <2>2, <2>4 DEF EventsPartitioned
  <2>9. \A f \in Emitted' : \A t \in Sources, y \in Exec :
           ~(f \in domainEvents'[t] /\ f \in events[y])
    <3> SUFFICES ASSUME NEW f \in Emitted', NEW t \in Sources, NEW y \in Exec,
                        f \in domainEvents'[t], f \in events[y]
                 PROVE  FALSE
      OBVIOUS
    <3>1. f # e
      BY <2>4
    <3>2. f \in Emitted /\ f \in domainEvents[t]
      BY <2>2, <2>3, <3>1
    <3> QED
      BY <3>2 DEF EventsPartitioned
  <2> QED
    BY <2>1, <2>5, <2>6, <2>7, <2>8, <2>9 DEF EventsPartitioned
<1>6. ASSUME NEW x \in Exec, NEW c \in Contexts, UseCaseReturns(c, x)
      PROVE  EventsPartitioned'
  <2> DEFINE drained == PeekScope(scopes[c])
             collected == UNION {domainEvents[s] : s \in drained}
  <2>1. /\ DrainDomainEvents(drained)
        /\ events' = [events EXCEPT ![x] = collected]
        /\ pc[x] = "useCase" /\ pc' = [pc EXCEPT ![x] = "dispatch"]
        /\ UNCHANGED emitted
    BY <1>6 DEF UseCaseReturns, At, Goto
  <2>2. drained \in SUBSET Sources
    BY <1>1, PeekScopeType
  <2>3. \A e : e \in collected <=> \E s \in drained : e \in domainEvents[s]
    OBVIOUS
  <2> HIDE DEF collected, drained
  <2>4. Emitted' = Emitted
    BY <2>1 DEF Emitted
  <2>5. \A s \in Sources : domainEvents'[s] = IF s \in drained THEN {} ELSE domainEvents[s]
    BY <2>1 DEF DrainDomainEvents
  <2>6. \A y \in Exec : events'[y] = IF y = x THEN collected ELSE events[y]
    BY <1>1, <2>1
  <2>7. events[x] = {}
    BY <2>1 DEF EventsPartitioned
  <2>8. collected \subseteq Emitted
    BY <2>2, <2>3 DEF EventsPartitioned
  <2>9. \A e \in Emitted : \/ \E s \in Sources : e \in domainEvents'[s]
                          \/ \E y \in Exec : e \in events'[y]
    <3> SUFFICES ASSUME NEW e \in Emitted, \A y \in Exec : e \notin events'[y]
                 PROVE  \E s \in Sources : e \in domainEvents'[s]
      OBVIOUS
    <3>1. e \notin collected /\ \A y \in Exec : e \notin events[y]
      BY <2>6, <2>7
    <3>2. PICK s \in Sources : e \in domainEvents[s]
      BY <3>1 DEF EventsPartitioned
    <3> QED
      BY <2>3, <2>5, <3>1, <3>2
  <2>10. /\ \A s \in Sources : domainEvents'[s] \subseteq Emitted
         /\ \A y \in Exec : events'[y] \subseteq Emitted
    BY <2>5, <2>6, <2>8 DEF EventsPartitioned
  <2>11. \A e \in Emitted : \A s, t \in Sources :
            e \in domainEvents'[s] /\ e \in domainEvents'[t] => s = t
    BY <2>5 DEF EventsPartitioned
  <2>12. \A e \in Emitted : \A y, z \in Exec : e \in events'[y] /\ e \in events'[z] => y = z
    BY <2>2, <2>3, <2>6, <2>7 DEF EventsPartitioned
  <2>13. \A e \in Emitted : \A s \in Sources, y \in Exec :
            ~(e \in domainEvents'[s] /\ e \in events'[y])
    BY <2>2, <2>3, <2>5, <2>6 DEF EventsPartitioned
  <2>14. \A y \in Exec : pc'[y] \in {"idle", "useCase"} => events'[y] = {}
    BY <1>1, <2>1, <2>6 DEF EventsPartitioned
  <2> QED
    BY <2>4, <2>9, <2>10, <2>11, <2>12, <2>13, <2>14 DEF EventsPartitioned
<1>7. CASE UNCHANGED vars
  BY <1>2, <1>7 DEF vars, sourceVars
<1> QED
  BY <1>3, <1>4, <1>5, <1>6, <1>7 DEF Next, Advance, Finished

(* At any time an event that was emitted is in the list of one source or   *)
(* has been collected by one execution: none is lost, or drained by two,   *)
(* also when executions share a source and swallow errors                  *)
(* (ApplicationService.ts:36-37, AggregateRoot.ts:34-39,                   *)
(* EventEmittingAdapter.ts:21-26).                                         *)
THEOREM EventsInOnePlace == Spec => []EventInOnePlace
<1>1. Init => TypeOK /\ EventsPartitioned
  <2> SUFFICES ASSUME Init PROVE TypeOK /\ EventsPartitioned
    OBVIOUS
  <2>1. Emitted = {}
    BY DEF Init, Emitted
  <2> QED
    BY <2>1, CallsInit DEF CallsInv, Init, EventsPartitioned
<1>2. TypeOK /\ EventsPartitioned /\ [Next]_vars => (TypeOK /\ EventsPartitioned)'
  BY TypeStep, PartitionStep
<1>3. TypeOK /\ EventsPartitioned => EventInOnePlace
  <2> SUFFICES ASSUME TypeOK, EventsPartitioned, NEW e \in Emitted
               PROVE  Cardinality({s \in Sources : e \in domainEvents[s]})
                        + Cardinality({x \in Exec : e \in events[x]}) = 1
    BY DEF EventInOnePlace, Emitted
  <2> DEFINE inSources == {s \in Sources : e \in domainEvents[s]}
             inExecs == {x \in Exec : e \in events[x]}
  <2>1. CASE \E s \in Sources : e \in domainEvents[s]
    <3>1. PICK s \in Sources : e \in domainEvents[s]
      BY <2>1
    <3>2. inSources = {s} /\ inExecs = {}
      BY <3>1 DEF EventsPartitioned
    <3> HIDE DEF inSources, inExecs
    <3>3. Cardinality(inSources) = 1 /\ Cardinality(inExecs) = 0
      BY <3>2, FS_Singleton, FS_EmptySet
    <3> QED
      BY <3>3 DEF inSources, inExecs
  <2>2. CASE \E x \in Exec : e \in events[x]
    <3>1. PICK x \in Exec : e \in events[x]
      BY <2>2
    <3>2. inSources = {} /\ inExecs = {x}
      BY <3>1 DEF EventsPartitioned
    <3> HIDE DEF inSources, inExecs
    <3>3. Cardinality(inSources) = 0 /\ Cardinality(inExecs) = 1
      BY <3>2, FS_Singleton, FS_EmptySet
    <3> QED
      BY <3>3 DEF inSources, inExecs
  <2> QED
    BY <2>1, <2>2 DEF EventsPartitioned
<1> QED
  BY <1>1, <1>2, <1>3, PTL DEF Spec

-----------------------------------------------------------------------------
(* An execution that returned has delivered what it emitted.               *)

(* While a use case runs, the innermost scope of its context is its own.   *)
UseCaseHasScope ==
  \A c \in Contexts : calls[c] # <<>> /\ pc[Innermost(calls[c])] = "useCase" =>
    scopes[c] # <<>> /\ Innermost(scopes[c]) = touched[Innermost(calls[c])]

AfterUseCase == {"dispatch", "publish", "store", "commit", "flush", "returned"}
AfterPublish == {"store", "commit", "flush", "returned"}
AfterStore == {"commit", "flush", "returned"}

(* Where the events of an execution are, phase by phase.                   *)
Follows(x) ==
  /\ pc[x] = "idle" => emitted[x] = {}
  /\ pc[x] = "useCase" => \A e \in emitted[x] : \E s \in touched[x] : e \in domainEvents[s]
  /\ pc[x] \in AfterUseCase => /\ emitted[x] \subseteq events[x]
                              /\ \A s \in touched[x] : domainEvents[s] = {}
  /\ pc[x] = "publish" => events[x] \subseteq published \cup todo[x]
  /\ pc[x] \in AfterPublish => events[x] \subseteq published
  /\ pc[x] \in AfterStore => events[x] \subseteq stored

EventsFollowPhases == \A x \in Exec : Follows(x)

DeliveryInv == CallsInv /\ SourcesOwned /\ UseCaseHasScope /\ EventsFollowPhases

(* An execution follows its phases while others, or its failure, move on.  *)
LEMMA StillFollows ==
  ASSUME NEW y \in Exec, Follows(y),
         pc'[y] = pc[y] \/ pc'[y] \in {"rollback", "threw"},
         emitted'[y] = emitted[y], touched'[y] = touched[y], events'[y] = events[y],
         pc[y] = "publish" => todo'[y] = todo[y],
         \A s \in touched[y] : domainEvents'[s] = domainEvents[s],
         published \subseteq published', stored \subseteq stored'
  PROVE  Follows(y)'
<1>1. CASE pc'[y] \in {"rollback", "threw"}
  BY <1>1 DEF Follows, AfterUseCase, AfterPublish, AfterStore
<1>2. CASE pc'[y] = pc[y]
  BY <1>2 DEF Follows
<1> QED
  BY <1>1, <1>2

(* Sources stay with the execution that touched them first, when none is   *)
(* retained.                                                               *)
LEMMA OwnedStep ==
  ASSUME Retained = {}, EmittingPhases = {"useCase"}, TypeOK, SourcesOwned, [Next]_vars
  PROVE  SourcesOwned'
<1>1. /\ pc \in [Exec -> Phases] /\ touched \in [Exec -> SUBSET Sources]
      /\ tracked \in [Sources -> BOOLEAN]
  BY DEF TypeOK
<1>2. ASSUME UNCHANGED touched,
             \A s \in Sources : tracked'[s] => tracked[s],
             \A y \in Exec : pc'[y] = "idle" => pc[y] = "idle"
      PROVE  SourcesOwned'
  BY <1>2 DEF SourcesOwned
<1>3. ASSUME NEW x \in Exec, NEW c \in Contexts, UseCaseReturns(c, x)
      PROVE  SourcesOwned'
  <2>1. \A s \in Sources : tracked'[s] => tracked[s]
    BY <1>3 DEF UseCaseReturns, DrainDomainEvents
  <2>2. UNCHANGED touched /\ \A y \in Exec : pc'[y] = "idle" => pc[y] = "idle"
    BY <1>1, <1>3 DEF UseCaseReturns, Goto
  <2> QED
    BY <1>2, <2>1, <2>2
<1>4. ASSUME NEW x \in Exec, NEW c \in Contexts,
             \/ Begin(c, x) \/ UseCaseThrows(c, x) \/ DispatchDone(c, x)
             \/ PublishDone(c, x) \/ HandlerThrows(c, x) \/ SaveAll(c, x)
             \/ SaveAllThrows(c, x) \/ Commit(c, x) \/ CommitReturns(c, x) \/ CommitThrows(c, x)
             \/ \E e \in Events : DispatchEvent(c, x, e) \/ PublishEvent(c, x, e)
      PROVE  SourcesOwned'
  <2>1. UNCHANGED <<touched, tracked>>
    BY <1>4 DEF Begin, UseCaseThrows, DispatchDone, PublishDone, HandlerThrows, SaveAll,
                SaveAllThrows, Commit, CommitReturns, CommitThrows, DispatchEvent,
                PublishEvent, sourceVars
  <2>2. \A y \in Exec : pc'[y] = "idle" => pc[y] = "idle"
    BY <1>1, <1>4 DEF Begin, UseCaseThrows, DispatchDone, PublishDone, HandlerThrows, SaveAll,
                SaveAllThrows, Commit, CommitReturns, CommitThrows, DispatchEvent,
                PublishEvent, Goto
  <2> QED
    BY <1>2, <2>1, <2>2
<1>5. ASSUME NEW x \in Exec, NEW c \in Contexts, Rollback(c, x)
      PROVE  SourcesOwned'
  <2>1. UNCHANGED <<touched, tracked>>
    BY <1>5 DEF Rollback, sourceVars
  <2>2. \A y \in Exec : pc'[y] = "idle" => pc[y] = "idle"
    BY <1>1, <1>5 DEF Rollback, Rethrow, Goto
  <2> QED
    BY <1>2, <2>1, <2>2
<1>6. ASSUME NEW x \in Exec, NEW c \in Contexts, NEW s \in Sources, NEW e \in Events,
             Emit(c, x, s, e)
      PROVE  SourcesOwned'
  <2>1. /\ pc[x] = "useCase" /\ UNCHANGED pc
        /\ \A y \in Exec \ {x} : s \notin touched[y]
        /\ tracked' = [tracked EXCEPT ![s] = TRUE]
        /\ touched' = [touched EXCEPT ![x] = @ \cup {s}]
    BY <1>6 DEF Emit
  <2>2. touched'[x] = touched[x] \cup {s} /\ \A y \in Exec : y # x => touched'[y] = touched[y]
    BY <1>1, <2>1
  <2>3. \A y, z \in Exec : touched'[y] \cap touched'[z] # {} => y = z
    BY <2>1, <2>2 DEF SourcesOwned
  <2>4. \A t \in Sources : tracked'[t] => \E y \in Exec : t \in touched'[y]
    <3> SUFFICES ASSUME NEW t \in Sources, tracked'[t]
                 PROVE  \E y \in Exec : t \in touched'[y]
      OBVIOUS
    <3>1. CASE t = s
      BY <2>2, <3>1
    <3>2. CASE t # s
      <4>1. tracked[t]
        BY <1>1, <2>1, <3>2
      <4>2. PICK y \in Exec : t \in touched[y]
        BY <4>1 DEF SourcesOwned
      <4> QED
        BY <2>2, <4>2
    <3> QED
      BY <3>1, <3>2
  <2>5. \A y \in Exec : pc'[y] = "idle" => touched'[y] = {}
    BY <2>1, <2>2 DEF SourcesOwned
  <2> QED
    BY <2>3, <2>4, <2>5 DEF SourcesOwned
<1>7. CASE UNCHANGED vars
  BY <1>2, <1>7 DEF vars, sourceVars
<1> QED
  BY <1>3, <1>4, <1>5, <1>6, <1>7 DEF Next, Advance, Finished

(* The scope of an execution in its use case is neither popped nor written *)
(* by anyone else.                                                         *)
LEMMA UseCaseScopeStep ==
  ASSUME Retained = {}, EmittingPhases = {"useCase"}, CallsInv, SourcesOwned, UseCaseHasScope,
         [Next]_vars
  PROVE  UseCaseHasScope'
<1>0. TypeOK /\ CallsNest
  BY DEF CallsInv
<1>1. /\ pc \in [Exec -> Phases] /\ calls \in [Contexts -> Seq(Exec)]
      /\ scopes \in [Contexts -> Seq(SUBSET Sources)] /\ touched \in [Exec -> SUBSET Sources]
  BY <1>0 DEF TypeOK
<1> DEFINE Has(d) == calls[d] # <<>> /\ pc[Innermost(calls[d])] = "useCase" =>
                       scopes[d] # <<>> /\ Innermost(scopes[d]) = touched[Innermost(calls[d])]
<1>2. \A d \in Contexts : Has(d)
  BY DEF UseCaseHasScope
<1>3. ASSUME NEW d \in Contexts, calls'[d] = calls[d], scopes'[d] = scopes[d],
             \A y \in Exec : Running(d, y) => touched'[y] = touched[y],
             \A y \in Exec : Running(d, y) /\ pc'[y] = "useCase" => pc[y] = "useCase"
      PROVE  Has(d)'
  <2>1. calls[d] # <<>> => Innermost(calls[d]) \in Exec /\ Running(d, Innermost(calls[d]))
    BY <1>0, InnermostCall
  <2> QED
    BY <1>2, <1>3, <2>1 DEF Innermost
<1> SUFFICES ASSUME NEW d \in Contexts PROVE Has(d)'
  BY DEF UseCaseHasScope, Innermost
<1>4. ASSUME NEW x \in Exec, NEW c \in Contexts, Begin(c, x)
      PROVE  Has(d)'
  <2>1. /\ pc[x] = "idle" /\ pc' = [pc EXCEPT ![x] = "useCase"] /\ UNCHANGED touched
        /\ calls' = [calls EXCEPT ![c] = Append(@, x)]
        /\ scopes' = [scopes EXCEPT ![c] = BeginScope(@)]
    BY <1>4 DEF Begin, Goto, sourceVars
  <2>2. CASE d = c
    <3>1. /\ calls'[c] = Append(calls[c], x) /\ scopes'[c] = BeginScope(scopes[c])
          /\ calls[c] \in Seq(Exec) /\ scopes[c] \in Seq(SUBSET Sources)
      BY <1>1, <2>1
    <3>2. Innermost(calls'[c]) = x
      BY <3>1, AppendProperties DEF Innermost
    <3>3. scopes'[c] # <<>> /\ Innermost(scopes'[c]) = {}
      <4>1. /\ Len(scopes'[c]) = Len(scopes[c]) + 1 /\ Len(scopes[c]) \in Nat
            /\ scopes'[c][Len(scopes[c]) + 1] = {}
        BY <3>1, BeginScopeProperties, LenProperties
      <4> QED
        BY <4>1, EmptySeq DEF Innermost
    <3>4. touched'[x] = {}
      BY <2>1 DEF SourcesOwned
    <3> QED
      BY <2>2, <3>2, <3>3, <3>4 DEF Innermost
  <2>3. CASE d # c
    <3>1. calls'[d] = calls[d] /\ scopes'[d] = scopes[d]
      BY <1>1, <2>1, <2>3
    <3>2. ASSUME NEW y \in Exec, Running(d, y) PROVE y # x
      <4>1. Len(calls[d]) \in 1 .. Len(calls[d]) /\ calls[d][Len(calls[d])] = y
        BY <1>0, <3>2, RunningProperties
      <4>2. pc[calls[d][Len(calls[d])]] # "idle"
        BY <1>0, <4>1 DEF CallsNest
      <4> QED
        BY <2>1, <4>1, <4>2
    <3>3. \A y \in Exec : Running(d, y) /\ pc'[y] = "useCase" => pc[y] = "useCase"
      BY <1>1, <2>1, <3>2
    <3> QED
      BY <1>3, <2>1, <3>1, <3>3
  <2> QED
    BY <2>2, <2>3
<1>5. ASSUME NEW x \in Exec, NEW c \in Contexts, NEW s \in Sources, NEW e \in Events,
             Emit(c, x, s, e)
      PROVE  Has(d)'
  <2>1. /\ Running(c, x) /\ pc[x] = "useCase" /\ UNCHANGED <<pc, calls>>
        /\ touched' = [touched EXCEPT ![x] = @ \cup {s}]
        /\ \A y \in Exec \ {x} : s \notin touched[y]
    BY <1>5 DEF Emit
  <2>2. CASE d = c
    <3>1. scopes[c] # <<>> /\ Innermost(scopes[c]) = touched[x] /\ Innermost(calls[c]) = x
      BY <1>2, <2>1 DEF Running
    <3>2. touched'[x] = touched[x] \cup {s}
      BY <1>1, <2>1
    <3>3. CASE tracked[s]
      <4>1. s \in touched[x] /\ scopes' = scopes
        BY <1>5, <2>1, <3>3 DEF SourcesOwned, Emit
      <4> QED
        BY <2>1, <2>2, <3>1, <3>2, <4>1 DEF Innermost
    <3>4. CASE ~tracked[s]
      <4>1. scopes'[c] = TrackIn(scopes[c], s) /\ scopes[c] \in Seq(SUBSET Sources)
        BY <1>1, <1>5, <3>4 DEF Emit
      <4>2. Len(scopes[c]) \in 1 .. Len(scopes[c])
        BY <3>1, <4>1, InnermostProperties
      <4>3. /\ Len(TrackIn(scopes[c], s)) = Len(scopes[c])
            /\ TrackIn(scopes[c], s)[Len(scopes[c])] = scopes[c][Len(scopes[c])] \cup {s}
        <5>1. scopes[c] \in Seq(SUBSET Sources) /\ DOMAIN scopes[c] = 1 .. Len(scopes[c])
          BY <4>1, LenProperties
        <5>2. TrackIn(scopes[c], s) = [scopes[c] EXCEPT ![Len(scopes[c])] = @ \cup {s}]
          BY <3>1 DEF TrackIn
        <5>3. Len(TrackIn(scopes[c], s)) = Len(scopes[c])
          BY <5>1, TrackInProperties
        <5> QED
          BY <4>2, <5>1, <5>2, <5>3
      <4>4. scopes'[c] # <<>> /\ Innermost(scopes'[c]) = touched'[x]
        BY <3>1, <3>2, <4>1, <4>2, <4>3, EmptySeq DEF Innermost
      <4> QED
        BY <2>1, <2>2, <3>1, <4>4 DEF Innermost
    <3> QED
      BY <3>3, <3>4
  <2>3. CASE d # c
    <3>1. calls'[d] = calls[d] /\ scopes'[d] = scopes[d]
      BY <1>1, <1>5, <2>3 DEF Emit
    <3>2. ASSUME NEW y \in Exec, Running(d, y) PROVE touched'[y] = touched[y]
      <4>1. Len(calls[d]) \in 1 .. Len(calls[d]) /\ calls[d][Len(calls[d])] = y
        BY <1>0, <3>2, RunningProperties
      <4>2. calls[d][Len(calls[d])] # x
        BY <2>1, <2>3, <4>1, RunningOnce
      <4> QED
        BY <1>1, <2>1, <4>1, <4>2
    <3> QED
      BY <1>3, <2>1, <3>1, <3>2
  <2> QED
    BY <2>2, <2>3
<1>6. ASSUME NEW x \in Exec, NEW c \in Contexts,
             Commit(c, x) \/ CommitReturns(c, x) \/ Rollback(c, x)
      PROVE  Has(d)'
  <2>1. /\ Running(c, x) /\ UNCHANGED touched
        /\ \A y \in Exec : pc'[y] = "useCase" => pc[y] = "useCase"
    BY <1>1, <1>6 DEF Commit, CommitReturns, Rollback, At, Goto, Rethrow, sourceVars
  <2>2. CASE d # c
    <3>1. calls'[d] = calls[d] /\ scopes'[d] = scopes[d]
      BY <1>1, <1>6, <2>2 DEF Commit, CommitReturns, Rollback
    <3> QED
      BY <1>3, <2>1, <3>1
  <2>3. CASE d = c
    <3>1. calls'[c] # <<>> => pc'[Innermost(calls'[c])] # "useCase"
      <4>1. CASE Commit(c, x)
        BY <1>1, <4>1 DEF Commit, At, Goto, Running
      <4>2. CASE CommitReturns(c, x) \/ Rollback(c, x)
        <5>1. calls' = [calls EXCEPT ![c] = Pop(@)]
          BY <4>2 DEF CommitReturns, Rollback
        <5>2. calls'[c] # <<>> =>
                Innermost(calls'[c]) \in Exec /\ pc[Innermost(calls'[c])] \in Delivering
          BY <2>1, <5>1, CallerDelivers
        <5> QED
          BY <2>1, <5>2 DEF Delivering
      <4> QED
        BY <1>6, <4>1, <4>2
    <3> QED
      BY <2>3, <3>1 DEF Innermost
  <2> QED
    BY <2>2, <2>3
<1>7. ASSUME NEW x \in Exec, NEW c \in Contexts,
             \/ UseCaseReturns(c, x) \/ UseCaseThrows(c, x) \/ DispatchDone(c, x)
             \/ PublishDone(c, x) \/ HandlerThrows(c, x) \/ SaveAll(c, x)
             \/ SaveAllThrows(c, x) \/ CommitThrows(c, x)
             \/ \E e \in Events : DispatchEvent(c, x, e) \/ PublishEvent(c, x, e)
      PROVE  Has(d)'
  <2>1. UNCHANGED <<calls, scopes, touched>>
    BY <1>7 DEF UseCaseReturns, UseCaseThrows, DispatchDone, PublishDone, HandlerThrows,
                SaveAll, SaveAllThrows, CommitThrows, DispatchEvent, PublishEvent, sourceVars
  <2>2. \A y \in Exec : pc'[y] = "useCase" => pc[y] = "useCase"
    BY <1>1, <1>7 DEF UseCaseReturns, UseCaseThrows, DispatchDone, PublishDone, HandlerThrows,
                SaveAll, SaveAllThrows, CommitThrows, DispatchEvent, PublishEvent, Goto
  <2> QED
    BY <1>3, <2>1, <2>2
<1>8. CASE UNCHANGED vars
  BY <1>3, <1>8 DEF vars, sourceVars
<1> QED
  BY <1>4, <1>5, <1>6, <1>7, <1>8 DEF Next, Advance, Finished

(* Every step keeps the events of an execution where its phase has them.   *)
LEMMA FollowsStep ==
  ASSUME Retained = {}, EmittingPhases = {"useCase"}, DeliveryInv, [Next]_vars
  PROVE  EventsFollowPhases'
<1>0. CallsInv /\ TypeOK /\ SourcesOwned /\ UseCaseHasScope /\ EventsFollowPhases
  BY DEF DeliveryInv, CallsInv
<1>1. /\ pc \in [Exec -> Phases] /\ scopes \in [Contexts -> Seq(SUBSET Sources)]
      /\ domainEvents \in [Sources -> SUBSET Events] /\ touched \in [Exec -> SUBSET Sources]
      /\ emitted \in [Exec -> SUBSET Events] /\ events \in [Exec -> SUBSET Events]
      /\ todo \in [Exec -> SUBSET Events]
  BY <1>0 DEF TypeOK
<1> SUFFICES ASSUME NEW y \in Exec PROVE Follows(y)'
  BY DEF EventsFollowPhases
<1>2. Follows(y)
  BY <1>0 DEF EventsFollowPhases
<1>3. ASSUME NEW x \in Exec, NEW c \in Contexts, Begin(c, x)
      PROVE  Follows(y)'
  <2>1. /\ pc[x] = "idle" /\ pc' = [pc EXCEPT ![x] = "useCase"]
        /\ UNCHANGED <<domainEvents, touched, emitted, events, todo, published, stored>>
    BY <1>3 DEF Begin, Goto, sourceVars, outputVars
  <2>2. CASE y = x
    <3>1. emitted'[y] = {} /\ pc'[y] = "useCase"
      BY <1>1, <1>2, <2>1, <2>2 DEF Follows
    <3> QED
      BY <3>1 DEF Follows, AfterUseCase, AfterPublish, AfterStore
  <2>3. CASE y # x
    BY <1>1, <1>2, <2>1, <2>3, StillFollows
  <2> QED
    BY <2>2, <2>3
<1>4. ASSUME NEW x \in Exec, NEW c \in Contexts, NEW s \in Sources, NEW e \in Events,
             Emit(c, x, s, e)
      PROVE  Follows(y)'
  <2>1. /\ pc[x] = "useCase" /\ \A z \in Exec \ {x} : s \notin touched[z]
        /\ domainEvents' = [domainEvents EXCEPT ![s] = @ \cup {e}]
        /\ touched' = [touched EXCEPT ![x] = @ \cup {s}]
        /\ emitted' = [emitted EXCEPT ![x] = @ \cup {e}]
        /\ UNCHANGED <<pc, events, todo, published, stored>>
    BY <1>4 DEF Emit, outputVars
  <2>2. \A t \in Sources : domainEvents'[t] = IF t = s THEN domainEvents[t] \cup {e}
                                              ELSE domainEvents[t]
    BY <1>1, <2>1
  <2>3. CASE y = x
    <3>1. touched'[x] = touched[x] \cup {s} /\ emitted'[x] = emitted[x] \cup {e}
      BY <1>1, <2>1
    <3>2. \A f \in emitted'[x] : \E t \in touched'[x] : f \in domainEvents'[t]
      <4> SUFFICES ASSUME NEW f \in emitted'[x]
                   PROVE  \E t \in touched'[x] : f \in domainEvents'[t]
        OBVIOUS
      <4>1. CASE f = e
        BY <2>2, <3>1, <4>1
      <4>2. CASE f # e
        <5>1. PICK t \in touched[x] : f \in domainEvents[t]
          BY <1>2, <2>1, <2>3, <3>1, <4>2 DEF Follows
        <5>2. t \in Sources
          BY <1>1, <5>1
        <5> QED
          BY <2>2, <3>1, <5>1, <5>2
      <4> QED
        BY <4>1, <4>2
    <3> QED
      BY <2>1, <2>3, <3>2 DEF Follows, AfterUseCase, AfterPublish, AfterStore
  <2>4. CASE y # x
    <3>1. touched'[y] = touched[y] /\ emitted'[y] = emitted[y] /\ s \notin touched[y]
      BY <1>1, <2>1, <2>4
    <3>2. \A t \in touched[y] : domainEvents'[t] = domainEvents[t]
      BY <1>1, <2>2, <3>1
    <3> QED
      BY <1>2, <2>1, <3>1, <3>2, StillFollows
  <2> QED
    BY <2>3, <2>4
<1>5. ASSUME NEW x \in Exec, NEW c \in Contexts, UseCaseReturns(c, x)
      PROVE  Follows(y)'
  <2> DEFINE drained == PeekScope(scopes[c])
             collected == UNION {domainEvents[s] : s \in drained}
  <2>1. /\ Running(c, x) /\ pc[x] = "useCase" /\ pc' = [pc EXCEPT ![x] = "dispatch"]
        /\ DrainDomainEvents(drained)
        /\ events' = [events EXCEPT ![x] = collected]
        /\ todo' = [todo EXCEPT ![x] = collected]
        /\ UNCHANGED <<touched, emitted, published, stored>>
    BY <1>5 DEF UseCaseReturns, At, Goto, outputVars
  <2>2. drained = touched[x]
    BY <1>0, <2>1 DEF UseCaseHasScope, Running, PeekScope
  <2>3. \A s \in Sources : domainEvents'[s] = IF s \in touched[x] THEN {} ELSE domainEvents[s]
    BY <2>1, <2>2 DEF DrainDomainEvents
  <2>4. CASE y = x
    <3>1. emitted[x] \subseteq collected
      BY <1>2, <2>1, <2>2, <2>4 DEF Follows
    <3>2. events'[x] = collected /\ pc'[x] = "dispatch"
      BY <1>1, <2>1
    <3>3. \A s \in touched[x] : domainEvents'[s] = {}
      BY <1>1, <2>3
    <3> HIDE DEF collected, drained
    <3> QED
      BY <2>1, <2>4, <3>1, <3>2, <3>3 DEF Follows, AfterUseCase, AfterPublish, AfterStore
  <2>5. CASE y # x
    <3>1. \A s \in touched[y] : s \notin touched[x]
      BY <1>0, <2>5 DEF SourcesOwned
    <3>2. \A s \in touched[y] : domainEvents'[s] = domainEvents[s]
      BY <1>1, <2>3, <3>1
    <3>3. pc'[y] = pc[y] /\ events'[y] = events[y] /\ todo'[y] = todo[y]
      BY <1>1, <2>1, <2>5
    <3> QED
      BY <1>2, <2>1, <3>2, <3>3, StillFollows
  <2> QED
    BY <2>4, <2>5
<1>6. ASSUME NEW x \in Exec, NEW c \in Contexts,
             \/ UseCaseThrows(c, x) \/ HandlerThrows(c, x) \/ SaveAllThrows(c, x)
             \/ CommitThrows(c, x) \/ Rollback(c, x)
      PROVE  Follows(y)'
  <2>1. /\ UNCHANGED <<domainEvents, touched, emitted, events, todo, published>>
        /\ stored \subseteq stored'
    BY <1>6 DEF UseCaseThrows, HandlerThrows, SaveAllThrows, CommitThrows, Rollback,
                sourceVars, outputVars
  <2>2. pc'[y] = pc[y] \/ pc'[y] \in {"rollback", "threw"}
    BY <1>1, <1>6 DEF UseCaseThrows, HandlerThrows, SaveAllThrows, CommitThrows, Rollback,
                Rethrow, Goto
  <2> QED
    BY <1>2, <2>1, <2>2, StillFollows
<1>7. ASSUME NEW x \in Exec, NEW c \in Contexts, NEW e \in Events,
             DispatchEvent(c, x, e) \/ PublishEvent(c, x, e)
      PROVE  Follows(y)'
  <2>1. /\ UNCHANGED <<pc, domainEvents, touched, emitted, events, stored>>
        /\ todo' = [todo EXCEPT ![x] = @ \ {e}]
        /\ published \subseteq published'
    BY <1>7 DEF DispatchEvent, PublishEvent, sourceVars, outputVars
  <2>2. CASE y # x \/ pc[x] # "publish"
    <3>1. pc[y] = "publish" => todo'[y] = todo[y]
      BY <1>1, <2>1, <2>2
    <3> QED
      BY <1>2, <2>1, <3>1, StillFollows
  <2>3. CASE y = x /\ pc[x] = "publish"
    <3>1. published' = published \cup {e}
      BY <1>7, <2>3 DEF DispatchEvent, PublishEvent, At
    <3>2. todo'[x] = todo[x] \ {e}
      BY <1>1, <2>1
    <3> QED
      BY <1>2, <2>1, <2>3, <3>1, <3>2 DEF Follows, AfterPublish, AfterStore
  <2> QED
    BY <2>2, <2>3
<1>8. ASSUME NEW x \in Exec, NEW c \in Contexts,
             DispatchDone(c, x) \/ PublishDone(c, x) \/ SaveAll(c, x)
      PROVE  Follows(y)'
  <2>1. UNCHANGED <<domainEvents, touched, emitted, events, published>> /\ stored \subseteq stored'
    BY <1>8 DEF DispatchDone, PublishDone, SaveAll, sourceVars, outputVars
  <2>2. CASE y # x
    <3>1. pc'[y] = pc[y] /\ todo'[y] = todo[y]
      BY <1>1, <1>8, <2>2 DEF DispatchDone, PublishDone, SaveAll, Goto
    <3> QED
      BY <1>2, <2>1, <3>1, StillFollows
  <2>3. CASE y = x /\ DispatchDone(c, x)
    <3>1. pc[x] = "dispatch" /\ pc'[x] = "publish" /\ todo'[x] = events[x]
      BY <1>1, <2>3 DEF DispatchDone, At, Goto
    <3> QED
      BY <1>2, <2>1, <2>3, <3>1 DEF Follows, AfterUseCase, AfterPublish, AfterStore
  <2>4. CASE y = x /\ PublishDone(c, x)
    <3>1. pc[x] = "publish" /\ pc'[x] = "store" /\ todo[x] = {}
      BY <1>1, <2>4 DEF PublishDone, At, Goto, LoopDone
    <3> QED
      BY <1>2, <2>1, <2>4, <3>1 DEF Follows, AfterUseCase, AfterPublish, AfterStore
  <2>5. CASE y = x /\ SaveAll(c, x)
    <3>1. pc[x] = "store" /\ pc'[x] = "commit" /\ stored' = stored \cup events[x]
      BY <1>1, <2>5 DEF SaveAll, At, Goto
    <3> QED
      BY <1>2, <2>1, <2>5, <3>1 DEF Follows, AfterUseCase, AfterPublish, AfterStore
  <2> QED
    BY <1>8, <2>2, <2>3, <2>4, <2>5
<1>9. ASSUME NEW x \in Exec, NEW c \in Contexts, Commit(c, x) \/ CommitReturns(c, x)
      PROVE  Follows(y)'
  <2>1. UNCHANGED <<domainEvents, touched, emitted, events, todo, published, stored>>
    BY <1>9 DEF Commit, CommitReturns, sourceVars, outputVars
  <2>2. CASE y # x
    <3>1. pc'[y] = pc[y]
      BY <1>1, <1>9, <2>2 DEF Commit, CommitReturns, Goto
    <3> QED
      BY <1>2, <2>1, <3>1, StillFollows
  <2>3. CASE y = x
    <3>1. pc[x] \in {"commit", "flush"} /\ pc'[x] \in {"flush", "returned"}
      BY <1>1, <1>9 DEF Commit, CommitReturns, At, Goto
    <3> QED
      BY <1>2, <2>1, <2>3, <3>1 DEF Follows, AfterUseCase, AfterPublish, AfterStore
  <2> QED
    BY <2>2, <2>3
<1>10. CASE UNCHANGED vars
  BY <1>2, <1>10, StillFollows DEF vars, sourceVars, outputVars
<1> QED
  BY <1>3, <1>4, <1>5, <1>6, <1>7, <1>8, <1>9, <1>10 DEF Next, Advance, Finished

(* An execution that returned has published and stored every event it      *)
(* emitted, and left none in a source for a later execution to find        *)
(* (ApplicationService.ts:36-47), in any number of concurrent contexts and *)
(* whoever swallows errors: when sources are not shared and only use cases *)
(* emit.  What a handler emits itself comes after the drain.               *)
THEOREM ReturnsDelivered ==
  ASSUME Retained = {}, EmittingPhases = {"useCase"}
  PROVE  Spec => []ReturnedMeansDelivered
<1>1. Init => DeliveryInv
  <2> SUFFICES ASSUME Init PROVE DeliveryInv
    OBVIOUS
  <2>1. CallsInv /\ SourcesOwned
    BY CallsInit, OwnershipInit DEF OwnershipInv
  <2>2. UseCaseHasScope
    BY DEF Init, UseCaseHasScope
  <2>3. EventsFollowPhases
    BY DEF Init, EventsFollowPhases, Follows, AfterUseCase, AfterPublish, AfterStore
  <2> QED
    BY <2>1, <2>2, <2>3 DEF DeliveryInv
<1>2. DeliveryInv /\ [Next]_vars => DeliveryInv'
  <2> SUFFICES ASSUME DeliveryInv, [Next]_vars PROVE DeliveryInv'
    OBVIOUS
  <2>1. CallsInv /\ TypeOK /\ SourcesOwned /\ UseCaseHasScope
    BY DEF DeliveryInv, CallsInv
  <2>2. CallsInv' /\ SourcesOwned' /\ UseCaseHasScope'
    BY <2>1, CallsStep, OwnedStep, UseCaseScopeStep
  <2>3. EventsFollowPhases'
    BY FollowsStep
  <2> QED
    BY <2>2, <2>3 DEF DeliveryInv
<1>3. DeliveryInv => ReturnedMeansDelivered
  BY DEF DeliveryInv, EventsFollowPhases, Follows, AfterUseCase, AfterPublish, AfterStore,
         ReturnedMeansDelivered
<1> QED
  BY <1>1, <1>2, <1>3, PTL DEF Spec
=============================================================================
