------------------------ MODULE EventDispatchProofs ------------------------
(***************************************************************************)
(* Theorems about EventDispatch for any number of executions, events,      *)
(* handlers and clears.                                                    *)
(***************************************************************************)
EXTENDS EventDispatch, SequenceTheorems, FiniteSetTheorems, TLAPS

-----------------------------------------------------------------------------
(* Lists of handlers.                                                      *)

(* t goes on where s ends.                                                 *)
Continues(s, t) == Len(s) <= Len(t) /\ \A i \in 1 .. Len(s) : s[i] = t[i]

(* A list of handlers is a sequence without repetitions: the bound on its  *)
(* length restricts nothing.                                               *)
LEMMA HandlerListsAreInjective ==
  ASSUME NEW s
  PROVE  s \in HandlerLists <=> s \in Seq(Handlers) /\ IsInjective(s)
<1>0. Cardinality(Handlers) \in Nat
  BY FS_CardinalityType, BoundsAssumption
<1>1. ASSUME s \in HandlerLists
      PROVE  s \in Seq(Handlers) /\ IsInjective(s)
  <2>1. IsInjective(s) /\ s \in UNION {[1..m -> Handlers] : m \in 0..Cardinality(Handlers)}
    BY <1>1 DEF HandlerLists, BoundedSeq, SeqOf
  <2>2. PICK m \in 0..Cardinality(Handlers) : s \in [1..m -> Handlers]
    BY <2>1
  <2>3. m \in Nat
    BY <1>0, <2>2
  <2> QED
    BY <2>1, <2>2, <2>3, SeqDef
<1>2. ASSUME s \in Seq(Handlers), IsInjective(s)
      PROVE  s \in HandlerLists
  <2>1. Len(s) \in Nat /\ s \in [1..Len(s) -> Handlers]
    BY <1>2
  <2>2. s \in Injection(1..Len(s), Handlers)
    BY <1>2, <2>1 DEF Injection
  <2>3. Cardinality(1..Len(s)) <= Cardinality(Handlers)
    BY <2>2, BoundsAssumption, FS_Injection
  <2>4. Cardinality(1..Len(s)) = IF 1 > Len(s) THEN 0 ELSE Len(s) - 1 + 1
    BY <2>1, FS_Interval
  <2>5. Len(s) \in 0..Cardinality(Handlers)
    BY <1>0, <2>1, <2>3, <2>4
  <2> QED
    BY <1>2, <2>1, <2>5 DEF HandlerLists, BoundedSeq, SeqOf
<1> QED
  BY <1>1, <1>2

(* What the library calls a prefix.                                        *)
LEMMA PrefixContinues ==
  ASSUME NEW S, NEW s \in Seq(S), NEW t \in Seq(S)
  PROVE  IsPrefix(s, t) <=> Continues(s, t)
<1> DEFINE n == Len(s)
<1>1. n \in Nat /\ Len(t) \in Nat /\ n = Len(s)
  OBVIOUS
<1>2. SUFFICES ASSUME n <= Len(t)
               PROVE  SubSeq(s, 1, n) = SubSeq(t, 1, n) <=> \A i \in 1..n : s[i] = t[i]
  BY DEF IsPrefix, Continues
<1> HIDE DEF n
<1>3. (\A i \in 1..n : s[i] \in S) /\ \A i \in 1..n : t[i] \in S
  BY <1>1, <1>2, ElementOfSeq
<1>4. /\ SubSeq(s, 1, n) \in Seq(S) /\ Len(SubSeq(s, 1, n)) = n
      /\ \A i \in 1..n : SubSeq(s, 1, n)[i] = s[i]
  <2>1. /\ SubSeq(s, 1, n) \in Seq(S)
        /\ Len(SubSeq(s, 1, n)) = IF 1 <= n THEN n - 1 + 1 ELSE 0
        /\ \A i \in 1 .. n - 1 + 1 : SubSeq(s, 1, n)[i] = s[1 + i - 1]
    BY <1>1, <1>3, SubSeqProperties
  <2> QED
    BY <1>1, <2>1
<1>5. /\ SubSeq(t, 1, n) \in Seq(S) /\ Len(SubSeq(t, 1, n)) = n
      /\ \A i \in 1..n : SubSeq(t, 1, n)[i] = t[i]
  <2>1. /\ SubSeq(t, 1, n) \in Seq(S)
        /\ Len(SubSeq(t, 1, n)) = IF 1 <= n THEN n - 1 + 1 ELSE 0
        /\ \A i \in 1 .. n - 1 + 1 : SubSeq(t, 1, n)[i] = t[1 + i - 1]
    BY <1>1, <1>3, SubSeqProperties
  <2> QED
    BY <1>1, <2>1
<1>6. ASSUME \A i \in 1..n : s[i] = t[i]
      PROVE  SubSeq(s, 1, n) = SubSeq(t, 1, n)
  BY <1>1, <1>4, <1>5, <1>6, SeqEqual
<1> QED
  BY <1>4, <1>5, <1>6

(* push, of a handler that is not yet there (DomainEventManager.ts:14,     *)
(* EventEmitterEventBus.ts:30).                                            *)
LEMMA AppendHandler ==
  ASSUME NEW s \in HandlerLists, NEW h \in Handlers, h \notin ToSet(s)
  PROVE  /\ Append(s, h) \in HandlerLists
         /\ ToSet(Append(s, h)) = ToSet(s) \cup {h}
         /\ Continues(s, Append(s, h))
<1>1. s \in Seq(Handlers) /\ IsInjective(s) /\ Len(s) \in Nat /\ DOMAIN s = 1..Len(s)
  BY HandlerListsAreInjective
<1> DEFINE t == Append(s, h)
<1>2. /\ t \in Seq(Handlers) /\ Len(t) = Len(s) + 1
      /\ \A i \in 1..Len(s) : t[i] = s[i]
      /\ t[Len(s) + 1] = h /\ DOMAIN t = 1..(Len(s) + 1)
  BY <1>1, AppendProperties
<1> HIDE DEF t
<1>3. \A i \in 1..Len(s) : s[i] # h
  BY <1>1 DEF ToSet
<1>4. IsInjective(t)
  BY <1>1, <1>2, <1>3 DEF IsInjective
<1>5. ToSet(t) = ToSet(s) \cup {h}
  <2>1. \A i \in 1..(Len(s) + 1) : t[i] \in ToSet(s) \cup {h}
    BY <1>1, <1>2 DEF ToSet
  <2>2. \A i \in 1..Len(s) : s[i] \in ToSet(t)
    BY <1>1, <1>2 DEF ToSet
  <2>3. h \in ToSet(t)
    BY <1>1, <1>2 DEF ToSet
  <2> QED
    BY <1>1, <1>2, <2>1, <2>2, <2>3 DEF ToSet
<1>6. t \in HandlerLists
  BY <1>2, <1>4, HandlerListsAreInjective
<1>7. Continues(s, t)
  BY <1>1, <1>2 DEF Continues
<1> QED
  BY <1>5, <1>6, <1>7 DEF t

(* No handler.                                                             *)
LEMMA NoHandler == <<>> \in HandlerLists /\ ToSet(<<>>) = {}
<1>1. <<>> \in Seq(Handlers) /\ Len(<<>>) = 0 /\ DOMAIN <<>> = {}
  BY EmptySeq
<1> QED
  BY <1>1, HandlerListsAreInjective DEF IsInjective, ToSet

-----------------------------------------------------------------------------
(* The invariant.                                                          *)

(* No handler is in two arrays: those from before a clear stay apart from  *)
(* those made since.                                                       *)
ArraysApart ==
  \A g, g2 \in Generations : \A n, n2 \in Names :
    ToSet(handlers[g][n]) \cap ToSet(handlers[g2][n2]) # {} => g = g2 /\ n = n2

(* A loop has called the handlers at the front of what it walks; and there *)
(* were those it found when it took the event.                             *)
Walks(x) ==
  /\ event[x] <= Len(list[x]) + 1 /\ IsInjective(served[x])
  /\ pc[x] \in {"handling", "between"} =>
       /\ stage[x] \in {"dispatch", "publish"} /\ event[x] <= Len(list[x])
       /\ Continues(served[x], Walked(x))
       /\ stage[x] = "dispatch" => Continues(entitled[x], Walked(x))
       /\ stage[x] = "publish" => entitled[x] = copy[x]

DispatchInv == TypeOK /\ ArraysApart /\ \A x \in Runs : Walks(x)

(* The names of the events an execution has.                               *)
LEMMA NamesOfEvents ==
  ASSUME TypeOK, NEW x \in Runs
  PROVE  /\ Len(list[x]) \in Nat /\ Len(list[x]) <= MaxEvents
         /\ event[x] \in Nat /\ event[x] >= 1
         /\ event[x] <= Len(list[x]) => Name(x) \in Names
<1>1. list[x] \in UNION {[1..m -> Names] : m \in 0..MaxEvents}
  BY ListsAssumption DEF TypeOK, BoundedSeq, SeqOf
<1>2. PICK m \in 0..MaxEvents : list[x] \in [1..m -> Names]
  BY <1>1
<1>3. m \in Nat /\ m <= MaxEvents
  BY <1>2, BoundsAssumption
<1>4. list[x] \in Seq(Names) /\ Len(list[x]) = m
  BY <1>2, <1>3
<1>5. event[x] \in Nat /\ event[x] >= 1
  BY BoundsAssumption DEF TypeOK
<1>6. event[x] <= m => Name(x) \in Names
  BY <1>2, <1>3, <1>5 DEF Name
<1> QED
  BY <1>3, <1>4, <1>5, <1>6

(* What a loop walks is a list of handlers.                                *)
LEMMA WalkedType ==
  ASSUME TypeOK, NEW x \in Runs, event[x] <= Len(list[x])
  PROVE  Walked(x) \in HandlerLists /\ Found(x) \in HandlerLists
<1>1. Name(x) \in Names
  BY NamesOfEvents
<1>2. handlers[array[x]][Name(x)] \in HandlerLists
  BY <1>1 DEF TypeOK
<1>3. handlers[cleared][Name(x)] \in HandlerLists
  BY <1>1 DEF TypeOK
<1>4. subscribers[Name(x)] \in HandlerLists /\ copy[x] \in HandlerLists
  BY <1>1 DEF TypeOK
<1> QED
  BY <1>2, <1>3, <1>4 DEF Walked, Found

(* Lists that grow at the end go on where the earlier ones did.            *)
LEMMA ContinuesFurther ==
  ASSUME NEW s \in Seq(Handlers), NEW t \in Seq(Handlers), NEW u \in Seq(Handlers),
         Continues(s, t), Continues(t, u)
  PROVE  Continues(s, u)
<1>1. Len(s) \in Nat /\ Len(t) \in Nat /\ Len(u) \in Nat
  OBVIOUS
<1> QED
  BY <1>1 DEF Continues

LEMMA DispatchInit ==
  ASSUME Init
  PROVE  DispatchInv
<1>1. 0 \in Generations /\ 1 \in 1..(MaxEvents + 1)
  BY BoundsAssumption DEF Generations
<1>2. <<>> \in Seq(Handlers) /\ IsInjective(<<>>)
  BY NoHandler, HandlerListsAreInjective
<1>3. TypeOK
  BY <1>1, <1>2, NoHandler DEF Init, TypeOK
<1>4. ArraysApart
  BY NoHandler DEF Init, ArraysApart
<1>5. ASSUME NEW x \in Runs
      PROVE  Walks(x)
  <2>1. Len(list[x]) \in Nat
    BY <1>3, NamesOfEvents
  <2> QED
    BY <1>2, <2>1 DEF Init, Walks
<1> QED
  BY <1>3, <1>4, <1>5 DEF DispatchInv

-----------------------------------------------------------------------------
(* The steps.                                                              *)

(* Registering, subscribing and clearing take no handler out of the array  *)
(* that a loop walks (DomainEventManager.ts:8-17,36-38).                   *)
LEMMA RegistryStep ==
  ASSUME DispatchInv,
         \/ \E n \in Names, h \in Handlers : Register(n, h) \/ Subscribe(n, h)
         \/ Clear
  PROVE  DispatchInv'
<1>1. TypeOK /\ ArraysApart /\ \A x \in Runs : Walks(x)
  BY DEF DispatchInv
<1>2. UNCHANGED <<list, stage, pc, event, array, copy, served, entitled>>
  BY DEF Register, Subscribe, Clear, walk
<1> DEFINE Grown ==
      /\ handlers' \in [Generations -> [Names -> HandlerLists]]
      /\ \A g \in Generations, n \in Names : Continues(handlers[g][n], handlers'[g][n])
      /\ ArraysApart'
<1>3. Grown
  <2>1. ASSUME NEW n \in Names, NEW h \in Handlers, Register(n, h)
        PROVE  Grown
    <3> DEFINE after == Append(handlers[cleared][n], h)
    <3>1. cleared \in Generations /\ handlers[cleared][n] \in HandlerLists
      BY <1>1 DEF TypeOK
    <3>2. \A g \in Generations, m \in Names : h \notin ToSet(handlers[g][m])
      BY <2>1 DEF Register, Registered
    <3>3. /\ after \in HandlerLists
          /\ ToSet(after) = ToSet(handlers[cleared][n]) \cup {h}
          /\ Continues(handlers[cleared][n], after)
      BY <3>1, <3>2, AppendHandler
    <3>4. /\ handlers' = [handlers EXCEPT ![cleared] = [handlers[cleared] EXCEPT ![n] = after]]
      BY <2>1 DEF Register
    <3> HIDE DEF after
    <3>5. \A g \in Generations, m \in Names :
            handlers'[g][m] = IF g = cleared /\ m = n THEN after ELSE handlers[g][m]
      BY <1>1, <3>1, <3>4 DEF TypeOK
    <3>6. handlers' \in [Generations -> [Names -> HandlerLists]]
      BY <1>1, <3>1, <3>3, <3>4 DEF TypeOK
    <3>7. \A g \in Generations, m \in Names : handlers[g][m] \in Seq(Handlers)
      BY <1>1, HandlerListsAreInjective DEF TypeOK
    <3>8. \A g \in Generations, m \in Names : Continues(handlers[g][m], handlers[g][m])
      BY <3>7 DEF Continues
    <3>9. ArraysApart'
      BY <1>1, <3>1, <3>2, <3>3, <3>5 DEF ArraysApart
    <3> QED
      BY <3>3, <3>5, <3>6, <3>8, <3>9
  <2>2. ASSUME handlers' = handlers
        PROVE  Grown
    <3>1. \A g \in Generations, m \in Names : handlers[g][m] \in Seq(Handlers)
      BY <1>1, HandlerListsAreInjective DEF TypeOK
    <3>2. \A g \in Generations, m \in Names : Continues(handlers[g][m], handlers[g][m])
      BY <3>1 DEF Continues
    <3> QED
      BY <1>1, <2>2, <3>2 DEF TypeOK, ArraysApart
  <2> QED
    BY <2>1, <2>2 DEF Subscribe, Clear
<1>4. subscribers' \in [Names -> HandlerLists]
  <2>1. ASSUME NEW n \in Names, NEW h \in Handlers, Subscribe(n, h)
        PROVE  subscribers' \in [Names -> HandlerLists]
    <3>1. subscribers[n] \in HandlerLists /\ h \notin ToSet(subscribers[n])
      BY <1>1, <2>1 DEF TypeOK, Subscribe, Registered
    <3>2. Append(subscribers[n], h) \in HandlerLists
      BY <3>1, AppendHandler
    <3> QED
      BY <1>1, <2>1, <3>2 DEF TypeOK, Subscribe
  <2> QED
    BY <1>1, <2>1 DEF TypeOK, Register, Clear
<1>5. cleared' \in Generations
  BY <1>1, BoundsAssumption DEF TypeOK, Generations, Register, Subscribe, Clear
<1>6. TypeOK'
  BY <1>1, <1>2, <1>3, <1>4, <1>5 DEF TypeOK
<1>7. ASSUME NEW x \in Runs
      PROVE  Walks(x)'
  <2>1. /\ event'[x] <= Len(list'[x]) + 1 /\ IsInjective(served'[x])
    BY <1>1, <1>2 DEF Walks
  <2>2. SUFFICES ASSUME pc[x] \in {"handling", "between"}
                 PROVE  /\ stage'[x] \in {"dispatch", "publish"} /\ event'[x] <= Len(list'[x])
                        /\ Continues(served'[x], Walked(x)')
                        /\ stage'[x] = "dispatch" => Continues(entitled'[x], Walked(x)')
                        /\ stage'[x] = "publish" => entitled'[x] = copy'[x]
    BY <1>2, <2>1 DEF Walks
  <2>3. /\ stage[x] \in {"dispatch", "publish"} /\ event[x] <= Len(list[x])
        /\ Continues(served[x], Walked(x))
        /\ stage[x] = "dispatch" => Continues(entitled[x], Walked(x))
        /\ stage[x] = "publish" => entitled[x] = copy[x]
    BY <1>1, <2>2 DEF Walks
  <2>4. CASE stage[x] = "publish"
    <3>1. Walked(x)' = Walked(x)
      BY <1>2, <2>4 DEF Walked
    <3> QED
      BY <1>2, <2>3, <2>4, <3>1
  <2>5. CASE stage[x] = "dispatch"
    <3>1. Name(x) \in Names /\ array[x] \in Generations
      BY <1>1, <2>3, NamesOfEvents DEF TypeOK
    <3>2. Walked(x) = handlers[array[x]][Name(x)] /\ Walked(x)' = handlers'[array[x]][Name(x)]
      BY <1>2, <2>5 DEF Walked, Name
    <3>3. Continues(Walked(x), Walked(x)')
      BY <1>3, <3>1, <3>2
    <3>4. Walked(x) \in Seq(Handlers) /\ Walked(x)' \in Seq(Handlers)
      BY <1>1, <1>3, <3>1, <3>2, HandlerListsAreInjective DEF TypeOK
    <3>5. served[x] \in Seq(Handlers) /\ entitled[x] \in Seq(Handlers)
      BY <1>1, HandlerListsAreInjective DEF TypeOK
    <3>6. Continues(served[x], Walked(x)') /\ Continues(entitled[x], Walked(x)')
      BY <2>3, <2>5, <3>3, <3>4, <3>5, ContinuesFurther
    <3> QED
      BY <1>2, <2>3, <2>5, <3>6
  <2> QED
    BY <2>3, <2>4, <2>5
<1> QED
  BY <1>3, <1>6, <1>7 DEF DispatchInv

(* An execution whose loop stands still.                                   *)
LEMMA StandsStill ==
  ASSUME NEW x \in Runs, Walks(x), UNCHANGED <<handlers, list>>,
         stage'[x] = stage[x], pc'[x] = pc[x], event'[x] = event[x], array'[x] = array[x],
         copy'[x] = copy[x], served'[x] = served[x], entitled'[x] = entitled[x]
  PROVE  Walks(x)'
<1>1. Name(x)' = Name(x)
  BY DEF Name
<1>2. Walked(x)' = Walked(x)
  BY <1>1 DEF Walked
<1> QED
  BY <1>2 DEF Walks

(* The types of what a delivery changes.                                   *)
Places ==
  /\ stage \in [Runs -> {"idle", "dispatch", "publish", "over"}]
  /\ pc \in [Runs -> {"next", "handling", "between", "threw"}]
  /\ event \in [Runs -> 1..(MaxEvents + 1)]
  /\ array \in [Runs -> Generations] /\ copy \in [Runs -> HandlerLists]
  /\ served \in [Runs -> Seq(Handlers)] /\ entitled \in [Runs -> HandlerLists]

(* It is enough to look at the execution that takes the step.              *)
LEMMA OneRun ==
  ASSUME DispatchInv, NEW x \in Runs, UNCHANGED <<registry, list>>, Places', Walks(x)',
         \A y \in Runs \ {x} :
           /\ stage'[y] = stage[y] /\ pc'[y] = pc[y] /\ event'[y] = event[y]
           /\ array'[y] = array[y] /\ copy'[y] = copy[y]
           /\ served'[y] = served[y] /\ entitled'[y] = entitled[y]
  PROVE  DispatchInv'
<1>1. UNCHANGED <<handlers, cleared, subscribers, list>>
  BY DEF registry
<1>2. TypeOK'
  BY <1>1 DEF DispatchInv, TypeOK, Places
<1>3. ArraysApart'
  BY <1>1 DEF DispatchInv, ArraysApart
<1>4. \A y \in Runs \ {x} : Walks(y)'
  BY <1>1, StandsStill DEF DispatchInv
<1> QED
  BY <1>2, <1>3, <1>4 DEF DispatchInv

(* The lookup, and the first call: the array that dispatch goes on to walk *)
(* and the copy of publish are the list that was found                     *)
(* (DomainEventManager.ts:20-25, EventEmitterEventBus.ts:14-19).           *)
LEMMA TakeEventStep ==
  ASSUME DispatchInv, NEW x \in Runs, TakeEvent(x)
  PROVE  DispatchInv'
<1>1. TypeOK /\ Walks(x) /\ Places
  BY DEF DispatchInv, TypeOK, Places
<1>2. /\ stage[x] \in {"dispatch", "publish"} /\ pc[x] = "next" /\ event[x] <= Len(list[x])
      /\ entitled' = [entitled EXCEPT ![x] = Found(x)]
      /\ UNCHANGED <<registry, list, stage>>
  BY DEF TakeEvent
<1>3. Found(x) \in HandlerLists /\ Found(x) \in Seq(Handlers)
  BY <1>1, <1>2, WalkedType, HandlerListsAreInjective
<1>4. /\ Len(list[x]) \in Nat /\ Len(list[x]) <= MaxEvents
      /\ event[x] \in Nat /\ event[x] >= 1 /\ Name(x) \in Names
  BY <1>1, <1>2, NamesOfEvents
<1>5. CASE Found(x) = <<>>
  <2>1. /\ event' = [event EXCEPT ![x] = event[x] + 1]
        /\ served' = [served EXCEPT ![x] = <<>>]
        /\ UNCHANGED <<pc, array, copy>>
    BY <1>5 DEF TakeEvent
  <2>2. event[x] + 1 \in 1..(MaxEvents + 1)
    BY <1>2, <1>4, BoundsAssumption
  <2>3. <<>> \in Seq(Handlers) /\ IsInjective(<<>>)
    BY NoHandler, HandlerListsAreInjective
  <2>4. Places'
    BY <1>1, <1>2, <1>3, <2>1, <2>2, <2>3 DEF Places
  <2>5. Walks(x)'
    <3>1. event'[x] <= Len(list'[x]) + 1
      BY <1>1, <1>2, <1>4, <2>1 DEF Places
    <3>2. IsInjective(served'[x]) /\ pc'[x] = "next"
      BY <1>1, <1>2, <2>1, <2>3 DEF Places
    <3> QED
      BY <3>1, <3>2 DEF Walks
  <2>6. \A y \in Runs \ {x} :
          /\ stage'[y] = stage[y] /\ pc'[y] = pc[y] /\ event'[y] = event[y]
          /\ array'[y] = array[y] /\ copy'[y] = copy[y]
          /\ served'[y] = served[y] /\ entitled'[y] = entitled[y]
    BY <1>1, <1>2, <2>1 DEF Places
  <2> QED
    BY <1>2, <2>4, <2>5, <2>6, OneRun
<1>6. CASE Found(x) # <<>>
  <2> DEFINE copied == IF stage[x] = "publish" THEN Found(x) ELSE <<>>
             first == <<Head(Found(x))>>
  <2>1. /\ pc' = [pc EXCEPT ![x] = "handling"]
        /\ served' = [served EXCEPT ![x] = first]
        /\ array' = [array EXCEPT ![x] = cleared]
        /\ copy' = [copy EXCEPT ![x] = copied]
        /\ event' = event
    BY <1>6 DEF TakeEvent
  <2>2. copied \in HandlerLists
    BY <1>3, NoHandler
  <2>3. Head(Found(x)) \in Handlers /\ Head(Found(x)) = Found(x)[1] /\ Len(Found(x)) >= 1
    BY <1>3, <1>6, HeadTailProperties, EmptySeq
  <2>4. first \in Seq(Handlers) /\ IsInjective(first) /\ Continues(first, Found(x))
    <3>1. Len(first) = 1 /\ first[1] = Head(Found(x)) /\ DOMAIN first = 1..1
      OBVIOUS
    <3>2. IsInjective(first)
      BY <3>1 DEF IsInjective
    <3> QED
      BY <2>3, <3>1, <3>2 DEF Continues
  <2>5. stage[x] = "publish" => copied = Found(x)
    OBVIOUS
  <2> HIDE DEF copied, first
  <2>6. Places'
    <3>1. pc' \in [Runs -> {"next", "handling", "between", "threw"}]
      BY <1>1, <2>1 DEF Places
    <3>2. array' \in [Runs -> Generations] /\ copy' \in [Runs -> HandlerLists]
      BY <1>1, <2>1, <2>2 DEF Places, TypeOK
    <3>3. served' \in [Runs -> Seq(Handlers)] /\ entitled' \in [Runs -> HandlerLists]
      BY <1>1, <1>2, <1>3, <2>1, <2>4 DEF Places
    <3> QED
      BY <1>1, <1>2, <2>1, <3>1, <3>2, <3>3 DEF Places
  <2>7. /\ stage'[x] = stage[x] /\ pc'[x] = "handling" /\ event'[x] = event[x]
        /\ list'[x] = list[x] /\ served'[x] = first /\ entitled'[x] = Found(x)
        /\ array'[x] = cleared /\ copy'[x] = copied /\ handlers' = handlers
    BY <1>1, <1>2, <2>1 DEF Places, registry
  <2>8. Walked(x)' = Found(x)
    <3>1. Name(x)' = Name(x)
      BY <2>7 DEF Name
    <3> QED
      BY <1>2, <2>5, <2>7, <3>1 DEF Walked, Found
  <2>9. Continues(Found(x), Found(x))
    BY <1>3 DEF Continues
  <2>10. Walks(x)'
    BY <1>2, <1>4, <2>4, <2>5, <2>7, <2>8, <2>9 DEF Walks
  <2>11. \A y \in Runs \ {x} :
          /\ stage'[y] = stage[y] /\ pc'[y] = pc[y] /\ event'[y] = event[y]
          /\ array'[y] = array[y] /\ copy'[y] = copy[y]
          /\ served'[y] = served[y] /\ entitled'[y] = entitled[y]
    BY <1>1, <1>2, <2>1 DEF Places
  <2> QED
    BY <1>2, <2>6, <2>10, <2>11, OneRun
<1> QED
  BY <1>5, <1>6

(* The next element of what is walked is called, and not one that was      *)
(* called already (DomainEventManager.ts:25, EventEmitterEventBus.ts:19).  *)
LEMMA CallNextStep ==
  ASSUME DispatchInv, NEW x \in Runs, CallNext(x)
  PROVE  DispatchInv'
<1>1. TypeOK /\ Walks(x) /\ Places
  BY DEF DispatchInv, TypeOK, Places
<1>2. PICK h \in NextHandler(x) :
        /\ served' = [served EXCEPT ![x] = Append(served[x], h)]
        /\ pc[x] = "between" /\ pc' = [pc EXCEPT ![x] = "handling"]
        /\ UNCHANGED <<registry, list, stage, event, array, copy, entitled>>
  BY DEF CallNext
<1>3. /\ stage[x] \in {"dispatch", "publish"} /\ event[x] <= Len(list[x])
      /\ Continues(served[x], Walked(x))
      /\ stage[x] = "dispatch" => Continues(entitled[x], Walked(x))
      /\ stage[x] = "publish" => entitled[x] = copy[x]
  BY <1>1, <1>2 DEF Walks
<1>4. Walked(x) \in Seq(Handlers) /\ IsInjective(Walked(x))
  BY <1>1, <1>3, WalkedType, HandlerListsAreInjective
<1>5. served[x] \in Seq(Handlers) /\ Len(served[x]) \in Nat
  BY <1>1 DEF TypeOK
<1> DEFINE i == Len(served[x]) + 1
           after == Append(served[x], h)
<1>6. i \in DOMAIN Walked(x) /\ h = Walked(x)[i] /\ h \in Handlers
  <2>1. i \in DOMAIN Walked(x) /\ h = Walked(x)[i]
    BY <1>2 DEF NextHandler
  <2> QED
    BY <1>4, <2>1, ElementOfSeq
<1>7. /\ after \in Seq(Handlers) /\ Len(after) = i
      /\ \A j \in 1..Len(served[x]) : after[j] = served[x][j]
      /\ after[i] = h
  BY <1>5, <1>6, AppendProperties
<1>8. Len(served[x]) \in Nat /\ i = Len(served[x]) + 1 /\ i <= Len(Walked(x))
  BY <1>4, <1>5, <1>6
<1> HIDE DEF i, after
<1>9. \A j \in 1..i : after[j] = Walked(x)[j]
  BY <1>3, <1>6, <1>7, <1>8 DEF Continues
<1>10. Continues(after, Walked(x))
  BY <1>7, <1>8, <1>9 DEF Continues
<1>11. IsInjective(after)
  <2>1. DOMAIN after = 1..i /\ 1..i \subseteq DOMAIN Walked(x)
    BY <1>4, <1>7, <1>8
  <2> QED
    BY <1>4, <1>9, <2>1 DEF IsInjective
<1>12. /\ stage'[x] = stage[x] /\ pc'[x] = "handling" /\ event'[x] = event[x]
       /\ list'[x] = list[x] /\ served'[x] = after /\ entitled'[x] = entitled[x]
       /\ array'[x] = array[x] /\ copy'[x] = copy[x] /\ handlers' = handlers
  BY <1>1, <1>2 DEF Places, registry, after
<1>13. Walked(x)' = Walked(x)
  <2>1. Name(x)' = Name(x)
    BY <1>12 DEF Name
  <2> QED
    BY <1>12, <2>1 DEF Walked
<1>14. Walks(x)'
  <2>1. event'[x] <= Len(list'[x]) + 1
    BY <1>1, <1>12 DEF Walks
  <2> QED
    BY <1>3, <1>10, <1>11, <1>12, <1>13, <2>1 DEF Walks
<1>15. Places'
  <2>1. served' \in [Runs -> Seq(Handlers)]
    BY <1>1, <1>2, <1>7 DEF Places, after
  <2> QED
    BY <1>1, <1>2, <2>1 DEF Places
<1>16. \A y \in Runs \ {x} :
          /\ stage'[y] = stage[y] /\ pc'[y] = pc[y] /\ event'[y] = event[y]
          /\ array'[y] = array[y] /\ copy'[y] = copy[y]
          /\ served'[y] = served[y] /\ entitled'[y] = entitled[y]
  BY <1>1, <1>2 DEF Places
<1> QED
  BY <1>2, <1>14, <1>15, <1>16, OneRun

(* The other steps of a loop: a handler settles, the loop leaves the event,*)
(* or the execution goes on to the next loop or to the store               *)
(* (ApplicationService.ts:41-42).                                          *)
LEMMA SettlesStep ==
  ASSUME DispatchInv, NEW x \in Runs,
         \/ Start(x) \/ HandlerResolves(x) \/ HandlerRejects(x)
         \/ LeaveEvent(x) \/ LeaveLoop(x)
  PROVE  DispatchInv'
<1>1. TypeOK /\ Walks(x) /\ Places
  BY DEF DispatchInv, TypeOK, Places
<1>2. /\ UNCHANGED <<registry, list, array, served, entitled>>
      /\ \A y \in Runs \ {x} :
           /\ stage'[y] = stage[y] /\ pc'[y] = pc[y] /\ event'[y] = event[y]
           /\ array'[y] = array[y] /\ copy'[y] = copy[y]
           /\ served'[y] = served[y] /\ entitled'[y] = entitled[y]
  BY <1>1 DEF Places, walk, Start, HandlerResolves, HandlerRejects, LeaveEvent, LeaveLoop
<1>3. /\ Len(list[x]) \in Nat /\ Len(list[x]) <= MaxEvents
      /\ event[x] \in Nat /\ event[x] >= 1
  BY <1>1, NamesOfEvents
<1>4. event[x] <= Len(list[x]) + 1 /\ IsInjective(served[x])
  BY <1>1 DEF Walks
<1>5. CASE Start(x)
  <2>1. /\ stage[x] = "idle" /\ stage' = [stage EXCEPT ![x] = "dispatch"]
        /\ UNCHANGED <<pc, event, copy>>
    BY <1>5 DEF Start, walk
  <2>2. Places'
    BY <1>1, <1>2, <2>1 DEF Places
  <2>3. pc[x] \notin {"handling", "between"}
    BY <1>1, <2>1 DEF Walks
  <2>4. Walks(x)'
    BY <1>2, <1>4, <2>1, <2>3 DEF Walks
  <2> QED
    BY <1>2, <2>2, <2>4, OneRun
<1>6. CASE HandlerResolves(x)
  <2>1. /\ pc[x] = "handling" /\ pc' = [pc EXCEPT ![x] = "between"]
        /\ UNCHANGED <<stage, event, copy>>
    BY <1>6 DEF HandlerResolves, walk
  <2>2. Places'
    BY <1>1, <1>2, <2>1 DEF Places
  <2>3. Walked(x)' = Walked(x)
    BY <1>2, <2>1 DEF Walked, Name, registry
  <2>4. Walks(x)'
    BY <1>1, <1>2, <2>1, <2>3 DEF Walks
  <2> QED
    BY <1>2, <2>2, <2>4, OneRun
<1>7. CASE HandlerRejects(x)
  <2>1. /\ pc' = [pc EXCEPT ![x] = "threw"] /\ stage' = [stage EXCEPT ![x] = "over"]
        /\ UNCHANGED <<event, copy>>
    BY <1>7 DEF HandlerRejects, walk
  <2>2. Places'
    BY <1>1, <1>2, <2>1 DEF Places
  <2>3. pc'[x] = "threw"
    BY <1>1, <2>1 DEF Places
  <2>4. Walks(x)'
    BY <1>2, <1>4, <2>1, <2>3 DEF Walks
  <2> QED
    BY <1>2, <2>2, <2>4, OneRun
<1>8. CASE LeaveEvent(x)
  <2>1. /\ pc[x] = "between" /\ pc' = [pc EXCEPT ![x] = "next"]
        /\ event' = [event EXCEPT ![x] = event[x] + 1]
        /\ copy' = [copy EXCEPT ![x] = <<>>]
        /\ stage' = stage
    BY <1>8 DEF LeaveEvent
  <2>2. event[x] <= Len(list[x])
    BY <1>1, <2>1 DEF Walks
  <2>3. event[x] + 1 \in 1..(MaxEvents + 1)
    BY <1>3, <2>2, BoundsAssumption
  <2>4. Places'
    BY <1>1, <1>2, <2>1, <2>3, NoHandler DEF Places
  <2>5. pc'[x] = "next" /\ event'[x] = event[x] + 1
    BY <1>1, <2>1 DEF Places
  <2>6. event'[x] <= Len(list'[x]) + 1
    BY <1>2, <1>3, <2>2, <2>5
  <2>7. Walks(x)'
    BY <1>2, <1>4, <2>5, <2>6 DEF Walks
  <2> QED
    BY <1>2, <2>4, <2>7, OneRun
<1>9. CASE LeaveLoop(x)
  <2> DEFINE after == IF stage[x] = "dispatch" THEN "publish" ELSE "over"
  <2>1. /\ pc[x] = "next" /\ stage' = [stage EXCEPT ![x] = after]
        /\ event' = [event EXCEPT ![x] = 1]
        /\ UNCHANGED <<pc, copy>>
    BY <1>9 DEF LeaveLoop, walk
  <2>2. after \in {"publish", "over"} /\ 1 \in 1..(MaxEvents + 1)
    BY BoundsAssumption
  <2> HIDE DEF after
  <2>3. Places'
    BY <1>1, <1>2, <2>1, <2>2 DEF Places
  <2>4. event'[x] = 1
    BY <1>1, <2>1 DEF Places
  <2>5. Walks(x)'
    BY <1>2, <1>3, <1>4, <2>1, <2>4 DEF Walks
  <2> QED
    BY <1>2, <2>3, <2>5, OneRun
<1> QED
  BY <1>5, <1>6, <1>7, <1>8, <1>9

(* Every step keeps the invariant.                                         *)
LEMMA DispatchStep ==
  ASSUME DispatchInv, [Next]_vars
  PROVE  DispatchInv'
<1>1. ASSUME NEW x \in Runs, Start(x) \/ Deliver(x)
      PROVE  DispatchInv'
  BY <1>1, TakeEventStep, CallNextStep, SettlesStep DEF Deliver
<1>2. CASE UNCHANGED vars
  <2>1. TypeOK' /\ Places
    BY <1>2 DEF DispatchInv, TypeOK, Places, vars, registry, walk
  <2>2. ArraysApart'
    BY <1>2 DEF DispatchInv, ArraysApart, vars, registry
  <2>3. \A x \in Runs : Walks(x)'
    BY <1>2, StandsStill DEF DispatchInv, vars, registry, walk
  <2> QED
    BY <2>1, <2>2, <2>3 DEF DispatchInv
<1> QED
  BY <1>1, <1>2, RegistryStep DEF Next, Finished

(* The invariant holds always.                                             *)
LEMMA DispatchInvariant == Spec => []DispatchInv
<1> QED
  BY DispatchInit, DispatchStep, PTL DEF Spec

-----------------------------------------------------------------------------
(* The theorems.                                                           *)

(* No array and no copy has a handler twice, and each loop is at an event  *)
(* of its list or behind the last one (DomainEventManager.ts:8-17).        *)
THEOREM DispatchTypeCorrect == Spec => []TypeOK
<1> QED
  BY DispatchInvariant, PTL DEF DispatchInv

(* Nobody is called twice with one event, however the array grows under    *)
(* the loop (DomainEventManager.ts:14,25).                                 *)
THEOREM HandlersServedOnce == Spec => []ServedOnce
<1>1. ASSUME DispatchInv
      PROVE  ServedOnce
  BY <1>1 DEF DispatchInv, Walks, ServedOnce
<1> QED
  BY <1>1, DispatchInvariant, PTL

(* What a step that leaves an event owes to those it found when it took it.*)
LEMMA LeavingStep ==
  ASSUME DispatchInv, [Next]_vars, NEW x \in Runs, event'[x] = event[x] + 1
  PROVE  IF stage[x] = "publish" THEN served'[x] = entitled'[x]
         ELSE IsPrefix(entitled'[x], served'[x])
<1>1. TypeOK /\ Walks(x) /\ Places
  BY DEF DispatchInv, TypeOK, Places
<1>2. event[x] \in Nat /\ event[x] >= 1
  BY <1>1, NamesOfEvents
<1>3. TakeEvent(x) \/ LeaveEvent(x)
  <2>1. event' # event /\ event'[x] # event[x] /\ event'[x] # 1
    BY <1>2
  <2>2. PICK y \in Runs : Start(y) \/ Deliver(y)
    BY <2>1 DEF Next, Finished, Register, Subscribe, Clear, vars
  <2>3. TakeEvent(y) \/ LeaveEvent(y) \/ LeaveLoop(y)
    BY <2>1, <2>2 DEF Deliver, Start, HandlerResolves, HandlerRejects, CallNext
  <2>4. \E e : event' = [event EXCEPT ![y] = e]
    BY <2>1, <2>3 DEF TakeEvent, LeaveEvent, LeaveLoop
  <2>5. y = x
    BY <1>1, <2>1, <2>4 DEF Places
  <2>6. ~LeaveLoop(x)
    BY <1>1, <2>1 DEF Places, LeaveLoop
  <2> QED
    BY <2>3, <2>5, <2>6
<1>4. CASE TakeEvent(x)
  <2>1. event' # event
    BY <1>2
  <2>2. Found(x) = <<>> /\ served' = [served EXCEPT ![x] = <<>>]
                        /\ entitled' = [entitled EXCEPT ![x] = Found(x)]
    BY <1>4, <2>1 DEF TakeEvent
  <2>3. served'[x] = <<>> /\ entitled'[x] = <<>>
    BY <1>1, <2>2 DEF Places
  <2>4. <<>> \in Seq(Handlers) /\ Continues(<<>>, <<>>)
    BY NoHandler, HandlerListsAreInjective DEF Continues
  <2> QED
    BY <2>3, <2>4, PrefixContinues
<1>5. CASE LeaveEvent(x)
  <2>1. /\ pc[x] = "between" /\ NextHandler(x) = {}
        /\ served' = served /\ entitled' = entitled
    BY <1>5 DEF LeaveEvent
  <2>2. /\ stage[x] \in {"dispatch", "publish"} /\ event[x] <= Len(list[x])
        /\ Continues(served[x], Walked(x))
        /\ stage[x] = "dispatch" => Continues(entitled[x], Walked(x))
        /\ stage[x] = "publish" => entitled[x] = copy[x]
    BY <1>1, <2>1 DEF Walks
  <2>3. /\ Walked(x) \in Seq(Handlers) /\ served[x] \in Seq(Handlers)
        /\ entitled[x] \in Seq(Handlers)
    BY <1>1, <2>2, WalkedType, HandlerListsAreInjective DEF TypeOK
  <2>4. Len(served[x]) + 1 \notin DOMAIN Walked(x)
    BY <2>1 DEF NextHandler
  <2>5. Len(Walked(x)) = Len(served[x])
    BY <2>2, <2>3, <2>4 DEF Continues
  <2>6. Walked(x) = served[x]
    BY <2>2, <2>3, <2>5, SeqEqual DEF Continues
  <2>7. CASE stage[x] = "publish"
    BY <2>1, <2>2, <2>6, <2>7 DEF Walked
  <2>8. CASE stage[x] = "dispatch"
    BY <2>1, <2>2, <2>3, <2>6, <2>8, PrefixContinues
  <2> QED
    BY <2>2, <2>7, <2>8
<1> QED
  BY <1>3, <1>4, <1>5

(* Whoever was registered when an event was taken is called with it before *)
(* the loop leaves it, in the order of registration and before any later   *)
(* one, even when clear is called meanwhile (DomainEventManager.ts:25,37); *)
(* the bus calls nobody else (EventEmitterEventBus.ts:19).                 *)
THEOREM RegisteredAreServed == Spec => EntitledAreServed
<1>1. ASSUME DispatchInv, [Next]_vars
      PROVE  [\A x \in Runs : event'[x] = event[x] + 1 =>
                IF stage[x] = "publish" THEN served'[x] = entitled'[x]
                ELSE IsPrefix(entitled'[x], served'[x])]_vars
  BY <1>1, LeavingStep
<1> QED
  BY <1>1, DispatchInvariant, PTL DEF Spec, EntitledAreServed

(* The first handler called for an event that was taken after clear is none*)
(* from before it, not even by way of an array an older dispatch still     *)
(* walks                                                                   *)
(* (DomainEventManager.ts:36-38).                                          *)
THEOREM ClearedHandlersStayQuiet == Spec => ClearedStayQuiet
<1>1. ASSUME DispatchInv, [Next]_vars, NEW x \in Runs,
             stage[x] = "dispatch", pc[x] = "next", pc'[x] = "handling"
      PROVE  ToSet(served'[x]) \cap Forgotten = {}
  <2>1. TypeOK /\ ArraysApart /\ Places
    BY <1>1 DEF DispatchInv, TypeOK, Places
  <2>2. TakeEvent(x)
    <3>1. pc' # pc
      BY <1>1
    <3>2. PICK y \in Runs : Start(y) \/ Deliver(y)
      BY <1>1, <3>1 DEF Next, Finished, Register, Subscribe, Clear, vars
    <3>3. /\ \E to : pc' = [pc EXCEPT ![y] = to]
          /\ TakeEvent(y) \/ pc[y] # "next"
      BY <3>1, <3>2 DEF Deliver, Start, TakeEvent, HandlerResolves, HandlerRejects, CallNext,
                        LeaveEvent, LeaveLoop
    <3>4. y = x
      BY <1>1, <2>1, <3>3 DEF Places
    <3> QED
      BY <1>1, <3>3, <3>4
  <2>3. /\ event[x] <= Len(list[x]) /\ Found(x) # <<>>
        /\ served' = [served EXCEPT ![x] = <<Head(Found(x))>>]
    BY <1>1, <2>2 DEF TakeEvent
  <2>4. Name(x) \in Names /\ cleared \in Generations
    BY <2>1, <2>3, NamesOfEvents DEF TypeOK
  <2>5. Found(x) = handlers[cleared][Name(x)] /\ Found(x) \in Seq(Handlers)
    BY <1>1, <2>1, <2>3, WalkedType, HandlerListsAreInjective DEF Found
  <2>6. Head(Found(x)) \in ToSet(Found(x))
    <3>1. Head(Found(x)) = Found(x)[1] /\ Len(Found(x)) >= 1 /\ Len(Found(x)) \in Nat
      BY <2>3, <2>5, EmptySeq
    <3> QED
      BY <2>5, <3>1 DEF ToSet
  <2>7. \A g \in 0..(cleared - 1) : g \in Generations /\ g # cleared
    BY <2>4, BoundsAssumption DEF Generations
  <2>8. \A g \in 0..(cleared - 1), n \in Names : Head(Found(x)) \notin ToSet(handlers[g][n])
    BY <2>1, <2>4, <2>5, <2>6, <2>7 DEF ArraysApart
  <2>9. ToSet(served'[x]) = {Head(Found(x))}
    BY <2>1, <2>3 DEF Places, ToSet
  <2> QED
    BY <2>8, <2>9 DEF Forgotten
<1>2. ASSUME DispatchInv, [Next]_vars
      PROVE  [\A x \in Runs :
                stage[x] = "dispatch" /\ pc[x] = "next" /\ pc'[x] = "handling" =>
                  ToSet(served'[x]) \cap Forgotten = {}]_vars
  BY <1>1, <1>2
<1> QED
  BY <1>2, DispatchInvariant, PTL DEF Spec, ClearedStayQuiet
=============================================================================
