--------------------------- MODULE MikroOrmProofs ---------------------------
(***************************************************************************)
(* Lemmas about the flushes of MikroOrm, for any number of executions and  *)
(* EntityManagers: a flush is in one place, and what it was called for is  *)
(* not lost on the way. The modules that compose MikroOrm with the requests*)
(* state the theorems.                                                     *)
(***************************************************************************)
EXTENDS MikroOrm, SequenceTheorems, TLAPS

-----------------------------------------------------------------------------
(* Queues.                                                                 *)

InQueue(s, x) == \E i \in 1 .. Len(s) : s[i] = x
NoneTwice(s) == \A i, j \in 1 .. Len(s) : s[i] = s[j] => i = j

LEMMA AppendQueue ==
  ASSUME NEW S, NEW s \in Seq(S), NEW z \in S
  PROVE  /\ Append(s, z) \in Seq(S)
         /\ \A x : InQueue(Append(s, z), x) <=> InQueue(s, x) \/ x = z
         /\ NoneTwice(s) /\ ~InQueue(s, z) => NoneTwice(Append(s, z))
<1>1. /\ Append(s, z) \in Seq(S) /\ Len(s) \in Nat /\ Len(Append(s, z)) = Len(s) + 1
      /\ \A i \in 1 .. Len(s) : Append(s, z)[i] = s[i]
      /\ Append(s, z)[Len(s) + 1] = z
  BY AppendProperties, LenProperties
<1>2. \A i : i \in 1 .. Len(Append(s, z)) <=> i \in 1 .. Len(s) \/ i = Len(s) + 1
  BY <1>1
<1> HIDE DEF InQueue
<1>3. \A x : InQueue(Append(s, z), x) <=> InQueue(s, x) \/ x = z
  BY <1>1, <1>2 DEF InQueue
<1>4. ASSUME NoneTwice(s), ~InQueue(s, z)
      PROVE  NoneTwice(Append(s, z))
  BY <1>1, <1>2, <1>4 DEF InQueue, NoneTwice
<1> QED
  BY <1>1, <1>3, <1>4

LEMMA TailQueue ==
  ASSUME NEW S, NEW s \in Seq(S), s # <<>>
  PROVE  /\ Head(s) \in S /\ Tail(s) \in Seq(S) /\ InQueue(s, Head(s))
         /\ \A x : InQueue(s, x) <=> x = Head(s) \/ InQueue(Tail(s), x)
         /\ NoneTwice(s) => NoneTwice(Tail(s)) /\ ~InQueue(Tail(s), Head(s))
<1>1. /\ Head(s) \in S /\ Tail(s) \in Seq(S) /\ Head(s) = s[1]
      /\ Len(s) \in Nat \ {0} /\ Len(Tail(s)) = Len(s) - 1
      /\ \A i \in 1 .. Len(Tail(s)) : Tail(s)[i] = s[i+1]
  BY HeadTailProperties, EmptySeq, LenProperties
<1>2. /\ 1 \in 1 .. Len(s)
      /\ \A i \in 1 .. Len(s) : i = 1 \/ (i - 1 \in 1 .. Len(Tail(s)) /\ (i - 1) + 1 = i)
      /\ \A i \in 1 .. Len(Tail(s)) : i + 1 \in 1 .. Len(s) /\ i + 1 # 1
  BY <1>1
<1>3. InQueue(s, Head(s))
  BY <1>1, <1>2 DEF InQueue
<1>4. ASSUME NEW x
      PROVE  InQueue(s, x) <=> x = Head(s) \/ InQueue(Tail(s), x)
  <2>1. ASSUME NEW i \in 1 .. Len(s), s[i] = x
        PROVE  x = Head(s) \/ InQueue(Tail(s), x)
    BY <1>1, <1>2, <2>1 DEF InQueue
  <2>2. ASSUME NEW i \in 1 .. Len(Tail(s)), Tail(s)[i] = x
        PROVE  InQueue(s, x)
    BY <1>1, <1>2, <2>2 DEF InQueue
  <2> QED
    BY <1>3, <2>1, <2>2 DEF InQueue
<1>5. ASSUME NoneTwice(s)
      PROVE  NoneTwice(Tail(s)) /\ ~InQueue(Tail(s), Head(s))
  <2>1. ASSUME NEW i \in 1 .. Len(Tail(s)), NEW j \in 1 .. Len(Tail(s)), Tail(s)[i] = Tail(s)[j]
        PROVE  i = j
    <3>1. s[i+1] = s[j+1] /\ i + 1 \in 1 .. Len(s) /\ j + 1 \in 1 .. Len(s)
      BY <1>1, <1>2, <2>1
    <3>2. i + 1 = j + 1
      BY <1>5, <3>1 DEF NoneTwice
    <3> QED
      BY <3>2
  <2>2. ASSUME NEW i \in 1 .. Len(Tail(s)), Tail(s)[i] = Head(s)
        PROVE  FALSE
    BY <1>1, <1>2, <1>5, <2>2 DEF NoneTwice
  <2> QED
    BY <2>1, <2>2 DEF NoneTwice, InQueue
<1> QED
  BY <1>1, <1>3, <1>4, <1>5

-----------------------------------------------------------------------------
(* The invariant.                                                          *)

(* Those that wait for a flush.                                            *)
Flushers == resolved \cup rejected \cup
              {x \in Executions : \E em \in EntityManagers : Flushing(x, em)}

(* A flush runs, writes or is queued in one EntityManager, until it has    *)
(* settled one way; who serves the queue is there as long as somebody      *)
(* writes.                                                                 *)
Places ==
  /\ \A em \in EntityManagers :
       /\ runner[em] = Nobody <=> writer[em] = Nobody
       /\ NoneTwice(flushQueue[em])
       /\ ~Queued(runner[em], em) /\ ~Queued(writer[em], em)
  /\ resolved \cap rejected = {}
  /\ \A em \in EntityManagers : \A x \in Executions :
       Flushing(x, em) =>
         /\ x \notin resolved \cup rejected
         /\ \A other \in EntityManagers : Flushing(x, other) => other = em

(* Where the entity of a flush is on its way to the table, if no clear has *)
(* found it.                                                               *)
Done == systemEvents \cup cleared
Flow ==
  /\ \A em \in EntityManagers :
       /\ writer[em] # Nobody => writer[em] \in batch[em] \cup Done
       /\ runner[em] \notin {Nobody, writer[em]} => runner[em] \in Done
       /\ \A x \in Executions : Flushing(x, em) => x \in pending[em] \cup Done
  /\ resolved \subseteq Done

OrmInv == TypeOK /\ Places /\ Flow

LEMMA OrmStarts ==
  ASSUME Init, Nobody \notin Executions
  PROVE  OrmInv /\ Flushers = {}
<1> USE DEF Init
<1>1. TypeOK
  BY EmptySeq DEF TypeOK, EntityManagers
<1>2. \A em \in EntityManagers : \A x : ~Queued(x, em)
  BY EmptySeq DEF Queued
<1>3. \A em \in EntityManagers : \A x \in Executions : ~Flushing(x, em)
  BY <1>2 DEF Flushing
<1>4. \A em \in EntityManagers : NoneTwice(flushQueue[em])
  BY EmptySeq DEF NoneTwice
<1> QED
  BY <1>1, <1>2, <1>3, <1>4 DEF OrmInv, Places, Flow, Flushers

(* Nothing that flushes has changed.                                       *)
LEMMA PlacesKept ==
  ASSUME Places, UNCHANGED flushVars
  PROVE  /\ Places' /\ Flushers' = Flushers
         /\ \A x, em : (Queued(x, em)' <=> Queued(x, em)) /\ (Flushing(x, em)' <=> Flushing(x, em))
<1>1. \A x, em : (Queued(x, em)' <=> Queued(x, em)) /\ (Flushing(x, em)' <=> Flushing(x, em))
  BY DEF flushVars, Queued, Flushing
<1>2. Flushers' = Flushers
  BY <1>1 DEF flushVars, Flushers
<1>3. Places'
  BY <1>1 DEF Places, flushVars, NoneTwice
<1> QED
  BY <1>1, <1>2, <1>3

(* fork, persist and clear.                                                *)
LEMMA ForkKeeps ==
  ASSUME OrmInv, NEW x \in Executions, Fork(x)
  PROVE  OrmInv' /\ Flushers' = Flushers
<1>1. UNCHANGED <<pending, flushVars, systemEvents, cleared>> /\ entityManager' \in EntityManagers
  BY DEF Fork, EntityManagers
<1>2. TypeOK'
  BY <1>1 DEF OrmInv, TypeOK, flushVars
<1>3. Flow'
  BY <1>1, PlacesKept DEF OrmInv, Flow, Done, flushVars
<1> QED
  BY <1>1, <1>2, <1>3, PlacesKept DEF OrmInv

LEMMA PersistKeeps ==
  ASSUME OrmInv, NEW entities \in SUBSET Executions, Persist(entities)
  PROVE  /\ OrmInv' /\ Flushers' = Flushers /\ entityManager' = entityManager
         /\ pending'[entityManager] = pending[entityManager] \cup entities
         /\ UNCHANGED <<rejected, runner, systemEvents, cleared>>
<1>1. /\ pending' = [pending EXCEPT ![entityManager] = @ \cup entities]
      /\ UNCHANGED <<entityManager, flushVars, systemEvents, cleared>>
  BY DEF Persist
<1>2. TypeOK'
  BY <1>1 DEF OrmInv, TypeOK, flushVars
<1>3. \A em \in EntityManagers : pending[em] \subseteq pending'[em]
  BY <1>1 DEF OrmInv, TypeOK
<1>4. Flow'
  BY <1>1, <1>3, PlacesKept DEF OrmInv, Flow, Done, flushVars
<1>5. pending'[entityManager] = pending[entityManager] \cup entities
  BY <1>1 DEF OrmInv, TypeOK
<1> QED
  BY <1>1, <1>2, <1>4, <1>5, PlacesKept DEF OrmInv, flushVars

LEMMA ClearKeeps ==
  ASSUME OrmInv, Clear
  PROVE  /\ OrmInv' /\ Flushers' = Flushers /\ entityManager' = entityManager
         /\ \A em \in EntityManagers : pending[em] \cup Done \subseteq pending'[em] \cup Done'
         /\ Done \subseteq Done' /\ UNCHANGED <<rejected, runner>>
<1>1. /\ pending' = [pending EXCEPT ![entityManager] = {}]
      /\ cleared' = cleared \cup pending[entityManager]
      /\ UNCHANGED <<entityManager, flushVars, systemEvents>>
  BY DEF Clear, Forget
<1>2. TypeOK'
  BY <1>1 DEF OrmInv, TypeOK, flushVars
<1>3. /\ \A em \in EntityManagers : pending[em] \cup Done \subseteq pending'[em] \cup Done'
      /\ Done \subseteq Done'
  BY <1>1 DEF OrmInv, TypeOK, Done
<1>4. Flow'
  <2>1. ASSUME NEW em \in EntityManagers
        PROVE  /\ writer'[em] # Nobody => writer'[em] \in batch'[em] \cup Done'
               /\ runner'[em] \notin {Nobody, writer'[em]} => runner'[em] \in Done'
               /\ \A x \in Executions : Flushing(x, em)' => x \in pending'[em] \cup Done'
    BY <1>1, <1>3, PlacesKept DEF OrmInv, Flow, flushVars
  <2>2. resolved' \subseteq Done'
    BY <1>1, <1>3 DEF OrmInv, Flow, flushVars
  <2> QED
    BY <2>1, <2>2 DEF Flow
<1> QED
  BY <1>1, <1>2, <1>3, <1>4, PlacesKept DEF OrmInv, flushVars

(* A flush finds nobody working, or is queued.                             *)
LEMMA FlushKeeps ==
  ASSUME OrmInv, Nobody \notin Executions, NEW x \in Executions, x \notin Flushers, Flush(x),
         x \in pending[entityManager] \cup Done
  PROVE  /\ OrmInv' /\ Flushers' = Flushers \cup {x}
         /\ UNCHANGED <<entityManager, pending, rejected, systemEvents, cleared>>
         /\ \A em \in EntityManagers : runner[em] # Nobody => runner'[em] = runner[em]
         /\ \A y, em : Queued(y, em)' =>
              \/ Queued(y, em)
              \/ y = x /\ runner[em] # Nobody
<1> DEFINE here == entityManager
<1>1. /\ UNCHANGED <<entityManager, pending, resolved, rejected, systemEvents, cleared>>
      /\ \/ /\ runner[here] = Nobody
            /\ runner' = [runner EXCEPT ![here] = x] /\ writer' = [writer EXCEPT ![here] = x]
            /\ batch' = [batch EXCEPT ![here] = pending[here]]
            /\ UNCHANGED flushQueue
         \/ /\ runner[here] # Nobody
            /\ flushQueue' = [flushQueue EXCEPT ![here] = Append(@, x)]
            /\ UNCHANGED <<runner, writer, batch>>
  BY DEF Flush
<1>2. TypeOK /\ Places /\ Flow
  BY DEF OrmInv
<1>3. /\ here \in EntityManagers /\ \A em \in EntityManagers : flushQueue[em] \in Seq(Executions)
      /\ x \notin resolved \cup rejected /\ \A em \in EntityManagers : ~Flushing(x, em)
  BY <1>2 DEF TypeOK, Flushers
<1>4. \A em \in EntityManagers : ~Queued(x, em) /\ x \notin {runner[em], writer[em]}
  BY <1>3 DEF Flushing
<1>5. TypeOK'
  <2>0. flushQueue \in [EntityManagers -> Seq(Executions)] /\ flushQueue[here] \in Seq(Executions)
    BY <1>2, <1>3 DEF TypeOK
  <2>1. flushQueue' \in [EntityManagers -> Seq(Executions)]
    <3>1. Append(flushQueue[here], x) \in Seq(Executions)
      BY <2>0, AppendQueue
    <3> QED
      BY <1>1, <2>0, <3>1
  <2>2. /\ runner \in [EntityManagers -> Executions \cup {Nobody}]
        /\ writer \in [EntityManagers -> Executions \cup {Nobody}]
        /\ batch \in [EntityManagers -> SUBSET Executions]
        /\ pending[here] \in SUBSET Executions
    BY <1>2, <1>3 DEF TypeOK
  <2>3. /\ runner' \in [EntityManagers -> Executions \cup {Nobody}]
        /\ writer' \in [EntityManagers -> Executions \cup {Nobody}]
        /\ batch' \in [EntityManagers -> SUBSET Executions]
    <3> HIDE DEF here
    <3>1. CASE runner[here] = Nobody
      BY <1>1, <1>3, <2>2, <3>1
    <3>2. CASE runner[here] # Nobody
      BY <1>1, <2>2, <3>2
    <3> QED
      BY <3>1, <3>2
  <2>4. /\ entityManager' \in EntityManagers /\ pending' \in [EntityManagers -> SUBSET Executions]
        /\ resolved' \in SUBSET Executions /\ rejected' \in SUBSET Executions
        /\ systemEvents' \in SUBSET Executions /\ cleared' \in SUBSET Executions
    BY <1>1, <1>2 DEF TypeOK
  <2> QED
    BY <2>1, <2>3, <2>4 DEF TypeOK
<1>6. ASSUME runner[here] = Nobody
      PROVE  /\ runner'[here] = x /\ writer'[here] = x /\ batch'[here] = pending[here]
             /\ \A em \in EntityManagers : em # here =>
                  runner'[em] = runner[em] /\ writer'[em] = writer[em] /\ batch'[em] = batch[em]
             /\ flushQueue' = flushQueue /\ writer[here] = Nobody
             /\ \A y, em : Queued(y, em)' <=> Queued(y, em)
  BY <1>1, <1>2, <1>3, <1>6 DEF TypeOK, Places, Queued
<1>7. ASSUME runner[here] # Nobody
      PROVE  /\ UNCHANGED <<runner, writer, batch>>
             /\ \A em \in EntityManagers : NoneTwice(flushQueue'[em])
             /\ \A y : \A em \in EntityManagers :
                  Queued(y, em)' <=> Queued(y, em) \/ (y = x /\ em = here)
             /\ \A y, em : em \notin EntityManagers => (Queued(y, em)' <=> Queued(y, em))
  <2>1. /\ UNCHANGED <<runner, writer, batch>>
        /\ flushQueue' = [flushQueue EXCEPT ![here] = Append(@, x)]
    BY <1>1, <1>7
  <2>2. /\ flushQueue'[here] = Append(flushQueue[here], x)
        /\ \A em : em # here => flushQueue'[em] = flushQueue[em]
    BY <1>2, <1>3, <2>1 DEF TypeOK
  <2>3. \A y, em : /\ Queued(y, em) <=> InQueue(flushQueue[em], y)
                   /\ Queued(y, em)' <=> InQueue(flushQueue'[em], y)
    BY DEF Queued, InQueue
  <2> HIDE DEF here
  <2>4. ASSUME NEW em \in EntityManagers
        PROVE  NoneTwice(flushQueue'[em])
    <3>1. NoneTwice(flushQueue[em])
      BY <1>2 DEF Places
    <3>2. CASE em = here
      <4>1. ~InQueue(flushQueue[here], x) /\ flushQueue[here] \in Seq(Executions)
        BY <1>3, <1>4, <2>3
      <4>2. NoneTwice(Append(flushQueue[here], x))
        <5> DEFINE q == flushQueue[here]
        <5>1. q \in Seq(Executions) /\ NoneTwice(q) /\ ~InQueue(q, x)
          BY <3>1, <3>2, <4>1
        <5> HIDE DEF q
        <5>2. NoneTwice(Append(q, x))
          BY <5>1, AppendQueue
        <5> QED
          BY <5>2 DEF q
      <4> QED
        BY <2>2, <3>2, <4>2
    <3> QED
      BY <2>2, <3>1, <3>2
  <2>5. \A y : InQueue(flushQueue'[here], y) <=> InQueue(flushQueue[here], y) \/ y = x
    BY <1>3, <2>2, AppendQueue
  <2> QED
    BY <1>3, <2>1, <2>2, <2>3, <2>4, <2>5
<1>8. \A y \in Executions : \A em \in EntityManagers :
        Flushing(y, em)' <=> Flushing(y, em) \/ (y = x /\ em = here)
  <2>1. CASE runner[here] = Nobody
    BY <1>6, <2>1 DEF Flushing
  <2>2. CASE runner[here] # Nobody
    BY <1>7, <2>2 DEF Flushing
  <2> QED
    BY <2>1, <2>2
<1>9. Flushers' = Flushers \cup {x}
  BY <1>1, <1>3, <1>8 DEF Flushers, EntityManagers
<1>10. Places'
  <2>1. ASSUME NEW em \in EntityManagers
        PROVE  /\ runner'[em] = Nobody <=> writer'[em] = Nobody
               /\ NoneTwice(flushQueue'[em])
               /\ ~Queued(runner[em], em)' /\ ~Queued(writer[em], em)'
    <3>1. CASE runner[here] = Nobody
      BY <1>2, <1>4, <1>6, <3>1 DEF Places, Queued, NoneTwice
    <3>2. CASE runner[here] # Nobody
      <4>1. runner'[em] = runner[em] /\ writer'[em] = writer[em] /\ x \notin {runner[em], writer[em]}
        BY <1>4, <1>7, <3>2
      <4>2. ~Queued(runner[em], em) /\ ~Queued(writer[em], em)
        BY <1>2 DEF Places
      <4>3. \A y : Queued(y, em)' <=> Queued(y, em) \/ (y = x /\ em = here)
        BY <1>7, <3>2
      <4>4. ~Queued(runner[em], em)' /\ ~Queued(writer[em], em)'
        <5> DEFINE R == runner[em]
                   W == writer[em]
        <5>1. ~Queued(R, em)' /\ ~Queued(W, em)'
          BY <4>1, <4>2, <4>3 DEF Queued
        <5> QED
          BY <4>1, <5>1 DEF Queued
      <4> QED
        BY <1>2, <1>7, <3>2, <4>1, <4>4 DEF Places
    <3> QED
      BY <3>1, <3>2
  <2>2. resolved' \cap rejected' = {}
    BY <1>1, <1>2 DEF Places
  <2>3. ASSUME NEW em \in EntityManagers, NEW y \in Executions, Flushing(y, em)'
        PROVE  /\ y \notin resolved' \cup rejected'
               /\ \A other \in EntityManagers : Flushing(y, other)' => other = em
    BY <1>1, <1>2, <1>3, <1>8, <2>3 DEF Places
  <2> QED
    BY <2>1, <2>2, <2>3 DEF Places
<1>11. Flow'
  <2>1. Done' = Done /\ pending' = pending /\ resolved' = resolved
    BY <1>1 DEF Done
  <2>2. ASSUME NEW em \in EntityManagers
        PROVE  /\ writer'[em] # Nobody => writer'[em] \in batch'[em] \cup Done
               /\ runner'[em] \notin {Nobody, writer'[em]} => runner'[em] \in Done
    <3>1. CASE runner[here] = Nobody
      BY <1>2, <1>6, <3>1 DEF Flow
    <3>2. CASE runner[here] # Nobody
      BY <1>2, <1>7, <3>2 DEF Flow
    <3> QED
      BY <3>1, <3>2
  <2>3. \A em \in EntityManagers : \A y \in Executions : Flushing(y, em)' => y \in pending[em] \cup Done
    BY <1>2, <1>8 DEF Flow
  <2>4. resolved \subseteq Done
    BY <1>2 DEF Flow
  <2> QED
    BY <2>1, <2>2, <2>3, <2>4 DEF Flow
<1>12. \A em \in EntityManagers : runner[em] # Nobody => runner'[em] = runner[em]
  BY <1>6, <1>7
<1>13. \A y, em : Queued(y, em)' => Queued(y, em) \/ (y = x /\ runner[em] # Nobody)
  <2>1. CASE runner[here] = Nobody
    BY <1>6, <2>1
  <2>2. CASE runner[here] # Nobody
    BY <1>7, <2>2
  <2> QED
    BY <2>1, <2>2
<1> QED
  BY <1>1, <1>5, <1>9, <1>10, <1>11, <1>12, <1>13 DEF OrmInv

(* When the runner goes on, those whose promise settles are no longer      *)
(* waiting, and the next to write comes from the queue.                    *)
LEMMA ServeNextMoves ==
  ASSUME TypeOK, Places, Nobody \notin Executions, NEW em \in EntityManagers, Working(em),
         NEW left \in SUBSET Executions, ServeNext(em, left)
  PROVE  LET settled == Settling(em, {writer[em], runner[em]})
         IN /\ settled \subseteq Executions
            /\ \A x \in settled : Flushing(x, em)
            /\ \A x \in Executions : Flushing(x, em)' <=> Flushing(x, em) /\ x \notin settled
            /\ \A x \in Executions : \A e \in EntityManagers :
                 e # em => (Flushing(x, e)' <=> Flushing(x, e))
            /\ \A e \in EntityManagers : e # em =>
                 runner'[e] = runner[e] /\ writer'[e] = writer[e] /\ batch'[e] = batch[e]
            /\ runner' \in [EntityManagers -> Executions \cup {Nobody}]
            /\ writer' \in [EntityManagers -> Executions \cup {Nobody}]
            /\ batch' \in [EntityManagers -> SUBSET Executions]
            /\ flushQueue' \in [EntityManagers -> Seq(Executions)]
            /\ \A e \in EntityManagers :
                 /\ runner'[e] = Nobody <=> writer'[e] = Nobody
                 /\ NoneTwice(flushQueue'[e])
                 /\ ~Queued(runner[e], e)' /\ ~Queued(writer[e], e)'
            /\ runner'[em] \in {Nobody, runner[em]}
            /\ writer'[em] # Nobody => Queued(writer'[em], em) /\ batch'[em] = left
            /\ \A x : \A e \in EntityManagers :
                 Queued(x, e)' => Queued(x, e) /\ runner'[e] = runner[e]
<1> DEFINE q == flushQueue[em]
           R == runner[em]
           W == writer[em]
           settled == Settling(em, {W, R})
<1>1. /\ q \in Seq(Executions) /\ W \in Executions /\ R \in Executions
      /\ NoneTwice(q) /\ ~InQueue(q, R) /\ ~InQueue(q, W)
  BY DEF TypeOK, Places, Working, Queued, InQueue
<1>2. \A x, e : /\ Queued(x, e) <=> InQueue(flushQueue[e], x)
                /\ Queued(x, e)' <=> InQueue(flushQueue'[e], x)
  BY DEF Queued, InQueue
<1>3. settled = {x \in {W, R} : x = R => q = <<>>}
  BY DEF Settling
<1>4. CASE q = <<>>
  <2>1. /\ runner' = [runner EXCEPT ![em] = Nobody] /\ writer' = [writer EXCEPT ![em] = Nobody]
        /\ batch' = [batch EXCEPT ![em] = {}] /\ flushQueue' = flushQueue
    BY <1>4 DEF ServeNext
  <2>2. /\ runner'[em] = Nobody /\ writer'[em] = Nobody
        /\ \A e \in EntityManagers : e # em =>
             runner'[e] = runner[e] /\ writer'[e] = writer[e] /\ batch'[e] = batch[e]
    BY <2>1 DEF TypeOK
  <2>3. settled = {W, R} /\ \A x : ~InQueue(q, x)
    <3>1. \A x : ~InQueue(<<>>, x)
      BY EmptySeq DEF InQueue
    <3> QED
      BY <1>3, <1>4, <3>1
  <2>4. \A x, e : Queued(x, e)' <=> Queued(x, e)
    BY <1>2, <2>1
  <2>5. ASSUME NEW x \in Executions
        PROVE  /\ Flushing(x, em) <=> x \in {R, W}
               /\ ~Flushing(x, em)'
               /\ \A e \in EntityManagers : e # em => (Flushing(x, e)' <=> Flushing(x, e))
    BY <1>2, <2>2, <2>3, <2>4 DEF Flushing
  <2>6. \A x \in settled : Flushing(x, em)
    BY <1>1, <2>3, <2>5
  <2>7. ASSUME NEW e \in EntityManagers
        PROVE  /\ runner'[e] = Nobody <=> writer'[e] = Nobody
               /\ NoneTwice(flushQueue'[e])
               /\ ~Queued(runner[e], e)' /\ ~Queued(writer[e], e)'
    <3>1. \A x : InQueue(flushQueue'[e], x) <=> InQueue(flushQueue[e], x)
      BY <2>1
    <3>2. ~InQueue(flushQueue'[e], runner'[e]) /\ ~InQueue(flushQueue'[e], writer'[e])
      BY <1>2, <2>1, <2>2, <2>3, <3>1 DEF Places
    <3>3. ~Queued(runner[e], e)' /\ ~Queued(writer[e], e)'
      BY <3>2 DEF Queued, InQueue
    <3> QED
      BY <2>1, <2>2, <3>3 DEF Places
  <2>8. \A x : \A e \in EntityManagers : Queued(x, e)' => Queued(x, e) /\ runner'[e] = runner[e]
    BY <1>2, <2>2, <2>3, <2>4
  <2>9. /\ runner' \in [EntityManagers -> Executions \cup {Nobody}]
        /\ writer' \in [EntityManagers -> Executions \cup {Nobody}]
        /\ batch' \in [EntityManagers -> SUBSET Executions]
        /\ flushQueue' \in [EntityManagers -> Seq(Executions)]
    BY <2>1 DEF TypeOK
  <2> HIDE DEF settled
  <2> QED
    BY <1>1, <2>2, <2>3, <2>5, <2>6, <2>7, <2>8, <2>9 DEF settled
<1>5. CASE q # <<>>
  <2> DEFINE h == Head(q)
  <2>1. /\ runner' = runner /\ writer' = [writer EXCEPT ![em] = h]
        /\ batch' = [batch EXCEPT ![em] = left] /\ flushQueue' = [flushQueue EXCEPT ![em] = Tail(q)]
    BY <1>5 DEF ServeNext
  <2>2. /\ h \in Executions /\ Tail(q) \in Seq(Executions) /\ InQueue(q, h)
        /\ \A x : InQueue(q, x) <=> x = h \/ InQueue(Tail(q), x)
        /\ NoneTwice(Tail(q)) /\ ~InQueue(Tail(q), h)
    <3> HIDE DEF q
    <3> QED
      BY <1>1, <1>5, TailQueue
  <2> HIDE DEF h
  <2>3. /\ writer'[em] = h /\ batch'[em] = left /\ flushQueue'[em] = Tail(q)
        /\ \A e : e # em => flushQueue'[e] = flushQueue[e]
        /\ \A e \in EntityManagers : e # em => writer'[e] = writer[e] /\ batch'[e] = batch[e]
    BY <2>1 DEF TypeOK
  <2>4. settled = {W} \ {R}
    BY <1>3, <1>5
  <2>5. /\ \A x : Queued(x, em) <=> InQueue(q, x)
        /\ \A x : Queued(x, em)' <=> InQueue(Tail(q), x)
        /\ \A x, e : e # em => (Queued(x, e)' <=> Queued(x, e))
    BY <1>2, <2>3
  <2>6. ASSUME NEW x \in Executions
        PROVE  /\ Flushing(x, em) <=> x \in {R, W} \/ InQueue(q, x)
               /\ Flushing(x, em)' <=> x = R \/ InQueue(q, x)
               /\ \A e \in EntityManagers : e # em => (Flushing(x, e)' <=> Flushing(x, e))
    BY <2>1, <2>2, <2>3, <2>5 DEF Flushing
  <2>7. \A x \in Executions : Flushing(x, em)' <=> Flushing(x, em) /\ x \notin settled
    BY <1>1, <2>4, <2>6
  <2>8. \A x \in settled : Flushing(x, em)
    BY <1>1, <2>4, <2>6
  <2>9. ASSUME NEW e \in EntityManagers
        PROVE  /\ runner'[e] = Nobody <=> writer'[e] = Nobody
               /\ NoneTwice(flushQueue'[e])
               /\ ~Queued(runner[e], e)' /\ ~Queued(writer[e], e)'
    <3>1. ~InQueue(flushQueue'[e], runner'[e]) /\ ~InQueue(flushQueue'[e], writer'[e])
      <4>1. CASE e = em
        BY <1>1, <2>1, <2>2, <2>3, <4>1
      <4>2. CASE e # em
        BY <1>2, <2>1, <2>3, <4>2 DEF Places
      <4> QED
        BY <4>1, <4>2
    <3>2. ~Queued(runner[e], e)' /\ ~Queued(writer[e], e)'
      BY <3>1 DEF Queued, InQueue
    <3>3. NoneTwice(flushQueue'[e])
      BY <2>2, <2>3 DEF Places
    <3>4. runner'[e] = Nobody <=> writer'[e] = Nobody
      BY <1>1, <2>1, <2>2, <2>3 DEF Places
    <3> QED
      BY <3>2, <3>3, <3>4
  <2>10. \A x : \A e \in EntityManagers : Queued(x, e)' => Queued(x, e) /\ runner'[e] = runner[e]
    BY <2>1, <2>2, <2>5
  <2>11. /\ runner' \in [EntityManagers -> Executions \cup {Nobody}]
         /\ writer' \in [EntityManagers -> Executions \cup {Nobody}]
         /\ batch' \in [EntityManagers -> SUBSET Executions]
         /\ flushQueue' \in [EntityManagers -> Seq(Executions)]
    BY <2>1, <2>2 DEF TypeOK
  <2>12. settled \subseteq Executions
    BY <1>1, <2>4
  <2>13. Queued(writer'[em], em)
    BY <2>2, <2>3, <2>5
  <2>14. \A e \in EntityManagers : e # em =>
           runner'[e] = runner[e] /\ writer'[e] = writer[e] /\ batch'[e] = batch[e]
    BY <2>1, <2>3
  <2> HIDE DEF settled, q
  <2> QED
    BY <2>1, <2>3, <2>6, <2>7, <2>8, <2>9, <2>10, <2>11, <2>12, <2>13, <2>14 DEF settled
<1> QED
  BY <1>4, <1>5

(* What was left is pending still, or has been forgotten.                  *)
LEMMA ServeNextForgets ==
  ASSUME TypeOK, NEW em \in EntityManagers, NEW left \in SUBSET Executions, ServeNext(em, left)
  PROVE  /\ pending' \in [EntityManagers -> SUBSET Executions]
         /\ cleared' \in SUBSET Executions /\ cleared \subseteq cleared'
         /\ left \subseteq pending'[em] \cup cleared'
         /\ \A e \in EntityManagers : e # em => pending'[e] = pending[e]
<1>1. CASE flushQueue[em] = <<>>
  BY <1>1 DEF ServeNext, Forget, TypeOK
<1>2. CASE flushQueue[em] # <<>>
  BY <1>2 DEF ServeNext, TypeOK
<1> QED
  BY <1>1, <1>2

(* A step in which some settle keeps what waits apart.                     *)
LEMMA SettlingKeeps ==
  ASSUME Places, NEW em \in EntityManagers, NEW settled \in SUBSET Executions,
         \A x \in settled : Flushing(x, em),
         \A x \in Executions : Flushing(x, em)' <=> Flushing(x, em) /\ x \notin settled,
         \A x \in Executions : \A e \in EntityManagers :
           e # em => (Flushing(x, e)' <=> Flushing(x, e)),
         \A e \in EntityManagers :
           /\ runner'[e] = Nobody <=> writer'[e] = Nobody
           /\ NoneTwice(flushQueue'[e])
           /\ ~Queued(runner[e], e)' /\ ~Queued(writer[e], e)',
         NEW well \in SUBSET settled, NEW ill \in SUBSET settled,
         well \cap ill = {}, well \cup ill = settled,
         resolved' = resolved \cup well, rejected' = rejected \cup ill
  PROVE  Places' /\ Flushers' = Flushers
<1>1. \A x \in settled : x \notin resolved \cup rejected
  BY DEF Places
<1>2. resolved' \cap rejected' = {}
  BY <1>1 DEF Places
<1>3. \A e \in EntityManagers : \A x \in Executions :
        Flushing(x, e)' => Flushing(x, e) /\ x \notin settled
  BY DEF Places
<1>4. ASSUME NEW e \in EntityManagers, NEW x \in Executions, Flushing(x, e)'
      PROVE  /\ x \notin resolved' \cup rejected'
             /\ \A other \in EntityManagers : Flushing(x, other)' => other = e
  BY <1>3, <1>4 DEF Places
<1>5. Places'
  BY <1>2, <1>4 DEF Places
<1>6. Flushers' = Flushers
  BY DEF Flushers
<1> QED
  BY <1>5, <1>6

(* The database has answered for what writes in em.                        *)
Served(em) == Working(em) /\ (Written(em) \/ Refused(em))

(* What it leaves to each that waits, whatever the answer.                 *)
ServedLeaves(em) ==
  /\ OrmInv /\ Flushers' = Flushers
  /\ entityManager' = entityManager
  /\ \A e \in EntityManagers : pending[e] \cup Done \subseteq pending'[e] \cup Done'
  /\ Done \subseteq Done'
  /\ rejected \subseteq rejected'
  /\ \A x : \A e \in EntityManagers :
       Queued(x, e)' => Queued(x, e) /\ (runner'[e] = runner[e] \/ runner[e] \in rejected')

LEMMA WrittenKeeps ==
  ASSUME OrmInv, Nobody \notin Executions, NEW em \in EntityManagers, Working(em), Written(em)
  PROVE  OrmInv' /\ ServedLeaves(em)
<1> DEFINE settled == Settling(em, {writer[em], runner[em]})
           left == pending[em] \ batch[em]
<1>1. TypeOK /\ Places /\ Flow /\ left \in SUBSET Executions
  BY DEF OrmInv, TypeOK
<1>2. /\ systemEvents' = systemEvents \cup batch[em]
      /\ resolved' = resolved \cup settled /\ ServeNext(em, left)
      /\ UNCHANGED <<entityManager, rejected>>
  BY DEF Written
<1>3. /\ settled \subseteq Executions
      /\ \A x \in settled : Flushing(x, em)
      /\ \A x \in Executions : Flushing(x, em)' <=> Flushing(x, em) /\ x \notin settled
      /\ \A x \in Executions : \A e \in EntityManagers :
           e # em => (Flushing(x, e)' <=> Flushing(x, e))
      /\ \A e \in EntityManagers : e # em =>
           runner'[e] = runner[e] /\ writer'[e] = writer[e] /\ batch'[e] = batch[e]
      /\ runner' \in [EntityManagers -> Executions \cup {Nobody}]
      /\ writer' \in [EntityManagers -> Executions \cup {Nobody}]
      /\ batch' \in [EntityManagers -> SUBSET Executions]
      /\ flushQueue' \in [EntityManagers -> Seq(Executions)]
      /\ \A e \in EntityManagers :
           /\ runner'[e] = Nobody <=> writer'[e] = Nobody
           /\ NoneTwice(flushQueue'[e])
           /\ ~Queued(runner[e], e)' /\ ~Queued(writer[e], e)'
      /\ runner'[em] \in {Nobody, runner[em]}
      /\ writer'[em] # Nobody => Queued(writer'[em], em) /\ batch'[em] = left
      /\ \A x : \A e \in EntityManagers : Queued(x, e)' => Queued(x, e) /\ runner'[e] = runner[e]
  <2> HIDE DEF left
  <2> QED
    BY <1>1, <1>2, ServeNextMoves
<1>kept. /\ pending' \in [EntityManagers -> SUBSET Executions]
       /\ cleared' \in SUBSET Executions /\ cleared \subseteq cleared'
       /\ left \subseteq pending'[em] \cup cleared'
       /\ \A e \in EntityManagers : e # em => pending'[e] = pending[e]
  <2> HIDE DEF left
  <2> QED
    BY <1>1, <1>2, ServeNextForgets
<1>4. settled \subseteq {writer[em], runner[em]}
  BY DEF Settling
<1> HIDE DEF settled
<1>5. Places' /\ Flushers' = Flushers
  <2>1. settled \in SUBSET settled /\ {} \in SUBSET settled /\ rejected' = rejected \cup {}
        /\ settled \cap {} = {} /\ settled \cup {} = settled
    BY <1>2
  <2> QED
    BY <1>1, <1>2, <1>3, <2>1, SettlingKeeps
<1>6. TypeOK'
  BY <1>1, <1>2, <1>3, <1>kept DEF TypeOK
<1>7. /\ Done \cup batch[em] \subseteq Done' /\ left \subseteq pending'[em] \cup Done'
      /\ \A e \in EntityManagers : e # em => pending'[e] = pending[e]
  BY <1>2, <1>kept DEF Done
<1>8. \A e \in EntityManagers : pending[e] \cup Done \subseteq pending'[e] \cup Done'
  BY <1>7
<1>9. writer[em] \in Done' /\ runner[em] \in Done'
  BY <1>1, <1>7 DEF Flow, Places, Working
<1>10. Flow'
  <2>1. ASSUME NEW e \in EntityManagers, writer'[e] # Nobody
        PROVE  writer'[e] \in batch'[e] \cup Done'
    <3>1. CASE e = em
      <4>1. writer'[em] \in Executions /\ Flushing(writer'[em], em) /\ batch'[em] = left
        BY <1>3, <2>1, <3>1 DEF Flushing
      <4>2. writer'[em] \in pending[em] \cup Done
        BY <1>1, <4>1 DEF Flow
      <4> QED
        BY <1>7, <3>1, <4>1, <4>2
    <3>2. CASE e # em
      BY <1>1, <1>3, <1>7, <2>1, <3>2 DEF Flow
    <3> QED
      BY <3>1, <3>2
  <2>2. ASSUME NEW e \in EntityManagers, runner'[e] \notin {Nobody, writer'[e]}
        PROVE  runner'[e] \in Done'
    BY <1>1, <1>3, <1>7, <1>9, <2>2 DEF Flow
  <2>3. ASSUME NEW e \in EntityManagers, NEW x \in Executions, Flushing(x, e)'
        PROVE  x \in pending'[e] \cup Done'
    BY <1>1, <1>3, <1>8, <2>3 DEF Flow
  <2>4. resolved' \subseteq Done'
    BY <1>1, <1>2, <1>4, <1>7, <1>9 DEF Flow
  <2> QED
    BY <2>1, <2>2, <2>3, <2>4 DEF Flow
<1> QED
  BY <1>2, <1>3, <1>5, <1>6, <1>7, <1>8, <1>10 DEF OrmInv, ServedLeaves

LEMMA QueuedRefusedKeeps ==
  ASSUME OrmInv, Nobody \notin Executions, NEW em \in EntityManagers, Working(em),
         QueuedRefused(em)
  PROVE  OrmInv' /\ ServedLeaves(em)
<1> DEFINE settled == Settling(em, {writer[em], runner[em]})
           well == Settling(em, {runner[em]})
           left == pending[em]
<1>1. TypeOK /\ Places /\ Flow /\ left \in SUBSET Executions
  BY DEF OrmInv, TypeOK
<1>2. /\ writer[em] # runner[em] /\ rejected' = rejected \cup {writer[em]}
      /\ resolved' = resolved \cup well /\ ServeNext(em, left)
      /\ UNCHANGED <<entityManager, systemEvents>>
  BY DEF QueuedRefused
<1>3. /\ settled \subseteq Executions
      /\ \A x \in settled : Flushing(x, em)
      /\ \A x \in Executions : Flushing(x, em)' <=> Flushing(x, em) /\ x \notin settled
      /\ \A x \in Executions : \A e \in EntityManagers :
           e # em => (Flushing(x, e)' <=> Flushing(x, e))
      /\ \A e \in EntityManagers : e # em =>
           runner'[e] = runner[e] /\ writer'[e] = writer[e] /\ batch'[e] = batch[e]
      /\ runner' \in [EntityManagers -> Executions \cup {Nobody}]
      /\ writer' \in [EntityManagers -> Executions \cup {Nobody}]
      /\ batch' \in [EntityManagers -> SUBSET Executions]
      /\ flushQueue' \in [EntityManagers -> Seq(Executions)]
      /\ \A e \in EntityManagers :
           /\ runner'[e] = Nobody <=> writer'[e] = Nobody
           /\ NoneTwice(flushQueue'[e])
           /\ ~Queued(runner[e], e)' /\ ~Queued(writer[e], e)'
      /\ runner'[em] \in {Nobody, runner[em]}
      /\ writer'[em] # Nobody => Queued(writer'[em], em) /\ batch'[em] = left
      /\ \A x : \A e \in EntityManagers : Queued(x, e)' => Queued(x, e) /\ runner'[e] = runner[e]
  <2> HIDE DEF left
  <2> QED
    BY <1>1, <1>2, ServeNextMoves
<1>kept. /\ pending' \in [EntityManagers -> SUBSET Executions]
       /\ cleared' \in SUBSET Executions /\ cleared \subseteq cleared'
       /\ left \subseteq pending'[em] \cup cleared'
       /\ \A e \in EntityManagers : e # em => pending'[e] = pending[e]
  <2> HIDE DEF left
  <2> QED
    BY <1>1, <1>2, ServeNextForgets
<1>4. /\ well \subseteq {runner[em]} /\ settled = well \cup {writer[em]}
      /\ well \cap {writer[em]} = {}
  BY <1>2 DEF Settling
<1> HIDE DEF settled, well
<1>5. Places' /\ Flushers' = Flushers
  <2>1. well \in SUBSET settled /\ {writer[em]} \in SUBSET settled
        /\ well \cup {writer[em]} = settled
    BY <1>4
  <2> QED
    BY <1>1, <1>2, <1>3, <1>4, <2>1, SettlingKeeps
<1>6. TypeOK'
  BY <1>1, <1>2, <1>3, <1>4, <1>kept DEF TypeOK
<1>7. /\ Done \subseteq Done'
      /\ \A e \in EntityManagers : pending[e] \cup Done \subseteq pending'[e] \cup Done'
  BY <1>2, <1>kept DEF Done
<1>8. runner[em] \in Done
  BY <1>1, <1>2 DEF Flow, Places, Working
<1>9. Flow'
  <2>1. ASSUME NEW e \in EntityManagers, writer'[e] # Nobody
        PROVE  writer'[e] \in batch'[e] \cup Done'
    <3>1. CASE e = em
      <4>1. writer'[em] \in Executions /\ Flushing(writer'[em], em) /\ batch'[em] = left
        BY <1>3, <2>1, <3>1 DEF Flushing
      <4> QED
        BY <1>1, <1>7, <3>1, <4>1 DEF Flow
    <3>2. CASE e # em
      BY <1>1, <1>3, <1>7, <2>1, <3>2 DEF Flow
    <3> QED
      BY <3>1, <3>2
  <2>2. ASSUME NEW e \in EntityManagers, runner'[e] \notin {Nobody, writer'[e]}
        PROVE  runner'[e] \in Done'
    BY <1>1, <1>3, <1>7, <1>8, <2>2 DEF Flow
  <2>3. ASSUME NEW e \in EntityManagers, NEW x \in Executions, Flushing(x, e)'
        PROVE  x \in pending'[e] \cup Done'
    BY <1>1, <1>3, <1>7, <2>3 DEF Flow
  <2>4. resolved' \subseteq Done'
    BY <1>1, <1>2, <1>4, <1>7, <1>8 DEF Flow
  <2> QED
    BY <1>7, <2>1, <2>2, <2>3, <2>4 DEF Flow
<1> QED
  BY <1>2, <1>3, <1>5, <1>6, <1>7, <1>9 DEF OrmInv, ServedLeaves

LEMMA RunnerRefusedKeeps ==
  ASSUME OrmInv, Nobody \notin Executions, NEW em \in EntityManagers, Working(em),
         RunnerRefused(em)
  PROVE  OrmInv' /\ ServedLeaves(em)
<1> DEFINE R == runner[em]
<1>1. TypeOK /\ Places /\ Flow
  BY DEF OrmInv
<1>2. /\ writer[em] = R /\ rejected' = rejected \cup {R} /\ R \in Executions
      /\ runner' = [runner EXCEPT ![em] = Nobody] /\ writer' = [writer EXCEPT ![em] = Nobody]
      /\ batch' = [batch EXCEPT ![em] = {}]
      /\ pending' = [pending EXCEPT ![em] = {}] /\ cleared' = cleared \cup pending[em]
      /\ UNCHANGED <<entityManager, flushQueue, resolved, systemEvents>>
  BY <1>1 DEF RunnerRefused, Forget, TypeOK, Working, Places
<1> HIDE DEF R
<1>3. /\ runner'[em] = Nobody /\ writer'[em] = Nobody
      /\ \A e \in EntityManagers : e # em =>
           runner'[e] = runner[e] /\ writer'[e] = writer[e] /\ batch'[e] = batch[e]
      /\ R = runner[em]
  BY <1>1, <1>2 DEF TypeOK, R
<1>4. \A x, e : Queued(x, e)' <=> Queued(x, e)
  BY <1>2 DEF Queued
<1>5. ~Queued(R, em) /\ \A x \in Executions : Flushing(x, em) <=> x = R \/ Queued(x, em)
  BY <1>1, <1>2, <1>3 DEF Flushing, Places
<1>6. ASSUME NEW x \in Executions
      PROVE  /\ Flushing(x, em)' <=> Flushing(x, em) /\ x \notin {R}
             /\ \A e \in EntityManagers : e # em => (Flushing(x, e)' <=> Flushing(x, e))
  BY <1>3, <1>4, <1>5 DEF Flushing
<1>7. \A e \in EntityManagers : \A x : Queued(x, e) => x \in Executions
  BY <1>1 DEF Queued, TypeOK
<1>8. ASSUME NEW e \in EntityManagers
      PROVE  /\ runner'[e] = Nobody <=> writer'[e] = Nobody
             /\ NoneTwice(flushQueue'[e])
             /\ ~Queued(runner[e], e)' /\ ~Queued(writer[e], e)'
  <2>1. ~InQueue(flushQueue'[e], runner'[e]) /\ ~InQueue(flushQueue'[e], writer'[e])
    BY <1>1, <1>2, <1>3, <1>7 DEF Places, Queued, InQueue
  <2>2. ~Queued(runner[e], e)' /\ ~Queued(writer[e], e)'
    BY <2>1 DEF Queued, InQueue
  <2> QED
    BY <1>1, <1>2, <1>3, <2>2 DEF Places
<1>9. Places' /\ Flushers' = Flushers
  <2>1. /\ {R} \in SUBSET Executions /\ \A x \in {R} : Flushing(x, em)
        /\ {} \in SUBSET {R} /\ {R} \in SUBSET {R} /\ {} \cap {R} = {} /\ {} \cup {R} = {R}
        /\ resolved' = resolved \cup {}
    BY <1>2, <1>5
  <2> QED
    BY <1>1, <1>2, <1>6, <1>8, <2>1, SettlingKeeps
<1>10. TypeOK'
  BY <1>1, <1>2 DEF TypeOK
<1>11. /\ Done \subseteq Done'
       /\ \A e \in EntityManagers : pending[e] \cup Done \subseteq pending'[e] \cup Done'
  BY <1>1, <1>2 DEF Done, TypeOK
<1>12. Flow'
  <2>1. \A e \in EntityManagers :
          /\ writer'[e] # Nobody => writer'[e] \in batch'[e] \cup Done'
          /\ runner'[e] \notin {Nobody, writer'[e]} => runner'[e] \in Done'
    BY <1>1, <1>3, <1>11 DEF Flow
  <2>2. \A e \in EntityManagers : \A x \in Executions : Flushing(x, e)' => x \in pending'[e] \cup Done'
    BY <1>1, <1>6, <1>11 DEF Flow
  <2> QED
    BY <1>1, <1>2, <1>11, <2>1, <2>2 DEF Flow
<1>13. \A x : \A e \in EntityManagers :
         Queued(x, e)' => Queued(x, e) /\ (runner'[e] = runner[e] \/ runner[e] \in rejected')
  BY <1>2, <1>3, <1>4
<1> QED
  BY <1>2, <1>9, <1>10, <1>11, <1>12, <1>13 DEF OrmInv, ServedLeaves

LEMMA ServedKeeps ==
  ASSUME OrmInv, Nobody \notin Executions, NEW em \in EntityManagers, Served(em)
  PROVE  OrmInv' /\ ServedLeaves(em)
BY WrittenKeeps, QueuedRefusedKeeps, RunnerRefusedKeeps DEF Served, Refused

(* The await of a flush ends.                                              *)
LEMMA AwaitEnds ==
  ASSUME OrmInv, NEW x \in Executions, Returns(x) \/ Throws(x)
  PROVE  /\ OrmInv' /\ Flushers' = Flushers \ {x} /\ x \in Flushers
         /\ UNCHANGED <<entityManager, pending, runner, flushQueue, systemEvents, cleared>>
         /\ rejected \ {x} \subseteq rejected'
         /\ Returns(x) => x \in Done
<1>1. TypeOK /\ Places /\ Flow
  BY DEF OrmInv
<1>2. /\ UNCHANGED <<entityManager, pending, runner, writer, batch, flushQueue, systemEvents, cleared>>
      /\ resolved' \cup rejected' = (resolved \cup rejected) \ {x}
      /\ resolved' \subseteq resolved /\ rejected' \subseteq rejected
      /\ rejected \ {x} \subseteq rejected'
      /\ x \in resolved \cup rejected /\ (Returns(x) => x \in resolved)
  BY <1>1 DEF Returns, Throws, Places
<1>3. \A y, em : (Queued(y, em)' <=> Queued(y, em)) /\ (Flushing(y, em)' <=> Flushing(y, em))
  BY <1>2 DEF Queued, Flushing
<1>4. \A em \in EntityManagers : ~Flushing(x, em)
  BY <1>1, <1>2 DEF Places
<1>5. Flushers' = Flushers \ {x} /\ x \in Flushers
  BY <1>2, <1>3, <1>4 DEF Flushers
<1>6. TypeOK'
  BY <1>1, <1>2 DEF TypeOK
<1>7. Places'
  <2>1. \A em \in EntityManagers :
          /\ runner'[em] = Nobody <=> writer'[em] = Nobody
          /\ NoneTwice(flushQueue'[em])
          /\ ~Queued(runner[em], em)' /\ ~Queued(writer[em], em)'
    BY <1>1, <1>2 DEF Places, Queued
  <2>2. resolved' \cap rejected' = {}
    BY <1>1, <1>2 DEF Places
  <2>3. \A em \in EntityManagers : \A y \in Executions :
          Flushing(y, em)' =>
            /\ y \notin resolved' \cup rejected'
            /\ \A other \in EntityManagers : Flushing(y, other)' => other = em
    BY <1>1, <1>2, <1>3 DEF Places
  <2> QED
    BY <2>1, <2>2, <2>3 DEF Places
<1>8. Flow'
  BY <1>1, <1>2, <1>3 DEF Flow, Done
<1> QED
  BY <1>1, <1>2, <1>5, <1>6, <1>7, <1>8 DEF OrmInv, Flow
=============================================================================
