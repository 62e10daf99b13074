------------------------------ MODULE MikroOrm ------------------------------
(***************************************************************************)
(* The EntityManagers of MikroORM and the provider that hands one of them  *)
(* to everybody: fork, persist, flush and clear as MikroOrmUnitOfWork and  *)
(* MikroOrmEventStore call them, each time on the EntityManager the        *)
(* provider holds at that moment.                                          *)
(*                                                                         *)
(* UnitOfWork.commit of MikroORM runs one flush of an EntityManager at a   *)
(* time.  A flush that is called meanwhile is queued and computes what it  *)
(* has to write when its turn comes; the call that found nobody working    *)
(* serves the queue, and is the last to return. When its own changes are   *)
(* refused it stops, and the queue is served by nobody. Either way it      *)
(* forgets on its last step what is still pending (postCommitCleanup), as  *)
(* em.clear does.                                                          *)
(***************************************************************************)
EXTENDS Sequences, Integers

CONSTANTS
  Executions,   \* they fork, persist an entity each, and flush
  OrmEm,        \* the EntityManager made by MikroORM.init
  Nobody        \* no execution

EntityManagers == Executions \cup {OrmEm}

VARIABLES
  entityManager,  \* the EntityManager the provider holds
  pending,        \* pending[em]: entities persisted in em and not written
  runner,         \* runner[em]: whose flush of em found nobody working
  writer,         \* writer[em]: whose flush of em is writing
  batch,          \* batch[em]: the entities it writes
  flushQueue,     \* flushQueue[em]: whose flush of em waits for its turn
  resolved,       \* those whose flush has resolved, still to learn it
  rejected,       \* those whose flush has rejected, still to learn it
  systemEvents,   \* table system_events: the entities that were written
  cleared         \* history: entities that were pending when em forgot them

flushVars == <<runner, writer, batch, flushQueue, resolved, rejected>>
vars == <<entityManager, pending, flushVars, systemEvents, cleared>>

TypeOK ==
  /\ entityManager \in EntityManagers
  /\ pending \in [EntityManagers -> SUBSET Executions]
  /\ runner \in [EntityManagers -> Executions \cup {Nobody}]
  /\ writer \in [EntityManagers -> Executions \cup {Nobody}]
  /\ batch \in [EntityManagers -> SUBSET Executions]
  /\ flushQueue \in [EntityManagers -> Seq(Executions)]
  /\ resolved \in SUBSET Executions
  /\ rejected \in SUBSET Executions
  /\ systemEvents \in SUBSET Executions /\ cleared \in SUBSET Executions

Init ==
  /\ entityManager = OrmEm
  /\ pending = [em \in EntityManagers |-> {}]
  /\ runner = [em \in EntityManagers |-> Nobody]
  /\ writer = [em \in EntityManagers |-> Nobody]
  /\ batch = [em \in EntityManagers |-> {}]
  /\ flushQueue = [em \in EntityManagers |-> <<>>]
  /\ resolved = {} /\ rejected = {}
  /\ systemEvents = {} /\ cleared = {}

-----------------------------------------------------------------------------

(* onBegin: the provider holds a fork from now on, named after the         *)
(* execution that made it; nothing restores the EntityManager it replaced. *)
Fork(x) == entityManager' = x /\ UNCHANGED <<pending, flushVars, systemEvents, cleared>>

(* saveAll: em.persist of the event entities.                              *)
Persist(entities) ==
  /\ pending' = [pending EXCEPT ![entityManager] = @ \cup entities]
  /\ UNCHANGED <<entityManager, flushVars, systemEvents, cleared>>

(* What is still pending in em is forgotten.                               *)
Forget(em, left) ==
  /\ pending' = [pending EXCEPT ![em] = {}]
  /\ cleared' = cleared \cup left

(* onRollback: em.clear, which takes nothing from a flush that is writing. *)
Clear ==
  /\ Forget(entityManager, pending[entityManager])
  /\ UNCHANGED <<entityManager, flushVars, systemEvents>>

(* onCommit: em.flush, up to the wait.                                     *)
Flush(x) ==
  LET em == entityManager
  IN /\ IF runner[em] = Nobody
        THEN /\ runner' = [runner EXCEPT ![em] = x]
             /\ writer' = [writer EXCEPT ![em] = x]
             /\ batch' = [batch EXCEPT ![em] = pending[em]]
             /\ UNCHANGED flushQueue
        ELSE /\ flushQueue' = [flushQueue EXCEPT ![em] = Append(@, x)]
             /\ UNCHANGED <<runner, writer, batch>>
     /\ UNCHANGED <<entityManager, pending, resolved, rejected, systemEvents, cleared>>

Working(em) == writer[em] # Nobody

(* The runner goes on with the next flush of the queue, which writes what  *)
(* is pending by now, or is done.                                          *)
ServeNext(em, left) ==
  IF flushQueue[em] = <<>>
  THEN /\ runner' = [runner EXCEPT ![em] = Nobody]
       /\ writer' = [writer EXCEPT ![em] = Nobody]
       /\ batch' = [batch EXCEPT ![em] = {}]
       /\ Forget(em, left)
       /\ UNCHANGED flushQueue
  ELSE /\ writer' = [writer EXCEPT ![em] = Head(flushQueue[em])]
       /\ flushQueue' = [flushQueue EXCEPT ![em] = Tail(@)]
       /\ batch' = [batch EXCEPT ![em] = left]
       /\ pending' = [pending EXCEPT ![em] = left]
       /\ UNCHANGED <<runner, cleared>>

(* Those of xs whose promise settles: a queued flush has its own, the      *)
(* runner's has to wait for the queue.                                     *)
Settling(em, xs) == {x \in xs : x = runner[em] => flushQueue[em] = <<>>}

(* The batch is in the database.                                           *)
Written(em) ==
  /\ systemEvents' = systemEvents \cup batch[em]
  /\ resolved' = resolved \cup Settling(em, {writer[em], runner[em]})
  /\ ServeNext(em, pending[em] \ batch[em])
  /\ UNCHANGED <<entityManager, rejected>>

(* The database refused the batch of a queued flush; its entities stay     *)
(* pending for the next one.                                               *)
QueuedRefused(em) ==
  /\ writer[em] # runner[em]
  /\ rejected' = rejected \cup {writer[em]}
  /\ resolved' = resolved \cup Settling(em, {runner[em]})
  /\ ServeNext(em, pending[em])
  /\ UNCHANGED <<entityManager, systemEvents>>

(* It refused that of the runner, which throws before it comes to the      *)
(* queue.                                                                  *)
RunnerRefused(em) ==
  /\ writer[em] = runner[em]
  /\ rejected' = rejected \cup {runner[em]}
  /\ runner' = [runner EXCEPT ![em] = Nobody]
  /\ writer' = [writer EXCEPT ![em] = Nobody]
  /\ batch' = [batch EXCEPT ![em] = {}]
  /\ Forget(em, pending[em])
  /\ UNCHANGED <<entityManager, flushQueue, resolved, systemEvents>>

Refused(em) == QueuedRefused(em) \/ RunnerRefused(em)

(* x goes on after its await of flush.                                     *)
Returns(x) ==
  /\ x \in resolved
  /\ resolved' = resolved \ {x}
  /\ UNCHANGED <<entityManager, pending, runner, writer, batch, flushQueue, rejected,
                 systemEvents, cleared>>

Throws(x) ==
  /\ x \in rejected
  /\ rejected' = rejected \ {x}
  /\ UNCHANGED <<entityManager, pending, runner, writer, batch, flushQueue, resolved,
                 systemEvents, cleared>>

(* Nothing is left to do before the database answers: no promise that has  *)
(* settled, no flush with nothing to write.                                *)
Idle ==
  /\ resolved = {} /\ rejected = {}
  /\ \A em \in EntityManagers : Working(em) => batch[em] # {}

Queued(x, em) == \E i \in 1 .. Len(flushQueue[em]) : flushQueue[em][i] = x

(* x waits for a flush of em.                                              *)
Flushing(x, em) == x \in {runner[em], writer[em]} \/ Queued(x, em)

(* Nobody will ever call the flush of x.                                   *)
Stranded(x) == \E em \in EntityManagers : runner[em] = Nobody /\ Queued(x, em)
=============================================================================
