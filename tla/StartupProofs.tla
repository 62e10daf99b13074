--------------------------- MODULE StartupProofs ---------------------------
(***************************************************************************)
(* Theorems about Startup for any number of processes that start, migrate  *)
(* and crash at the same time.                                             *)
(***************************************************************************)
EXTENDS Startup, TLAPS

-----------------------------------------------------------------------------
(* Migrations.                                                             *)

(* The first migrations, in the order of their names.                      *)
Prefixes == {{}, {1}, {1, 2}, {1, 2, 3}}

(* A set of first migrations is one of four.                               *)
LEMMA PrefixesOfRecord ==
  /\ {1..n : n \in 0..3} = Prefixes
  /\ Migrations = {1, 2, 3}
<1>1. 1..0 = {} /\ 1..1 = {1} /\ 1..2 = {1, 2} /\ 1..3 = {1, 2, 3}
  OBVIOUS
<1>2. 0..3 = {0, 1, 2, 3}
  OBVIOUS
<1> QED
  BY <1>1, <1>2 DEF Prefixes, Migrations

(* The next migration to run is the first one that has not been.           *)
LEMMA NextIsFirst ==
  ASSUME NEW p, Pending(p) # {}, ran[p] \in Prefixes
  PROVE  /\ NextPending(p) \in Pending(p)
         /\ ran[p] \cup {NextPending(p)} \in Prefixes
         /\ NextPending(p) \in Migrations
<1>1. Pending(p) = {1, 2, 3} \ ran[p]
  BY PrefixesOfRecord DEF Pending
<1> DEFINE First(m) == m \in Pending(p) /\ \A n \in Pending(p) : m <= n
<1>2. \A m, n \in {1, 2, 3} : First(m) /\ First(n) => m = n
  BY <1>1
<1>3. CASE ran[p] = {}
  <2>1. First(1) /\ Pending(p) = {1, 2, 3}
    BY <1>1, <1>3
  <2>2. NextPending(p) = 1
    BY <1>2, <2>1 DEF NextPending
  <2> QED
    BY <1>3, <2>1, <2>2, PrefixesOfRecord DEF Prefixes
<1>4. CASE ran[p] = {1}
  <2>1. First(2) /\ Pending(p) = {2, 3}
    BY <1>1, <1>4
  <2>2. NextPending(p) = 2
    BY <1>2, <2>1 DEF NextPending
  <2> QED
    BY <1>4, <2>1, <2>2, PrefixesOfRecord DEF Prefixes
<1>5. CASE ran[p] = {1, 2}
  <2>1. First(3) /\ Pending(p) = {3}
    BY <1>1, <1>5
  <2>2. NextPending(p) = 3
    BY <1>2, <2>1 DEF NextPending
  <2> QED
    BY <1>5, <2>1, <2>2, PrefixesOfRecord DEF Prefixes
<1> QED
  BY <1>1, <1>3, <1>4, <1>5 DEF Prefixes

(* A migration adds tables, and the schema of more migrations is larger by *)
(* what they add (Migration_001..., Migration_002..., Migration_003...).   *)
LEMMA SchemaProperties ==
  /\ \A m \in Migrations : Adds(m) \subseteq Tables
  /\ \A done : done \subseteq Migrations => SchemaOf(done) \subseteq Tables
  /\ \A done, m : SchemaOf(done \cup {m}) = SchemaOf(done) \cup Adds(m)
<1>1. \A m \in Migrations : Adds(m) \subseteq Tables
  BY PrefixesOfRecord DEF Adds, Tables, CreateUsersAndAddresses, CreateSystemEvents, AddCausationId
<1>2. \A done : done \subseteq Migrations => SchemaOf(done) \subseteq Tables
  BY <1>1 DEF SchemaOf
<1>3. \A done, m : SchemaOf(done \cup {m}) = SchemaOf(done) \cup Adds(m)
  BY DEF SchemaOf
<1> QED
  BY <1>1, <1>2, <1>3

-----------------------------------------------------------------------------
(* The invariant.                                                          *)

Migrating == {"reading", "writing"}
Migrated == {"migrated", "wired", "rest", "serving"}

(* A transaction sees a database of some earlier time plus what it ran     *)
(* itself; records are never taken back; who has migrated may rely on the  *)
(* last one.                                                               *)
MigrationsInOrder ==
  /\ recorded \in Prefixes /\ tables = SchemaOf(recorded)
  /\ \A p \in Processes : stage[p] \in Migrating =>
       ran[p] \in Prefixes /\ made[p] = SchemaOf(ran[p])
  /\ \A p \in Processes : stage[p] = "reading" => ran[p] \subseteq recorded
  /\ \A p \in Processes : stage[p] \in Migrated => recorded = Migrations

(* What a process has wired and where it listens are those of its stage.   *)
StagesMatchMemory ==
  /\ \A p \in Processes : stage[p] \in {"wired", "rest", "serving"} =>
       tracks[p] = SetOnTrack /\ serves[p] = Operations
  /\ \A p \in Processes : holder["REST_PORT"] = p <=> stage[p] \in {"rest", "serving"}
  /\ \A p \in Processes : holder["GRAPHQL_PORT"] = p <=> stage[p] = "serving"

StartupInv == TypeOK /\ MigrationsInOrder /\ StagesMatchMemory

(* The database of an earlier version, and no process.                     *)
LEMMA StartupInit ==
  ASSUME Init
  PROVE  StartupInv
<1>1. recorded \in Prefixes /\ recorded \subseteq Migrations
  BY PrefixesOfRecord DEF Init, Prefixes
<1>2. TypeOK
  BY <1>1, SchemaProperties, ProcessesAssumption DEF Init, TypeOK, Stages
<1>3. MigrationsInOrder
  BY <1>1 DEF Init, MigrationsInOrder, Migrating, Migrated
<1>4. StagesMatchMemory
  BY ProcessesAssumption DEF Init, StagesMatchMemory, Ports
<1> QED
  BY <1>2, <1>3, <1>4 DEF StartupInv

-----------------------------------------------------------------------------
(* The steps.                                                              *)

(* What a process leaves behind when it ends breaks nothing for the others:*)
(* its transaction is gone, and so are its ports (the rejection of main,   *)
(* main.ts:58, and a kill).                                                *)
LEMMA EndsKeeps ==
  ASSUME StartupInv, NEW p \in Processes, Ends(p)
  PROVE  StartupInv'
<1> USE DEF StartupInv
<1>1. /\ stage' = [stage EXCEPT ![p] = "down"]
      /\ writer' = IF writer = p THEN Nobody ELSE writer
      /\ ran' = [ran EXCEPT ![p] = {}] /\ made' = [made EXCEPT ![p] = {}]
      /\ tracks' = [tracks EXCEPT ![p] = {}] /\ serves' = [serves EXCEPT ![p] = {}]
      /\ holder' = [port \in Ports |-> IF holder[port] = p THEN Nobody ELSE holder[port]]
      /\ tables' = tables /\ recorded' = recorded
  BY DEF Ends, Reaches
<1>2. TypeOK'
  BY <1>1, ProcessesAssumption DEF TypeOK, Stages
<1>3. MigrationsInOrder'
  BY <1>1, ProcessesAssumption DEF MigrationsInOrder, TypeOK, Migrating, Migrated
<1>4. StagesMatchMemory'
  BY <1>1, ProcessesAssumption DEF StagesMatchMemory, TypeOK, Ports
<1> QED
  BY <1>2, <1>3, <1>4

(* A migration runs for one process only, on what that process read: the   *)
(* lock of the writer was free, and nothing was committed since.           *)
LEMMA RunMigrationKeeps ==
  ASSUME StartupInv, NEW p \in Processes, RunMigration(p)
  PROVE  StartupInv'
<1> USE DEF StartupInv
<1> DEFINE m == NextPending(p)
<1>1. /\ stage[p] \in Migrating /\ Pending(p) # {} /\ Current(p)
      /\ writer' = p
      /\ ran' = [ran EXCEPT ![p] = ran[p] \cup {m}]
      /\ made' = [made EXCEPT ![p] = made[p] \cup Adds(m)]
      /\ stage' = [stage EXCEPT ![p] = "writing"]
      /\ UNCHANGED <<tables, recorded, memory, holder>>
  BY DEF RunMigration, Reaches, Migrating
<1>2. ran[p] \in Prefixes /\ made[p] = SchemaOf(ran[p])
  BY <1>1 DEF MigrationsInOrder
<1>3. m \in Migrations /\ ran[p] \cup {m} \in Prefixes
  BY <1>1, <1>2, NextIsFirst
<1>4. Adds(m) \subseteq Tables /\ SchemaOf(ran[p] \cup {m}) = SchemaOf(ran[p]) \cup Adds(m)
  BY <1>3, SchemaProperties
<1>5. \A q \in Processes : q # p => stage[q] # "writing"
  BY <1>1, ProcessesAssumption DEF Current, TypeOK
<1> HIDE DEF m
<1>6. TypeOK'
  <2>1. ran' \in [Processes -> SUBSET Migrations] /\ made' \in [Processes -> SUBSET Tables]
    BY <1>1, <1>3, <1>4 DEF TypeOK
  <2>2. stage' \in [Processes -> Stages] /\ writer' \in Processes \cup {Nobody}
    BY <1>1 DEF TypeOK, Stages
  <2>3. \A q \in Processes : writer' = q <=> stage'[q] = "writing"
    BY <1>1, <1>5 DEF TypeOK
  <2> QED
    BY <1>1, <2>1, <2>2, <2>3 DEF TypeOK, memory
<1>7. MigrationsInOrder'
  <2>1. \A q \in Processes : stage'[q] \in Migrating =>
          ran'[q] \in Prefixes /\ made'[q] = SchemaOf(ran'[q])
    BY <1>1, <1>2, <1>3, <1>4 DEF MigrationsInOrder, TypeOK
  <2>2. \A q \in Processes : stage'[q] = "reading" => q # p /\ stage[q] = "reading"
    BY <1>1 DEF TypeOK
  <2>3. \A q \in Processes : stage'[q] = "reading" => ran'[q] \subseteq recorded
    BY <1>1, <2>2 DEF MigrationsInOrder, TypeOK
  <2>4. \A q \in Processes : stage'[q] \in Migrated => stage[q] \in Migrated
    BY <1>1 DEF TypeOK, Migrated
  <2> QED
    BY <1>1, <2>1, <2>3, <2>4 DEF MigrationsInOrder
<1>8. StagesMatchMemory'
  BY <1>1 DEF StagesMatchMemory, TypeOK, memory, Migrating
<1> QED
  BY <1>6, <1>7, <1>8

(* Who resolves up relies on a database that has every migration: it read  *)
(* them all, or commits them all.                                          *)
LEMMA UpResolvesKeeps ==
  ASSUME StartupInv, NEW p \in Processes, UpResolves(p)
  PROVE  StartupInv'
<1> USE DEF StartupInv
<1> DEFINE after == IF p \in Migrators THEN "down" ELSE "migrated"
<1>1. /\ stage[p] \in Migrating /\ Pending(p) = {}
      /\ stage' = [stage EXCEPT ![p] = after]
      /\ ran' = [ran EXCEPT ![p] = {}] /\ made' = [made EXCEPT ![p] = {}]
      /\ tracks' = tracks /\ serves' = serves /\ holder' = holder
  BY DEF UpResolves, Reaches, Migrating, memory
<1>2. after \in {"down", "migrated"}
  OBVIOUS
<1>3. ran[p] = Migrations /\ made[p] = SchemaOf(Migrations)
  BY <1>1 DEF Pending, TypeOK, MigrationsInOrder
<1>4. recorded' = Migrations /\ tables' = SchemaOf(Migrations)
  <2>1. CASE stage[p] = "writing"
    BY <1>3, <2>1 DEF UpResolves
  <2>2. CASE stage[p] = "reading"
    <3>1. recorded = Migrations
      BY <1>3, <2>2 DEF MigrationsInOrder, TypeOK
    <3> QED
      BY <2>2, <3>1 DEF UpResolves, MigrationsInOrder, database
  <2> QED
    BY <1>1, <2>1, <2>2 DEF Migrating
<1>5. /\ stage[p] = "writing" => writer' = Nobody
      /\ stage[p] # "writing" => writer' = writer
  BY DEF UpResolves, database
<1> HIDE DEF after
<1>6. TypeOK'
  <2>1. recorded' \in SUBSET Migrations /\ tables' \in SUBSET Tables
    BY <1>4, SchemaProperties
  <2>2. \A q \in Processes : writer' = q <=> stage'[q] = "writing"
    BY <1>1, <1>2, <1>5, ProcessesAssumption DEF TypeOK
  <2>3. writer' \in Processes \cup {Nobody}
    BY <1>5 DEF TypeOK
  <2>4. stage' \in [Processes -> Stages]
    BY <1>1, <1>2 DEF TypeOK, Stages
  <2> QED
    BY <1>1, <2>1, <2>2, <2>3, <2>4 DEF TypeOK
<1>7. MigrationsInOrder'
  <2>1. recorded' \in Prefixes
    BY <1>4, PrefixesOfRecord DEF Prefixes
  <2>2. \A q \in Processes : stage'[q] \in Migrating =>
          q # p /\ stage[q] \in Migrating /\ ran'[q] = ran[q] /\ made'[q] = made[q]
    BY <1>1, <1>2 DEF TypeOK, Migrating
  <2>3. \A q \in Processes : ran'[q] \subseteq Migrations
    BY <1>6 DEF TypeOK
  <2> QED
    BY <1>4, <2>1, <2>2, <2>3 DEF MigrationsInOrder
<1>8. StagesMatchMemory'
  BY <1>1, <1>2 DEF StagesMatchMemory, TypeOK, Migrating
<1> QED
  BY <1>6, <1>7, <1>8

(* Wiring and listening: everything that a stage promises is set before the*)
(* process gets there.                                                     *)
LEMMA ServingKeeps ==
  ASSUME StartupInv, NEW p \in Processes, Wire(p) \/ Listen(p)
  PROVE  StartupInv'
<1> USE DEF StartupInv
<1>1. CASE Wire(p)
  <2>1. /\ stage[p] = "migrated" /\ stage' = [stage EXCEPT ![p] = "wired"]
        /\ tracks' = [tracks EXCEPT ![p] = SetOnTrack]
        /\ serves' = [serves EXCEPT ![p] = Operations]
        /\ UNCHANGED <<database, transaction, holder>>
    BY <1>1 DEF Wire, Reaches, Register, RegisterEventHandlers, RegisterRoutes,
                RegisterResolvers, Operations
  <2>2. TypeOK'
    BY <2>1 DEF TypeOK, Stages, SetOnTrack, database, transaction
  <2>3. MigrationsInOrder'
    BY <2>1 DEF TypeOK, MigrationsInOrder, database, transaction, Migrating, Migrated
  <2>4. StagesMatchMemory'
    BY <2>1 DEF TypeOK, StagesMatchMemory
  <2> QED
    BY <2>2, <2>3, <2>4
<1>2. CASE Listen(p)
  <2>1. /\ \/ /\ stage[p] = "wired" /\ stage' = [stage EXCEPT ![p] = "rest"]
              /\ holder["REST_PORT"] = Nobody
              /\ holder' = [holder EXCEPT !["REST_PORT"] = p]
           \/ /\ stage[p] = "rest" /\ stage' = [stage EXCEPT ![p] = "serving"]
              /\ holder["GRAPHQL_PORT"] = Nobody
              /\ holder' = [holder EXCEPT !["GRAPHQL_PORT"] = p]
        /\ UNCHANGED <<database, transaction, memory>>
    BY <1>2 DEF Listen, NextPort, Reaches
  <2>2. TypeOK'
    BY <2>1 DEF TypeOK, Stages, Ports, database, transaction, memory
  <2>3. MigrationsInOrder'
    BY <2>1 DEF TypeOK, MigrationsInOrder, database, transaction, Migrating, Migrated
  <2>4. StagesMatchMemory'
    BY <2>1, ProcessesAssumption DEF TypeOK, StagesMatchMemory, Ports, memory
  <2> QED
    BY <2>2, <2>3, <2>4
<1> QED
  BY <1>1, <1>2

(* Every step keeps the invariant.                                         *)
LEMMA StartupStep ==
  ASSUME StartupInv, [Next]_vars
  PROVE  StartupInv'
<1> USE DEF StartupInv
<1>1. ASSUME NEW p \in Processes, Launch(p)
      PROVE  StartupInv'
  <2>1. /\ stage[p] = "down" /\ stage' = [stage EXCEPT ![p] = "connected"]
        /\ UNCHANGED <<database, transaction, memory, holder>>
    BY <1>1 DEF Launch, Reaches
  <2>2. TypeOK'
    BY <2>1 DEF TypeOK, Stages, database, transaction, memory
  <2>3. MigrationsInOrder'
    BY <2>1 DEF TypeOK, MigrationsInOrder, database, transaction, Migrating, Migrated
  <2>4. StagesMatchMemory'
    BY <2>1 DEF TypeOK, StagesMatchMemory, memory
  <2> QED
    BY <2>2, <2>3, <2>4
<1>2. ASSUME NEW p \in Processes, ReadMigrations(p)
      PROVE  StartupInv'
  <2>1. /\ stage[p] = "connected" /\ stage' = [stage EXCEPT ![p] = "reading"]
        /\ ran' = [ran EXCEPT ![p] = recorded] /\ made' = [made EXCEPT ![p] = tables]
        /\ UNCHANGED <<database, memory, holder>>
    BY <1>2 DEF ReadMigrations, Reaches
  <2>2. TypeOK'
    BY <2>1 DEF TypeOK, Stages, database, memory
  <2>3. MigrationsInOrder'
    BY <2>1 DEF TypeOK, MigrationsInOrder, database, Migrating, Migrated
  <2>4. StagesMatchMemory'
    BY <2>1 DEF TypeOK, StagesMatchMemory, memory
  <2> QED
    BY <2>2, <2>3, <2>4
<1>3. ASSUME NEW p \in Processes, Ends(p)
      PROVE  StartupInv'
  BY <1>3, EndsKeeps
<1>4. ASSUME NEW port \in Ports, OtherProgram(port)
      PROVE  StartupInv'
  <2>1. /\ holder[port] \in {Nobody, Other}
        /\ \E after \in {Nobody, Other} : holder' = [holder EXCEPT ![port] = after]
        /\ UNCHANGED <<database, transaction, memory, stage>>
    BY <1>4 DEF OtherProgram
  <2>2. TypeOK' /\ MigrationsInOrder'
    BY <2>1 DEF TypeOK, MigrationsInOrder, database, transaction, memory
  <2>3. StagesMatchMemory'
    BY <2>1, ProcessesAssumption DEF TypeOK, StagesMatchMemory, Ports, memory
  <2> QED
    BY <2>2, <2>3
<1>5. CASE UNCHANGED vars
  BY <1>5 DEF TypeOK, MigrationsInOrder, StagesMatchMemory, vars, database, transaction, memory
<1>6. ASSUME NEW p \in Processes, Proceed(p)
      PROVE  StartupInv'
  <2>1. \/ ReadMigrations(p) \/ RunMigration(p) \/ UpResolves(p)
        \/ Wire(p) \/ Listen(p) \/ Ends(p)
    BY <1>6 DEF Proceed, UpRejects, ListenFails
  <2> QED
    BY <1>2, <1>3, <2>1, RunMigrationKeeps, UpResolvesKeeps, ServingKeeps
<1> QED
  BY <1>1, <1>3, <1>4, <1>5, <1>6 DEF Next, Crash

(* The invariant holds always.                                             *)
LEMMA StartupInvariant == Spec => []StartupInv
<1> QED
  BY StartupInit, StartupStep, PTL DEF Spec

-----------------------------------------------------------------------------
(* The theorems.                                                           *)

(* The lock of the writer is with the process that writes, and with none   *)
(* when none writes, however many start, migrate and are killed            *)
(* (Migrator.up, DatabaseFactory.ts:39).                                   *)
THEOREM StartupTypeCorrect == Spec => []TypeOK
<1> QED
  BY StartupInvariant, PTL DEF StartupInv

(* Whatever crashes, and whoever else migrates: the tables are those of the*)
(* migrations on record, and these are the first ones                      *)
(* (Migration_003_AddCausationIdToSystemEvents.ts:5).                      *)
THEOREM SchemaIsRecorded == Spec => []SchemaMatchesRecord
<1>1. ASSUME StartupInv
      PROVE  SchemaMatchesRecord
  <2>1. recorded \in {1..n : n \in 0..3}
    BY <1>1, PrefixesOfRecord DEF StartupInv, MigrationsInOrder
  <2> QED
    BY <1>1, <2>1 DEF StartupInv, MigrationsInOrder, SchemaMatchesRecord
<1> QED
  BY <1>1, StartupInvariant, PTL

(* A process that listens has its schema and all its handlers, and answers *)
(* REST when it answers GraphQL (factories/index.ts:18-36, main.ts:28-45). *)
THEOREM ListenersAreComplete == Spec => []ListensComplete
<1>1. ASSUME StartupInv
      PROVE  ListensComplete
  BY <1>1 DEF StartupInv, StagesMatchMemory, MigrationsInOrder, ListensComplete, Ports,
              Migrated, Processes
<1> QED
  BY <1>1, StartupInvariant, PTL
=============================================================================
