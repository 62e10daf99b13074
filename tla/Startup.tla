------------------------------ MODULE Startup ------------------------------
(***************************************************************************)
(* main: the database is opened and migrated, the module is composed and   *)
(* registered, the REST server listens and then the GraphQL server.  Two   *)
(* processes may do so at a time, next to the migration:up of package.json,*)
(* and each may be killed anywhere and launched again; tables and ports    *)
(* are what they share.                                                    *)
(*                                                                         *)
(* Migrator.up runs in one transaction of SQLite, deferred: it reads the   *)
(* table of migrations, and takes the lock of the writer with its first    *)
(* statement.  It is refused when another has the lock, or has committed   *)
(* since; and it commits when no other is reading any more.  While it waits*)
(* for that none begins to, and who wants to is refused after a time.      *)
(***************************************************************************)
EXTENDS Naturals, FiniteSets

CONSTANTS
  Servers,   \* processes that run main.ts
  Migrators, \* processes that run migration:up and end
  Nobody,    \* no process has the lock, or the port
  Other      \* some other program has the port

Processes == Servers \cup Migrators
Ports == {"REST_PORT", "GRAPHQL_PORT"}
Migrations == 1..3

ASSUME ProcessesAssumption ==
  /\ IsFiniteSet(Processes) /\ Servers \cap Migrators = {}
  /\ Nobody \notin Processes /\ Other \notin Processes /\ Nobody # Other

VARIABLES
  tables,    \* the tables, and columns added later, of the database
  recorded,  \* the table of migrations
  writer,    \* the process that has the lock of the writer
  ran,       \* ran[p]: what the transaction of p makes of recorded ...
  made,      \* ... and of tables
  tracks,    \* tracks[p]: the classes whose callback setOnTrack has set
  serves,    \* serves[p]: what is registered with the servers and the bus
  holder,    \* holder[port]: who listens
  stage      \* stage[p]: how far p has come

database == <<tables, recorded, writer>>
transaction == <<ran, made>>
memory == <<tracks, serves>>
vars == <<database, transaction, memory, holder, stage>>

Tables == {"users", "addresses", "system_events", "causation_id"}
Operations ==
  {"UserCreated", "POST /users", "GET /users/:userId", "POST /users/:userId/addresses",
   "createUser"}
Stages == {"down", "connected", "reading", "writing", "migrated", "wired", "rest", "serving"}

TypeOK ==
  /\ tables \in SUBSET Tables /\ recorded \in SUBSET Migrations
  /\ writer \in Processes \cup {Nobody}
  /\ ran \in [Processes -> SUBSET Migrations] /\ made \in [Processes -> SUBSET Tables]
  /\ tracks \in [Processes -> SUBSET {"AggregateRoot", "EventEmittingAdapter"}]
  /\ serves \in [Processes -> SUBSET Operations]
  /\ holder \in [Ports -> Processes \cup {Nobody, Other}]
  /\ stage \in [Processes -> Stages]
  /\ \A p \in Processes : writer = p <=> stage[p] = "writing"

-----------------------------------------------------------------------------

(* The statements of the migrations: what each adds, and whether it may    *)
(* meet a database that has it.                                            *)
CreateUsersAndAddresses == {"users", "addresses"}
CreateSystemEvents == {"system_events"}
AddCausationId == {"causation_id"}

Adds(m) ==
  CASE m = 1 -> CreateUsersAndAddresses
    [] m = 2 -> CreateSystemEvents
    [] m = 3 -> AddCausationId

IfNotExists(m) == m \in {1, 2}
Runs(m, existing) ==
  /\ IfNotExists(m) \/ Adds(m) \cap existing = {}
  /\ m = 3 => CreateSystemEvents \subseteq existing

SchemaOf(done) == UNION {Adds(m) : m \in done}

(* The database of any earlier version.                                    *)
Init ==
  /\ recorded \in {1..n : n \in 0..3} /\ tables = SchemaOf(recorded)
  /\ writer = Nobody
  /\ ran = [p \in Processes |-> {}] /\ made = [p \in Processes |-> {}]
  /\ tracks = [p \in Processes |-> {}] /\ serves = [p \in Processes |-> {}]
  /\ holder \in [Ports -> {Nobody, Other}]
  /\ stage = [p \in Processes |-> "down"]

Reaches(p, s) == stage' = [stage EXCEPT ![p] = s]

(* MikroORM.init.                                                          *)
Launch(p) ==
  /\ stage[p] = "down"
  /\ Reaches(p, "connected")
  /\ UNCHANGED <<database, transaction, memory, holder>>

Pending(p) == Migrations \ ran[p]
Committing(p) == stage[p] = "writing" /\ Pending(p) = {}

(* migrator.up: the transaction begins with a look at what has been run.   *)
ReadMigrations(p) ==
  /\ stage[p] = "connected"
  /\ \A q \in Processes : ~Committing(q)
  /\ Reaches(p, "reading")
  /\ ran' = [ran EXCEPT ![p] = recorded] /\ made' = [made EXCEPT ![p] = tables]
  /\ UNCHANGED <<database, memory, holder>>

(* What p read is what the database holds.                                 *)
Current(p) == writer \in {p, Nobody} /\ (writer = Nobody => ran[p] = recorded)
NextPending(p) == CHOOSE m \in Pending(p) : \A n \in Pending(p) : m <= n

(* A configuration with transactional: false, under which a statement takes*)
(* effect at once: a mutant.                                               *)
RunMigrationAtOnce(p) ==
  /\ stage[p] \in {"reading", "writing"} /\ Pending(p) # {}
  /\ Current(p) /\ Runs(NextPending(p), made[p])
  /\ writer' = p
  /\ ran' = [ran EXCEPT ![p] = @ \cup {NextPending(p)}]
  /\ made' = [made EXCEPT ![p] = @ \cup Adds(NextPending(p))]
  /\ tables' = tables \cup Adds(NextPending(p))
  /\ Reaches(p, "writing")
  /\ UNCHANGED <<recorded, memory, holder>>

(* One pending migration after the other, in the order of their names, and *)
(* all in one transaction: the configuration of the migrator names the     *)
(* files and overrides nothing.                                            *)
RunMigration(p) ==
  /\ stage[p] \in {"reading", "writing"} /\ Pending(p) # {}
  /\ Current(p) /\ Runs(NextPending(p), made[p])
  /\ writer' = p
  /\ ran' = [ran EXCEPT ![p] = @ \cup {NextPending(p)}]
  /\ made' = [made EXCEPT ![p] = @ \cup Adds(NextPending(p))]
  /\ Reaches(p, "writing")
  /\ UNCHANGED <<tables, recorded, memory, holder>>

(* A transaction that outlives its process: a mutant.                      *)
EndsLocked(p) ==
  /\ Reaches(p, "down")
  /\ ran' = [ran EXCEPT ![p] = {}] /\ made' = [made EXCEPT ![p] = {}]
  /\ tracks' = [tracks EXCEPT ![p] = {}] /\ serves' = [serves EXCEPT ![p] = {}]
  /\ holder' = [port \in Ports |-> IF holder[port] = p THEN Nobody ELSE holder[port]]
  /\ UNCHANGED database

(* What is left of a process that ends: nothing but what it committed.     *)
Ends(p) ==
  /\ Reaches(p, "down")
  /\ writer' = IF writer = p THEN Nobody ELSE writer
  /\ ran' = [ran EXCEPT ![p] = {}] /\ made' = [made EXCEPT ![p] = {}]
  /\ tracks' = [tracks EXCEPT ![p] = {}] /\ serves' = [serves EXCEPT ![p] = {}]
  /\ holder' = [port \in Ports |-> IF holder[port] = p THEN Nobody ELSE holder[port]]
  /\ UNCHANGED <<tables, recorded>>

(* The database is busy, or a statement fails.                             *)
Refused(p) ==
  \/ stage[p] = "connected" /\ \E q \in Processes : Committing(q)
  \/ /\ stage[p] \in {"reading", "writing"} /\ Pending(p) # {}
     /\ ~Current(p) \/ ~Runs(NextPending(p), made[p])

(* A create that goes on when up rejects: a mutant.                        *)
UpRejectsUnnoticed(p) ==
  /\ Refused(p)
  /\ Reaches(p, "migrated")
  /\ ran' = [ran EXCEPT ![p] = {}] /\ made' = [made EXCEPT ![p] = {}]
  /\ UNCHANGED <<database, memory, holder>>

(* up rejects, main rejects, nobody handles the rejection.                 *)
UpRejects(p) == Refused(p) /\ Ends(p)

(* The transaction ends: with nothing to write, or when no other process   *)
(* is reading.  migration:up is over then.                                 *)
UpResolves(p) ==
  /\ stage[p] \in {"reading", "writing"} /\ Pending(p) = {}
  /\ IF stage[p] = "writing"
     THEN /\ \A q \in Processes : stage[q] # "reading"
          /\ tables' = made[p] /\ recorded' = ran[p] /\ writer' = Nobody
     ELSE UNCHANGED database
  /\ Reaches(p, IF p \in Migrators THEN "down" ELSE "migrated")
  /\ ran' = [ran EXCEPT ![p] = {}] /\ made' = [made EXCEPT ![p] = {}]
  /\ UNCHANGED <<memory, holder>>

-----------------------------------------------------------------------------

(* The rest of DatabaseFactory.create, UserModuleFactory.create,           *)
(* InfrastructureFactory.create and register, without an await.            *)
SetOnTrack == {"AggregateRoot", "EventEmittingAdapter"}
RegisterEventHandlers == {"UserCreated"}
RegisterRoutes == {"POST /users", "GET /users/:userId", "POST /users/:userId/addresses"}
RegisterResolvers == {"createUser"}

Register(p) ==
  serves' = [serves EXCEPT ![p] = RegisterEventHandlers \cup RegisterRoutes \cup RegisterResolvers]

Wire(p) ==
  /\ stage[p] = "migrated"
  /\ tracks' = [tracks EXCEPT ![p] = SetOnTrack]
  /\ Register(p)
  /\ Reaches(p, "wired")
  /\ UNCHANGED <<database, transaction, holder>>

(* await httpServer.start, and then await graphqlServer.start.             *)
NextPort(p) == IF stage[p] = "wired" THEN "REST_PORT" ELSE "GRAPHQL_PORT"

Listen(p) ==
  /\ stage[p] \in {"wired", "rest"}
  /\ holder[NextPort(p)] = Nobody
  /\ holder' = [holder EXCEPT ![NextPort(p)] = p]
  /\ Reaches(p, IF stage[p] = "wired" THEN "rest" ELSE "serving")
  /\ UNCHANGED <<database, transaction, memory>>

(* A listener of error that logs it: the promise never settles.  A mutant. *)
ListenFailsSilently(p) == FALSE

(* The error event of the server has no listener and ends the process, with*)
(* the requests that the REST server has taken by then.                    *)
ListenFails(p) ==
  /\ stage[p] \in {"wired", "rest"}
  /\ holder[NextPort(p)] # Nobody
  /\ Ends(p)

(* A process is killed, or MikroORM.init rejects.                          *)
Crash(p) == stage[p] # "down" /\ Ends(p)

(* Other programs come and go.                                             *)
OtherProgram(port) ==
  /\ \/ holder[port] = Nobody /\ holder' = [holder EXCEPT ![port] = Other]
     \/ holder[port] = Other /\ holder' = [holder EXCEPT ![port] = Nobody]
  /\ UNCHANGED <<database, transaction, memory, stage>>

Proceed(p) ==
  \/ ReadMigrations(p) \/ RunMigration(p) \/ UpRejects(p) \/ UpResolves(p)
  \/ Wire(p) \/ Listen(p) \/ ListenFails(p)

Next ==
  \/ \E p \in Processes : Launch(p) \/ Proceed(p) \/ Crash(p)
  \/ \E port \in Ports : OtherProgram(port)

Spec == Init /\ [][Next]_vars

(* A process that runs gets on; nothing is said of launches and crashes.   *)
FairSpec == Spec /\ \A p \in Processes : WF_vars(Proceed(p))

-----------------------------------------------------------------------------

(* The tables are those of the migrations on record, and these are the     *)
(* first ones: whatever crashed or ran at the same time, none is done by   *)
(* half, skipped, or done without being recorded, after which the ALTER of *)
(* the third could never run again                                         *)
(* (Migration_003_AddCausationIdToSystemEvents.ts:5).                      *)
SchemaMatchesRecord ==
  /\ \E n \in 0..3 : recorded = 1..n
  /\ tables = SchemaOf(recorded)

(* A process that listens has the schema it was written for and all its    *)
(* handlers, and who answers GraphQL answers REST, also when another       *)
(* process starts, migrates or crashes meanwhile                           *)
(* (factories/index.ts:18-36, main.ts:28-45).                              *)
ListensComplete ==
  \A p \in Servers :
    /\ (\E port \in Ports : holder[port] = p) =>
         /\ recorded = Migrations
         /\ tracks[p] = SetOnTrack /\ serves[p] = Operations
    /\ holder["GRAPHQL_PORT"] = p => holder["REST_PORT"] = p

(* A process that was launched comes to serve on both ports, or ends: the  *)
(* transactions of two that start together do not wait for each other      *)
(* (main.ts:24-55).                                                        *)
StartupEnds ==
  \A p \in Processes : (stage[p] # "down") ~> (stage[p] \in {"down", "serving"})
=============================================================================
