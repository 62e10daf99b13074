-------------------------- MODULE ServerLifecycle --------------------------
(***************************************************************************)
(* What HttpServer and GraphqlServer have in common, line for line: start, *)
(* stop, readBody and sendJson over a server of node:http, from the arrival*)
(* of a request to its answer.                                             *)
(*                                                                         *)
(* The sockets are those of Node.js.  listen binds at once and emits       *)
(* listening, or error, before any I/O; close stops accepting, ends the    *)
(* idle connections, and calls back when the last connection has ended.    *)
(* A connection carries one request.  An error that nobody handles ends    *)
(* the process: fatal says which.                                          *)
(***************************************************************************)
EXTENDS Naturals, FiniteSets

CONSTANTS
  Starts,          \* the calls of start; each creates a server of its own
  Stops,           \* the calls of stop
  Requests,        \* the requests that clients send
  NoServer,        \* the value undefined of the field server
  Instances,       \* the servers and callers to consider, one in a behaviour
  PortMayBeTaken   \* may the port be in use

(* An instance bounds what happens to a server: the calls and requests that*)
(* may be made; whether the caller takes turns, that is awaits every call  *)
(* and starts only what is stopped; and what may be registered.            *)
ASSUME ServerAssumption == NoServer \notin Starts /\ PortMayBeTaken \in BOOLEAN
ASSUME InstancesAssumption ==
  Instances \subseteq
    [kind : {"http", "graphql"}, takesTurns : BOOLEAN, registrations : Nat,
     starts : SUBSET Starts, stops : SUBSET Stops, requests : SUBSET Requests]

VARIABLES
  instance,   \* the one of this behaviour
  server,     \* the field server
  socket,     \* socket[k]: the server that call k of start created
  started,    \* started[k]: the promise of that call
  stopped,    \* stopped[t]: the promise of call t of stop, "late" when the
              \* server it closes had been closed before
  closes,     \* closes[t]: the server whose close call t of stop called
  phase,      \* phase[q]: how far request q has come
  via,        \* via[q]: the server it came to
  connected,  \* requests whose connection is open
  left,       \* history: those whose client went before the answer
  answer,     \* answer[q]: what sendJson was called with
  fatal       \* the unhandled error that ended the process, if any

serverVars == <<server, socket, started, stopped, closes>>
requestVars == <<phase, via, connected, left, answer>>
lifecycleVars == <<instance, serverVars, requestVars, fatal>>

Running == fatal = "none"
Fatalities == {"none", "port taken", "no server", "malformed body", "unserialisable"}

LifecycleTypeOK(answers) ==
  /\ instance \in Instances
  /\ server \in Starts \cup {NoServer}
  /\ socket \in [Starts -> {"none", "opening", "listening", "closing", "closed"}]
  /\ started \in [Starts -> {"idle", "pending", "resolved"}]
  /\ stopped \in [Stops -> {"idle", "pending", "late", "resolved", "rejected"}]
  /\ closes \in [Stops -> Starts \cup {NoServer}]
  /\ phase \in [Requests -> {"none", "reading", "handling", "answered", "abandoned"}]
  /\ via \in [Requests -> Starts \cup {NoServer}]
  /\ connected \in SUBSET Requests /\ left \in SUBSET Requests
  /\ answer \in [Requests -> answers \cup {"none"}]
  /\ fatal \in Fatalities

LifecycleInit ==
  /\ instance \in Instances
  /\ server = NoServer
  /\ socket = [k \in Starts |-> "none"]
  /\ started = [k \in Starts |-> "idle"]
  /\ stopped = [t \in Stops |-> "idle"]
  /\ closes = [t \in Stops |-> NoServer]
  /\ phase = [q \in Requests |-> "none"]
  /\ via = [q \in Requests |-> NoServer]
  /\ connected = {} /\ left = {}
  /\ answer = [q \in Requests |-> "none"]
  /\ fatal = "none"

-----------------------------------------------------------------------------

(* What a caller that takes turns knows before it calls.                   *)
AllSettled ==
  /\ \A k \in Starts : started[k] # "pending"
  /\ \A t \in Stops : stopped[t] \notin {"pending", "late"}
AllStopped ==
  \A k \in Starts : started[k] # "idle" =>
    \E t \in Stops : closes[t] = k /\ stopped[t] = "resolved"
MayStart == instance.takesTurns => AllSettled /\ AllStopped
MayStop == instance.takesTurns => AllSettled

(* start: the field is overwritten, whatever it holds.                     *)
Start(k) ==
  /\ Running /\ MayStart
  /\ k \in instance.starts
  /\ started[k] = "idle"
  /\ server' = k
  /\ socket' = [socket EXCEPT ![k] = "opening"]
  /\ started' = [started EXCEPT ![k] = "pending"]
  /\ UNCHANGED <<instance, stopped, closes, requestVars, fatal>>

(* The callback of listen reads the field: when a callback of close has    *)
(* unset it, the error is thrown in an event listener.                     *)
Listening(k) ==
  /\ Running
  /\ socket[k] = "opening"
  /\ IF server = NoServer THEN fatal' = "no server" /\ UNCHANGED started
     ELSE started' = [started EXCEPT ![k] = "resolved"] /\ UNCHANGED fatal
  /\ socket' = [socket EXCEPT ![k] = "listening"]
  /\ UNCHANGED <<instance, server, stopped, closes, requestVars>>

(* Nobody listens for the error event of the server.                       *)
ListenFails(k) ==
  /\ Running /\ PortMayBeTaken
  /\ socket[k] = "opening"
  /\ fatal' = "port taken"
  /\ UNCHANGED <<instance, serverVars, requestVars>>

Idle(q) == phase[q] = "answered"

(* A stop that does not wait for the callback of close: a mutant.          *)
StopNotWaiting(t) ==
  /\ Running /\ MayStop
  /\ t \in instance.stops
  /\ stopped[t] = "idle"
  /\ stopped' = [stopped EXCEPT ![t] = "resolved"]
  /\ closes' = [closes EXCEPT ![t] = server]
  /\ socket' = IF server = NoServer THEN socket ELSE [socket EXCEPT ![server] = "closing"]
  /\ connected' = {q \in connected : via[q] # server \/ ~Idle(q)}
  /\ UNCHANGED <<instance, server, started, phase, via, left, answer, fatal>>

(* A stop that ends all connections, not the idle ones only: a mutant.     *)
StopDropping(t) ==
  /\ Running /\ MayStop
  /\ t \in instance.stops
  /\ stopped[t] = "idle"
  /\ IF server = NoServer
     THEN stopped' = [stopped EXCEPT ![t] = "resolved"] /\ UNCHANGED <<closes, socket, connected>>
     ELSE /\ stopped' = [stopped EXCEPT ![t] =
                           IF socket[server] \in {"opening", "listening"} THEN "pending" ELSE "late"]
          /\ closes' = [closes EXCEPT ![t] = server]
          /\ socket' = [socket EXCEPT ![server] = "closing"]
          /\ connected' = {q \in connected : via[q] # server}
  /\ UNCHANGED <<instance, server, started, phase, via, left, answer, fatal>>

(* stop: resolved at once when the field is unset.                         *)
Stop(t) ==
  /\ Running /\ MayStop
  /\ t \in instance.stops
  /\ stopped[t] = "idle"
  /\ IF server = NoServer
     THEN stopped' = [stopped EXCEPT ![t] = "resolved"] /\ UNCHANGED <<closes, socket, connected>>
     ELSE /\ stopped' = [stopped EXCEPT ![t] =
                           IF socket[server] \in {"opening", "listening"} THEN "pending" ELSE "late"]
          /\ closes' = [closes EXCEPT ![t] = server]
          /\ socket' = [socket EXCEPT ![server] = "closing"]
          /\ connected' = {q \in connected : via[q] # server \/ ~Idle(q)}
  /\ UNCHANGED <<instance, server, started, phase, via, left, answer, fatal>>

(* The callbacks of close: each unsets the field, whatever it holds by now.*)
(* A close of a server that was not running calls back with an error.      *)
Closed(k) ==
  /\ Running
  /\ socket[k] = "closing"
  /\ \A q \in connected : via[q] # k
  /\ socket' = [socket EXCEPT ![k] = "closed"]
  /\ server' = NoServer
  /\ stopped' = [t \in Stops |->
       IF closes[t] # k THEN stopped[t]
       ELSE CASE stopped[t] = "pending" -> "resolved"
              [] stopped[t] = "late" -> "rejected"
              [] OTHER -> stopped[t]]
  /\ UNCHANGED <<instance, started, closes, requestVars, fatal>>

-----------------------------------------------------------------------------

SendJson(q, status) ==
  /\ phase' = [phase EXCEPT ![q] = "answered"]
  /\ answer' = [answer EXCEPT ![q] = status]

(* A connection is accepted and handleRequest is called with its request.  *)
Accept(q, k) ==
  /\ Running
  /\ q \in instance.requests
  /\ socket[k] = "listening" /\ phase[q] = "none"
  /\ via' = [via EXCEPT ![q] = k]
  /\ connected' = connected \cup {q}

(* ... and reads the body.                                                 *)
Read(q) == phase' = [phase EXCEPT ![q] = "reading"] /\ UNCHANGED answer

(* The end event: an empty body or valid JSON resolves readBody ...        *)
BodyEnds(q) ==
  /\ Running
  /\ phase[q] = "reading"
  /\ phase' = [phase EXCEPT ![q] = "handling"]
  /\ UNCHANGED <<instance, serverVars, via, connected, left, answer, fatal>>

(* ... and JSON.parse throws in the listener, outside the promise.         *)
BodyMalformed(q) ==
  /\ Running
  /\ phase[q] = "reading"
  /\ fatal' = "malformed body"
  /\ UNCHANGED <<instance, serverVars, requestVars>>

(* What the handler gave is answered, to whoever is still there.           *)
Answer(q, status) ==
  /\ Running
  /\ phase[q] = "handling"
  /\ SendJson(q, status)
  /\ UNCHANGED <<instance, serverVars, via, connected, left, fatal>>

(* JSON.stringify throws after writeHead; the second sendJson, in the catch*)
(* of the chain, throws because the head has been written.                 *)
AnswerUnserialisable(q) ==
  /\ Running
  /\ phase[q] = "handling"
  /\ fatal' = "unserialisable"
  /\ UNCHANGED <<instance, serverVars, requestVars>>

(* The connection ends: the client goes, or a timeout of Node.js ends it.  *)
(* The end event of a body that was cut off never comes; a handler goes on.*)
Disconnect(q) ==
  /\ Running
  /\ q \in connected
  /\ connected' = connected \ {q}
  /\ left' = IF phase[q] = "answered" THEN left ELSE left \cup {q}
  /\ phase' = IF phase[q] = "reading" THEN [phase EXCEPT ![q] = "abandoned"] ELSE phase
  /\ UNCHANGED <<instance, serverVars, via, answer, fatal>>

(* What neither the routes nor the schema have a part in.                  *)
Lifecycle ==
  \/ \E k \in Starts : Listening(k) \/ ListenFails(k) \/ Closed(k)
  \/ \E t \in Stops : Stop(t)
  \/ \E q \in Requests : BodyMalformed(q) \/ Disconnect(q)

(* keepAliveTimeout and requestTimeout of Node.js.                         *)
TimesOut(q) == phase[q] \in {"reading", "answered"} /\ Disconnect(q)

(* Node.js runs its callbacks and its timeouts.                            *)
LifecycleFairness ==
  /\ \A k \in Starts : WF_lifecycleVars(Listening(k) \/ ListenFails(k)) /\ WF_lifecycleVars(Closed(k))
  /\ \A q \in Requests : WF_lifecycleVars(TimesOut(q))

-----------------------------------------------------------------------------

(* What listens can be stopped: the field holds the server that is open,   *)
(* through any number of starts and stops of a caller who takes turns and  *)
(* waits for each before the next, although the callback of close unsets   *)
(* the field whatever it holds (HttpServer.ts:63, GraphqlServer.ts:76).    *)
NothingLeaks ==
  instance.takesTurns => \A k \in Starts : socket[k] \in {"opening", "listening"} => server = k

(* A stop that resolved has lost no answer: every request its server took  *)
(* was answered, unless the client went first (HttpServer.ts:62-67).       *)
StoppedMeansAnswered ==
  \A t \in Stops, q \in Requests :
    stopped[t] = "resolved" /\ closes[t] # NoServer /\ via[q] = closes[t] =>
      phase[q] = "answered" \/ q \in left

(* A stop settles, whatever the requests do meanwhile, and every request   *)
(* comes to its end, answered or cut off while its body was read; unless   *)
(* the process ends (HttpServer.ts:62-69, 73-88, 136-152).                 *)
EverythingSettles ==
  /\ \A t \in Stops :
       (stopped[t] \in {"pending", "late"}) ~> (stopped[t] \in {"resolved", "rejected"} \/ ~Running)
  /\ \A q \in Requests :
       (phase[q] # "none") ~> (phase[q] \in {"answered", "abandoned"} \/ ~Running)
=============================================================================
