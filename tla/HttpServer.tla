----------------------------- MODULE HttpServer -----------------------------
(***************************************************************************)
(* HttpServer: the table of routes and the way of a request from the route *)
(* it matches to its answer, over the life cycle of ServerLifecycle.       *)
(* A path and a url are sequences of segments; a handler is what it gives. *)
(***************************************************************************)
EXTENDS ServerLifecycle, SequencesExt

CONSTANTS
  ParamSegments,  \* segments of a path that start with ":", by their name
  Paths,          \* the paths that routes are registered with
  Urls,           \* the urls that are requested
  NoMatch         \* the value null of extractParams

Methods == {"GET", "POST"}
Segments == UNION {ToSet(url) : url \in Urls}
ASSUME SegmentsAssumption ==
  /\ \A s \in Paths \cup Urls : s \in Seq(ToSet(s))
  /\ NoMatch \notin [ParamSegments -> Segments \cup {NoMatch}]

VARIABLES
  routes,  \* the routes, in the order of registration
  target,  \* target[q]: method and url of request q
  match,   \* match[q]: index of the route that handles it, and its params
  known    \* known[q]: history, the number of routes when it arrived

routeVars == <<routes, target, match, known>>

HttpAnswers == {"404", "handled", "500"}
Targets == [method : Methods, url : Urls]
Unmatched == [route |-> 0, params |-> NoMatch]

RoutesTypeOK ==
  /\ routes \in BoundedSeq([method : Methods, path : Paths], instance.registrations)
  /\ target \in [Requests -> Targets]
  /\ \A q \in Requests : match[q].route \in 0..Len(routes)
  /\ known \in [Requests -> 0..instance.registrations]

Http == instance.kind = "http"

(* Only the requests of the instance are told apart.                       *)
RoutesInit ==
  /\ routes = <<>>
  /\ target \in {f \in [Requests -> Targets] :
       \A q \in Requests : (Http /\ q \in instance.requests) \/ f[q] = CHOOSE t \in Targets : TRUE}
  /\ match = [q \in Requests |-> Unmatched]
  /\ known = [q \in Requests |-> 0]

-----------------------------------------------------------------------------

(* get and post append a route, also while the server runs.                *)
AddRoute(method, path) ==
  /\ Running /\ Http /\ Len(routes) < instance.registrations
  /\ routes' = Append(routes, [method |-> method, path |-> path])
  /\ UNCHANGED <<lifecycleVars, target, match, known>>
Get(path) == AddRoute("GET", path)
Post(path) == AddRoute("POST", path)

(* The parameters after each segment of the path; a later parameter of the *)
(* same name overwrites an earlier one.  NoMatch also stands for a         *)
(* parameter the path does not have.                                       *)
ParamsAfter(path, url) ==
  LET params[i \in 0..Len(path)] ==
        IF i = 0 THEN [p \in ParamSegments |-> NoMatch]
        ELSE IF params[i-1] = NoMatch THEN NoMatch
        ELSE IF path[i] \in ParamSegments THEN [params[i-1] EXCEPT ![path[i]] = url[i]]
        ELSE IF path[i] = url[i] THEN params[i-1] ELSE NoMatch
  IN params

(* An extractParams that compares as many segments as the path has: a      *)
(* mutant.                                                                 *)
ExtractParamsOfPrefix(path, url) ==
  IF Len(path) > Len(url) THEN NoMatch ELSE ParamsAfter(path, url)[Len(path)]

(* extractParams: one segment after the other.                             *)
ExtractParams(path, url) ==
  IF Len(path) # Len(url) THEN NoMatch ELSE ParamsAfter(path, url)[Len(path)]

(* matchRoute: the first route in the table, 0 if there is none.           *)
MatchRoute(t) ==
  SelectInSeq(routes, LAMBDA r :
    r.method = t.method /\ ExtractParams(r.path, t.url) # NoMatch)

(* handleRequest: the route is chosen when the request arrives; without one*)
(* 404 is sent before the body is read.                                    *)
HttpHandleRequest(q, k) ==
  /\ Http /\ Accept(q, k)
  /\ LET r == MatchRoute(target[q])
     IN IF r = 0 THEN SendJson(q, "404") /\ UNCHANGED match
        ELSE /\ Read(q)
             /\ match' = [match EXCEPT ![q] =
                  [route |-> r, params |-> ExtractParams(routes[r].path, target[q].url)]]
  /\ known' = [known EXCEPT ![q] = Len(routes)]
  /\ UNCHANGED <<instance, serverVars, left, fatal, routes, target>>

(* The handler resolves with a response ...                                *)
HandlerResolves(q) == Http /\ Answer(q, "handled") /\ UNCHANGED routeVars

(* A catch that answers nothing: a mutant.                                 *)
HandlerRejectsSilently(q) ==
  /\ Http /\ Running /\ phase[q] = "handling"
  /\ phase' = [phase EXCEPT ![q] = "silent"]
  /\ UNCHANGED <<instance, serverVars, via, connected, left, answer, fatal, routeVars>>

(* ... or rejects, or throws: the catch of the chain answers.              *)
HandlerRejects(q) == Http /\ Answer(q, "500") /\ UNCHANGED routeVars

HandlerUnserialisable(q) == Http /\ AnswerUnserialisable(q) /\ UNCHANGED routeVars

HandlerSettles(q) ==
  HandlerResolves(q) \/ HandlerRejects(q) \/ HandlerUnserialisable(q)

(* The steps of a process whose server is an HttpServer.                   *)
HttpNext ==
  \/ \E path \in Paths : Get(path) \/ Post(path)
  \/ Http /\ UNCHANGED routeVars /\
       (Lifecycle \/ (\E k \in Starts : Start(k)) \/ \E q \in Requests : BodyEnds(q))
  \/ \E q \in Requests : HandlerSettles(q) \/ \E k \in Starts : HttpHandleRequest(q, k)

-----------------------------------------------------------------------------

Matches(r, t) ==
  /\ r.method = t.method
  /\ Len(r.path) = Len(t.url)
  /\ \A i \in DOMAIN r.path : r.path[i] \in ParamSegments \/ r.path[i] = t.url[i]

(* The value a parameter should have: that of its last segment.            *)
ParamOf(path, url, p) ==
  IF p \notin ToSet(path) THEN NoMatch
  ELSE url[CHOOSE i \in DOMAIN path : path[i] = p /\ \A j \in DOMAIN path : path[j] = p => j <= i]

(* A request is handled by the first route, of those registered when it    *)
(* arrived, that matches it segment by segment, and with the parameters of *)
(* its url; it is answered 404 if and only if there is none, whatever is   *)
(* registered while its body is read (HttpServer.ts:74-79, 90-133).        *)
RoutedToFirstMatch ==
  Http => \A q \in Requests : phase[q] # "none" =>
    LET matching == {i \in 1..known[q] : Matches(routes[i], target[q])}
    IN IF matching = {} THEN answer[q] = "404" /\ match[q] = Unmatched
       ELSE /\ answer[q] # "404"
            /\ match[q].route \in matching /\ \A i \in matching : match[q].route <= i
            /\ match[q].params = [p \in ParamSegments |->
                 ParamOf(routes[match[q].route].path, target[q].url, p)]
=============================================================================
