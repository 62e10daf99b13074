------------------------------ MODULE Servers ------------------------------
(***************************************************************************)
(* A process with one of the two servers: the routes of HttpServer or the  *)
(* schema of GraphqlServer over the life cycle they have in common.        *)
(* instance says which, and with which calls and requests.                 *)
(***************************************************************************)
EXTENDS HttpServer, GraphqlServer

vars == <<lifecycleVars, routeVars, graphqlVars>>

TypeOK ==
  /\ LifecycleTypeOK(HttpAnswers \cup GraphqlAnswers)
  /\ RoutesTypeOK
  /\ SchemaTypeOK

Init == LifecycleInit /\ RoutesInit /\ SchemaInit

(* Nothing is under way that the process or a client has to end.           *)
Quiet ==
  \/ ~Running
  \/ /\ \A k \in Starts : socket[k] \notin {"opening", "closing"}
     /\ \A q \in Requests : phase[q] \notin {"reading", "handling"}

Next ==
  \/ HttpNext /\ UNCHANGED graphqlVars
  \/ GraphqlNext /\ UNCHANGED routeVars
  \/ Quiet /\ UNCHANGED vars

Spec == Init /\ [][Next]_vars

(* Node.js runs its callbacks and its timeouts, and what handles a request *)
(* settles, with a value or an error.                                      *)
FairSpec ==
  /\ Spec
  /\ LifecycleFairness
  /\ \A q \in Requests : WF_<<lifecycleVars, routeVars>>(HandlerSettles(q))
  /\ \A q \in Requests : WF_<<lifecycleVars, graphqlVars>>(QuerySettles(q))
=============================================================================
