----------------------------- MODULE UnitOfWork -----------------------------
(***************************************************************************)
(* What shared/application/UnitOfWork.ts promises to ApplicationService,   *)
(* as one unit of work sees it: it opens, alone or under the unit of work  *)
(* of its caller; the sources it touches are its own; commit hands exactly *)
(* its own aggregates to the persistence and then succeeds or fails; a     *)
(* failure aborts it and, through the error, the one that called it.       *)
(***************************************************************************)
EXTENDS FiniteSets

CONSTANTS Exec, Aggregates, Sources

VARIABLES
  status,    \* status[x]: where the unit of work is in its life
  caller,    \* caller[x]: the open unit of work x is nested in, as a set
  touched,   \* touched[x]: the sources x emitted events on
  handed     \* handed[x]: the aggregates commit gave to the persistence

vars == <<status, caller, touched, handed>>

Init ==
  /\ status = [x \in Exec |-> "new"]
  /\ caller = [x \in Exec |-> {}]
  /\ touched = [x \in Exec |-> {}]
  /\ handed = [x \in Exec |-> {}]

(* A unit of work with an unfinished one nested in it waits for it.        *)
Active(x) == \A y \in Exec : x \notin caller[y]

Open(x) ==
  /\ status[x] = "new"
  /\ status' = [status EXCEPT ![x] = "open"]
  /\ \/ UNCHANGED caller
     \/ \E y \in Exec : /\ status[y] = "open" /\ Active(y)
                        /\ caller' = [caller EXCEPT ![x] = {y}]
  /\ UNCHANGED <<touched, handed>>

Touch(x, s) ==
  /\ status[x] = "open" /\ Active(x)
  /\ touched' = [touched EXCEPT ![x] = @ \cup {s}]
  /\ UNCHANGED <<status, caller, handed>>

HandOver(x) ==
  /\ status[x] = "open" /\ Active(x)
  /\ status' = [status EXCEPT ![x] = "handed"]
  /\ handed' = [handed EXCEPT ![x] = touched[x] \cap Aggregates]
  /\ UNCHANGED <<caller, touched>>

Commit(x) ==
  /\ status[x] = "handed"
  /\ status' = [status EXCEPT ![x] = "committed"]
  /\ caller' = [caller EXCEPT ![x] = {}]
  /\ UNCHANGED <<touched, handed>>

Fail(x) ==
  /\ status[x] \in {"open", "handed"} /\ Active(x)
  /\ status' = [status EXCEPT ![x] = "doomed"]
  /\ UNCHANGED <<caller, touched, handed>>

Abort(x) ==
  /\ status[x] = "doomed"
  /\ status' = [y \in Exec |-> IF y = x THEN "aborted"
                               ELSE IF y \in caller[x] THEN "doomed"
                               ELSE status[y]]
  /\ caller' = [caller EXCEPT ![x] = {}]
  /\ UNCHANGED <<touched, handed>>

Next ==
  \E x \in Exec :
    \/ Open(x) \/ HandOver(x) \/ Commit(x) \/ Fail(x) \/ Abort(x)
    \/ \E s \in Sources : Touch(x, s)

Spec == Init /\ [][Next]_vars
=============================================================================
