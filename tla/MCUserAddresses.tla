-------------------------- MODULE MCUserAddresses --------------------------
(***************************************************************************)
(* Small instances of UserAddresses for TLC: two addresses for one user, a *)
(* request for a user who does not exist and a GET in between, while the   *)
(* database works; and forms of every kind that the layers tell apart, for *)
(* one user or two, and while it may fail. A request that is refused at    *)
(* once stands for one that is not made.                                   *)
(***************************************************************************)
EXTENDS UserAddresses

CONSTANTS a1, a2, a3, g1, u1, u2

Complete == [field \in Fields |-> "text"]
NoStreet == [Complete EXCEPT !.street = "absent"]
NoNumber == [Complete EXCEPT !.number = "absent"]
AllForms == {Complete, NoStreet, NoNumber, [Complete EXCEPT !.street = "null"],
             [Complete EXCEPT !.number = "null"], [Complete EXCEPT !.number = "empty"],
             [Complete EXCEPT !.city = "empty"]}

Case(first, second, third, user, fails) ==
  [body |-> [a \in Adds |-> CASE a = a1 -> first [] a = a2 -> second [] OTHER -> third],
   userId |-> [q \in Requests |-> IF q = a3 THEN user ELSE u1],
   users |-> {u1},
   databaseFails |-> fails]

OneMissing == {Case(Complete, Complete, Complete, u2, FALSE)}
SmallCases ==
  OneMissing
    \cup {Case(form, NoStreet, Complete, u1, TRUE) : form \in {Complete, NoNumber}}
    \cup {Case(form, NoStreet, Complete, u, FALSE) : form \in AllForms, u \in Users}
=============================================================================
