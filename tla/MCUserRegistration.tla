------------------------- MODULE MCUserRegistration -------------------------
(***************************************************************************)
(* Small instances of UserRegistration for TLC. Of three requests two carry*)
(* the same address; the third, in flight beside them, has a name of null, *)
(* so that its upsert ends the process whenever it runs. A request that is *)
(* never submitted stands for one that is not made.                        *)
(***************************************************************************)
EXTENDS UserRegistration

CONSTANTS r1, r2, r3, m1, m2

TwoForOneAddress ==
  {[email |-> [r \in Requests |-> IF r = r3 THEN m2 ELSE m1], nameless |-> {r3}]}
Named == [email : [Requests -> Emails], nameless : {{}}]
=============================================================================
