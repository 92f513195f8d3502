---- MODULE ActiveSetRegister ----
(***************************************************************************)
(* What the readers of the rule center are promised: a scope has no         *)
(* parameter set in force, or one.  An approval puts another one in its     *)
(* place in one step; a rejection that comes late takes it out of force.    *)
(***************************************************************************)
CONSTANTS
    Sets,   \* ids of parameter sets
    Scopes  \* what a parameter set can be made for

VARIABLE inForce  \* the sets in force, of each scope

Init == inForce = [k \in Scopes |-> {}]

\* Set s takes effect for scope k.
Replace(k, s) ==
    /\ \A j \in Scopes : s \notin inForce[j]
    /\ inForce' = [inForce EXCEPT ![k] = {s}]

\* The set in force for scope k is taken back.
Withdraw(k) ==
    /\ inForce[k] # {}
    /\ inForce' = [inForce EXCEPT ![k] = {}]

Next == \E k \in Scopes : Withdraw(k) \/ \E s \in Sets : Replace(k, s)

Spec == Init /\ [][Next]_inForce
====
