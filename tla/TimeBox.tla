------------------------------- MODULE TimeBox -------------------------------
(***************************************************************************)
(* What a component promises of work it bounds in time, whatever the work  *)
(* waits for: it begins with nothing spent, it may end at any moment, and  *)
(* no time passes over work that has spent its limit.  Pipeline promises   *)
(* this of its requests.                                                   *)
(***************************************************************************)
EXTENDS Integers

CONSTANTS
    Members,  \* the pieces of work
    Limit     \* the time each may take

VARIABLES
    inside,  \* the work in progress
    spent    \* the time it has taken so far

boxVars == <<inside, spent>>

Init == inside = {} /\ spent = [m \in Members |-> 0]

Enter(m) ==
    /\ m \notin inside
    /\ inside' = inside \cup {m}
    /\ UNCHANGED spent

Leave(m) ==
    /\ m \in inside
    /\ inside' = inside \ {m}
    /\ spent' = [spent EXCEPT ![m] = 0]

Pass ==
    /\ \A m \in inside : spent[m] < Limit[m]
    /\ spent' = [m \in Members |-> IF m \in inside THEN spent[m] + 1 ELSE 0]
    /\ UNCHANGED inside

Next ==
    \/ \E m \in Members : Enter(m) \/ Leave(m)
    \/ Pass

Spec == Init /\ [][Next]_boxVars

=============================================================================
