---------------------------- MODULE CheckSchedule ----------------------------
(***************************************************************************)
(* What the coordinators of a MAC check type (Tools/Coordinator.cpp)       *)
(* promise together: all parties open the results of their threads' checks *)
(* in one order, and nobody opens the next one before everybody has opened *)
(* the one before it.                                                      *)
(***************************************************************************)
EXTENDS Naturals, Sequences

CONSTANTS Parties, Threads

VARIABLES order,    \* the threads whose checks have been opened by anybody
          opened    \* how many of them each party has opened

vars == <<order, opened>>

Init == order = <<>> /\ opened = [p \in Parties |-> 0]

Open(p, t) ==
    /\ \A q \in Parties : opened[q] >= opened[p]
    /\ IF opened[p] = Len(order)
       THEN order' = Append(order, t)
       ELSE t = order[opened[p] + 1] /\ UNCHANGED order
    /\ opened' = [opened EXCEPT ![p] = @ + 1]

Next == \E p \in Parties, t \in Threads : Open(p, t)

Spec == Init /\ [][Next]_vars
=============================================================================
