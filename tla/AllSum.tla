------------------------------- MODULE AllSum --------------------------------
(***************************************************************************)
(* What TreeSum promises: several times over, every party puts in a value  *)
(* and gets the sum of what all have put in, not before they have.         *)
(***************************************************************************)
EXTENDS Naturals, Sequences

CONSTANTS Parties, NRuns

VARIABLES begun,     \* how many sums each party has begun
          results    \* what it has got

vars == <<begun, results>>

\* A sum is what it consists of: how often the value of each party for each run.
All(run) == [c \in (1..NRuns) \X Parties |-> IF c[1] = run THEN 1 ELSE 0]

Init == begun = [p \in Parties |-> 0] /\ results = [p \in Parties |-> <<>>]

Begin(p) ==
    /\ begun[p] < NRuns /\ Len(results[p]) = begun[p]
    /\ begun' = [begun EXCEPT ![p] = @ + 1]
    /\ UNCHANGED results

Finish(p) ==
    /\ Len(results[p]) < begun[p]
    /\ \A q \in Parties : begun[q] >= begun[p]
    /\ results' = [results EXCEPT ![p] = Append(@, All(begun[p]))]
    /\ UNCHANGED begun

Next == \E p \in Parties : Begin(p) \/ Finish(p)
Spec == Init /\ [][Next]_vars
=============================================================================
