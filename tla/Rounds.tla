------------------------------- MODULE Rounds -------------------------------
(***************************************************************************)
(* What the players of Networking/ promise.  All parties run the same      *)
(* sequence of operations.  An operation ends at a party once everybody    *)
(* who has something for it has begun the operation, and yields exactly    *)
(* what they have for it in this operation; nobody waits for more.         *)
(***************************************************************************)
EXTENDS Naturals, Sequences

CONSTANT Parties

VARIABLES channels, \* for each operation, the pairs <<from, to>>; chosen at the beginning
          begun,    \* how many operations each party has begun
          result    \* for each party, what the operations it has ended have yielded

\* The message that the other party has for it in this operation, or nothing.
Yield(k, p) ==
    [q \in Parties |-> IF <<q, p>> \in channels[k] THEN "message" ELSE "nothing"]

Init ==
    /\ channels \in Seq(SUBSET (Parties \X Parties))
    /\ begun = [p \in Parties |-> 0]
    /\ result = [p \in Parties |-> <<>>]

Begin(p) ==
    /\ begun[p] = Len(result[p]) /\ begun[p] < Len(channels)
    /\ begun' = [begun EXCEPT ![p] = @ + 1]
    /\ UNCHANGED <<channels, result>>

End(p) ==
    /\ begun[p] = Len(result[p]) + 1
    /\ \A q \in Parties : <<q, p>> \in channels[begun[p]] => begun[q] >= begun[p]
    /\ result' = [result EXCEPT ![p] = Append(@, Yield(begun[p], p))]
    /\ UNCHANGED <<channels, begun>>

Next == \E p \in Parties : Begin(p) \/ End(p)
Spec == Init /\ [][Next]_<<channels, begun, result>>
=============================================================================
