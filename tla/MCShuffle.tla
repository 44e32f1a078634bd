------------------------------ MODULE MCShuffle ------------------------------
(* Instances of Shuffle for TLC.                                            *)
EXTENDS Shuffle

Rotate == [j \in Items |-> (j + 1) % NItems]
SwapEnds == [j \in Items |-> IF j = 0 THEN NItems - 1 ELSE IF j = NItems - 1 THEN 0 ELSE j]
SwapFirst == [j \in Items |-> IF j = 0 THEN 1 ELSE IF j = 1 THEN 0 ELSE j]

\* Permutations that do not commute, and of which the composition is, for three
\* items, a rotation in either shuffle, hence not its own inverse.
MCPerm == [s \in Shuffles |->
             IF s = 1 THEN [i \in Passes |-> CASE i = 0 -> Rotate [] i = 1 -> SwapFirst [] i = 2 -> SwapEnds]
             ELSE [i \in Passes |-> CASE i = 0 -> SwapEnds [] i = 1 -> Rotate [] i = 2 -> SwapFirst]]
MCFirst == {1}
=============================================================================
