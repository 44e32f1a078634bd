------------------------------ MODULE MCTreeSum ------------------------------
(* Instances of TreeSum for TLC.                                            *)
EXTENDS TreeSum

\* Binary trees away from party 0, no limits (which is what parties with direct
\* communication have), and trees of different degrees.
MCSettings == {<<2, 2, 1>>, <<0, 0, 2>>, <<3, 2, 0>>}
=============================================================================
