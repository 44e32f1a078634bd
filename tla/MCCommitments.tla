---------------------------- MODULE MCCommitments ----------------------------
(* Instances of Commitments for TLC.                                        *)
EXTENDS Commitments
=============================================================================
