---------------------------- MODULE MCCoordinator ----------------------------
(* Instances of Coordinator for TLC.                                        *)
EXTENDS Coordinator

MCLarge == {<<1, 1>>}
=============================================================================
