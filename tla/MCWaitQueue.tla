---------------------------- MODULE MCWaitQueue ----------------------------
(* Instances of WaitQueue for TLC.                                          *)
EXTENDS WaitQueue

\* pop without spurious wakeups, and pop_dont_stop without and with them.
MCModes == {<<FALSE, FALSE>>, <<TRUE, FALSE>>, <<TRUE, TRUE>>}
=============================================================================
