---------------------------- MODULE MCPlayerSetup ----------------------------
(* Setups for PlayerSetup.                                                   *)
EXTENDS PlayerSetup
CONSTANTS t1, t2

Setup(m, threads, encrypted, started, visits) ==
    [n |-> m, threads |-> threads, encrypted |-> encrypted, started |-> started,
     connected |-> FALSE, visits |-> visits]

\* Two threads at the same time, three parties, a server with a visitor, and only the
\* handshakes of more parties.
MCSetups ==
    {Setup(2, {t1, t2}, FALSE, TRUE, {}), Setup(2, {t1}, TRUE, FALSE, {0}),
     Setup(3, {t1}, FALSE, FALSE, {})}
    \cup {[Setup(m, {t1}, TRUE, TRUE, {}) EXCEPT !.connected = TRUE] : m \in 3..MaxN}
=============================================================================
