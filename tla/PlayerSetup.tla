----------------------------- MODULE PlayerSetup -----------------------------
(***************************************************************************)
(* How parties find each other (Networking/ServerSocket.cpp, Player.cpp,   *)
(* CryptoPlayer.cpp).  Every party has one server, whose thread accepts    *)
(* connections and files them under the identifier that the client sends.  *)
(* A thread that wants a CryptoPlayer sets up two PlainPlayers, the second *)
(* with "recv" added to the identifier, and puts encryption on the         *)
(* connections of both; threads of the binary virtual machine do so at the *)
(* same time (GC/ThreadMaster.hpp).  Others may connect to a server, too.  *)
(***************************************************************************)
EXTENDS Integers, Sequences

CONSTANTS MaxN,      \* bound: the largest number of parties
          AllThreads,\* names of threads, which the identifiers of their players begin with
          Setups,    \* the setups to choose from
          Nobody     \* no connection

\* A setup is the number of parties, the threads of each of them, whether these want
\* CryptoPlayers, whether the servers listen already, as after the first player, whether
\* the PlainPlayers are there already, and the parties that somebody connects to who
\* says nothing.
ASSUME PlayerSetupAssumption ==
    /\ MaxN \in Nat
    /\ Setups \subseteq [n : 2..MaxN, threads : SUBSET AllThreads, encrypted : BOOLEAN,
                         started : BOOLEAN, connected : BOOLEAN, visits : SUBSET (0..(MaxN - 1))]
    /\ Nobody \notin Nat \X Nat \X AllThreads \X BOOLEAN
    /\ "visitor" \notin AllThreads

VARIABLES
    setup,      \* of the program
    listening,  \* parties whose server listens
    visited,    \* parties that have had their visitor
    pending,    \* per party, the connections that have not been accepted
    sent,       \* connections over which the identifier has been sent
    deferred,   \* per party, the connections with a thread waiting for the identifier
    clients,    \* per party, what is filed: a set of connections
    used,       \* per party, the identifiers that have been asked for
    pc,         \* how far each thread is in its script
    waiting,    \* threads that wait in get_connection_socket
    sockets     \* per party and thread, the connection with each party, of each player

server == <<listening, visited, pending, sent, deferred, clients, used>>
vars == <<setup, server, pc, waiting, sockets>>

n == setup.n
Threads == setup.threads
Parties == 0..(n - 1)
Visited == setup.visits
Recvs == IF setup.encrypted THEN BOOLEAN ELSE {FALSE}

\* A connection is known by who has made it: <<from, to, thread, recv>>.
Conn(from, to, t, recv) == <<from, to, t, recv>>
Visit(p) == <<p, p, "visitor", FALSE>>

\* The one that two parties are to have in common.
Between(p, q, t, recv) == IF p > q THEN Conn(p, q, t, recv) ELSE Conn(q, p, t, recv)

\* Mutant of Id: all threads use one identifier.
IdOfPlayer(c) == <<c[1], c[4]>>

\* What is sent over it: id_base, with or without "recv", and the number of the client.
Id(c) == <<c[1], c[3], c[4]>>
-----------------------------------------------------------------------------
(* The script of a thread: PlainPlayer::setup_sockets twice, then the      *)
(* handshakes in the order of the constructor of CryptoPlayer.             *)

Do(op, peer, recv) == [op |-> op, peer |-> peer, recv |-> recv]

\* Client to all parties before it and to itself, server to all from itself on; m is the
\* number of parties.
SetUpSockets(m, p, recv) ==
    [i \in 1..(2 * (p + 1)) |-> Do(IF i % 2 = 1 THEN "connect" ELSE "send", (i - 1) \div 2, recv)]
    \o [i \in 1..(m - p) |-> Do("get", p + i - 1, recv)]
Plain(m, p, encrypted) ==
    SetUpSockets(m, p, FALSE) \o IF encrypted THEN SetUpSockets(m, p, TRUE) ELSE <<>>

GetPlayer(m, p, offset) == (p + offset) % m

\* Mutant of Others: the same order at all parties.
OthersSameOrder(m, p, offset) == <<GetPlayer(m, p, offset), GetPlayer(m, p, m - offset)>>

\* Whom to connect with at an offset: half of the parties go the other way around.
Others(m, p, offset) ==
    LET next == GetPlayer(m, p, offset)
        before == GetPlayer(m, p, m - offset)
    IN IF m % 2 = 0 /\ offset = m \div 2 THEN <<next>>
       ELSE IF p % (2 * offset) < offset THEN <<before, next>> ELSE <<next, before>>

\* CryptoPlayer::connect with each of them, in both directions; the parties at an offset
\* make four handshakes, or two if there is only one.
Connect(others) ==
    [i \in 1..(2 * Len(others)) |-> Do("handshake", others[(i + 1) \div 2], i % 2 = 0)]
Encrypt(m, p) ==
    [i \in 1..(2 * (m - 1)) |-> Connect(Others(m, p, (i + 3) \div 4))[((i - 1) % 4) + 1]]

Scripts == [s \in Setups |-> [p \in 0..(s.n - 1) |->
    Plain(s.n, p, s.encrypted) \o IF s.encrypted THEN Encrypt(s.n, p) ELSE <<>>]]
Script(p) == Scripts[setup][p]
Step(p, t) == Script(p)[pc[p][t]]
Done(p, t) == pc[p][t] > Len(Script(p))
-----------------------------------------------------------------------------
Conns == Parties \X Parties \X Threads \X Recvs
Players == Threads \X Recvs

TypeOK ==
    /\ setup \in Setups
    /\ listening \subseteq Parties /\ visited \subseteq Visited /\ sent \subseteq Conns
    /\ pending \in [Parties -> Seq(Conns \cup {Visit(p) : p \in Visited})]
    /\ deferred \in [Parties -> SUBSET (Conns \cup {Visit(p) : p \in Visited})]
    /\ clients \in [Parties -> SUBSET Conns]
    /\ used \in [Parties -> SUBSET (Parties \X Threads \X Recvs)]
    /\ \A p \in Parties : used[p] \subseteq {Id(c) : c \in clients[p]}
    /\ \A p \in Parties : deferred[p] \cap clients[p] = {}
    /\ pc \in [Parties -> [Threads -> Nat \ {0}]]
    /\ waiting \subseteq Parties \X Threads
    /\ sockets \in [Parties -> [Players -> [Parties -> Conns \cup {Nobody}]]]

All(x) == [p \in Parties |-> x]

\* Nothing has happened, or PlainPlayers have been set up by all threads.
Init ==
    /\ setup \in Setups
    /\ visited = {} /\ pending = All(<<>>) /\ deferred = All({}) /\ waiting = {}
    /\ IF ~setup.connected
       THEN /\ listening = IF setup.started THEN Parties ELSE {}
            /\ sent = {} /\ clients = All({}) /\ used = All({})
            /\ pc = All([t \in Threads |-> 1])
            /\ sockets = All([player \in Players |-> All(Nobody)])
       ELSE /\ listening = Parties
            /\ sent = {c \in Conns : c[1] >= c[2]}
            /\ clients = [p \in Parties |-> {c \in sent : c[2] = p}]
            /\ used = [p \in Parties |-> {Id(c) : c \in clients[p]}]
            /\ pc = [p \in Parties |-> [t \in Threads |-> Len(Plain(n, p, setup.encrypted)) + 1]]
            /\ sockets = [p \in Parties |-> [player \in Players |-> [q \in Parties |->
                              Between(p, q, player[1], player[2])]]]
-----------------------------------------------------------------------------
(* The server.                                                             *)

\* bind and listen; before this others cannot connect and try again.
Listen(p) ==
    /\ p \notin listening
    /\ listening' = listening \cup {p}
    /\ UNCHANGED <<setup, visited, pending, sent, deferred, clients, used, pc, waiting, sockets>>

\* Somebody connects and sends nothing ...
Visitor(p) ==
    /\ p \in (Visited \cap listening) \ visited
    /\ visited' = visited \cup {p}
    /\ pending' = [pending EXCEPT ![p] = Append(@, Visit(p))]
    /\ UNCHANGED <<setup, listening, sent, deferred, clients, used, pc, waiting, sockets>>

\* ... and leaves: closed_connection ends the thread that has been waiting.
VisitorLeaves(p) ==
    /\ Visit(p) \in deferred[p]
    /\ deferred' = [deferred EXCEPT ![p] = @ \ {Visit(p)}]
    /\ UNCHANGED <<setup, listening, visited, pending, sent, clients, used, pc, waiting, sockets>>

\* process_connection: filed in place of one with the same identifier.
Filed(p, c) == {d \in clients[p] : Id(d) # Id(c)} \cup {c}

\* accept_clients: if the identifier is not there yet, it is left to a thread.
Accept(p) ==
    LET c == Head(pending[p]) IN
    /\ pending[p] # <<>>
    /\ pending' = [pending EXCEPT ![p] = Tail(@)]
    /\ IF c \in sent
       THEN clients' = [clients EXCEPT ![p] = Filed(p, c)] /\ UNCHANGED deferred
       ELSE deferred' = [deferred EXCEPT ![p] = @ \cup {c}] /\ UNCHANGED clients
    /\ UNCHANGED <<setup, listening, visited, sent, used, pc, waiting, sockets>>

\* Mutant of WaitForClientId: the connection is not taken from those deferred.
WaitForClientIdAgain(p) ==
    \E c \in deferred[p] \cap sent :
        /\ clients' = [clients EXCEPT ![p] = Filed(p, c)]
        /\ UNCHANGED <<setup, listening, visited, pending, sent, deferred, used, pc, waiting,
                       sockets>>

WaitForClientId(p) ==
    \E c \in deferred[p] \cap sent :
        /\ deferred' = [deferred EXCEPT ![p] = @ \ {c}]
        /\ clients' = [clients EXCEPT ![p] = Filed(p, c)]
        /\ UNCHANGED <<setup, listening, visited, pending, sent, used, pc, waiting, sockets>>
-----------------------------------------------------------------------------
(* The threads that set up players.                                        *)

Advance(p, t) == pc' = [pc EXCEPT ![p][t] = @ + 1]
SetSocket(p, t, c) ==
    LET step == Step(p, t)
    IN sockets' = [sockets EXCEPT ![p][<<t, step.recv>>][step.peer] = c]

\* set_up_client_socket
SetUpClientSocket(p, t) ==
    LET step == Step(p, t)
        c == Conn(p, step.peer, t, step.recv)
    IN
    /\ step.op = "connect" /\ step.peer \in listening
    /\ pending' = [pending EXCEPT ![step.peer] = Append(@, c)]
    /\ SetSocket(p, t, c)
    /\ Advance(p, t)
    /\ UNCHANGED <<setup, listening, visited, sent, deferred, clients, used, waiting>>

SendId(p, t) ==
    LET step == Step(p, t) IN
    /\ step.op = "send"
    /\ sent' = sent \cup {sockets[p][<<t, step.recv>>][step.peer]}
    /\ Advance(p, t)
    /\ UNCHANGED <<setup, listening, visited, pending, deferred, clients, used, waiting, sockets>>

\* get_connection_socket: waits if the client is not there; one that asks for an
\* identifier already used throws with the lock held, and nobody gets on.
GetConnectionSocket(p, t) ==
    LET step == Step(p, t)
        wanted == Id(Conn(step.peer, p, t, step.recv))
        found == {c \in clients[p] : Id(c) = wanted}
    IN
    /\ step.op = "get"
    /\ <<p, t>> \notin waiting => wanted \notin used[p]
    /\ IF found = {}
       THEN /\ waiting' = waiting \cup {<<p, t>>} /\ <<p, t>> \notin waiting
            /\ UNCHANGED <<used, pc, sockets>>
       ELSE /\ \E c \in found : SetSocket(p, t, c)
            /\ used' = [used EXCEPT ![p] = @ \cup {wanted}]
            /\ waiting' = waiting \ {<<p, t>>}
            /\ Advance(p, t)
    /\ UNCHANGED <<setup, listening, visited, pending, sent, deferred, clients>>

\* The handshake of ssl_socket returns when whoever has the other end is there, too, and
\* one of them is the client, by the numbers of the parties.
Handshake(p, t) ==
    LET step == Step(p, t)
        q == step.peer
        c == sockets[p][<<t, step.recv>>][q]
    IN
    /\ step.op = "handshake"
    /\ \E u \in Threads, k \in 1..Len(Script(q)) :
           /\ k <= pc[q][u]
           /\ Script(q)[k].op = "handshake" /\ Script(q)[k].peer = p
           /\ sockets[q][<<u, Script(q)[k].recv>>][p] = c
    /\ Advance(p, t)
    /\ UNCHANGED <<setup, server, waiting, sockets>>

Run(p, t) ==
    /\ ~Done(p, t)
    /\ SetUpClientSocket(p, t) \/ SendId(p, t) \/ GetConnectionSocket(p, t) \/ Handshake(p, t)

Over == \A p \in Parties, t \in Threads : Done(p, t)

Next ==
    \/ \E p \in Parties : \/ Listen(p) \/ Visitor(p) \/ VisitorLeaves(p)
                          \/ Accept(p) \/ WaitForClientId(p)
    \/ \E p \in Parties, t \in Threads : Run(p, t)
    \/ Over /\ UNCHANGED vars

\* All parties are started and scheduled; no visitor needs to leave.
Fairness ==
    \A p \in 0..(MaxN - 1) :
        /\ WF_vars(p \in Parties /\ Listen(p))
        /\ WF_vars(p \in Parties /\ Accept(p)) /\ WF_vars(p \in Parties /\ WaitForClientId(p))
        /\ \A t \in AllThreads : WF_vars(p \in Parties /\ t \in Threads /\ Run(p, t))

Spec == Init /\ [][Next]_vars /\ Fairness
-----------------------------------------------------------------------------
\* Both ends of every connection are with the same thread and in the same direction,
\* although all threads ask the one server and connections come in any order.
Matched ==
    \A p, q \in Parties, player \in Players :
        sockets[p][player][q] \in {Nobody, Between(p, q, player[1], player[2])}

\* All threads of all parties get their players: whatever the order in which parties
\* start, visitors do not keep the server busy, and parties never wait in a circle to
\* have their handshakes.
AllSetUp == <>Over
=============================================================================
