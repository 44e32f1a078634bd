------------------------- MODULE PlayerSetupProofs -------------------------
(***************************************************************************)
(* What PlayerSetup promises for any number of parties and threads: both   *)
(* ends of a connection belong to the same thread and direction, and the   *)
(* server has every connection in one place only.                          *)
(***************************************************************************)
EXTENDS PlayerSetup, TLAPS

(* The scripts, step by step.                                              *)

Operations == {"connect", "send", "get", "handshake"}
Steps == [op : Operations, peer : Int, recv : BOOLEAN]

LEMMA DoIsStep ==
    ASSUME NEW op \in Operations, NEW peer \in Int, NEW recv \in BOOLEAN
    PROVE  Do(op, peer, recv) \in Steps
BY DEF Do, Steps

\* As client every connection is followed by its identifier; then as server.
LEMMA SetUpSocketsSteps ==
    ASSUME NEW m \in Nat, NEW p \in 0..(m - 1), NEW recv \in BOOLEAN
    PROVE  /\ SetUpSockets(m, p, recv) \in Seq(Steps)
           /\ Len(SetUpSockets(m, p, recv)) = p + m + 2
           /\ \A i \in 1..(p + m + 2) :
                  SetUpSockets(m, p, recv)[i] =
                      IF i > 2 * (p + 1) THEN Do("get", i - p - 3, recv)
                      ELSE Do(IF i % 2 = 1 THEN "connect" ELSE "send", (i - 1) \div 2, recv)
<1> DEFINE client == [i \in 1..(2 * (p + 1)) |->
                         Do(IF i % 2 = 1 THEN "connect" ELSE "send", (i - 1) \div 2, recv)]
           server_ == [i \in 1..(m - p) |-> Do("get", p + i - 1, recv)]
<1>1. \A i \in 1..(2 * (p + 1)) :
          Do(IF i % 2 = 1 THEN "connect" ELSE "send", (i - 1) \div 2, recv) \in Steps
  <2> TAKE i \in 1..(2 * (p + 1))
  <2>1. (i - 1) \div 2 \in Int
    OBVIOUS
  <2>2. (IF i % 2 = 1 THEN "connect" ELSE "send") \in Operations
    BY DEF Operations
  <2> QED
    BY <2>1, <2>2, DoIsStep
<1>2. \A i \in 1..(m - p) : Do("get", p + i - 1, recv) \in Steps
  <2> TAKE i \in 1..(m - p)
  <2>1. p + i - 1 \in Int /\ "get" \in Operations
    BY DEF Operations
  <2> QED
    BY <2>1, DoIsStep
<1>3. client \in Seq(Steps) /\ Len(client) = 2 * (p + 1)
  BY <1>1
<1>4. server_ \in Seq(Steps) /\ Len(server_) = m - p
  BY <1>2
<1>5. \A i \in 1..(2 * (p + 1)) :
          client[i] = Do(IF i % 2 = 1 THEN "connect" ELSE "send", (i - 1) \div 2, recv)
  OBVIOUS
<1>6. \A i \in 1..(m - p) : server_[i] = Do("get", p + i - 1, recv)
  OBVIOUS
<1>7. SetUpSockets(m, p, recv) = client \o server_
  BY DEF SetUpSockets
<1> HIDE DEF client, server_
<1>8. ASSUME NEW i \in 1..(p + m + 2), i > 2 * (p + 1)
      PROVE  (client \o server_)[i] = Do("get", i - p - 3, recv)
  <2>1. i - 2 * (p + 1) \in 1..(m - p) /\ p + (i - 2 * (p + 1)) - 1 = i - p - 3
    BY <1>8
  <2>2. (client \o server_)[i] = server_[i - 2 * (p + 1)]
    BY <1>3, <1>4, <1>8
  <2> QED
    BY <1>6, <2>1, <2>2
<1>9. ASSUME NEW i \in 1..(p + m + 2), ~(i > 2 * (p + 1))
      PROVE  (client \o server_)[i] = client[i] /\ i \in 1..(2 * (p + 1))
  BY <1>3, <1>4, <1>9
<1>10. client \o server_ \in Seq(Steps) /\ Len(client \o server_) = p + m + 2
  BY <1>3, <1>4
<1> QED
  BY <1>5, <1>7, <1>8, <1>9, <1>10

\* At every offset two handshakes with each of the others.
LEMMA EncryptSteps ==
    ASSUME NEW m \in Nat \ {0, 1}, NEW p \in 0..(m - 1)
    PROVE  /\ Encrypt(m, p) \in Seq(Steps) /\ Len(Encrypt(m, p)) = 2 * (m - 1)
           /\ \A i \in 1..(2 * (m - 1)) : Encrypt(m, p)[i].op = "handshake"
<1> DEFINE At(i) == Connect(Others(m, p, (i + 3) \div 4))[((i - 1) % 4) + 1]
<1>1. ASSUME NEW i \in 1..(2 * (m - 1))
      PROVE  At(i) \in Steps /\ At(i).op = "handshake"
  <2> DEFINE offset == (i + 3) \div 4
             k == ((i - 1) % 4) + 1
             others == Others(m, p, offset)
  <2>1. offset \in Nat \ {0} /\ k \in 1..4 /\ i = 4 * (offset - 1) + k
    OBVIOUS
  <2>2. GetPlayer(m, p, offset) \in Int /\ GetPlayer(m, p, m - offset) \in Int
    BY <2>1 DEF GetPlayer
  <2>3. \/ others \in Seq(Int) /\ Len(others) = 2
        \/ others \in Seq(Int) /\ Len(others) = 1 /\ m % 2 = 0 /\ offset = m \div 2
    BY <2>2 DEF Others
  <2>4. k \in 1..(2 * Len(others))
    <3> HIDE DEF others, offset, k
    <3>1. CASE Len(others) = 2
      BY <2>1, <3>1
    <3>2. CASE Len(others) = 1 /\ m % 2 = 0 /\ offset = m \div 2
      <4>1. 2 * offset = m /\ i <= 2 * (m - 1)
        BY <3>2
      <4> QED
        BY <2>1, <3>2, <4>1
    <3> QED
      BY <2>3, <3>1, <3>2
  <2> HIDE DEF offset, k
  <2>5. (k + 1) \div 2 \in 1..Len(others)
    BY <2>1, <2>3, <2>4
  <2>6. others[(k + 1) \div 2] \in Int /\ (k % 2 = 0) \in BOOLEAN /\ "handshake" \in Operations
    BY <2>3, <2>5 DEF Operations
  <2>7. Connect(others)[k] = Do("handshake", others[(k + 1) \div 2], k % 2 = 0)
    BY <2>4 DEF Connect
  <2>8. Connect(others)[k] \in Steps
    BY <2>6, <2>7, DoIsStep
  <2>9. Connect(others)[k].op = "handshake"
    BY <2>7 DEF Do
  <2> QED
    BY <2>8, <2>9 DEF offset, k
<1>2. Encrypt(m, p) = [i \in 1..(2 * (m - 1)) |-> At(i)]
  BY DEF Encrypt
<1> HIDE DEF At
<1> QED
  BY <1>1, <1>2

\* What the actions rely on: identifiers are sent over the connection just made, parties
\* connect to those before them and wait for the others, and connect once only.
Sound(script, m, p, encrypted) ==
    /\ script \in Seq(Steps)
    /\ \A k \in 1..Len(script) :
           /\ script[k].op \in {"connect", "send"} => script[k].peer \in 0..p
           /\ script[k].op = "get" => script[k].peer \in p..(m - 1)
           /\ script[k].op # "handshake" => script[k].recv \in {FALSE, encrypted}
           /\ script[k].op = "send" =>
                  k > 1 /\ script[k - 1] = Do("connect", script[k].peer, script[k].recv)
    /\ \A k, l \in 1..Len(script) :
           script[k].op = "connect" /\ script[k] = script[l] => k = l

LEMMA SetUpSocketsSound ==
    ASSUME NEW m \in Nat, NEW p \in 0..(m - 1), NEW recv \in BOOLEAN
    PROVE  /\ Sound(SetUpSockets(m, p, recv), m, p, recv)
           /\ \A k \in 1..Len(SetUpSockets(m, p, recv)) : SetUpSockets(m, p, recv)[k].recv = recv
<1> DEFINE script == SetUpSockets(m, p, recv)
<1>1. /\ script \in Seq(Steps) /\ Len(script) = p + m + 2
      /\ \A i \in 1..(p + m + 2) :
             script[i] = IF i > 2 * (p + 1) THEN Do("get", i - p - 3, recv)
                         ELSE Do(IF i % 2 = 1 THEN "connect" ELSE "send", (i - 1) \div 2, recv)
  BY SetUpSocketsSteps
<1> HIDE DEF script
<1>2. ASSUME NEW k \in 1..Len(script)
      PROVE  /\ script[k].op \in {"connect", "send"} => script[k].peer \in 0..p
             /\ script[k].op = "get" => script[k].peer \in p..(m - 1)
             /\ script[k].recv = recv
             /\ script[k].op = "send" =>
                    k > 1 /\ script[k - 1] = Do("connect", script[k].peer, script[k].recv)
  <2>1. CASE k > 2 * (p + 1)
    <3>1. script[k] = Do("get", k - p - 3, recv)
      BY <1>1, <2>1
    <3>2. k - p - 3 \in p..(m - 1)
      BY <1>1, <2>1
    <3> QED
      BY <3>1, <3>2 DEF Do
  <2>2. CASE k <= 2 * (p + 1) /\ k % 2 = 1
    <3>1. script[k] = Do("connect", (k - 1) \div 2, recv)
      BY <1>1, <2>2
    <3>2. (k - 1) \div 2 \in 0..p
      BY <1>1, <2>2
    <3> QED
      BY <3>1, <3>2 DEF Do
  <2>3. CASE k <= 2 * (p + 1) /\ k % 2 # 1
    <3>1. script[k] = Do("send", (k - 1) \div 2, recv)
      BY <1>1, <2>3
    <3>2. (k - 1) \div 2 \in 0..p /\ k > 1 /\ k - 1 \in 1..(p + m + 2) /\ (k - 1) % 2 = 1
          /\ (k - 2) \div 2 = (k - 1) \div 2
      BY <1>1, <2>3
    <3>3. script[k - 1] = Do("connect", (k - 1) \div 2, recv)
      BY <1>1, <2>3, <3>2
    <3> QED
      BY <3>1, <3>2, <3>3 DEF Do
  <2> QED
    BY <1>1, <2>1, <2>2, <2>3
<1>3. ASSUME NEW k \in 1..Len(script), NEW l \in 1..Len(script),
             script[k].op = "connect", script[k] = script[l]
      PROVE  k = l
  <2>1. \A i \in 1..Len(script) : script[i].op = "connect" =>
            i % 2 = 1 /\ script[i].peer = (i - 1) \div 2
    <3> TAKE i \in 1..Len(script)
    <3>1. CASE i > 2 * (p + 1)
      BY <1>1, <3>1 DEF Do
    <3>2. CASE i <= 2 * (p + 1) /\ i % 2 # 1
      BY <1>1, <3>2 DEF Do
    <3>3. CASE i <= 2 * (p + 1) /\ i % 2 = 1
      BY <1>1, <3>3 DEF Do
    <3> QED
      BY <1>1, <3>1, <3>2, <3>3
  <2>2. k % 2 = 1 /\ l % 2 = 1 /\ (k - 1) \div 2 = (l - 1) \div 2
    BY <1>3, <2>1
  <2> QED
    BY <1>1, <2>2
<1> QED
  BY <1>1, <1>2, <1>3 DEF script, Sound

LEMMA SoundConcat ==
    ASSUME NEW m, NEW p, NEW e1, NEW e2, NEW e, NEW s1, NEW s2,
           Sound(s1, m, p, e1), Sound(s2, m, p, e2), {e1, e2} \subseteq {FALSE, e},
           \A k \in 1..Len(s1), l \in 1..Len(s2) : s1[k].op = "connect" => s1[k] # s2[l]
    PROVE  Sound(s1 \o s2, m, p, e)
<1> DEFINE s == s1 \o s2
<1>1. s1 \in Seq(Steps) /\ s2 \in Seq(Steps)
  BY DEF Sound
<1>2. s \in Seq(Steps) /\ Len(s) = Len(s1) + Len(s2)
  BY <1>1
<1>3. \A k \in 1..Len(s) : k \in 1..Len(s1) \/ k - Len(s1) \in 1..Len(s2)
  BY <1>1, <1>2
<1>4. \A k \in 1..Len(s1) : s[k] = s1[k]
  BY <1>1
<1>5. \A k \in 1..Len(s) : k - Len(s1) \in 1..Len(s2) => s[k] = s2[k - Len(s1)]
  BY <1>1, <1>2
<1> HIDE DEF s
<1>6. ASSUME NEW k \in 1..Len(s)
      PROVE  /\ s[k].op \in {"connect", "send"} => s[k].peer \in 0..p
             /\ s[k].op = "get" => s[k].peer \in p..(m - 1)
             /\ s[k].op # "handshake" => s[k].recv \in {FALSE, e}
             /\ s[k].op = "send" => k > 1 /\ s[k - 1] = Do("connect", s[k].peer, s[k].recv)
  <2>1. CASE k \in 1..Len(s1)
    <3>1. s[k] = s1[k]
      BY <1>4, <2>1
    <3>2. k > 1 => k - 1 \in 1..Len(s1) /\ s[k - 1] = s1[k - 1]
      BY <1>1, <1>4, <2>1
    <3> QED
      BY <2>1, <3>1, <3>2 DEF Sound
  <2>2. CASE k - Len(s1) \in 1..Len(s2)
    <3> DEFINE j == k - Len(s1)
    <3>1. s[k] = s2[j] /\ j \in 1..Len(s2)
      BY <1>5, <2>2
    <3>2. j > 1 => /\ k - 1 \in 1..Len(s) /\ (k - 1) - Len(s1) \in 1..Len(s2)
                   /\ (k - 1) - Len(s1) = j - 1 /\ k > 1
      BY <1>1, <1>2, <2>2
    <3>3. j > 1 => s[k - 1] = s2[j - 1]
      BY <1>5, <3>2
    <3> HIDE DEF j
    <3> QED
      BY <3>1, <3>2, <3>3 DEF Sound
  <2> QED
    BY <1>3, <2>1, <2>2
<1>7. ASSUME NEW k \in 1..Len(s), NEW l \in 1..Len(s), s[k].op = "connect", s[k] = s[l]
      PROVE  k = l
  <2>1. CASE k \in 1..Len(s1) /\ l \in 1..Len(s1)
    BY <1>4, <1>7, <2>1 DEF Sound
  <2>2. CASE k - Len(s1) \in 1..Len(s2) /\ l - Len(s1) \in 1..Len(s2)
    <3>1. k - Len(s1) = l - Len(s1)
      BY <1>5, <1>7, <2>2 DEF Sound
    <3> QED
      BY <1>1, <3>1
  <2>3. CASE k \in 1..Len(s1) /\ l - Len(s1) \in 1..Len(s2)
    BY <1>4, <1>5, <1>7, <2>3
  <2>4. CASE l \in 1..Len(s1) /\ k - Len(s1) \in 1..Len(s2)
    BY <1>4, <1>5, <1>7, <2>4
  <2> QED
    BY <1>3, <2>1, <2>2, <2>3, <2>4
<1> QED
  BY <1>2, <1>6, <1>7 DEF s, Sound

\* All scripts are sound, and after the PlainPlayers there are handshakes only.
LEMMA ScriptSound ==
    ASSUME NEW s \in Setups, NEW p \in 0..(s.n - 1)
    PROVE  /\ Sound(Scripts[s][p], s.n, p, s.encrypted)
           /\ Len(Plain(s.n, p, s.encrypted)) \in Nat
           /\ \A k \in 1..Len(Scripts[s][p]) :
                  k > Len(Plain(s.n, p, s.encrypted)) => Scripts[s][p][k].op = "handshake"
<1>1. s.n \in Nat \ {0, 1} /\ s.encrypted \in BOOLEAN
  BY PlayerSetupAssumption
<1> DEFINE m == s.n
           A == SetUpSockets(m, p, FALSE)
           B == SetUpSockets(m, p, TRUE)
           E == Encrypt(m, p)
<1>2. /\ Sound(A, m, p, FALSE) /\ \A k \in 1..Len(A) : A[k].recv = FALSE
      /\ Sound(B, m, p, TRUE) /\ \A k \in 1..Len(B) : B[k].recv = TRUE
  BY <1>1, SetUpSocketsSound
<1>3. E \in Seq(Steps) /\ \A k \in 1..Len(E) : E[k].op = "handshake"
  BY <1>1, EncryptSteps
<1>4. Scripts[s][p] = Plain(m, p, s.encrypted) \o IF s.encrypted THEN E ELSE <<>>
  BY DEF Scripts
<1>5. Plain(m, p, s.encrypted) = A \o IF s.encrypted THEN B ELSE <<>>
  BY DEF Plain
<1>6. A \in Seq(Steps) /\ B \in Seq(Steps)
  BY <1>2 DEF Sound
<1> HIDE DEF m, A, B, E
<1>7. CASE s.encrypted
  <2>1. Scripts[s][p] = (A \o B) \o E /\ Plain(m, p, s.encrypted) = A \o B
    BY <1>4, <1>5, <1>7
  <2>2. \A k \in 1..Len(A), l \in 1..Len(B) : A[k].op = "connect" => A[k] # B[l]
    BY <1>2
  <2>3. Sound(A \o B, m, p, TRUE)
    BY <1>2, <2>2, SoundConcat
  <2>4. Sound(E, m, p, TRUE)
    BY <1>3 DEF Sound
  <2>5. \A k \in 1..Len(A \o B), l \in 1..Len(E) : (A \o B)[k].op = "connect" => (A \o B)[k] # E[l]
    BY <1>3
  <2>6. Sound((A \o B) \o E, m, p, TRUE)
    BY <2>3, <2>4, <2>5, SoundConcat
  <2>7. A \o B \in Seq(Steps)
    BY <1>6
  <2>8. \A k \in 1..Len((A \o B) \o E) : k > Len(A \o B) => ((A \o B) \o E)[k].op = "handshake"
    <3> DEFINE AB == A \o B
    <3> HIDE DEF AB
    <3>1. AB \in Seq(Steps)
      BY <2>7 DEF AB
    <3>2. ASSUME NEW k \in 1..Len(AB \o E), k > Len(AB) PROVE (AB \o E)[k].op = "handshake"
      <4>1. k - Len(AB) \in 1..Len(E) /\ (AB \o E)[k] = E[k - Len(AB)]
        BY <1>3, <3>1, <3>2
      <4> QED
        BY <1>3, <4>1
    <3> QED
      BY <3>2 DEF AB
  <2>9. Len(A \o B) \in Nat /\ s.encrypted = TRUE
    BY <1>1, <1>7, <2>7
  <2> QED
    BY <2>1, <2>6, <2>8, <2>9, Zenon DEF m
<1>8. CASE ~s.encrypted
  <2>1. A \o <<>> = A
    BY <1>6
  <2>2. Plain(m, p, s.encrypted) = A /\ Scripts[s][p] = A
    BY <1>4, <1>5, <1>8, <2>1
  <2>3. \A k \in 1..Len(A) : ~(k > Len(A))
    BY <1>6
  <2>4. s.encrypted = FALSE
    BY <1>1, <1>8
  <2>5. Len(A) \in Nat
    BY <1>6
  <2> QED
    BY <1>2, <2>2, <2>3, <2>4, <2>5, Zenon DEF m
<1> QED
  BY <1>7, <1>8
-----------------------------------------------------------------------------
(* The invariant.                                                          *)

\* A connection that is with the server of p: it leads there and has been made already.
Arrived(p, c) ==
    \/ c = Visit(p) /\ p \in visited
    \/ /\ c \in Conns /\ c[2] = p
       /\ \A k \in 1..Len(Script(c[1])) :
              Script(c[1])[k] = Do("connect", c[2], c[4]) => k < pc[c[1]][c[3]]

WithServer(p) ==
    {pending[p][i] : i \in 1..Len(pending[p])} \cup deferred[p] \cup clients[p]

Addressed == \A p \in Parties : \A c \in WithServer(p) : Arrived(p, c)

\* It is there once.
Once ==
    \A p \in Parties :
        /\ \A i, j \in 1..Len(pending[p]) : pending[p][i] = pending[p][j] => i = j
        /\ \A i \in 1..Len(pending[p]) : pending[p][i] \notin deferred[p] \cup clients[p]
        /\ deferred[p] \cap clients[p] = {}

\* The connections that a thread has made are in its sockets.
Connected ==
    \A p \in Parties, t \in Threads : \A k \in 1..Len(Script(p)) :
        k < pc[p][t] /\ Script(p)[k].op = "connect" =>
            sockets[p][<<t, Script(p)[k].recv>>][Script(p)[k].peer] # Nobody

\* What may be with the server.
Items == Conns \cup {Visit(p) : p \in Visited}

IInv == TypeOK /\ Addressed /\ Once /\ Connected /\ Matched

\* What depends on the setup stays as it is.
LEMMA SameSetup ==
    ASSUME setup' = setup
    PROVE  /\ n' = n /\ Parties' = Parties /\ Threads' = Threads /\ Visited' = Visited
           /\ Recvs' = Recvs /\ Conns' = Conns /\ Players' = Players
           /\ \A p \in Parties : Script(p)' = Script(p)
BY DEF n, Parties, Threads, Visited, Recvs, Conns, Players, Script

LEMMA Sizes ==
    ASSUME setup \in Setups
    PROVE  /\ n \in Nat \ {0, 1} /\ Threads \subseteq AllThreads
           /\ Recvs = {FALSE, setup.encrypted} /\ Recvs \subseteq BOOLEAN
           /\ \A p \in Parties : Sound(Script(p), n, p, setup.encrypted)
           /\ Nobody \notin Conns /\ \A p \in Parties : Visit(p) \notin Conns
<1>1. /\ setup.n \in Nat \ {0, 1} /\ setup.threads \subseteq AllThreads
      /\ setup.encrypted \in BOOLEAN
  BY PlayerSetupAssumption
<1>2. Recvs = {FALSE, setup.encrypted} /\ Recvs \subseteq BOOLEAN
  BY <1>1 DEF Recvs
<1>3. \A p \in Parties : Sound(Script(p), n, p, setup.encrypted)
  BY ScriptSound DEF Script, Parties, n
<1>4. Conns \subseteq Nat \X Nat \X AllThreads \X BOOLEAN
  <2>1. Parties \subseteq Nat /\ Threads \subseteq AllThreads
    BY <1>1 DEF Parties, Threads, n
  <2> QED
    BY <1>2, <2>1 DEF Conns
<1>5. \A c \in Conns : c[3] \in Threads
  BY DEF Conns
<1>6. \A p \in Parties : Visit(p)[3] = "visitor"
  BY DEF Visit
<1>7. \A p \in Parties : Visit(p) \notin Conns
  BY <1>1, <1>5, <1>6, PlayerSetupAssumption DEF Threads
<1> QED
  BY <1>1, <1>2, <1>3, <1>4, <1>7, PlayerSetupAssumption DEF n, Threads

\* A step of the server leaves the threads as they are.
LEMMA ServerKeeps ==
    ASSUME IInv, setup' = setup, pc' = pc, sockets' = sockets
    PROVE  /\ Connected' /\ Matched'
           /\ visited \subseteq visited' =>
                  \A p \in Parties : \A c : Arrived(p, c) => Arrived(p, c)'
<1>1. /\ Parties' = Parties /\ Threads' = Threads /\ Recvs' = Recvs /\ Conns' = Conns
      /\ Players' = Players /\ \A p \in Parties : Script(p)' = Script(p)
  BY SameSetup
<1>2. Connected'
  BY <1>1 DEF IInv, Connected
<1>3. Matched'
  BY <1>1 DEF IInv, Matched
<1>4. ASSUME visited \subseteq visited', NEW p \in Parties, NEW c, Arrived(p, c)
      PROVE  Arrived(p, c)'
  <2>1. c \in Conns => c[1] \in Parties
    BY DEF Conns
  <2> QED
    BY <1>1, <1>4, <2>1 DEF Arrived
<1> QED
  BY <1>2, <1>3, <1>4

LEMMA TailFacts ==
    ASSUME NEW S, NEW s \in Seq(S), s # <<>>
    PROVE  /\ Head(s) \in S /\ Head(s) = s[1] /\ Len(s) \in Nat \ {0}
           /\ Tail(s) \in Seq(S) /\ Len(Tail(s)) = Len(s) - 1
           /\ \A i \in 1..(Len(s) - 1) : Tail(s)[i] = s[i + 1]
OBVIOUS

\* New connections and the server's own steps.
LEMMA ListenInv == ASSUME IInv, NEW p \in Parties, Listen(p) PROVE IInv'
<1>1. /\ setup' = setup /\ visited' = visited /\ pending' = pending /\ sent' = sent
      /\ deferred' = deferred /\ clients' = clients /\ used' = used /\ pc' = pc
      /\ waiting' = waiting /\ sockets' = sockets /\ listening' = listening \cup {p}
  BY DEF Listen
<1>2. /\ Parties' = Parties /\ Threads' = Threads /\ Recvs' = Recvs /\ Conns' = Conns
      /\ Players' = Players /\ Visited' = Visited
  BY <1>1, SameSetup
<1>3. /\ Connected' /\ Matched'
      /\ \A q \in Parties : \A c : Arrived(q, c) => Arrived(q, c)'
  BY <1>1, ServerKeeps
<1>4. TypeOK'
  BY <1>1, <1>2 DEF IInv, TypeOK
<1>5. Addressed'
  BY <1>1, <1>2, <1>3 DEF IInv, Addressed, WithServer
<1>6. Once'
  BY <1>1, <1>2 DEF IInv, Once
<1> QED
  BY <1>3, <1>4, <1>5, <1>6 DEF IInv

\* A connection that has not been there arrives at a server.
LEMMA PendingGrows ==
    ASSUME IInv, setup' = setup, deferred' = deferred, clients' = clients,
           NEW p \in Parties, NEW c \in Items,
           pending' = [pending EXCEPT ![p] = Append(@, c)],
           ~Arrived(p, c), Arrived(p, c)',
           \A q \in Parties : \A d : Arrived(q, d) => Arrived(q, d)'
    PROVE  pending' \in [Parties -> Seq(Items)] /\ Addressed' /\ Once'
<1>1. Parties' = Parties
  BY SameSetup
<1>2. /\ pending[p] \in Seq(Items) /\ pending'[p] = Append(pending[p], c)
      /\ pending \in [Parties -> Seq(Items)]
      /\ \A q \in Parties : q # p => pending'[q] = pending[q]
  BY DEF IInv, TypeOK, Items
<1>3. /\ Len(pending'[p]) = Len(pending[p]) + 1 /\ Len(pending[p]) \in Nat
      /\ \A i \in 1..Len(pending[p]) : pending'[p][i] = pending[p][i]
      /\ pending'[p][Len(pending[p]) + 1] = c
      /\ pending' \in [Parties -> Seq(Items)]
  BY <1>2
<1>4. \A i \in 1..Len(pending'[p]) :
          \/ i \in 1..Len(pending[p]) /\ pending'[p][i] = pending[p][i]
          \/ i = Len(pending[p]) + 1 /\ pending'[p][i] = c
  BY <1>3
<1>5. Addressed'
  <2> SUFFICES ASSUME NEW q \in Parties, NEW d \in WithServer(q)'
               PROVE  Arrived(q, d)'
    BY <1>1 DEF Addressed
  <2>1. d \in WithServer(q) \/ (q = p /\ d = c)
    <3>1. CASE d \in deferred[q] \cup clients[q]
      BY <3>1 DEF WithServer
    <3>2. CASE d \notin deferred[q] \cup clients[q]
      <4>1. PICK i \in 1..Len(pending'[q]) : d = pending'[q][i]
        BY <3>2 DEF WithServer
      <4> QED
        BY <1>2, <1>4, <4>1 DEF WithServer
    <3> QED
      BY <3>1, <3>2
  <2> QED
    BY <2>1 DEF IInv, Addressed
<1>6. Once'
  <2>1. /\ \A i \in 1..Len(pending[p]) : pending[p][i] # c
        /\ c \notin deferred[p] /\ c \notin clients[p]
    BY DEF IInv, Addressed, WithServer
  <2> SUFFICES ASSUME NEW q \in Parties
               PROVE  /\ \A i, j \in 1..Len(pending'[q]) : pending'[q][i] = pending'[q][j] => i = j
                      /\ \A i \in 1..Len(pending'[q]) :
                             pending'[q][i] \notin deferred[q] \cup clients[q]
                      /\ deferred[q] \cap clients[q] = {}
    BY <1>1 DEF Once
  <2>2. CASE q # p
    BY <1>2, <2>2 DEF IInv, Once
  <2>3. CASE q = p
    BY <1>4, <2>1, <2>3 DEF IInv, Once
  <2> QED
    BY <2>2, <2>3
<1> QED
  BY <1>3, <1>5, <1>6

LEMMA VisitorInv == ASSUME IInv, NEW p \in Parties, Visitor(p) PROVE IInv'
<1>1. /\ setup' = setup /\ sent' = sent /\ listening' = listening
      /\ deferred' = deferred /\ clients' = clients /\ used' = used /\ pc' = pc
      /\ waiting' = waiting /\ sockets' = sockets /\ visited' = visited \cup {p}
      /\ pending' = [pending EXCEPT ![p] = Append(@, Visit(p))]
      /\ p \in Visited /\ p \notin visited
  BY DEF Visitor
<1>2. /\ Parties' = Parties /\ Threads' = Threads /\ Recvs' = Recvs /\ Conns' = Conns
      /\ Players' = Players /\ Visited' = Visited
  BY <1>1, SameSetup
<1>3. /\ Connected' /\ Matched'
      /\ \A q \in Parties : \A c : Arrived(q, c) => Arrived(q, c)'
  BY <1>1, ServerKeeps
<1>4. setup \in Setups /\ Visit(p) \notin Conns
  BY Sizes DEF IInv, TypeOK
<1>5. Visit(p) \in Items /\ ~Arrived(p, Visit(p))
  BY <1>1, <1>4 DEF Arrived, Items
<1>6. Arrived(p, Visit(p))'
  BY <1>1 DEF Arrived
<1>7. pending' \in [Parties -> Seq(Items)] /\ Addressed' /\ Once'
  BY <1>1, <1>3, <1>5, <1>6, PendingGrows
<1>8. TypeOK'
  BY <1>1, <1>2, <1>7 DEF IInv, TypeOK, Items
<1> QED
  BY <1>3, <1>7, <1>8 DEF IInv

LEMMA VisitorLeavesInv == ASSUME IInv, NEW p \in Parties, VisitorLeaves(p) PROVE IInv'
<1>1. /\ setup' = setup /\ visited' = visited /\ pending' = pending /\ sent' = sent
      /\ listening' = listening /\ clients' = clients /\ used' = used /\ pc' = pc
      /\ waiting' = waiting /\ sockets' = sockets
      /\ deferred' = [deferred EXCEPT ![p] = @ \ {Visit(p)}]
  BY DEF VisitorLeaves
<1>2. /\ Parties' = Parties /\ Threads' = Threads /\ Recvs' = Recvs /\ Conns' = Conns
      /\ Players' = Players /\ Visited' = Visited
  BY <1>1, SameSetup
<1>3. /\ Connected' /\ Matched'
      /\ \A q \in Parties : \A c : Arrived(q, c) => Arrived(q, c)'
  BY <1>1, ServerKeeps
<1>4. \A q \in Parties : deferred'[q] \subseteq deferred[q]
  BY <1>1 DEF IInv, TypeOK
<1>5. TypeOK'
  BY <1>1, <1>2 DEF IInv, TypeOK
<1>6. Addressed'
  BY <1>1, <1>2, <1>3, <1>4 DEF IInv, Addressed, WithServer
<1>7. Once'
  BY <1>1, <1>2, <1>4 DEF IInv, Once
<1> QED
  BY <1>3, <1>5, <1>6, <1>7 DEF IInv

LEMMA FiledFacts ==
    ASSUME NEW p, NEW c
    PROVE  /\ c \in Filed(p, c) /\ Filed(p, c) \subseteq clients[p] \cup {c}
           /\ {Id(d) : d \in clients[p]} \subseteq {Id(d) : d \in Filed(p, c)}
<1>1. c \in Filed(p, c) /\ Filed(p, c) \subseteq clients[p] \cup {c}
  BY DEF Filed
<1>2. ASSUME NEW d \in clients[p] PROVE \E b \in Filed(p, c) : Id(d) = Id(b)
  <2>1. CASE Id(d) = Id(c)
    BY <1>1, <2>1
  <2>2. CASE Id(d) # Id(c)
    BY <2>2 DEF Filed
  <2> QED
    BY <2>1, <2>2
<1> QED
  BY <1>1, <1>2

\* A connection moves from one place to another.
LEMMA AcceptInv == ASSUME IInv, NEW p \in Parties, Accept(p) PROVE IInv'
<1> DEFINE c == Head(pending[p])
<1>1. /\ setup' = setup /\ visited' = visited /\ sent' = sent /\ listening' = listening
      /\ used' = used /\ pc' = pc /\ waiting' = waiting /\ sockets' = sockets
      /\ pending' = [pending EXCEPT ![p] = Tail(@)] /\ pending[p] # <<>>
      /\ \/ /\ c \in sent /\ clients' = [clients EXCEPT ![p] = Filed(p, c)]
            /\ deferred' = deferred
         \/ /\ deferred' = [deferred EXCEPT ![p] = @ \cup {c}] /\ clients' = clients
  BY DEF Accept
<1>2. /\ Parties' = Parties /\ Threads' = Threads /\ Recvs' = Recvs /\ Conns' = Conns
      /\ Players' = Players /\ Visited' = Visited
  BY <1>1, SameSetup
<1>3. /\ Connected' /\ Matched'
      /\ \A q \in Parties : \A d : Arrived(q, d) => Arrived(q, d)'
  BY <1>1, ServerKeeps
<1>4. /\ pending \in [Parties -> Seq(Items)] /\ deferred \in [Parties -> SUBSET Items]
      /\ clients \in [Parties -> SUBSET Conns] /\ sent \subseteq Conns
      /\ \A q \in Parties : used[q] \subseteq {Id(d) : d \in clients[q]}
      /\ \A q \in Parties : deferred[q] \cap clients[q] = {}
  BY DEF IInv, TypeOK, Items
<1>5. /\ c \in Items /\ c = pending[p][1] /\ Len(pending[p]) \in Nat \ {0}
      /\ Tail(pending[p]) \in Seq(Items) /\ Len(Tail(pending[p])) = Len(pending[p]) - 1
      /\ \A i \in 1..(Len(pending[p]) - 1) : Tail(pending[p])[i] = pending[p][i + 1]
  BY <1>1, <1>4, TailFacts
<1> HIDE DEF c
<1>6. /\ c \notin deferred[p] /\ c \notin clients[p] /\ c \in WithServer(p)
      /\ \A i \in 1..Len(pending[p]) : i # 1 => pending[p][i] # c
  BY <1>5 DEF IInv, Once, WithServer
<1>7. /\ c \in Filed(p, c) /\ Filed(p, c) \subseteq clients[p] \cup {c}
      /\ {Id(d) : d \in clients[p]} \subseteq {Id(d) : d \in Filed(p, c)}
  BY FiledFacts
<1>8. /\ pending' \in [Parties -> Seq(Items)] /\ pending'[p] = Tail(pending[p])
      /\ \A q \in Parties : q # p => pending'[q] = pending[q]
  BY <1>1, <1>4, <1>5
<1>9. /\ deferred' \in [Parties -> SUBSET Items] /\ clients' \in [Parties -> SUBSET Conns]
      /\ \A q \in Parties : used[q] \subseteq {Id(d) : d \in clients'[q]}
      /\ \A q \in Parties : deferred'[q] \cap clients'[q] = {}
      /\ \A q \in Parties : q # p => deferred'[q] = deferred[q] /\ clients'[q] = clients[q]
      /\ deferred'[p] \cup clients'[p] \subseteq deferred[p] \cup clients[p] \cup {c}
  <2>1. CASE c \in sent /\ clients' = [clients EXCEPT ![p] = Filed(p, c)] /\ deferred' = deferred
    <3>1. clients'[p] = Filed(p, c) /\ \A q \in Parties : q # p => clients'[q] = clients[q]
      BY <1>4, <2>1
    <3>2. Filed(p, c) \subseteq Conns
      BY <1>4, <1>7, <2>1
    <3>3. clients' \in [Parties -> SUBSET Conns]
      BY <1>4, <2>1, <3>2
    <3>4. \A q \in Parties : used[q] \subseteq {Id(d) : d \in clients'[q]}
      BY <1>4, <1>7, <3>1
    <3>5. \A q \in Parties : deferred[q] \cap clients'[q] = {}
      BY <1>4, <1>6, <1>7, <3>1
    <3> QED
      BY <1>4, <1>7, <2>1, <3>1, <3>3, <3>4, <3>5
  <2>2. CASE deferred' = [deferred EXCEPT ![p] = @ \cup {c}] /\ clients' = clients
    BY <1>4, <1>5, <1>6, <2>2
  <2> QED
    BY <1>1, <2>1, <2>2
<1>10. TypeOK'
  BY <1>1, <1>2, <1>8, <1>9 DEF IInv, TypeOK, Items
<1>11. Addressed'
  <2> SUFFICES ASSUME NEW q \in Parties, NEW d \in WithServer(q)'
               PROVE  Arrived(q, d)'
    BY <1>1, <1>2 DEF Addressed
  <2>1. d \in WithServer(q)
    <3>1. CASE q # p
      <4>1. pending'[q] = pending[q] /\ deferred'[q] = deferred[q] /\ clients'[q] = clients[q]
        BY <1>8, <1>9, <3>1
      <4> QED
        BY <4>1 DEF WithServer
    <3>2. CASE q = p /\ d \in deferred'[p] \cup clients'[p]
      BY <1>6, <1>9, <3>2 DEF WithServer
    <3>3. CASE q = p /\ d \notin deferred'[p] \cup clients'[p]
      <4>1. PICK i \in 1..Len(pending'[p]) : d = pending'[p][i]
        BY <3>3 DEF WithServer
      <4>2. i + 1 \in 1..Len(pending[p]) /\ d = pending[p][i + 1]
        BY <1>5, <1>8, <4>1
      <4> QED
        BY <3>3, <4>2 DEF WithServer
    <3> QED
      BY <3>1, <3>2, <3>3
  <2> QED
    BY <1>3, <2>1 DEF IInv, Addressed
<1>12. Once'
  <2> SUFFICES ASSUME NEW q \in Parties
               PROVE  /\ \A i, j \in 1..Len(pending'[q]) : pending'[q][i] = pending'[q][j] => i = j
                      /\ \A i \in 1..Len(pending'[q]) :
                             pending'[q][i] \notin deferred'[q] \cup clients'[q]
                      /\ deferred'[q] \cap clients'[q] = {}
    BY <1>1, <1>2 DEF Once
  <2>1. CASE q # p
    BY <1>8, <1>9, <2>1 DEF IInv, Once
  <2>2. CASE q = p
    <3>1. \A i \in 1..Len(pending'[p]) :
              i + 1 \in 1..Len(pending[p]) /\ i + 1 # 1 /\ pending'[p][i] = pending[p][i + 1]
      BY <1>5, <1>8
    <3>2. \A i \in 1..Len(pending'[p]) : pending'[p][i] \notin deferred'[p] \cup clients'[p]
      <4> TAKE i \in 1..Len(pending'[p])
      <4>1. pending[p][i + 1] # c
        BY <1>6, <3>1
      <4>2. pending[p][i + 1] \notin deferred[p] \cup clients[p]
        BY <3>1 DEF IInv, Once
      <4>3. pending'[p][i] = pending[p][i + 1]
        BY <3>1
      <4> QED
        BY <1>9, <4>1, <4>2, <4>3
    <3>3. ASSUME NEW i \in 1..Len(pending'[p]), NEW j \in 1..Len(pending'[p]),
                 pending'[p][i] = pending'[p][j]
          PROVE  i = j
      <4>1. i + 1 = j + 1
        BY <3>1, <3>3 DEF IInv, Once
      <4> QED
        BY <1>5, <1>8, <4>1
    <3> QED
      BY <1>9, <2>2, <3>2, <3>3
  <2> QED
    BY <2>1, <2>2
<1> QED
  BY <1>3, <1>10, <1>11, <1>12 DEF IInv

LEMMA WaitForClientIdInv ==
    ASSUME IInv, NEW p \in Parties, WaitForClientId(p) PROVE IInv'
<1>1. PICK c \in deferred[p] \cap sent :
          /\ deferred' = [deferred EXCEPT ![p] = @ \ {c}]
          /\ clients' = [clients EXCEPT ![p] = Filed(p, c)]
          /\ setup' = setup /\ visited' = visited /\ sent' = sent /\ listening' = listening
          /\ used' = used /\ pc' = pc /\ waiting' = waiting /\ sockets' = sockets
          /\ pending' = pending
  BY DEF WaitForClientId
<1>2. /\ Parties' = Parties /\ Threads' = Threads /\ Recvs' = Recvs /\ Conns' = Conns
      /\ Players' = Players /\ Visited' = Visited
  BY <1>1, SameSetup
<1>3. /\ Connected' /\ Matched'
      /\ \A q \in Parties : \A d : Arrived(q, d) => Arrived(q, d)'
  BY <1>1, ServerKeeps
<1>4. /\ deferred \in [Parties -> SUBSET Items]
      /\ clients \in [Parties -> SUBSET Conns] /\ sent \subseteq Conns
      /\ \A q \in Parties : used[q] \subseteq {Id(d) : d \in clients[q]}
      /\ \A q \in Parties : deferred[q] \cap clients[q] = {}
  BY DEF IInv, TypeOK, Items
<1>5. /\ c \in Filed(p, c) /\ Filed(p, c) \subseteq clients[p] \cup {c}
      /\ {Id(d) : d \in clients[p]} \subseteq {Id(d) : d \in Filed(p, c)}
  BY FiledFacts
<1>6. /\ deferred'[p] = deferred[p] \ {c} /\ clients'[p] = Filed(p, c)
      /\ \A q \in Parties : q # p => deferred'[q] = deferred[q] /\ clients'[q] = clients[q]
  BY <1>1, <1>4
<1>7. /\ deferred' \in [Parties -> SUBSET Items] /\ clients' \in [Parties -> SUBSET Conns]
  <2>1. Filed(p, c) \subseteq Conns
    BY <1>1, <1>4, <1>5
  <2> QED
    BY <1>1, <1>4, <2>1
<1>8. /\ \A q \in Parties : used[q] \subseteq {Id(d) : d \in clients'[q]}
      /\ \A q \in Parties : deferred'[q] \cap clients'[q] = {}
      /\ \A q \in Parties : deferred'[q] \cup clients'[q] \subseteq deferred[q] \cup clients[q]
  BY <1>1, <1>4, <1>5, <1>6
<1>9. TypeOK'
  BY <1>1, <1>2, <1>7, <1>8 DEF IInv, TypeOK, Items
<1>10. Addressed'
  BY <1>1, <1>2, <1>3, <1>8 DEF IInv, Addressed, WithServer
<1>11. Once'
  BY <1>1, <1>2, <1>8 DEF IInv, Once
<1> QED
  BY <1>3, <1>9, <1>10, <1>11 DEF IInv

\* The threads.
LEMMA StepFacts ==
    ASSUME IInv, NEW p \in Parties, NEW t \in Threads, ~Done(p, t)
    PROVE  /\ pc[p][t] \in 1..Len(Script(p)) /\ Step(p, t) = Script(p)[pc[p][t]]
           /\ Step(p, t) \in Steps /\ Parties \subseteq Nat
           /\ Step(p, t).op \in {"connect", "send"} => Step(p, t).peer \in 0..p
           /\ Step(p, t).op = "get" => Step(p, t).peer \in p..(n - 1)
           /\ Step(p, t).op # "handshake" => Step(p, t).recv \in Recvs
           /\ Step(p, t).op # "handshake" => Step(p, t).peer \in Parties
<1>1. /\ n \in Nat \ {0, 1} /\ Recvs = {FALSE, setup.encrypted}
      /\ Sound(Script(p), n, p, setup.encrypted)
  BY Sizes DEF IInv, TypeOK
<1>2. Script(p) \in Seq(Steps)
  BY <1>1 DEF Sound
<1>3. pc[p][t] \in Nat \ {0}
  BY DEF IInv, TypeOK
<1>4. pc[p][t] \in 1..Len(Script(p)) /\ Step(p, t) = Script(p)[pc[p][t]]
  BY <1>2, <1>3 DEF Done, Step
<1>5. Step(p, t) \in Steps
  BY <1>2, <1>4
<1>6. Parties \subseteq Nat /\ p \in Nat /\ p <= n - 1
  BY <1>1 DEF Parties
<1>7. /\ Step(p, t).op \in {"connect", "send"} => Step(p, t).peer \in 0..p
      /\ Step(p, t).op = "get" => Step(p, t).peer \in p..(n - 1)
      /\ Step(p, t).op # "handshake" => Step(p, t).recv \in Recvs
  BY <1>1, <1>4 DEF Sound
<1>8. Step(p, t).op \in {"connect", "send", "get", "handshake"}
  BY <1>5 DEF Steps, Operations
<1>9. Step(p, t).op # "handshake" => Step(p, t).peer \in Parties
  BY <1>1, <1>6, <1>7, <1>8 DEF Parties
<1> QED
  BY <1>4, <1>5, <1>6, <1>7, <1>9

\* A thread goes on, and may have got the connection with a party.
LEMMA ThreadKeeps ==
    ASSUME IInv, NEW p \in Parties, NEW t \in Threads, ~Done(p, t),
           setup' = setup, visited' = visited, Advance(p, t),
           NEW peer, NEW recv,
           \/ sockets' = sockets /\ Step(p, t).op # "connect"
           \/ /\ peer = Step(p, t).peer /\ recv = Step(p, t).recv
              /\ peer \in Parties /\ recv \in Recvs /\ Between(p, peer, t, recv) \in Conns
              /\ SetSocket(p, t, Between(p, peer, t, recv))
    PROVE  /\ pc' \in [Parties -> [Threads -> Nat \ {0}]]
           /\ sockets' \in [Parties -> [Players -> [Parties -> Conns \cup {Nobody}]]]
           /\ Connected' /\ Matched'
           /\ pc'[p][t] = pc[p][t] + 1
           /\ \A q \in Parties : \A c : Arrived(q, c) => Arrived(q, c)'
<1>1. /\ Parties' = Parties /\ Threads' = Threads /\ Recvs' = Recvs /\ Conns' = Conns
      /\ Players' = Players /\ \A q \in Parties : Script(q)' = Script(q)
  BY SameSetup
<1>2. /\ pc \in [Parties -> [Threads -> Nat \ {0}]]
      /\ sockets \in [Parties -> [Players -> [Parties -> Conns \cup {Nobody}]]]
      /\ Nobody \notin Conns
  BY Sizes DEF IInv, TypeOK
<1>3. pc' = [pc EXCEPT ![p][t] = @ + 1]
  BY DEF Advance
<1>4. /\ pc' \in [Parties -> [Threads -> Nat \ {0}]] /\ pc'[p][t] = pc[p][t] + 1
      /\ \A q \in Parties, u \in Threads :
             pc'[q][u] = pc[q][u] \/ (q = p /\ u = t)
  BY <1>2, <1>3
<1>5. \A q \in Parties, u \in Threads : pc[q][u] \in Nat /\ pc[q][u] <= pc'[q][u]
  <2> TAKE q \in Parties, u \in Threads
  <2>1. pc[q][u] \in Nat
    BY <1>2
  <2>2. pc'[q][u] = pc[q][u] \/ pc'[q][u] = pc[q][u] + 1
    BY <1>4
  <2> QED
    BY <2>1, <2>2
<1>6. /\ pc[p][t] \in 1..Len(Script(p)) /\ Step(p, t) = Script(p)[pc[p][t]]
  BY StepFacts
<1>7. ASSUME NEW q \in Parties, NEW c, Arrived(q, c) PROVE Arrived(q, c)'
  <2>1. c \in Conns => c[1] \in Parties /\ c[3] \in Threads
    BY DEF Conns
  <2>2. CASE c = Visit(q) /\ q \in visited
    BY <2>2 DEF Arrived, Visit
  <2>3. CASE /\ c \in Conns /\ c[2] = q
             /\ \A k \in 1..Len(Script(c[1])) :
                    Script(c[1])[k] = Do("connect", c[2], c[4]) => k < pc[c[1]][c[3]]
    <3>1. Script(c[1])' = Script(c[1]) /\ pc[c[1]][c[3]] <= pc'[c[1]][c[3]]
      BY <1>1, <1>5, <2>1, <2>3
    <3>2. pc[c[1]][c[3]] \in Nat /\ pc'[c[1]][c[3]] \in Nat
      BY <1>2, <1>4, <2>1, <2>3
    <3>3. \A k \in 1..Len(Script(c[1])) :
              Script(c[1])[k] = Do("connect", c[2], c[4]) => k < pc'[c[1]][c[3]]
      <4> TAKE k \in 1..Len(Script(c[1]))
      <4> HAVE Script(c[1])[k] = Do("connect", c[2], c[4])
      <4>1. k < pc[c[1]][c[3]]
        BY <2>3
      <4> QED
        BY <3>1, <3>2, <4>1
    <3> QED
      BY <1>1, <2>3, <3>1, <3>3 DEF Arrived
  <2> QED
    BY <1>7, <2>2, <2>3 DEF Arrived
<1>8. CASE sockets' = sockets /\ Step(p, t).op # "connect"
  <2>1. Matched'
    BY <1>1, <1>8 DEF IInv, Matched
  <2>2. Connected'
    <3> SUFFICES ASSUME NEW q \in Parties, NEW u \in Threads, NEW k \in 1..Len(Script(q)),
                        k < pc'[q][u], Script(q)[k].op = "connect"
                 PROVE  sockets[q][<<u, Script(q)[k].recv>>][Script(q)[k].peer] # Nobody
      BY <1>1, <1>8 DEF Connected
    <3>1. k < pc[q][u]
      <4>1. k \in Int /\ pc[q][u] \in Nat
        BY <1>5
      <4>2. CASE q = p /\ u = t
        <5>1. pc'[q][u] = pc[q][u] + 1 /\ k # pc[q][u]
          BY <1>4, <1>6, <1>8, <4>2
        <5> QED
          BY <4>1, <5>1
      <4>3. CASE ~(q = p /\ u = t)
        BY <1>4, <4>3
      <4> QED
        BY <4>2, <4>3
    <3> QED
      BY <3>1 DEF IInv, Connected
  <2> QED
    BY <1>2, <1>4, <1>7, <1>8, <2>1, <2>2
<1>9. CASE /\ peer = Step(p, t).peer /\ recv = Step(p, t).recv
           /\ peer \in Parties /\ recv \in Recvs /\ Between(p, peer, t, recv) \in Conns
           /\ SetSocket(p, t, Between(p, peer, t, recv))
  <2> DEFINE c == Between(p, peer, t, recv)
             player == <<t, recv>>
  <2>1. sockets' = [sockets EXCEPT ![p][player][peer] = c]
    BY <1>9 DEF SetSocket
  <2>2. player \in Players /\ c \in Conns /\ c # Nobody
    BY <1>2, <1>9 DEF Players
  <2>3. c = Between(p, peer, player[1], player[2])
    OBVIOUS
  <2> HIDE DEF c
  <2>4. \A q \in Parties, b \in Players, r \in Parties :
            sockets'[q][b][r] = IF q = p /\ b = player /\ r = peer THEN c ELSE sockets[q][b][r]
    <3> HIDE DEF player
    <3> QED
      BY <1>2, <1>9, <2>1, <2>2
  <2>5. sockets' \in [Parties -> [Players -> [Parties -> Conns \cup {Nobody}]]]
    <3> HIDE DEF player
    <3> QED
      BY <1>2, <1>9, <2>1, <2>2
  <2>6. Matched'
    <3> SUFFICES ASSUME NEW q \in Parties, NEW r \in Parties, NEW b \in Players
                 PROVE  sockets'[q][b][r] \in {Nobody, Between(q, r, b[1], b[2])}
      BY <1>1 DEF Matched, Between, Conn
    <3>1. sockets[q][b][r] \in {Nobody, Between(q, r, b[1], b[2])}
      BY DEF IInv, Matched
    <3> QED
      BY <2>3, <2>4, <3>1
  <2>7. Connected'
    <3> SUFFICES ASSUME NEW q \in Parties, NEW u \in Threads, NEW k \in 1..Len(Script(q)),
                        k < pc'[q][u], Script(q)[k].op = "connect"
                 PROVE  sockets'[q][<<u, Script(q)[k].recv>>][Script(q)[k].peer] # Nobody
      BY <1>1 DEF Connected
    <3>1. Sound(Script(q), n, q, setup.encrypted) /\ n \in Nat /\ Recvs = {FALSE, setup.encrypted}
      BY Sizes DEF IInv, TypeOK
    <3>2. Script(q)[k].peer \in Parties /\ Script(q)[k].recv \in Recvs
      <4>1. Script(q)[k].peer \in 0..q /\ Script(q)[k].recv \in Recvs
        BY <3>1 DEF Sound
      <4>2. q \in 0..(n - 1)
        BY DEF Parties
      <4>3. 0..q \subseteq 0..(n - 1)
        BY <3>1, <4>2
      <4> QED
        BY <4>1, <4>3 DEF Parties
    <3>3. <<u, Script(q)[k].recv>> \in Players
      BY <3>2 DEF Players
    <3>4. CASE k < pc[q][u]
      <4>1. sockets[q][<<u, Script(q)[k].recv>>][Script(q)[k].peer] # Nobody
        BY <3>4 DEF IInv, Connected
      <4> QED
        BY <2>2, <2>4, <3>2, <3>3, <4>1
    <3>5. CASE ~(k < pc[q][u])
      <4>1. q = p /\ u = t /\ k = pc[p][t]
        BY <1>2, <1>4, <3>5
      <4>2. Script(q)[k].peer = peer /\ Script(q)[k].recv = recv
        BY <1>6, <1>9, <4>1
      <4> QED
        BY <1>9, <2>2, <2>4, <4>1, <4>2
    <3> QED
      BY <3>4, <3>5
  <2> QED
    BY <1>4, <1>7, <2>5, <2>6, <2>7
<1> QED
  BY <1>8, <1>9

LEMMA SetUpClientSocketInv ==
    ASSUME IInv, NEW p \in Parties, NEW t \in Threads, ~Done(p, t), SetUpClientSocket(p, t)
    PROVE  IInv'
<1> SUFFICES ASSUME NEW peer, NEW recv, NEW c, peer = Step(p, t).peer, recv = Step(p, t).recv,
                    c = Conn(p, peer, t, recv)
             PROVE  IInv'
  OBVIOUS
<1>1. /\ setup' = setup /\ visited' = visited /\ sent' = sent /\ listening' = listening
      /\ deferred' = deferred /\ clients' = clients /\ used' = used /\ waiting' = waiting
      /\ pending' = [pending EXCEPT ![peer] = Append(@, c)]
      /\ SetSocket(p, t, c) /\ Advance(p, t) /\ Step(p, t).op = "connect"
  BY DEF SetUpClientSocket
<1>2. /\ Parties' = Parties /\ Threads' = Threads /\ Recvs' = Recvs /\ Conns' = Conns
      /\ Players' = Players /\ Visited' = Visited /\ \A q \in Parties : Script(q)' = Script(q)
  BY <1>1, SameSetup
<1>3. /\ peer \in 0..p /\ peer \in Parties /\ recv \in Recvs /\ p \in Nat
      /\ pc[p][t] \in 1..Len(Script(p)) /\ Step(p, t) = Script(p)[pc[p][t]]
      /\ Step(p, t) \in Steps
  BY <1>1, StepFacts
<1>4. Step(p, t) = Do("connect", peer, recv)
  BY <1>1, <1>3 DEF Steps, Do
<1>5. c \in Conns /\ c[1] = p /\ c[2] = peer /\ c[3] = t /\ c[4] = recv
  BY <1>3 DEF Conns, Conn
<1>6. c = Between(p, peer, t, recv)
  BY <1>3 DEF Between
<1>7. /\ pc' \in [Parties -> [Threads -> Nat \ {0}]]
      /\ sockets' \in [Parties -> [Players -> [Parties -> Conns \cup {Nobody}]]]
      /\ Connected' /\ Matched' /\ pc'[p][t] = pc[p][t] + 1
      /\ \A q \in Parties : \A d : Arrived(q, d) => Arrived(q, d)'
  <2>1. /\ peer = Step(p, t).peer /\ recv = Step(p, t).recv
        /\ peer \in Parties /\ recv \in Recvs /\ Between(p, peer, t, recv) \in Conns
        /\ SetSocket(p, t, Between(p, peer, t, recv))
    BY <1>1, <1>3, <1>5, <1>6, Zenon
  <2> QED
    BY <1>1, <2>1, ThreadKeeps, Zenon
<1>8. /\ Sound(Script(p), n, p, setup.encrypted) /\ \A q \in Parties : Visit(q) \notin Conns
      /\ pc[p][t] \in Nat
  BY Sizes DEF IInv, TypeOK
<1>9. ~Arrived(peer, c)
  <2>1. Script(p)[pc[p][t]] = Do("connect", c[2], c[4]) /\ ~(pc[p][t] < pc[p][t])
    BY <1>3, <1>4, <1>5, <1>8
  <2> QED
    BY <1>3, <1>5, <1>8, <2>1 DEF Arrived
<1>10. Arrived(peer, c)'
  <2>1. ASSUME NEW k \in 1..Len(Script(p)), Script(p)[k] = Do("connect", c[2], c[4])
        PROVE  k < pc'[p][t]
    <3>1. Script(p)[k] = Script(p)[pc[p][t]] /\ Script(p)[k].op = "connect"
      BY <1>1, <1>3, <1>4, <1>5, <2>1
    <3>2. k = pc[p][t]
      BY <1>3, <1>8, <3>1 DEF Sound
    <3> QED
      BY <1>7, <1>8, <3>2
  <2> QED
    BY <1>2, <1>5, <2>1 DEF Arrived
<1>11. pending' \in [Parties -> Seq(Items)] /\ Addressed' /\ Once'
  <2>1. c \in Items
    BY <1>5 DEF Items
  <2> QED
    BY <1>1, <1>3, <1>7, <1>9, <1>10, <2>1, PendingGrows
<1>12. TypeOK'
  BY <1>1, <1>2, <1>7, <1>11 DEF IInv, TypeOK, Items
<1> QED
  BY <1>7, <1>11, <1>12 DEF IInv

LEMMA SendIdInv ==
    ASSUME IInv, NEW p \in Parties, NEW t \in Threads, ~Done(p, t), SendId(p, t)
    PROVE  IInv'
<1> DEFINE step == Step(p, t)
           c == sockets[p][<<t, step.recv>>][step.peer]
<1>1. /\ setup' = setup /\ visited' = visited /\ listening' = listening /\ pending' = pending
      /\ deferred' = deferred /\ clients' = clients /\ used' = used /\ waiting' = waiting
      /\ sockets' = sockets /\ sent' = sent \cup {c}
      /\ Advance(p, t) /\ step.op = "send"
  BY DEF SendId
<1>2. /\ Parties' = Parties /\ Threads' = Threads /\ Recvs' = Recvs /\ Conns' = Conns
      /\ Players' = Players /\ Visited' = Visited
  BY <1>1, SameSetup
<1>3. /\ step.peer \in Parties /\ step.recv \in Recvs
      /\ pc[p][t] \in 1..Len(Script(p)) /\ step = Script(p)[pc[p][t]]
  BY <1>1, StepFacts
<1>4. /\ pc' \in [Parties -> [Threads -> Nat \ {0}]] /\ Connected' /\ Matched'
      /\ \A q \in Parties : \A d : Arrived(q, d) => Arrived(q, d)'
  BY <1>1, ThreadKeeps
<1>5. c \in Conns
  <2>1. Sound(Script(p), n, p, setup.encrypted) /\ pc[p][t] \in Nat
    BY Sizes DEF IInv, TypeOK
  <2> DEFINE k == pc[p][t] - 1
  <2>2. k \in 1..Len(Script(p)) /\ k < pc[p][t] /\ Script(p)[k] = Do("connect", step.peer, step.recv)
    <3> HIDE DEF step
    <3>1. pc[p][t] > 1 /\ Script(p)[pc[p][t] - 1] = Do("connect", step.peer, step.recv)
      BY <1>1, <1>3, <2>1 DEF Sound
    <3>2. Script(p) \in Seq(Steps)
      BY <2>1 DEF Sound
    <3> QED
      BY <1>3, <2>1, <3>1, <3>2
  <2> HIDE DEF k
  <2>3. Script(p)[k].op = "connect" /\ Script(p)[k].peer = step.peer /\ Script(p)[k].recv = step.recv
    BY <2>2 DEF Do
  <2>4. c # Nobody
    BY <2>2, <2>3 DEF IInv, Connected
  <2>5. <<t, step.recv>> \in Players
    BY <1>3 DEF Players
  <2>6. sockets \in [Parties -> [Players -> [Parties -> Conns \cup {Nobody}]]]
    BY DEF IInv, TypeOK
  <2>7. sockets[p][<<t, step.recv>>] \in [Parties -> Conns \cup {Nobody}]
    <3> DEFINE player == <<t, step.recv>>
    <3> HIDE DEF player
    <3>1. player \in Players
      BY <2>5 DEF player
    <3>2. sockets[p][player] \in [Parties -> Conns \cup {Nobody}]
      BY <2>6, <3>1
    <3> QED
      BY <3>2 DEF player
  <2> HIDE DEF step
  <2> QED
    BY <1>3, <2>4, <2>7
<1> HIDE DEF c
<1>6. TypeOK'
  BY <1>1, <1>2, <1>4, <1>5 DEF IInv, TypeOK
<1>7. Addressed'
  BY <1>1, <1>2, <1>4 DEF IInv, Addressed, WithServer
<1>8. Once'
  BY <1>1, <1>2 DEF IInv, Once
<1> QED
  BY <1>4, <1>6, <1>7, <1>8 DEF IInv

LEMMA GetConnectionSocketInv ==
    ASSUME IInv, NEW p \in Parties, NEW t \in Threads, ~Done(p, t), GetConnectionSocket(p, t)
    PROVE  IInv'
<1> DEFINE peer == Step(p, t).peer
           recv == Step(p, t).recv
           wanted == Id(Conn(peer, p, t, recv))
<1>1. /\ setup' = setup /\ visited' = visited /\ listening' = listening /\ pending' = pending
      /\ sent' = sent /\ deferred' = deferred /\ clients' = clients
      /\ Step(p, t).op = "get"
  BY DEF GetConnectionSocket
<1>2. /\ Parties' = Parties /\ Threads' = Threads /\ Recvs' = Recvs /\ Conns' = Conns
      /\ Players' = Players /\ Visited' = Visited
  BY <1>1, SameSetup
<1>3. peer \in p..(n - 1) /\ peer \in Parties /\ recv \in Recvs /\ p \in Nat
  BY <1>1, StepFacts
<1>4. Once'
  BY <1>1, <1>2 DEF IInv, Once
<1>5. waiting \subseteq Parties \X Threads
  BY DEF IInv, TypeOK
<1>6. CASE /\ waiting' = waiting \cup {<<p, t>>} /\ used' = used /\ pc' = pc
           /\ sockets' = sockets
  <2>1. /\ Connected' /\ Matched' /\ \A q \in Parties : \A c : Arrived(q, c) => Arrived(q, c)'
    BY <1>1, <1>6, ServerKeeps
  <2>2. waiting' \subseteq Parties \X Threads
    BY <1>5, <1>6
  <2>3. TypeOK'
    BY <1>1, <1>2, <1>6, <2>2 DEF IInv, TypeOK
  <2>4. Addressed'
    BY <1>1, <1>2, <2>1 DEF IInv, Addressed, WithServer
  <2> QED
    BY <1>4, <2>1, <2>3, <2>4 DEF IInv
<1>7. CASE /\ \E c \in {d \in clients[p] : Id(d) = wanted} : SetSocket(p, t, c)
           /\ used' = [used EXCEPT ![p] = @ \cup {wanted}]
           /\ waiting' = waiting \ {<<p, t>>}
           /\ Advance(p, t)
  <2>1. PICK c \in clients[p] : Id(c) = wanted /\ SetSocket(p, t, c)
    BY <1>7
  <2>2. c \in Conns /\ c[2] = p
    <3>1. c \in Conns
      BY <2>1 DEF IInv, TypeOK
    <3>2. Arrived(p, c) /\ Visit(p) \notin Conns
      BY <2>1, Sizes DEF IInv, Addressed, WithServer, TypeOK
    <3> QED
      BY <3>1, <3>2 DEF Arrived
  <2>3. wanted = <<peer, t, recv>> /\ wanted \in Parties \X Threads \X Recvs
    BY <1>3 DEF Id, Conn
  <2>4. c = Conn(peer, p, t, recv)
    <3>1. c[1] = peer /\ c[3] = t /\ c[4] = recv
      BY <2>1, <2>3 DEF Id
    <3>2. c = <<c[1], c[2], c[3], c[4]>>
      BY <2>2 DEF Conns
    <3> QED
      BY <2>2, <3>1, <3>2 DEF Conn
  <2>5. c = Between(p, peer, t, recv)
    BY <1>3, <2>4 DEF Between
  <2> HIDE DEF peer, recv, wanted
  <2>6. /\ pc' \in [Parties -> [Threads -> Nat \ {0}]]
        /\ sockets' \in [Parties -> [Players -> [Parties -> Conns \cup {Nobody}]]]
        /\ Connected' /\ Matched' /\ \A q \in Parties : \A d : Arrived(q, d) => Arrived(q, d)'
    BY <1>1, <1>3, <1>7, <2>1, <2>2, <2>5, ThreadKeeps DEF peer, recv
  <2>7. waiting' \subseteq Parties \X Threads
    BY <1>5, <1>7
  <2>8. /\ used' \in [Parties -> SUBSET (Parties \X Threads \X Recvs)]
        /\ \A q \in Parties : used'[q] \subseteq {Id(d) : d \in clients[q]}
    <3>1. /\ used \in [Parties -> SUBSET (Parties \X Threads \X Recvs)]
          /\ \A q \in Parties : used[q] \subseteq {Id(d) : d \in clients[q]}
      BY DEF IInv, TypeOK
    <3>2. wanted \in {Id(d) : d \in clients[p]}
      BY <2>1
    <3> QED
      BY <1>7, <2>3, <3>1, <3>2
  <2>9. TypeOK'
    BY <1>1, <1>2, <2>6, <2>7, <2>8 DEF IInv, TypeOK
  <2>10. Addressed'
    BY <1>1, <1>2, <2>6 DEF IInv, Addressed, WithServer
  <2> QED
    BY <1>4, <2>6, <2>9, <2>10 DEF IInv
<1> QED
  BY <1>6, <1>7 DEF GetConnectionSocket

LEMMA HandshakeInv ==
    ASSUME IInv, NEW p \in Parties, NEW t \in Threads, ~Done(p, t), Handshake(p, t)
    PROVE  IInv'
<1>1. /\ setup' = setup /\ visited' = visited /\ listening' = listening /\ pending' = pending
      /\ deferred' = deferred /\ clients' = clients /\ used' = used /\ waiting' = waiting
      /\ sockets' = sockets /\ sent' = sent
      /\ Advance(p, t) /\ Step(p, t).op = "handshake"
  BY DEF Handshake, server
<1>2. /\ Parties' = Parties /\ Threads' = Threads /\ Recvs' = Recvs /\ Conns' = Conns
      /\ Players' = Players /\ Visited' = Visited
  BY <1>1, SameSetup
<1>3. /\ pc' \in [Parties -> [Threads -> Nat \ {0}]] /\ Connected' /\ Matched'
      /\ \A q \in Parties : \A d : Arrived(q, d) => Arrived(q, d)'
  BY <1>1, ThreadKeeps
<1>4. TypeOK'
  BY <1>1, <1>2, <1>3 DEF IInv, TypeOK
<1>5. Addressed'
  BY <1>1, <1>2, <1>3 DEF IInv, Addressed, WithServer
<1>6. Once'
  BY <1>1, <1>2 DEF IInv, Once
<1> QED
  BY <1>3, <1>4, <1>5, <1>6 DEF IInv
-----------------------------------------------------------------------------
LEMMA BetweenIsConn ==
    ASSUME setup \in Setups, NEW p \in Parties, NEW q \in Parties, NEW t \in Threads,
           NEW recv \in Recvs
    PROVE  Between(p, q, t, recv) \in Conns
BY DEF Between, Conn, Conns

LEMMA InitInv == Init => IInv
<1> SUFFICES ASSUME Init PROVE IInv
  OBVIOUS
<1>1. /\ setup \in Setups /\ visited = {} /\ waiting = {}
      /\ pending = [p \in Parties |-> <<>>] /\ deferred = [p \in Parties |-> {}]
  BY DEF Init, All
<1>2. /\ n = setup.n /\ n \in Nat \ {0, 1} /\ Recvs = {FALSE, setup.encrypted}
      /\ Nobody \notin Conns
      /\ \A p \in Parties : Sound(Script(p), n, p, setup.encrypted)
  BY <1>1, Sizes DEF n
<1>3. pending \in [Parties -> Seq(Conns \cup {Visit(p) : p \in Visited})]
  BY <1>1
<1>4. CASE /\ listening = IF setup.started THEN Parties ELSE {}
           /\ sent = {} /\ clients = [p \in Parties |-> {}] /\ used = [p \in Parties |-> {}]
           /\ pc = [p \in Parties |-> [t \in Threads |-> 1]]
           /\ sockets = [p \in Parties |-> [player \in Players |-> [q \in Parties |-> Nobody]]]
  <2>1. TypeOK
    BY <1>1, <1>3, <1>4 DEF TypeOK
  <2>2. Addressed
    BY <1>1, <1>4 DEF Addressed, WithServer
  <2>3. Once
    BY <1>1, <1>4 DEF Once
  <2>4. Connected
    <3> SUFFICES ASSUME NEW p \in Parties, NEW t \in Threads, NEW k \in 1..Len(Script(p)),
                        k < pc[p][t]
                 PROVE  FALSE
      BY DEF Connected
    <3> QED
      BY <1>4
  <2>5. Matched
    BY <1>4 DEF Matched
  <2> QED
    BY <2>1, <2>2, <2>3, <2>4, <2>5 DEF IInv
<1>5. CASE /\ listening = Parties
           /\ sent = {c \in Conns : c[1] >= c[2]}
           /\ clients = [p \in Parties |-> {c \in sent : c[2] = p}]
           /\ used = [p \in Parties |-> {Id(c) : c \in clients[p]}]
           /\ pc = [p \in Parties |-> [t \in Threads |-> Len(Plain(n, p, setup.encrypted)) + 1]]
           /\ sockets = [p \in Parties |-> [player \in Players |-> [q \in Parties |->
                             Between(p, q, player[1], player[2])]]]
  <2>1. \A p \in Parties :
            /\ Len(Plain(n, p, setup.encrypted)) \in Nat
            /\ \A k \in 1..Len(Script(p)) :
                   k > Len(Plain(n, p, setup.encrypted)) => Script(p)[k].op = "handshake"
    BY <1>1, <1>2, ScriptSound DEF Script, Parties
  <2>2. \A p, q \in Parties, player \in Players : Between(p, q, player[1], player[2]) \in Conns
    BY <1>1, BetweenIsConn DEF Players
  <2>3. \A p \in Parties : clients[p] \subseteq Conns
    BY <1>5
  <2>4. TypeOK
    <3>1. pc \in [Parties -> [Threads -> Nat \ {0}]]
      BY <1>5, <2>1
    <3>2. sockets \in [Parties -> [Players -> [Parties -> Conns \cup {Nobody}]]]
      BY <1>5, <2>2
    <3>3. used \in [Parties -> SUBSET (Parties \X Threads \X Recvs)]
      <4>1. \A c \in Conns : Id(c) \in Parties \X Threads \X Recvs
        BY DEF Conns, Id
      <4> QED
        BY <1>5, <2>3, <4>1
    <3>4. clients \in [Parties -> SUBSET Conns] /\ sent \subseteq Conns
      BY <1>5
    <3>5. /\ \A p \in Parties : used[p] \subseteq {Id(c) : c \in clients[p]}
          /\ \A p \in Parties : deferred[p] \cap clients[p] = {}
      BY <1>1, <1>5
    <3>6. deferred \in [Parties -> SUBSET (Conns \cup {Visit(p) : p \in Visited})]
      BY <1>1
    <3> QED
      BY <1>1, <1>3, <1>5, <3>1, <3>2, <3>3, <3>4, <3>5, <3>6 DEF TypeOK
  <2>5. Addressed
    <3> SUFFICES ASSUME NEW p \in Parties, NEW c \in WithServer(p)
                 PROVE  Arrived(p, c)
      BY DEF Addressed
    <3>1. c \in clients[p]
      BY <1>1 DEF WithServer
    <3>2. c \in Conns /\ c[2] = p
      BY <1>5, <3>1
    <3>3. c[1] \in Parties /\ c[3] \in Threads
      BY <3>2 DEF Conns
    <3>4. ASSUME NEW k \in 1..Len(Script(c[1])),
                 Script(c[1])[k] = Do("connect", c[2], c[4])
          PROVE  k < pc[c[1]][c[3]]
      <4>1. Script(c[1])[k].op # "handshake"
        BY <3>4 DEF Do
      <4>2. ~(k > Len(Plain(n, c[1], setup.encrypted)))
        BY <2>1, <3>3, <4>1
      <4>3. pc[c[1]][c[3]] = Len(Plain(n, c[1], setup.encrypted)) + 1
        BY <1>5, <3>3
      <4> QED
        BY <2>1, <3>3, <4>2, <4>3
    <3> QED
      BY <3>2, <3>4 DEF Arrived
  <2>6. Once
    BY <1>1, <1>5 DEF Once
  <2>7. Connected
    <3> SUFFICES ASSUME NEW p \in Parties, NEW t \in Threads, NEW k \in 1..Len(Script(p)),
                        Script(p)[k].op = "connect"
                 PROVE  sockets[p][<<t, Script(p)[k].recv>>][Script(p)[k].peer] # Nobody
      BY DEF Connected
    <3>1. Script(p)[k].peer \in 0..p /\ Script(p)[k].recv \in Recvs
      BY <1>2 DEF Sound
    <3>2. 0..p \subseteq Parties
      BY <1>2 DEF Parties
    <3> DEFINE player == <<t, Script(p)[k].recv>>
    <3>3. player \in Players
      BY <3>1 DEF Players
    <3> HIDE DEF player
    <3>4. sockets[p][player][Script(p)[k].peer] \in Conns
      BY <1>5, <2>2, <3>1, <3>2, <3>3
    <3> QED
      BY <1>2, <3>4 DEF player
  <2>8. Matched
    BY <1>5 DEF Matched
  <2> QED
    BY <2>4, <2>5, <2>6, <2>7, <2>8 DEF IInv
<1> QED
  BY <1>4, <1>5 DEF Init, All

LEMMA NextInv == IInv /\ [Next]_vars => IInv'
<1> SUFFICES ASSUME IInv, [Next]_vars PROVE IInv'
  OBVIOUS
<1>1. CASE \E p \in Parties : \/ Listen(p) \/ Visitor(p) \/ VisitorLeaves(p)
                              \/ Accept(p) \/ WaitForClientId(p)
  BY <1>1, ListenInv, VisitorInv, VisitorLeavesInv, AcceptInv, WaitForClientIdInv
<1>2. CASE \E p \in Parties, t \in Threads : Run(p, t)
  BY <1>2, SetUpClientSocketInv, SendIdInv, GetConnectionSocketInv, HandshakeInv DEF Run
<1>3. CASE UNCHANGED vars
  <2>1. /\ setup' = setup /\ listening' = listening /\ visited' = visited
        /\ pending' = pending /\ sent' = sent /\ deferred' = deferred
        /\ clients' = clients /\ used' = used /\ pc' = pc
        /\ waiting' = waiting /\ sockets' = sockets
    BY <1>3 DEF vars, server
  <2>2. /\ Parties' = Parties /\ Threads' = Threads /\ Recvs' = Recvs /\ Conns' = Conns
        /\ Players' = Players /\ Visited' = Visited
    BY <2>1, SameSetup
  <2>3. /\ Connected' /\ Matched'
        /\ \A q \in Parties : \A c : Arrived(q, c) => Arrived(q, c)'
    BY <2>1, ServerKeeps
  <2>4. TypeOK'
    BY <2>1, <2>2 DEF IInv, TypeOK
  <2>5. Addressed'
    BY <2>1, <2>2, <2>3 DEF IInv, Addressed, WithServer
  <2>6. Once'
    BY <2>1, <2>2 DEF IInv, Once
  <2> QED
    BY <2>3, <2>4, <2>5, <2>6 DEF IInv
<1> QED
  BY <1>1, <1>2, <1>3 DEF Next

\* The invariant holds for any number of parties and threads, with encryption and without,
\* in whatever order servers start, connections come and identifiers arrive.
THEOREM Invariance == Spec => []IInv
BY InitInv, NextInv, PTL DEF Spec

\* All variables have their types: the server never asks for an identifier that it has
\* not filed, nor waits for one that it has (ServerSocket::process_connection,
\* get_connection_socket).
THEOREM TypeCorrect == Spec => []TypeOK
BY Invariance, PTL DEF IInv

\* What a player has for another party is the connection that this one has for it, of the
\* same thread and in the same direction (PlainPlayer::setup_sockets).
THEOREM BothEndsMatch == Spec => []Matched
BY Invariance, PTL DEF IInv
=============================================================================
