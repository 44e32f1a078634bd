--------------------------- MODULE TransportProofs ---------------------------
(***************************************************************************)
(* What Transport promises for any number of parties, any operations that  *)
(* match and sockets of any capacity: connections are clean when they are  *)
(* closed, and every operation yields what the others have for it if what  *)
(* is sent and received into has spare room.                               *)
(***************************************************************************)
EXTENDS Transport, SequenceTheorems, TLAPS

Units == Nat \X Nat \X Nat \X Nat
Outcomes == {"message", "garbage", "nothing"}

Types ==
    /\ kind \in {"plain", "crypto"} /\ program \in DOMAIN Programs
    /\ at \in [Parties -> Nat]
    /\ phase \in [Parties -> {"idle", "construct", "exchange", "write", "read", "wait", "closed"}]
    /\ stage \in [Parties -> Nat] /\ made \in [Parties -> Nat]
    /\ mem \in [Parties -> [Streams -> Seq(Units)]]
    /\ tx \in [Parties -> [Parties -> Int]] /\ rx \in [Parties -> [Parties -> Int]]
    /\ len \in [Parties -> [Parties -> Nat]]
    /\ wire \in [Sockets -> [Parties -> [Parties -> Seq(Units)]]]
    /\ requested \in [Parties -> [Parties -> [Directions -> Seq(Streams)]]]
    /\ finished \in [Parties -> [Parties -> [Directions -> Seq(Streams)]]]
    /\ result \in [Parties -> Seq([Parties -> Outcomes])]
-----------------------------------------------------------------------------
(* How far the parties are.                                                *)

InOp(p) == phase[p] \notin {"idle", "closed"}
ExchangerPhases == {"construct", "exchange", "write", "read"}

\* Whether operation k of p has something for q, or from it.
Uses(k, p, q, d) ==
    IF ByThreads(Ops[k])
    THEN \E i \in DOMAIN AllRequests[program][k][p] : Peer(AllRequests[program][k][p][i], d) = q
    ELSE \E i \in DOMAIN AllExchanges[program][k][p] :
             \E j \in DOMAIN AllExchanges[program][k][p][i] :
                 Peer(AllExchanges[program][k][p][i][j], d) = q

SocketOf(k, p, q) == IF ByThreads(Ops[k]) THEN ThreadSocket(p, q) ELSE "sockets"

\* The units of the operation between p and q, the one for the length included.
Sum(k, p, q, d) == Ops[k].size[IF d = "send" THEN p ELSE q] + 1

\* How many of them have been moved.
Moved(p, q, d) == IF d = "send" THEN tx[p][q] ELSE rx[p][q]
Done(p, q, d) ==
    IF phase[p] = "wait" THEN requested[p][q][d] = <<>>
    ELSE \E i \in 1..(stage[p] - 1) : \E j \in DOMAIN Exchanges(p)[i] :
             Peer(Exchanges(p)[i][j], d) = q
Count(p, q, d) ==
    IF Moved(p, q, d) # -1 THEN Moved(p, q, d)
    ELSE IF Done(p, q, d) THEN Sum(at[p], p, q, d) ELSE 0

\* What p sends to q next or receives from it next: the operation and the unit in it.
Position(p, q, d) == IF InOp(p) THEN <<at[p], Count(p, q, d)>> ELSE <<at[p] + 1, 0>>
Before(x, y) == x[1] < y[1] \/ (x[1] = y[1] /\ x[2] < y[2])
-----------------------------------------------------------------------------
(* What is in the sockets.                                                 *)

\* Everything that goes from p to q by a socket in the course of the program.
Slots(s, p, q) ==
    {x \in Nat \X Nat : /\ x[1] \in 1..Len(Ops) /\ Uses(x[1], p, q, "send")
                        /\ SocketOf(x[1], p, q) = s /\ x[2] <= Ops[x[1]].size[p]}
Datum(x, p, q) ==
    IF x[2] = 0 THEN Header(Ops[x[1]].size[p]) ELSE Message(x[1], p, q)[x[2]]
\* What may stand for it: something else if a stream may be moved while it is sent.
May(x, p, q) ==
    {Datum(x, p, q)} \cup {u \in {Garbage} : x[2] # 0 /\ ~Roomy(Ops[x[1]])}
Traffic(s, p, q) == [x \in Slots(s, p, q) |-> May(x, p, q)]

\* A socket holds, in order, what has been sent and not been received.
Between(T, w, D, lo, hi) ==
    /\ Len(T) = Len(w)
    /\ \A i \in 1..Len(w) : w[i] \in D[T[i]]
    /\ \A i, j \in 1..Len(w) : i < j => Before(T[i], T[j])
    /\ \A x \in DOMAIN D : (~Before(x, lo) /\ Before(x, hi)) <=> (\E i \in 1..Len(w) : T[i] = x)
Carries(w, D, lo, hi) ==
    /\ \A x \in DOMAIN D : Before(x, lo) => Before(x, hi)
    /\ \E T \in Seq(DOMAIN D) : Between(T, w, D, lo, hi)

\* What a party sends to another, or receives from it, by a socket.
Line(s, p, q, d) == IF d = "send" THEN Traffic(s, p, q) ELSE Traffic(s, q, p)

Flow ==
    \A s \in Sockets, p, q \in Parties :
        Carries(wire[s][p][q], Traffic(s, p, q), Position(q, p, "receive"),
                Position(p, q, "send"))
-----------------------------------------------------------------------------
(* Where a party is in an operation.                                       *)

AtRest(p, q, d) ==
    Moved(p, q, d) = -1 /\ requested[p][q][d] = <<>> /\ finished[p][q][d] = <<>>

Turn(p) ==
    /\ at[p] <= Len(Ops)
    /\ InOp(p) => at[p] >= 1 /\ Len(result[p]) = at[p] - 1
    /\ ~InOp(p) => Len(result[p]) = at[p] /\ \A q \in Parties, d \in Directions : AtRest(p, q, d)
    /\ phase[p] = "closed" => at[p] = Len(Ops)

WithExchangers(p) == phase[p] \in ExchangerPhases =>
    /\ ~ByThreads(Op(p))
    /\ phase[p] = "exchange" => kind = "plain"
    /\ phase[p] \in {"write", "read"} => kind = "crypto"
    /\ \A q \in Parties, d \in Directions :
           /\ requested[p][q][d] = <<>> /\ finished[p][q][d] = <<>>
           /\ Moved(p, q, d) \in -1..Sum(at[p], p, q, d)
           /\ d = "send" => Moved(p, q, d) # 0
    /\ IF Exchanges(p) = <<>>
       THEN /\ phase[p] = "construct" /\ stage[p] = 1
            /\ \A q \in Parties, d \in Directions : Moved(p, q, d) = -1
       ELSE /\ stage[p] \in 1..Len(Exchanges(p)) /\ made[p] \in 0..Len(Pairs(p))
            /\ phase[p] = "construct" <=> made[p] < Len(Pairs(p))
            /\ \A q \in Parties, d \in Directions :
                   Moved(p, q, d) # -1 <=> \E i \in 1..made[p] : Peer(Pairs(p)[i], d) = q

Waited(p, q, d) == \E j \in 1..made[p] : Waits(p)[j] = [d |-> d, q |-> q]
Asked(p, q, d) ==
    /\ Uses(at[p], p, q, d) /\ ~Waited(p, q, d)
    /\ requested[p][q][d] = <<Stream(Op(p), p, q, d)>> /\ finished[p][q][d] = <<>>
    /\ Moved(p, q, d) = -1 \/ Moved(p, q, d) \in 1..(Sum(at[p], p, q, d) - 1)
Ready(p, q, d) ==
    /\ Uses(at[p], p, q, d) /\ ~Waited(p, q, d) /\ Moved(p, q, d) = -1
    /\ requested[p][q][d] = <<>> /\ finished[p][q][d] = <<Stream(Op(p), p, q, d)>>
Through(p, q, d) ==
    (Uses(at[p], p, q, d) => Waited(p, q, d)) /\ AtRest(p, q, d)
WithThreads(p) == phase[p] = "wait" =>
    /\ ByThreads(Op(p))
    /\ Requests(p) = <<>> \/ made[p] < Len(Waits(p))
    /\ \A q \in Parties, d \in Directions : Asked(p, q, d) \/ Ready(p, q, d) \/ Through(p, q, d)

Proper(p) == Turn(p) /\ WithExchangers(p) /\ WithThreads(p)
-----------------------------------------------------------------------------
(* What is in the streams.                                                 *)

ToSend(p) ==
    IF Same(Op(p))
    THEN \A q \in Parties : Uses(at[p], p, q, "send") =>
             /\ Count(p, q, "send") = 0 => mem[p][<<"s", p>>] = Content(at[p], p, p)
             /\ Len(mem[p][<<"s", p>>]) >= Op(p).size[p]
             /\ \A i \in 1..Op(p).size[p] : i >= Count(p, q, "send") =>
                    mem[p][<<"s", p>>][i] = Unit(at[p], p, p, i)
    ELSE \A q \in Parties : mem[p][<<"s", q>>] = Content(at[p], p, q)

Got(p, q) ==
    LET n == Count(p, q, "receive")
        stream == mem[p][Target(Op(p), p, q)]
    IN /\ n >= 1 => len[p][q] = Op(p).size[q]
       /\ n - 1 <= Len(stream)
       /\ \A i \in 1..(n - 1) : stream[i] \in May(<<at[p], i>>, q, p)
HasReceived(p) == \A q \in Parties : Uses(at[p], p, q, "receive") => Got(p, q)

InMemory(p) == InOp(p) => ToSend(p) /\ HasReceived(p)

IInv == Types /\ (\A p \in Parties : Proper(p) /\ InMemory(p)) /\ Flow
-----------------------------------------------------------------------------
(* What sending and receiving does to a socket.                            *)

Places == Nat \X Nat

\* Two places are the same for a socket if nothing is to be sent in between.
Alike(D, x, y) == \A z \in DOMAIN D : Before(z, x) <=> Before(z, y)

\* One of them is one unit further than the other.
Further(D, x, y) == \A z \in DOMAIN D : Before(z, y) <=> Before(z, x) \/ z = x

\* Of two places one comes before the other.
LEMMA InTurn ==
    ASSUME NEW x \in Places, NEW y \in Places
    PROVE  Before(x, y) \/ Before(y, x) \/ x = y
<1>1. PICK a, b, c, d \in Nat : x = <<a, b>> /\ y = <<c, d>>
  BY DEF Places
<1>2. a < c \/ c < a \/ (a = c /\ b < d) \/ (a = c /\ d < b) \/ (a = c /\ b = d)
  OBVIOUS
<1> QED
  BY <1>1, <1>2 DEF Before

\* At the beginning nothing has been sent.
LEMMA NothingSent ==
    ASSUME NEW D, NEW lo, NEW hi, Alike(D, lo, hi)
    PROVE  Carries(<<>>, D, lo, hi)
<1>1. <<>> \in Seq(DOMAIN D) /\ Len(<<>>) = 0
  OBVIOUS
<1>2. Between(<<>>, <<>>, D, lo, hi)
  BY <1>1 DEF Alike, Between
<1> QED
  BY <1>1, <1>2 DEF Alike, Carries

\* Sender and receiver go on in the program without moving anything.
LEMMA NothingMoved ==
    ASSUME NEW D, NEW w, NEW lo, NEW hi, NEW lo2, NEW hi2, Carries(w, D, lo, hi),
           Alike(D, lo, lo2), Alike(D, hi, hi2)
    PROVE  Carries(w, D, lo2, hi2)
  BY DEF Carries, Between, Alike

\* The sender puts its next unit in.
LEMMA UnitSent ==
    ASSUME NEW D, DOMAIN D \subseteq Places, NEW w \in Seq(Units), NEW lo \in Places,
           NEW hi \in DOMAIN D, NEW lo2, NEW hi2,
           Carries(w, D, lo, hi), NEW u \in Units, u \in D[hi],
           Alike(D, lo, lo2), Further(D, hi, hi2)
    PROVE  Carries(Append(w, u), D, lo2, hi2)
<1>1. PICK T \in Seq(DOMAIN D) : Between(T, w, D, lo, hi)
  BY DEF Carries
<1> DEFINE v == Append(w, u)
           U == Append(T, hi)
<1>2. Len(T) = Len(w) /\ Len(w) \in Nat
  BY <1>1 DEF Between
<1>3. U \in Seq(DOMAIN D) /\ Len(U) = Len(w) + 1
  BY <1>2
<1>4. v \in Seq(Units) /\ Len(v) = Len(w) + 1
  OBVIOUS
<1>5. \A i \in 1..Len(w) : v[i] = w[i] /\ U[i] = T[i] /\ T[i] \in DOMAIN D
  BY <1>2
<1>6. v[Len(w) + 1] = u /\ U[Len(w) + 1] = hi
  BY <1>2
<1>7. \A i \in 1..Len(w) : Before(T[i], hi) /\ ~Before(T[i], lo)
  BY <1>1, <1>5 DEF Between
<1>8. ~Before(hi, lo)
  <2>1. ~Before(hi, hi)
    BY DEF Before, Places
  <2> QED
    BY <2>1 DEF Carries
<1> HIDE DEF U, v
<1>9. Between(U, v, D, lo2, hi2)
  <2>1. \A i \in 1..Len(v) : i \in 1..Len(w) \/ i = Len(w) + 1
    BY <1>2, <1>4
  <2>2. \A i \in 1..Len(v) : v[i] \in D[U[i]]
    BY <1>1, <1>5, <1>6, <2>1 DEF Between
  <2>3. ASSUME NEW i \in 1..Len(v), NEW j \in 1..Len(v), i < j PROVE Before(U[i], U[j])
    <3>1. i \in 1..Len(w)
      BY <1>2, <1>4, <2>3
    <3>2. CASE j \in 1..Len(w)
      BY <1>1, <1>5, <2>3, <3>1, <3>2 DEF Between
    <3>3. CASE j = Len(w) + 1
      BY <1>5, <1>6, <1>7, <3>1, <3>3
    <3> QED
      BY <2>1, <3>2, <3>3
  <2>4. ASSUME NEW x \in DOMAIN D
        PROVE  (~Before(x, lo2) /\ Before(x, hi2)) <=> \E i \in 1..Len(v) : U[i] = x
    <3>1. (~Before(x, lo2) /\ Before(x, hi2)) <=> (~Before(x, lo) /\ Before(x, hi)) \/ x = hi
      BY <1>8 DEF Alike, Further
    <3>2. (~Before(x, lo) /\ Before(x, hi)) <=> \E i \in 1..Len(w) : T[i] = x
      BY <1>1 DEF Between
    <3>3. (\E i \in 1..Len(v) : U[i] = x) <=> (\E i \in 1..Len(w) : T[i] = x) \/ x = hi
      <4>1. \A i \in 1..Len(w) : i \in 1..Len(v)
        BY <1>2, <1>4
      <4>2. Len(w) + 1 \in 1..Len(v)
        BY <1>2, <1>4
      <4> QED
        BY <1>5, <1>6, <2>1, <4>1, <4>2
    <3> QED
      BY <3>1, <3>2, <3>3
  <2> QED
    BY <1>3, <1>4, <2>2, <2>3, <2>4 DEF Between
<1>10. \A x \in DOMAIN D : Before(x, lo2) => Before(x, hi2)
  BY DEF Carries, Alike, Further
<1> QED
  BY <1>3, <1>9, <1>10 DEF Carries, v

\* The receiver takes a unit out, which is the one it expects.
LEMMA UnitReceived ==
    ASSUME NEW D, DOMAIN D \subseteq Places, NEW w \in Seq(Units), w # <<>>,
           NEW lo \in DOMAIN D, NEW hi \in Places, NEW lo2, NEW hi2,
           Carries(w, D, lo, hi), Further(D, lo, lo2), Alike(D, hi, hi2)
    PROVE  Head(w) \in D[lo] /\ Carries(Tail(w), D, lo2, hi2)
<1>1. PICK T \in Seq(DOMAIN D) : Between(T, w, D, lo, hi)
  BY DEF Carries
<1>2. Len(T) = Len(w) /\ Len(w) \in Nat \ {0}
  BY <1>1 DEF Between
<1>3. \A i \in 1..Len(w) : T[i] \in DOMAIN D /\ ~Before(T[i], lo) /\ Before(T[i], hi)
  BY <1>1, <1>2 DEF Between
<1>4. \A x, y, z \in Places : Before(x, y) /\ Before(y, z) => Before(x, z)
  BY DEF Before, Places
<1>5. 1 \in 1..Len(w)
  BY <1>2
<1>6. T[1] \in Places /\ lo \in Places
  BY <1>3, <1>5
<1>7. Before(lo, hi) /\ ~Before(lo, lo)
  <2>1. T[1] = lo \/ Before(lo, T[1])
    BY <1>3, <1>5, <1>6, InTurn
  <2>2. ~Before(lo, lo)
    BY <1>6 DEF Before, Places
  <2> QED
    BY <1>3, <1>4, <1>5, <1>6, <2>1, <2>2
<1>8. T[1] = lo
  <2>1. PICK i \in 1..Len(w) : T[i] = lo
    BY <1>1, <1>7 DEF Between
  <2>2. CASE i = 1
    BY <2>1, <2>2
  <2>3. CASE 1 < i
    BY <1>1, <1>3, <1>5, <2>1, <2>3 DEF Between
  <2> QED
    BY <1>2, <2>2, <2>3
<1>9. Head(w) \in D[lo]
  BY <1>1, <1>2, <1>5, <1>8 DEF Between
<1> DEFINE v == Tail(w)
           U == Tail(T)
<1>10. v \in Seq(Units) /\ Len(v) = Len(w) - 1 /\ \A i \in 1..Len(v) : v[i] = w[i + 1]
  BY <1>2, HeadTailProperties
<1>11. U \in Seq(DOMAIN D) /\ Len(U) = Len(v) /\ \A i \in 1..Len(v) : U[i] = T[i + 1]
  <2>1. T # <<>>
    BY <1>2
  <2>2. U \in Seq(DOMAIN D) /\ Len(U) = Len(T) - 1 /\ \A i \in 1..Len(U) : U[i] = T[i + 1]
    BY <2>1, HeadTailProperties
  <2> QED
    BY <1>2, <1>10, <2>2
<1> HIDE DEF U, v
<1>12. \A i \in 1..Len(v) : i + 1 \in 1..Len(w) /\ 1 < i + 1
  BY <1>2, <1>10
<1>13. Between(U, v, D, lo2, hi2)
  <2>1. \A i \in 1..Len(v) : v[i] \in D[U[i]]
    BY <1>1, <1>10, <1>11, <1>12 DEF Between
  <2>2. ASSUME NEW i \in 1..Len(v), NEW j \in 1..Len(v), i < j PROVE Before(U[i], U[j])
    <3>1. i + 1 < j + 1
      BY <1>2, <1>10, <2>2
    <3> QED
      BY <1>1, <1>11, <1>12, <3>1 DEF Between
  <2>3. ASSUME NEW x \in DOMAIN D
        PROVE  (~Before(x, lo2) /\ Before(x, hi2)) <=> \E i \in 1..Len(v) : U[i] = x
    <3>1. (~Before(x, lo2) /\ Before(x, hi2)) <=> (~Before(x, lo) /\ Before(x, hi)) /\ x # lo
      BY DEF Alike, Further
    <3>2. (~Before(x, lo) /\ Before(x, hi)) <=> \E i \in 1..Len(w) : T[i] = x
      BY <1>1 DEF Between
    <3>3. ASSUME NEW i \in 1..Len(v), U[i] = x PROVE x # lo /\ \E j \in 1..Len(w) : T[j] = x
      <4>1. T[i + 1] = x /\ i + 1 \in 1..Len(w)
        BY <1>11, <1>12, <3>3
      <4>2. Before(T[1], T[i + 1])
        BY <1>1, <1>5, <1>12 DEF Between
      <4> QED
        BY <1>7, <1>8, <4>1, <4>2
    <3>4. ASSUME NEW j \in 1..Len(w), T[j] = x, x # lo PROVE \E i \in 1..Len(v) : U[i] = x
      <4>1. j # 1
        BY <1>8, <3>4
      <4>2. j - 1 \in 1..Len(v) /\ (j - 1) + 1 = j
        BY <1>2, <1>10, <4>1
      <4>3. U[j - 1] = x
        BY <1>11, <3>4, <4>2
      <4> QED
        BY <4>2, <4>3
    <3> QED
      BY <3>1, <3>2, <3>3, <3>4
  <2> QED
    BY <1>11, <2>1, <2>2, <2>3 DEF Between
<1>14. \A x \in DOMAIN D : Before(x, lo2) => Before(x, hi2)
  BY <1>7 DEF Carries, Alike, Further
<1> QED
  BY <1>9, <1>11, <1>13, <1>14 DEF Carries, v

\* Nothing is left when the receiver is past everything.
LEMMA AllReceived ==
    ASSUME NEW D, NEW w \in Seq(Units), NEW lo, NEW hi, Carries(w, D, lo, hi),
           \A x \in DOMAIN D : Before(x, lo)
    PROVE  w = <<>>
<1>1. PICK T \in Seq(DOMAIN D) : Between(T, w, D, lo, hi)
  BY DEF Carries
<1>2. SUFFICES ASSUME w # <<>> PROVE FALSE
  OBVIOUS
<1>3. Len(T) = Len(w) /\ 1 \in 1..Len(w)
  BY <1>1, <1>2 DEF Between
<1>4. T[1] \in DOMAIN D
  BY <1>3
<1> QED
  BY <1>1, <1>3, <1>4 DEF Between
-----------------------------------------------------------------------------
(* What operations consist of.                                             *)

PairSet == [to : Parties \cup {NoParty}, from : Parties \cup {NoParty}]

LEMMA TheParties ==
    N \in Nat \ {0} /\ Parties = 0..(N - 1) /\ NoParty = N /\ NoParty \notin Parties
  BY TransportAssumption DEF Parties, NoParty

LEMMA Wraps == \A a \in Nat : a < N + N => a % N = IF a < N THEN a ELSE a - N
<1> SUFFICES ASSUME NEW a \in Nat, a < N + N PROVE a % N = IF a < N THEN a ELSE a - N
  OBVIOUS
<1>1. N \in Nat \ {0}
  BY TheParties
<1>2. CASE a < N
  BY <1>1, <1>2
<1>3. CASE ~(a < N)
  BY <1>1, <1>3
<1> QED
  BY <1>2, <1>3

\* Counting by an offset leads to another party, and back to where one has come from.
LEMMA Around ==
    ASSUME NEW p \in Parties, NEW i \in Offsets
    PROVE  /\ N - i \in Offsets
           /\ Pos(p, i) = IF p + i < N THEN p + i ELSE p + i - N
           /\ Pos(p, i) \in Parties /\ Pos(p, i) # p /\ Pos(Pos(p, i), N - i) = p
           /\ Pos(p, N - i) \in Parties /\ Pos(p, N - i) # p /\ Pos(Pos(p, N - i), i) = p
<1>1. N \in Nat \ {0} /\ p \in 0..(N - 1) /\ i \in 1..(N - 1)
  BY TheParties DEF Offsets
<1>2. \A a \in Nat : a < N + N => a % N = IF a < N THEN a ELSE a - N
  BY Wraps
<1>3. Pos(p, i) = IF p + i < N THEN p + i ELSE p + i - N
  BY <1>1, <1>2 DEF Pos
<1>4. Pos(p, N - i) = IF p < i THEN p + (N - i) ELSE p - i
  BY <1>1, <1>2 DEF Pos
<1>5. Pos(Pos(p, i), N - i) = p
  <2>1. Pos(p, i) + (N - i) = p \/ Pos(p, i) + (N - i) = p + N
    BY <1>1, <1>3
  <2>2. p % N = p /\ (p + N) % N = p
    <3>1. p \in Nat /\ p < N /\ p + N \in Nat /\ p + N < N + N /\ ~(p + N < N)
      BY <1>1
    <3> QED
      BY <1>1, <1>2, <3>1
  <2> QED
    BY <2>1, <2>2 DEF Pos
<1>6. Pos(Pos(p, N - i), i) = p
  <2>1. Pos(p, N - i) + i = p \/ Pos(p, N - i) + i = p + N
    BY <1>1, <1>4
  <2>2. p % N = p /\ (p + N) % N = p
    <3>1. p \in Nat /\ p < N /\ p + N \in Nat /\ p + N < N + N /\ ~(p + N < N)
      BY <1>1
    <3> QED
      BY <1>1, <1>2, <3>1
  <2> QED
    BY <2>1, <2>2 DEF Pos
<1> QED
  BY <1>1, <1>3, <1>4, <1>5, <1>6, TheParties DEF Offsets

\* Two offsets lead to two parties, and every other party is at some offset.
LEMMA AllAround ==
    ASSUME NEW p \in Parties
    PROVE  /\ \A i, j \in Offsets : Pos(p, i) = Pos(p, j) => i = j
           /\ \A i, j \in Offsets : Pos(p, N - i) = Pos(p, N - j) => i = j
           /\ \A q \in Parties \ {p} : \E i \in Offsets : Pos(p, i) = q
           /\ \A q \in Parties \ {p} : \E i \in Offsets : Pos(p, N - i) = q
<1>1. N \in Nat \ {0} /\ p \in 0..(N - 1) /\ Offsets = 1..(N - 1)
  BY TheParties DEF Offsets
<1>2. \A i \in Offsets : Pos(p, i) = IF p + i < N THEN p + i ELSE p + i - N
  BY Around
<1>3. \A i \in Offsets : N - i \in Offsets /\ N - (N - i) = i
  BY <1>1
<1>4. \A i, j \in Offsets : Pos(p, i) = Pos(p, j) => i = j
  BY <1>1, <1>2
<1>5. \A i, j \in Offsets : Pos(p, N - i) = Pos(p, N - j) => i = j
  <2>1. ASSUME NEW i \in Offsets, NEW j \in Offsets, Pos(p, N - i) = Pos(p, N - j) PROVE i = j
    <3>1. N - i = N - j
      BY <1>3, <1>4, <2>1
    <3> QED
      BY <1>1, <3>1
  <2> QED
    BY <2>1
<1>6. ASSUME NEW q \in Parties \ {p} PROVE \E i \in Offsets : Pos(p, i) = q
  <2>1. q \in 0..(N - 1) /\ q # p
    BY TheParties
  <2>2. CASE p < q
    <3>1. q - p \in Offsets /\ p + (q - p) = q /\ q < N
      BY <1>1, <2>1, <2>2
    <3> QED
      BY <1>2, <3>1
  <2>3. CASE q < p
    <3>1. q + N - p \in Offsets /\ p + (q + N - p) = q + N
      BY <1>1, <2>1, <2>3
    <3>2. PICK i \in Offsets : p + i = q + N
      BY <3>1
    <3>3. ~(p + i < N) /\ p + i - N = q
      BY <1>1, <2>1, <3>2
    <3>4. Pos(p, i) = q
      BY <1>2, <3>3
    <3> QED
      BY <3>4
  <2> QED
    BY <1>1, <2>1, <2>2, <2>3
<1>7. ASSUME NEW q \in Parties \ {p} PROVE \E i \in Offsets : Pos(p, N - i) = q
  <2>1. PICK j \in Offsets : Pos(p, j) = q
    BY <1>6
  <2>2. N - j \in Offsets /\ N - (N - j) = j
    BY <1>3
  <2> QED
    BY <2>1, <2>2
<1> QED
  BY <1>4, <1>5, <1>6, <1>7

\* The kinds of operations and what comes with them.
LEMMA Kind ==
    ASSUME NEW op \in Operations
    PROVE  /\ op.size \in [Parties -> Nat]
           /\ op.kind \in {"exchange", "pass_around", "send_receive_all", "partial_broadcast"}
           /\ op.kind = "exchange" => op.other \in [Parties -> 0..N]
           /\ op.kind = "pass_around" => op.offset \in Offsets
           /\ Same(op) => op.room \in [Parties -> Nat]
           /\ op.kind = "send_receive_all" => op.channels \subseteq Parties \X Parties
           /\ op.kind = "partial_broadcast" =>
                  op.senders \in [Parties -> SUBSET Parties]
                  /\ op.receivers \in [Parties -> SUBSET Parties]
  BY DEF Operations, Same

\* Which operations there are, and that they match.
Program == program \in DOMAIN Programs

LEMMA TheOps ==
    ASSUME Program
    PROVE  /\ Ops \in Seq(Operations)
           /\ \A k \in 1..Len(Ops) : Ops[k] \in Operations
           /\ \A k \in 1..Len(Ops) : k \in DOMAIN Programs[program]
<1>1. Programs \in Seq(Seq(Operations))
  BY TransportAssumption
<1>2. Ops \in Seq(Operations)
  BY <1>1 DEF Program, Ops
<1> QED
  BY <1>2 DEF Ops

LEMMA Match ==
    ASSUME Program, NEW k \in 1..Len(Ops)
    PROVE  /\ Ops[k].kind = "exchange" =>
                \A p \in Parties : Ops[k].other[p] # NoParty =>
                    Ops[k].other[p] # p /\ Ops[k].other[Ops[k].other[p]] = p
           /\ Ops[k].kind = "partial_broadcast" =>
                \A p, q \in Parties : p # q =>
                    (q \in Ops[k].senders[p] <=> p \in Ops[k].receivers[q])
  BY MatchingAssumption, TheOps DEF Program, Ops

\* The plans that are looked up are those of the operations.
LEMMA Looked ==
    ASSUME Program, NEW k \in 1..Len(Ops), NEW p \in Parties
    PROVE  /\ AllExchanges[program][k][p] = PlanExchangers(Ops[k], p)
           /\ AllRequests[program][k][p] = PlanThreads(Ops[k], p)
<1>1. program \in DOMAIN Programs /\ k \in DOMAIN Programs[program]
  BY TheOps DEF Program
<1>2. AllExchanges[program][k][p] = PlanExchangers(Programs[program][k], p)
  BY <1>1 DEF AllExchanges, Plans
<1>3. AllRequests[program][k][p] = PlanThreads(Programs[program][k], p)
  BY <1>1 DEF AllRequests, Plans
<1> QED
  BY <1>2, <1>3 DEF Ops
-----------------------------------------------------------------------------
(* What the plans are made of.                                             *)

LEMMA PairIn ==
    ASSUME NEW a \in Parties \cup {NoParty}, NEW b \in Parties \cup {NoParty}
    PROVE  /\ Pair(a, b) \in PairSet
           /\ \A d \in Directions : Peer(Pair(a, b), d) = IF d = "send" THEN a ELSE b
  BY DEF Pair, Peer, PairSet

\* The pairs of a stage of Exchangers are with different parties.
Distinct(pairs) ==
    \A i, j \in DOMAIN pairs, d \in Directions :
        Peer(pairs[i], d) = Peer(pairs[j], d) /\ Peer(pairs[i], d) # NoParty => i = j
Among(R, q, d) == \E i \in DOMAIN R : Peer(R[i], d) = q
Others(p, pair) == \A d \in Directions : Peer(pair, d) # p

\* Those of a loop over all offsets, the receiving ones with or against the direction.
Against(p, A, B) ==
    [i \in Offsets |-> Pair(If(Pos(p, i) \in A, Pos(p, i)), If(Pos(p, N - i) \in B, Pos(p, N - i)))]
Along(p, A, B) ==
    [i \in Offsets |-> Pair(If(Pos(p, i) \in A, Pos(p, i)), If(Pos(p, i) \in B, Pos(p, i)))]

LEMMA Loop ==
    ASSUME NEW p \in Parties, NEW A, NEW B, NEW pairs \in {Against(p, A, B), Along(p, A, B)}
    PROVE  /\ pairs \in Seq(PairSet) /\ Len(pairs) = N - 1
           /\ Distinct(pairs)
           /\ \A q \in Parties : (Among(pairs, q, "send") <=> q # p /\ q \in A)
                                 /\ (Among(pairs, q, "receive") <=> q # p /\ q \in B)
           /\ \A i \in DOMAIN pairs : Others(p, pairs[i])
<1>1. N \in Nat \ {0} /\ Offsets = 1..(N - 1) /\ NoParty \notin Parties
  BY TheParties DEF Offsets
<1>2. \A i \in Offsets : /\ Pos(p, i) \in Parties /\ Pos(p, i) # p
                         /\ Pos(p, N - i) \in Parties /\ Pos(p, N - i) # p
  BY Around
<1> DEFINE from(i) == Peer(pairs[i], "receive")
           to(i) == Peer(pairs[i], "send")
<1>3. ASSUME NEW i \in Offsets
      PROVE  /\ pairs[i] \in PairSet
             /\ to(i) = If(Pos(p, i) \in A, Pos(p, i))
             /\ \/ \A j \in Offsets : from(j) = If(Pos(p, N - j) \in B, Pos(p, N - j))
                \/ \A j \in Offsets : from(j) = If(Pos(p, j) \in B, Pos(p, j))
  <2>1. CASE pairs = Against(p, A, B)
    <3>1. \A j \in Offsets : /\ If(Pos(p, j) \in A, Pos(p, j)) \in Parties \cup {NoParty}
                             /\ If(Pos(p, N - j) \in B, Pos(p, N - j)) \in Parties \cup {NoParty}
      BY <1>2 DEF If
    <3>2. \A j \in Offsets : pairs[j] = Pair(If(Pos(p, j) \in A, Pos(p, j)),
                                            If(Pos(p, N - j) \in B, Pos(p, N - j)))
      BY <2>1 DEF Against
    <3>3. \A j \in Offsets : /\ pairs[j] \in PairSet
                             /\ to(j) = If(Pos(p, j) \in A, Pos(p, j))
                             /\ from(j) = If(Pos(p, N - j) \in B, Pos(p, N - j))
      BY <3>1, <3>2, PairIn DEF Directions
    <3> QED
      BY <3>3
  <2>2. CASE pairs = Along(p, A, B)
    <3>1. \A j \in Offsets : /\ If(Pos(p, j) \in A, Pos(p, j)) \in Parties \cup {NoParty}
                             /\ If(Pos(p, j) \in B, Pos(p, j)) \in Parties \cup {NoParty}
      BY <1>2 DEF If
    <3>2. \A j \in Offsets : pairs[j] = Pair(If(Pos(p, j) \in A, Pos(p, j)),
                                            If(Pos(p, j) \in B, Pos(p, j)))
      BY <2>2 DEF Along
    <3>3. \A j \in Offsets : /\ pairs[j] \in PairSet
                             /\ to(j) = If(Pos(p, j) \in A, Pos(p, j))
                             /\ from(j) = If(Pos(p, j) \in B, Pos(p, j))
      BY <3>1, <3>2, PairIn DEF Directions
    <3> QED
      BY <3>3
  <2> QED
    BY <2>1, <2>2
<1>4. DOMAIN pairs = Offsets /\ pairs = [i \in Offsets |-> pairs[i]]
  BY DEF Against, Along
<1>5. pairs \in Seq(PairSet) /\ Len(pairs) = N - 1
  <2>1. pairs \in [1..(N - 1) -> PairSet] /\ N - 1 \in Nat
    BY <1>1, <1>3, <1>4
  <2> QED
    BY <2>1
<1> HIDE DEF from, to
<1>6. \A i, j \in Offsets : to(i) = to(j) /\ to(i) # NoParty => i = j
  BY <1>3, AllAround DEF If
<1>7. \A i, j \in Offsets : from(i) = from(j) /\ from(i) # NoParty => i = j
  BY <1>3, AllAround DEF If
<1>8. Distinct(pairs)
  BY <1>4, <1>6, <1>7 DEF Distinct, Directions, from, to
<1>9. ASSUME NEW q \in Parties PROVE (\E i \in Offsets : to(i) = q) <=> q # p /\ q \in A
  <2>1. ASSUME NEW i \in Offsets, to(i) = q PROVE q # p /\ q \in A
    BY <1>1, <1>2, <1>3, <2>1 DEF If
  <2>2. ASSUME q # p, q \in A PROVE \E i \in Offsets : to(i) = q
    <3>1. PICK i \in Offsets : Pos(p, i) = q
      BY <2>2, AllAround
    <3> QED
      BY <1>3, <2>2, <3>1 DEF If
  <2> QED
    BY <2>1, <2>2
<1>10. ASSUME NEW q \in Parties PROVE (\E i \in Offsets : from(i) = q) <=> q # p /\ q \in B
  <2>1. ASSUME NEW i \in Offsets, from(i) = q PROVE q # p /\ q \in B
    BY <1>1, <1>2, <1>3, <2>1 DEF If
  <2>2. ASSUME q # p, q \in B PROVE \E i \in Offsets : from(i) = q
    <3>1. PICK i \in Offsets : Pos(p, i) = q
      BY <2>2, AllAround
    <3>2. PICK j \in Offsets : Pos(p, N - j) = q
      BY <2>2, AllAround
    <3> QED
      BY <1>3, <2>2, <3>1, <3>2 DEF If
  <2> QED
    BY <2>1, <2>2
<1>11. \A i \in Offsets : to(i) # p /\ from(i) # p
  BY <1>1, <1>2, <1>3 DEF If
<1> QED
  BY <1>4, <1>5, <1>8, <1>9, <1>10, <1>11 DEF Among, Others, Directions, from, to

\* Whom a party sends to and receives from in an operation, with threads or without.
To(op, p, q, byThreads) ==
    CASE op.kind = "exchange" -> op.other[p] = q
      [] op.kind = "pass_around" -> Pos(p, op.offset) = q
      [] op.kind = "send_receive_all" -> q # p /\ <<p, q>> \in op.channels
      [] op.kind = "partial_broadcast" ->
           q # p /\ q \in (IF byThreads THEN op.receivers[p] ELSE op.senders[p])
From(op, p, q, byThreads) ==
    CASE op.kind = "exchange" -> op.other[p] = q
      [] op.kind = "pass_around" -> Pos(q, op.offset) = p
      [] op.kind = "send_receive_all" -> q # p /\ <<q, p>> \in op.channels
      [] op.kind = "partial_broadcast" ->
           q # p /\ q \in (IF byThreads THEN op.senders[p] ELSE op.receivers[p])

Staged(E, p) ==
    /\ E \in Seq(Seq(PairSet))
    /\ \A i \in DOMAIN E : /\ E[i] # <<>>
                           /\ \A j \in DOMAIN E[i] : Others(p, E[i][j])
    /\ \A i, h \in DOMAIN E : \A j \in DOMAIN E[i], g \in DOMAIN E[h], d \in Directions :
           Peer(E[i][j], d) = Peer(E[h][g], d) /\ Peer(E[i][j], d) # NoParty => i = h /\ j = g
With(E, q, d) == \E i \in DOMAIN E : \E j \in DOMAIN E[i] : Peer(E[i][j], d) = q

\* A plan with one stage.
LEMMA OneStage ==
    ASSUME NEW p, NEW R \in Seq(PairSet), R # <<>>, Distinct(R),
           \A i \in DOMAIN R : Others(p, R[i])
    PROVE  Staged(<<R>>, p) /\ \A q, d : With(<<R>>, q, d) <=> Among(R, q, d)
<1> DEFINE E == <<R>>
<1>1. E \in Seq(Seq(PairSet)) /\ DOMAIN E = {1} /\ E[1] = R
  OBVIOUS
<1> HIDE DEF E
<1>2. Staged(E, p)
  BY <1>1 DEF Staged, Distinct
<1>3. \A q, d : With(E, q, d) <=> Among(R, q, d)
  BY <1>1 DEF With, Among
<1> QED
  BY <1>2, <1>3 DEF E

\* A plan with one pair.
LEMMA OnePair ==
    ASSUME NEW p \in Parties, NEW a \in Parties \ {p}, NEW b \in Parties \ {p}
    PROVE  LET R == <<Pair(a, b)>>
           IN /\ R \in Seq(PairSet) /\ R # <<>> /\ Len(R) = 1 /\ R[1] = Pair(a, b) /\ Distinct(R)
              /\ \A i \in DOMAIN R : Others(p, R[i])
              /\ \A q \in Parties : Among(R, q, "send") <=> a = q
              /\ \A q \in Parties : Among(R, q, "receive") <=> b = q
<1> DEFINE R == <<Pair(a, b)>>
<1>1. Pair(a, b) \in PairSet /\ Peer(Pair(a, b), "send") = a /\ Peer(Pair(a, b), "receive") = b
  BY PairIn DEF Directions
<1>2. R \in Seq(PairSet) /\ R # <<>> /\ DOMAIN R = {1} /\ R[1] = Pair(a, b) /\ Len(R) = 1
  BY <1>1
<1> HIDE DEF R
<1>3. Distinct(R)
  BY <1>2 DEF Distinct
<1>4. \A i \in DOMAIN R : Others(p, R[i])
  BY <1>1, <1>2 DEF Others, Directions
<1>5. \A q : (Among(R, q, "send") <=> a = q) /\ (Among(R, q, "receive") <=> b = q)
  BY <1>1, <1>2 DEF Among
<1> QED
  BY <1>2, <1>3, <1>4, <1>5 DEF R

\* A plan with a stage for every offset.
LEMMA StageEach ==
    ASSUME NEW p, NEW R \in Seq(PairSet), Distinct(R), \A i \in DOMAIN R : Others(p, R[i]),
           NEW E, E = [i \in DOMAIN R |-> <<R[i]>>]
    PROVE  Staged(E, p) /\ \A q, d : With(E, q, d) <=> Among(R, q, d)
<1>1. DOMAIN E = 1..Len(R) /\ Len(R) \in Nat /\ DOMAIN R = 1..Len(R)
  OBVIOUS
<1>2. \A i \in 1..Len(R) : R[i] \in PairSet
  OBVIOUS
<1>3. \A i \in 1..Len(R) :
          /\ E[i] = <<R[i]>> /\ E[i] \in Seq(PairSet) /\ E[i] # <<>>
          /\ DOMAIN E[i] = {1} /\ E[i][1] = R[i]
  BY <1>1, <1>2
<1>4. E \in Seq(Seq(PairSet))
  BY <1>1, <1>3, IsASeq
<1>5. Staged(E, p)
  BY <1>1, <1>3, <1>4 DEF Staged, Distinct
<1>6. ASSUME NEW q, NEW d PROVE With(E, q, d) <=> Among(R, q, d)
  <2>1. ASSUME NEW i \in 1..Len(R), Peer(R[i], d) = q PROVE With(E, q, d)
    <3>1. i \in DOMAIN E /\ 1 \in DOMAIN E[i] /\ Peer(E[i][1], d) = q
      BY <1>1, <1>3, <2>1
    <3> QED
      BY <3>1 DEF With
  <2>2. ASSUME NEW i \in DOMAIN E, NEW j \in DOMAIN E[i], Peer(E[i][j], d) = q
        PROVE  Among(R, q, d)
    <3>1. i \in DOMAIN R /\ Peer(R[i], d) = q
      BY <1>1, <1>3, <2>2
    <3> QED
      BY <3>1 DEF Among
  <2> QED
    BY <1>1, <2>1, <2>2 DEF With, Among
<1> QED
  BY <1>5, <1>6

LEMMA NoStage ==
    ASSUME NEW p PROVE Staged(<<>>, p) /\ \A q, d : ~With(<<>>, q, d) /\ ~Among(<<>>, q, d)
  BY DEF Staged, With, Among

\* Who is at an offset is counted back to by the same offset.
LEMMA Opposite ==
    ASSUME NEW p \in Parties, NEW q \in Parties, NEW i \in Offsets
    PROVE  Pos(p, N - i) = q <=> Pos(q, i) = p
  BY Around

\* What is to be known of the plan of an operation for Exchangers.
LEMMA ExchangersPlan ==
    ASSUME NEW op \in Operations, NEW p \in Parties,
           op.kind = "exchange" => op.other[p] # p
    PROVE  LET E == PlanExchangers(op, p)
           IN /\ Staged(E, p)
              /\ \A q \in Parties : /\ With(E, q, "send") <=> To(op, p, q, FALSE)
                                    /\ With(E, q, "receive") <=> From(op, p, q, FALSE)
              /\ Same(op) => E = <<>> \/ \E a, b \in Parties : E = <<<<Pair(a, b)>>>>
<1> DEFINE E == PlanExchangers(op, p)
<1>1. N \in Nat \ {0} /\ Offsets = 1..(N - 1) /\ NoParty \notin Parties /\ NoParty = N /\ Parties = 0..(N - 1)
  BY TheParties DEF Offsets
<1>2. CASE op.kind = "exchange"
  <2>1. op.other[p] \in 0..N /\ op.other[p] # p
    BY <1>2, Kind
  <2>2. CASE op.other[p] = NoParty
    <3>1. E = <<>>
      BY <1>2, <2>2 DEF PlanExchangers
    <3>2. \A q \in Parties : ~To(op, p, q, FALSE) /\ ~From(op, p, q, FALSE)
      BY <1>1, <1>2, <2>2 DEF To, From
    <3> QED
      BY <3>1, <3>2, NoStage
  <2>3. CASE op.other[p] # NoParty
    <3>1. op.other[p] \in Parties \ {p}
      BY <1>1, <2>1, <2>3
    <3> DEFINE R == <<Pair(op.other[p], op.other[p])>>
    <3>2. E = <<R>>
      BY <1>2, <2>3 DEF PlanExchangers
    <3>3. /\ R \in Seq(PairSet) /\ R # <<>> /\ Distinct(R) /\ \A i \in DOMAIN R : Others(p, R[i])
          /\ \A q \in Parties : /\ Among(R, q, "send") <=> op.other[p] = q
                                /\ Among(R, q, "receive") <=> op.other[p] = q
      BY <3>1, OnePair
    <3>4. \A q \in Parties : /\ To(op, p, q, FALSE) <=> op.other[p] = q
                             /\ From(op, p, q, FALSE) <=> op.other[p] = q
      BY <1>2 DEF To, From
    <3>5. \E a, b \in Parties : E = <<<<Pair(a, b)>>>>
      BY <3>1, <3>2
    <3> HIDE DEF R, E
    <3>6. Staged(E, p) /\ \A q, d : With(E, q, d) <=> Among(R, q, d)
      BY <3>2, <3>3, OneStage
    <3> QED
      BY <3>3, <3>4, <3>5, <3>6 DEF E
  <2> QED
    BY <2>2, <2>3
<1>3. CASE op.kind = "pass_around"
  <2>1. op.offset \in Offsets
    BY <1>3, Kind
  <2> DEFINE a == Pos(p, op.offset)
             b == Pos(p, N - op.offset)
             R == <<Pair(a, b)>>
  <2>2. a \in Parties \ {p} /\ b \in Parties \ {p}
    BY <2>1, Around
  <2>3. E = <<R>>
    BY <1>3 DEF PlanExchangers
  <2>4. \A q \in Parties : (To(op, p, q, FALSE) <=> a = q) /\ (From(op, p, q, FALSE) <=> b = q)
    BY <1>3, <2>1, Opposite DEF To, From
  <2>5. \E x, y \in Parties : E = <<<<Pair(x, y)>>>>
    BY <2>2, <2>3
  <2>6. /\ R \in Seq(PairSet) /\ R # <<>> /\ Distinct(R) /\ \A i \in DOMAIN R : Others(p, R[i])
        /\ \A q \in Parties : (Among(R, q, "send") <=> a = q) /\ (Among(R, q, "receive") <=> b = q)
    BY <2>2, OnePair
  <2> HIDE DEF a, b, R, E
  <2>7. Staged(E, p) /\ \A q, d : With(E, q, d) <=> Among(R, q, d)
    BY <2>3, <2>6, OneStage
  <2> QED
    BY <2>4, <2>5, <2>6, <2>7 DEF E
<1>4. CASE op.kind = "send_receive_all"
  <2> DEFINE A == {q \in Parties : <<p, q>> \in op.channels}
             B == {q \in Parties : <<q, p>> \in op.channels}
             R == Against(p, A, B)
  <2>1. \A i \in Offsets : Pos(p, i) \in Parties /\ Pos(p, N - i) \in Parties
    BY Around
  <2>2. \A i \in Offsets : R[i] = Pair(If(<<p, Pos(p, i)>> \in op.channels, Pos(p, i)),
                                      If(<<Pos(p, N - i), p>> \in op.channels, Pos(p, N - i)))
    BY <2>1 DEF Against
  <2>3. DOMAIN R = Offsets
    BY DEF Against
  <2>4. /\ R \in Seq(PairSet) /\ Distinct(R) /\ \A i \in DOMAIN R : Others(p, R[i])
        /\ \A q \in Parties : (Among(R, q, "send") <=> q # p /\ q \in A)
                              /\ (Among(R, q, "receive") <=> q # p /\ q \in B)
    <3>1. R \in {Against(p, A, B), Along(p, A, B)}
      OBVIOUS
    <3> HIDE DEF A, B, R
    <3> QED
      BY <3>1, Loop
  <2>5. \A q \in Parties : /\ To(op, p, q, FALSE) <=> q # p /\ q \in A
                           /\ From(op, p, q, FALSE) <=> q # p /\ q \in B
    BY <1>4 DEF To, From
  <2> HIDE DEF A, B, R
  <2>6. E = [i \in DOMAIN R |-> <<R[i]>>]
    BY <1>4, <2>2, <2>3 DEF PlanExchangers
  <2>7. Staged(E, p) /\ \A q, d : With(E, q, d) <=> Among(R, q, d)
    BY <2>4, <2>6, StageEach
  <2>8. ~Same(op)
    BY <1>4 DEF Same
  <2> HIDE DEF E
  <2> QED
    BY <2>4, <2>5, <2>7, <2>8 DEF E
<1>5. CASE op.kind = "partial_broadcast"
  <2> DEFINE A == op.senders[p]
             B == op.receivers[p]
             R == PartialBroadcast(op, p)
  <2>1. R \in {Against(p, A, B), Along(p, A, B)}
    BY DEF PartialBroadcast, Against
  <2> HIDE DEF A, B, R
  <2>2. /\ R \in Seq(PairSet) /\ Len(R) = N - 1
        /\ Distinct(R) /\ \A i \in DOMAIN R : Others(p, R[i])
        /\ \A q \in Parties : (Among(R, q, "send") <=> q # p /\ q \in A)
                              /\ (Among(R, q, "receive") <=> q # p /\ q \in B)
    BY <2>1, Loop
  <2>3. \A q \in Parties : /\ To(op, p, q, FALSE) <=> q # p /\ q \in A
                           /\ From(op, p, q, FALSE) <=> q # p /\ q \in B
    BY <1>5 DEF To, From, A, B
  <2>4. ~Same(op)
    BY <1>5 DEF Same
  <2>5. CASE N = 1
    <3>1. E = <<>>
      BY <1>5, <2>5 DEF PlanExchangers
    <3>2. \A q \in Parties : q = p
      BY <1>1, <2>5
    <3> HIDE DEF E
    <3> QED
      BY <2>3, <2>4, <3>1, <3>2, NoStage DEF E
  <2>6. CASE N # 1
    <3>1. E = <<R>>
      BY <1>5, <2>6 DEF PlanExchangers, R
    <3>2. R # <<>>
      BY <1>1, <2>2, <2>6
    <3> HIDE DEF E
    <3>3. Staged(E, p) /\ \A q, d : With(E, q, d) <=> Among(R, q, d)
      BY <2>2, <3>1, <3>2, OneStage
    <3> QED
      BY <2>2, <2>3, <2>4, <3>3 DEF E
  <2> QED
    BY <2>5, <2>6
<1> QED
  BY <1>2, <1>3, <1>4, <1>5, Kind

\* And of the one for threads.
LEMMA ThreadsPlan ==
    ASSUME NEW op \in Operations, NEW p \in Parties,
           op.kind = "exchange" => op.other[p] # p
    PROVE  LET R == PlanThreads(op, p)
           IN /\ R \in Seq(PairSet) /\ Distinct(R) /\ \A i \in DOMAIN R : Others(p, R[i])
              /\ \A q \in Parties : /\ Among(R, q, "send") <=> To(op, p, q, TRUE)
                                    /\ Among(R, q, "receive") <=> From(op, p, q, TRUE)
<1> DEFINE R == PlanThreads(op, p)
<1>1. N \in Nat \ {0} /\ Offsets = 1..(N - 1) /\ NoParty \notin Parties /\ NoParty = N /\ Parties = 0..(N - 1)
  BY TheParties DEF Offsets
<1>2. CASE op.kind = "exchange"
  <2>1. op.other[p] \in 0..N /\ op.other[p] # p
    BY <1>2, Kind
  <2>2. CASE op.other[p] = NoParty
    <3>1. R = <<>>
      BY <1>2, <2>2 DEF PlanExchangers, PlanThreads
    <3>2. \A q \in Parties : ~To(op, p, q, TRUE) /\ ~From(op, p, q, TRUE)
      BY <1>1, <1>2, <2>2 DEF To, From
    <3>3. Distinct(<<>>) /\ <<>> \in Seq(PairSet) /\ DOMAIN <<>> = {}
      BY DEF Distinct
    <3> HIDE DEF R
    <3> QED
      BY <3>1, <3>2, <3>3, NoStage DEF R
  <2>3. CASE op.other[p] # NoParty
    <3>1. op.other[p] \in Parties \ {p}
      BY <1>1, <2>1, <2>3
    <3>2. R = <<Pair(op.other[p], op.other[p])>>
      BY <1>2, <2>3 DEF PlanExchangers, PlanThreads
    <3> HIDE DEF R
    <3>3. /\ R \in Seq(PairSet) /\ Distinct(R) /\ \A i \in DOMAIN R : Others(p, R[i])
          /\ \A q \in Parties : /\ Among(R, q, "send") <=> op.other[p] = q
                                /\ Among(R, q, "receive") <=> op.other[p] = q
      BY <3>1, <3>2, OnePair
    <3>4. \A q \in Parties : /\ To(op, p, q, TRUE) <=> op.other[p] = q
                             /\ From(op, p, q, TRUE) <=> op.other[p] = q
      BY <1>2 DEF To, From
    <3> QED
      BY <3>3, <3>4 DEF R
  <2> QED
    BY <2>2, <2>3
<1>3. CASE op.kind = "pass_around"
  <2>1. op.offset \in Offsets
    BY <1>3, Kind
  <2> DEFINE a == Pos(p, op.offset)
             b == Pos(p, N - op.offset)
  <2>2. a \in Parties \ {p} /\ b \in Parties \ {p}
    BY <2>1, Around
  <2>3. R = <<Pair(a, b)>>
    BY <1>3 DEF PlanExchangers, PlanThreads
  <2>4. \A q \in Parties : (To(op, p, q, TRUE) <=> a = q) /\ (From(op, p, q, TRUE) <=> b = q)
    BY <1>3, <2>1, Opposite DEF To, From
  <2> HIDE DEF a, b, R
  <2>5. /\ R \in Seq(PairSet) /\ Distinct(R) /\ \A i \in DOMAIN R : Others(p, R[i])
        /\ \A q \in Parties : (Among(R, q, "send") <=> a = q) /\ (Among(R, q, "receive") <=> b = q)
    BY <2>2, <2>3, OnePair
  <2> QED
    BY <2>4, <2>5 DEF R
<1>4. CASE op.kind = "send_receive_all"
  <2> DEFINE A == {q \in Parties : <<p, q>> \in op.channels}
             B == {q \in Parties : <<q, p>> \in op.channels}
  <2>1. \A i \in Offsets : Pos(p, i) \in Parties
    BY Around
  <2>2. R = [i \in Offsets |-> Pair(If(<<p, Pos(p, i)>> \in op.channels, Pos(p, i)),
                                   If(<<Pos(p, i), p>> \in op.channels, Pos(p, i)))]
    BY <1>4 DEF PlanThreads
  <2>3. R \in {Against(p, A, B), Along(p, A, B)}
    BY <2>1, <2>2 DEF Along
  <2>4. \A q \in Parties : /\ To(op, p, q, TRUE) <=> q # p /\ q \in A
                           /\ From(op, p, q, TRUE) <=> q # p /\ q \in B
    BY <1>4 DEF To, From
  <2> HIDE DEF A, B, R
  <2>5. /\ R \in Seq(PairSet) /\ Distinct(R) /\ \A i \in DOMAIN R : Others(p, R[i])
        /\ \A q \in Parties : (Among(R, q, "send") <=> q # p /\ q \in A)
                              /\ (Among(R, q, "receive") <=> q # p /\ q \in B)
    BY <2>3, Loop
  <2> QED
    BY <2>4, <2>5 DEF R
<1>5. CASE op.kind = "partial_broadcast"
  <2> DEFINE A == op.receivers[p]
             B == op.senders[p]
  <2>1. R \in {Against(p, A, B), Along(p, A, B)}
    BY <1>5 DEF PlanThreads, Along
  <2>2. \A q \in Parties : /\ To(op, p, q, TRUE) <=> q # p /\ q \in A
                           /\ From(op, p, q, TRUE) <=> q # p /\ q \in B
    BY <1>5 DEF To, From
  <2> HIDE DEF A, B, R
  <2>3. /\ R \in Seq(PairSet) /\ Distinct(R) /\ \A i \in DOMAIN R : Others(p, R[i])
        /\ \A q \in Parties : (Among(R, q, "send") <=> q # p /\ q \in A)
                              /\ (Among(R, q, "receive") <=> q # p /\ q \in B)
    BY <2>1, Loop
  <2> QED
    BY <2>2, <2>3 DEF R
<1> QED
  BY <1>2, <1>3, <1>4, <1>5, Kind
-----------------------------------------------------------------------------
(* Who uses an operation.                                                  *)

LEMMA UsesPlan ==
    ASSUME Program, NEW k \in 1..Len(Ops), NEW p \in Parties
    PROVE  /\ Ops[k] \in Operations
           /\ Ops[k].kind = "exchange" => Ops[k].other[p] # p
           /\ \A q, d : Uses(k, p, q, d) <=> IF ByThreads(Ops[k]) THEN Among(PlanThreads(Ops[k], p), q, d)
                                             ELSE With(PlanExchangers(Ops[k], p), q, d)
<1>1. Ops[k] \in Operations
  BY TheOps
<1>2. Ops[k].kind = "exchange" => Ops[k].other[p] # p
  BY Match, TheParties
<1>3. /\ AllExchanges[program][k][p] = PlanExchangers(Ops[k], p)
      /\ AllRequests[program][k][p] = PlanThreads(Ops[k], p)
  BY Looked
<1> QED
  BY <1>1, <1>2, <1>3 DEF Uses, Among, With

LEMMA UsesToFrom ==
    ASSUME Program, NEW k \in 1..Len(Ops), NEW p \in Parties, NEW q \in Parties
    PROVE  /\ Uses(k, p, q, "send") <=> To(Ops[k], p, q, ByThreads(Ops[k]))
           /\ Uses(k, p, q, "receive") <=> From(Ops[k], p, q, ByThreads(Ops[k]))
<1>1. CASE ByThreads(Ops[k])
  BY <1>1, UsesPlan, ThreadsPlan
<1>2. CASE ~ByThreads(Ops[k])
  <2>1. /\ With(PlanExchangers(Ops[k], p), q, "send") <=> To(Ops[k], p, q, FALSE)
        /\ With(PlanExchangers(Ops[k], p), q, "receive") <=> From(Ops[k], p, q, FALSE)
    BY UsesPlan, ExchangersPlan
  <2>2. ByThreads(Ops[k]) = FALSE
    BY <1>2 DEF ByThreads
  <2> QED
    BY <2>1, <2>2, UsesPlan
<1> QED
  BY <1>1, <1>2

\* Whom a party sends to expects it, and nobody sends to itself.
LEMMA Expected ==
    ASSUME Program, NEW k \in 1..Len(Ops), NEW p \in Parties, NEW q \in Parties
    PROVE  /\ Uses(k, p, q, "send") <=> Uses(k, q, p, "receive")
           /\ \A d \in Directions : Uses(k, p, q, d) => p # q
<1> DEFINE op == Ops[k]
<1>1. op \in Operations
  BY TheOps
<1>2. \A a \in Parties : op.kind = "pass_around" => Pos(a, op.offset) # a
  BY <1>1, Kind, Around
<1>3. \A a \in Parties : op.kind = "exchange" => op.other[a] # a
  BY UsesPlan
<1>4. ASSUME NEW B \in BOOLEAN PROVE To(op, p, q, B) <=> From(op, q, p, B)
  <2>1. CASE op.kind = "exchange"
    <3>1. \A a, b \in Parties : op.other[a] = b => op.other[b] = a
      BY <2>1, Match, TheParties
    <3> QED
      BY <2>1, <3>1 DEF To, From
  <2>2. CASE op.kind = "pass_around"
    BY <2>2 DEF To, From
  <2>3. CASE op.kind = "send_receive_all"
    BY <2>3 DEF To, From
  <2>4. CASE op.kind = "partial_broadcast"
    <3>1. \A a, b \in Parties : a # b => (b \in op.senders[a] <=> a \in op.receivers[b])
      BY <2>4, Match
    <3> QED
      BY <2>4, <3>1 DEF To, From
  <2> QED
    BY <1>1, <2>1, <2>2, <2>3, <2>4, Kind
<1>5. ASSUME NEW B \in BOOLEAN, To(op, p, q, B) \/ From(op, p, q, B) PROVE p # q
  BY <1>1, <1>2, <1>3, <1>5, Kind DEF To, From
<1>6. ByThreads(op) \in BOOLEAN
  BY DEF ByThreads
<1> QED
  BY <1>4, <1>5, <1>6, UsesToFrom DEF Directions
-----------------------------------------------------------------------------
(* What stays and what goes on with a step.                                *)

Fixed == kind' = kind /\ program' = program

LEMMA FixedOps ==
    ASSUME Fixed
    PROVE  /\ Ops' = Ops
           /\ \A op : ByThreads(op)' = ByThreads(op)
           /\ \A k, p, q, d : Uses(k, p, q, d)' = Uses(k, p, q, d)
           /\ \A s, p, q : Traffic(s, p, q)' = Traffic(s, p, q)
<1>1. Ops' = Ops
  BY DEF Fixed, Ops
<1>2. \A op : ByThreads(op)' = ByThreads(op)
  BY DEF Fixed, ByThreads
<1>3. \A k, p, q, d : Uses(k, p, q, d)' = Uses(k, p, q, d)
  BY <1>1, <1>2 DEF Fixed, Uses
<1>4. \A k, p, q : SocketOf(k, p, q)' = SocketOf(k, p, q)
  BY <1>1, <1>2 DEF SocketOf
<1>5. \A s, p, q : Slots(s, p, q)' = Slots(s, p, q)
  BY <1>1, <1>3, <1>4 DEF Slots
<1>6. \A x, p, q : Datum(x, p, q)' = Datum(x, p, q)
  BY <1>1 DEF Datum, Message, Content
<1>7. \A x, p, q : May(x, p, q)' = May(x, p, q)
  BY <1>1, <1>6 DEF May
<1> QED
  BY <1>1, <1>2, <1>3, <1>5, <1>7 DEF Traffic

LEMMA MayAt ==
    ASSUME Fixed, NEW p, at'[p] = at[p]
    PROVE  \A q, i : May(<<at[p], i>>, q, p)' = May(<<at[p], i>>, q, p)
<1>1. PICK k : k = at[p]
  OBVIOUS
<1>2. k = at'[p]
  BY <1>1
<1>3. \A q, i : Datum(<<k, i>>, q, p)' = Datum(<<k, i>>, q, p)
  BY FixedOps DEF Datum, Message, Content
<1>4. \A q, i : May(<<k, i>>, q, p)' = May(<<k, i>>, q, p)
  BY <1>3, FixedOps DEF May
<1> QED
  BY <1>1, <1>2, <1>4

\* A step that p has no part in.
Still(p) ==
    /\ Fixed
    /\ at'[p] = at[p] /\ phase'[p] = phase[p] /\ stage'[p] = stage[p] /\ made'[p] = made[p]
    /\ mem'[p] = mem[p] /\ tx'[p] = tx[p] /\ rx'[p] = rx[p] /\ len'[p] = len[p]
    /\ requested'[p] = requested[p] /\ finished'[p] = finished[p] /\ result'[p] = result[p]

LEMMA StillPlace ==
    ASSUME NEW p, Still(p)
    PROVE  /\ InOp(p)' = InOp(p) /\ (Op(p) = Op(p)') /\ Exchanges(p)' = Exchanges(p)
           /\ Requests(p)' = Requests(p) /\ Pairs(p)' = Pairs(p)
           /\ \A q, d : Moved(p, q, d)' = Moved(p, q, d)
           /\ \A q, d : Count(p, q, d)' = Count(p, q, d)
           /\ \A q, d : Position(p, q, d)' = Position(p, q, d)
           /\ \A q, d : Uses(at[p], p, q, d)' = Uses(at[p], p, q, d)
<1>1. /\ InOp(p)' = InOp(p) /\ Op(p)' = Op(p) /\ Exchanges(p)' = Exchanges(p)
      /\ Requests(p)' = Requests(p) /\ Pairs(p)' = Pairs(p)
  BY FixedOps DEF Still, Fixed, InOp, Op, Exchanges, Requests, Pairs
<1>2. \A q, d : Moved(p, q, d)' = Moved(p, q, d)
  BY DEF Still, Moved
<1>3. \A q, d : Done(p, q, d)' = Done(p, q, d)
  BY <1>1 DEF Still, Done
<1>4. \A q, d : Sum(at[p], p, q, d)' = Sum(at[p], p, q, d)
  BY FixedOps DEF Still, Sum
<1>5. \A q, d : Count(p, q, d)' = Count(p, q, d)
  BY <1>2, <1>3, <1>4 DEF Count
<1>6. \A q, d : Position(p, q, d)' = Position(p, q, d)
  BY <1>1, <1>5 DEF Position, Still
<1>7. \A q, d : Uses(at[p], p, q, d)' = Uses(at[p], p, q, d)
  BY FixedOps DEF Uses, Still, Fixed
<1> QED
  BY <1>1, <1>2, <1>5, <1>6, <1>7

LEMMA StillProper ==
    ASSUME NEW p, Still(p), Proper(p), InMemory(p)
    PROVE  Proper(p)' /\ InMemory(p)'
<1>1. Turn(p)'
  BY StillPlace, FixedOps DEF Proper, Turn, AtRest, Still
<1>2. WithExchangers(p)'
  BY StillPlace, FixedOps DEF Proper, WithExchangers, Sum, Still, Fixed
<1>3. Waits(p)' = Waits(p)
  BY StillPlace DEF Waits
<1>4. WithThreads(p)'
  <2>1. \A q, d : Waited(p, q, d)' = Waited(p, q, d)
    BY <1>3 DEF Waited, Still
  <2>2. \A q, d : AtRest(p, q, d)' = AtRest(p, q, d)
    BY StillPlace DEF AtRest, Still
  <2> QED
    <3>1. \A q, d : Stream(Op(p), p, q, d)' = Stream(Op(p), p, q, d)
      BY StillPlace DEF Stream, Source, Target
    <3>2. \A q, d : Sum(at[p], p, q, d)' = Sum(at[p], p, q, d)
      BY FixedOps DEF Still, Sum
    <3>3. \A q, d : Asked(p, q, d)' = Asked(p, q, d)
      BY <2>1, <3>1, <3>2, StillPlace DEF Asked, Still
    <3>4. \A q, d : Ready(p, q, d)' = Ready(p, q, d)
      BY <2>1, <3>1, StillPlace DEF Ready, Still
    <3>5. \A q, d : Through(p, q, d)' = Through(p, q, d)
      BY <2>1, <2>2, StillPlace DEF Through
    <3>6. ByThreads(Op(p))' = ByThreads(Op(p)) /\ phase'[p] = phase[p] /\ made'[p] = made[p]
      BY StillPlace DEF ByThreads, Still, Fixed
    <3>7. Len(Waits(p))' = Len(Waits(p)) /\ Requests(p)' = Requests(p)
      BY <1>3, StillPlace
    <3> QED
      BY <3>3, <3>4, <3>5, <3>6, <3>7 DEF Proper, WithThreads
<1>5. InMemory(p)'
  <2>1. ToSend(p)' = ToSend(p)
    <3>1. Same(Op(p))' = Same(Op(p))
      BY StillPlace DEF Same
    <3>2. \A q : Content(at[p], p, q)' = Content(at[p], p, q)
      BY FixedOps DEF Still, Content
    <3>3. \A i : Unit(at[p], p, p, i)' = Unit(at[p], p, p, i)
      BY DEF Still, Unit
    <3>4. mem[p]' = mem[p] /\ Op(p)' = Op(p)
      BY StillPlace DEF Still
    <3> QED
      BY <3>1, <3>2, <3>3, <3>4, StillPlace DEF ToSend
  <2>2. HasReceived(p)' = HasReceived(p)
    <3>1. \A q : Target(Op(p), p, q)' = Target(Op(p), p, q)
      BY StillPlace DEF Target
    <3>2. \A q, i : May(<<at[p], i>>, q, p)' = May(<<at[p], i>>, q, p)
      BY MayAt DEF Still
    <3>3. mem[p]' = mem[p] /\ len[p]' = len[p] /\ Op(p)' = Op(p)
      BY StillPlace DEF Still
    <3>4. \A q : Got(p, q)' = Got(p, q)
      BY <3>1, <3>2, <3>3, StillPlace DEF Got
    <3> QED
      BY <3>4, StillPlace DEF HasReceived
  <2> QED
    BY <2>1, <2>2, StillPlace DEF InMemory
<1> QED
  BY <1>1, <1>2, <1>4, <1>5 DEF Proper
-----------------------------------------------------------------------------
(* How far parties are, and what that means for the sockets.               *)

LEMMA Counting ==
    ASSUME Types, NEW p \in Parties, Proper(p), InOp(p)
    PROVE  /\ Program /\ at[p] \in 1..Len(Ops) /\ Op(p) = Ops[at[p]] /\ Op(p) \in Operations
           /\ \A q \in Parties : Op(p).size[q] \in Nat
           /\ \A q \in Parties, d \in Directions :
                  /\ Sum(at[p], p, q, d) \in Nat \ {0}
                  /\ Count(p, q, d) \in 0..Sum(at[p], p, q, d)
                  /\ Moved(p, q, d) \in Int
<1>1. Program /\ at[p] \in Nat
  BY DEF Types, Program
<1>2. at[p] \in 1..Len(Ops) /\ Op(p) = Ops[at[p]]
  <2>1. Len(Ops) \in Nat
    BY <1>1, TheOps
  <2> QED
    BY <1>1, <2>1 DEF Proper, Turn, Op
<1>3. Op(p) \in Operations
  BY <1>1, <1>2, TheOps
<1>4. \A q \in Parties : Op(p).size[q] \in Nat
  BY <1>3, Kind
<1>5. ASSUME NEW q \in Parties, NEW d \in Directions
      PROVE  /\ Sum(at[p], p, q, d) \in Nat \ {0}
             /\ Count(p, q, d) \in 0..Sum(at[p], p, q, d)
             /\ Moved(p, q, d) \in Int
  <2>1. Sum(at[p], p, q, d) \in Nat \ {0}
    BY <1>2, <1>4 DEF Sum
  <2>2. Moved(p, q, d) \in Int
    BY DEF Moved, Types
  <2>3. phase[p] \in ExchangerPhases \/ phase[p] = "wait"
    BY DEF Types, InOp, ExchangerPhases
  <2>4. CASE phase[p] \in ExchangerPhases
    <3>1. Moved(p, q, d) \in -1..Sum(at[p], p, q, d)
      BY <2>4 DEF Proper, WithExchangers
    <3> QED
      BY <2>1, <2>2, <3>1 DEF Count
  <2>5. CASE phase[p] = "wait"
    <3>1. Asked(p, q, d) \/ Ready(p, q, d) \/ Through(p, q, d)
      BY <2>5 DEF Proper, WithThreads
    <3>2. Moved(p, q, d) = -1 \/ Moved(p, q, d) \in 1..(Sum(at[p], p, q, d) - 1)
      BY <3>1 DEF Asked, Ready, Through, AtRest
    <3> QED
      BY <2>1, <2>2, <3>2 DEF Count
  <2> QED
    BY <2>1, <2>2, <2>3, <2>4, <2>5
<1> QED
  BY <1>1, <1>2, <1>3, <1>4, <1>5

LEMMA PositionPlace ==
    ASSUME Types, NEW p \in Parties, Proper(p), NEW q \in Parties, NEW d \in Directions
    PROVE  Position(p, q, d) \in Places
<1>1. at[p] \in Nat
  BY DEF Types
<1>2. CASE InOp(p)
  <2>1. Count(p, q, d) \in Nat
    <3>1. Sum(at[p], p, q, d) \in Nat /\ Count(p, q, d) \in 0..Sum(at[p], p, q, d)
      BY <1>2, Counting
    <3> QED
      BY <3>1
  <2> QED
    BY <1>1, <1>2, <2>1 DEF Position, Places
<1>3. CASE ~InOp(p)
  BY <1>1, <1>3 DEF Position, Places
<1> QED
  BY <1>2, <1>3

\* What is sent are units.
LEMMA TrafficIn ==
    ASSUME Program, NEW p \in Parties, NEW q \in Parties, NEW s, NEW x \in Slots(s, p, q)
    PROVE  /\ Slots(s, p, q) = DOMAIN Traffic(s, p, q) /\ Slots(s, p, q) \subseteq Places
           /\ Traffic(s, p, q)[x] = May(x, p, q) /\ May(x, p, q) \subseteq Units
           /\ Datum(x, p, q) \in Units /\ Datum(x, p, q) \in May(x, p, q)
<1>1. Slots(s, p, q) = DOMAIN Traffic(s, p, q) /\ Slots(s, p, q) \subseteq Places
  BY DEF Traffic, Slots, Places
<1>2. Traffic(s, p, q)[x] = May(x, p, q)
  BY DEF Traffic
<1>3. /\ x[1] \in Nat /\ x[1] \in 1..Len(Ops) /\ x[2] \in Nat
      /\ x[2] <= Ops[x[1]].size[p]
  BY DEF Slots
<1>4. Ops[x[1]] \in Operations /\ Ops[x[1]].size[p] \in Nat
  BY <1>3, TheOps, Kind
<1>5. N \in Nat /\ Parties = 0..(N - 1)
  BY TheParties
<1>6. Datum(x, p, q) \in Units
  <2>1. CASE x[2] = 0
    <3>1. Datum(x, p, q) = <<0, Ops[x[1]].size[p], 0, 0>>
      BY <2>1 DEF Datum, Header
    <3> QED
      BY <1>4, <3>1 DEF Units
  <2>2. CASE x[2] # 0
    <3> DEFINE y == Source(Ops[x[1]], p, q)[2]
    <3>1. x[2] \in 1..Ops[x[1]].size[p]
      BY <1>3, <1>4, <2>2
    <3>2. Message(x[1], p, q)[x[2]] = Unit(x[1], p, y, x[2])
      BY <3>1 DEF Message, Content
    <3>3. y \in Parties
      BY DEF Source
    <3> HIDE DEF y
    <3>4. Datum(x, p, q) = <<x[1], p, y, x[2]>>
      BY <2>2, <3>2 DEF Datum, Unit
    <3>5. x[1] \in Nat /\ x[2] \in Nat /\ y \in Nat /\ p \in Nat
      BY <1>3, <1>5, <3>3
    <3> QED
      BY <3>4, <3>5 DEF Units
  <2> QED
    BY <2>1, <2>2
<1>7. Garbage \in Units /\ May(x, p, q) \subseteq {Datum(x, p, q), Garbage}
      /\ Datum(x, p, q) \in May(x, p, q)
  BY DEF Garbage, Units, May
<1> QED
  BY <1>1, <1>2, <1>6, <1>7

\* An operation that does not use a connection is passed over.
Unused(k, s, p, q) ==
    k \notin 1..Len(Ops) \/ ~Uses(k, p, q, "send") \/ SocketOf(k, p, q) # s

LEMMA UnusedAlike ==
    ASSUME NEW s, NEW p, NEW q, NEW k \in Nat, NEW n \in Nat, NEW m \in Nat, Unused(k, s, p, q)
    PROVE  Alike(Traffic(s, p, q), <<k, n>>, <<k, m>>)
<1>1. \A z \in DOMAIN Traffic(s, p, q) : z[1] \in Nat /\ z[2] \in Nat /\ z[1] # k
  BY DEF Traffic, Slots, Unused
<1> QED
  BY <1>1 DEF Alike, Before

LEMMA NextAlike ==
    ASSUME NEW s, NEW p, NEW q, NEW k \in Nat, NEW n \in Nat,
           Unused(k, s, p, q) \/ (Ops[k].size[p] \in Nat /\ n > Ops[k].size[p])
    PROVE  Alike(Traffic(s, p, q), <<k, n>>, <<k + 1, 0>>)
<1>1. \A z \in DOMAIN Traffic(s, p, q) :
          /\ z[1] \in Nat /\ z[2] \in Nat
          /\ z[1] = k => z[2] < n
  BY DEF Traffic, Slots, Unused
<1> QED
  BY <1>1 DEF Alike, Before

LEMMA FurtherUnit ==
    ASSUME NEW s, NEW p, NEW q, NEW k \in Nat, NEW n \in Nat
    PROVE  Further(Traffic(s, p, q), <<k, n>>, <<k, n + 1>>)
<1>1. \A z \in DOMAIN Traffic(s, p, q) : z = <<z[1], z[2]>> /\ z[1] \in Nat /\ z[2] \in Nat
  BY DEF Traffic, Slots
<1> QED
  BY <1>1 DEF Further, Before

\* A party that has nothing to do with a connection in a step, or passes over it.
Steady(p, q, d) ==
    \A s \in Sockets : Alike(Line(s, p, q, d), Position(p, q, d), Position(p, q, d)')

LEMMA SameIsSteady ==
    ASSUME NEW p, NEW q, NEW d, Position(p, q, d)' = Position(p, q, d)
    PROVE  Steady(p, q, d)
  BY DEF Steady, Alike

LEMMA QuietFlow ==
    ASSUME Flow, Fixed, wire' = wire,
           \A p, q \in Parties, d \in Directions : Steady(p, q, d)
    PROVE  Flow'
<1> SUFFICES ASSUME NEW s \in Sockets, NEW p \in Parties, NEW q \in Parties
             PROVE  Carries(wire[s][p][q], Traffic(s, p, q), Position(q, p, "receive"),
                            Position(p, q, "send"))'
  BY DEF Flow
<1>1. Traffic(s, p, q)' = Traffic(s, p, q) /\ wire[s][p][q]' = wire[s][p][q]
  BY FixedOps
<1>2. /\ Alike(Traffic(s, p, q), Position(q, p, "receive"), Position(q, p, "receive")')
      /\ Alike(Traffic(s, p, q), Position(p, q, "send"), Position(p, q, "send")')
  BY DEF Steady, Line, Directions
<1>3. Carries(wire[s][p][q], Traffic(s, p, q), Position(q, p, "receive"), Position(p, q, "send"))
  BY DEF Flow
<1>4. Carries(wire[s][p][q], Traffic(s, p, q), Position(q, p, "receive")', Position(p, q, "send")')
  BY <1>2, <1>3, NothingMoved
<1> QED
  BY <1>1, <1>4 DEF Carries, Between
\* Functions of two and of three arguments that change for one.
Upd(f, a, b, v) == [f EXCEPT ![a][b] = v]
Upd3(f, a, b, c, v) == [f EXCEPT ![a][b][c] = v]

Table(A, B, S) == [A -> [B -> S]]
Table3(A, B, C, S) == [A -> [B -> [C -> S]]]

LEMMA Updated ==
    ASSUME NEW A, NEW B, NEW S, NEW f \in Table(A, B, S), NEW a \in A, NEW b \in B, NEW v \in S
    PROVE  /\ Upd(f, a, b, v) \in Table(A, B, S)
           /\ Upd(f, a, b, v)[a][b] = v
           /\ \A y \in B : y # b => Upd(f, a, b, v)[a][y] = f[a][y]
           /\ \A x \in A : x # a => Upd(f, a, b, v)[x] = f[x]
<1> DEFINE g == [f[a] EXCEPT ![b] = v]
<1>1. g \in [B -> S] /\ g[b] = v /\ \A y \in B : y # b => g[y] = f[a][y]
  BY DEF Table
<1>2. Upd(f, a, b, v) = [f EXCEPT ![a] = g]
  BY DEF Upd
<1> HIDE DEF g
<1> QED
  BY <1>1, <1>2 DEF Table

LEMMA Updated3 ==
    ASSUME NEW A, NEW B, NEW C, NEW S, NEW f \in Table3(A, B, C, S),
           NEW a \in A, NEW b \in B, NEW c \in C, NEW v \in S
    PROVE  /\ Upd3(f, a, b, c, v) \in Table3(A, B, C, S)
           /\ Upd3(f, a, b, c, v)[a][b][c] = v
           /\ \A z \in C : z # c => Upd3(f, a, b, c, v)[a][b][z] = f[a][b][z]
           /\ \A y \in B : y # b => Upd3(f, a, b, c, v)[a][y] = f[a][y]
           /\ \A x \in A : x # a => Upd3(f, a, b, c, v)[x] = f[x]
<1> DEFINE g == Upd(f[a], b, c, v)
<1>1. f[a] \in Table(B, C, S)
  BY DEF Table, Table3
<1>2. /\ g \in Table(B, C, S) /\ g[b][c] = v
      /\ \A z \in C : z # c => g[b][z] = f[a][b][z]
      /\ \A y \in B : y # b => g[y] = f[a][y]
  BY <1>1, Updated
<1>3. Upd3(f, a, b, c, v) = [f EXCEPT ![a] = g]
  BY DEF Upd, Upd3
<1> HIDE DEF g
<1> QED
  BY <1>2, <1>3 DEF Table, Table3

\* What is in one socket changes.
WireSet(s, p, q, v) == wire' = Upd3(wire, s, p, q, v)

LEMMA WireAt ==
    ASSUME Types, NEW s \in Sockets, NEW p \in Parties, NEW q \in Parties, NEW v \in Seq(Units),
           WireSet(s, p, q, v)
    PROVE  /\ wire' \in [Sockets -> [Parties -> [Parties -> Seq(Units)]]]
           /\ wire'[s][p][q] = v
           /\ \A t \in Sockets, a, b \in Parties :
                  ~(t = s /\ a = p /\ b = q) => wire'[t][a][b] = wire[t][a][b]
<1>1. wire \in Table3(Sockets, Parties, Parties, Seq(Units))
  BY DEF Types, Table3
<1>2. wire' = Upd3(wire, s, p, q, v)
  BY DEF WireSet
<1>3. wire' \in Table3(Sockets, Parties, Parties, Seq(Units))
  BY <1>1, <1>2, Updated3
<1>4. wire'[s][p][q] = v
  BY <1>1, <1>2, Updated3
<1>5. ASSUME NEW t \in Sockets, NEW a \in Parties, NEW b \in Parties, ~(t = s /\ a = p /\ b = q)
      PROVE  wire'[t][a][b] = wire[t][a][b]
  BY <1>1, <1>2, <1>5, Updated3
<1> QED
  BY <1>3, <1>4, <1>5 DEF Table3

LEMMA Carried ==
    ASSUME NEW s, NEW p, NEW q, Fixed,
           Carries(wire[s][p][q]', Traffic(s, p, q), Position(q, p, "receive")', Position(p, q, "send")')
    PROVE  Carries(wire[s][p][q], Traffic(s, p, q), Position(q, p, "receive"), Position(p, q, "send"))'
<1>1. Traffic(s, p, q)' = Traffic(s, p, q)
  BY FixedOps
<1> QED
  BY <1>1 DEF Carries, Between

\* What is to be moved next.
LEMMA NextUnit ==
    ASSUME Types, NEW p \in Parties, NEW q \in Parties, Proper(p), InOp(p)
    PROVE  /\ Uses(at[p], p, q, "send") /\ Count(p, q, "send") <= Op(p).size[p]
              => /\ Position(p, q, "send") = <<at[p], Count(p, q, "send")>>
                 /\ Position(p, q, "send") \in Slots(SocketOf(at[p], p, q), p, q)
           /\ Uses(at[p], p, q, "receive") /\ Count(p, q, "receive") <= Op(p).size[q]
              => /\ Position(p, q, "receive") = <<at[p], Count(p, q, "receive")>>
                 /\ Position(p, q, "receive") \in Slots(SocketOf(at[p], q, p), q, p)
<1>1. /\ Program /\ at[p] \in 1..Len(Ops) /\ at[p] \in Nat /\ Op(p) = Ops[at[p]]
      /\ \A d \in Directions : Count(p, q, d) \in Nat
  <2>1. at[p] \in Nat
    BY DEF Types
  <2>2. \A d \in Directions : Sum(at[p], p, q, d) \in Nat /\ Count(p, q, d) \in 0..Sum(at[p], p, q, d)
    BY Counting
  <2> QED
    BY <2>1, <2>2, Counting
<1>2. \A d \in Directions : Position(p, q, d) = <<at[p], Count(p, q, d)>>
  BY DEF Position
<1>3. Uses(at[p], p, q, "receive") => Uses(at[p], q, p, "send")
  BY <1>1, Expected
<1> QED
  BY <1>1, <1>2, <1>3 DEF Slots, Directions

\* What goes by one socket in an operation does not go by the other.
LEMMA OtherSocket ==
    ASSUME Types, NEW p \in Parties, NEW q \in Parties, Proper(p), InOp(p), InOp(p)',
           at[p]' = at[p], NEW d \in Directions,
           NEW n \in Nat, Count(p, q, d)' = n,
           NEW s, s # IF d = "send" THEN SocketOf(at[p], p, q) ELSE SocketOf(at[p], q, p)
    PROVE  Alike(Line(s, p, q, d), Position(p, q, d), Position(p, q, d)')
<1>1. at[p] \in Nat
  BY DEF Types
<1>2. Position(p, q, d) = <<at[p], Count(p, q, d)>> /\ Count(p, q, d) \in Nat
  <2>1. Sum(at[p], p, q, d) \in Nat /\ Count(p, q, d) \in 0..Sum(at[p], p, q, d)
    BY Counting
  <2> QED
    BY <2>1 DEF Position
<1>3. Position(p, q, d)' = <<at[p], n>>
  BY DEF Position
<1>4. Alike(Line(s, p, q, d), <<at[p], Count(p, q, d)>>, <<at[p], n>>)
  <2>1. CASE d = "send"
    BY <1>1, <1>2, <2>1, UnusedAlike DEF Unused, Line
  <2>2. CASE d = "receive"
    BY <1>1, <1>2, <2>2, UnusedAlike DEF Unused, Line
  <2> QED
    BY <2>1, <2>2 DEF Directions
<1> QED
  BY <1>2, <1>3, <1>4

\* A party sends the next unit.
LEMMA SendFlow ==
    ASSUME Types, Flow, Fixed, NEW p \in Parties, NEW q \in Parties, Proper(p), Proper(q), InOp(p),
           Uses(at[p], p, q, "send"), Count(p, q, "send") <= Op(p).size[p],
           NEW s \in Sockets, s = SocketOf(at[p], p, q), NEW u \in May(Position(p, q, "send"), p, q),
           WireSet(s, p, q, Append(wire[s][p][q], u)),
           at[p]' = at[p], InOp(p)', Count(p, q, "send")' = Count(p, q, "send") + 1,
           \A a, b \in Parties, d \in Directions :
               (a # p \/ b # q \/ d # "send") => Steady(a, b, d)
    PROVE  Flow'
<1>1. PICK v : v = Append(wire[s][p][q], u)
  OBVIOUS
<1>2. WireSet(s, p, q, v) /\ v \in Seq(Units) /\ u \in Units
  <2>1. wire[s][p][q] \in Seq(Units)
    BY DEF Types
  <2>2. Program
    BY DEF Types, Program
  <2>3. u \in Units
    BY <2>2, NextUnit, TrafficIn
  <2> QED
    BY <1>1, <2>1, <2>3
<1> DEFINE n == Count(p, q, "send")
<1>3. /\ Position(p, q, "send") = <<at[p], n>> /\ Position(p, q, "send") \in Slots(s, p, q)
      /\ n \in Nat /\ at[p] \in Nat /\ Program
  <2>1. "send" \in Directions
    BY DEF Directions
  <2>2. Sum(at[p], p, q, "send") \in Nat /\ n \in 0..Sum(at[p], p, q, "send") /\ Program
    BY <2>1, Counting
  <2>3. at[p] \in Nat
    BY DEF Types
  <2> QED
    BY <2>2, <2>3, NextUnit
<1>4. Position(p, q, "send")' = <<at[p], n + 1>>
  BY DEF Position
<1> HIDE DEF n
<1>5. SUFFICES ASSUME NEW t \in Sockets, NEW a \in Parties, NEW b \in Parties
               PROVE  Carries(wire[t][a][b]', Traffic(t, a, b), Position(b, a, "receive")',
                              Position(a, b, "send")')
  BY Carried DEF Flow
<1>6. Alike(Traffic(t, a, b), Position(b, a, "receive"), Position(b, a, "receive")')
  BY DEF Steady, Line, Directions
<1>7. Carries(wire[t][a][b], Traffic(t, a, b), Position(b, a, "receive"), Position(a, b, "send"))
  BY DEF Flow
<1>8. CASE t = s /\ a = p /\ b = q
  <2>0. wire[s][p][q]' = Append(wire[s][p][q], u)
    <3>1. wire'[s][p][q] = v
      BY <1>2, WireAt
    <3> QED
      BY <1>1, <3>1
  <2> DEFINE D == Traffic(s, p, q)
             hi == Position(p, q, "send")
  <2>1. DOMAIN D \subseteq Places /\ hi \in DOMAIN D /\ D[hi] = May(hi, p, q)
    BY <1>3, TrafficIn
  <2>2. wire[s][p][q] \in Seq(Units)
    BY DEF Types
  <2>3. u \in D[hi] /\ u \in Units
    BY <1>2, <2>1
  <2>4. Further(D, hi, Position(p, q, "send")')
    BY <1>3, <1>4, FurtherUnit
  <2>5. Position(q, p, "receive") \in Places
    BY PositionPlace DEF Directions
  <2> HIDE DEF D, hi
  <2>6. /\ Alike(D, Position(q, p, "receive"), Position(q, p, "receive")')
        /\ Carries(wire[s][p][q], D, Position(q, p, "receive"), hi)
    BY <1>6, <1>7, <1>8 DEF D, hi
  <2>7. Carries(Append(wire[s][p][q], u), D, Position(q, p, "receive")', Position(p, q, "send")')
    BY <2>1, <2>2, <2>3, <2>4, <2>5, <2>6, UnitSent
  <2> QED
    BY <1>8, <2>0, <2>7 DEF D
<1>9. CASE ~(t = s /\ a = p /\ b = q)
  <2>1. wire[t][a][b]' = wire[t][a][b]
    BY <1>2, <1>9, WireAt
  <2>2. Alike(Traffic(t, a, b), Position(a, b, "send"), Position(a, b, "send")')
    <3>1. CASE a = p /\ b = q
      <4>1. "send" \in Directions /\ n + 1 \in Nat /\ Count(p, q, "send")' = n + 1
        BY <1>3 DEF n, Directions
      <4> QED
        BY <1>9, <3>1, <4>1, OtherSocket DEF Line
    <3>2. CASE ~(a = p /\ b = q)
      BY <3>2 DEF Steady, Line, Directions
    <3> QED
      BY <3>1, <3>2
  <2> QED
    BY <1>6, <1>7, <2>1, <2>2, NothingMoved
<1> QED
  BY <1>8, <1>9

\* A party finds in the socket what it is to receive next.
LEMMA Awaited ==
    ASSUME Types, Flow, NEW p \in Parties, NEW q \in Parties, Proper(p), Proper(q), InOp(p),
           Uses(at[p], p, q, "receive"), Count(p, q, "receive") <= Op(p).size[q],
           NEW s \in Sockets, s = SocketOf(at[p], q, p), wire[s][q][p] # <<>>
    PROVE  /\ Position(p, q, "receive") \in Slots(s, q, p)
           /\ Head(wire[s][q][p]) \in May(Position(p, q, "receive"), q, p)
           /\ \A lo, hi : Further(Traffic(s, q, p), Position(p, q, "receive"), lo)
                          /\ Alike(Traffic(s, q, p), Position(q, p, "send"), hi)
                          => Carries(Tail(wire[s][q][p]), Traffic(s, q, p), lo, hi)
<1>1. Position(p, q, "receive") \in Slots(s, q, p)
  BY NextUnit
<1> DEFINE D == Traffic(s, q, p)
           x == Position(p, q, "receive")
           w == wire[s][q][p]
<1>2. Program
  BY DEF Types, Program
<1>3. DOMAIN D \subseteq Places /\ x \in DOMAIN D /\ D[x] = May(x, q, p)
  BY <1>1, <1>2, TrafficIn
<1>4. w \in Seq(Units)
  BY DEF Types
<1>5. Position(q, p, "send") \in Places
  BY PositionPlace DEF Directions
<1>6. Carries(w, D, x, Position(q, p, "send"))
  BY DEF Flow
<1> HIDE DEF D, x, w
<1>7. w # <<>>
  BY DEF w
<1>8. Alike(D, Position(q, p, "send"), Position(q, p, "send"))
  BY DEF Alike
<1>9. \A lo, hi : Further(D, x, lo) /\ Alike(D, Position(q, p, "send"), hi)
                  => Head(w) \in D[x] /\ Carries(Tail(w), D, lo, hi)
  BY <1>3, <1>4, <1>5, <1>6, <1>7, UnitReceived
<1>10. Further(D, x, <<x[1], x[2] + 1>>)
  <2>1. x = <<x[1], x[2]>> /\ x[1] \in Nat /\ x[2] \in Nat
    BY <1>3 DEF Places
  <2> QED
    BY <2>1, FurtherUnit DEF D
<1>11. Head(w) \in D[x]
  BY <1>8, <1>9, <1>10
<1> QED
  BY <1>1, <1>3, <1>9, <1>11 DEF D, x, w

\* And takes it.
LEMMA ReceiveFlow ==
    ASSUME Types, Flow, Fixed, NEW p \in Parties, NEW q \in Parties, Proper(p), Proper(q), InOp(p),
           Uses(at[p], p, q, "receive"), Count(p, q, "receive") <= Op(p).size[q],
           NEW s \in Sockets, s = SocketOf(at[p], q, p), wire[s][q][p] # <<>>,
           WireSet(s, q, p, Tail(wire[s][q][p])),
           at[p]' = at[p], InOp(p)', Count(p, q, "receive")' = Count(p, q, "receive") + 1,
           \A a, b \in Parties, d \in Directions :
               (a # p \/ b # q \/ d # "receive") => Steady(a, b, d)
    PROVE  Flow'
<1>1. PICK v : v = Tail(wire[s][q][p])
  OBVIOUS
<1>2. WireSet(s, q, p, v) /\ v \in Seq(Units)
  <2>1. wire[s][q][p] \in Seq(Units)
    BY DEF Types
  <2> QED
    BY <1>1, <2>1
<1> DEFINE n == Count(p, q, "receive")
<1>3. /\ Position(p, q, "receive") = <<at[p], n>> /\ n \in Nat /\ at[p] \in Nat
  <2>1. "receive" \in Directions
    BY DEF Directions
  <2>2. Sum(at[p], p, q, "receive") \in Nat /\ n \in 0..Sum(at[p], p, q, "receive")
    BY <2>1, Counting
  <2>3. at[p] \in Nat
    BY DEF Types
  <2> QED
    BY <2>2, <2>3, NextUnit
<1>4. Position(p, q, "receive")' = <<at[p], n + 1>>
  BY DEF Position
<1> HIDE DEF n
<1>5. SUFFICES ASSUME NEW t \in Sockets, NEW a \in Parties, NEW b \in Parties
               PROVE  Carries(wire[t][a][b]', Traffic(t, a, b), Position(b, a, "receive")',
                              Position(a, b, "send")')
  BY Carried DEF Flow
<1>6. Alike(Traffic(t, a, b), Position(a, b, "send"), Position(a, b, "send")')
  BY DEF Steady, Line, Directions
<1>7. CASE t = s /\ a = q /\ b = p
  <2>1. Further(Traffic(s, q, p), Position(p, q, "receive"), Position(p, q, "receive")')
    BY <1>3, <1>4, FurtherUnit
  <2>2. wire[s][q][p]' = Tail(wire[s][q][p])
    <3>1. wire'[s][q][p] = v
      BY <1>2, WireAt
    <3> QED
      BY <1>1, <3>1
  <2>3. Carries(Tail(wire[s][q][p]), Traffic(s, q, p), Position(p, q, "receive")',
                Position(q, p, "send")')
    BY <1>6, <1>7, <2>1, Awaited
  <2> QED
    BY <1>7, <2>2, <2>3
<1>8. CASE ~(t = s /\ a = q /\ b = p)
  <2>1. wire[t][a][b]' = wire[t][a][b]
    BY <1>2, <1>8, WireAt
  <2>2. Alike(Traffic(t, a, b), Position(b, a, "receive"), Position(b, a, "receive")')
    <3>1. CASE a = q /\ b = p
      <4>1. "receive" \in Directions /\ n + 1 \in Nat /\ Count(p, q, "receive")' = n + 1
        BY <1>3 DEF n, Directions
      <4> QED
        BY <1>8, <3>1, <4>1, OtherSocket DEF Line
    <3>2. CASE ~(a = q /\ b = p)
      BY <3>2 DEF Steady, Line, Directions
    <3> QED
      BY <3>1, <3>2
  <2>3. Carries(wire[t][a][b], Traffic(t, a, b), Position(b, a, "receive"), Position(a, b, "send"))
    BY DEF Flow
  <2> QED
    BY <1>6, <2>1, <2>2, <2>3, NothingMoved
<1> QED
  BY <1>7, <1>8

\* The queues of a thread are set.
LEMMA QueueAt ==
    ASSUME NEW f \in Table3(Parties, Parties, Directions, Seq(Streams)),
           NEW p \in Parties, NEW q \in Parties, NEW d \in Directions, NEW v \in Seq(Streams),
           NEW g, g = Upd3(f, p, q, d, v)
    PROVE  /\ g \in Table3(Parties, Parties, Directions, Seq(Streams))
           /\ g[p][q][d] = v
           /\ \A e \in Directions : e # d => g[p][q][e] = f[p][q][e]
           /\ \A b \in Parties : b # q => g[p][b] = f[p][b]
           /\ \A a \in Parties : a # p => g[a] = f[a]
<1>1. PICK S : S = Seq(Streams)
  OBVIOUS
<1>2. f \in Table3(Parties, Parties, Directions, S) /\ v \in S
  BY <1>1
<1>3. g \in Table3(Parties, Parties, Directions, S)
  BY <1>2, Updated3
<1>4. g[p][q][d] = v
  BY <1>2, Updated3
<1>5. \A e \in Directions : e # d => g[p][q][e] = f[p][q][e]
  BY <1>2, Updated3
<1>6. \A b \in Parties : b # q => g[p][b] = f[p][b]
  BY <1>2, Updated3
<1>7. \A a \in Parties : a # p => g[a] = f[a]
  BY <1>2, Updated3
<1> QED
  BY <1>1, <1>3, <1>4, <1>5, <1>6, <1>7
-----------------------------------------------------------------------------
(* What a step changes of a party.                                         *)

LEMMA TxAt ==
    ASSUME Types, NEW p \in Parties, NEW q \in Parties, NEW c \in Int, tx' = Upd(tx, p, q, c)
    PROVE  /\ tx' \in [Parties -> [Parties -> Int]] /\ tx'[p][q] = c
           /\ \A b \in Parties : b # q => tx'[p][b] = tx[p][b]
           /\ \A a \in Parties : a # p => tx'[a] = tx[a]
<1>1. tx \in Table(Parties, Parties, Int)
  BY DEF Types, Table
<1>2. tx' \in Table(Parties, Parties, Int)
  BY <1>1, Updated
<1>3. /\ tx'[p][q] = c
      /\ \A b \in Parties : b # q => tx'[p][b] = tx[p][b]
      /\ \A a \in Parties : a # p => tx'[a] = tx[a]
  BY <1>1, Updated
<1> QED
  BY <1>2, <1>3 DEF Table

LEMMA RxAt ==
    ASSUME Types, NEW p \in Parties, NEW q \in Parties, NEW c \in Int, rx' = Upd(rx, p, q, c)
    PROVE  /\ rx' \in [Parties -> [Parties -> Int]] /\ rx'[p][q] = c
           /\ \A b \in Parties : b # q => rx'[p][b] = rx[p][b]
           /\ \A a \in Parties : a # p => rx'[a] = rx[a]
<1>1. rx \in Table(Parties, Parties, Int)
  BY DEF Types, Table
<1>2. rx' \in Table(Parties, Parties, Int)
  BY <1>1, Updated
<1>3. /\ rx'[p][q] = c
      /\ \A b \in Parties : b # q => rx'[p][b] = rx[p][b]
      /\ \A a \in Parties : a # p => rx'[a] = rx[a]
  BY <1>1, Updated
<1> QED
  BY <1>2, <1>3 DEF Table

LEMMA LenAt ==
    ASSUME Types, NEW p \in Parties, NEW q \in Parties, NEW c \in Nat, len' = Upd(len, p, q, c)
    PROVE  /\ len' \in [Parties -> [Parties -> Nat]] /\ len'[p][q] = c
           /\ \A b \in Parties : b # q => len'[p][b] = len[p][b]
           /\ \A a \in Parties : a # p => len'[a] = len[a]
<1>1. len \in Table(Parties, Parties, Nat)
  BY DEF Types, Table
<1>2. len' \in Table(Parties, Parties, Nat)
  BY <1>1, Updated
<1>3. /\ len'[p][q] = c
      /\ \A b \in Parties : b # q => len'[p][b] = len[p][b]
      /\ \A a \in Parties : a # p => len'[a] = len[a]
  BY <1>1, Updated
<1> QED
  BY <1>2, <1>3 DEF Table

LEMMA MemAt ==
    ASSUME Types, NEW p \in Parties, NEW x \in Streams, NEW v \in Seq(Units), mem' = Upd(mem, p, x, v)
    PROVE  /\ mem' \in [Parties -> [Streams -> Seq(Units)]] /\ mem'[p][x] = v
           /\ \A y \in Streams : y # x => mem'[p][y] = mem[p][y]
           /\ \A a \in Parties : a # p => mem'[a] = mem[a]
<1>1. mem \in Table(Parties, Streams, Seq(Units))
  BY DEF Types, Table
<1>2. mem' \in Table(Parties, Streams, Seq(Units))
  BY <1>1, Updated
<1>3. /\ mem'[p][x] = v
      /\ \A y \in Streams : y # x => mem'[p][y] = mem[p][y]
      /\ \A a \in Parties : a # p => mem'[a] = mem[a]
  BY <1>1, Updated
<1> QED
  BY <1>2, <1>3 DEF Table

\* A change of the calling thread's phase.
Phases == {"idle", "construct", "exchange", "write", "read", "wait", "closed"}
LEMMA PhaseAt ==
    ASSUME Types, NEW p \in Parties, NEW x \in Phases, Goto(p, x)
    PROVE  /\ phase' \in [Parties -> Phases] /\ phase'[p] = x
           /\ \A a \in Parties : a # p => phase'[a] = phase[a]
  BY DEF Types, Phases, Goto

\* What is to be shown for a step of p.
LEMMA StepKeeps ==
    ASSUME IInv, Types', Flow', NEW p \in Parties, Proper(p)', InMemory(p)',
           \A a \in Parties : a # p => Still(a)
    PROVE  IInv'
<1>1. ASSUME NEW a \in Parties, a # p PROVE Proper(a)' /\ InMemory(a)'
  BY <1>1, StillProper DEF IInv
<1>2. \A a \in Parties : Proper(a)' /\ InMemory(a)'
  BY <1>1
<1> QED
  BY <1>2 DEF IInv

LEMMA StillSteady ==
    ASSUME NEW p, Still(p), NEW q, NEW d
    PROVE  Steady(p, q, d)
  BY StillPlace, SameIsSteady
-----------------------------------------------------------------------------
(* The rounds of Exchangers.                                               *)

LEMMA InRounds ==
    ASSUME Types, NEW p \in Parties, Proper(p), phase[p] \in ExchangerPhases
    PROVE  /\ InOp(p) /\ ~ByThreads(Op(p)) /\ Staged(Exchanges(p), p)
           /\ Same(Op(p)) => Exchanges(p) = <<>> \/ \E a, b \in Parties : Exchanges(p) = <<<<Pair(a, b)>>>>
           /\ \A q, d : Uses(at[p], p, q, d) <=> With(Exchanges(p), q, d)
           /\ \A q : SocketOf(at[p], p, q) = "sockets" /\ SocketOf(at[p], q, p) = "sockets"
<1>1. InOp(p) /\ ~ByThreads(Op(p))
  BY DEF InOp, ExchangerPhases, Proper, WithExchangers
<1>2. Program /\ at[p] \in 1..Len(Ops) /\ Op(p) = Ops[at[p]]
  BY <1>1, Counting
<1>3. Exchanges(p) = PlanExchangers(Op(p), p)
  BY <1>2, Looked DEF Exchanges
<1>4. Op(p) \in Operations /\ (Op(p).kind = "exchange" => Op(p).other[p] # p)
  BY <1>2, UsesPlan
<1>5. \A q, d : Uses(at[p], p, q, d) <=> With(Exchanges(p), q, d)
  BY <1>1, <1>2, <1>3, UsesPlan
<1>6. \A q : SocketOf(at[p], p, q) = "sockets" /\ SocketOf(at[p], q, p) = "sockets"
  BY <1>1, <1>2 DEF SocketOf
<1>7. /\ Staged(Exchanges(p), p)
      /\ Same(Op(p)) => Exchanges(p) = <<>> \/ \E a, b \in Parties : Exchanges(p) = <<<<Pair(a, b)>>>>
  BY <1>3, <1>4, ExchangersPlan
<1> QED
  BY <1>1, <1>5, <1>6, <1>7

\* A party that an Exchanger of the present stage is for.
Served(p, i, q, d) == i \in DOMAIN Pairs(p) /\ Peer(Pairs(p)[i], d) = q /\ q # NoParty

LEMMA InStage ==
    ASSUME Types, NEW p \in Parties, Proper(p), phase[p] \in ExchangerPhases, Exchanges(p) # <<>>
    PROVE  /\ stage[p] \in DOMAIN Exchanges(p) /\ Pairs(p) \in Seq(PairSet) /\ Pairs(p) # <<>>
           /\ DOMAIN Pairs(p) = 1..Len(Pairs(p)) /\ Len(Pairs(p)) \in Nat \ {0}
           /\ made[p] \in 0..Len(Pairs(p)) /\ (phase[p] # "construct" => made[p] = Len(Pairs(p)))
           /\ \A i \in DOMAIN Pairs(p), d \in Directions :
                  Peer(Pairs(p)[i], d) \in Parties \cup {NoParty}
           /\ \A i, q : \A d \in Directions : Served(p, i, q, d) =>
                  /\ q \in Parties \ {p} /\ Uses(at[p], p, q, d) /\ ~Done(p, q, d)
                  /\ \A j \in DOMAIN Pairs(p) : Peer(Pairs(p)[j], d) = q => j = i
<1>1. Staged(Exchanges(p), p)
  BY InRounds
<1>2. Exchanges(p) \in Seq(Seq(PairSet))
  BY <1>1 DEF Staged
<1>3. /\ stage[p] \in 1..Len(Exchanges(p)) /\ made[p] \in 0..Len(Pairs(p))
      /\ phase[p] = "construct" <=> made[p] < Len(Pairs(p))
  BY DEF Proper, WithExchangers
<1>4. DOMAIN Exchanges(p) = 1..Len(Exchanges(p)) /\ stage[p] \in DOMAIN Exchanges(p)
  BY <1>2, <1>3
<1>5. Pairs(p) \in Seq(PairSet) /\ Pairs(p) # <<>> /\ Pairs(p) = Exchanges(p)[stage[p]]
  BY <1>1, <1>2, <1>4 DEF Staged, Pairs
<1>6. DOMAIN Pairs(p) = 1..Len(Pairs(p)) /\ Len(Pairs(p)) \in Nat \ {0}
  BY <1>5
<1>7. ASSUME NEW i \in DOMAIN Pairs(p), NEW d \in Directions
      PROVE  Peer(Pairs(p)[i], d) \in Parties \cup {NoParty}
  <2>1. Pairs(p)[i] \in PairSet
    BY <1>5
  <2> QED
    BY <2>1 DEF Peer, PairSet
<1>8. ASSUME NEW i, NEW q, NEW d \in Directions, Served(p, i, q, d)
      PROVE  /\ q \in Parties \ {p} /\ Uses(at[p], p, q, d) /\ ~Done(p, q, d)
             /\ \A j \in DOMAIN Pairs(p) : Peer(Pairs(p)[j], d) = q => j = i
  <2>1. i \in DOMAIN Pairs(p) /\ Peer(Pairs(p)[i], d) = q /\ q # NoParty
    BY <1>8 DEF Served
  <2>2. q \in Parties /\ q # p
    BY <1>1, <1>4, <1>5, <1>7, <2>1 DEF Staged, Others
  <2>3. Uses(at[p], p, q, d)
    BY <1>4, <1>5, <2>1, InRounds DEF With
  <2>4. \A h \in DOMAIN Exchanges(p) : \A g \in DOMAIN Exchanges(p)[h] :
            Peer(Exchanges(p)[h][g], d) = q => h = stage[p] /\ g = i
    BY <1>1, <1>4, <1>5, <2>1 DEF Staged
  <2>5. phase[p] # "wait"
    BY DEF ExchangerPhases
  <2>6. \A h \in 1..(stage[p] - 1) : h \in DOMAIN Exchanges(p) /\ h # stage[p]
    BY <1>3, <1>4
  <2>7. ~Done(p, q, d)
    BY <2>4, <2>5, <2>6 DEF Done
  <2> QED
    BY <1>4, <1>5, <2>2, <2>3, <2>4, <2>7
<1> QED
  BY <1>3, <1>4, <1>5, <1>6, <1>7, <1>8
-----------------------------------------------------------------------------
LEMMA SameOp ==
    ASSUME Fixed, NEW p, at'[p] = at[p]
    PROVE  /\ at[p]' = at[p] /\ Op(p)' = Op(p) /\ Ops' = Ops /\ Exchanges(p)' = Exchanges(p)
           /\ Requests(p)' = Requests(p) /\ Waits(p)' = Waits(p)
           /\ ByThreads(Op(p))' = ByThreads(Op(p)) /\ Same(Op(p))' = Same(Op(p))
           /\ \A q : /\ Content(at[p], p, q)' = Content(at[p], p, q)
                     /\ Message(at[p], q, p)' = Message(at[p], q, p)
                     /\ Target(Op(p), p, q)' = Target(Op(p), p, q)
                     /\ Source(Op(p), p, q)' = Source(Op(p), p, q)
           /\ \A i : Unit(at[p], p, p, i)' = Unit(at[p], p, p, i)
           /\ \A q, d : /\ Sum(at[p], p, q, d)' = Sum(at[p], p, q, d)
                        /\ Uses(at[p], p, q, d)' = Uses(at[p], p, q, d)
                        /\ Stream(Op(p), p, q, d)' = Stream(Op(p), p, q, d)
<1>1. at[p]' = at[p] /\ Ops' = Ops /\ Op(p)' = Op(p)
  BY FixedOps DEF Op
<1>2. Exchanges(p)' = Exchanges(p) /\ Requests(p)' = Requests(p)
  BY DEF Exchanges, Requests, Fixed
<1>3. Waits(p)' = Waits(p)
  BY <1>2 DEF Waits
<1>4. ByThreads(Op(p))' = ByThreads(Op(p)) /\ Same(Op(p))' = Same(Op(p))
  BY <1>1 DEF ByThreads, Same, Fixed
<1>5. \A q : /\ Content(at[p], p, q)' = Content(at[p], p, q)
             /\ Message(at[p], q, p)' = Message(at[p], q, p)
  BY <1>1 DEF Message, Content
<1>6. \A q : /\ Target(Op(p), p, q)' = Target(Op(p), p, q)
             /\ Source(Op(p), p, q)' = Source(Op(p), p, q)
  BY <1>1 DEF Target, Source
<1>7. \A i : Unit(at[p], p, p, i)' = Unit(at[p], p, p, i)
  BY <1>1 DEF Unit
<1>8. \A q, d : Sum(at[p], p, q, d)' = Sum(at[p], p, q, d)
  BY <1>1 DEF Sum
<1>9. \A q, d : Uses(at[p], p, q, d)' = Uses(at[p], p, q, d)
  BY FixedOps, <1>1 DEF Uses, Fixed
<1>10. \A q, d : Stream(Op(p), p, q, d)' = Stream(Op(p), p, q, d)
  BY <1>6 DEF Stream
<1> QED
  BY <1>1, <1>2, <1>3, <1>4, <1>5, <1>6, <1>7, <1>8, <1>9, <1>10

\* A step of p that leaves it in its operation and in the stage of it.
Elsewhere(p) ==
    \A a \in Parties : a # p =>
        /\ at'[a] = at[a] /\ phase'[a] = phase[a] /\ stage'[a] = stage[a] /\ made'[a] = made[a]
        /\ mem'[a] = mem[a] /\ tx'[a] = tx[a] /\ rx'[a] = rx[a] /\ len'[a] = len[a]
        /\ requested'[a] = requested[a] /\ finished'[a] = finished[a] /\ result'[a] = result[a]
Within(p) ==
    /\ Fixed /\ Elsewhere(p)
    /\ at'[p] = at[p] /\ stage'[p] = stage[p] /\ result'[p] = result[p]
    /\ requested'[p] = requested[p] /\ finished'[p] = finished[p]
    /\ phase[p] \in ExchangerPhases /\ phase'[p] \in ExchangerPhases

LEMMA WithinPlace ==
    ASSUME NEW p \in Parties, Within(p)
    PROVE  /\ InOp(p) /\ InOp(p)' /\ Pairs(p)' = Pairs(p)
           /\ \A q, d : Done(p, q, d)' = Done(p, q, d)
           /\ \A q, d : Moved(p, q, d)' = Moved(p, q, d) =>
                  Count(p, q, d)' = Count(p, q, d) /\ Position(p, q, d)' = Position(p, q, d)
           /\ \A a \in Parties : a # p => Still(a)
<1>1. InOp(p) /\ InOp(p)'
  BY DEF Within, InOp, ExchangerPhases
<1>2. Pairs(p)' = Pairs(p)
  BY SameOp DEF Within, Pairs
<1>3. phase[p] # "wait" /\ phase'[p] # "wait"
  BY DEF Within, ExchangerPhases
<1>4. \A q, d : Done(p, q, d)' = Done(p, q, d)
  BY <1>3, SameOp DEF Within, Done
<1>5. \A q, d : Moved(p, q, d)' = Moved(p, q, d) => Count(p, q, d)' = Count(p, q, d)
  BY <1>4, SameOp DEF Within, Count
<1>6. \A q, d : Moved(p, q, d)' = Moved(p, q, d) => Position(p, q, d)' = Position(p, q, d)
  BY <1>1, <1>5, SameOp DEF Within, Position
<1>7. \A a \in Parties : a # p => Still(a)
  BY DEF Within, Elsewhere, Still
<1> QED
  BY <1>1, <1>2, <1>4, <1>5, <1>6, <1>7

LEMMA WithinProper ==
    ASSUME Types, NEW p \in Parties, Proper(p), Within(p), Exchanges(p) # <<>>,
           phase'[p] = "exchange" => kind = "plain",
           phase'[p] \in {"write", "read"} => kind = "crypto",
           made'[p] \in 0..Len(Pairs(p)), phase'[p] = "construct" <=> made'[p] < Len(Pairs(p)),
           \A q \in Parties, d \in Directions :
               /\ Moved(p, q, d)' \in -1..Sum(at[p], p, q, d)
               /\ d = "send" => Moved(p, q, d)' # 0
               /\ Moved(p, q, d)' # -1 <=> \E i \in 1..made'[p] : Peer(Pairs(p)[i], d) = q
    PROVE  Proper(p)'
<1>1. InOp(p) /\ InOp(p)' /\ Pairs(p)' = Pairs(p)
  BY WithinPlace
<1>2. Turn(p)'
  <2>1. phase'[p] # "closed"
    BY DEF Within, ExchangerPhases
  <2> QED
    BY <1>1, <2>1, SameOp DEF Proper, Turn, Within
<1>3. WithThreads(p)'
  BY DEF WithThreads, Within, ExchangerPhases
<1>4. WithExchangers(p)'
  <2>1. ~ByThreads(Op(p))'
    BY SameOp DEF Proper, WithExchangers, Within
  <2>2. kind' = kind
    BY DEF Within, Fixed
  <2>3. Exchanges(p)' = Exchanges(p) /\ stage'[p] = stage[p]
        /\ requested'[p] = requested[p] /\ finished'[p] = finished[p]
    BY SameOp DEF Within
  <2>4. \A q, d : Sum(at[p], p, q, d)' = Sum(at[p], p, q, d)
    BY SameOp DEF Within
  <2>5. /\ \A q \in Parties, d \in Directions : requested[p][q][d] = <<>> /\ finished[p][q][d] = <<>>
        /\ stage[p] \in 1..Len(Exchanges(p))
    BY DEF Proper, WithExchangers, Within
  <2> QED
    BY <1>1, <2>1, <2>2, <2>3, <2>4, <2>5 DEF WithExchangers
<1> QED
  BY <1>2, <1>3, <1>4 DEF Proper

\* What is in memory as long as that is not written to.
LEMMA SentMemory ==
    ASSUME Types, NEW p \in Parties, Proper(p), Fixed, at'[p] = at[p], InOp(p), ToSend(p), mem'[p] = mem[p],
           \A q \in Parties : /\ Count(p, q, "send")' \in Nat
                              /\ Count(p, q, "send")' >= Count(p, q, "send")
    PROVE  ToSend(p)'
<1>1. /\ Same(Op(p))' = Same(Op(p)) /\ Op(p)' = Op(p) /\ at[p]' = at[p] /\ mem[p]' = mem[p]
      /\ \A q : Content(at[p], p, q)' = Content(at[p], p, q)
      /\ \A i : Unit(at[p], p, p, i)' = Unit(at[p], p, p, i)
      /\ \A q, d : Uses(at[p], p, q, d)' = Uses(at[p], p, q, d)
  BY SameOp
<1>2. \A q \in Parties : Count(p, q, "send") \in Nat
  <2>1. "send" \in Directions
    BY DEF Directions
  <2>2. \A q \in Parties : /\ Sum(at[p], p, q, "send") \in Nat
                           /\ Count(p, q, "send") \in 0..Sum(at[p], p, q, "send")
    BY <2>1, Counting
  <2> QED
    BY <2>2
<1>3. Op(p).size[p] \in Nat
  BY Counting
<1>4. CASE Same(Op(p))
  <2>1. ASSUME NEW q \in Parties, Uses(at[p], p, q, "send")
        PROVE  /\ Count(p, q, "send")' = 0 => mem[p][<<"s", p>>] = Content(at[p], p, p)
               /\ Len(mem[p][<<"s", p>>]) >= Op(p).size[p]
               /\ \A i \in 1..Op(p).size[p] : i >= Count(p, q, "send")' =>
                      mem[p][<<"s", p>>][i] = Unit(at[p], p, p, i)
    <3>1. /\ Count(p, q, "send") = 0 => mem[p][<<"s", p>>] = Content(at[p], p, p)
          /\ Len(mem[p][<<"s", p>>]) >= Op(p).size[p]
          /\ \A i \in 1..Op(p).size[p] : i >= Count(p, q, "send") =>
                 mem[p][<<"s", p>>][i] = Unit(at[p], p, p, i)
      BY <1>4, <2>1 DEF ToSend
    <3>2. Count(p, q, "send")' = 0 => Count(p, q, "send") = 0
      BY <1>2
    <3>3. \A i \in 1..Op(p).size[p] : i >= Count(p, q, "send")' => i >= Count(p, q, "send")
      BY <1>2, <1>3
    <3> QED
      BY <3>1, <3>2, <3>3
  <2> QED
    BY <1>1, <1>4, <2>1 DEF ToSend
<1>5. CASE ~Same(Op(p))
  BY <1>1, <1>5 DEF ToSend
<1> QED
  BY <1>4, <1>5

LEMMA GotMemory ==
    ASSUME NEW p \in Parties, Fixed, at'[p] = at[p], NEW q, Got(p, q), len'[p][q] = len[p][q],
           mem'[p][Target(Op(p), p, q)] = mem[p][Target(Op(p), p, q)],
           Count(p, q, "receive")' = Count(p, q, "receive")
    PROVE  Got(p, q)'
<1>1. /\ Target(Op(p), p, q)' = Target(Op(p), p, q) /\ Op(p)' = Op(p) /\ at[p]' = at[p]
      /\ \A i : May(<<at[p], i>>, q, p)' = May(<<at[p], i>>, q, p)
      /\ len[p][q]' = len[p][q]
  BY SameOp, MayAt
<1>2. mem[p][Target(Op(p), p, q)]' = mem[p][Target(Op(p), p, q)]
  BY <1>1
<1> QED
  BY <1>1, <1>2 DEF Got

\* What is sent next is what the program has for the other party.
LEMMA SourceUnit ==
    ASSUME Types, NEW p \in Parties, Proper(p), InOp(p), ToSend(p), NEW q \in Parties, Uses(at[p], p, q, "send")
    PROVE  /\ Source(Op(p), p, q) \in Streams
           /\ Count(p, q, "send") = 0 \/ ~Same(Op(p))
              => mem[p][Source(Op(p), p, q)] = Message(at[p], p, q)
                 /\ Len(mem[p][Source(Op(p), p, q)]) = Op(p).size[p]
           /\ Datum(<<at[p], 0>>, p, q) = Header(Op(p).size[p])
           /\ Count(p, q, "send") \in 1..Op(p).size[p]
              => mem[p][Source(Op(p), p, q)][Count(p, q, "send")]
                     = Datum(<<at[p], Count(p, q, "send")>>, p, q)
<1>1. Op(p) = Ops[at[p]] /\ Op(p).size[p] \in Nat
  BY Counting
<1>2. Source(Op(p), p, q) \in Streams
  BY DEF Source, Streams
<1>3. Len(Message(at[p], p, q)) = Op(p).size[p]
  BY <1>1 DEF Message, Content
<1>4. Datum(<<at[p], 0>>, p, q) = Header(Op(p).size[p])
  BY <1>1 DEF Datum
<1>5. ASSUME NEW n \in 1..Op(p).size[p]
      PROVE  /\ Datum(<<at[p], n>>, p, q) = Message(at[p], p, q)[n]
             /\ Message(at[p], p, q)[n] = Unit(at[p], p, Source(Op(p), p, q)[2], n)
  BY <1>1 DEF Datum, Message, Content
<1>6. CASE Same(Op(p))
  <2>1. Source(Op(p), p, q) = <<"s", p>>
    BY <1>6 DEF Same, Source
  <2>2. Message(at[p], p, q) = Content(at[p], p, p)
    BY <1>1, <2>1 DEF Message
  <2> QED
    BY <1>2, <1>3, <1>4, <1>5, <1>6, <2>1, <2>2 DEF ToSend
<1>7. CASE ~Same(Op(p))
  <2>1. PICK a \in Parties : Source(Op(p), p, q) = <<"s", a>>
    BY DEF Source
  <2>2. mem[p][<<"s", a>>] = Content(at[p], p, a)
    BY <1>7 DEF ToSend
  <2>3. Message(at[p], p, q) = Content(at[p], p, a)
    BY <1>1, <2>1 DEF Message
  <2> QED
    BY <1>2, <1>3, <1>4, <1>5, <2>1, <2>2, <2>3
<1> QED
  BY <1>6, <1>7
-----------------------------------------------------------------------------
(* An Exchanger sends a unit.                                              *)

\* The one Exchanger of an operation with one stream.
LEMMA OnePeer ==
    ASSUME Types, NEW p \in Parties, Proper(p), phase[p] \in ExchangerPhases,
           Exchanges(p) # <<>>, Same(Op(p)), NEW i \in DOMAIN Pairs(p)
    PROVE  /\ Pairs(p)[i].to \in Parties /\ Pairs(p)[i].from \in Parties
           /\ \A q : (Uses(at[p], p, q, "send") <=> q = Pairs(p)[i].to)
                     /\ (Uses(at[p], p, q, "receive") <=> q = Pairs(p)[i].from)
<1>1. PICK a, b \in Parties : Exchanges(p) = <<<<Pair(a, b)>>>>
  BY InRounds
<1>2. stage[p] \in DOMAIN Exchanges(p)
  BY InStage
<1>3. stage[p] = 1 /\ Pairs(p) = <<Pair(a, b)>>
  BY <1>1, <1>2 DEF Pairs
<1>4. Pairs(p)[i] = Pair(a, b) /\ Pairs(p)[i].to = a /\ Pairs(p)[i].from = b
  BY <1>3 DEF Pair
<1>5. PICK E : E = <<<<Pair(a, b)>>>>
  OBVIOUS
<1>6. DOMAIN E = {1} /\ DOMAIN E[1] = {1} /\ E[1][1] = Pair(a, b)
  BY <1>5
<1>7. Peer(Pair(a, b), "send") = a /\ Peer(Pair(a, b), "receive") = b
  BY DEF Peer, Pair
<1>8. \A q : (With(E, q, "send") <=> q = a) /\ (With(E, q, "receive") <=> q = b)
  BY <1>6, <1>7 DEF With
<1>9. \A q, d : Uses(at[p], p, q, d) <=> With(Exchanges(p), q, d)
  BY InRounds
<1>10. Exchanges(p) = E
  BY <1>1, <1>5
<1>11. \A q : (Uses(at[p], p, q, "send") <=> q = a) /\ (Uses(at[p], p, q, "receive") <=> q = b)
  BY <1>8, <1>9, <1>10
<1> QED
  BY <1>4, <1>11

\* What an Exchanger sends, from where the stream is or has been.
LEMMA SentUnit ==
    ASSUME Types, NEW p \in Parties, Proper(p), InOp(p), phase[p] \in ExchangerPhases,
           Exchanges(p) # <<>>, ToSend(p), HasReceived(p), NEW i \in DOMAIN Pairs(p),
           NEW q \in Parties, q = Pairs(p)[i].to, Uses(at[p], p, q, "send"),
           NEW n \in 1..Op(p).size[p], n = tx[p][q], Count(p, q, "send") = n,
           NEW u \in ToSendNext(p, Pairs(p)[i])
    PROVE  u \in May(<<at[p], n>>, p, q)
<1>1. Op(p) = Ops[at[p]] /\ Op(p) \in Operations /\ Op(p).size[p] \in Nat
  BY Counting
<1>2. CASE ~Freed(p, Pairs(p)[i])
  <2>1. u = mem[p][Source(Op(p), p, q)][n]
    BY <1>2 DEF ToSendNext
  <2>2. Count(p, q, "send") \in 1..Op(p).size[p]
    OBVIOUS
  <2>3. mem[p][Source(Op(p), p, q)][Count(p, q, "send")] = Datum(<<at[p], Count(p, q, "send")>>, p, q)
    BY <2>2, SourceUnit
  <2>4. u = Datum(<<at[p], n>>, p, q)
    BY <2>1, <2>3
  <2> QED
    BY <2>4 DEF May
<1>3. CASE Freed(p, Pairs(p)[i])
  <2>1. PICK b : b = Pairs(p)[i].from
    OBVIOUS
  <2>2. /\ Same(Op(p)) /\ rx[p][b] > 0
        /\ len[p][b] >= Op(p).room[p] \/ Op(p).size[p] >= Op(p).room[p]
    BY <1>3, <2>1 DEF Freed
  <2>3. b \in Parties /\ Uses(at[p], p, b, "receive")
    BY <2>1, <2>2, OnePeer
  <2>4. len[p][b] = Op(p).size[b]
    <3>1. rx[p][b] \in Int
      BY <2>3 DEF Types
    <3>2. Count(p, b, "receive") = rx[p][b] /\ rx[p][b] >= 1
      BY <2>2, <3>1 DEF Count, Moved
    <3> QED
      BY <2>3, <3>2 DEF HasReceived, Got
  <2>5. ~Roomy(Ops[at[p]])
    <3>1. Op(p).room[p] \in Nat /\ Op(p).size[b] \in Nat
      BY <1>1, <2>2, <2>3, Kind
    <3>2. ~(Op(p).size[b] < Op(p).room[p] /\ Op(p).size[p] < Op(p).room[p])
      BY <1>1, <2>2, <2>4, <3>1
    <3> QED
      BY <1>1, <2>2, <2>3, <3>2 DEF Roomy
  <2>6. Content(at[p], p, p)[n] = Datum(<<at[p], n>>, p, q)
    <3>1. Source(Op(p), p, q) = <<"s", p>>
      BY <2>2 DEF Same, Source
    <3>2. Message(at[p], p, q) = Content(at[p], p, p)
      BY <1>1, <3>1 DEF Message
    <3> QED
      BY <1>1, <3>2 DEF Datum
  <2>7. u \in {Content(at[p], p, p)[n], Garbage}
    BY <1>3 DEF ToSendNext
  <2> QED
    BY <1>1, <2>5, <2>6, <2>7 DEF May
<1> QED
  BY <1>2, <1>3

LEMMA ExchangerSent ==
    ASSUME IInv, NEW p \in Parties, Within(p), phase[p] # "construct", phase'[p] # "construct",
           phase'[p] = "exchange" => kind = "plain",
           phase'[p] \in {"write", "read"} => kind = "crypto",
           phase' \in [Parties -> Phases],
           NEW i \in DOMAIN Pairs(p), ExchangerSends(p, Pairs(p)[i]),
           UNCHANGED <<kind, program, at, stage, made, mem, rx, len, threads, result>>
    PROVE  IInv'
<1>1. PICK q, n : q = Pairs(p)[i].to /\ n = tx[p][q]
  OBVIOUS
<1>2. Types /\ Flow /\ Proper(p) /\ InMemory(p) /\ phase[p] \in ExchangerPhases
  BY DEF IInv, Within
<1>3. Exchanges(p) # <<>> /\ made[p] = Len(Pairs(p)) /\ made[p] \in 0..Len(Pairs(p))
      /\ DOMAIN Pairs(p) = 1..Len(Pairs(p))
  <2>1. Exchanges(p) # <<>>
    BY <1>2 DEF Proper, WithExchangers
  <2> QED
    BY <1>2, <2>1, InStage
<1>4. Peer(Pairs(p)[i], "send") = q
  BY <1>1 DEF Peer
<1>5. q # NoParty /\ n # Op(p).size[p] + 1
  BY <1>1 DEF ExchangerSends, SentAll
<1>6. q \in Parties /\ q # p /\ Uses(at[p], p, q, "send")
  <2>1. Served(p, i, q, "send")
    BY <1>4, <1>5 DEF Served
  <2> QED
    BY <1>2, <1>3, <2>1, InStage DEF Directions
<1>7. Op(p) = Ops[at[p]] /\ Op(p).size[p] \in Nat /\ InOp(p) /\ InOp(p)'
  BY <1>2, Counting, WithinPlace
<1>8. n \in 1..Op(p).size[p]
  <2>1. /\ Moved(p, q, "send") \in -1..Sum(at[p], p, q, "send") /\ Moved(p, q, "send") # 0
        /\ Moved(p, q, "send") # -1
    BY <1>2, <1>3, <1>4, <1>6 DEF Proper, WithExchangers, Directions
  <2> QED
    BY <1>1, <1>5, <1>7, <2>1 DEF Moved, Sum
<1>9. Count(p, q, "send") = n
  BY <1>1, <1>8 DEF Count, Moved
<1>10. PICK u \in ToSendNext(p, Pairs(p)[i]) : Send("sockets", p, q, u, n + 1)
  BY <1>1 DEF ExchangerSends
<1>11. wire' = Upd3(wire, "sockets", p, q, Append(wire["sockets"][p][q], u)) /\ tx' = Upd(tx, p, q, n + 1)
  BY <1>10 DEF Send, Upd, Upd3
<1>11a. u \in May(Position(p, q, "send"), p, q)
  <2>1. Position(p, q, "send") = <<at[p], n>>
    BY <1>7, <1>9 DEF Position
  <2>2. phase[p] # "construct" /\ ToSend(p) /\ HasReceived(p)
    BY <1>2, <1>7 DEF InMemory
  <2> QED
    BY <1>1, <1>2, <1>3, <1>6, <1>7, <1>8, <1>9, <1>10, <2>1, <2>2, SentUnit
<1>12. /\ tx' \in [Parties -> [Parties -> Int]] /\ tx'[p][q] = n + 1
       /\ \A b \in Parties : b # q => tx'[p][b] = tx[p][b]
  BY <1>2, <1>6, <1>8, <1>11, TxAt
<1>13. /\ Moved(p, q, "send")' = n + 1
       /\ \A b \in Parties, d \in Directions :
              (b # q \/ d # "send") => Moved(p, b, d)' = Moved(p, b, d)
  <2>1. rx' = rx
    OBVIOUS
  <2> QED
    BY <1>12, <2>1 DEF Moved, Directions
<1>14. Count(p, q, "send")' = n + 1
  BY <1>8, <1>13 DEF Count
<1>15. \A b \in Parties, d \in Directions : (b # q \/ d # "send") => Count(p, b, d)' = Count(p, b, d)
  BY <1>13, WithinPlace
<1>16. Types'
  <2>1. u \in Units
    <3>1. Program
      BY <1>2 DEF Types, Program
    <3>2. Position(p, q, "send") \in Slots(SocketOf(at[p], p, q), p, q)
      BY <1>2, <1>6, <1>7, <1>8, <1>9, NextUnit
    <3> QED
      BY <1>6, <1>11a, <3>1, <3>2, TrafficIn
  <2>2. "sockets" \in Sockets /\ wire["sockets"][p][q] \in Seq(Units)
    BY <1>2, <1>6 DEF Sockets, Types
  <2>3. Append(wire["sockets"][p][q], u) \in Seq(Units)
    BY <2>1, <2>2
  <2>4. wire' \in [Sockets -> [Parties -> [Parties -> Seq(Units)]]]
    BY <1>2, <1>6, <1>11, <2>2, <2>3, WireAt DEF WireSet
  <2> QED
    BY <1>2, <1>12, <2>4 DEF Types, threads, Phases
<1>17. Flow'
  <2>1. "sockets" \in Sockets /\ "sockets" = SocketOf(at[p], p, q)
    BY <1>2, InRounds DEF Sockets
  <2>2. \A a, b \in Parties, d \in Directions : (a # p \/ b # q \/ d # "send") => Steady(a, b, d)
    <3>1. ASSUME NEW a \in Parties, NEW b \in Parties, NEW d \in Directions,
                 a # p \/ b # q \/ d # "send"
          PROVE  Steady(a, b, d)
      <4>1. CASE a # p
        BY <4>1, StillSteady, WithinPlace
      <4>2. CASE a = p
        <5>1. Moved(p, b, d)' = Moved(p, b, d)
          BY <1>13, <3>1, <4>2
        <5> QED
          BY <4>2, <5>1, WithinPlace, SameIsSteady
      <4> QED
        BY <4>1, <4>2
    <3> QED
      BY <3>1
  <2>3. WireSet("sockets", p, q, Append(wire["sockets"][p][q], u))
    BY <1>11 DEF WireSet
  <2>4. Proper(q) /\ Fixed /\ at[p]' = at[p] /\ Count(p, q, "send")' = Count(p, q, "send") + 1
    BY <1>6, <1>9, <1>14 DEF IInv, Within
  <2>5. Count(p, q, "send") <= Op(p).size[p]
    BY <1>7, <1>8, <1>9
  <2> QED
    BY <1>2, <1>6, <1>7, <1>11a, <2>1, <2>2, <2>3, <2>4, <2>5, SendFlow
<1>18. Proper(p)'
  <2>1. \A b \in Parties, d \in Directions :
            /\ Moved(p, b, d) \in -1..Sum(at[p], p, b, d)
            /\ d = "send" => Moved(p, b, d) # 0
            /\ Moved(p, b, d) # -1 <=> \E j \in 1..made[p] : Peer(Pairs(p)[j], d) = b
    BY <1>2, <1>3 DEF Proper, WithExchangers
  <2>2. \A b \in Parties, d \in Directions :
            /\ Moved(p, b, d)' \in -1..Sum(at[p], p, b, d)
            /\ d = "send" => Moved(p, b, d)' # 0
            /\ Moved(p, b, d)' # -1 <=> Moved(p, b, d) # -1
    <3>1. n + 1 \in -1..Sum(at[p], p, q, "send") /\ n + 1 # 0 /\ n + 1 # -1 /\ Moved(p, q, "send") # -1
      BY <1>1, <1>7, <1>8 DEF Sum, Moved
    <3>2. ASSUME NEW b \in Parties, NEW d \in Directions, b # q \/ d # "send"
          PROVE  Moved(p, b, d)' = Moved(p, b, d)
      BY <1>13, <3>2
    <3>3. Moved(p, q, "send")' = n + 1
      BY <1>13
    <3> QED
      BY <2>1, <3>1, <3>2, <3>3
  <2>3. made'[p] = made[p]
    OBVIOUS
  <2> QED
    BY <1>2, <1>3, <2>1, <2>2, <2>3, WithinProper
<1>19. InMemory(p)'
  <2>1. ToSend(p)'
    <3>1. \A b \in Parties : /\ Count(p, b, "send")' \in Nat
                             /\ Count(p, b, "send")' >= Count(p, b, "send")
      <4>1. \A b \in Parties : Count(p, b, "send") \in Nat
        <5>1. "send" \in Directions
          BY DEF Directions
        <5>2. \A b \in Parties : /\ Sum(at[p], p, b, "send") \in Nat
                                 /\ Count(p, b, "send") \in 0..Sum(at[p], p, b, "send")
          BY <1>2, <1>7, <5>1, Counting
        <5> QED
          BY <5>2
      <4>2. n + 1 \in Nat /\ n + 1 >= n
        BY <1>8
      <4>3. \A b \in Parties : b # q => Count(p, b, "send")' = Count(p, b, "send")
        BY <1>15 DEF Directions
      <4>4. Count(p, q, "send")' \in Nat /\ Count(p, q, "send")' >= Count(p, q, "send")
        BY <1>9, <1>14, <4>2
      <4>5. ASSUME NEW b \in Parties, b # q
            PROVE  Count(p, b, "send")' \in Nat /\ Count(p, b, "send")' >= Count(p, b, "send")
        BY <4>1, <4>3, <4>5
      <4> QED
        BY <4>4, <4>5
    <3>2. ToSend(p) /\ Fixed /\ at'[p] = at[p] /\ mem'[p] = mem[p]
      BY <1>2, <1>7 DEF InMemory, Within
    <3> QED
      BY <1>2, <1>7, <3>1, <3>2, SentMemory
  <2>2. HasReceived(p)'
    <3>1. \A b \in Parties : Uses(at[p], p, b, "receive")' = Uses(at[p], p, b, "receive")
      BY SameOp DEF Within
    <3>2. ASSUME NEW b \in Parties, Uses(at[p], p, b, "receive") PROVE Got(p, b)'
      <4>1. Got(p, b) /\ Fixed /\ at'[p] = at[p]
        BY <1>2, <1>7, <3>2 DEF InMemory, HasReceived, Within
      <4>2. Count(p, b, "receive")' = Count(p, b, "receive")
        BY <1>15 DEF Directions
      <4> QED
        BY <4>1, <4>2, GotMemory
    <3> QED
      BY <3>1, <3>2 DEF HasReceived
  <2> QED
    BY <2>1, <2>2 DEF InMemory
<1> QED
  BY <1>16, <1>17, <1>18, <1>19, StepKeeps, WithinPlace

LEMMA SendsElsewhere ==
    ASSUME IInv, NEW p \in Parties, NEW pair, ExchangerSends(p, pair)
    PROVE  \A a \in Parties : a # p => tx'[a] = tx[a]
<1>1. tx = [a \in Parties |-> tx[a]]
  <2>1. tx \in [Parties -> [Parties -> Int]]
    BY DEF IInv, Types
  <2> QED
    BY <2>1
<1>2. tx' = [tx EXCEPT ![p][pair.to] = tx[p][pair.to] + 1]
  BY DEF ExchangerSends, Send
<1> QED
  BY <1>1, <1>2

LEMMA RoundSendsKeeps ==
    ASSUME IInv, NEW p \in Parties, RoundSends(p)
    PROVE  IInv'
<1>1. PICK i \in DOMAIN Pairs(p) : ExchangerSends(p, Pairs(p)[i])
  BY DEF RoundSends
<1>2. \A a \in Parties : a # p => tx'[a] = tx[a]
  BY <1>1, SendsElsewhere
<1>3. phase[p] = "exchange" /\ phase' = phase
  BY DEF RoundSends
<1>4. Within(p)
  BY <1>2, <1>3 DEF RoundSends, Within, Elsewhere, Fixed, threads, ExchangerPhases
<1>5. kind = "plain" /\ phase' \in [Parties -> Phases]
  BY <1>3 DEF IInv, Proper, WithExchangers, ExchangerPhases, Types, Phases
<1> QED
  BY <1>1, <1>3, <1>4, <1>5, ExchangerSent DEF RoundSends
-----------------------------------------------------------------------------
(* Receiving a unit into memory.                                           *)

LEMMA Overwritten ==
    ASSUME NEW v \in Seq(Units), NEW n \in Nat \ {0}, n - 1 <= Len(v), NEW u \in Units
    PROVE  /\ Overwrite(v, n, u) \in Seq(Units) /\ Len(Overwrite(v, n, u)) \in Nat
           /\ Len(Overwrite(v, n, u)) >= n /\ Len(Overwrite(v, n, u)) >= Len(v)
           /\ Overwrite(v, n, u)[n] = u
           /\ \A j \in 1..Len(v) : j # n => Overwrite(v, n, u)[j] = v[j]
<1>1. CASE n <= Len(v)
  <2>1. Overwrite(v, n, u) = [v EXCEPT ![n] = u]
    BY <1>1 DEF Overwrite
  <2>2. n \in 1..Len(v)
    BY <1>1
  <2>3. /\ [v EXCEPT ![n] = u] \in Seq(Units) /\ Len([v EXCEPT ![n] = u]) = Len(v)
        /\ [v EXCEPT ![n] = u][n] = u
        /\ \A j \in 1..Len(v) : j # n => [v EXCEPT ![n] = u][j] = v[j]
    BY <2>2
  <2> QED
    BY <1>1, <2>1, <2>3
<1>2. CASE ~(n <= Len(v))
  <2>1. Overwrite(v, n, u) = Append(v, u)
    BY <1>2 DEF Overwrite
  <2>2. n = Len(v) + 1
    BY <1>2
  <2>3. /\ Append(v, u) \in Seq(Units) /\ Len(Append(v, u)) = Len(v) + 1
        /\ Append(v, u)[Len(v) + 1] = u
        /\ \A j \in 1..Len(v) : Append(v, u)[j] = v[j]
    OBVIOUS
  <2> QED
    BY <2>1, <2>2, <2>3
<1> QED
  BY <1>1, <1>2

LEMMA LengthGot ==
    ASSUME Types', Fixed, NEW p \in Parties, at'[p] = at[p], NEW q \in Parties,
           Count(p, q, "receive")' = 1, len'[p][q] = Op(p).size[q]
    PROVE  Got(p, q)'
<1>1. /\ Target(Op(p), p, q)' = Target(Op(p), p, q) /\ Op(p)' = Op(p) /\ len[p][q]' = len'[p][q]
  BY SameOp
<1>2. Target(Op(p), p, q) \in Streams
  BY DEF Target, Streams
<1>3. mem[p][Target(Op(p), p, q)]' \in Seq(Units)
  BY <1>1, <1>2 DEF Types
<1>4. Len(mem[p][Target(Op(p), p, q)]') \in Nat
  BY <1>3
<1> QED
  BY <1>1, <1>4 DEF Got

LEMMA UnitGot ==
    ASSUME Types, Fixed, NEW p \in Parties, at'[p] = at[p], NEW q \in Parties, Got(p, q),
           NEW n \in Nat \ {0}, Count(p, q, "receive") = n, Count(p, q, "receive")' = n + 1,
           len'[p][q] = len[p][q], NEW u \in Units, u \in May(<<at[p], n>>, q, p),
           mem'[p][Target(Op(p), p, q)] = Overwrite(mem[p][Target(Op(p), p, q)], n, u)
    PROVE  Got(p, q)'
<1>1. /\ Target(Op(p), p, q)' = Target(Op(p), p, q) /\ Op(p)' = Op(p) /\ at[p]' = at[p]
      /\ \A i : May(<<at[p], i>>, q, p)' = May(<<at[p], i>>, q, p)
  BY SameOp, MayAt
<1>2. PICK v, w, k : v = mem[p][Target(Op(p), p, q)] /\ w = mem'[p][Target(Op(p), p, q)]
                     /\ k = at[p]
  OBVIOUS
<1>3. /\ mem[p][Target(Op(p), p, q)]' = w
      /\ \A i : May(<<at[p], i>>, q, p)' = May(<<k, i>>, q, p)
  BY <1>1, <1>2
<1>4. v \in Seq(Units)
  <2>1. Target(Op(p), p, q) \in Streams
    BY DEF Target, Streams
  <2> QED
    BY <1>2, <2>1 DEF Types
<1>5. n - 1 <= Len(v) /\ \A i \in 1..(n - 1) : v[i] \in May(<<k, i>>, q, p)
  BY <1>2 DEF Got
<1>6. w = Overwrite(v, n, u) /\ u \in May(<<k, n>>, q, p)
  BY <1>2
<1>7. /\ Len(w) \in Nat /\ Len(w) >= n /\ w[n] = u
      /\ \A j \in 1..Len(v) : j # n => w[j] = v[j]
  <2>1. n - 1 <= Len(v) /\ w = Overwrite(v, n, u)
    BY <1>5, <1>6
  <2>2. /\ Len(Overwrite(v, n, u)) \in Nat /\ Len(Overwrite(v, n, u)) >= n
        /\ Overwrite(v, n, u)[n] = u
        /\ \A j \in 1..Len(v) : j # n => Overwrite(v, n, u)[j] = v[j]
    BY <1>4, <2>1, Overwritten
  <2> QED
    BY <2>1, <2>2
<1>8. \A i \in 1..n : w[i] \in May(<<k, i>>, q, p)
  <2>1. ASSUME NEW i \in 1..n, i # n PROVE w[i] \in May(<<k, i>>, q, p)
    <3>1. i \in 1..(n - 1) /\ i \in 1..Len(v)
      BY <1>4, <1>5, <2>1
    <3> QED
      BY <1>5, <1>7, <2>1, <3>1
  <2> QED
    BY <1>6, <1>7, <2>1
<1>9. len[p][q]' = Op(p).size[q]
  BY DEF Got
<1>10. (n + 1) - 1 = n
  OBVIOUS
<1> QED
  BY <1>1, <1>3, <1>7, <1>8, <1>9, <1>10 DEF Got

\* What is found in a socket, and how long the message is.
LEMMA Found ==
    ASSUME Types, Flow, NEW p \in Parties, NEW q \in Parties, Proper(p), Proper(q), InOp(p),
           Uses(at[p], p, q, "receive"), NEW n, Count(p, q, "receive") = n, n <= Op(p).size[q],
           NEW s \in Sockets, s = SocketOf(at[p], q, p), wire[s][q][p] # <<>>
    PROVE  /\ n \in Nat /\ Op(p).size[q] \in Nat
           /\ n = 0 => Decode(Head(wire[s][q][p])) = Op(p).size[q]
           /\ Head(wire[s][q][p]) \in May(<<at[p], n>>, q, p)
           /\ Head(wire[s][q][p]) \in Units
<1>1. /\ Position(p, q, "receive") = <<at[p], n>>
      /\ Position(p, q, "receive") \in Slots(s, q, p)
  BY NextUnit
<1>2. Head(wire[s][q][p]) \in May(<<at[p], n>>, q, p)
  BY <1>1, Awaited
<1>3. Head(wire[s][q][p]) \in Units
  <2>1. Program
    BY Counting
  <2> QED
    BY <1>1, <1>2, <2>1, TrafficIn
<1>4. Op(p) = Ops[at[p]] /\ Op(p).size[q] \in Nat
  BY Counting
<1>5. n \in Nat
  <2>1. "receive" \in Directions
    BY DEF Directions
  <2>2. Sum(at[p], p, q, "receive") \in Nat /\ n \in 0..Sum(at[p], p, q, "receive")
    BY <2>1, Counting
  <2> QED
    BY <2>2
<1>6. n = 0 => May(<<at[p], n>>, q, p) = {Header(Op(p).size[q])}
  BY <1>4 DEF May, Datum
<1> QED
  BY <1>2, <1>3, <1>4, <1>5, <1>6 DEF Decode, Header

\* With a stream of its own for each party, receiving leaves alone what is sent and what
\* comes from others.
LEMMA TargetApart ==
    ASSUME NEW p \in Parties, ~Same(Op(p))
    PROVE  /\ \A q, b : <<"s", b>> # Target(Op(p), p, q)
           /\ \A q, b : q # b => Target(Op(p), p, q) # Target(Op(p), p, b)
           /\ \A q \in Parties : Target(Op(p), p, q) \in Streams
  BY DEF Target, Streams
-----------------------------------------------------------------------------
(* An Exchanger receives the length or a unit.                             *)

\* Into the stream that is sent, units are received behind what is still to be sent.
LEMMA SentFirst ==
    ASSUME Types, NEW p \in Parties, Proper(p), phase[p] \in ExchangerPhases, phase[p] # "construct",
           Exchanges(p) # <<>>, Same(Op(p)), ToSend(p), Fixed, at'[p] = at[p],
           NEW i \in DOMAIN Pairs(p), NEW n \in Nat \ {0}, rx[p][Pairs(p)[i].from] = n,
           MayReceive(p, Pairs(p)[i]), NEW u \in Units,
           n - 1 <= Len(mem[p][<<"s", p>>]),
           mem'[p][<<"s", p>>] = Overwrite(mem[p][<<"s", p>>], n, u),
           \A b \in Parties : Count(p, b, "send")' = Count(p, b, "send")
    PROVE  ToSend(p)'
<1>1. PICK a : a = Pairs(p)[i].to
  OBVIOUS
<1>2. a \in Parties /\ \A q : Uses(at[p], p, q, "send") <=> q = a
  BY <1>1, OnePeer
<1>3. PICK v, w, c : v = mem[p][<<"s", p>>] /\ w = mem'[p][<<"s", p>>] /\ c = Count(p, a, "send")
  OBVIOUS
<1>4. v \in Seq(Units)
  BY <1>3 DEF Types, Streams
<1>5. /\ Len(v) >= Op(p).size[p]
      /\ \A j \in 1..Op(p).size[p] : j >= c => v[j] = Unit(at[p], p, p, j)
  BY <1>2, <1>3 DEF ToSend
<1>6. /\ Len(w) \in Nat /\ Len(w) >= Len(v)
      /\ \A j \in 1..Len(v) : j # n => w[j] = v[j]
  <2>1. w = Overwrite(v, n, u) /\ n - 1 <= Len(v)
    BY <1>3
  <2>2. /\ Len(Overwrite(v, n, u)) \in Nat /\ Len(Overwrite(v, n, u)) >= Len(v)
        /\ \A j \in 1..Len(v) : j # n => Overwrite(v, n, u)[j] = v[j]
    BY <1>4, <2>1, Overwritten
  <2> QED
    BY <2>1, <2>2
<1>7. Op(p).size[p] \in Nat /\ Op(p) = Ops[at[p]]
  BY Counting, InRounds
<1>8. c \in 1..(Op(p).size[p] + 1) /\ c = tx[p][a]
  <2>1. /\ Moved(p, a, "send") \in -1..Sum(at[p], p, a, "send") /\ Moved(p, a, "send") # 0
    BY <1>2 DEF Proper, WithExchangers, Directions
  <2>2. Moved(p, a, "send") # -1
    <3>1. made[p] = Len(Pairs(p)) /\ DOMAIN Pairs(p) = 1..Len(Pairs(p))
      BY InStage
    <3>2. Peer(Pairs(p)[i], "send") = a
      BY <1>1 DEF Peer
    <3> QED
      BY <1>2, <3>1, <3>2 DEF Proper, WithExchangers, Directions
  <2> QED
    BY <1>3, <1>7, <2>1, <2>2 DEF Count, Moved, Sum
<1>9. c = Op(p).size[p] + 1 \/ c > n
  <2>1. a # NoParty
    BY <1>2, TheParties
  <2> QED
    BY <1>1, <1>8, <2>1 DEF MayReceive, SentAll
<1>10. \A j \in 1..Op(p).size[p] : j >= c => w[j] = Unit(at[p], p, p, j)
  <2>1. ASSUME NEW j \in 1..Op(p).size[p], j >= c PROVE w[j] = v[j]
    <3>1. j # n /\ j \in 1..Len(v)
      BY <1>4, <1>5, <1>7, <1>8, <1>9, <2>1
    <3> QED
      BY <1>6, <3>1
  <2> QED
    BY <1>5, <2>1
<1>11. Len(w) >= Op(p).size[p]
  BY <1>4, <1>5, <1>6, <1>7
<1>12. /\ Same(Op(p))' = Same(Op(p)) /\ Op(p)' = Op(p) /\ at[p]' = at[p]
       /\ mem[p][<<"s", p>>]' = w /\ Count(p, a, "send")' = c
       /\ \A j : Unit(at[p], p, p, j)' = Unit(at[p], p, p, j)
       /\ \A q, d : Uses(at[p], p, q, d)' = Uses(at[p], p, q, d)
  BY <1>2, <1>3, SameOp
<1>13. c # 0
  BY <1>7, <1>8
<1>14. ASSUME NEW q \in Parties, Uses(at[p], p, q, "send")'
       PROVE  q = a
  BY <1>2, <1>12, <1>14
<1> QED
  BY <1>10, <1>11, <1>12, <1>13, <1>14 DEF ToSend

LEMMA ExchangerReceived ==
    ASSUME IInv, NEW p \in Parties, Within(p), phase[p] # "construct", phase'[p] # "construct",
           phase'[p] = "exchange" => kind = "plain",
           phase'[p] \in {"write", "read"} => kind = "crypto",
           phase' \in [Parties -> Phases],
           NEW i \in DOMAIN Pairs(p), ExchangerReceives(p, Pairs(p)[i]),
           UNCHANGED <<kind, program, at, stage, made, tx, threads, result>>
    PROVE  IInv'
<1>1. Types /\ Flow /\ Proper(p) /\ InMemory(p) /\ phase[p] \in ExchangerPhases
  BY DEF IInv, Within
<1>2. Exchanges(p) # <<>> /\ made[p] = Len(Pairs(p)) /\ made[p] \in 0..Len(Pairs(p))
      /\ DOMAIN Pairs(p) = 1..Len(Pairs(p))
  <2>1. Exchanges(p) # <<>>
    BY <1>1 DEF Proper, WithExchangers
  <2> QED
    BY <1>1, <2>1, InStage
<1>3. PICK q, n : q = Pairs(p)[i].from /\ n = rx[p][q]
  OBVIOUS
<1>4. Peer(Pairs(p)[i], "receive") = q
  BY <1>3 DEF Peer
<1>5. q # NoParty /\ ~(n > 0 /\ n > len[p][q])
  BY <1>3 DEF ExchangerReceives, Received
<1>6. q \in Parties /\ q # p /\ Uses(at[p], p, q, "receive")
  <2>1. Served(p, i, q, "receive")
    BY <1>4, <1>5 DEF Served
  <2> QED
    BY <1>1, <1>2, <2>1, InStage DEF Directions
<1>7. Op(p) = Ops[at[p]] /\ Op(p).size[q] \in Nat /\ InOp(p) /\ InOp(p)'
  BY <1>1, <1>6, Counting, WithinPlace
<1>8. n # -1 /\ n \in 0..(Op(p).size[q] + 1) /\ Count(p, q, "receive") = n
  <2>1. /\ Moved(p, q, "receive") \in -1..Sum(at[p], p, q, "receive")
        /\ Moved(p, q, "receive") # -1
    BY <1>1, <1>2, <1>4, <1>6 DEF Proper, WithExchangers, Directions
  <2> QED
    BY <1>3, <1>7, <2>1 DEF Moved, Sum, Count
<1>9. Got(p, q) /\ ToSend(p)
  BY <1>1, <1>6, <1>7 DEF InMemory, HasReceived
<1>10. n <= Op(p).size[q]
  BY <1>5, <1>7, <1>8, <1>9 DEF Got
<1>11. /\ wire["sockets"][q][p] # <<>> /\ rx' = Upd(rx, p, q, n + 1)
       /\ WireSet("sockets", q, p, Tail(wire["sockets"][q][p]))
  <2>1. CASE n = 0
    BY <1>3, <2>1 DEF ExchangerReceives, ReceiveLength, Receive, Upd, Upd3, WireSet
  <2>2. CASE n # 0
    BY <1>3, <2>2 DEF ExchangerReceives, ReceiveUnit, Receive, Upd, Upd3, WireSet
  <2> QED
    BY <2>1, <2>2
<1>12. "sockets" \in Sockets /\ "sockets" = SocketOf(at[p], q, p)
  BY <1>1, InRounds DEF Sockets
<1>13. Proper(q)
  BY <1>6 DEF IInv
<1>14. /\ n = 0 => Decode(Head(wire["sockets"][q][p])) = Op(p).size[q]
       /\ Head(wire["sockets"][q][p]) \in May(<<at[p], n>>, q, p)
       /\ Head(wire["sockets"][q][p]) \in Units
  BY <1>1, <1>6, <1>7, <1>8, <1>10, <1>11, <1>12, <1>13, Found
<1>15. PICK x, u : x = Target(Op(p), p, q) /\ u = Head(wire["sockets"][q][p])
  OBVIOUS
<1>16. x \in Streams
  BY <1>6, <1>15 DEF Target, Streams
<1>17. /\ rx' \in [Parties -> [Parties -> Int]] /\ rx'[p][q] = n + 1
       /\ \A b \in Parties : b # q => rx'[p][b] = rx[p][b]
  BY <1>1, <1>6, <1>8, <1>11, RxAt
<1>18. /\ Moved(p, q, "receive")' = n + 1
       /\ \A b \in Parties, d \in Directions :
              (b # q \/ d # "receive") => Moved(p, b, d)' = Moved(p, b, d)
  <2>1. tx' = tx
    OBVIOUS
  <2> QED
    BY <1>17, <2>1 DEF Moved, Directions
<1>19. Count(p, q, "receive")' = n + 1
  BY <1>8, <1>18 DEF Count
<1>20. \A b \in Parties, d \in Directions :
           (b # q \/ d # "receive") => Count(p, b, d)' = Count(p, b, d)
  BY <1>18, WithinPlace
<1>21. Fixed /\ at'[p] = at[p]
  BY DEF Within
<1>22. \/ n = 0 /\ mem' = mem /\ len' = Upd(len, p, q, Op(p).size[q])
       \/ /\ n # 0 /\ len' = len /\ MayReceive(p, Pairs(p)[i])
          /\ mem' = Upd(mem, p, x, Overwrite(mem[p][x], n, u))
  <2>1. CASE n = 0
    BY <1>3, <1>14, <2>1 DEF ExchangerReceives, ReceiveLength, Upd
  <2>2. CASE n # 0
    BY <1>3, <1>14, <1>15, <2>2 DEF ExchangerReceives, ReceiveUnit, Upd
  <2> QED
    BY <2>1, <2>2
<1>23. n # 0 => n \in Nat \ {0} /\ n - 1 <= Len(mem[p][x])
  BY <1>8, <1>9, <1>15 DEF Got
<1>24. mem[p][x] \in Seq(Units)
  BY <1>1, <1>16 DEF Types
<1>25. n # 0 => Overwrite(mem[p][x], n, u) \in Seq(Units)
  BY <1>14, <1>15, <1>23, <1>24, Overwritten
<1>26. /\ mem' \in [Parties -> [Streams -> Seq(Units)]]
       /\ len' \in [Parties -> [Parties -> Nat]]
  <2>1. CASE n = 0
    <3>1. len' \in [Parties -> [Parties -> Nat]]
      BY <1>1, <1>6, <1>7, <1>22, <2>1, LenAt
    <3> QED
      BY <1>1, <1>22, <2>1, <3>1 DEF Types
  <2>2. CASE n # 0
    <3>1. mem' \in [Parties -> [Streams -> Seq(Units)]]
      BY <1>1, <1>16, <1>22, <1>25, <2>2, MemAt
    <3> QED
      BY <1>1, <1>22, <2>2, <3>1 DEF Types
  <2> QED
    BY <2>1, <2>2
<1>27. Types'
  <2>1. wire["sockets"][q][p] \in Seq(Units)
    BY <1>1, <1>6, <1>12 DEF Types
  <2>2. PICK v : v = Tail(wire["sockets"][q][p])
    OBVIOUS
  <2>3. v \in Seq(Units) /\ WireSet("sockets", q, p, v)
    BY <1>11, <2>1, <2>2
  <2>4. wire' \in [Sockets -> [Parties -> [Parties -> Seq(Units)]]]
    BY <1>1, <1>6, <1>12, <2>3, WireAt
  <2> QED
    BY <1>1, <1>17, <1>26, <2>4 DEF Types, threads, Phases
<1>28. Flow'
  <2>1. \A a, b \in Parties, d \in Directions : (a # p \/ b # q \/ d # "receive") => Steady(a, b, d)
    <3>1. ASSUME NEW a \in Parties, NEW b \in Parties, NEW d \in Directions,
                 a # p \/ b # q \/ d # "receive"
          PROVE  Steady(a, b, d)
      <4>1. CASE a # p
        BY <4>1, StillSteady, WithinPlace
      <4>2. CASE a = p
        <5>1. Moved(p, b, d)' = Moved(p, b, d)
          BY <1>18, <3>1, <4>2
        <5> QED
          BY <4>2, <5>1, WithinPlace, SameIsSteady
      <4> QED
        BY <4>1, <4>2
    <3> QED
      BY <3>1
  <2>2. /\ at[p]' = at[p] /\ Count(p, q, "receive")' = Count(p, q, "receive") + 1
        /\ Count(p, q, "receive") <= Op(p).size[q]
    BY <1>8, <1>10, <1>19, <1>21
  <2> QED
    BY <1>1, <1>6, <1>7, <1>11, <1>12, <1>13, <1>21, <2>1, <2>2, ReceiveFlow
<1>29. Proper(p)'
  <2>1. \A b \in Parties, d \in Directions :
            /\ Moved(p, b, d) \in -1..Sum(at[p], p, b, d)
            /\ d = "send" => Moved(p, b, d) # 0
            /\ Moved(p, b, d) # -1 <=> \E j \in 1..made[p] : Peer(Pairs(p)[j], d) = b
    BY <1>1, <1>2 DEF Proper, WithExchangers
  <2>2. \A b \in Parties, d \in Directions :
            /\ Moved(p, b, d)' \in -1..Sum(at[p], p, b, d)
            /\ d = "send" => Moved(p, b, d)' # 0
            /\ Moved(p, b, d)' # -1 <=> Moved(p, b, d) # -1
    <3>1. n + 1 \in -1..Sum(at[p], p, q, "receive") /\ n + 1 # -1 /\ Moved(p, q, "receive") # -1
      BY <1>3, <1>7, <1>8, <1>10 DEF Sum, Moved
    <3>2. ASSUME NEW b \in Parties, NEW d \in Directions, b # q \/ d # "receive"
          PROVE  Moved(p, b, d)' = Moved(p, b, d)
      BY <1>18, <3>2
    <3>3. Moved(p, q, "receive")' = n + 1
      BY <1>18
    <3> QED
      BY <2>1, <3>1, <3>2, <3>3
  <2>3. made'[p] = made[p]
    OBVIOUS
  <2> QED
    BY <1>1, <1>2, <2>1, <2>2, <2>3, WithinProper
<1>30. \A b \in Parties : Count(p, b, "send")' = Count(p, b, "send")
  BY <1>20 DEF Directions
<1>31. \A b \in Parties : b # q => Count(p, b, "receive")' = Count(p, b, "receive")
  BY <1>20 DEF Directions
<1>32. ASSUME mem'[p] = mem[p] PROVE ToSend(p)'
  <2>1. "send" \in Directions
    BY DEF Directions
  <2>2. \A b \in Parties : /\ Sum(at[p], p, b, "send") \in Nat
                           /\ Count(p, b, "send") \in 0..Sum(at[p], p, b, "send")
    BY <1>1, <1>7, <2>1, Counting
  <2>3. \A b \in Parties : /\ Count(p, b, "send")' \in Nat
                           /\ Count(p, b, "send")' >= Count(p, b, "send")
    BY <1>30, <2>2
  <2> QED
    BY <1>1, <1>7, <1>9, <1>21, <1>32, <2>3, SentMemory
<1>33. ToSend(p)'
  <2>1. CASE n = 0
    BY <1>22, <1>32, <2>1
  <2>2. CASE n # 0 /\ Same(Op(p))
    <3>1. x = <<"s", p>>
      BY <1>15, <2>2 DEF Target
    <3>2. mem'[p][x] = Overwrite(mem[p][x], n, u) /\ u \in Units
      BY <1>1, <1>14, <1>15, <1>16, <1>22, <1>25, <2>2, MemAt
    <3>3. phase[p] # "construct" /\ rx[p][Pairs(p)[i].from] = n /\ MayReceive(p, Pairs(p)[i])
      BY <1>3, <1>22, <2>2
    <3> QED
      BY <1>1, <1>2, <1>9, <1>21, <1>23, <1>30, <2>2, <3>1, <3>2, <3>3, SentFirst
  <2>3. CASE n # 0 /\ ~Same(Op(p))
    <3>1. \A y \in Streams : y # x => mem'[p][y] = mem[p][y]
      BY <1>1, <1>16, <1>22, <1>25, <2>3, MemAt
    <3>2. \A b \in Parties : mem'[p][<<"s", b>>] = mem[p][<<"s", b>>]
      BY <1>15, <2>3, <3>1, TargetApart DEF Streams
    <3>3. /\ Same(Op(p))' = Same(Op(p)) /\ \A b : Content(at[p], p, b)' = Content(at[p], p, b)
      BY <1>21, SameOp
    <3>4. \A b \in Parties : mem[p][<<"s", b>>]' = Content(at[p], p, b)'
      BY <1>9, <2>3, <3>2, <3>3 DEF ToSend
    <3> QED
      BY <2>3, <3>3, <3>4 DEF ToSend
  <2> QED
    BY <2>1, <2>2, <2>3
<1>34. Got(p, q)'
  <2>1. CASE n = 0
    <3>1. len'[p][q] = Op(p).size[q]
      BY <1>1, <1>6, <1>7, <1>22, <2>1, LenAt
    <3> QED
      BY <1>6, <1>19, <1>21, <1>27, <2>1, <3>1, LengthGot
  <2>2. CASE n # 0
    <3>1. /\ mem'[p][x] = Overwrite(mem[p][x], n, u)
          /\ u \in Units /\ u \in May(<<at[p], n>>, q, p)
      BY <1>1, <1>14, <1>15, <1>16, <1>22, <1>25, <2>2, MemAt
    <3>2. len'[p][q] = len[p][q]
      BY <1>22, <2>2
    <3> QED
      BY <1>1, <1>6, <1>8, <1>9, <1>15, <1>19, <1>21, <1>23, <2>2, <3>1, <3>2, UnitGot
  <2> QED
    BY <2>1, <2>2
<1>35. ASSUME NEW b \in Parties, b # q, Uses(at[p], p, b, "receive") PROVE Got(p, b)'
  <2>1. Got(p, b) /\ Count(p, b, "receive")' = Count(p, b, "receive")
    BY <1>1, <1>7, <1>31, <1>35 DEF InMemory, HasReceived
  <2>2. len'[p][b] = len[p][b]
    <3>1. CASE n = 0
      BY <1>1, <1>6, <1>7, <1>22, <1>35, <3>1, LenAt
    <3>2. CASE n # 0
      BY <1>22, <3>2
    <3> QED
      BY <3>1, <3>2
  <2>3. mem'[p][Target(Op(p), p, b)] = mem[p][Target(Op(p), p, b)]
    <3>1. CASE n = 0
      BY <1>22, <3>1
    <3>2. CASE n # 0
      <4>1. ~Same(Op(p))
        BY <1>1, <1>2, <1>3, <1>35, OnePeer
      <4>2. \A y \in Streams : y # x => mem'[p][y] = mem[p][y]
        BY <1>1, <1>16, <1>22, <1>25, <3>2, MemAt
      <4> QED
        BY <1>15, <1>35, <4>1, <4>2, TargetApart
    <3> QED
      BY <3>1, <3>2
  <2> QED
    BY <1>21, <2>1, <2>2, <2>3, GotMemory
<1>36. InMemory(p)'
  <2>1. \A b : Uses(at[p], p, b, "receive")' = Uses(at[p], p, b, "receive")
    BY <1>21, SameOp
  <2> QED
    BY <1>33, <1>34, <1>35, <2>1 DEF InMemory, HasReceived
<1> QED
  BY <1>27, <1>28, <1>29, <1>36, StepKeeps, WithinPlace

LEMMA ReceivesElsewhere ==
    ASSUME IInv, NEW p \in Parties, NEW pair, ExchangerReceives(p, pair)
    PROVE  \A a \in Parties : a # p => rx'[a] = rx[a] /\ len'[a] = len[a] /\ mem'[a] = mem[a]
<1>1. /\ rx = [a \in Parties |-> rx[a]] /\ len = [a \in Parties |-> len[a]]
      /\ mem = [a \in Parties |-> mem[a]]
  <2>1. /\ rx \in [Parties -> [Parties -> Int]] /\ len \in [Parties -> [Parties -> Nat]]
        /\ mem \in [Parties -> [Streams -> Seq(Units)]]
    BY DEF IInv, Types
  <2> QED
    BY <2>1
<1>2. CASE rx[p][pair.from] = 0
  <2>1. /\ rx' = [rx EXCEPT ![p][pair.from] = 1] /\ mem' = mem
        /\ len' = [len EXCEPT ![p][pair.from] = Decode(Head(wire["sockets"][pair.from][p]))]
    BY <1>2 DEF ExchangerReceives, ReceiveLength, Receive
  <2> QED
    BY <1>1, <2>1
<1>3. CASE rx[p][pair.from] # 0
  <2>1. /\ rx' = [rx EXCEPT ![p][pair.from] = rx[p][pair.from] + 1] /\ len' = len
        /\ mem' = [mem EXCEPT ![p][Target(Op(p), p, pair.from)]
                       = Overwrite(@, rx[p][pair.from], Head(wire["sockets"][pair.from][p]))]
    BY <1>3 DEF ExchangerReceives, ReceiveUnit, Receive
  <2> QED
    BY <1>1, <2>1
<1> QED
  BY <1>2, <1>3

LEMMA RoundReceivesKeeps ==
    ASSUME IInv, NEW p \in Parties, RoundReceives(p)
    PROVE  IInv'
<1>1. PICK i \in DOMAIN Pairs(p) : ExchangerReceives(p, Pairs(p)[i])
  BY DEF RoundReceives
<1>2. \A a \in Parties : a # p => rx'[a] = rx[a] /\ len'[a] = len[a] /\ mem'[a] = mem[a]
  BY <1>1, ReceivesElsewhere
<1>3. phase[p] = "exchange" /\ phase' = phase
  BY DEF RoundReceives
<1>4. Within(p)
  BY <1>2, <1>3 DEF RoundReceives, Within, Elsewhere, Fixed, threads, ExchangerPhases
<1>5. kind = "plain" /\ phase' \in [Parties -> Phases]
  BY <1>3 DEF IInv, Proper, WithExchangers, ExchangerPhases, Types, Phases
<1> QED
  BY <1>1, <1>3, <1>4, <1>5, ExchangerReceived DEF RoundReceives

\* A call on an encrypted socket that does not move anything.
LEMMA OnlyPhase ==
    ASSUME IInv, NEW p \in Parties, Within(p), phase[p] # "construct", phase'[p] # "construct",
           phase'[p] = "exchange" => kind = "plain",
           phase'[p] \in {"write", "read"} => kind = "crypto",
           phase' \in [Parties -> Phases],
           UNCHANGED <<kind, program, at, stage, made, mem, tx, rx, len, wire, threads, result>>
    PROVE  IInv'
<1>1. Types /\ Flow /\ Proper(p) /\ InMemory(p) /\ phase[p] \in ExchangerPhases
  BY DEF IInv, Within
<1>2. Exchanges(p) # <<>> /\ made[p] = Len(Pairs(p)) /\ made[p] \in 0..Len(Pairs(p))
  <2>1. Exchanges(p) # <<>>
    BY <1>1 DEF Proper, WithExchangers
  <2> QED
    BY <1>1, <2>1, InStage
<1>3. Types'
  BY <1>1 DEF Types, threads, Phases
<1>4. \A q, d : Moved(p, q, d)' = Moved(p, q, d)
  BY DEF Moved
<1>5. \A q, d : Count(p, q, d)' = Count(p, q, d) /\ Position(p, q, d)' = Position(p, q, d)
  BY <1>4, WithinPlace
<1>6. Fixed /\ at'[p] = at[p] /\ made'[p] = made[p] /\ wire' = wire /\ mem'[p] = mem[p] /\ len'[p] = len[p]
  BY DEF Within
<1>7. Flow'
  <2>1. ASSUME NEW a \in Parties, NEW b \in Parties, NEW d \in Directions PROVE Steady(a, b, d)
    BY <1>5, SameIsSteady, StillSteady, WithinPlace
  <2> QED
    BY <1>1, <1>6, <2>1, QuietFlow
<1>8. Proper(p)'
  <2>1. \A b \in Parties, d \in Directions :
            /\ Moved(p, b, d) \in -1..Sum(at[p], p, b, d)
            /\ d = "send" => Moved(p, b, d) # 0
            /\ Moved(p, b, d) # -1 <=> \E j \in 1..made[p] : Peer(Pairs(p)[j], d) = b
    BY <1>1, <1>2 DEF Proper, WithExchangers
  <2> QED
    BY <1>1, <1>2, <1>4, <1>6, <2>1, WithinProper
<1>9. InOp(p)
  BY WithinPlace
<1>10. ToSend(p)'
  <2>1. "send" \in Directions
    BY DEF Directions
  <2>2. \A b \in Parties : /\ Sum(at[p], p, b, "send") \in Nat
                           /\ Count(p, b, "send") \in 0..Sum(at[p], p, b, "send")
    BY <1>1, <1>9, <2>1, Counting
  <2>3. \A b \in Parties : /\ Count(p, b, "send")' \in Nat
                           /\ Count(p, b, "send")' >= Count(p, b, "send")
    BY <1>5, <2>2
  <2> QED
    BY <1>1, <1>6, <1>9, <2>3, SentMemory DEF InMemory
<1>11. ASSUME NEW b \in Parties, Uses(at[p], p, b, "receive")' PROVE Got(p, b)'
  <2>1. Uses(at[p], p, b, "receive")
    BY <1>6, <1>11, SameOp
  <2>2. Got(p, b) /\ len'[p][b] = len[p][b]
        /\ mem'[p][Target(Op(p), p, b)] = mem[p][Target(Op(p), p, b)]
    BY <1>1, <1>6, <1>9, <2>1 DEF InMemory, HasReceived
  <2> QED
    BY <1>5, <1>6, <2>2, GotMemory
<1> QED
  BY <1>3, <1>7, <1>8, <1>10, <1>11, StepKeeps, WithinPlace DEF InMemory, HasReceived

LEMMA RoundWritesKeeps ==
    ASSUME IInv, NEW p \in Parties, RoundWrites(p)
    PROVE  IInv'
<1>1. phase[p] = "write" /\ Goto(p, "read")
  BY DEF RoundWrites
<1>2. /\ phase' \in [Parties -> Phases] /\ phase'[p] = "read"
      /\ \A a \in Parties : a # p => phase'[a] = phase[a]
  BY <1>1, PhaseAt DEF IInv, Phases
<1>3. kind = "crypto" /\ 1 \in DOMAIN Pairs(p)
  <2>1. Types /\ Proper(p) /\ phase[p] \in ExchangerPhases
    BY <1>1 DEF IInv, ExchangerPhases
  <2>2. kind = "crypto" /\ Exchanges(p) # <<>>
    BY <1>1, <2>1 DEF Proper, WithExchangers
  <2> QED
    BY <2>1, <2>2, InStage
<1>4. CASE UNCHANGED <<wire, tx>>
  <2>1. Within(p)
    BY <1>1, <1>2, <1>4 DEF RoundWrites, Within, Elsewhere, Fixed, threads, ExchangerPhases
  <2> QED
    BY <1>1, <1>2, <1>3, <1>4, <2>1, OnlyPhase DEF RoundWrites
<1>5. CASE ExchangerSends(p, Pairs(p)[1])
  <2>1. Within(p)
    BY <1>1, <1>2, <1>5, SendsElsewhere
       DEF RoundWrites, Within, Elsewhere, Fixed, threads, ExchangerPhases
  <2> QED
    BY <1>1, <1>2, <1>3, <1>5, <2>1, ExchangerSent DEF RoundWrites
<1> QED
  BY <1>4, <1>5 DEF RoundWrites

LEMMA RoundReadsKeeps ==
    ASSUME IInv, NEW p \in Parties, RoundReads(p)
    PROVE  IInv'
<1>1. phase[p] = "read" /\ Goto(p, "write")
  BY DEF RoundReads
<1>2. /\ phase' \in [Parties -> Phases] /\ phase'[p] = "write"
      /\ \A a \in Parties : a # p => phase'[a] = phase[a]
  BY <1>1, PhaseAt DEF IInv, Phases
<1>3. kind = "crypto" /\ 1 \in DOMAIN Pairs(p)
  <2>1. Types /\ Proper(p) /\ phase[p] \in ExchangerPhases
    BY <1>1 DEF IInv, ExchangerPhases
  <2>2. kind = "crypto" /\ Exchanges(p) # <<>>
    BY <1>1, <2>1 DEF Proper, WithExchangers
  <2> QED
    BY <2>1, <2>2, InStage
<1>4. CASE UNCHANGED <<mem, rx, len, wire>>
  <2>1. Within(p)
    BY <1>1, <1>2, <1>4 DEF RoundReads, Within, Elsewhere, Fixed, threads, ExchangerPhases
  <2> QED
    BY <1>1, <1>2, <1>3, <1>4, <2>1, OnlyPhase DEF RoundReads
<1>5. CASE ExchangerReceives(p, Pairs(p)[1])
  <2>1. Within(p)
    BY <1>1, <1>2, <1>5, ReceivesElsewhere
       DEF RoundReads, Within, Elsewhere, Fixed, threads, ExchangerPhases
  <2> QED
    BY <1>1, <1>2, <1>3, <1>5, <2>1, ExchangerReceived DEF RoundReads
<1> QED
  BY <1>4, <1>5 DEF RoundReads
-----------------------------------------------------------------------------
(* An Exchanger is constructed, and sends the length.                      *)

LEMMA ConstructKeeps ==
    ASSUME IInv, NEW p \in Parties, Construct(p)
    PROVE  IInv'
<1>1. Types /\ Flow /\ Proper(p) /\ InMemory(p) /\ phase[p] = "construct" /\ phase[p] \in ExchangerPhases
      /\ Exchanges(p) # <<>>
  BY DEF IInv, Construct, ExchangerPhases
<1>2. PICK j, pair, a, b : /\ j = made[p] + 1 /\ pair = Pairs(p)[made[p] + 1]
                           /\ a = pair.to /\ b = pair.from
  OBVIOUS
<1>3. /\ DOMAIN Pairs(p) = 1..Len(Pairs(p)) /\ Len(Pairs(p)) \in Nat /\ made[p] \in Nat
      /\ made[p] < Len(Pairs(p)) /\ j \in DOMAIN Pairs(p)
  <2>1. DOMAIN Pairs(p) = 1..Len(Pairs(p)) /\ Len(Pairs(p)) \in Nat /\ made[p] \in 0..Len(Pairs(p))
    BY <1>1, InStage
  <2>2. made[p] < Len(Pairs(p))
    BY <1>1 DEF Proper, WithExchangers
  <2> QED
    BY <1>2, <2>1, <2>2
<1>4. pair = Pairs(p)[j] /\ Peer(Pairs(p)[j], "send") = a /\ Peer(Pairs(p)[j], "receive") = b
  BY <1>2 DEF Peer
<1>5. ASSUME NEW d \in Directions, NEW q, Peer(Pairs(p)[j], d) = q, q # NoParty
      PROVE  /\ q \in Parties /\ q # p /\ Uses(at[p], p, q, d) /\ ~Done(p, q, d)
             /\ Moved(p, q, d) = -1 /\ Count(p, q, d) = 0
  <2>1. Served(p, j, q, d)
    BY <1>3, <1>5 DEF Served
  <2>2. /\ q \in Parties /\ q # p /\ Uses(at[p], p, q, d) /\ ~Done(p, q, d)
        /\ \A i \in DOMAIN Pairs(p) : Peer(Pairs(p)[i], d) = q => i = j
    BY <1>1, <2>1, InStage
  <2>3. \A i \in 1..made[p] : i \in DOMAIN Pairs(p) /\ i # j
    BY <1>2, <1>3
  <2>4. Moved(p, q, d) = -1
    BY <1>1, <2>2, <2>3 DEF Proper, WithExchangers
  <2> QED
    BY <2>2, <2>4 DEF Count
<1>6. /\ a # NoParty => /\ a \in Parties /\ a # p /\ Uses(at[p], p, a, "send")
                        /\ Moved(p, a, "send") = -1 /\ Count(p, a, "send") = 0
      /\ b # NoParty => /\ b \in Parties /\ b # p /\ ~Done(p, b, "receive")
                        /\ Moved(p, b, "receive") = -1 /\ Count(p, b, "receive") = 0
  BY <1>4, <1>5 DEF Directions
<1>7. PICK n : n = Len(mem[p][Source(Op(p), p, a)])
  OBVIOUS
<1>8. /\ IF a = NoParty THEN wire' = wire /\ tx' = tx
         ELSE wire' = Upd3(wire, "sockets", p, a, Append(wire["sockets"][p][a], Header(n)))
              /\ tx' = Upd(tx, p, a, 1)
      /\ rx' = IF b = NoParty THEN rx ELSE Upd(rx, p, b, 0)
  BY <1>2, <1>7 DEF Construct, Send, Upd, Upd3
<1>9. made' = [made EXCEPT ![p] = j] /\ made'[p] = j /\ made' \in [Parties -> Nat]
      /\ \A c \in Parties : c # p => made'[c] = made[c]
  BY <1>1, <1>2, <1>3 DEF Construct, Types
<1>10. PICK x : x = IF made[p] + 1 < Len(Pairs(p)) THEN "construct"
                    ELSE IF kind = "plain" THEN "exchange" ELSE "write"
  OBVIOUS
<1>11. Goto(p, x) /\ x \in Phases
  BY <1>10 DEF Construct, Phases
<1>12. /\ phase' \in [Parties -> Phases] /\ phase'[p] = x
       /\ \A c \in Parties : c # p => phase'[c] = phase[c]
  BY <1>1, <1>11, PhaseAt
<1>13. tx' \in [Parties -> [Parties -> Int]] /\ rx' \in [Parties -> [Parties -> Int]]
  <2>1. tx' \in [Parties -> [Parties -> Int]]
    <3>1. CASE a = NoParty
      BY <1>1, <1>8, <3>1 DEF Types
    <3>2. CASE a # NoParty
      <4>1. a \in Parties /\ tx' = Upd(tx, p, a, 1) /\ 1 \in Int
        BY <1>6, <1>8, <3>2
      <4> QED
        BY <1>1, <4>1, TxAt
    <3> QED
      BY <3>1, <3>2
  <2>2. rx' \in [Parties -> [Parties -> Int]]
    <3>1. CASE b = NoParty
      BY <1>1, <1>8, <3>1 DEF Types
    <3>2. CASE b # NoParty
      <4>1. b \in Parties /\ rx' = Upd(rx, p, b, 0) /\ 0 \in Int
        BY <1>6, <1>8, <3>2
      <4> QED
        BY <1>1, <4>1, RxAt
    <3> QED
      BY <3>1, <3>2
  <2> QED
    BY <2>1, <2>2
<1>14. /\ \A c \in Parties : c # p => tx'[c] = tx[c] /\ rx'[c] = rx[c]
       /\ a # NoParty => tx'[p][a] = 1
       /\ \A c \in Parties : c # a => tx'[p][c] = tx[p][c]
  <2>1. CASE a = NoParty
    <3>1. \A c \in Parties : c # p => rx'[c] = rx[c]
      BY <1>1, <1>6, <1>8, RxAt
    <3> QED
      BY <1>8, <2>1, <3>1
  <2>2. CASE a # NoParty
    <3>1. a \in Parties /\ tx' = Upd(tx, p, a, 1) /\ 1 \in Int
      BY <1>6, <1>8, <2>2
    <3>2. /\ tx'[p][a] = 1 /\ \A c \in Parties : c # a => tx'[p][c] = tx[p][c]
          /\ \A c \in Parties : c # p => tx'[c] = tx[c]
      BY <1>1, <3>1, TxAt
    <3>3. \A c \in Parties : c # p => rx'[c] = rx[c]
      BY <1>1, <1>6, <1>8, RxAt
    <3> QED
      BY <3>2, <3>3
  <2> QED
    BY <2>1, <2>2
<1>15. /\ b # NoParty => rx'[p][b] = 0
       /\ \A c \in Parties : c # b => rx'[p][c] = rx[p][c]
  <2>1. CASE b = NoParty
    BY <1>8, <2>1
  <2>2. CASE b # NoParty
    <3>1. b \in Parties /\ rx' = Upd(rx, p, b, 0) /\ 0 \in Int
      BY <1>6, <1>8, <2>2
    <3> QED
      BY <1>1, <2>2, <3>1, RxAt
  <2> QED
    BY <2>1, <2>2
<1>16. Within(p)
  BY <1>1, <1>9, <1>10, <1>12, <1>14
     DEF Construct, Within, Elsewhere, Fixed, threads, ExchangerPhases
<1>17. /\ a # NoParty => Moved(p, a, "send")' = 1
       /\ b # NoParty => Moved(p, b, "receive")' = 0
       /\ \A c \in Parties : c # a => Moved(p, c, "send")' = Moved(p, c, "send")
       /\ \A c \in Parties : c # b => Moved(p, c, "receive")' = Moved(p, c, "receive")
  BY <1>14, <1>15 DEF Moved
<1>18. /\ a # NoParty => Count(p, a, "send")' = 1
       /\ \A c \in Parties : c # a => Count(p, c, "send")' = Count(p, c, "send")
       /\ \A c \in Parties : c # b => Count(p, c, "receive")' = Count(p, c, "receive")
       /\ b # NoParty => Count(p, b, "receive")' = 0
  BY <1>16, <1>17, WithinPlace DEF Count
<1>19. \A c \in Parties : Count(p, c, "receive")' = Count(p, c, "receive")
  BY <1>6, <1>18, TheParties
<1>20. InOp(p) /\ InOp(p)' /\ Fixed /\ at'[p] = at[p]
  BY <1>16, WithinPlace DEF Within
<1>21. a # NoParty => Header(n) = Datum(Position(p, a, "send"), p, a)
  <2>1. ASSUME a # NoParty PROVE Header(n) = Datum(Position(p, a, "send"), p, a)
    <3>1. a \in Parties /\ Uses(at[p], p, a, "send") /\ Count(p, a, "send") = 0
      BY <1>6, <2>1
    <3>2. Position(p, a, "send") = <<at[p], 0>>
      BY <1>20, <3>1 DEF Position
    <3>3. ToSend(p)
      BY <1>1, <1>20 DEF InMemory
    <3>4. n = Op(p).size[p] /\ Datum(<<at[p], 0>>, p, a) = Header(Op(p).size[p])
      BY <1>1, <1>7, <1>20, <3>1, <3>3, SourceUnit
    <3> QED
      BY <3>2, <3>4
  <2> QED
    BY <2>1
<1>22. "sockets" \in Sockets /\ \A c \in Parties : "sockets" = SocketOf(at[p], p, c)
  BY <1>1, InRounds DEF Sockets
<1>23. Types'
  <2>1. CASE a = NoParty
    BY <1>1, <1>8, <1>9, <1>12, <1>13, <2>1 DEF Construct, Types, threads, Phases
  <2>2. CASE a # NoParty
    <3>1. Header(n) \in Units
      <4>1. Program /\ Op(p).size[p] \in Nat
        BY <1>1, <1>20, Counting
      <4>2. Position(p, a, "send") \in Slots(SocketOf(at[p], p, a), p, a)
        BY <1>1, <1>6, <1>20, <2>2, <4>1, NextUnit
      <4> QED
        BY <1>6, <1>21, <2>2, <4>1, <4>2, TrafficIn
    <3>2. wire["sockets"][p][a] \in Seq(Units)
      BY <1>1, <1>6, <1>22, <2>2 DEF Types
    <3>3. Append(wire["sockets"][p][a], Header(n)) \in Seq(Units)
      BY <3>1, <3>2
    <3>4. wire' \in [Sockets -> [Parties -> [Parties -> Seq(Units)]]]
      BY <1>1, <1>6, <1>8, <1>22, <2>2, <3>3, WireAt DEF WireSet
    <3> QED
      BY <1>1, <1>9, <1>12, <1>13, <3>4 DEF Construct, Types, threads, Phases
  <2> QED
    BY <2>1, <2>2
<1>24. Flow'
  <2>1. ASSUME NEW c \in Parties, NEW q \in Parties, NEW d \in Directions, c # p \/ q # a \/ d # "send"
        PROVE  Steady(c, q, d)
    <3>1. CASE c # p
      BY <1>16, <3>1, StillSteady, WithinPlace
    <3>2. CASE c = p
      <4>1. Count(p, q, d)' = Count(p, q, d)
        BY <1>18, <1>19, <2>1, <3>2 DEF Directions
      <4>2. Position(p, q, d)' = Position(p, q, d)
        BY <1>20, <4>1 DEF Position
      <4> QED
        BY <3>2, <4>2, SameIsSteady
    <3> QED
      BY <3>1, <3>2
  <2>2. CASE a = NoParty
    <3>1. \A c, q \in Parties, d \in Directions : Steady(c, q, d)
      BY <2>1, <2>2, TheParties
    <3> QED
      BY <1>1, <1>8, <1>20, <2>2, <3>1, QuietFlow
  <2>3. CASE a # NoParty
    <3>1. a \in Parties /\ Uses(at[p], p, a, "send") /\ Count(p, a, "send") = 0
          /\ Count(p, a, "send")' = Count(p, a, "send") + 1 /\ at[p]' = at[p] /\ Proper(a)
      BY <1>6, <1>18, <1>20, <2>3 DEF IInv
    <3>2. Count(p, a, "send") <= Op(p).size[p]
      <4>1. Op(p).size[p] \in Nat
        BY <1>1, <1>20, Counting
      <4> QED
        BY <3>1, <4>1
    <3>3. /\ WireSet("sockets", p, a, Append(wire["sockets"][p][a], Header(n)))
          /\ Header(n) \in May(Position(p, a, "send"), p, a)
      BY <1>8, <1>21, <2>3 DEF WireSet, May
    <3>4. \A c, q \in Parties, d \in Directions :
              (c # p \/ q # a \/ d # "send") => Steady(c, q, d)
      BY <2>1
    <3> QED
      BY <1>1, <1>20, <1>22, <3>1, <3>2, <3>3, <3>4, SendFlow
  <2> QED
    BY <2>2, <2>3
<1>25. Proper(p)'
  <2>1. \A c \in Parties, d \in Directions :
            /\ Moved(p, c, d) \in -1..Sum(at[p], p, c, d)
            /\ d = "send" => Moved(p, c, d) # 0
            /\ Moved(p, c, d) # -1 <=> \E i \in 1..made[p] : Peer(Pairs(p)[i], d) = c
    BY <1>1 DEF Proper, WithExchangers
  <2>2. ASSUME NEW c \in Parties, NEW d \in Directions
        PROVE  /\ Moved(p, c, d)' \in -1..Sum(at[p], p, c, d)
               /\ d = "send" => Moved(p, c, d)' # 0
               /\ Moved(p, c, d)' # -1 <=> \E i \in 1..made'[p] : Peer(Pairs(p)[i], d) = c
    <3>1. (\E i \in 1..made'[p] : Peer(Pairs(p)[i], d) = c)
          <=> (\E i \in 1..made[p] : Peer(Pairs(p)[i], d) = c) \/ Peer(Pairs(p)[j], d) = c
      <4>1. \A i : i \in 1..made'[p] <=> i \in 1..made[p] \/ i = j
        BY <1>2, <1>3, <1>9
      <4> QED
        BY <4>1
    <3>2. CASE Peer(Pairs(p)[j], d) = c
      <4>1. c # NoParty /\ (d = "send" => c = a) /\ (d = "receive" => c = b)
        BY <1>4, <3>2, TheParties
      <4>2. Moved(p, c, d)' = IF d = "send" THEN 1 ELSE 0
        BY <1>17, <4>1 DEF Directions
      <4>3. Sum(at[p], p, c, d) \in Nat \ {0}
        BY <1>1, <1>20, Counting
      <4> QED
        BY <3>1, <3>2, <4>2, <4>3
    <3>3. CASE Peer(Pairs(p)[j], d) # c
      <4>1. Moved(p, c, d)' = Moved(p, c, d)
        BY <1>4, <1>17, <3>3 DEF Directions
      <4> QED
        BY <2>1, <3>1, <3>3, <4>1
    <3> QED
      BY <3>2, <3>3
  <2>3. /\ phase'[p] = "exchange" => kind = "plain"
        /\ phase'[p] \in {"write", "read"} => kind = "crypto"
        /\ phase'[p] = "construct" <=> made'[p] < Len(Pairs(p))
    BY <1>1, <1>2, <1>9, <1>10, <1>12 DEF Types
  <2>4. made'[p] \in 0..Len(Pairs(p))
    BY <1>2, <1>3, <1>9
  <2> QED
    BY <1>1, <1>16, <2>2, <2>3, <2>4, WithinProper
<1>26. mem'[p] = mem[p] /\ len'[p] = len[p]
  BY DEF Construct
<1>27. ToSend(p)'
  <2>1. "send" \in Directions
    BY DEF Directions
  <2>2. \A c \in Parties : /\ Sum(at[p], p, c, "send") \in Nat
                           /\ Count(p, c, "send") \in 0..Sum(at[p], p, c, "send")
    BY <1>1, <1>20, <2>1, Counting
  <2>3. ASSUME NEW c \in Parties
        PROVE  Count(p, c, "send")' \in Nat /\ Count(p, c, "send")' >= Count(p, c, "send")
    <3>1. CASE c = a
      BY <1>6, <1>18, <3>1, TheParties
    <3>2. CASE c # a
      BY <1>18, <2>2, <3>2
    <3> QED
      BY <3>1, <3>2
  <2> QED
    BY <1>1, <1>20, <1>26, <2>3, SentMemory DEF InMemory
<1>28. ASSUME NEW c \in Parties, Uses(at[p], p, c, "receive")' PROVE Got(p, c)'
  <2>1. Uses(at[p], p, c, "receive")
    BY <1>20, <1>28, SameOp
  <2>2. Got(p, c) /\ len'[p][c] = len[p][c]
        /\ mem'[p][Target(Op(p), p, c)] = mem[p][Target(Op(p), p, c)]
    BY <1>1, <1>20, <1>26, <2>1 DEF InMemory, HasReceived
  <2> QED
    BY <1>19, <1>20, <2>2, GotMemory
<1> QED
  BY <1>16, <1>23, <1>24, <1>25, <1>27, <1>28, StepKeeps, WithinPlace DEF InMemory, HasReceived
-----------------------------------------------------------------------------
(* Operations begin and end.                                               *)

LEMMA AtOp ==
    ASSUME Fixed, NEW p, NEW k, at'[p] = k
    PROVE  /\ at[p]' = k /\ Op(p)' = Ops[k] /\ Ops' = Ops
           /\ Exchanges(p)' = AllExchanges[program][k][p]
           /\ Requests(p)' = AllRequests[program][k][p]
           /\ ByThreads(Op(p))' = ByThreads(Ops[k]) /\ Same(Op(p))' = Same(Ops[k])
           /\ \A q : /\ Content(at[p], p, q)' = Content(k, p, q)
                     /\ Target(Op(p), p, q)' = Target(Ops[k], p, q)
           /\ \A i : Unit(at[p], p, p, i)' = Unit(k, p, p, i)
           /\ \A q, d : /\ Sum(at[p], p, q, d)' = Sum(k, p, q, d)
                        /\ Uses(at[p], p, q, d)' = Uses(k, p, q, d)
                        /\ Stream(Op(p), p, q, d)' = Stream(Ops[k], p, q, d)
<1>1. at[p]' = k /\ Ops' = Ops /\ Op(p)' = Ops[k]
  BY FixedOps DEF Op
<1>2. /\ Exchanges(p)' = AllExchanges[program][k][p]
      /\ Requests(p)' = AllRequests[program][k][p]
  BY DEF Exchanges, Requests, Fixed
<1>3. ByThreads(Op(p))' = ByThreads(Ops[k]) /\ Same(Op(p))' = Same(Ops[k])
  BY <1>1 DEF ByThreads, Same, Fixed
<1>4. \A q : Content(at[p], p, q)' = Content(k, p, q)
  BY <1>1 DEF Content
<1>5. \A q : /\ Target(Op(p), p, q)' = Target(Ops[k], p, q)
             /\ Source(Op(p), p, q)' = Source(Ops[k], p, q)
  BY <1>1, <1>3 DEF Target, Source
<1>6. \A i : Unit(at[p], p, p, i)' = Unit(k, p, p, i)
  BY <1>1 DEF Unit
<1>7. \A q, d : Sum(at[p], p, q, d)' = Sum(k, p, q, d)
  BY <1>1 DEF Sum
<1>8. \A q, d : Uses(at[p], p, q, d)' = Uses(k, p, q, d)
  BY FixedOps, <1>1 DEF Uses, Fixed
<1>9. \A q, d : Stream(Op(p), p, q, d)' = Stream(Ops[k], p, q, d)
  BY <1>5 DEF Stream
<1> QED
  BY <1>1, <1>2, <1>3, <1>4, <1>5, <1>6, <1>7, <1>8, <1>9

\* What an operation does not use, and what it is through with, is passed over.
LEMMA Skipped ==
    ASSUME Program, NEW p \in Parties, NEW q \in Parties, NEW d \in Directions,
           NEW k \in 1..Len(Ops), NEW n \in Nat, NEW s
    PROVE  /\ ~Uses(k, p, q, d) => \A m \in Nat : Alike(Line(s, p, q, d), <<k, m>>, <<k, n>>)
           /\ ~Uses(k, p, q, d) \/ n = Sum(k, p, q, d) => Alike(Line(s, p, q, d), <<k, n>>, <<k + 1, 0>>)
<1>1. k \in Nat /\ Ops[k].size[p] \in Nat /\ Ops[k].size[q] \in Nat
  BY TheOps, Kind
<1>2. CASE d = "send"
  <2>1. Line(s, p, q, d) = Traffic(s, p, q) /\ Sum(k, p, q, d) = Ops[k].size[p] + 1
    BY <1>2 DEF Line, Sum
  <2>2. ~Uses(k, p, q, d) => Unused(k, s, p, q)
    BY <1>2 DEF Unused
  <2>3. n = Sum(k, p, q, d) => n > Ops[k].size[p]
    BY <1>1, <2>1
  <2> QED
    BY <1>1, <2>1, <2>2, <2>3, UnusedAlike, NextAlike
<1>3. CASE d = "receive"
  <2>1. Line(s, p, q, d) = Traffic(s, q, p) /\ Sum(k, p, q, d) = Ops[k].size[q] + 1
    BY <1>3 DEF Line, Sum
  <2>2. ~Uses(k, p, q, d) => Unused(k, s, q, p)
    BY <1>3, Expected DEF Unused
  <2>3. n = Sum(k, p, q, d) => n > Ops[k].size[q]
    BY <1>1, <2>1
  <2> QED
    BY <1>1, <2>1, <2>2, <2>3, UnusedAlike, NextAlike
<1> QED
  BY <1>2, <1>3 DEF Directions

LEMMA ContentIn ==
    ASSUME Program, NEW k \in 1..Len(Ops), NEW p \in Parties, NEW q \in Parties
    PROVE  /\ Content(k, p, q) \in Seq(Units) /\ Len(Content(k, p, q)) = Ops[k].size[p]
           /\ Ops[k].size[p] \in Nat
           /\ \A i \in 1..Ops[k].size[p] : Content(k, p, q)[i] = Unit(k, p, q, i)
<1>1. Ops[k].size[p] \in Nat
  BY TheOps, Kind
<1>2. p \in Nat /\ q \in Nat /\ k \in Nat
  BY TheParties
<1>3. \A i \in 1..Ops[k].size[p] : Unit(k, p, q, i) \in Units
  BY <1>1, <1>2 DEF Unit, Units
<1>4. Content(k, p, q) = [i \in 1..Ops[k].size[p] |-> Unit(k, p, q, i)]
  BY DEF Content
<1> QED
  BY <1>1, <1>3, <1>4

\* Whether the threads are asked for something is whether the operation has something.
LEMMA RequestsPlan ==
    ASSUME Program, NEW k \in 1..Len(Ops), NEW p \in Parties, ByThreads(Ops[k])
    PROVE  /\ AllRequests[program][k][p] \in Seq(PairSet)
           /\ Distinct(AllRequests[program][k][p])
           /\ \A i \in DOMAIN AllRequests[program][k][p] : Others(p, AllRequests[program][k][p][i])
           /\ \A q, d : Uses(k, p, q, d) <=> Among(AllRequests[program][k][p], q, d)
<1>1. AllRequests[program][k][p] = PlanThreads(Ops[k], p)
  BY Looked
<1>2. Ops[k] \in Operations /\ (Ops[k].kind = "exchange" => Ops[k].other[p] # p)
  BY UsesPlan
<1>3. \A q, d : Uses(k, p, q, d) <=> Among(PlanThreads(Ops[k], p), q, d)
  BY UsesPlan
<1> QED
  BY <1>1, <1>2, <1>3, ThreadsPlan

LEMMA ExchangesPlan ==
    ASSUME Program, NEW k \in 1..Len(Ops), NEW p \in Parties, ~ByThreads(Ops[k])
    PROVE  /\ Staged(AllExchanges[program][k][p], p)
           /\ \A q, d : Uses(k, p, q, d) <=> With(AllExchanges[program][k][p], q, d)
<1>1. AllExchanges[program][k][p] = PlanExchangers(Ops[k], p)
  BY Looked
<1>2. Ops[k] \in Operations /\ (Ops[k].kind = "exchange" => Ops[k].other[p] # p)
  BY UsesPlan
<1>3. \A q, d : Uses(k, p, q, d) <=> With(PlanExchangers(Ops[k], p), q, d)
  BY UsesPlan
<1> QED
  BY <1>1, <1>2, <1>3, ExchangersPlan
-----------------------------------------------------------------------------
(* What the calling thread waits for.                                      *)

WaitsFor(R) ==
    [j \in 1..(2 * Len(R)) |->
        LET d == IF j % 2 = 1 THEN "send" ELSE "receive"
        IN [d |-> d, q |-> Peer(R[(j + 1) \div 2], d)]]

LEMMA WaitsAre ==
    ASSUME NEW R \in Seq(PairSet)
    PROVE  /\ Len(WaitsFor(R)) = 2 * Len(R) /\ DOMAIN WaitsFor(R) = 1..(2 * Len(R))
           /\ \A i \in DOMAIN R : /\ 2 * i - 1 \in 1..(2 * Len(R)) /\ 2 * i \in 1..(2 * Len(R))
                                   /\ WaitsFor(R)[2 * i - 1] = [d |-> "send", q |-> Peer(R[i], "send")]
                                   /\ WaitsFor(R)[2 * i] = [d |-> "receive", q |-> Peer(R[i], "receive")]
           /\ \A j \in 1..(2 * Len(R)) : \E i \in DOMAIN R : j = 2 * i - 1 \/ j = 2 * i
<1>1. Len(R) \in Nat /\ DOMAIN R = 1..Len(R) /\ 2 * Len(R) \in Nat
  OBVIOUS
<1>2. PICK n : n = 2 * Len(R)
  OBVIOUS
<1> DEFINE e(j) == LET d == IF j % 2 = 1 THEN "send" ELSE "receive"
                   IN [d |-> d, q |-> Peer(R[(j + 1) \div 2], d)]
           W == [j \in 1..n |-> e(j)]
<1>3. WaitsFor(R) = W
  BY <1>2 DEF WaitsFor
<1>4. \A j \in 1..n : W[j] = e(j)
  OBVIOUS
<1>5. DOMAIN W = 1..n /\ Len(W) = n
  <2> DEFINE S == {e(j) : j \in 1..n}
  <2>1. \A j \in 1..n : e(j) \in S
    OBVIOUS
  <2> HIDE DEF e, S
  <2>2. n \in Nat
    BY <1>1, <1>2
  <2> QED
    BY <2>1, <2>2
<1>6. ASSUME NEW i \in 1..Len(R)
      PROVE  /\ 2 * i - 1 \in 1..n /\ 2 * i \in 1..n
             /\ (2 * i - 1) % 2 = 1 /\ (2 * i) % 2 # 1
             /\ (2 * i - 1 + 1) \div 2 = i /\ (2 * i + 1) \div 2 = i
  BY <1>1, <1>2
<1>7. ASSUME NEW j \in 1..n PROVE \E i \in 1..Len(R) : j = 2 * i - 1 \/ j = 2 * i
  <2>1. (j + 1) \div 2 \in 1..Len(R) /\ (j = 2 * ((j + 1) \div 2) - 1 \/ j = 2 * ((j + 1) \div 2))
    BY <1>1, <1>2
  <2> QED
    BY <2>1
<1>8. ASSUME NEW i \in DOMAIN R
      PROVE  /\ e(2 * i - 1) = [d |-> "send", q |-> Peer(R[i], "send")]
             /\ e(2 * i) = [d |-> "receive", q |-> Peer(R[i], "receive")]
  BY <1>1, <1>6
<1> HIDE DEF e, W
<1> QED
  BY <1>1, <1>2, <1>3, <1>4, <1>5, <1>6, <1>7, <1>8

LEMMA BeginKeeps ==
    ASSUME IInv, NEW p \in Parties, Begin(p)
    PROVE  IInv'
<1>1. /\ Types /\ Flow /\ Proper(p) /\ phase[p] = "idle" /\ ~InOp(p) /\ at[p] < Len(Ops)
      /\ Program /\ at[p] \in Nat /\ Len(Ops) \in Nat
  <2>1. /\ Types /\ Flow /\ Proper(p) /\ phase[p] = "idle" /\ ~InOp(p) /\ at[p] < Len(Ops)
    BY DEF IInv, Begin, InOp
  <2>2. Program /\ at[p] \in Nat
    BY <2>1 DEF Types, Program
  <2>3. Len(Ops) \in Nat
    BY <2>2, TheOps
  <2> QED
    BY <2>1, <2>2, <2>3
<1>2. PICK k : k = at[p] + 1
  OBVIOUS
<1>3. k \in 1..Len(Ops) /\ k \in Nat
  BY <1>1, <1>2
<1>4. /\ Fixed /\ at' = [at EXCEPT ![p] = k] /\ Fill(k, p)
      /\ stage' = [stage EXCEPT ![p] = 1] /\ made' = [made EXCEPT ![p] = 0]
      /\ UNCHANGED <<kind, program, tx, rx, len, wire, finished, result>>
  BY <1>2 DEF Begin, Fixed
<1>5. /\ at' \in [Parties -> Nat] /\ at'[p] = k
      /\ stage' \in [Parties -> Nat] /\ stage'[p] = 1
      /\ made' \in [Parties -> Nat] /\ made'[p] = 0
      /\ \A a \in Parties : a # p => at'[a] = at[a] /\ stage'[a] = stage[a] /\ made'[a] = made[a]
  BY <1>1, <1>3, <1>4 DEF Types
<1>6. /\ at[p]' = k /\ Op(p)' = Ops[k] /\ Ops' = Ops
      /\ Exchanges(p)' = AllExchanges[program][k][p]
      /\ Requests(p)' = AllRequests[program][k][p]
  BY <1>4, <1>5, AtOp
<1>7. ByThreads(Op(p))' = ByThreads(Ops[k]) /\ Same(Op(p))' = Same(Ops[k])
  BY <1>4, <1>5, AtOp
<1>8. \A q : Content(at[p], p, q)' = Content(k, p, q)
  BY <1>4, <1>5, AtOp
<1>9. \A i : Unit(at[p], p, p, i)' = Unit(k, p, p, i)
  BY <1>4, <1>5, AtOp
<1>10. \A q, d : Sum(at[p], p, q, d)' = Sum(k, p, q, d)
  BY <1>6 DEF Sum
<1>11. \A q, d : Uses(at[p], p, q, d)' = Uses(k, p, q, d)
  BY <1>4, <1>6, FixedOps DEF Uses, Fixed
<1>12. \A q, d : Stream(Op(p), p, q, d)' = Stream(Ops[k], p, q, d)
  BY <1>4, <1>5, AtOp
<1>13. PICK x : x = IF ByThreads(Ops[k]) THEN "wait" ELSE "construct"
  OBVIOUS
<1>14. /\ phase' \in [Parties -> Phases] /\ phase'[p] = x
       /\ \A a \in Parties : a # p => phase'[a] = phase[a]
  <2>1. Goto(p, x) /\ x \in Phases
    BY <1>2, <1>13 DEF Begin, Phases
  <2> QED
    BY <1>1, <2>1, PhaseAt
<1>15. /\ mem' \in [Parties -> [Streams -> Seq(Units)]]
       /\ \A y \in Streams : mem'[p][y] = IF y[1] = "s" THEN Content(k, p, y[2]) ELSE <<>>
       /\ \A a \in Parties : a # p => mem'[a] = mem[a]
  <2> DEFINE m == [y \in Streams |-> IF y[1] = "s" THEN Content(k, p, y[2]) ELSE <<>>]
  <2>1. m \in [Streams -> Seq(Units)]
    <3>1. ASSUME NEW y \in Streams
          PROVE  (IF y[1] = "s" THEN Content(k, p, y[2]) ELSE <<>>) \in Seq(Units)
      <4>1. y[2] \in Parties
        BY DEF Streams
      <4>2. Content(k, p, y[2]) \in Seq(Units)
        BY <1>1, <1>3, <4>1, ContentIn
      <4> QED
        BY <4>2
    <3> QED
      BY <3>1
  <2>2. \A y \in Streams : m[y] = IF y[1] = "s" THEN Content(k, p, y[2]) ELSE <<>>
    OBVIOUS
  <2>3. mem' = [mem EXCEPT ![p] = m]
    BY <1>4 DEF Fill
  <2> HIDE DEF m
  <2>4. mem \in [Parties -> [Streams -> Seq(Units)]]
    BY <1>1 DEF Types
  <2>5. mem' \in [Parties -> [Streams -> Seq(Units)]] /\ mem'[p] = m
        /\ \A a \in Parties : a # p => mem'[a] = mem[a]
    BY <2>1, <2>3, <2>4
  <2> QED
    BY <2>2, <2>5
<1>16. \A q \in Parties, d \in Directions :
           Moved(p, q, d) = -1 /\ requested[p][q][d] = <<>> /\ finished[p][q][d] = <<>>
  BY <1>1 DEF Proper, Turn, AtRest
<1>17. /\ requested' \in [Parties -> [Parties -> [Directions -> Seq(Streams)]]]
       /\ \A a \in Parties : a # p => requested'[a] = requested[a]
       /\ \A q \in Parties, d \in Directions :
              requested'[p][q][d] = IF ByThreads(Ops[k]) /\ Uses(k, p, q, d)
                                    THEN <<Stream(Ops[k], p, q, d)>> ELSE <<>>
  <2>1. requested \in [Parties -> [Parties -> [Directions -> Seq(Streams)]]]
    BY <1>1 DEF Types
  <2>2. CASE ByThreads(Ops[k])
    <3> DEFINE new(q, d) == IF \E i \in DOMAIN AllRequests[program][k][p] :
                                   Peer(AllRequests[program][k][p][i], d) = q
                            THEN Append(requested[p][q][d], Stream(Ops[k], p, q, d))
                            ELSE requested[p][q][d]
               row == [q \in Parties |-> [d \in Directions |-> new(q, d)]]
    <3>1. requested' = [requested EXCEPT ![p] = row]
      BY <1>2, <2>2 DEF Begin
    <3>2. ASSUME NEW q \in Parties, NEW d \in Directions
          PROVE  /\ new(q, d) = IF Uses(k, p, q, d) THEN <<Stream(Ops[k], p, q, d)>> ELSE <<>>
                 /\ new(q, d) \in Seq(Streams)
      <4>1. Uses(k, p, q, d) <=> \E i \in DOMAIN AllRequests[program][k][p] :
                                     Peer(AllRequests[program][k][p][i], d) = q
        BY <2>2 DEF Uses
      <4>2. Stream(Ops[k], p, q, d) \in Streams
        BY DEF Stream, Source, Target, Streams
      <4>3. Append(<<>>, Stream(Ops[k], p, q, d)) = <<Stream(Ops[k], p, q, d)>>
        BY <4>2
      <4>4. requested[p][q][d] = <<>>
        BY <1>16
      <4> QED
        BY <4>1, <4>2, <4>3, <4>4
    <3> HIDE DEF new
    <3>3. row \in [Parties -> [Directions -> Seq(Streams)]]
          /\ \A q \in Parties, d \in Directions : row[q][d] = new(q, d)
      BY <3>2
    <3> HIDE DEF row
    <3>4. /\ requested' \in [Parties -> [Parties -> [Directions -> Seq(Streams)]]]
          /\ requested'[p] = row /\ \A a \in Parties : a # p => requested'[a] = requested[a]
      BY <2>1, <3>1, <3>3
    <3> QED
      BY <2>2, <3>2, <3>3, <3>4
  <2>3. CASE ~ByThreads(Ops[k])
    <3>1. requested' = requested
      BY <1>2, <2>3 DEF Begin
    <3> QED
      BY <1>16, <2>1, <2>3, <3>1
  <2> QED
    BY <2>2, <2>3
<1>18. /\ finished' = finished /\ tx' = tx /\ rx' = rx /\ len' = len /\ wire' = wire /\ result' = result
       /\ kind' = kind /\ program' = program
  BY <1>4
<1>19. Types'
  BY <1>1, <1>5, <1>14, <1>15, <1>17, <1>18 DEF Types, Phases
<1>20. \A a \in Parties : a # p => Still(a)
  BY <1>4, <1>5, <1>14, <1>15, <1>17, <1>18 DEF Still
<1>21. InOp(p)'
  BY <1>13, <1>14 DEF InOp
<1>22. \A q \in Parties, d \in Directions : Moved(p, q, d)' = -1
  BY <1>16, <1>18 DEF Moved
<1>23. ASSUME NEW q \in Parties, NEW d \in Directions
       PROVE  Count(p, q, d)' \in Nat /\ (Uses(k, p, q, d) => Count(p, q, d)' = 0)
  <2>1. Sum(at[p], p, q, d)' \in Nat
    <3>1. Sum(k, p, q, d) \in Nat
      BY <1>1, <1>3, TheOps, Kind DEF Sum
    <3> QED
      BY <1>10, <3>1
  <2>2. Count(p, q, d)' = IF Done(p, q, d)' THEN Sum(at[p], p, q, d)' ELSE 0
    BY <1>22 DEF Count
  <2>3. Uses(k, p, q, d) => ~Done(p, q, d)'
    <3>1. CASE ByThreads(Ops[k])
      <4>1. Uses(k, p, q, d) => requested'[p][q][d] # <<>>
        <5>1. <<Stream(Ops[k], p, q, d)>> # <<>>
          OBVIOUS
        <5> QED
          BY <1>17, <3>1, <5>1
      <4> QED
        BY <1>13, <1>14, <3>1, <4>1 DEF Done
    <3>2. CASE ~ByThreads(Ops[k])
      <4>1. stage[p]' - 1 = 0
        BY <1>5
      <4>2. ~\E i \in 1..(stage[p] - 1)' : TRUE
        BY <4>1
      <4> QED
        BY <1>13, <1>14, <3>2, <4>2 DEF Done
    <3> QED
      BY <3>1, <3>2
  <2> QED
    BY <2>1, <2>2, <2>3
<1>24. Flow'
  <2>1. ASSUME NEW a \in Parties, NEW q \in Parties, NEW d \in Directions PROVE Steady(a, q, d)
    <3>1. CASE a # p
      BY <1>20, <3>1, StillSteady
    <3>2. CASE a = p
      <4>1. Position(p, q, d) = <<k, 0>> /\ Position(p, q, d)' = <<k, Count(p, q, d)'>>
        BY <1>1, <1>2, <1>5, <1>21 DEF Position
      <4>2. CASE Uses(k, p, q, d)
        BY <1>23, <3>2, <4>1, <4>2, SameIsSteady
      <4>3. CASE ~Uses(k, p, q, d)
        <5>1. \A s : Alike(Line(s, p, q, d), <<k, 0>>, <<k, Count(p, q, d)'>>)
          BY <1>1, <1>3, <1>23, <4>3, Skipped
        <5> QED
          BY <3>2, <4>1, <5>1 DEF Steady
      <4> QED
        BY <4>2, <4>3
    <3> QED
      BY <3>1, <3>2
  <2> QED
    BY <1>1, <1>4, <1>18, <2>1, QuietFlow
<1>25. Turn(p)'
  <2>1. Len(result[p]) = at[p]
    BY <1>1 DEF Proper, Turn
  <2>2. phase'[p] # "closed" /\ at[p]' = k /\ Ops' = Ops /\ result[p]' = result[p]
    BY <1>4, <1>5, <1>13, <1>14, <1>18, AtOp
  <2>3. k <= Len(Ops) /\ k >= 1 /\ Len(result[p]) = k - 1
    BY <1>1, <1>2, <1>3, <2>1
  <2> QED
    BY <1>21, <2>2, <2>3 DEF Turn
<1>26. WithExchangers(p)'
  <2>1. SUFFICES ASSUME phase'[p] \in ExchangerPhases PROVE WithExchangers(p)'
    BY DEF WithExchangers
  <2>2. ~ByThreads(Ops[k]) /\ phase'[p] = "construct"
    BY <1>13, <1>14, <2>1 DEF ExchangerPhases
  <2>3. PICK E : E = AllExchanges[program][k][p]
    OBVIOUS
  <2>4. Staged(E, p)
    BY <1>1, <1>3, <2>2, <2>3, ExchangesPlan
  <2>5. Exchanges(p)' = E /\ Pairs(p)' = E[1] /\ ByThreads(Op(p))' = ByThreads(Ops[k])
    BY <1>4, <1>5, <2>3, AtOp DEF Pairs
  <2>6. E # <<>> => 1 \in 1..Len(E) /\ Len(E[1]) \in Nat \ {0}
    <3>1. ASSUME E # <<>> PROVE 1 \in 1..Len(E) /\ Len(E[1]) \in Nat \ {0}
      <4>1. E \in Seq(Seq(PairSet)) /\ \A i \in DOMAIN E : E[i] # <<>>
        BY <2>4 DEF Staged
      <4>2. 1 \in 1..Len(E) /\ 1 \in DOMAIN E
        BY <3>1, <4>1
      <4>3. E[1] \in Seq(PairSet) /\ E[1] # <<>>
        BY <4>1, <4>2
      <4> QED
        BY <4>2, <4>3
    <3> QED
      BY <3>1
  <2>7. \A q \in Parties, d \in Directions :
            /\ requested'[p][q][d] = <<>> /\ finished'[p][q][d] = <<>>
            /\ Moved(p, q, d)' \in -1..Sum(at[p], p, q, d)' /\ Moved(p, q, d)' = -1
    <3>1. ASSUME NEW q \in Parties, NEW d \in Directions PROVE Sum(at[p], p, q, d)' \in Nat
      <4>1. Sum(k, p, q, d) \in Nat
        BY <1>1, <1>3, TheOps, Kind DEF Sum
      <4> QED
        BY <1>10, <4>1
    <3> QED
      BY <1>16, <1>17, <1>18, <1>22, <2>2, <3>1
  <2>8. stage'[p] = 1 /\ made'[p] = 0 /\ ~\E i \in 1..made'[p] : TRUE
    BY <1>5
  <2> QED
    BY <2>2, <2>5, <2>6, <2>7, <2>8 DEF WithExchangers
<1>27. WithThreads(p)'
  <2>1. SUFFICES ASSUME phase'[p] = "wait" PROVE WithThreads(p)'
    BY DEF WithThreads
  <2>2. ByThreads(Ops[k])
    BY <1>13, <1>14, <2>1
  <2>3. ByThreads(Op(p))' = ByThreads(Ops[k]) /\ Requests(p)' = AllRequests[program][k][p]
    BY <1>6, <1>7, <1>8, <1>9, <1>11, <1>12
  <2>4. Requests(p)' = <<>> \/ made'[p] < Len(Waits(p))'
    <3>1. PICK R : R = Requests(p)'
      OBVIOUS
    <3>2. R \in Seq(PairSet)
      BY <1>1, <1>3, <2>2, <2>3, <3>1, RequestsPlan
    <3>3. Waits(p)' = WaitsFor(R)
      BY <3>1 DEF Waits, WaitsFor
    <3>4. Len(Waits(p))' = 2 * Len(R)
      BY <3>2, <3>3, WaitsAre
    <3> QED
      BY <1>5, <3>1, <3>2, <3>4
  <2>5. ASSUME NEW q \in Parties, NEW d \in Directions
        PROVE  (Asked(p, q, d) \/ Ready(p, q, d) \/ Through(p, q, d))'
    <3>1. Uses(at[p], p, q, d)' = Uses(k, p, q, d) /\ Stream(Op(p), p, q, d)' = Stream(Ops[k], p, q, d)
      BY <1>6, <1>7, <1>8, <1>9, <1>11, <1>12
    <3>2. finished'[p][q][d] = <<>> /\ Moved(p, q, d)' = -1
      BY <1>16, <1>18, <1>22
    <3>3. ~Waited(p, q, d)'
      <4>1. ~\E j \in 1..made'[p] : TRUE
        BY <1>5
      <4> QED
        BY <4>1 DEF Waited
    <3>4. CASE Uses(k, p, q, d)
      BY <1>17, <2>2, <3>1, <3>2, <3>3, <3>4 DEF Asked
    <3>5. CASE ~Uses(k, p, q, d)
      BY <1>17, <3>1, <3>2, <3>5 DEF Through, AtRest
    <3> QED
      BY <3>4, <3>5
  <2> QED
    BY <2>2, <2>3, <2>4, <2>5 DEF WithThreads
<1>28. ToSend(p)'
  <2>1. \A q \in Parties : mem[p][<<"s", q>>]' = Content(k, p, q)
    BY <1>15 DEF Streams
  <2>2. /\ Same(Op(p))' = Same(Ops[k]) /\ Op(p)' = Ops[k]
        /\ \A q : Content(at[p], p, q)' = Content(k, p, q)
        /\ \A i : Unit(at[p], p, p, i)' = Unit(k, p, p, i)
    BY <1>6, <1>7, <1>8, <1>9, <1>11, <1>12
  <2>3. /\ Len(Content(k, p, p)) = Ops[k].size[p] /\ Ops[k].size[p] \in Nat
        /\ \A i \in 1..Ops[k].size[p] : Content(k, p, p)[i] = Unit(k, p, p, i)
    BY <1>1, <1>3, ContentIn
  <2> QED
    BY <2>1, <2>2, <2>3 DEF ToSend
<1>29. ASSUME NEW q \in Parties, Uses(at[p], p, q, "receive")' PROVE Got(p, q)'
  <2>1. Uses(k, p, q, "receive")
    BY <1>29, <1>11
  <2>2. Count(p, q, "receive")' = 0
    BY <1>23, <2>1 DEF Directions
  <2>3. PICK v : v = mem[p][Target(Op(p), p, q)]'
    OBVIOUS
  <2>4. v \in Seq(Units)
    <3>1. Target(Op(p), p, q)' \in Streams
      BY DEF Target, Streams
    <3> QED
      BY <1>19, <2>3, <3>1 DEF Types
  <2>5. Len(v) \in Nat
    BY <2>4
  <2> QED
    BY <2>2, <2>3, <2>5 DEF Got
<1> QED
  BY <1>19, <1>20, <1>24, <1>25, <1>26, <1>27, <1>28, <1>29, StepKeeps
     DEF Proper, InMemory, HasReceived
-----------------------------------------------------------------------------
(* An operation ends when all of it has been moved.                        *)

\* What an operation yields when it ends now.
Yielding(p) ==
    [q \in Parties |->
        IF q \notin ReceivedFrom(p) THEN "nothing"
        ELSE IF SubSeq(mem[p][Target(Op(p), p, q)], 1, len[p][q]) = Message(at[p], q, p)
             THEN "message" ELSE "garbage"]

AllMoved(p) ==
    \A q \in Parties, d \in Directions :
        Uses(at[p], p, q, d) => Count(p, q, d) = Sum(at[p], p, q, d)

LEMMA ReturnAt ==
    ASSUME Types, NEW p \in Parties, Return(p)
    PROVE  /\ result' = [result EXCEPT ![p] = Append(result[p], Yielding(p))]
           /\ Yielding(p) \in [Parties -> Outcomes]
           /\ result' \in [Parties -> Seq([Parties -> Outcomes])]
           /\ Len(result'[p]) = Len(result[p]) + 1
           /\ \A a \in Parties : a # p => result'[a] = result[a]
<1>1. PICK r : r = Yielding(p)
  OBVIOUS
<1>2. r \in [Parties -> Outcomes]
  BY <1>1 DEF Yielding, Outcomes
<1>3. result' = [result EXCEPT ![p] = Append(@, r)]
  BY <1>1 DEF Return, Yielding
<1>4. result \in [Parties -> Seq([Parties -> Outcomes])]
  BY DEF Types
<1>5. PICK S : S = [Parties -> Outcomes]
  OBVIOUS
<1>6. PICK v : v = Append(result[p], r)
  OBVIOUS
<1>7. v \in Seq(S) /\ Len(v) = Len(result[p]) + 1
  BY <1>2, <1>4, <1>5, <1>6
<1>8. result \in [Parties -> Seq(S)] /\ result' = [result EXCEPT ![p] = v]
  BY <1>3, <1>4, <1>5, <1>6
<1>9. result' \in [Parties -> Seq(S)] /\ result'[p] = v
      /\ \A a \in Parties : a # p => result'[a] = result[a]
  BY <1>7, <1>8
<1> QED
  BY <1>1, <1>2, <1>5, <1>6, <1>7, <1>8, <1>9

LEMMA ReceivedUses ==
    ASSUME NEW p, NEW q
    PROVE  q \in ReceivedFrom(p) <=> Uses(at[p], p, q, "receive")
<1>1. \A pair : Peer(pair, "receive") = pair.from
  BY DEF Peer
<1>2. CASE ByThreads(Op(p))
  BY <1>1, <1>2 DEF ReceivedFrom, Froms, Uses, Op, Requests
<1>3. CASE ~ByThreads(Op(p))
  BY <1>1, <1>3 DEF ReceivedFrom, Froms, Uses, Op, Exchanges
<1> QED
  BY <1>2, <1>3

\* What has been received from each party is what that party has for it.
LEMMA Yields ==
    ASSUME SpareRoom, IInv, NEW p \in Parties, InOp(p), AllMoved(p)
    PROVE  Yielding(p) = [q \in Parties |-> IF Uses(at[p], p, q, "receive") THEN "message" ELSE "nothing"]
<1>1. Types /\ Proper(p) /\ HasReceived(p)
  BY DEF IInv, InMemory
<1>2. Program /\ at[p] \in 1..Len(Ops) /\ Op(p) = Ops[at[p]]
  BY <1>1, Counting
<1>3. ASSUME NEW q \in Parties, Uses(at[p], p, q, "receive")
      PROVE  SubSeq(mem[p][Target(Op(p), p, q)], 1, len[p][q]) = Message(at[p], q, p)
  <2>1. PICK v, m, n : v = mem[p][Target(Op(p), p, q)] /\ m = Message(at[p], q, p) /\ n = Op(p).size[q]
    OBVIOUS
  <2>2. n \in Nat /\ Count(p, q, "receive") = n + 1
    <3>1. Op(p).size[q] \in Nat
      BY <1>1, Counting
    <3>2. Count(p, q, "receive") = Sum(at[p], p, q, "receive")
      BY <1>3 DEF AllMoved, Directions
    <3> QED
      BY <1>2, <2>1, <3>1, <3>2 DEF Sum
  <2>3. len[p][q] = n /\ n <= Len(v) /\ \A i \in 1..n : v[i] = m[i]
    <3>1. Got(p, q)
      BY <1>1, <1>3 DEF HasReceived
    <3>2. n + 1 >= 1 /\ n + 1 - 1 = n
      BY <2>2
    <3>3. len[p][q] = n /\ n <= Len(v) /\ \A i \in 1..n : v[i] \in May(<<at[p], i>>, q, p)
      BY <2>1, <2>2, <3>1, <3>2 DEF Got
    <3>4. Roomy(Ops[at[p]])
      BY <1>2, TheOps DEF SpareRoom, Program, Ops
    <3>5. \A i \in 1..n : May(<<at[p], i>>, q, p) = {m[i]}
      BY <2>1, <2>2, <3>4 DEF May, Datum
    <3> QED
      BY <3>3, <3>5
  <2>4. v \in Seq(Units)
    <3>1. Target(Op(p), p, q) \in Streams
      BY DEF Target, Streams
    <3> QED
      BY <1>1, <2>1, <3>1 DEF Types
  <2>5. m \in Seq(Units) /\ Len(m) = n
    <3>1. PICK c : c = Source(Ops[at[p]], q, p)[2]
      OBVIOUS
    <3>2. c \in Parties /\ m = Content(at[p], q, c)
      BY <2>1, <3>1 DEF Source, Message
    <3> QED
      BY <1>2, <2>1, <3>2, ContentIn
  <2>6. SubSeq(v, 1, n) \in Seq(Units) /\ Len(SubSeq(v, 1, n)) = n
        /\ \A i \in 1..n : SubSeq(v, 1, n)[i] = v[i]
    BY <2>2, <2>3, <2>4
  <2>7. SubSeq(v, 1, n) = m
    <3>1. PICK w : w = SubSeq(v, 1, n)
      OBVIOUS
    <3>2. w \in Seq(Units) /\ Len(w) = Len(m) /\ \A i \in 1..Len(w) : w[i] = m[i]
      BY <2>2, <2>3, <2>5, <2>6, <3>1
    <3>3. w = m
      BY <2>5, <3>2, SeqEqual
    <3> QED
      BY <3>1, <3>3
  <2> QED
    BY <2>1, <2>3, <2>7
<1>4. ASSUME NEW q \in Parties
      PROVE  Yielding(p)[q] = IF Uses(at[p], p, q, "receive") THEN "message" ELSE "nothing"
  <2>1. PICK v, m : /\ v = SubSeq(mem[p][Target(Op(p), p, q)], 1, len[p][q])
                    /\ m = Message(at[p], q, p)
    OBVIOUS
  <2>2. Yielding(p)[q] = IF q \notin ReceivedFrom(p) THEN "nothing"
                         ELSE IF v = m THEN "message" ELSE "garbage"
    BY <2>1 DEF Yielding
  <2>3. q \in ReceivedFrom(p) <=> Uses(at[p], p, q, "receive")
    BY ReceivedUses
  <2>4. CASE Uses(at[p], p, q, "receive")
    <3>1. v = m /\ q \in ReceivedFrom(p)
      BY <1>3, <2>1, <2>3, <2>4
    <3> QED
      BY <2>2, <2>4, <3>1
  <2>5. CASE ~Uses(at[p], p, q, "receive")
    BY <2>2, <2>3, <2>5
  <2> QED
    BY <2>4, <2>5
<1> QED
  BY <1>4 DEF Yielding

LEMMA Returned ==
    ASSUME IInv, NEW p \in Parties, InOp(p), Return(p), AllMoved(p),
           UNCHANGED <<kind, program, at, stage, mem, len, wire, requested>>,
           made' \in [Parties -> Nat], tx' \in [Parties -> [Parties -> Int]],
           rx' \in [Parties -> [Parties -> Int]],
           finished' \in [Parties -> [Parties -> [Directions -> Seq(Streams)]]],
           \A a \in Parties : a # p => /\ made'[a] = made[a] /\ finished'[a] = finished[a]
                                       /\ tx'[a] = tx[a] /\ rx'[a] = rx[a],
           \A q \in Parties, d \in Directions : AtRest(p, q, d)'
    PROVE  IInv'
<1>1. Types /\ Proper(p) /\ Flow
  BY DEF IInv
<1>2. /\ phase' \in [Parties -> Phases] /\ phase'[p] = "idle"
      /\ \A a \in Parties : a # p => phase'[a] = phase[a]
  <2>1. Goto(p, "idle") /\ "idle" \in Phases
    BY DEF Return, Phases
  <2> QED
    BY <1>1, <2>1, PhaseAt
<1>3. Types'
  BY <1>1, <1>2, ReturnAt DEF Types, Phases
<1>4. ASSUME NEW a \in Parties, a # p PROVE Still(a)
  BY <1>1, <1>2, <1>4, ReturnAt DEF Still, Fixed
<1>5. ~InOp(p)' /\ at[p]' = at[p] /\ Fixed
  BY <1>2 DEF InOp, Fixed
<1>6. Program /\ at[p] \in 1..Len(Ops)
  BY <1>1, Counting
<1>7. Flow'
  <2>1. ASSUME NEW a \in Parties, NEW q \in Parties, NEW d \in Directions PROVE Steady(a, q, d)
    <3>1. CASE a # p
      BY <1>4, <3>1, StillSteady
    <3>2. CASE a = p
      <4>1. PICK n : n = Count(p, q, d)
        OBVIOUS
      <4>2. Position(p, q, d) = <<at[p], n>> /\ Position(p, q, d)' = <<at[p] + 1, 0>>
        BY <1>5, <4>1 DEF Position
      <4>3. n \in Nat /\ (~Uses(at[p], p, q, d) \/ n = Sum(at[p], p, q, d))
        <5>1. Count(p, q, d) \in 0..Sum(at[p], p, q, d) /\ Sum(at[p], p, q, d) \in Nat
          BY <1>1, Counting
        <5> QED
          <6>1. Uses(at[p], p, q, d) => Count(p, q, d) = Sum(at[p], p, q, d)
            BY DEF AllMoved
          <6>2. n \in Nat
            BY <4>1, <5>1
          <6> QED
            BY <4>1, <6>1, <6>2
      <4>4. \A s : Alike(Line(s, p, q, d), <<at[p], n>>, <<at[p] + 1, 0>>)
        BY <1>6, <4>3, Skipped
      <4> QED
        BY <3>2, <4>2, <4>4 DEF Steady
    <3> QED
      BY <3>1, <3>2
  <2> QED
    BY <1>1, <1>5, <2>1, QuietFlow
<1>8. Proper(p)'
  <2>1. Len(result[p]) = at[p] - 1 /\ at[p] <= Len(Ops)
    BY <1>1 DEF Proper, Turn
  <2>2. Len(result[p])' = at[p] /\ at[p] <= Len(Ops)
    <3>1. Len(result'[p]) = Len(result[p]) + 1
      BY <1>1, ReturnAt
    <3>2. at[p] \in Nat
      BY <1>1 DEF Types
    <3> QED
      BY <2>1, <3>1, <3>2
  <2>3. Ops' = Ops
    BY <1>5, FixedOps
  <2>4. Turn(p)'
    BY <1>2, <1>5, <2>2, <2>3 DEF Turn
  <2>5. WithExchangers(p)' /\ WithThreads(p)'
    BY <1>2 DEF WithExchangers, WithThreads, ExchangerPhases
  <2> QED
    BY <2>4, <2>5 DEF Proper
<1>9. InMemory(p)'
  BY <1>5 DEF InMemory
<1> QED
  BY <1>3, <1>4, <1>7, <1>8, <1>9, StepKeeps

LEMMA ReturnAtOnceKeeps ==
    ASSUME IInv, NEW p \in Parties, ReturnAtOnce(p)
    PROVE  InOp(p) /\ AllMoved(p) /\ IInv'
<1>1. Types /\ Proper(p) /\ Return(p) /\ InOp(p)
  BY DEF IInv, ReturnAtOnce, InOp
<1>2. ASSUME NEW q \in Parties, NEW d \in Directions PROVE ~Uses(at[p], p, q, d) /\ AtRest(p, q, d)
  <2>1. CASE phase[p] = "construct" /\ Exchanges(p) = <<>>
    <3>1. ~Uses(at[p], p, q, d)
      BY <1>1, <2>1, InRounds, NoStage DEF ExchangerPhases
    <3>2. AtRest(p, q, d)
      BY <1>1, <2>1 DEF Proper, WithExchangers, ExchangerPhases, AtRest
    <3> QED
      BY <3>1, <3>2
  <2>2. CASE phase[p] = "wait" /\ Requests(p) = <<>>
    <3>1. ByThreads(Op(p)) /\ (Asked(p, q, d) \/ Ready(p, q, d) \/ Through(p, q, d))
      BY <1>1, <2>2 DEF Proper, WithThreads
    <3>2. ~Uses(at[p], p, q, d)
      BY <2>2, <3>1 DEF Uses, Op, Requests
    <3> QED
      BY <3>1, <3>2 DEF Asked, Ready, Through
  <2> QED
    BY <2>1, <2>2 DEF ReturnAtOnce
<1>3. AllMoved(p)
  BY <1>2 DEF AllMoved
<1>4. /\ UNCHANGED <<kind, program, at, stage, mem, len, wire, requested>>
      /\ made' = made /\ tx' = tx /\ rx' = rx /\ finished' = finished
  BY DEF ReturnAtOnce, threads
<1>5. \A q \in Parties, d \in Directions : AtRest(p, q, d)'
  BY <1>2, <1>4 DEF AtRest, Moved
<1>6. /\ made' \in [Parties -> Nat] /\ tx' \in [Parties -> [Parties -> Int]]
      /\ rx' \in [Parties -> [Parties -> Int]]
      /\ finished' \in [Parties -> [Parties -> [Directions -> Seq(Streams)]]]
  BY <1>1, <1>4 DEF Types
<1> QED
  BY <1>1, <1>3, <1>4, <1>5, <1>6, Returned
-----------------------------------------------------------------------------
(* The Exchangers of a stage are done.                                     *)

\* What they were to move has been moved.
LEMMA StageDone ==
    ASSUME IInv, NEW p \in Parties, Finish(p)
    PROVE  /\ phase[p] \in ExchangerPhases /\ phase[p] # "construct" /\ Exchanges(p) # <<>>
           /\ \A q \in Parties, d \in Directions :
                  /\ Moved(p, q, d) # -1 <=> \E i \in DOMAIN Pairs(p) : Peer(Pairs(p)[i], d) = q
                  /\ Moved(p, q, d) # -1 => Moved(p, q, d) = Sum(at[p], p, q, d)
                  /\ requested[p][q][d] = <<>> /\ finished[p][q][d] = <<>>
<1>1. /\ Types /\ Proper(p) /\ HasReceived(p) /\ phase[p] \in ExchangerPhases
      /\ phase[p] # "construct" /\ phase[p] # "wait" /\ InOp(p)
  BY DEF IInv, Finish, ExchangerPhases, InMemory, InOp
<1>2. Exchanges(p) # <<>>
  BY <1>1 DEF Proper, WithExchangers
<1>3. DOMAIN Pairs(p) = 1..made[p]
  BY <1>1, <1>2, InStage
<1>4. \A q \in Parties, d \in Directions :
          /\ Moved(p, q, d) # -1 <=> \E i \in DOMAIN Pairs(p) : Peer(Pairs(p)[i], d) = q
          /\ Moved(p, q, d) \in -1..Sum(at[p], p, q, d)
          /\ requested[p][q][d] = <<>> /\ finished[p][q][d] = <<>>
  BY <1>1, <1>2, <1>3 DEF Proper, WithExchangers
<1>5. Op(p) = Ops[at[p]] /\ \A q \in Parties : Op(p).size[q] \in Nat
  BY <1>1, Counting
<1>6. ASSUME NEW q \in Parties, NEW d \in Directions, Moved(p, q, d) # -1
      PROVE  Moved(p, q, d) = Sum(at[p], p, q, d)
  <2>1. PICK i \in DOMAIN Pairs(p) : Peer(Pairs(p)[i], d) = q
    BY <1>4, <1>6
  <2>2. SentAll(p, Pairs(p)[i].to) /\ Received(p, Pairs(p)[i].from) /\ q # NoParty
    BY TheParties DEF Finish
  <2>3. CASE d = "send"
    BY <1>5, <2>1, <2>2, <2>3 DEF SentAll, Peer, Moved, Sum
  <2>4. CASE d = "receive"
    <3>1. PICK n : n = rx[p][q]
      OBVIOUS
    <3>2. n > 0 /\ n > len[p][q] /\ Moved(p, q, d) = n
      BY <2>1, <2>2, <2>4, <3>1 DEF Received, Peer, Moved
    <3>3. Uses(at[p], p, q, "receive")
      <4>1. Served(p, i, q, d)
        BY <2>1, <2>2 DEF Served
      <4> QED
        BY <1>1, <1>2, <2>4, <4>1, InStage
    <3>4. Got(p, q) /\ Count(p, q, "receive") = n
      BY <1>1, <1>6, <2>4, <3>2, <3>3 DEF HasReceived, Count
    <3>5. n \in -1..Sum(at[p], p, q, d) /\ Sum(at[p], p, q, d) = Op(p).size[q] + 1
      BY <1>4, <1>5, <2>4, <3>2 DEF Sum
    <3>6. Op(p).size[q] \in Nat
      BY <1>5
    <3>7. n \in Int /\ n >= 1
      BY <3>2, <3>5, <3>6
    <3>8. len[p][q] = Op(p).size[q]
      BY <3>4, <3>7 DEF Got
    <3> QED
      BY <3>2, <3>5, <3>6, <3>7, <3>8
  <2> QED
    BY <2>3, <2>4 DEF Directions
<1> QED
  BY <1>1, <1>2, <1>4, <1>6

\* Nothing is to be moved at first in the next stage, or by an operation to come.
LEMMA Restarted ==
    ASSUME Types, NEW p \in Parties, tx' = [tx EXCEPT ![p] = All(-1)], rx' = [rx EXCEPT ![p] = All(-1)]
    PROVE  /\ tx' \in [Parties -> [Parties -> Int]] /\ rx' \in [Parties -> [Parties -> Int]]
           /\ \A q \in Parties, d \in Directions : Moved(p, q, d)' = -1
           /\ \A a \in Parties : a # p => tx'[a] = tx[a] /\ rx'[a] = rx[a]
<1>1. PICK z : z = All(-1)
  OBVIOUS
<1>2. z \in [Parties -> Int] /\ \A q \in Parties : z[q] = -1
  BY <1>1 DEF All
<1>3. /\ tx \in [Parties -> [Parties -> Int]] /\ rx \in [Parties -> [Parties -> Int]]
      /\ tx' = [tx EXCEPT ![p] = z] /\ rx' = [rx EXCEPT ![p] = z]
  BY <1>1 DEF Types
<1>4. /\ tx' \in [Parties -> [Parties -> Int]] /\ rx' \in [Parties -> [Parties -> Int]]
      /\ tx'[p] = z /\ rx'[p] = z /\ \A a \in Parties : a # p => tx'[a] = tx[a] /\ rx'[a] = rx[a]
  BY <1>2, <1>3
<1> QED
  BY <1>2, <1>4 DEF Moved

LEMMA FinishReturns ==
    ASSUME IInv, NEW p \in Parties, Finish(p), stage[p] = Len(Exchanges(p))
    PROVE  InOp(p) /\ AllMoved(p) /\ IInv'
<1>1. Types /\ Proper(p) /\ Return(p) /\ InOp(p) /\ phase[p] # "wait"
  BY DEF IInv, Finish, InOp
<1>2. /\ phase[p] \in ExchangerPhases /\ Exchanges(p) # <<>>
      /\ \A q \in Parties, d \in Directions :
             /\ Moved(p, q, d) # -1 <=> \E i \in DOMAIN Pairs(p) : Peer(Pairs(p)[i], d) = q
             /\ Moved(p, q, d) # -1 => Moved(p, q, d) = Sum(at[p], p, q, d)
             /\ requested[p][q][d] = <<>> /\ finished[p][q][d] = <<>>
  BY StageDone
<1>3. ASSUME NEW q \in Parties, NEW d \in Directions, Uses(at[p], p, q, d)
      PROVE  Count(p, q, d) = Sum(at[p], p, q, d)
  <2>1. CASE Moved(p, q, d) # -1
    BY <1>2, <2>1 DEF Count
  <2>2. CASE Moved(p, q, d) = -1
    <3>1. PICK i \in DOMAIN Exchanges(p) : \E j \in DOMAIN Exchanges(p)[i] : Peer(Exchanges(p)[i][j], d) = q
      BY <1>1, <1>2, <1>3, InRounds DEF With
    <3>2. i # stage[p]
      BY <1>2, <2>2, <3>1 DEF Pairs
    <3>3. i \in 1..Len(Exchanges(p)) /\ Len(Exchanges(p)) \in Nat
      <4>1. Exchanges(p) \in Seq(Seq(PairSet))
        BY <1>1, <1>2, InRounds DEF Staged
      <4> QED
        BY <4>1
    <3>4. i \in 1..(stage[p] - 1)
      BY <3>2, <3>3
    <3>5. Done(p, q, d)
      BY <1>1, <3>1, <3>4 DEF Done
    <3> QED
      BY <2>2, <3>5 DEF Count
  <2> QED
    BY <2>1, <2>2
<1>4. AllMoved(p)
  BY <1>3 DEF AllMoved
<1>5. /\ tx' = [tx EXCEPT ![p] = All(-1)] /\ rx' = [rx EXCEPT ![p] = All(-1)]
      /\ UNCHANGED <<kind, program, at, stage, mem, len, wire, requested>>
      /\ made' = made /\ finished' = finished
  BY DEF Finish, threads
<1>6. /\ tx' \in [Parties -> [Parties -> Int]] /\ rx' \in [Parties -> [Parties -> Int]]
      /\ \A q \in Parties, d \in Directions : Moved(p, q, d)' = -1
      /\ \A a \in Parties : a # p => tx'[a] = tx[a] /\ rx'[a] = rx[a]
  BY <1>1, <1>5, Restarted
<1>7. \A q \in Parties, d \in Directions : AtRest(p, q, d)'
  BY <1>2, <1>5, <1>6 DEF AtRest
<1>8. made' \in [Parties -> Nat] /\ finished' \in [Parties -> [Parties -> [Directions -> Seq(Streams)]]]
  BY <1>1, <1>5 DEF Types
<1> QED
  BY <1>1, <1>4, <1>5, <1>6, <1>7, <1>8, Returned

\* The next stage, what a party has sent and received so far being the same.
LEMMA FinishGoesOn ==
    ASSUME IInv, NEW p \in Parties, Finish(p), stage[p] # Len(Exchanges(p))
    PROVE  IInv'
<1>1. Types /\ Proper(p) /\ InMemory(p) /\ Flow /\ InOp(p) /\ phase[p] # "wait"
  BY DEF IInv, Finish, InOp
<1>2. /\ phase[p] \in ExchangerPhases /\ Exchanges(p) # <<>>
      /\ \A q \in Parties, d \in Directions :
             /\ Moved(p, q, d) # -1 <=> \E i \in DOMAIN Pairs(p) : Peer(Pairs(p)[i], d) = q
             /\ Moved(p, q, d) # -1 => Moved(p, q, d) = Sum(at[p], p, q, d)
             /\ requested[p][q][d] = <<>> /\ finished[p][q][d] = <<>>
  BY StageDone
<1>3. /\ tx' = [tx EXCEPT ![p] = All(-1)] /\ rx' = [rx EXCEPT ![p] = All(-1)]
      /\ stage' = [stage EXCEPT ![p] = @ + 1] /\ made' = [made EXCEPT ![p] = 0]
      /\ Goto(p, "construct") /\ result' = result
      /\ UNCHANGED <<kind, program, at, mem, len, wire, requested, finished>>
  BY DEF Finish, threads
<1>4. /\ tx' \in [Parties -> [Parties -> Int]] /\ rx' \in [Parties -> [Parties -> Int]]
      /\ \A q \in Parties, d \in Directions : Moved(p, q, d)' = -1
      /\ \A a \in Parties : a # p => tx'[a] = tx[a] /\ rx'[a] = rx[a]
  BY <1>1, <1>3, Restarted
<1>5. /\ stage' \in [Parties -> Nat] /\ stage'[p] = stage[p] + 1 /\ stage[p] \in Nat
      /\ made' \in [Parties -> Nat] /\ made'[p] = 0
      /\ \A a \in Parties : a # p => stage'[a] = stage[a] /\ made'[a] = made[a]
  BY <1>1, <1>3 DEF Types
<1>6. /\ phase' \in [Parties -> Phases] /\ phase'[p] = "construct"
      /\ \A a \in Parties : a # p => phase'[a] = phase[a]
  <2>1. "construct" \in Phases
    BY DEF Phases
  <2> QED
    BY <1>1, <1>3, <2>1, PhaseAt
<1>7. Types'
  BY <1>1, <1>3, <1>4, <1>5, <1>6 DEF Types, Phases
<1>8. ASSUME NEW a \in Parties, a # p PROVE Still(a)
  BY <1>3, <1>4, <1>5, <1>6, <1>8 DEF Still, Fixed
<1>9. Fixed /\ at'[p] = at[p] /\ at[p]' = at[p] /\ InOp(p)' /\ mem'[p] = mem[p] /\ len'[p] = len[p]
  BY <1>3, <1>6 DEF Fixed, InOp
<1>10. PICK E, n : E = Exchanges(p) /\ n = stage[p]
  OBVIOUS
<1>11. /\ Exchanges(p)' = E /\ Pairs(p) = E[n] /\ Pairs(p)' = E[n + 1]
       /\ ByThreads(Op(p))' = ByThreads(Op(p))
       /\ \A q, d : Sum(at[p], p, q, d)' = Sum(at[p], p, q, d)
       /\ \A q, d : Uses(at[p], p, q, d)' = Uses(at[p], p, q, d)
  <2>1. Exchanges(p)' = E
    BY <1>9, <1>10, SameOp
  <2>2. Pairs(p) = E[n] /\ Pairs(p)' = E[n + 1]
    BY <1>5, <1>10, <2>1 DEF Pairs
  <2> QED
    BY <1>9, <2>1, <2>2, SameOp
<1>12. n \in 1..Len(E) /\ n + 1 \in 1..Len(E) /\ Len(E[n + 1]) \in Nat \ {0}
  <2>1. E \in Seq(Seq(PairSet)) /\ \A i \in DOMAIN E : E[i] # <<>>
    BY <1>1, <1>2, <1>10, InRounds DEF Staged
  <2>2. n \in 1..Len(E) /\ n # Len(E)
    BY <1>1, <1>2, <1>10 DEF Proper, WithExchangers
  <2>3. n + 1 \in 1..Len(E)
    BY <2>1, <2>2
  <2>4. E[n + 1] \in Seq(PairSet) /\ E[n + 1] # <<>>
    BY <2>1, <2>3
  <2> QED
    BY <2>2, <2>3, <2>4
<1>13. ASSUME NEW q \in Parties, NEW d \in Directions
       PROVE  Count(p, q, d)' = Count(p, q, d) /\ Position(p, q, d)' = Position(p, q, d)
  <2>1. Done(p, q, d) <=> \E i \in 1..(n - 1) : \E j \in DOMAIN E[i] : Peer(E[i][j], d) = q
    BY <1>1, <1>10 DEF Done
  <2>2. Done(p, q, d)' <=> \E i \in 1..n : \E j \in DOMAIN E[i] : Peer(E[i][j], d) = q
    <3>1. stage[p]' - 1 = n
      BY <1>5, <1>10
    <3> QED
      BY <1>6, <1>11, <3>1 DEF Done
  <2>3. \A i : i \in 1..n <=> i \in 1..(n - 1) \/ i = n
    BY <1>12
  <2>4. Done(p, q, d)' <=> Done(p, q, d) \/ \E j \in DOMAIN E[n] : Peer(E[n][j], d) = q
    BY <2>1, <2>2, <2>3
  <2>5. Count(p, q, d)' = IF Done(p, q, d)' THEN Sum(at[p], p, q, d) ELSE 0
    BY <1>4, <1>11 DEF Count
  <2>6. Count(p, q, d)' = Count(p, q, d)
    <3>1. CASE Moved(p, q, d) # -1
      BY <1>2, <1>11, <2>4, <2>5, <3>1 DEF Count
    <3>2. CASE Moved(p, q, d) = -1
      BY <1>2, <1>11, <2>4, <2>5, <3>2 DEF Count
    <3> QED
      BY <3>1, <3>2
  <2> QED
    BY <1>1, <1>9, <2>6 DEF Position
<1>14. Flow'
  <2>1. ASSUME NEW a \in Parties, NEW q \in Parties, NEW d \in Directions PROVE Steady(a, q, d)
    BY <1>8, <1>13, StillSteady, SameIsSteady
  <2> QED
    BY <1>1, <1>3, <1>9, <2>1, QuietFlow
<1>15. Turn(p)'
  <2>1. Ops' = Ops /\ result[p]' = result[p] /\ phase'[p] # "closed"
    BY <1>3, <1>6, <1>9, FixedOps
  <2> QED
    BY <1>1, <1>9, <2>1 DEF Proper, Turn
<1>16. WithExchangers(p)'
  <2>1. ~ByThreads(Op(p))'
    BY <1>1, <1>2, <1>11 DEF Proper, WithExchangers
  <2>2. ASSUME NEW q \in Parties, NEW d \in Directions
        PROVE  /\ requested[p][q][d]' = <<>> /\ finished[p][q][d]' = <<>>
               /\ Moved(p, q, d)' \in -1..Sum(at[p], p, q, d)' /\ Moved(p, q, d)' = -1
    <3>1. Sum(at[p], p, q, d) \in Nat
      BY <1>1, Counting
    <3> QED
      BY <1>2, <1>3, <1>4, <1>11, <3>1
  <2>3. stage[p]' \in 1..Len(E) /\ made[p]' \in 0..Len(E[n + 1]) /\ made[p]' < Len(E[n + 1])
    BY <1>5, <1>10, <1>12
  <2>4. ~\E i \in 1..made[p]' : TRUE
    BY <1>5
  <2>5. Exchanges(p)' # <<>> /\ phase'[p] = "construct"
    BY <1>2, <1>6, <1>10, <1>11
  <2> QED
    BY <1>11, <2>1, <2>2, <2>3, <2>4, <2>5 DEF WithExchangers
<1>17. WithThreads(p)'
  BY <1>6 DEF WithThreads
<1>18. ToSend(p)'
  <2>1. ASSUME NEW q \in Parties
        PROVE  Count(p, q, "send")' \in Nat /\ Count(p, q, "send")' >= Count(p, q, "send")
    <3>1. "send" \in Directions
      BY DEF Directions
    <3>2. Sum(at[p], p, q, "send") \in Nat /\ Count(p, q, "send") \in 0..Sum(at[p], p, q, "send")
      BY <1>1, <3>1, Counting
    <3> QED
      BY <1>13, <3>1, <3>2
  <2> QED
    BY <1>1, <1>9, <2>1, SentMemory DEF InMemory
<1>19. ASSUME NEW q \in Parties, Uses(at[p], p, q, "receive")' PROVE Got(p, q)'
  <2>1. Uses(at[p], p, q, "receive")
    BY <1>11, <1>19
  <2>2. Got(p, q) /\ len'[p][q] = len[p][q]
        /\ mem'[p][Target(Op(p), p, q)] = mem[p][Target(Op(p), p, q)]
    BY <1>1, <1>9, <2>1 DEF InMemory, HasReceived
  <2>3. Count(p, q, "receive")' = Count(p, q, "receive")
    BY <1>13 DEF Directions
  <2> QED
    BY <1>9, <2>2, <2>3, GotMemory
<1> QED
  BY <1>7, <1>8, <1>14, <1>15, <1>16, <1>17, <1>18, <1>19, StepKeeps
     DEF Proper, InMemory, HasReceived
-----------------------------------------------------------------------------
(* The calling thread waits for one thread after another.                  *)

Standing(p, q, d) == Asked(p, q, d) \/ Ready(p, q, d) \/ Through(p, q, d)

LEMMA WaitPlace ==
    ASSUME IInv, NEW p \in Parties, Wait(p)
    PROVE  /\ Types /\ Proper(p) /\ InMemory(p) /\ Flow /\ InOp(p) /\ phase[p] = "wait"
           /\ ByThreads(Op(p)) /\ Requests(p) # <<>> /\ Fixed /\ at'[p] = at[p]
           /\ made' = [made EXCEPT ![p] = made[p] + 1]
           /\ UNCHANGED <<kind, program, at, stage, mem, tx, rx, len, wire, requested>>
           /\ \A q \in Parties, d \in Directions : Standing(p, q, d)
           /\ Len(Waits(p)) \in Nat /\ made[p] \in 0..(Len(Waits(p)) - 1)
           /\ Waits(p)[made[p] + 1] \in [d : Directions, q : Parties \cup {NoParty}]
           /\ \A q \in Parties, d \in Directions :
                  Uses(at[p], p, q, d) => \E j \in 1..Len(Waits(p)) : Waits(p)[j] = [d |-> d, q |-> q]
<1>1. /\ Types /\ Proper(p) /\ InMemory(p) /\ Flow /\ InOp(p) /\ phase[p] = "wait"
      /\ Requests(p) # <<>> /\ Fixed /\ at'[p] = at[p]
      /\ made' = [made EXCEPT ![p] = made[p] + 1]
      /\ UNCHANGED <<kind, program, at, stage, mem, tx, rx, len, wire, requested>>
  BY DEF IInv, Wait, InOp, Fixed
<1>2. ByThreads(Op(p)) /\ made[p] < Len(Waits(p))
      /\ \A q \in Parties, d \in Directions : Standing(p, q, d)
  BY <1>1 DEF Proper, WithThreads, Standing
<1>3. Program /\ at[p] \in 1..Len(Ops) /\ Op(p) = Ops[at[p]]
  BY <1>1, Counting
<1>4. PICK R : R = Requests(p)
  OBVIOUS
<1>5. R \in Seq(PairSet) /\ \A q, d : Uses(at[p], p, q, d) <=> Among(R, q, d)
  <2>1. R = AllRequests[program][at[p]][p]
    BY <1>4 DEF Requests
  <2> QED
    BY <1>2, <1>3, <2>1, RequestsPlan
<1>6. Waits(p) = WaitsFor(R)
  BY <1>4 DEF Waits, WaitsFor
<1>7. /\ Len(Waits(p)) = 2 * Len(R)
      /\ \A i \in DOMAIN R : /\ 2 * i - 1 \in 1..(2 * Len(R)) /\ 2 * i \in 1..(2 * Len(R))
                             /\ Waits(p)[2 * i - 1] = [d |-> "send", q |-> Peer(R[i], "send")]
                             /\ Waits(p)[2 * i] = [d |-> "receive", q |-> Peer(R[i], "receive")]
      /\ \A j \in 1..(2 * Len(R)) : \E i \in DOMAIN R : j = 2 * i - 1 \/ j = 2 * i
  BY <1>5, <1>6, WaitsAre
<1>8. Len(Waits(p)) \in Nat /\ made[p] \in 0..(Len(Waits(p)) - 1)
  <2>1. Len(R) \in Nat /\ made[p] \in Nat
    BY <1>1, <1>5 DEF Types
  <2> QED
    BY <1>2, <1>7, <2>1
<1>9. Waits(p)[made[p] + 1] \in [d : Directions, q : Parties \cup {NoParty}]
  <2>1. made[p] + 1 \in 1..(2 * Len(R))
    BY <1>7, <1>8
  <2>2. PICK i \in DOMAIN R : made[p] + 1 = 2 * i - 1 \/ made[p] + 1 = 2 * i
    BY <1>7, <2>1
  <2>3. R[i] \in PairSet
    BY <1>5
  <2>4. \A d \in Directions : Peer(R[i], d) \in Parties \cup {NoParty}
    BY <2>3 DEF PairSet, Peer
  <2> QED
    <3>1. \E d \in Directions : Waits(p)[made[p] + 1] = [d |-> d, q |-> Peer(R[i], d)]
      BY <1>7, <2>2 DEF Directions
    <3> QED
      BY <2>4, <3>1
<1>10. ASSUME NEW q \in Parties, NEW d \in Directions, Uses(at[p], p, q, d)
       PROVE  \E j \in 1..Len(Waits(p)) : Waits(p)[j] = [d |-> d, q |-> q]
  <2>1. PICK i \in DOMAIN R : Peer(R[i], d) = q
    BY <1>5, <1>10 DEF Among
  <2> QED
    BY <1>7, <2>1 DEF Directions
<1> QED
  BY <1>1, <1>2, <1>8, <1>9, <1>10

\* What is at the head of the queue is what is waited for.
LEMMA WaitsForMine ==
    ASSUME IInv, NEW p \in Parties, Wait(p), NEW w, w = Waits(p)[made[p] + 1]
    PROVE  /\ IF w.q = NoParty THEN finished' = finished
              ELSE finished' = Upd3(finished, p, w.q, w.d, <<>>) /\ Ready(p, w.q, w.d)
           /\ IF made[p] + 1 = Len(Waits(p)) THEN Return(p) ELSE phase' = phase /\ result' = result
<1>1. /\ Types /\ w.q \in Parties \cup {NoParty} /\ w.d \in Directions
      /\ \A q \in Parties, d \in Directions : Standing(p, q, d)
  BY WaitPlace
<1>2. CASE w.q = NoParty
  BY <1>2 DEF Wait
<1>3. CASE w.q # NoParty
  <2>1. PICK q, d : q = w.q /\ d = w.d
    OBVIOUS
  <2>2. q \in Parties /\ d \in Directions
    BY <1>1, <1>3, <2>1
  <2>3. /\ finished[p][q][d] # <<>>
        /\ finished' = Upd3(finished, p, q, d, Tail(finished[p][q][d]))
    BY <1>3, <2>1 DEF Wait, Takes, Upd3
  <2>4. Ready(p, q, d)
    BY <1>1, <2>2, <2>3 DEF Standing, Asked, Through, AtRest
  <2>5. PICK x : x = Stream(Op(p), p, q, d)
    OBVIOUS
  <2>6. finished[p][q][d] = <<x>>
    BY <2>4, <2>5 DEF Ready
  <2>7. Head(<<x>>) = x /\ Tail(<<x>>) = <<>>
    OBVIOUS
  <2>8. Mine(p, q, d) /\ Tail(finished[p][q][d]) = <<>>
    BY <2>5, <2>6, <2>7 DEF Mine
  <2> QED
    BY <1>3, <2>1, <2>3, <2>4, <2>8 DEF Wait
<1> QED
  BY <1>2, <1>3

\* Everything else that the threads are to do is left as it is.
LEMMA WaitStanding ==
    ASSUME IInv, NEW p \in Parties, Wait(p), Types'
    PROVE  /\ \A q \in Parties, d \in Directions : Standing(p, q, d)'
           /\ \A q \in Parties, d \in Directions :
                  Through(p, q, d)' => requested[p][q][d] = <<>> /\ Moved(p, q, d) = -1
           /\ \A q \in Parties, d \in Directions : Moved(p, q, d)' = Moved(p, q, d)
           /\ \A a \in Parties : a # p => made'[a] = made[a] /\ finished'[a] = finished[a]
           /\ made'[p] = made[p] + 1 /\ Waits(p)' = Waits(p)
<1>1. /\ Types /\ Fixed /\ at'[p] = at[p] /\ made' = [made EXCEPT ![p] = made[p] + 1]
      /\ UNCHANGED <<kind, program, at, stage, mem, tx, rx, len, wire, requested>>
      /\ \A q \in Parties, d \in Directions : Standing(p, q, d)
      /\ Waits(p)[made[p] + 1] \in [d : Directions, q : Parties \cup {NoParty}]
      /\ made[p] \in 0..(Len(Waits(p)) - 1)
  BY WaitPlace
<1>2. made'[p] = made[p] + 1 /\ \A a \in Parties : a # p => made'[a] = made[a]
  BY <1>1 DEF Types
<1>3. Waits(p)' = Waits(p)
  BY <1>1, SameOp
<1>4. PICK w : w = Waits(p)[made[p] + 1]
  OBVIOUS
<1>5. w \in [d : Directions, q : Parties \cup {NoParty}]
  BY <1>1, <1>4
<1>6. finished \in Table3(Parties, Parties, Directions, Seq(Streams))
  BY <1>1 DEF Types, Table3
<1>7. /\ \A a \in Parties : a # p => finished'[a] = finished[a]
      /\ \A q \in Parties, d \in Directions :
             IF w = [d |-> d, q |-> q] THEN finished'[p][q][d] = <<>> /\ Ready(p, q, d)
             ELSE finished'[p][q][d] = finished[p][q][d]
  <2>1. CASE w.q = NoParty
    <3>1. finished' = finished
      BY <1>4, <2>1, WaitsForMine
    <3>2. \A q \in Parties, d \in Directions : w # [d |-> d, q |-> q]
      BY <2>1, TheParties
    <3> QED
      BY <3>1, <3>2
  <2>2. CASE w.q # NoParty
    <3>1. PICK b, e : b = w.q /\ e = w.d
      OBVIOUS
    <3>2. b \in Parties /\ e \in Directions /\ w = [d |-> e, q |-> b]
      BY <1>5, <2>2, <3>1
    <3>3. finished' = Upd3(finished, p, b, e, <<>>) /\ Ready(p, b, e)
      BY <1>4, <2>2, <3>1, WaitsForMine
    <3>4. <<>> \in Seq(Streams)
      OBVIOUS
    <3>5. /\ finished'[p][b][e] = <<>>
          /\ \A d \in Directions : d # e => finished'[p][b][d] = finished[p][b][d]
          /\ \A q \in Parties : q # b => finished'[p][q] = finished[p][q]
          /\ \A a \in Parties : a # p => finished'[a] = finished[a]
      <4>1. PICK f, v : f = Upd3(finished, p, b, e, v) /\ v = <<>>
        OBVIOUS
      <4>2. v \in Seq(Streams) /\ f = finished' /\ f = Upd3(finished, p, b, e, v)
            /\ p \in Parties /\ b \in Parties /\ e \in Directions
        BY <3>2, <3>3, <3>4, <4>1
      <4>3. /\ f[p][b][e] = v
            /\ \A d \in Directions : d # e => f[p][b][d] = finished[p][b][d]
            /\ \A q \in Parties : q # b => f[p][q] = finished[p][q]
            /\ \A a \in Parties : a # p => f[a] = finished[a]
        BY <1>6, <4>2, QueueAt
      <4> QED
        BY <4>1, <4>2, <4>3
    <3>6. \A q, d : w = [d |-> d, q |-> q] <=> d = e /\ q = b
      BY <3>2
    <3> QED
      BY <3>2, <3>3, <3>5, <3>6
  <2> QED
    BY <2>1, <2>2
<1>8. ASSUME NEW q \in Parties, NEW d \in Directions
      PROVE  Waited(p, q, d)' <=> Waited(p, q, d) \/ w = [d |-> d, q |-> q]
  <2>1. \A j : j \in 1..made'[p] <=> j \in 1..made[p] \/ j = made[p] + 1
    BY <1>1, <1>2
  <2>2. Waited(p, q, d)' <=> \E j \in 1..made'[p] : Waits(p)[j] = [d |-> d, q |-> q]
    BY <1>3 DEF Waited
  <2> QED
    BY <1>4, <2>1, <2>2 DEF Waited
<1>9. ASSUME NEW q \in Parties, NEW d \in Directions
      PROVE  /\ Standing(p, q, d)' /\ Moved(p, q, d)' = Moved(p, q, d)
             /\ Through(p, q, d)' => requested[p][q][d] = <<>> /\ Moved(p, q, d) = -1
  <2>1. /\ requested'[p][q][d] = requested[p][q][d] /\ Moved(p, q, d)' = Moved(p, q, d)
        /\ Uses(at[p], p, q, d)' = Uses(at[p], p, q, d)
        /\ Sum(at[p], p, q, d)' = Sum(at[p], p, q, d)
        /\ Stream(Op(p), p, q, d)' = Stream(Op(p), p, q, d)
    BY <1>1, SameOp DEF Moved
  <2>2. Through(p, q, d)' => requested[p][q][d] = <<>> /\ Moved(p, q, d) = -1
    BY <2>1 DEF Through, AtRest
  <2>3. CASE w = [d |-> d, q |-> q]
    <3>1. finished'[p][q][d] = <<>> /\ Ready(p, q, d) /\ Waited(p, q, d)'
      BY <1>7, <1>8, <2>3
    <3>2. Through(p, q, d)'
      BY <2>1, <3>1 DEF Ready, Through, AtRest
    <3> QED
      BY <2>1, <2>2, <3>2 DEF Standing
  <2>4. CASE w # [d |-> d, q |-> q]
    <3>1. finished'[p][q][d] = finished[p][q][d] /\ (Waited(p, q, d)' <=> Waited(p, q, d))
      BY <1>7, <1>8, <2>4
    <3>2. Asked(p, q, d) => Asked(p, q, d)'
      BY <2>1, <3>1 DEF Asked
    <3>3. Ready(p, q, d) => Ready(p, q, d)'
      BY <2>1, <3>1 DEF Ready
    <3>4. Through(p, q, d) => Through(p, q, d)'
      BY <2>1, <3>1 DEF Through, AtRest
    <3> QED
      BY <1>1, <2>1, <2>2, <3>2, <3>3, <3>4 DEF Standing
  <2> QED
    BY <2>3, <2>4
<1> QED
  BY <1>2, <1>3, <1>7, <1>9

LEMMA WaitTypes ==
    ASSUME IInv, NEW p \in Parties, Wait(p)
    PROVE  /\ made' \in [Parties -> Nat]
           /\ finished' \in [Parties -> [Parties -> [Directions -> Seq(Streams)]]]
<1>1. /\ Types /\ made' = [made EXCEPT ![p] = made[p] + 1]
      /\ Waits(p)[made[p] + 1] \in [d : Directions, q : Parties \cup {NoParty}]
  BY WaitPlace
<1>2. made' \in [Parties -> Nat]
  <2>1. made \in [Parties -> Nat] /\ made' = [made EXCEPT ![p] = made[p] + 1]
    BY <1>1 DEF Types
  <2>2. made[p] + 1 \in Nat
    BY <2>1
  <2> QED
    BY <2>1, <2>2
<1>3. PICK w : w = Waits(p)[made[p] + 1]
  OBVIOUS
<1>4. finished' \in [Parties -> [Parties -> [Directions -> Seq(Streams)]]]
  <2>1. CASE w.q = NoParty
    BY <1>1, <1>3, <2>1, WaitsForMine DEF Types
  <2>2. CASE w.q # NoParty
    <3>1. PICK b, e, v, f : b = w.q /\ e = w.d /\ v = <<>> /\ f = Upd3(finished, p, b, e, v)
      OBVIOUS
    <3>2. /\ v \in Seq(Streams) /\ f = finished' /\ f = Upd3(finished, p, b, e, v)
          /\ p \in Parties /\ b \in Parties /\ e \in Directions
      BY <1>1, <1>3, <2>2, <3>1, WaitsForMine
    <3>3. finished \in Table3(Parties, Parties, Directions, Seq(Streams))
      BY <1>1 DEF Types, Table3
    <3>4. f \in Table3(Parties, Parties, Directions, Seq(Streams))
      BY <3>2, <3>3, QueueAt
    <3> QED
      BY <3>2, <3>4 DEF Table3
  <2> QED
    BY <2>1, <2>2
<1> QED
  BY <1>2, <1>4

\* The last one: there is nothing left to move.
LEMMA WaitReturns ==
    ASSUME IInv, NEW p \in Parties, Wait(p), made[p] + 1 = Len(Waits(p))
    PROVE  InOp(p) /\ AllMoved(p) /\ IInv'
<1>1. /\ Types /\ Proper(p) /\ InOp(p) /\ phase[p] = "wait" /\ Fixed /\ at'[p] = at[p]
      /\ UNCHANGED <<kind, program, at, stage, mem, tx, rx, len, wire, requested>>
      /\ \A q \in Parties, d \in Directions :
             Uses(at[p], p, q, d) => \E j \in 1..Len(Waits(p)) : Waits(p)[j] = [d |-> d, q |-> q]
  BY WaitPlace
<1>2. PICK w : w = Waits(p)[made[p] + 1]
  OBVIOUS
<1>3. Return(p)
  BY <1>2, WaitsForMine
<1>4. /\ made' \in [Parties -> Nat] /\ tx' \in [Parties -> [Parties -> Int]]
      /\ rx' \in [Parties -> [Parties -> Int]]
      /\ finished' \in [Parties -> [Parties -> [Directions -> Seq(Streams)]]]
  BY <1>1, WaitTypes DEF Types
<1>5. Types'
  <2>1. result' \in [Parties -> Seq([Parties -> Outcomes])]
    BY <1>1, <1>3, ReturnAt
  <2>2. phase' \in [Parties -> Phases]
    <3>1. Goto(p, "idle") /\ "idle" \in Phases
      BY <1>3 DEF Return, Phases
    <3> QED
      BY <1>1, <3>1, PhaseAt
  <2> QED
    BY <1>1, <1>4, <2>1, <2>2 DEF Types, Phases
<1>6. /\ \A q \in Parties, d \in Directions : Standing(p, q, d)'
      /\ \A q \in Parties, d \in Directions :
             Through(p, q, d)' => requested[p][q][d] = <<>> /\ Moved(p, q, d) = -1
      /\ \A a \in Parties : a # p => made'[a] = made[a] /\ finished'[a] = finished[a]
      /\ made'[p] = made[p] + 1 /\ Waits(p)' = Waits(p)
  BY <1>5, WaitStanding
<1>7. ASSUME NEW q \in Parties, NEW d \in Directions PROVE Through(p, q, d)'
  <2>1. Uses(at[p], p, q, d)' = Uses(at[p], p, q, d)
    BY <1>1, SameOp
  <2>2. Uses(at[p], p, q, d) => Waited(p, q, d)'
    BY <1>1, <1>6 DEF Waited
  <2> QED
    BY <1>6, <2>1, <2>2 DEF Standing, Asked, Ready
<1>8. AllMoved(p)
  <2>1. ASSUME NEW q \in Parties, NEW d \in Directions PROVE Count(p, q, d) = Sum(at[p], p, q, d)
    <3>1. requested[p][q][d] = <<>> /\ Moved(p, q, d) = -1
      BY <1>6, <1>7
    <3> QED
      BY <1>1, <3>1 DEF Count, Done
  <2> QED
    BY <2>1 DEF AllMoved
<1>9. \A q \in Parties, d \in Directions : AtRest(p, q, d)'
  BY <1>7 DEF Through
<1> QED
  BY <1>1, <1>3, <1>4, <1>6, <1>8, <1>9, Returned

LEMMA WaitGoesOn ==
    ASSUME IInv, NEW p \in Parties, Wait(p), made[p] + 1 # Len(Waits(p))
    PROVE  IInv'
<1>1. /\ Types /\ Proper(p) /\ InMemory(p) /\ Flow /\ InOp(p) /\ phase[p] = "wait" /\ Fixed
      /\ at'[p] = at[p] /\ ByThreads(Op(p)) /\ Requests(p) # <<>>
      /\ UNCHANGED <<kind, program, at, stage, mem, tx, rx, len, wire, requested>>
      /\ Len(Waits(p)) \in Nat /\ made[p] \in 0..(Len(Waits(p)) - 1)
  BY WaitPlace
<1>2. PICK w : w = Waits(p)[made[p] + 1]
  OBVIOUS
<1>3. phase' = phase /\ result' = result
  BY <1>2, WaitsForMine
<1>4. Types'
  BY <1>1, <1>3, WaitTypes DEF Types
<1>5. /\ \A q \in Parties, d \in Directions : Standing(p, q, d)'
      /\ \A q \in Parties, d \in Directions : Moved(p, q, d)' = Moved(p, q, d)
      /\ \A a \in Parties : a # p => made'[a] = made[a] /\ finished'[a] = finished[a]
      /\ made'[p] = made[p] + 1 /\ Waits(p)' = Waits(p)
  BY <1>4, WaitStanding
<1>6. ASSUME NEW a \in Parties, a # p PROVE Still(a)
  BY <1>1, <1>3, <1>5, <1>6 DEF Still
<1>7. InOp(p)' /\ Op(p)' = Op(p) /\ Requests(p)' = Requests(p) /\ ByThreads(Op(p))' = ByThreads(Op(p))
      /\ Ops' = Ops /\ mem'[p] = mem[p] /\ len'[p] = len[p]
  BY <1>1, <1>3, SameOp DEF InOp
<1>8. ASSUME NEW q \in Parties, NEW d \in Directions
      PROVE  Count(p, q, d)' = Count(p, q, d) /\ Position(p, q, d)' = Position(p, q, d)
  <2>1. Done(p, q, d)' = Done(p, q, d)
    BY <1>1, <1>3 DEF Done
  <2>2. Sum(at[p], p, q, d)' = Sum(at[p], p, q, d)
    BY <1>1, SameOp
  <2>3. Count(p, q, d)' = Count(p, q, d)
    BY <1>5, <2>1, <2>2 DEF Count
  <2> QED
    BY <1>1, <1>7, <2>3 DEF Position
<1>9. Flow'
  <2>1. ASSUME NEW a \in Parties, NEW q \in Parties, NEW d \in Directions PROVE Steady(a, q, d)
    BY <1>6, <1>8, StillSteady, SameIsSteady
  <2> QED
    BY <1>1, <2>1, QuietFlow
<1>10. Turn(p)'
  BY <1>1, <1>3, <1>7 DEF Proper, Turn
<1>11. WithExchangers(p)'
  BY <1>1, <1>3 DEF WithExchangers, ExchangerPhases
<1>12. WithThreads(p)'
  <2>1. made[p]' < Len(Waits(p))'
    BY <1>1, <1>5
  <2> QED
    BY <1>1, <1>5, <1>7, <2>1 DEF WithThreads, Standing
<1>13. ToSend(p)'
  <2>1. ASSUME NEW q \in Parties
        PROVE  Count(p, q, "send")' \in Nat /\ Count(p, q, "send")' >= Count(p, q, "send")
    <3>1. "send" \in Directions
      BY DEF Directions
    <3>2. Sum(at[p], p, q, "send") \in Nat /\ Count(p, q, "send") \in 0..Sum(at[p], p, q, "send")
      BY <1>1, <3>1, Counting
    <3> QED
      BY <1>8, <3>1, <3>2
  <2> QED
    BY <1>1, <1>7, <2>1, SentMemory DEF InMemory
<1>14. ASSUME NEW q \in Parties, Uses(at[p], p, q, "receive")' PROVE Got(p, q)'
  <2>1. Uses(at[p], p, q, "receive")
    BY <1>1, <1>14, SameOp
  <2>2. Got(p, q) /\ len'[p][q] = len[p][q]
        /\ mem'[p][Target(Op(p), p, q)] = mem[p][Target(Op(p), p, q)]
    BY <1>1, <1>7, <2>1 DEF InMemory, HasReceived
  <2>3. Count(p, q, "receive")' = Count(p, q, "receive")
    BY <1>8 DEF Directions
  <2> QED
    BY <1>1, <2>2, <2>3, GotMemory
<1> QED
  BY <1>4, <1>6, <1>9, <1>10, <1>11, <1>12, <1>13, <1>14, StepKeeps
     DEF Proper, InMemory, HasReceived
-----------------------------------------------------------------------------
(* A thread of CryptoPlayer moves a unit.                                  *)

LEMMA Working ==
    ASSUME IInv, NEW p \in Parties, NEW q \in Parties, NEW d \in Directions, requested[p][q][d] # <<>>
    PROVE  /\ Types /\ Proper(p) /\ InMemory(p) /\ Flow /\ InOp(p) /\ phase[p] = "wait"
           /\ ByThreads(Op(p)) /\ ~Same(Op(p)) /\ p # q /\ Asked(p, q, d)
           /\ Count(p, q, d) = (IF Moved(p, q, d) = -1 THEN 0 ELSE Moved(p, q, d))
           /\ Count(p, q, d) \in Nat /\ Sum(at[p], p, q, d) \in Nat
           /\ Count(p, q, d) + 1 <= Sum(at[p], p, q, d)
           /\ Moved(p, q, d) = -1 \/ Moved(p, q, d) \in Nat \ {0}
<1>1. Types /\ Proper(p) /\ InMemory(p) /\ Flow
  BY DEF IInv
<1>2. phase[p] = "wait" /\ InOp(p)
  <2>1. InOp(p)
    BY <1>1 DEF Proper, Turn, AtRest
  <2>2. phase[p] \notin ExchangerPhases
    BY <1>1 DEF Proper, WithExchangers
  <2>3. phase[p] \in {"idle", "construct", "exchange", "write", "read", "wait", "closed"}
    BY <1>1 DEF Types
  <2> QED
    BY <2>1, <2>2, <2>3 DEF InOp, ExchangerPhases
<1>3. ByThreads(Op(p)) /\ ~Same(Op(p)) /\ Asked(p, q, d)
  <2>1. ByThreads(Op(p)) /\ (Asked(p, q, d) \/ Ready(p, q, d) \/ Through(p, q, d))
    BY <1>1, <1>2 DEF Proper, WithThreads
  <2> QED
    BY <2>1 DEF Ready, Through, AtRest, ByThreads
<1>4. Program /\ at[p] \in 1..Len(Ops) /\ Sum(at[p], p, q, d) \in Nat \ {0}
  BY <1>1, <1>2, Counting
<1>5. p # q
  BY <1>3, <1>4, Expected DEF Asked
<1>6. Moved(p, q, d) = -1 \/ Moved(p, q, d) \in 1..(Sum(at[p], p, q, d) - 1)
  BY <1>3 DEF Asked
<1>7. Count(p, q, d) = IF Moved(p, q, d) = -1 THEN 0 ELSE Moved(p, q, d)
  BY <1>2 DEF Count, Done
<1>8. /\ Count(p, q, d) \in Nat /\ Count(p, q, d) + 1 <= Sum(at[p], p, q, d)
      /\ Moved(p, q, d) = -1 \/ Moved(p, q, d) \in Nat \ {0}
  BY <1>4, <1>6, <1>7
<1> QED
  BY <1>1, <1>2, <1>3, <1>4, <1>5, <1>7, <1>8

\* It is through with a stream, or not yet.
LEMMA PushAt ==
    ASSUME Types, NEW p \in Parties, NEW q \in Parties, NEW d \in Directions, Asked(p, q, d),
           Push(p, q, d) \/ UNCHANGED threads
    PROVE  /\ requested' \in [Parties -> [Parties -> [Directions -> Seq(Streams)]]]
           /\ finished' \in [Parties -> [Parties -> [Directions -> Seq(Streams)]]]
           /\ Push(p, q, d) => /\ requested'[p][q][d] = <<>>
                               /\ finished'[p][q][d] = <<Stream(Op(p), p, q, d)>>
           /\ UNCHANGED threads => /\ requested'[p][q][d] = <<Stream(Op(p), p, q, d)>>
                                   /\ finished'[p][q][d] = <<>>
           /\ \A b \in Parties, e \in Directions : b # q \/ e # d =>
                  requested'[p][b][e] = requested[p][b][e] /\ finished'[p][b][e] = finished[p][b][e]
           /\ \A a \in Parties : a # p => requested'[a] = requested[a] /\ finished'[a] = finished[a]
<1>1. /\ requested \in Table3(Parties, Parties, Directions, Seq(Streams))
      /\ finished \in Table3(Parties, Parties, Directions, Seq(Streams))
  BY DEF Types, Table3
<1>2. PICK x : x = Stream(Op(p), p, q, d)
  OBVIOUS
<1>3. x \in Streams /\ requested[p][q][d] = <<x>> /\ finished[p][q][d] = <<>>
  BY <1>2 DEF Asked, Stream, Source, Target, Streams
<1>4. CASE Push(p, q, d)
  <2>2. /\ requested' = Upd3(requested, p, q, d, Tail(requested[p][q][d]))
        /\ finished' = Upd3(finished, p, q, d, Append(finished[p][q][d], Head(requested[p][q][d])))
    BY <1>4 DEF Push, Upd3
  <2>3. Tail(<<x>>) = <<>> /\ Head(<<x>>) = x /\ Append(<<>>, x) = <<x>>
    BY <1>3
  <2>4. PICK v, w : v = <<>> /\ w = <<x>>
    OBVIOUS
  <2>5. PICK f, g : f = requested' /\ g = finished'
    OBVIOUS
  <2>6. /\ v \in Seq(Streams) /\ f = Upd3(requested, p, q, d, v)
        /\ requested \in Table3(Parties, Parties, Directions, Seq(Streams))
        /\ p \in Parties /\ q \in Parties /\ d \in Directions
    BY <1>1, <1>3, <2>2, <2>3, <2>4, <2>5
  <2>9. /\ w \in Seq(Streams) /\ g = Upd3(finished, p, q, d, w)
        /\ finished \in Table3(Parties, Parties, Directions, Seq(Streams))
        /\ p \in Parties /\ q \in Parties /\ d \in Directions
    BY <1>1, <1>3, <2>2, <2>3, <2>4, <2>5
  <2>7. /\ f \in Table3(Parties, Parties, Directions, Seq(Streams))
        /\ f[p][q][d] = v
        /\ \A e \in Directions : e # d => f[p][q][e] = requested[p][q][e]
        /\ \A b \in Parties : b # q => f[p][b] = requested[p][b]
        /\ \A a \in Parties : a # p => f[a] = requested[a]
    BY <2>6, QueueAt
  <2>8. /\ g \in Table3(Parties, Parties, Directions, Seq(Streams))
        /\ g[p][q][d] = w
        /\ \A e \in Directions : e # d => g[p][q][e] = finished[p][q][e]
        /\ \A b \in Parties : b # q => g[p][b] = finished[p][b]
        /\ \A a \in Parties : a # p => g[a] = finished[a]
    BY <2>9, QueueAt
  <2> QED
    <3>1. ~UNCHANGED threads
      <4>1. w # <<>>
        BY <2>4
      <4> QED
        BY <1>3, <2>4, <2>5, <2>8, <4>1 DEF threads
    <3> QED
      BY <1>2, <1>4, <2>4, <2>5, <2>7, <2>8, <3>1 DEF Table3
<1>5. CASE UNCHANGED threads /\ ~Push(p, q, d)
  <2>1. requested' = requested /\ finished' = finished
    BY <1>5 DEF threads
  <2> QED
    BY <1>1, <1>2, <1>3, <1>5, <2>1 DEF Table3
<1> QED
  BY <1>4, <1>5

\* It has moved one unit, and has taken the stream off the queue if it was the last one.
MovesUnit(p, q, d) ==
    /\ IF Count(p, q, d) + 1 = Sum(at[p], p, q, d) THEN Push(p, q, d) ELSE UNCHANGED threads
    /\ UNCHANGED <<kind, program, at, phase, stage, made, result>>
    /\ mem' \in [Parties -> [Streams -> Seq(Units)]]
    /\ tx' \in [Parties -> [Parties -> Int]] /\ rx' \in [Parties -> [Parties -> Int]]
    /\ len' \in [Parties -> [Parties -> Nat]]
    /\ wire' \in [Sockets -> [Parties -> [Parties -> Seq(Units)]]]
    /\ Moved(p, q, d)' = IF Count(p, q, d) + 1 = Sum(at[p], p, q, d) THEN -1 ELSE Count(p, q, d) + 1
    /\ \A b \in Parties, e \in Directions : b # q \/ e # d => Moved(p, b, e)' = Moved(p, b, e)
    /\ \A a \in Parties : a # p => mem'[a] = mem[a] /\ tx'[a] = tx[a] /\ rx'[a] = rx[a] /\ len'[a] = len[a]

LEMMA ThreadKeeps ==
    ASSUME IInv, NEW p \in Parties, NEW q \in Parties, NEW d \in Directions, requested[p][q][d] # <<>>,
           MovesUnit(p, q, d)
    PROVE  /\ Types' /\ Proper(p)' /\ Fixed /\ at'[p] = at[p] /\ at[p]' = at[p] /\ InOp(p)'
           /\ Count(p, q, d)' = Count(p, q, d) + 1
           /\ \A b \in Parties, e \in Directions : b # q \/ e # d => Count(p, b, e)' = Count(p, b, e)
           /\ \A a \in Parties : a # p => Still(a)
           /\ \A a, b \in Parties, e \in Directions : (a # p \/ b # q \/ e # d) => Steady(a, b, e)
<1>1. /\ IF Count(p, q, d) + 1 = Sum(at[p], p, q, d) THEN Push(p, q, d) ELSE UNCHANGED threads
      /\ UNCHANGED <<kind, program, at, phase, stage, made, result>>
      /\ mem' \in [Parties -> [Streams -> Seq(Units)]]
      /\ tx' \in [Parties -> [Parties -> Int]] /\ rx' \in [Parties -> [Parties -> Int]]
      /\ len' \in [Parties -> [Parties -> Nat]]
      /\ wire' \in [Sockets -> [Parties -> [Parties -> Seq(Units)]]]
      /\ Moved(p, q, d)' = (IF Count(p, q, d) + 1 = Sum(at[p], p, q, d) THEN -1 ELSE Count(p, q, d) + 1)
      /\ \A b \in Parties, e \in Directions : b # q \/ e # d => Moved(p, b, e)' = Moved(p, b, e)
      /\ \A a \in Parties : a # p => mem'[a] = mem[a] /\ tx'[a] = tx[a] /\ rx'[a] = rx[a] /\ len'[a] = len[a]
  BY DEF MovesUnit
<1>2. /\ Types /\ Proper(p) /\ InOp(p) /\ phase[p] = "wait" /\ ByThreads(Op(p)) /\ Asked(p, q, d)
      /\ Count(p, q, d) \in Nat /\ Sum(at[p], p, q, d) \in Nat
      /\ Count(p, q, d) + 1 <= Sum(at[p], p, q, d)
  BY Working
<1>3. /\ requested' \in [Parties -> [Parties -> [Directions -> Seq(Streams)]]]
      /\ finished' \in [Parties -> [Parties -> [Directions -> Seq(Streams)]]]
      /\ IF Count(p, q, d) + 1 = Sum(at[p], p, q, d)
         THEN requested'[p][q][d] = <<>> /\ finished'[p][q][d] = <<Stream(Op(p), p, q, d)>>
         ELSE requested'[p][q][d] = <<Stream(Op(p), p, q, d)>> /\ finished'[p][q][d] = <<>>
      /\ \A b \in Parties, e \in Directions : b # q \/ e # d =>
             requested'[p][b][e] = requested[p][b][e] /\ finished'[p][b][e] = finished[p][b][e]
      /\ \A a \in Parties : a # p => requested'[a] = requested[a] /\ finished'[a] = finished[a]
  <2>1. Push(p, q, d) \/ UNCHANGED threads
    BY <1>1
  <2>2. /\ requested' \in [Parties -> [Parties -> [Directions -> Seq(Streams)]]]
        /\ finished' \in [Parties -> [Parties -> [Directions -> Seq(Streams)]]]
        /\ \A a \in Parties : a # p => requested'[a] = requested[a] /\ finished'[a] = finished[a]
    BY <1>2, <2>1, PushAt
  <2>3. \A b \in Parties, e \in Directions : b # q \/ e # d =>
            requested'[p][b][e] = requested[p][b][e] /\ finished'[p][b][e] = finished[p][b][e]
    BY <1>2, <2>1, PushAt
  <2>4. Push(p, q, d) => requested'[p][q][d] = <<>> /\ finished'[p][q][d] = <<Stream(Op(p), p, q, d)>>
    BY <1>2, <2>1, PushAt
  <2>5. UNCHANGED threads =>
            requested'[p][q][d] = <<Stream(Op(p), p, q, d)>> /\ finished'[p][q][d] = <<>>
    BY <1>2, <2>1, PushAt
  <2> QED
    BY <1>1, <2>2, <2>3, <2>4, <2>5
<1>4. Types'
  BY <1>1, <1>2, <1>3 DEF Types
<1>5. Fixed /\ at'[p] = at[p] /\ at[p]' = at[p] /\ InOp(p)' /\ phase'[p] = "wait"
  BY <1>1, <1>2 DEF Fixed, InOp
<1>6. ASSUME NEW a \in Parties, a # p PROVE Still(a)
  BY <1>1, <1>3, <1>6 DEF Still, Fixed
<1>7. /\ \A b, e : Sum(at[p], p, b, e)' = Sum(at[p], p, b, e)
      /\ \A b, e : Uses(at[p], p, b, e)' = Uses(at[p], p, b, e)
      /\ \A b, e : Stream(Op(p), p, b, e)' = Stream(Op(p), p, b, e)
      /\ \A b, e : Waited(p, b, e)' = Waited(p, b, e)
  <2>1. Waits(p)' = Waits(p) /\ made'[p] = made[p]
    BY <1>1, <1>5, SameOp
  <2>2. \A b, e : Waited(p, b, e)' = Waited(p, b, e)
    BY <2>1 DEF Waited
  <2> QED
    <3>1. \A b, e : Sum(at[p], p, b, e)' = Sum(at[p], p, b, e)
      BY <1>5, SameOp
    <3>2. \A b, e : Uses(at[p], p, b, e)' = Uses(at[p], p, b, e)
      BY <1>5, SameOp
    <3>3. \A b, e : Stream(Op(p), p, b, e)' = Stream(Op(p), p, b, e)
      BY <1>5, SameOp
    <3> QED
      BY <2>2, <3>1, <3>2, <3>3
<1>8. Count(p, q, d)' = Count(p, q, d) + 1
  <2>1. Done(p, q, d)' <=> requested'[p][q][d] = <<>>
    BY <1>5 DEF Done
  <2>2. CASE Count(p, q, d) + 1 = Sum(at[p], p, q, d)
    <3>1. Moved(p, q, d)' = -1
      BY <1>1, <2>2
    <3>2. Done(p, q, d)'
      BY <1>3, <2>1, <2>2
    <3>3. Sum(at[p], p, q, d)' = Sum(at[p], p, q, d)
      BY <1>7
    <3>4. Count(p, q, d)' = Sum(at[p], p, q, d)
      BY <3>1, <3>2, <3>3 DEF Count
    <3> QED
      BY <2>2, <3>4
  <2>3. CASE Count(p, q, d) + 1 # Sum(at[p], p, q, d)
    BY <1>1, <1>2, <2>3 DEF Count
  <2> QED
    BY <2>2, <2>3
<1>9. ASSUME NEW b \in Parties, NEW e \in Directions, b # q \/ e # d
      PROVE  Count(p, b, e)' = Count(p, b, e)
  <2>1. Done(p, b, e)' = Done(p, b, e)
    BY <1>2, <1>3, <1>5, <1>9 DEF Done
  <2> QED
    BY <1>1, <1>7, <1>9, <2>1 DEF Count
<1>10. ASSUME NEW a \in Parties, NEW b \in Parties, NEW e \in Directions, a # p \/ b # q \/ e # d
       PROVE  Steady(a, b, e)
  <2>1. CASE a # p
    BY <1>6, <2>1, StillSteady
  <2>2. CASE a = p
    <3>1. Position(p, b, e)' = Position(p, b, e)
      BY <1>2, <1>5, <1>9, <1>10, <2>2 DEF Position
    <3> QED
      BY <2>2, <3>1, SameIsSteady
  <2> QED
    BY <2>1, <2>2
<1>11. Turn(p)'
  <2>1. Ops' = Ops
    BY <1>5, FixedOps
  <2> QED
    BY <1>1, <1>2, <1>5, <2>1 DEF Proper, Turn
<1>12. WithExchangers(p)'
  BY <1>5 DEF WithExchangers, ExchangerPhases
<1>13. WithThreads(p)'
  <2>1. ByThreads(Op(p))' = ByThreads(Op(p)) /\ Requests(p)' = Requests(p) /\ Waits(p)' = Waits(p)
    BY <1>5, SameOp
  <2>2. /\ Requests(p) = <<>> \/ made[p] < Len(Waits(p))
        /\ \A b \in Parties, e \in Directions : Asked(p, b, e) \/ Ready(p, b, e) \/ Through(p, b, e)
    BY <1>2 DEF Proper, WithThreads
  <2>3. ASSUME NEW b \in Parties, NEW e \in Directions
        PROVE  (Asked(p, b, e) \/ Ready(p, b, e) \/ Through(p, b, e))'
    <3>1. CASE b # q \/ e # d
      <4>1. /\ Moved(p, b, e)' = Moved(p, b, e) /\ requested[p][b][e]' = requested[p][b][e]
            /\ finished[p][b][e]' = finished[p][b][e]
        BY <1>1, <1>3, <3>1
      <4>2. Asked(p, b, e) => Asked(p, b, e)'
        BY <1>7, <4>1 DEF Asked
      <4>3. Ready(p, b, e) => Ready(p, b, e)'
        BY <1>7, <4>1 DEF Ready
      <4>4. Through(p, b, e) => Through(p, b, e)'
        BY <1>7, <4>1 DEF Through, AtRest
      <4> QED
        BY <2>2, <4>2, <4>3, <4>4
    <3>2. CASE b = q /\ e = d
      <4>1. Uses(at[p], p, q, d)' /\ ~Waited(p, q, d)'
        BY <1>2, <1>7 DEF Asked
      <4>2. CASE Count(p, q, d) + 1 = Sum(at[p], p, q, d)
        BY <1>1, <1>3, <1>7, <3>2, <4>1, <4>2 DEF Ready
      <4>3. CASE Count(p, q, d) + 1 # Sum(at[p], p, q, d)
        <5>1. Moved(p, q, d)' \in 1..(Sum(at[p], p, q, d) - 1)
          <6>1. Moved(p, q, d)' = Count(p, q, d) + 1
            BY <1>1, <4>3
          <6>2. PICK n, m : n = Count(p, q, d) /\ m = Sum(at[p], p, q, d)
            OBVIOUS
          <6>3. n \in Nat /\ m \in Nat /\ n + 1 <= m /\ n + 1 # m
            BY <1>2, <4>3, <6>2
          <6>4. n + 1 \in 1..(m - 1)
            BY <6>3
          <6> QED
            BY <6>1, <6>2, <6>4
        <5> QED
          <6>1. /\ requested[p][q][d]' = <<Stream(Op(p), p, q, d)>> /\ finished[p][q][d]' = <<>>
                /\ Stream(Op(p), p, q, d)' = Stream(Op(p), p, q, d)
                /\ Sum(at[p], p, q, d)' = Sum(at[p], p, q, d)
            <7>1. requested[p][q][d]' = <<Stream(Op(p), p, q, d)>> /\ finished[p][q][d]' = <<>>
              BY <1>3, <4>3
            <7>2. Stream(Op(p), p, q, d)' = Stream(Op(p), p, q, d)
              BY <1>7
            <7>3. Sum(at[p], p, q, d)' = Sum(at[p], p, q, d)
              BY <1>7
            <7> QED
              BY <7>1, <7>2, <7>3
          <6>2. Asked(p, q, d)'
            BY <4>1, <5>1, <6>1 DEF Asked
          <6> QED
            BY <3>2, <6>2
      <4> QED
        BY <4>2, <4>3
    <3> QED
      BY <3>1, <3>2
  <2>4. made[p]' = made[p]
    BY <1>1
  <2> QED
    BY <1>2, <2>1, <2>2, <2>3, <2>4 DEF WithThreads
<1> QED
  BY <1>4, <1>5, <1>6, <1>8, <1>9, <1>10, <1>11, <1>12, <1>13 DEF Proper

LEMMA SenderKeeps ==
    ASSUME IInv, NEW p \in Parties, NEW q \in Parties, Sender(p, q)
    PROVE  IInv'
<1>1. "send" \in Directions /\ requested[p][q]["send"] # <<>>
  BY DEF Sender, Directions
<1>2. /\ Types /\ Proper(p) /\ InMemory(p) /\ Flow /\ InOp(p) /\ phase[p] = "wait"
      /\ ByThreads(Op(p)) /\ ~Same(Op(p)) /\ p # q /\ Asked(p, q, "send")
      /\ Count(p, q, "send") = (IF Moved(p, q, "send") = -1 THEN 0 ELSE Moved(p, q, "send"))
      /\ Count(p, q, "send") \in Nat /\ Sum(at[p], p, q, "send") \in Nat
      /\ Count(p, q, "send") + 1 <= Sum(at[p], p, q, "send")
      /\ Moved(p, q, "send") = -1 \/ Moved(p, q, "send") \in Nat \ {0}
  BY <1>1, Working
<1>3. Op(p) = Ops[at[p]] /\ Op(p).size[p] \in Nat /\ Program
  BY <1>2, Counting
<1>4. PICK n, sum, sent, size : /\ n = Count(p, q, "send") /\ sum = Sum(at[p], p, q, "send")
                                /\ sent = tx[p][q] /\ size = Op(p).size[p]
  OBVIOUS
<1>5. /\ size \in Nat /\ n \in Nat /\ sum = size + 1 /\ n <= size
      /\ (sent = -1 /\ n = 0) \/ (sent \in Nat \ {0} /\ n = sent)
  <2>1. sum = size + 1
    BY <1>3, <1>4 DEF Sum
  <2>2. Moved(p, q, "send") = sent
    BY <1>4 DEF Moved
  <2>3. size \in Nat /\ n \in Nat /\ n + 1 <= sum
    BY <1>2, <1>3, <1>4
  <2>4. (sent = -1 /\ n = 0) \/ (sent \in Nat \ {0} /\ n = sent)
    BY <1>2, <1>4, <2>2
  <2> QED
    BY <2>1, <2>3, <2>4
<1>6. PICK stream : stream = mem[p][Source(Op(p), p, q)]
  OBVIOUS
<1>7. Head(requested[p][q]["send"]) = Source(Op(p), p, q) /\ Uses(at[p], p, q, "send")
  <2>1. requested[p][q]["send"] = <<Stream(Op(p), p, q, "send")>> /\ Uses(at[p], p, q, "send")
    BY <1>2 DEF Asked
  <2>2. PICK x : x = Source(Op(p), p, q)
    OBVIOUS
  <2>3. requested[p][q]["send"] = <<x>> /\ Head(<<x>>) = x
    BY <2>1, <2>2 DEF Stream
  <2> QED
    BY <2>1, <2>2, <2>3
<1>8. /\ Len(stream) = size /\ stream \in Seq(Units)
      /\ Datum(<<at[p], 0>>, p, q) = Header(size)
      /\ n \in 1..size => stream[n] = Datum(<<at[p], n>>, p, q)
  <2>1. ToSend(p)
    BY <1>2 DEF InMemory
  <2>2. /\ Source(Op(p), p, q) \in Streams
        /\ Len(stream) = size
        /\ Datum(<<at[p], 0>>, p, q) = Header(size)
        /\ n \in 1..size => stream[n] = Datum(<<at[p], n>>, p, q)
    BY <1>2, <1>4, <1>6, <1>7, <2>1, SourceUnit
  <2>3. stream \in Seq(Units)
    BY <1>2, <1>6, <2>2 DEF Types
  <2> QED
    BY <2>2, <2>3
<1>9. (sent = Len(stream) \/ stream = <<>>) <=> n + 1 = sum
  <2>1. stream = <<>> <=> size = 0
    BY <1>8
  <2> QED
    BY <1>5, <1>8, <2>1
<1>10. PICK c, u, s : /\ c = (IF n + 1 = sum THEN -1 ELSE n + 1)
                      /\ u = Datum(<<at[p], n>>, p, q) /\ s = ThreadSocket(p, q)
  OBVIOUS
<1>11. (IF sent = -1 THEN Header(Len(stream)) ELSE stream[sent]) = u
  BY <1>5, <1>8, <1>10
<1>12. c = IF sent = Len(stream) \/ stream = <<>> THEN -1 ELSE Next1(sent)
  BY <1>5, <1>9, <1>10 DEF Next1
<1>13. /\ Send(s, p, q, u, c)
       /\ IF n + 1 = sum THEN Push(p, q, "send") ELSE UNCHANGED threads
       /\ UNCHANGED <<kind, program, at, phase, stage, made, mem, rx, len, result>>
  BY <1>4, <1>6, <1>7, <1>9, <1>10, <1>11, <1>12 DEF Sender
<1>14. tx' = Upd(tx, p, q, c) /\ wire' = Upd3(wire, s, p, q, Append(wire[s][p][q], u)) /\ c \in Int
  BY <1>5, <1>10, <1>13 DEF Send, Upd, Upd3
<1>15. /\ tx' \in [Parties -> [Parties -> Int]] /\ tx'[p][q] = c
       /\ \A b \in Parties : b # q => tx'[p][b] = tx[p][b]
       /\ \A a \in Parties : a # p => tx'[a] = tx[a]
  BY <1>2, <1>14, TxAt
<1>16. s \in Sockets /\ s = SocketOf(at[p], p, q)
  BY <1>2, <1>3, <1>10 DEF SocketOf, ThreadSocket, Sockets
<1>17. Position(p, q, "send") = <<at[p], n>>
  BY <1>2, <1>4 DEF Position
<1>18. wire' \in [Sockets -> [Parties -> [Parties -> Seq(Units)]]]
  <2>1. u \in Units
    <3>1. Position(p, q, "send") \in Slots(SocketOf(at[p], p, q), p, q)
      BY <1>2, <1>4, <1>5, <1>7, NextUnit
    <3> QED
      BY <1>3, <1>10, <1>17, <3>1, TrafficIn
  <2>2. PICK v : v = Append(wire[s][p][q], u)
    OBVIOUS
  <2>3. v \in Seq(Units)
    <3>1. wire[s][p][q] \in Seq(Units)
      BY <1>2, <1>16 DEF Types
    <3> QED
      BY <2>1, <2>2, <3>1
  <2>4. WireSet(s, p, q, v)
    BY <1>14, <2>2 DEF WireSet
  <2> QED
    BY <1>2, <1>16, <2>3, <2>4, WireAt
<1>19. /\ Moved(p, q, "send")' = (IF Count(p, q, "send") + 1 = Sum(at[p], p, q, "send")
                                  THEN -1 ELSE Count(p, q, "send") + 1)
       /\ \A b \in Parties, e \in Directions : b # q \/ e # "send" => Moved(p, b, e)' = Moved(p, b, e)
  <2>1. Moved(p, q, "send")' = c
    BY <1>15 DEF Moved
  <2>2. ASSUME NEW b \in Parties, NEW e \in Directions, b # q \/ e # "send"
        PROVE  Moved(p, b, e)' = Moved(p, b, e)
    BY <1>13, <1>15, <2>2 DEF Moved
  <2> QED
    BY <1>4, <1>10, <2>1, <2>2
<1>20. /\ IF Count(p, q, "send") + 1 = Sum(at[p], p, q, "send") THEN Push(p, q, "send") ELSE UNCHANGED threads
       /\ mem' \in [Parties -> [Streams -> Seq(Units)]] /\ rx' \in [Parties -> [Parties -> Int]]
       /\ len' \in [Parties -> [Parties -> Nat]]
       /\ \A a \in Parties : a # p => mem'[a] = mem[a] /\ tx'[a] = tx[a] /\ rx'[a] = rx[a] /\ len'[a] = len[a]
       /\ UNCHANGED <<kind, program, at, phase, stage, made, result>>
  BY <1>2, <1>4, <1>13, <1>15 DEF Types
<1>21. MovesUnit(p, q, "send")
  BY <1>15, <1>18, <1>19, <1>20 DEF MovesUnit
<1>22. /\ Types' /\ Proper(p)' /\ Fixed /\ at'[p] = at[p] /\ at[p]' = at[p] /\ InOp(p)'
       /\ Count(p, q, "send")' = Count(p, q, "send") + 1
       /\ \A b \in Parties, e \in Directions : b # q \/ e # "send" => Count(p, b, e)' = Count(p, b, e)
       /\ \A a \in Parties : a # p => Still(a)
       /\ \A a, b \in Parties, e \in Directions : (a # p \/ b # q \/ e # "send") => Steady(a, b, e)
  BY <1>1, <1>21, ThreadKeeps
<1>23. Flow'
  <2>1. /\ WireSet(s, p, q, Append(wire[s][p][q], u))
        /\ u \in May(Position(p, q, "send"), p, q)
    BY <1>10, <1>14, <1>17 DEF WireSet, May
  <2>2. Count(p, q, "send") <= Op(p).size[p] /\ Proper(q)
    BY <1>4, <1>5 DEF IInv
  <2> QED
    BY <1>2, <1>7, <1>16, <1>22, <2>1, <2>2, SendFlow
<1>24. ToSend(p)'
  <2>1. ASSUME NEW b \in Parties
        PROVE  Count(p, b, "send")' \in Nat /\ Count(p, b, "send")' >= Count(p, b, "send")
    <3>1. Sum(at[p], p, b, "send") \in Nat /\ Count(p, b, "send") \in 0..Sum(at[p], p, b, "send")
      BY <1>1, <1>2, Counting
    <3>2. CASE b = q
      <4>1. Count(p, b, "send")' = Count(p, b, "send") + 1
        BY <1>22, <3>2
      <4> QED
        BY <3>1, <4>1
    <3>3. CASE b # q
      <4>1. Count(p, b, "send")' = Count(p, b, "send")
        BY <1>1, <1>22, <3>3
      <4> QED
        BY <3>1, <4>1
    <3> QED
      BY <3>2, <3>3
  <2>2. mem'[p] = mem[p] /\ ToSend(p)
    BY <1>2, <1>13 DEF InMemory
  <2> QED
    BY <1>2, <1>22, <2>1, <2>2, SentMemory
<1>25. ASSUME NEW b \in Parties, Uses(at[p], p, b, "receive")' PROVE Got(p, b)'
  <2>1. Uses(at[p], p, b, "receive")
    BY <1>22, <1>25, SameOp
  <2>2. Got(p, b) /\ len'[p][b] = len[p][b]
        /\ mem'[p][Target(Op(p), p, b)] = mem[p][Target(Op(p), p, b)]
    BY <1>2, <1>13, <2>1 DEF InMemory, HasReceived
  <2>3. Count(p, b, "receive")' = Count(p, b, "receive")
    BY <1>22 DEF Directions
  <2> QED
    BY <1>22, <2>2, <2>3, GotMemory
<1> QED
  BY <1>22, <1>23, <1>24, <1>25, StepKeeps DEF InMemory, HasReceived

LEMMA ReceiverKeeps ==
    ASSUME IInv, NEW p \in Parties, NEW q \in Parties, Receiver(p, q)
    PROVE  IInv'
<1>1. "receive" \in Directions /\ requested[p][q]["receive"] # <<>>
  BY DEF Receiver, Directions
<1>2. /\ Types /\ Proper(p) /\ InMemory(p) /\ Flow /\ InOp(p) /\ phase[p] = "wait"
      /\ ByThreads(Op(p)) /\ ~Same(Op(p)) /\ p # q /\ Asked(p, q, "receive")
      /\ Count(p, q, "receive") = (IF Moved(p, q, "receive") = -1 THEN 0 ELSE Moved(p, q, "receive"))
      /\ Count(p, q, "receive") \in Nat /\ Sum(at[p], p, q, "receive") \in Nat
      /\ Count(p, q, "receive") + 1 <= Sum(at[p], p, q, "receive")
      /\ Moved(p, q, "receive") = -1 \/ Moved(p, q, "receive") \in Nat \ {0}
  BY <1>1, Working
<1>3. Op(p) = Ops[at[p]] /\ Op(p).size[q] \in Nat /\ Program /\ at[p] \in 1..Len(Ops)
  BY <1>2, Counting
<1>4. PICK n, sum, received, size : /\ n = Count(p, q, "receive") /\ sum = Sum(at[p], p, q, "receive")
                                    /\ received = rx[p][q] /\ size = Op(p).size[q]
  OBVIOUS
<1>5. /\ size \in Nat /\ n \in Nat /\ sum = size + 1 /\ n <= size
      /\ (received = -1 /\ n = 0) \/ (received \in Nat \ {0} /\ n = received)
  <2>1. sum = size + 1
    BY <1>3, <1>4 DEF Sum
  <2>2. Moved(p, q, "receive") = received
    BY <1>4 DEF Moved
  <2>3. size \in Nat /\ n \in Nat /\ n + 1 <= sum
    BY <1>2, <1>3, <1>4
  <2>4. (received = -1 /\ n = 0) \/ (received \in Nat \ {0} /\ n = received)
    BY <1>2, <1>4, <2>2
  <2> QED
    BY <2>1, <2>3, <2>4
<1>6. PICK s, u : s = ThreadSocket(q, p) /\ u = Head(wire[s][q][p])
  OBVIOUS
<1>7. s \in Sockets /\ s = SocketOf(at[p], q, p) /\ wire[s][q][p] # <<>>
  BY <1>2, <1>3, <1>6 DEF SocketOf, ThreadSocket, Sockets, Receiver
<1>8. Uses(at[p], p, q, "receive") /\ Proper(q) /\ Got(p, q)
  BY <1>2 DEF Asked, IInv, InMemory, HasReceived
<1>9. /\ n = 0 => Decode(u) = size
      /\ u \in May(<<at[p], n>>, q, p) /\ u \in Units
  BY <1>2, <1>4, <1>5, <1>6, <1>7, <1>8, Found
<1>10. PICK y : y = Target(Op(p), p, q)
  OBVIOUS
<1>11. Head(requested[p][q]["receive"]) = y /\ y \in Streams
  <2>1. requested[p][q]["receive"] = <<Stream(Op(p), p, q, "receive")>>
    BY <1>2 DEF Asked
  <2>2. requested[p][q]["receive"] = <<y>> /\ Head(<<y>>) = y
    BY <1>10, <2>1 DEF Stream
  <2>3. y \in Streams
    BY <1>10 DEF Target, Streams
  <2> QED
    BY <2>2, <2>3
<1>12. n # 0 => len[p][q] = size /\ n - 1 <= Len(mem[p][y])
  BY <1>4, <1>5, <1>8, <1>10 DEF Got
<1>13. (IF received = -1 THEN Decode(u) = 0 ELSE received = len[p][q]) <=> n + 1 = sum
  BY <1>5, <1>9, <1>12
<1>14. PICK c : c = IF n + 1 = sum THEN -1 ELSE n + 1
  OBVIOUS
<1>15. /\ received = -1 \/ n # 0
       /\ IF n = 0 THEN ReceiveLength(s, p, q, c) ELSE ReceiveUnit(s, p, q, y, c)
       /\ IF n + 1 = sum THEN Push(p, q, "receive") ELSE UNCHANGED threads
       /\ UNCHANGED <<kind, program, at, phase, stage, made, tx, result>>
  <2>1. c = IF n + 1 = sum THEN -1 ELSE Next1(received)
    BY <1>5, <1>14 DEF Next1
  <2>2. received = -1 <=> n = 0
    BY <1>5
  <2> QED
    BY <1>4, <1>6, <1>11, <1>13, <2>1, <2>2 DEF Receiver
<1>16. PICK v : v = Tail(wire[s][q][p])
  OBVIOUS
<1>17. rx' = Upd(rx, p, q, c) /\ wire' = Upd3(wire, s, q, p, v) /\ c \in Int
  BY <1>5, <1>14, <1>15, <1>16 DEF ReceiveLength, ReceiveUnit, Receive, Upd, Upd3
<1>18. /\ rx' \in [Parties -> [Parties -> Int]] /\ rx'[p][q] = c
       /\ \A b \in Parties : b # q => rx'[p][b] = rx[p][b]
       /\ \A a \in Parties : a # p => rx'[a] = rx[a]
  BY <1>2, <1>17, RxAt
<1>19. wire' \in [Sockets -> [Parties -> [Parties -> Seq(Units)]]]
  <2>1. v \in Seq(Units)
    <3>1. wire[s][q][p] \in Seq(Units)
      BY <1>2, <1>7 DEF Types
    <3> QED
      BY <1>7, <1>16, <3>1
  <2>2. WireSet(s, q, p, v)
    BY <1>17 DEF WireSet
  <2> QED
    BY <1>2, <1>7, <2>1, <2>2, WireAt
<1>20. ASSUME n = 0
       PROVE  /\ len' \in [Parties -> [Parties -> Nat]] /\ len'[p][q] = size /\ mem' = mem
              /\ \A b \in Parties : b # q => len'[p][b] = len[p][b]
              /\ \A a \in Parties : a # p => len'[a] = len[a]
  <2>1. len' = Upd(len, p, q, size) /\ mem' = mem
    BY <1>6, <1>9, <1>15, <1>20 DEF ReceiveLength, Upd
  <2> QED
    BY <1>2, <1>5, <2>1, LenAt
<1>21. ASSUME n # 0
       PROVE  /\ len' = len /\ mem' \in [Parties -> [Streams -> Seq(Units)]]
              /\ mem'[p][y] = Overwrite(mem[p][y], n, u)
              /\ \A x \in Streams : x # y => mem'[p][x] = mem[p][x]
              /\ \A a \in Parties : a # p => mem'[a] = mem[a]
  <2>1. PICK o : o = Overwrite(mem[p][y], n, u)
    OBVIOUS
  <2>2. received = n
    BY <1>5, <1>21
  <2>3. mem' = Upd(mem, p, y, o) /\ len' = len
    BY <1>4, <1>6, <1>15, <1>21, <2>1, <2>2 DEF ReceiveUnit, Upd
  <2>4. o \in Seq(Units)
    <3>1. mem[p][y] \in Seq(Units) /\ u \in Units /\ n \in Nat \ {0}
      <4>1. mem[p][y] \in Seq(Units)
        BY <1>2, <1>11 DEF Types
      <4>2. u \in Units /\ n \in Nat \ {0}
        BY <1>5, <1>9, <1>21
      <4> QED
        BY <4>1, <4>2
    <3> QED
      BY <1>12, <1>21, <2>1, <3>1, Overwritten
  <2>5. /\ mem' \in [Parties -> [Streams -> Seq(Units)]] /\ mem'[p][y] = o
        /\ \A x \in Streams : x # y => mem'[p][x] = mem[p][x]
        /\ \A a \in Parties : a # p => mem'[a] = mem[a]
    BY <1>2, <1>11, <2>3, <2>4, MemAt
  <2> QED
    BY <1>9, <1>21, <2>1, <2>3, <2>5
<1>22. /\ mem' \in [Parties -> [Streams -> Seq(Units)]] /\ len' \in [Parties -> [Parties -> Nat]]
       /\ \A x \in Streams : x # y => mem'[p][x] = mem[p][x]
       /\ \A b \in Parties : b # q => len'[p][b] = len[p][b]
       /\ \A a \in Parties : a # p => mem'[a] = mem[a] /\ len'[a] = len[a]
  BY <1>2, <1>20, <1>21 DEF Types
<1>23. /\ Moved(p, q, "receive")' = (IF Count(p, q, "receive") + 1 = Sum(at[p], p, q, "receive")
                                     THEN -1 ELSE Count(p, q, "receive") + 1)
       /\ \A b \in Parties, e \in Directions : b # q \/ e # "receive" => Moved(p, b, e)' = Moved(p, b, e)
  <2>1. Moved(p, q, "receive")' = c
    BY <1>18 DEF Moved
  <2>2. ASSUME NEW b \in Parties, NEW e \in Directions, b # q \/ e # "receive"
        PROVE  Moved(p, b, e)' = Moved(p, b, e)
    BY <1>15, <1>18, <2>2 DEF Moved, Directions
  <2> QED
    BY <1>4, <1>14, <2>1, <2>2
<1>24. MovesUnit(p, q, "receive")
  <2>1. /\ IF Count(p, q, "receive") + 1 = Sum(at[p], p, q, "receive")
           THEN Push(p, q, "receive") ELSE UNCHANGED threads
        /\ UNCHANGED <<kind, program, at, phase, stage, made, result>>
        /\ tx' = tx /\ tx' \in [Parties -> [Parties -> Int]]
    BY <1>2, <1>4, <1>15 DEF Types
  <2> QED
    BY <1>18, <1>19, <1>22, <1>23, <2>1 DEF MovesUnit
<1>25. /\ Types' /\ Proper(p)' /\ Fixed /\ at'[p] = at[p] /\ at[p]' = at[p] /\ InOp(p)'
       /\ Count(p, q, "receive")' = Count(p, q, "receive") + 1
       /\ \A b \in Parties, e \in Directions : b # q \/ e # "receive" => Count(p, b, e)' = Count(p, b, e)
       /\ \A a \in Parties : a # p => Still(a)
       /\ \A a, b \in Parties, e \in Directions : (a # p \/ b # q \/ e # "receive") => Steady(a, b, e)
  BY <1>1, <1>24, ThreadKeeps
<1>26. Flow'
  <2>1. WireSet(s, q, p, Tail(wire[s][q][p]))
    BY <1>16, <1>17 DEF WireSet
  <2>2. Count(p, q, "receive") <= Op(p).size[q]
    BY <1>4, <1>5
  <2> QED
    BY <1>2, <1>7, <1>8, <1>25, <2>1, <2>2, ReceiveFlow
<1>27. ToSend(p)'
  <2>1. \A b \in Parties : mem[p][<<"s", b>>] = Content(at[p], p, b)
    BY <1>2 DEF InMemory, ToSend
  <2>2. \A b \in Parties : mem'[p][<<"s", b>>] = mem[p][<<"s", b>>]
    <3>1. \A b \in Parties : <<"s", b>> \in Streams /\ <<"s", b>> # y
      BY <1>2, <1>10, TargetApart DEF Streams
    <3> QED
      BY <1>22, <3>1
  <2>3. \A b : Content(at[p], p, b)' = Content(at[p], p, b)
    BY <1>25, SameOp
  <2>4. Same(Op(p))' = Same(Op(p)) /\ ~Same(Op(p))
    BY <1>2, <1>25, SameOp
  <2> QED
    BY <2>1, <2>2, <2>3, <2>4 DEF ToSend
<1>28. ASSUME NEW b \in Parties, Uses(at[p], p, b, "receive")' PROVE Got(p, b)'
  <2>1. Uses(at[p], p, b, "receive")
    BY <1>25, <1>28, SameOp
  <2>2. CASE b = q
    <3>1. CASE n = 0
      <4>1. Count(p, q, "receive")' = 1 /\ len'[p][q] = Op(p).size[q]
        BY <1>4, <1>20, <1>25, <3>1
      <4> QED
        BY <1>25, <2>2, <4>1, LengthGot
    <3>2. CASE n # 0
      <4>1. /\ n \in Nat \ {0} /\ Count(p, q, "receive") = n /\ Count(p, q, "receive")' = n + 1
            /\ len'[p][q] = len[p][q] /\ u \in Units /\ u \in May(<<at[p], n>>, q, p)
            /\ mem'[p][Target(Op(p), p, q)] = Overwrite(mem[p][Target(Op(p), p, q)], n, u)
        BY <1>4, <1>5, <1>9, <1>10, <1>21, <1>25, <3>2
      <4> QED
        BY <1>2, <1>8, <1>25, <2>2, <4>1, UnitGot
    <3> QED
      BY <3>1, <3>2
  <2>3. CASE b # q
    <3>1. Got(p, b) /\ len'[p][b] = len[p][b]
      BY <1>2, <1>22, <2>1, <2>3 DEF InMemory, HasReceived
    <3>2. mem'[p][Target(Op(p), p, b)] = mem[p][Target(Op(p), p, b)]
      BY <1>2, <1>10, <1>22, <2>3, TargetApart
    <3>3. Count(p, b, "receive")' = Count(p, b, "receive")
      BY <1>1, <1>25, <2>3
    <3> QED
      BY <1>25, <3>1, <3>2, <3>3, GotMemory
  <2> QED
    BY <2>2, <2>3
<1> QED
  BY <1>25, <1>26, <1>27, <1>28, StepKeeps DEF InMemory, HasReceived
-----------------------------------------------------------------------------
(* All steps.                                                              *)

LEMMA CloseKeeps ==
    ASSUME IInv, NEW p \in Parties, Close(p)
    PROVE  IInv'
<1>1. Types /\ Proper(p) /\ Flow /\ ~InOp(p) /\ at[p] = Len(Ops)
  BY DEF IInv, Close, InOp
<1>2. /\ UNCHANGED <<kind, program, at, stage, made, mem, tx, rx, len, wire, requested, finished, result>>
      /\ Goto(p, "closed") /\ "closed" \in Phases
  BY DEF Close, threads, Phases
<1>3. /\ phase' \in [Parties -> Phases] /\ phase'[p] = "closed"
      /\ \A a \in Parties : a # p => phase'[a] = phase[a]
  BY <1>1, <1>2, PhaseAt
<1>4. Types'
  BY <1>1, <1>2, <1>3 DEF Types, Phases
<1>5. ASSUME NEW a \in Parties, a # p PROVE Still(a)
  BY <1>2, <1>3, <1>5 DEF Still, Fixed
<1>6. ~InOp(p)' /\ Fixed
  BY <1>2, <1>3 DEF InOp, Fixed
<1>7. Flow'
  <2>1. ASSUME NEW q \in Parties, NEW d \in Directions PROVE Position(p, q, d)' = Position(p, q, d)
    BY <1>1, <1>2, <1>6 DEF Position
  <2>2. ASSUME NEW a \in Parties, NEW q \in Parties, NEW d \in Directions PROVE Steady(a, q, d)
    BY <1>5, <2>1, StillSteady, SameIsSteady
  <2> QED
    BY <1>1, <1>2, <1>6, <2>2, QuietFlow
<1>8. Proper(p)'
  <2>1. Ops' = Ops
    BY <1>6, FixedOps
  <2>2. \A q \in Parties, d \in Directions : AtRest(p, q, d)'
    <3>1. \A q \in Parties, d \in Directions : AtRest(p, q, d)
      BY <1>1 DEF Proper, Turn
    <3> QED
      BY <1>2, <3>1 DEF AtRest, Moved
  <2>3. Turn(p)'
    BY <1>1, <1>2, <1>6, <2>1, <2>2 DEF Proper, Turn
  <2> QED
    BY <1>3, <2>3 DEF Proper, WithExchangers, WithThreads, ExchangerPhases
<1>9. InMemory(p)'
  BY <1>6 DEF InMemory
<1> QED
  BY <1>4, <1>5, <1>7, <1>8, <1>9, StepKeeps

LEMMA StutterKeeps ==
    ASSUME IInv, UNCHANGED vars
    PROVE  IInv'
<1>1. Types /\ Flow
  BY DEF IInv
<1>2. UNCHANGED <<kind, program, at, phase, stage, made, mem, tx, rx, len, wire, requested, finished, result>>
  BY DEF vars, threads
<1>3. Types'
  BY <1>1, <1>2 DEF Types
<1>4. Fixed /\ \A a \in Parties : Still(a)
  BY <1>2 DEF Still, Fixed
<1>5. Flow'
  BY <1>1, <1>2, <1>4, StillSteady, QuietFlow
<1>6. \A a \in Parties : Proper(a)' /\ InMemory(a)'
  BY <1>4, StillProper DEF IInv
<1> QED
  BY <1>3, <1>5, <1>6 DEF IInv

LEMMA NextKeeps ==
    ASSUME IInv, [Next]_vars
    PROVE  IInv'
<1>1. ASSUME NEW p \in Parties, Call(p) PROVE IInv'
  <2>1. CASE Begin(p)
    BY <2>1, BeginKeeps
  <2>2. CASE ReturnAtOnce(p)
    BY <2>2, ReturnAtOnceKeeps
  <2>3. CASE Construct(p)
    BY <2>3, ConstructKeeps
  <2>4. CASE RoundSends(p)
    BY <2>4, RoundSendsKeeps
  <2>5. CASE RoundReceives(p)
    BY <2>5, RoundReceivesKeeps
  <2>6. CASE RoundWrites(p)
    BY <2>6, RoundWritesKeeps
  <2>7. CASE RoundReads(p)
    BY <2>7, RoundReadsKeeps
  <2>8. CASE Finish(p)
    BY <2>8, FinishReturns, FinishGoesOn
  <2>9. CASE Wait(p)
    BY <2>9, WaitReturns, WaitGoesOn
  <2>10. CASE Close(p)
    BY <2>10, CloseKeeps
  <2> QED
    BY <1>1, <2>1, <2>2, <2>3, <2>4, <2>5, <2>6, <2>7, <2>8, <2>9, <2>10 DEF Call
<1>2. ASSUME NEW p \in Parties, NEW q \in Parties, Sender(p, q) \/ Receiver(p, q) PROVE IInv'
  BY <1>2, SenderKeeps, ReceiverKeeps
<1>3. CASE UNCHANGED vars
  BY <1>3, StutterKeeps
<1> QED
  BY <1>1, <1>2, <1>3 DEF Next

LEMMA InitHolds == Init => IInv
<1> SUFFICES ASSUME Init PROVE IInv
  OBVIOUS
<1>1. Types
  <2>1. /\ kind \in {"plain", "crypto"} /\ program \in DOMAIN Programs
    BY TransportAssumption DEF Init
  <2>2. /\ at \in [Parties -> Nat]
        /\ phase \in [Parties -> {"idle", "construct", "exchange", "write", "read", "wait", "closed"}]
        /\ stage \in [Parties -> Nat] /\ made \in [Parties -> Nat]
        /\ tx \in [Parties -> [Parties -> Int]] /\ rx \in [Parties -> [Parties -> Int]]
        /\ len \in [Parties -> [Parties -> Nat]]
    BY DEF Init, All
  <2>3. /\ mem \in [Parties -> [Streams -> Seq(Units)]]
        /\ wire \in [Sockets -> [Parties -> [Parties -> Seq(Units)]]]
        /\ result \in [Parties -> Seq([Parties -> Outcomes])]
    BY DEF Init, All
  <2>4. /\ requested \in [Parties -> [Parties -> [Directions -> Seq(Streams)]]]
        /\ finished \in [Parties -> [Parties -> [Directions -> Seq(Streams)]]]
    BY DEF Init, All, Nothing
  <2> QED
    BY <2>1, <2>2, <2>3, <2>4 DEF Types
<1>2. ASSUME NEW p \in Parties
      PROVE  /\ ~InOp(p) /\ at[p] = 0 /\ phase[p] = "idle" /\ result[p] = <<>>
             /\ \A q \in Parties, d \in Directions : AtRest(p, q, d)
             /\ \A q, d : Position(p, q, d) = <<1, 0>>
  <2>1. phase[p] = "idle" /\ at[p] = 0 /\ result[p] = <<>>
    BY DEF Init, All
  <2>2. \A q \in Parties, d \in Directions : AtRest(p, q, d)
    BY DEF Init, All, Nothing, AtRest, Moved
  <2>3. ~InOp(p) /\ 0 + 1 = 1
    BY <2>1 DEF InOp
  <2> QED
    BY <2>1, <2>2, <2>3 DEF Position
<1>3. ASSUME NEW p \in Parties PROVE Proper(p) /\ InMemory(p)
  <2>1. Len(Ops) \in Nat
    <3>1. Program
      BY <1>1 DEF Types, Program
    <3> QED
      BY <3>1, TheOps
  <2>2. Turn(p)
    <3>1. Len(<<>>) = 0 /\ 0 <= Len(Ops)
      BY <2>1
    <3> QED
      BY <1>2, <3>1 DEF Turn
  <2> QED
    BY <1>2, <2>2 DEF Proper, WithExchangers, WithThreads, ExchangerPhases, InMemory
<1>4. Flow
  <2>1. ASSUME NEW s \in Sockets, NEW p \in Parties, NEW q \in Parties
        PROVE  Carries(wire[s][p][q], Traffic(s, p, q), Position(q, p, "receive"), Position(p, q, "send"))
    <3>1. wire[s][p][q] = <<>>
      BY DEF Init, All
    <3>2. Position(q, p, "receive") = <<1, 0>> /\ Position(p, q, "send") = <<1, 0>>
      BY <1>2
    <3>3. Alike(Traffic(s, p, q), <<1, 0>>, <<1, 0>>)
      BY DEF Alike
    <3>4. Carries(<<>>, Traffic(s, p, q), <<1, 0>>, <<1, 0>>)
      BY <3>3, NothingSent
    <3> QED
      BY <3>1, <3>2, <3>4
  <2> QED
    BY <2>1 DEF Flow
<1> QED
  BY <1>1, <1>3, <1>4 DEF IInv

\* What Invariance says of the code: units arrive in the order of the program, whichever
\* thread or Exchanger has sent them, between parties at different operations; a stream
\* that is sent and received into is overwritten only where it has been sent.
THEOREM Invariance == Spec => []IInv
<1>1. Init => IInv
  BY InitHolds
<1>2. IInv /\ [Next]_vars => IInv'
  BY NextKeeps
<1> QED
  BY <1>1, <1>2, PTL DEF Spec

\* ~MultiPlayer and ~CryptoPlayer: for any operations that match, whoever closes its
\* connections has received everything that is ever sent to it, and has no thread at work.
THEOREM AlwaysCleanClose == Spec => []CleanClose
<1>1. ASSUME IInv PROVE CleanClose
  <2>1. ASSUME NEW p \in Parties, phase[p] = "closed"
        PROVE  /\ \A q \in Parties, s \in Sockets : wire[s][q][p] = <<>>
               /\ \A q \in Parties : tx[p][q] = -1 /\ rx[p][q] = -1 /\ requested[p][q] = Nothing
    <3>1. Types /\ Proper(p) /\ Flow /\ ~InOp(p) /\ at[p] = Len(Ops) /\ Len(Ops) \in Nat
      <4>1. Types /\ Proper(p) /\ Flow /\ ~InOp(p)
        BY <1>1, <2>1 DEF IInv, InOp
      <4>2. at[p] = Len(Ops) /\ at[p] \in Nat
        BY <2>1, <4>1 DEF Proper, Turn, Types
      <4> QED
        BY <4>1, <4>2
    <3>2. \A q \in Parties, d \in Directions : AtRest(p, q, d)
      BY <3>1 DEF Proper, Turn
    <3>3. ASSUME NEW q \in Parties PROVE tx[p][q] = -1 /\ rx[p][q] = -1 /\ requested[p][q] = Nothing
      <4>1. tx[p][q] = -1 /\ rx[p][q] = -1 /\ \A d \in Directions : requested[p][q][d] = <<>>
        BY <3>2 DEF AtRest, Moved, Directions
      <4>2. requested[p][q] \in [Directions -> Seq(Streams)]
        BY <3>1 DEF Types
      <4> QED
        BY <4>1, <4>2 DEF Nothing
    <3>4. ASSUME NEW q \in Parties, NEW s \in Sockets PROVE wire[s][q][p] = <<>>
      <4>1. PICK D, w, lo, hi : /\ D = Traffic(s, q, p) /\ w = wire[s][q][p]
                                /\ lo = Position(p, q, "receive") /\ hi = Position(q, p, "send")
        OBVIOUS
      <4>2. Carries(w, D, lo, hi) /\ w \in Seq(Units)
        BY <3>1, <4>1 DEF Flow, Types
      <4>3. lo = <<Len(Ops) + 1, 0>>
        BY <3>1, <4>1 DEF Position
      <4>4. \A x \in DOMAIN D : Before(x, lo)
        <5>1. ASSUME NEW x \in DOMAIN D PROVE x[1] \in 1..Len(Ops)
          BY <4>1, <5>1 DEF Traffic, Slots
        <5> QED
          BY <3>1, <4>3, <5>1 DEF Before
      <4> QED
        BY <4>1, <4>2, <4>4, AllReceived
    <3> QED
      BY <3>3, <3>4
  <2> QED
    BY <2>1 DEF CleanClose
<1> QED
  BY <1>1, Invariance, PTL
-----------------------------------------------------------------------------
(* The players keep the promise of Rounds.                                 *)

\* Partial broadcasts are such that both classes send from the senders to the receivers.
Agreed == MutualBroadcasts \/ "plain" \notin Kinds

LEMMA UsesChannels ==
    ASSUME Agreed, kind \in Kinds, Program, NEW k \in 1..Len(Ops), NEW p \in Parties, NEW q \in Parties
    PROVE  <<q, p>> \in Channels[k] <=> Uses(k, p, q, "receive")
<1> DEFINE op == Ops[k]
<1>1. op \in Operations /\ (Uses(k, p, q, "receive") => p # q)
  BY TheOps, Expected DEF Directions
<1>2. Uses(k, p, q, "receive") <=> From(op, p, q, ByThreads(op))
  BY UsesToFrom
<1>3. <<q, p>> \in Channels[k] <=> q # p /\ Has(op, p, q)
  BY DEF Channels
<1>4. q # p => (Has(op, p, q) <=> From(op, p, q, ByThreads(op)))
  <2>1. CASE op.kind = "exchange"
    BY <2>1 DEF Has, From
  <2>2. CASE op.kind = "pass_around"
    BY <2>2 DEF Has, From
  <2>3. CASE op.kind = "send_receive_all"
    BY <2>3 DEF Has, From
  <2>4. CASE op.kind = "partial_broadcast"
    <3>1. kind = "crypto" => ByThreads(op)
      BY <2>4 DEF ByThreads, Same
    <3>2. kind # "crypto" => op.senders[p] \ {p} = op.receivers[p] \ {p}
      <4>1. ASSUME kind # "crypto" PROVE op.senders[p] \ {p} = op.receivers[p] \ {p}
        <5>1. MutualBroadcasts
          BY <4>1, TransportAssumption DEF Agreed
        <5>2. program \in DOMAIN Programs /\ k \in DOMAIN Programs[program] /\ Programs[program][k] = op
          BY TheOps DEF Program, Ops
        <5>3. Mutual(op)
          BY <5>1, <5>2 DEF MutualBroadcasts
        <5> QED
          BY <2>4, <5>3 DEF Mutual
      <4> QED
        BY <4>1
    <3>3. Has(op, p, q) <=> q \in op.senders[p]
      BY <2>4 DEF Has
    <3>4. From(op, p, q, ByThreads(op)) <=>
              q # p /\ q \in IF ByThreads(op) THEN op.senders[p] ELSE op.receivers[p]
      BY <2>4 DEF From
    <3> QED
      BY <3>1, <3>2, <3>3, <3>4
  <2> QED
    BY <1>1, <2>1, <2>2, <2>3, <2>4, Kind
<1> QED
  BY <1>1, <1>2, <1>3, <1>4

\* An operation has not ended anywhere before those it receives from have begun it.
LEMMA OthersBegun ==
    ASSUME IInv, NEW p \in Parties, InOp(p), AllMoved(p), NEW q \in Parties,
           Uses(at[p], p, q, "receive")
    PROVE  at[q] >= at[p]
<1>1. Types /\ Proper(p) /\ Proper(q) /\ Flow
  BY DEF IInv
<1>2. /\ Program /\ at[p] \in 1..Len(Ops) /\ Len(Ops) \in Nat /\ Op(p) = Ops[at[p]]
      /\ Op(p).size[q] \in Nat
  <2>1. Program /\ at[p] \in 1..Len(Ops) /\ Op(p) = Ops[at[p]] /\ Op(p).size[q] \in Nat
    BY <1>1, Counting
  <2> QED
    BY <2>1, TheOps
<1>3. PICK k, s, x : k = at[p] /\ s = SocketOf(k, q, p) /\ x = <<k, 0>>
  OBVIOUS
<1>4. s \in Sockets /\ x \in Slots(s, q, p)
  <2>1. s \in Sockets
    BY <1>3 DEF SocketOf, ThreadSocket, Sockets
  <2>2. Uses(k, q, p, "send")
    BY <1>2, <1>3, Expected
  <2>3. k \in Nat /\ 0 <= Ops[k].size[q] /\ x[1] = k /\ x[2] = 0 /\ x \in Nat \X Nat
    BY <1>2, <1>3
  <2> QED
    BY <1>2, <1>3, <2>1, <2>2, <2>3 DEF Slots
<1>5. Before(x, Position(p, q, "receive"))
  <2>1. Position(p, q, "receive") = <<k, Sum(k, p, q, "receive")>>
    BY <1>3 DEF Position, AllMoved, Directions
  <2>2. Sum(k, p, q, "receive") = Op(p).size[q] + 1
    BY <1>2, <1>3 DEF Sum
  <2>3. 0 < Op(p).size[q] + 1
    BY <1>2
  <2> QED
    BY <1>3, <2>1, <2>2, <2>3 DEF Before
<1>6. Before(x, Position(q, p, "send"))
  <2>1. Carries(wire[s][q][p], Traffic(s, q, p), Position(p, q, "receive"), Position(q, p, "send"))
    BY <1>1, <1>4 DEF Flow
  <2>2. x \in DOMAIN Traffic(s, q, p)
    BY <1>4 DEF Traffic
  <2> QED
    BY <1>5, <2>1, <2>2 DEF Carries
<1>7. k \in Nat /\ at[q] \in Nat
  BY <1>1, <1>2, <1>3 DEF Types
<1>8. CASE InOp(q)
  BY <1>3, <1>6, <1>7, <1>8 DEF Position, Before
<1>9. CASE ~InOp(q)
  <2>1. Position(q, p, "send") = <<at[q] + 1, 0>>
    BY <1>9 DEF Position
  <2> QED
    BY <1>3, <1>6, <1>7, <2>1 DEF Before
<1> QED
  BY <1>8, <1>9

LEMMA SameChannels == ASSUME Fixed PROVE Channels' = Channels
  BY FixedOps DEF Channels

LEMMA BeginImplements ==
    ASSUME IInv, NEW p \in Parties, Begin(p)
    PROVE  Promise!Begin(p)
<1>1. Types /\ Proper(p) /\ ~InOp(p)
  BY DEF IInv, Begin, InOp
<1>2. at[p] = Len(result[p])
  BY <1>1 DEF Proper, Turn
<1>3. Len(Channels) = Len(Ops)
  <2>1. Program
    BY <1>1 DEF Types, Program
  <2>2. Len(Ops) \in Nat
    BY <2>1, TheOps
  <2> QED
    BY <2>2 DEF Channels
<1>4. at[p] < Len(Channels) /\ at' = [at EXCEPT ![p] = @ + 1] /\ result' = result
  BY <1>3 DEF Begin
<1>5. Channels' = Channels
  BY SameChannels DEF Begin, Fixed
<1> QED
  BY <1>2, <1>4, <1>5 DEF Promise!Begin

LEMMA ReturnImplements ==
    ASSUME Agreed, SpareRoom, kind \in Kinds, IInv, NEW p \in Parties, InOp(p), AllMoved(p), Return(p),
           at' = at, kind' = kind, program' = program
    PROVE  Promise!End(p)
<1>1. Types /\ Proper(p)
  BY DEF IInv
<1>2. Program /\ at[p] \in 1..Len(Ops)
  BY <1>1, Counting
<1>3. at[p] = Len(result[p]) + 1
  <2>1. Len(result[p]) = at[p] - 1
    BY <1>1 DEF Proper, Turn
  <2> QED
    BY <1>2, <2>1
<1>4. \A q \in Parties : <<q, p>> \in Channels[at[p]] <=> Uses(at[p], p, q, "receive")
  BY <1>2, UsesChannels
<1>5. \A q \in Parties : <<q, p>> \in Channels[at[p]] => at[q] >= at[p]
  BY <1>4, OthersBegun
<1>6. Promise!Yield(at[p], p) = Yielding(p)
  <2>1. Promise!Yield(at[p], p)
            = [q \in Parties |-> IF <<q, p>> \in Channels[at[p]] THEN "message" ELSE "nothing"]
    BY DEF Promise!Yield
  <2>2. Yielding(p) = [q \in Parties |-> IF Uses(at[p], p, q, "receive") THEN "message" ELSE "nothing"]
    BY Yields
  <2> QED
    BY <1>4, <2>1, <2>2
<1>7. result' = [result EXCEPT ![p] = Append(@, Promise!Yield(at[p], p))]
  BY <1>1, <1>6, ReturnAt
<1>8. Channels' = Channels
  BY SameChannels DEF Fixed
<1> QED
  BY <1>3, <1>5, <1>7, <1>8 DEF Promise!End

LEMMA StepImplements ==
    ASSUME Agreed, SpareRoom, kind \in Kinds, IInv, [Next]_vars
    PROVE  Fixed /\ [Promise!Next]_<<Channels, at, result>>
<1> DEFINE Stutters == at' = at /\ result' = result
           Ends(p) == InOp(p) /\ AllMoved(p) /\ Return(p) /\ at' = at
<1>1. ASSUME NEW p \in Parties, Call(p)
      PROVE  Fixed /\ (Stutters \/ Begin(p) \/ Ends(p))
  <2>1. CASE Begin(p)
    BY <2>1 DEF Begin, Fixed
  <2>2. CASE ReturnAtOnce(p)
    BY <2>2, ReturnAtOnceKeeps DEF ReturnAtOnce, Fixed
  <2>3. CASE Construct(p)
    BY <2>3 DEF Construct, Fixed
  <2>4. CASE RoundSends(p) \/ RoundReceives(p)
    BY <2>4 DEF RoundSends, RoundReceives, Fixed
  <2>5. CASE RoundWrites(p) \/ RoundReads(p)
    BY <2>5 DEF RoundWrites, RoundReads, Fixed
  <2>6. CASE Finish(p)
    <3>1. Fixed /\ at' = at
      BY <2>6 DEF Finish, Fixed
    <3>2. CASE stage[p] = Len(Exchanges(p))
      <4>1. Return(p)
        BY <2>6, <3>2 DEF Finish
      <4> QED
        BY <2>6, <3>1, <3>2, <4>1, FinishReturns
    <3>3. CASE stage[p] # Len(Exchanges(p))
      BY <2>6, <3>1, <3>3 DEF Finish
    <3> QED
      BY <3>2, <3>3
  <2>7. CASE Wait(p)
    <3>1. Fixed /\ at' = at
      BY <2>7 DEF Wait, Fixed
    <3>2. PICK w : w = Waits(p)[made[p] + 1]
      OBVIOUS
    <3>3. CASE made[p] + 1 = Len(Waits(p))
      BY <2>7, <3>1, <3>2, <3>3, WaitReturns, WaitsForMine
    <3>4. CASE made[p] + 1 # Len(Waits(p))
      BY <2>7, <3>1, <3>2, <3>4, WaitsForMine
    <3> QED
      BY <3>3, <3>4
  <2>8. CASE Close(p)
    BY <2>8 DEF Close, Fixed
  <2> QED
    BY <1>1, <2>1, <2>2, <2>3, <2>4, <2>5, <2>6, <2>7, <2>8 DEF Call
<1>2. ASSUME NEW p \in Parties, NEW q \in Parties, Sender(p, q) \/ Receiver(p, q)
      PROVE  Fixed /\ Stutters
  BY <1>2 DEF Sender, Receiver, Fixed
<1>3. ASSUME UNCHANGED vars PROVE Fixed /\ Stutters
  BY <1>3 DEF vars, Fixed
<1>4. Fixed /\ (Stutters \/ \E p \in Parties : Begin(p) \/ Ends(p))
  BY <1>1, <1>2, <1>3 DEF Next
<1>5. CASE Stutters
  BY <1>4, <1>5, SameChannels
<1>6. ASSUME NEW p \in Parties, Begin(p) PROVE Promise!Next
  BY <1>6, BeginImplements DEF Promise!Next
<1>7. ASSUME NEW p \in Parties, Ends(p) PROVE Promise!Next
  <2>1. Promise!End(p)
    BY <1>4, <1>7, ReturnImplements DEF Fixed
  <2> QED
    BY <2>1 DEF Promise!Next
<1> QED
  BY <1>4, <1>5, <1>6, <1>7

LEMMA InitImplements == Init => Promise!Init
<1> SUFFICES ASSUME Init PROVE Promise!Init
  OBVIOUS
<1>1. Program
  BY DEF Init, Program
<1>2. Len(Ops) \in Nat
  BY <1>1, TheOps
<1>3. Channels \in Seq(SUBSET (Parties \X Parties))
  <2> DEFINE C(k) == {c \in Parties \X Parties : c[1] # c[2] /\ Has(Ops[k], c[2], c[1])}
  <2>1. \A k \in 1..Len(Ops) : C(k) \in SUBSET (Parties \X Parties)
    OBVIOUS
  <2>2. Channels = [k \in 1..Len(Ops) |-> C(k)]
    BY DEF Channels
  <2> HIDE DEF C
  <2> QED
    BY <1>2, <2>1, <2>2
<1> QED
  BY <1>3 DEF Init, All, Promise!Init

\* What Player::exchange, pass_around, send_receive_all and partial_broadcast promise their
\* callers, for any operations that match: each yields what the other parties have for it in
\* the same operation, and ends only when they have begun it.  A stream that is sent and
\* received into must have spare room.
THEOREM KeepsPromise == Agreed /\ SpareRoom => (Spec => ImplementsRounds)
<1> SUFFICES ASSUME Agreed, SpareRoom PROVE Spec => ImplementsRounds
  OBVIOUS
<1>1. Init => Promise!Init /\ kind \in Kinds
  BY InitImplements DEF Init
<1>2. kind \in Kinds /\ IInv /\ [Next]_vars => (kind \in Kinds)' /\ [Promise!Next]_<<Channels, at, result>>
  BY StepImplements DEF Fixed
<1> QED
  BY <1>1, <1>2, Invariance, PTL DEF Spec, ImplementsRounds, Promise!Spec
=============================================================================
