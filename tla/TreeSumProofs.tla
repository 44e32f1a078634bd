---------------------------- MODULE TreeSumProofs ----------------------------
(***************************************************************************)
(* Theorems about TreeSum, for any number of parties and runs, any degrees *)
(* of the two trees, and any base player.                                  *)
(***************************************************************************)
EXTENDS TreeSum, TLAPS, WellFoundedInduction

\* The numbers of parties that are left in the rounds of the summing phase: the smallest set
\* that contains all of them and what a round makes of them.
Closed(S) == NPlayers \in S /\ \A n \in S : n > 0 => Fewer(n) \in S
Levels == {n \in 0..NPlayers : \A S \in SUBSET (0..NPlayers) : Closed(S) => n \in S}

\* The trees: p sends up to q, or sends down to q.
Up(p, q) == \E n \in Levels : /\ n > 0 /\ Relative(p) > 0
                              /\ Fewer(n) <= Relative(p) /\ Relative(p) < n
                              /\ Relative(q) = Relative(p) % Fewer(n)
Down(p, q) == Relative(q) > 0 /\ Relative(p) = Relative(q) \div max_broadcast

\* A party that has not given away its sum yet.
Summing(p) == \/ pc[p] \in {"send", "add"}
              \/ pc[p] = "round" /\ Relative(p) < sum_players[p]

\* How many sums are complete; all parties are in the run of the last one or in the next.
Total == runs[base_player] - (IF Summing(base_player) THEN 1 ELSE 0)
Summer(p) == runs[p] = Total + 1

\* The parties in the summing phase of the next run.
InStep ==
    \A p \in Parties :
        /\ runs[p] \in {Total, Total + 1}
        /\ Summing(p) => Summer(p)
        /\ pc[p] \in {"idle", "broadcast"} => ~Summer(p)

Place(p) ==
    LET r == Relative(p)
        n == sum_players[p]
        l == last_sum_players[p]
    IN /\ pc[p] = "round" => n \in Levels /\ n > 0
       /\ pc[p] \in {"add", "send"} => l \in Levels /\ l > 0 /\ n = Fewer(l) /\ n > 0
       /\ pc[p] = "send" => n <= r /\ r < l
       /\ pc[p] = "add" => /\ r < n /\ n <= peer[p] /\ peer[p] % n = r
       /\ pc[p] = "receive" => r > 0
       /\ pc[p] = "broadcast" => peer[p] > 0 /\ r * max_broadcast <= peer[p]
       /\ p = base_player /\ pc[p] = "round" => Summing(p)

\* On the way up: a party has sent its sum, and the next one has taken it.
Sent(p) == Summer(p) /\ ~Summing(p)
Has(q, r) == \/ ~Summing(q) \/ pc[q] = "send"
             \/ pc[q] = "round" /\ r >= sum_players[q]
             \/ pc[q] = "add" /\ (r >= last_sum_players[q] \/ (r >= sum_players[q] /\ r < peer[q]))
Taken(p, q) == Summer(q) /\ Has(q, Relative(p))

\* On the way down.
Told(p, q) == \/ Summer(p) \/ pc[p] = "idle"
              \/ pc[p] = "broadcast" /\ Relative(q) < peer[p]
Got(q) == Summer(q) \/ pc[q] \in {"idle", "broadcast"}

\* A connection holds at most one message, which has been sent and not been taken.
Box(m) == m = <<>> \/ \E v \in Sums : m = <<v>>
Edge(p, q) ==
    /\ Box(chan[p][q])
    /\ Up(p, q) => /\ Taken(p, q) => Sent(p)
                   /\ chan[p][q] # <<>> <=> Sent(p) /\ ~Taken(p, q)
    /\ Down(p, q) => /\ Got(q) => Told(p, q)
                     /\ chan[p][q] # <<>> <=> Told(p, q) /\ ~Got(q)
    /\ ~Up(p, q) /\ ~Down(p, q) => chan[p][q] = <<>>
Channels == \A p, q \in Parties : Edge(p, q)

\* The sum of all values of a run.
AllOf(run) == [c \in Contributions |-> IF c[1] = run THEN 1 ELSE 0]

\* What is in the sum of a party, or in the message it has sent up.
Parent(p) == CHOOSE q \in Parties : Up(p, q)
Share(p) == IF Summing(p) THEN values[p]
            ELSE IF Relative(p) > 0 /\ chan[p][Parent(p)] # <<>> THEN Head(chan[p][Parent(p)])
            ELSE Zero

\* The shares of the next sum: what the parties that have begun have put in, each in one share.
Shares ==
    /\ \A p \in Parties : Share(p) \in Sums
    /\ \A p \in Parties, c \in Contributions :
           Share(p)[c] # 0 => Share(p)[c] = 1 /\ c[1] = Total + 1 /\ Summer(c[2])
    /\ \A p, q \in Parties, c \in Contributions :
           Share(p)[c] # 0 /\ Share(q)[c] # 0 => p = q
    /\ \A x \in Parties : Summer(x) => \E p \in Parties : Share(p)[<<Total + 1, x>>] # 0

Complete ==
    /\ \A p \in Parties : pc[p] = "broadcast" => values[p] = AllOf(Total)
    /\ \A p, q \in Parties : Down(p, q) /\ chan[p][q] # <<>> => Head(chan[p][q]) = AllOf(Total)

Results ==
    \A p \in Parties :
        /\ Len(results[p]) = runs[p] - (IF pc[p] = "idle" THEN 0 ELSE 1)
        /\ \A i \in 1..Len(results[p]) : results[p][i] = AllOf(i)

\* Limit leaves no degree of 1, but for a party that is alone.
SettingsOK ==
    /\ opening_sum \in Nat \ {0} /\ max_broadcast \in Nat \ {0} /\ base_player \in Parties
    /\ blocking \in BOOLEAN
    /\ NPlayers > 1 => opening_sum > 1 /\ max_broadcast > 1

Types ==
    /\ pc \in [Parties -> {"idle", "round", "send", "add", "broadcast", "receive"}]
    /\ runs \in [Parties -> 0..NRuns]
    /\ values \in [Parties -> Sums]
    /\ sum_players \in [Parties -> 0..NPlayers]
    /\ last_sum_players \in [Parties -> 0..NPlayers]
    /\ peer \in [Parties -> Nat]
    /\ chan \in [Parties -> [Parties -> Seq(Sums)]]
    /\ results \in [Parties -> Seq(Sums)]

Places == \A p \in Parties : Place(p)

IInv == /\ SettingsOK /\ Types /\ Places /\ InStep /\ Channels /\ Shares /\ Complete /\ Results



-----------------------------------------------------------------------------
(* The trees.                                                              *)

\* A set of numbers has a smallest one.
LEMMA Least ==
    ASSUME NEW S, S \subseteq Nat, S # {}
    PROVE  \E x \in S : \A y \in S : x <= y
<1>1. PICK x \in S : \A y \in S : ~(<<y, x>> \in OpToRel(<, Nat))
  BY NatLessThanWellFounded, WFMin
<1>2. ASSUME NEW y \in S PROVE x <= y
  <2>1. ~(y < x)
    BY <1>1 DEF OpToRel
  <2> QED
    BY <2>1
<1> QED
  BY <1>2

LEMMA Quotient ==
    ASSUME NEW a \in Nat, NEW d \in Nat \ {0}
    PROVE  /\ a \div d \in Nat /\ (a \div d) * d <= a /\ a < (a \div d) * d + d
  OBVIOUS

LEMMA NoTimes ==
    ASSUME NEW d \in Nat
    PROVE  0 * d = 0
  OBVIOUS

LEMMA Modulo ==
    ASSUME NEW a \in Nat, NEW d \in Nat \ {0}
    PROVE  a % d \in 0..(d - 1) /\ a % d = a - (a \div d) * d
<1>1. a % d \in 0..(d - 1)
  OBVIOUS
<1>2. a % d = a - (a \div d) * d
  OBVIOUS
<1> QED
  BY <1>1, <1>2

\* Every round leaves fewer parties, and at least one up to the last round.
LEMMA FewerFacts ==
    ASSUME SettingsOK, NEW n \in 1..NPlayers
    PROVE  Fewer(n) \in 0..NPlayers /\ Fewer(n) < n /\ (Fewer(n) = 0 <=> n = 1)
<1>0. NPlayers \in Nat \ {0} /\ n \in Nat /\ opening_sum \in Nat \ {0}
  BY TreeSumAssumption DEF SettingsOK
<1> DEFINE o == opening_sum  f == Fewer(n)
<1>1. CASE n = 1
  <2>1. f = (o - 1) \div o
    BY <1>0, <1>1 DEF Fewer
  <2>2. (o - 1) \div o = 0
    BY <1>0
  <2> QED
    BY <1>0, <1>1, <2>1, <2>2
<1>2. CASE n > 1
  <2>0. o > 1
    BY <1>0, <1>2 DEF SettingsOK
  <2>1. f \in Nat /\ f * o <= n - 2 + o /\ n - 2 + o < f * o + o
    <3>1. n - 2 + o \in Nat
      BY <1>0, <1>2
    <3> QED
      BY <1>0, <3>1, Quotient DEF Fewer
  <2>2. f # 0
    BY <1>0, <1>2, <2>1
  <2>3. f < n
    <3>1. SUFFICES ASSUME f >= n PROVE FALSE
      BY <1>0, <2>1
    <3>2. PICK d \in Nat : f = n + d
      BY <1>0, <2>1, <3>1, f = n + (f - n)
    <3>3. PICK e \in Nat : n = 2 + e
      BY <1>0, <1>2, n = 2 + (n - 2)
    <3>4. PICK g \in Nat : o = 2 + g
      BY <1>0, <2>0, o = 2 + (o - 2)
    <3> HIDE DEF f, o
    <3>5. f * o = (2 + e + d) * (2 + g)
      BY <3>2, <3>3, <3>4
    <3>6. (2 + e + d) * (2 + g) = 4 + 2 * e + 2 * d + 2 * g + e * g + d * g /\ e * g \in Nat /\ d * g \in Nat
      BY <3>2, <3>3, <3>4
    <3>7. f * o <= e + 2 + g
      BY <2>1, <3>3, <3>4
    <3> QED
      BY <3>5, <3>6, <3>7
  <2> QED
    BY <1>0, <1>2, <2>1, <2>2, <2>3
<1> QED
  BY <1>0, <1>1, <1>2

LEMMA LevelFacts ==
    ASSUME SettingsOK
    PROVE  /\ Levels \subseteq 0..NPlayers /\ NPlayers \in Levels
           /\ \A n \in Levels : n > 0 => Fewer(n) \in Levels
           /\ \A S \in SUBSET (0..NPlayers) : Closed(S) => Levels \subseteq S
<1>1. NPlayers \in 0..NPlayers
  BY TreeSumAssumption
<1>2. ASSUME NEW n \in Levels, n > 0 PROVE Fewer(n) \in Levels
  <2>1. n \in 1..NPlayers
    BY <1>2, TreeSumAssumption DEF Levels
  <2>2. Fewer(n) \in 0..NPlayers
    BY <2>1, FewerFacts
  <2> QED
    BY <1>2, <2>2 DEF Levels, Closed
<1> QED
  BY <1>1, <1>2 DEF Levels, Closed

\* Of two numbers of parties the smaller one comes in a later round.
LEMMA Chain ==
    ASSUME SettingsOK, NEW a \in Levels, NEW b \in Levels, a < b
    PROVE  a <= Fewer(b)
<1>0. NPlayers \in Nat
  BY TreeSumAssumption
<1> DEFINE T == {x \in 0..NPlayers : \A y \in Levels : y > x => Fewer(y) >= x}
<1>1. NPlayers \in T
  BY <1>0, LevelFacts
<1>2. ASSUME NEW x \in T, x > 0 PROVE Fewer(x) \in T
  <2>0. x \in 1..NPlayers /\ Fewer(x) \in 0..NPlayers /\ Fewer(x) < x
    BY <1>0, <1>2, FewerFacts
  <2> DEFINE S == {y \in Levels : y >= x \/ y <= Fewer(x)}
  <2>1. S \in SUBSET (0..NPlayers) /\ NPlayers \in S
    BY <1>0, <2>0, LevelFacts
  <2>2. ASSUME NEW y \in S, y > 0 PROVE Fewer(y) \in S
    <3>1. y \in 1..NPlayers /\ Fewer(y) \in Levels /\ Fewer(y) \in 0..NPlayers /\ Fewer(y) < y
      BY <1>0, <2>2, LevelFacts, FewerFacts
    <3>2. CASE y <= Fewer(x)
      BY <2>0, <3>1, <3>2
    <3>3. CASE y = x
      BY <2>0, <3>1, <3>3
    <3>4. CASE y > x
      BY <1>2, <3>1, <3>4
    <3> QED
      BY <2>0, <3>1, <3>2, <3>3, <3>4
  <2>3. Levels \subseteq S
    BY <2>1, <2>2, LevelFacts DEF Closed
  <2>4. ASSUME NEW y \in Levels, y > Fewer(x) PROVE Fewer(y) >= Fewer(x)
    <3>1. y \in 1..NPlayers /\ Fewer(y) \in 0..NPlayers
      BY <1>0, <2>0, <2>4, LevelFacts, FewerFacts
    <3>2. y >= x
      BY <2>0, <2>3, <2>4, <3>1
    <3> QED
      BY <1>2, <2>0, <3>1, <3>2
  <2> QED
    BY <2>0, <2>4
<1>3. Levels \subseteq T
  BY <1>1, <1>2, LevelFacts DEF Closed
<1> QED
  BY <1>3

\* Every party but the base player sends up in one of the rounds.
LEMMA LevelOf ==
    ASSUME SettingsOK, NEW r \in 1..(NPlayers - 1)
    PROVE  \E n \in Levels : n > 0 /\ Fewer(n) <= r /\ r < n
<1>0. NPlayers \in Nat
  BY TreeSumAssumption
<1> DEFINE S == {n \in Levels : n > r}
<1>1. S \subseteq Nat /\ S # {}
  BY <1>0, LevelFacts
<1>2. PICK n \in S : \A y \in S : n <= y
  BY <1>1, Least
<1>3. n \in 1..NPlayers /\ Fewer(n) \in Levels /\ Fewer(n) \in 0..NPlayers /\ Fewer(n) < n
  BY <1>0, <1>2, LevelFacts, FewerFacts
<1>4. Fewer(n) <= r
  BY <1>0, <1>2, <1>3
<1> QED
  BY <1>2, <1>3, <1>4

LEMMA Positions ==
    ASSUME SettingsOK, NEW p \in Parties
    PROVE  /\ Relative(p) \in 0..(NPlayers - 1) /\ Player(Relative(p)) = p
           /\ Relative(p) = 0 <=> p = base_player
<1>1. NPlayers \in Nat \ {0} /\ p \in 0..(NPlayers - 1) /\ base_player \in 0..(NPlayers - 1)
  BY TreeSumAssumption DEF Parties, SettingsOK
<1>2. CASE p >= base_player
  <2>1. Relative(p) = p - base_player
    BY <1>1, <1>2 DEF Relative
  <2> QED
    BY <1>1, <1>2, <2>1 DEF Player
<1>3. CASE p < base_player
  <2>1. Relative(p) = p - base_player + NPlayers
    BY <1>1, <1>3 DEF Relative
  <2> QED
    BY <1>1, <1>3, <2>1 DEF Player
<1> QED
  BY <1>1, <1>2, <1>3

LEMMA PlayerAt ==
    ASSUME SettingsOK, NEW r \in 0..(NPlayers - 1)
    PROVE  Player(r) \in Parties /\ Relative(Player(r)) = r
<1>1. NPlayers \in Nat \ {0} /\ r \in 0..(NPlayers - 1) /\ base_player \in 0..(NPlayers - 1)
  BY TreeSumAssumption DEF Parties, SettingsOK
<1>2. CASE base_player + r < NPlayers
  <2>1. Player(r) = base_player + r
    BY <1>1, <1>2 DEF Player
  <2> QED
    BY <1>1, <1>2, <2>1 DEF Relative, Parties
<1>3. CASE base_player + r >= NPlayers
  <2>1. Player(r) = base_player + r - NPlayers
    BY <1>1, <1>3 DEF Player
  <2> QED
    BY <1>1, <1>3, <2>1 DEF Relative, Parties
<1> QED
  BY <1>1, <1>2, <1>3

\* Where p is on the way up: the level at which it sends, for the parties it receives from.
LEMMA LevelUnique ==
    ASSUME SettingsOK, NEW r \in Nat, NEW a \in Levels, NEW b \in Levels, a > 0, b > 0,
           Fewer(a) <= r, r < a, Fewer(b) <= r, r < b
    PROVE  a = b
<1>1. a \in 1..NPlayers /\ b \in 1..NPlayers /\ Fewer(a) \in 0..NPlayers /\ Fewer(b) \in 0..NPlayers
  BY LevelFacts, FewerFacts, TreeSumAssumption
<1>2. a < b => a <= Fewer(b)
  BY Chain
<1>3. b < a => b <= Fewer(a)
  BY Chain
<1> QED
  BY <1>1, <1>2, <1>3, TreeSumAssumption

\* The facts about both trees that the proofs below use.
Trees ==
    /\ \A p \in Parties :
           /\ Relative(p) \in 0..(NPlayers - 1) /\ Player(Relative(p)) = p
           /\ Relative(p) = 0 <=> p = base_player
           /\ Relative(p) > 0 => \E q \in Parties : q = Parent(p) /\ Up(p, q)
           /\ Relative(p) > 0 => \E q \in Parties : Down(q, p)
    /\ \A p, q \in Parties :
           /\ Relative(p) = Relative(q) => p = q
           /\ Up(p, q) => Relative(p) > 0 /\ q = Parent(p) /\ Relative(q) < Relative(p)
           /\ Down(p, q) => Relative(q) > 0 /\ Relative(p) < Relative(q)
    /\ \A p, q, s \in Parties : Down(p, q) /\ Down(s, q) => p = s

LEMMA UpFacts ==
    ASSUME SettingsOK, NEW p \in Parties, NEW q \in Parties, NEW n \in Levels, n > 0,
           Relative(p) > 0, Fewer(n) <= Relative(p), Relative(p) < n
    PROVE  /\ Fewer(n) > 0 /\ Fewer(n) \in 1..NPlayers
           /\ Up(p, q) <=> Relative(q) = Relative(p) % Fewer(n)
           /\ Relative(p) % Fewer(n) \in 0..(Fewer(n) - 1)
<1>1. n \in 1..NPlayers /\ Fewer(n) \in 0..NPlayers /\ (Fewer(n) = 0 <=> n = 1)
  BY LevelFacts, FewerFacts, TreeSumAssumption
<1>2. Relative(p) \in 0..(NPlayers - 1) /\ NPlayers \in Nat
  BY Positions, TreeSumAssumption
<1>3. Fewer(n) > 0
  BY <1>1, <1>2
<1>4. Relative(p) % Fewer(n) \in 0..(Fewer(n) - 1)
  <2>1. Relative(p) \in Nat /\ Fewer(n) \in Nat \ {0}
    BY <1>1, <1>2, <1>3
  <2> QED
    BY <2>1, Modulo
<1>5. ASSUME Up(p, q) PROVE Relative(q) = Relative(p) % Fewer(n)
  <2>1. PICK m \in Levels : m > 0 /\ Fewer(m) <= Relative(p) /\ Relative(p) < m
                            /\ Relative(q) = Relative(p) % Fewer(m)
    BY <1>5 DEF Up
  <2>2. m = n
    BY <1>2, <2>1, LevelUnique
  <2> QED
    BY <2>1, <2>2
<1>6. Relative(q) = Relative(p) % Fewer(n) => Up(p, q)
  BY DEF Up
<1> QED
  BY <1>1, <1>2, <1>3, <1>4, <1>5, <1>6

LEMMA TreesHold == SettingsOK => Trees
<1> SUFFICES ASSUME SettingsOK PROVE Trees
  OBVIOUS
<1>0. NPlayers \in Nat \ {0} /\ max_broadcast \in Nat \ {0}
  BY TreeSumAssumption DEF SettingsOK
<1>1. ASSUME NEW p \in Parties
      PROVE  /\ Relative(p) \in 0..(NPlayers - 1) /\ Player(Relative(p)) = p
             /\ Relative(p) = 0 <=> p = base_player
  BY Positions
<1>2. ASSUME NEW p \in Parties, NEW q \in Parties, Relative(p) = Relative(q)
      PROVE  p = q
  BY <1>1, <1>2
<1>3. ASSUME NEW p \in Parties, Relative(p) > 0
      PROVE  /\ \E q \in Parties : Up(p, q)
             /\ \A q, s \in Parties : Up(p, q) /\ Up(p, s) => q = s
             /\ \A q \in Parties : Up(p, q) => Relative(q) < Relative(p)
  <2>1. Relative(p) \in 1..(NPlayers - 1)
    BY <1>0, <1>1, <1>3
  <2>2. PICK n \in Levels : n > 0 /\ Fewer(n) <= Relative(p) /\ Relative(p) < n
    BY <2>1, LevelOf
  <2> DEFINE f == Fewer(n)
             r == Relative(p) % f
  <2>3. /\ f \in 1..NPlayers /\ r \in 0..(f - 1)
        /\ \A q \in Parties : Up(p, q) <=> Relative(q) = r
    BY <1>3, <2>2, UpFacts
  <2>4. r \in 0..(NPlayers - 1) /\ r < Relative(p)
    BY <1>0, <2>1, <2>2, <2>3
  <2>5. Player(r) \in Parties /\ Relative(Player(r)) = r
    BY <2>4, PlayerAt
  <2> HIDE DEF r
  <2> QED
    BY <1>2, <2>3, <2>4, <2>5
<1>4. ASSUME NEW p \in Parties, Relative(p) > 0
      PROVE  Parent(p) \in Parties /\ Up(p, Parent(p))
  BY <1>3, <1>4 DEF Parent
<1>5. ASSUME NEW p \in Parties, NEW q \in Parties, Up(p, q)
      PROVE  Relative(p) > 0 /\ q = Parent(p) /\ Relative(q) < Relative(p)
  <2>1. Relative(p) > 0
    BY <1>5 DEF Up
  <2> QED
    BY <1>3, <1>4, <1>5, <2>1
<1>6. ASSUME NEW q \in Parties, Relative(q) > 0
      PROVE  /\ Relative(q) \div max_broadcast \in 0..(NPlayers - 1)
             /\ Relative(q) \div max_broadcast < Relative(q)
  <2> DEFINE m == max_broadcast
             r == Relative(q)
             d == r \div m
  <2>1. r \in 1..(NPlayers - 1) /\ m > 1 /\ m \in Nat
    BY <1>0, <1>1, <1>6 DEF SettingsOK
  <2>2. d \in Nat /\ d * m <= r
    BY <2>1, Quotient
  <2> HIDE DEF m, r, d
  <2>3. d < r
    <3>1. PICK e \in Nat : m = 2 + e
      BY <2>1, m = 2 + (m - 2)
    <3>2. d * m = 2 * d + d * e /\ d * e \in Nat
      BY <2>2, <3>1
    <3> QED
      BY <2>1, <2>2, <3>2
  <2>4. d \in 0..(NPlayers - 1)
    BY <1>0, <2>1, <2>2, <2>3
  <2> QED
    BY <2>3, <2>4 DEF d, r, m
<1>7. ASSUME NEW q \in Parties, Relative(q) > 0
      PROVE  \E p \in Parties : Down(p, q)
  BY <1>6, <1>7, PlayerAt DEF Down
<1>8. ASSUME NEW p \in Parties, NEW q \in Parties, Down(p, q)
      PROVE  Relative(q) > 0 /\ Relative(p) < Relative(q)
  BY <1>6, <1>8 DEF Down
<1>9. ASSUME NEW p \in Parties, NEW q \in Parties, NEW s \in Parties, Down(p, q), Down(s, q)
      PROVE  p = s
  BY <1>2, <1>9 DEF Down
<1> QED
  BY <1>1, <1>2, <1>4, <1>5, <1>7, <1>8, <1>9 DEF Trees

\* The trees do not change.
Fixed ==
    /\ UNCHANGED <<opening_sum, max_broadcast, base_player>> /\ Levels' = Levels
    /\ \A p \in Parties : Relative(p)' = Relative(p)
    /\ \A p, q \in Parties : (Up(p, q)' <=> Up(p, q)) /\ (Down(p, q)' <=> Down(p, q))
    /\ \A p \in Parties : Relative(p) > 0 => Parent(p)' = Parent(p)

LEMMA TreesStay ==
    ASSUME SettingsOK, UNCHANGED settings
    PROVE  SettingsOK' /\ Fixed
<1>1. /\ opening_sum' = opening_sum /\ max_broadcast' = max_broadcast
      /\ base_player' = base_player /\ blocking' = blocking
  BY DEF settings
<1>2. SettingsOK'
  BY <1>1 DEF SettingsOK
<1>3. ASSUME NEW n PROVE Fewer(n)' = Fewer(n)
  BY <1>1 DEF Fewer
<1>4. ASSUME NEW S PROVE Closed(S)' <=> Closed(S)
  BY <1>3 DEF Closed
<1>5. Levels' = Levels
  BY <1>4 DEF Levels
<1>6. ASSUME NEW p \in Parties PROVE Relative(p)' = Relative(p)
  BY <1>1 DEF Relative
<1>7. ASSUME NEW p \in Parties, NEW q \in Parties
      PROVE  (Up(p, q)' <=> Up(p, q)) /\ (Down(p, q)' <=> Down(p, q))
  <2>1. Down(p, q)' <=> Down(p, q)
    BY <1>1, <1>6 DEF Down
  <2>2. Up(p, q)' <=> Up(p, q)
    BY <1>3, <1>5, <1>6 DEF Up
  <2> QED
    BY <2>1, <2>2
<1>8. Trees
  BY TreesHold
<1>9. Trees'
  <2>1. (SettingsOK => Trees)'
    BY TreesHold, PTL
  <2> QED
    BY <1>2, <2>1
<1>10. ASSUME NEW p \in Parties, Relative(p) > 0
       PROVE  Parent(p)' = Parent(p)
  <2>1. PICK q \in Parties : q = Parent(p)' /\ Up(p, q)'
    BY <1>6, <1>9, <1>10 DEF Trees
  <2>2. Up(p, q)
    BY <1>7, <2>1
  <2> QED
    BY <1>8, <2>1, <2>2 DEF Trees
<1> QED
  BY <1>1, <1>2, <1>3, <1>5, <1>6, <1>7, <1>10 DEF Fixed

-----------------------------------------------------------------------------
(* What a step of one party leaves as it is.                               *)

\* A step of p changes no other party.
Frame(p) ==
    \A q \in Parties \ {p} :
        /\ pc'[q] = pc[q] /\ runs'[q] = runs[q] /\ values'[q] = values[q]
        /\ sum_players'[q] = sum_players[q] /\ last_sum_players'[q] = last_sum_players[q]
        /\ peer'[q] = peer[q] /\ results'[q] = results[q]

Acts(p) == \/ Begin(p) \/ Round(p) \/ SendUp(p) \/ AddOne(p) \/ AddedAll(p)
           \/ ReceiveSum(p) \/ Broadcast(p) \/ Return(p)

LEMMA StepFrame ==
    ASSUME Types, NEW p \in Parties, Acts(p)
    PROVE  Frame(p)
<1>1. CASE Begin(p)
  BY <1>1 DEF Begin, Goto, Types, Frame
<1>2. CASE Round(p)
  BY <1>2 DEF Round, FirstPeer, Goto, Types, Frame
<1>3. CASE SendUp(p)
  BY <1>3 DEF SendUp, Goto, Types, Frame
<1>4. CASE AddOne(p)
  BY <1>4 DEF AddOne, Goto, Types, Frame
<1>5. CASE AddedAll(p)
  BY <1>5 DEF AddedAll, Goto, Types, Frame
<1>6. CASE ReceiveSum(p)
  BY <1>6 DEF ReceiveSum, Goto, Types, Frame
<1>7. CASE Broadcast(p)
  BY <1>7 DEF Broadcast, Types, Frame
<1>8. CASE Return(p)
  BY <1>8 DEF Return, Goto, Types, Frame
<1> QED
  BY <1>1, <1>2, <1>3, <1>4, <1>5, <1>6, <1>7, <1>8 DEF Acts

\* What others see of q stays the same.
UpSame(p, q) == (Sent(p)' <=> Sent(p)) /\ (Taken(p, q)' <=> Taken(p, q))
DownSame(p, q) == (Told(p, q)' <=> Told(p, q)) /\ (Got(q)' <=> Got(q))
SameAt(q) ==
    /\ (Summing(q)' <=> Summing(q)) /\ (Summer(q)' <=> Summer(q)) /\ (Sent(q)' <=> Sent(q))
    /\ (Got(q)' <=> Got(q))
    /\ \A s \in Parties : /\ Up(s, q) => (Taken(s, q)' <=> Taken(s, q))
                          /\ Down(q, s) => (Told(q, s)' <=> Told(q, s))

LEMMA SameElsewhere ==
    ASSUME Fixed, NEW p \in Parties, Frame(p)
    PROVE  /\ \A q \in Parties \ {p} : (Summing(q)' <=> Summing(q)) /\ (Place(q) => Place(q)')
           /\ Total' = Total => \A q \in Parties \ {p} : SameAt(q)
<1> SUFFICES ASSUME NEW q \in Parties \ {p}
             PROVE  /\ Summing(q)' <=> Summing(q)
                    /\ Place(q) => Place(q)'
                    /\ Total' = Total => SameAt(q)
  OBVIOUS
<1>1. /\ pc'[q] = pc[q] /\ runs'[q] = runs[q] /\ sum_players'[q] = sum_players[q]
      /\ last_sum_players'[q] = last_sum_players[q] /\ peer'[q] = peer[q]
  BY DEF Frame
<1>2. \A s \in Parties : Relative(s)' = Relative(s)
  BY DEF Fixed
<1>3. Summing(q)' <=> Summing(q)
  BY <1>1, <1>2 DEF Summing
<1>4. Place(q) => Place(q)'
  BY <1>1, <1>2, <1>3 DEF Place, Fixed, Fewer
<1>5. ASSUME Total' = Total PROVE SameAt(q)
  <2>1. Summer(q)' <=> Summer(q)
    BY <1>1, <1>5 DEF Summer
  <2>2. Sent(q)' <=> Sent(q)
    BY <1>3, <2>1 DEF Sent
  <2>3. Got(q)' <=> Got(q)
    BY <1>1, <2>1 DEF Got
  <2>4. ASSUME NEW s \in Parties
        PROVE  (Taken(s, q)' <=> Taken(s, q)) /\ (Told(q, s)' <=> Told(q, s))
    BY <1>1, <1>2, <1>3, <2>1 DEF Taken, Has, Told
  <2> QED
    BY <1>3, <2>1, <2>2, <2>3, <2>4 DEF SameAt
<1> QED
  BY <1>3, <1>4, <1>5

\* A step of p keeps the number of sums, but that of the base player after its last round.
LEMMA SameTotal ==
    ASSUME Fixed, SettingsOK, NEW p \in Parties, Frame(p),
           p = base_player => runs'[p] = runs[p] /\ (Summing(p)' <=> Summing(p))
    PROVE  Total' = Total
<1>1. runs'[base_player] = runs[base_player]
  BY DEF Frame, SettingsOK
<1>2. Summing(base_player)' <=> Summing(base_player)
  <2>1. \A q \in Parties \ {p} : Summing(q)' <=> Summing(q)
    BY SameElsewhere
  <2>2. ASSUME NEW q \in Parties, q = base_player PROVE Summing(q)' <=> Summing(q)
    BY <2>1, <2>2
  <2>3. base_player' = base_player
    BY DEF Fixed
  <2> QED
    BY <2>2, <2>3 DEF SettingsOK
<1> QED
  BY <1>1, <1>2 DEF Total, Fixed

LEMMA SameEdge ==
    ASSUME Fixed, NEW p \in Parties, NEW q \in Parties, Edge(p, q), chan'[p][q] = chan[p][q],
           Up(p, q) => UpSame(p, q), Down(p, q) => DownSame(p, q)
    PROVE  Edge(p, q)'
<1>1. (Up(p, q)' <=> Up(p, q)) /\ (Down(p, q)' <=> Down(p, q))
  BY DEF Fixed
<1>2. Box(chan'[p][q])
  BY DEF Edge
<1>3. Up(p, q) => (Sent(p)' <=> Sent(p)) /\ (Taken(p, q)' <=> Taken(p, q))
  BY DEF UpSame
<1>4. Down(p, q) => (Told(p, q)' <=> Told(p, q)) /\ (Got(q)' <=> Got(q))
  BY DEF DownSame
<1> QED
  BY <1>1, <1>2, <1>3, <1>4 DEF Edge, Box

LEMMA SameShare ==
    ASSUME Fixed, NEW q \in Parties, Summing(q)' <=> Summing(q),
           Summing(q) => values'[q] = values[q],
           Relative(q) > 0 => chan'[q][Parent(q)] = chan[q][Parent(q)]
    PROVE  Share(q)' = Share(q)
<1>1. Relative(q)' = Relative(q) /\ (Relative(q) > 0 => Parent(q)' = Parent(q))
  BY DEF Fixed
<1> QED
  BY <1>1 DEF Share, Zero

LEMMA SameShares ==
    ASSUME Shares, Total' = Total, \A q \in Parties : Share(q)' = Share(q),
           \A q \in Parties : Summer(q)' <=> Summer(q)
    PROVE  Shares'
<1>1. \A c \in Contributions : c[2] \in Parties
  BY DEF Contributions
<1> QED
  BY <1>1 DEF Shares

\* What the invariant says of complete sums holds on if none is completed or sent.
LEMMA SameTotals ==
    ASSUME Complete, Fixed, Total' = Total,
           \A p, q \in Parties : Down(p, q) => chan'[p][q] \in {chan[p][q], <<>>},
           \A q \in Parties : pc'[q] = "broadcast" => pc[q] = "broadcast" /\ values'[q] = values[q]
    PROVE  Complete'
<1>1. AllOf(Total)' = AllOf(Total)
  BY DEF AllOf
<1>2. \A p \in Parties : pc'[p] = "broadcast" => values'[p] = AllOf(Total)'
  BY <1>1 DEF Complete
<1>3. ASSUME NEW p \in Parties, NEW q \in Parties, Down(p, q)', chan'[p][q] # <<>>
      PROVE  Head(chan'[p][q]) = AllOf(Total)'
  <2>1. chan'[p][q] = chan[p][q] /\ Down(p, q)
    BY <1>3 DEF Fixed
  <2> QED
    BY <1>1, <1>3, <2>1 DEF Complete
<1> QED
  BY <1>2, <1>3 DEF Complete

LEMMA SameResults ==
    ASSUME Results, runs' = runs, results' = results,
           \A q \in Parties : pc'[q] = "idle" <=> pc[q] = "idle"
    PROVE  Results'
<1>1. \A i : AllOf(i)' = AllOf(i)
  BY DEF AllOf
<1> QED
  BY <1>1 DEF Results

-----------------------------------------------------------------------------
(* Steps that others do not see: rounds but the base player's last one.    *)

LEMMA UnseenStep ==
    ASSUME IInv, NEW p \in Parties, Frame(p), Fixed, SettingsOK', Types', Place(p)',
           SameAt(p), Total' = Total, UNCHANGED <<runs, values, chan, results>>,
           {pc[p], pc'[p]} \intersect {"idle", "broadcast"} = {}
    PROVE  IInv'
<1>1. /\ \A q \in Parties : SameAt(q)
      /\ Places'
  BY SameElsewhere DEF IInv, Places
<1>2. \A q \in Parties : /\ pc'[q] = "idle" <=> pc[q] = "idle"
                         /\ pc'[q] = "broadcast" <=> pc[q] = "broadcast"
  BY DEF Frame
<1>3. InStep'
  BY <1>1, <1>2 DEF IInv, InStep, SameAt
<1>4. ASSUME NEW s \in Parties, NEW t \in Parties PROVE Edge(s, t)'
  BY <1>1, SameEdge DEF IInv, Channels, SameAt, UpSame, DownSame
<1>5. Shares'
  BY <1>1, SameShare, SameShares DEF IInv, SameAt
<1>6. Complete'
  BY <1>2, SameTotals DEF IInv
<1>7. Results'
  BY <1>2, SameResults DEF IInv
<1> QED
  BY <1>1, <1>3, <1>4, <1>5, <1>6, <1>7 DEF IInv, Channels

LEMMA AddedAllStep ==
    ASSUME IInv, NEW p \in Parties, AddedAll(p), UNCHANGED settings
    PROVE  IInv'
<1>1. /\ pc[p] = "add" /\ peer[p] >= last_sum_players[p]
      /\ pc' = [pc EXCEPT ![p] = "round"]
      /\ UNCHANGED <<runs, values, sum_players, last_sum_players, peer, chan, results>>
  BY DEF AddedAll, Goto
<1>2. SettingsOK' /\ Fixed /\ Trees
  BY TreesStay, TreesHold DEF IInv
<1>3. Frame(p)
  BY StepFrame DEF IInv, Acts
<1>4. Types' /\ pc'[p] = "round"
  BY <1>1 DEF IInv, Types
<1> DEFINE r == Relative(p)
           n == sum_players[p]
           l == last_sum_players[p]
<1>5. /\ l \in Levels /\ l > 0 /\ n = Fewer(l) /\ n > 0 /\ r < n /\ n < l
      /\ r \in 0..(NPlayers - 1) /\ n \in 0..NPlayers /\ l \in 0..NPlayers /\ peer[p] \in Nat
      /\ n \in Levels
  <2>1. l \in Levels /\ l > 0 /\ n = Fewer(l) /\ n > 0 /\ r < n
    BY <1>1 DEF IInv, Places, Place
  <2>2. n \in 0..NPlayers /\ l \in 0..NPlayers /\ peer[p] \in Nat
    BY <1>1 DEF IInv, Types
  <2>3. l \in 1..NPlayers
    BY <2>1, <2>2, TreeSumAssumption
  <2>4. n < l /\ n \in Levels
    BY <2>1, <2>3, FewerFacts, LevelFacts DEF IInv
  <2> QED
    BY <1>2, <2>1, <2>2, <2>4 DEF Trees
<1>6. \A s \in Parties : Relative(s)' = Relative(s) /\ Relative(s) \in 0..(NPlayers - 1)
  BY <1>2 DEF Fixed, Trees
<1>7. Summing(p)' /\ Summing(p)
  BY <1>1, <1>4, <1>5, <1>6 DEF Summing
<1>8. Total' = Total
  BY <1>1, <1>2, <1>3, <1>7, SameTotal DEF IInv
<1>9. SameAt(p)
  <2>1. Summer(p)' <=> Summer(p)
    BY <1>1, <1>8 DEF Summer
  <2>2. ASSUME NEW s \in Parties PROVE Taken(s, p)' <=> Taken(s, p)
    <3>1. Has(p, Relative(s)) <=> Relative(s) >= n
      BY <1>1, <1>5, <1>6, <1>7 DEF Has
    <3>2. Has(p, Relative(s))' <=> Relative(s) >= n
      BY <1>1, <1>4, <1>6, <1>7 DEF Has
    <3> QED
      BY <2>1, <3>1, <3>2 DEF Taken
  <2>3. \A s \in Parties : Told(p, s)' <=> Told(p, s)
    BY <1>1, <1>4, <2>1 DEF Told
  <2>4. (Got(p)' <=> Got(p)) /\ (Sent(p)' <=> Sent(p))
    BY <1>1, <1>4, <1>7, <2>1 DEF Got, Sent
  <2> QED
    BY <1>7, <2>1, <2>2, <2>3, <2>4 DEF SameAt
<1>10. Place(p)'
  <2>1. sum_players'[p] = n /\ Levels' = Levels
    BY <1>1, <1>2 DEF Fixed
  <2> QED
    BY <1>4, <1>5, <1>7, <2>1 DEF Place
<1> QED
  BY <1>1, <1>2, <1>3, <1>4, <1>8, <1>9, <1>10, UnseenStep

\* What comes from a party that sends in the round that leaves f parties has to be taken in the
\* same round, as the first one if it is from the next party.
LEMMA RoundStep ==
    ASSUME IInv, NEW p \in Parties, Round(p), UNCHANGED settings,
           ~(p = base_player /\ Fewer(sum_players[p]) = 0)
    PROVE  IInv'
<1> DEFINE r == Relative(p)
           n == sum_players[p]
           f == Fewer(n)
<1>1. /\ pc[p] = "round"
      /\ sum_players' = [sum_players EXCEPT ![p] = f]
      /\ last_sum_players' = [last_sum_players EXCEPT ![p] = n]
      /\ peer' = [peer EXCEPT ![p] = IF f = 0 THEN 1 ELSE r + f]
      /\ pc' = [pc EXCEPT ![p] = IF f = 0
                                 THEN IF r = 0 THEN "broadcast" ELSE "receive"
                                 ELSE IF r < f THEN "add" ELSE IF r < n THEN "send" ELSE "round"]
      /\ UNCHANGED <<runs, values, chan, results>>
  BY DEF Round, FirstPeer, Goto
<1>2. SettingsOK' /\ Fixed /\ Trees /\ SettingsOK
  BY TreesStay, TreesHold DEF IInv
<1>3. Frame(p)
  BY StepFrame DEF IInv, Acts
<1>4. /\ n \in Levels /\ n \in 1..NPlayers /\ r \in 0..(NPlayers - 1) /\ NPlayers \in Nat
      /\ p = base_player => Summing(p)
  <2>1. n \in Levels /\ n > 0 /\ (p = base_player => Summing(p))
    BY <1>1 DEF IInv, Places, Place
  <2>2. n \in 0..NPlayers /\ NPlayers \in Nat
    BY TreeSumAssumption DEF IInv, Types
  <2> QED
    BY <1>2, <2>1, <2>2 DEF Trees
<1>5. f \in 0..NPlayers /\ f < n /\ f \in Levels /\ (f = 0 <=> n = 1)
  BY <1>2, <1>4, FewerFacts, LevelFacts
<1>6. r = 0 => f # 0
  BY <1>2 DEF Trees
<1> HIDE DEF f
<1>7. /\ pc'[p] = IF f = 0 THEN "receive"
                  ELSE IF r < f THEN "add" ELSE IF r < n THEN "send" ELSE "round"
      /\ sum_players'[p] = f /\ last_sum_players'[p] = n
      /\ peer'[p] = IF f = 0 THEN 1 ELSE r + f
  BY <1>1, <1>6 DEF IInv, Types
<1>8. Types'
  <2>1. (IF f = 0 THEN 1 ELSE r + f) \in Nat /\ n \in 0..NPlayers
    BY <1>4, <1>5
  <2>2. /\ sum_players' \in [Parties -> 0..NPlayers] /\ last_sum_players' \in [Parties -> 0..NPlayers]
        /\ peer' \in [Parties -> Nat]
    BY <1>1, <1>5, <2>1 DEF IInv, Types
  <2>3. pc' \in [Parties -> {"idle", "round", "send", "add", "broadcast", "receive"}]
    BY <1>1 DEF IInv, Types
  <2> QED
    BY <1>1, <2>2, <2>3 DEF IInv, Types
<1>9. \A s \in Parties : Relative(s)' = Relative(s) /\ Relative(s) \in 0..(NPlayers - 1)
  BY <1>2 DEF Fixed, Trees
<1>10. Summing(p) <=> r < n
  BY <1>1 DEF Summing
<1>11. Summing(p)' <=> r < n
  BY <1>4, <1>5, <1>6, <1>7, <1>9 DEF Summing
<1>12. Total' = Total
  BY <1>1, <1>2, <1>3, <1>10, <1>11, SameTotal
<1>13. ASSUME NEW s \in Parties, Up(s, p)
       PROVE  Has(p, Relative(s))' <=> Has(p, Relative(s))
  <2> DEFINE x == Relative(s)
  <2>1. PICK m \in Levels : m > 0 /\ x > 0 /\ Fewer(m) <= x /\ x < m /\ r = x % Fewer(m)
    BY <1>13 DEF Up
  <2>2. m \in 1..NPlayers /\ Fewer(m) \in 1..NPlayers /\ r < Fewer(m) /\ x \in Nat
    <3>1. m \in 1..NPlayers
      BY <1>2, <1>4, <2>1, LevelFacts
    <3>2. Fewer(m) \in 1..NPlayers /\ x % Fewer(m) \in 0..(Fewer(m) - 1)
      BY <1>2, <2>1, UpFacts
    <3> QED
      BY <1>9, <2>1, <3>1, <3>2
  <2>3. m < n => m <= f
    BY <1>2, <1>4, <2>1, Chain DEF f
  <2>4. n < m => n <= Fewer(m)
    BY <1>2, <1>4, <2>1, Chain
  <2>5. x' = x
    BY <1>9
  <2>6. CASE r >= n
    BY <1>4, <1>10, <1>11, <2>6 DEF Has
  <2>7. CASE f = 0
    <3>1. r < n => x >= n
      BY <1>2, <1>4, <1>5, <2>1, <2>2, <2>7
    <3>2. Has(p, x)
      BY <1>1, <1>10, <3>1, <1>4, <1>9 DEF Has
    <3>3. Has(p, x)'
      BY <1>4, <1>5, <1>7, <2>5, <2>7, <1>9 DEF Has, Summing
    <3> QED
      BY <3>2, <3>3
  <2>8. CASE f # 0 /\ f <= r /\ r < n
    <3>1. x >= n
      BY <1>4, <1>5, <2>1, <2>2, <2>3, <2>4, <2>8 DEF f
    <3>2. Has(p, x)
      BY <1>1, <3>1 DEF Has
    <3>3. Has(p, x)'
      BY <1>4, <1>5, <1>7, <2>8 DEF Has
    <3> QED
      BY <3>2, <3>3
  <2>9. CASE f # 0 /\ r < f
    <3>1. Has(p, x) <=> x >= n
      BY <1>1, <1>4, <1>5, <1>10, <2>9 DEF Has
    <3>2. Has(p, x)' <=> x >= n \/ (x >= f /\ x < r + f)
      BY <1>4, <1>5, <1>7, <1>11, <2>5, <2>9 DEF Has
    <3>3. ASSUME x < n, x >= f PROVE x >= r + f
      <4>1. m = n
        BY <1>4, <1>5, <2>1, <2>2, <2>3, <2>4, <3>3
      <4>2. r = x - (x \div f) * f /\ x \div f \in Nat
        <5>1. Fewer(m) = f
          BY <4>1 DEF f
        <5>2. f \in Nat \ {0} /\ x \in Nat
          BY <2>2, <5>1
        <5>3. x % f = x - (x \div f) * f
          BY <5>2, Modulo
        <5>4. x \div f \in Nat
          BY <5>2, Quotient
        <5> QED
          BY <2>1, <5>1, <5>3, <5>4
      <4> DEFINE d == x \div f
      <4>3. d # 0
        BY <1>4, <1>5, <2>2, <2>9, <3>3, <4>2
      <4> HIDE DEF d
      <4>4. PICK e \in Nat : d = 1 + e
        BY <4>2, <4>3, d = 1 + (d - 1) DEF d
      <4>5. d * f = f + e * f /\ e * f \in Nat
        BY <1>5, <4>4
      <4> QED
        BY <1>4, <1>5, <2>2, <4>2, <4>5 DEF d
    <3> QED
      BY <1>4, <1>5, <2>2, <3>1, <3>2, <3>3
  <2> QED
    BY <1>4, <1>5, <2>6, <2>7, <2>8, <2>9
<1>14. SameAt(p)
  <2>1. Summer(p)' <=> Summer(p)
    BY <1>1, <1>12 DEF Summer
  <2>2. \A s \in Parties : Up(s, p) => (Taken(s, p)' <=> Taken(s, p))
    BY <1>13, <2>1 DEF Taken
  <2>3. \A s \in Parties : Told(p, s)' <=> Told(p, s)
    BY <1>1, <1>7, <2>1 DEF Told
  <2>4. (Got(p)' <=> Got(p)) /\ (Sent(p)' <=> Sent(p))
    BY <1>1, <1>7, <1>10, <1>11, <2>1 DEF Got, Sent
  <2> QED
    BY <1>10, <1>11, <2>1, <2>2, <2>3, <2>4 DEF SameAt
<1>15. Place(p)'
  <2>1. Levels' = Levels /\ UNCHANGED <<opening_sum, max_broadcast, base_player>> /\ Relative(p)' = r
    BY <1>2 DEF Fixed
  <2>2. CASE f = 0
    BY <1>4, <1>6, <1>7, <2>1, <2>2 DEF Place
  <2>3. CASE f # 0 /\ r < f
    <3>1. (r + f) % f = r /\ f <= r + f
      BY <1>4, <1>5, <2>3
    <3>2. n \in Levels /\ n > 0 /\ f > 0 /\ f = Fewer(n)
      BY <1>4, <1>5, <2>3 DEF f
    <3> QED
      BY <1>7, <2>1, <2>3, <3>1, <3>2 DEF Place, Fewer
  <2>4. CASE f # 0 /\ f <= r /\ r < n
    <3>1. pc'[p] = "send"
      BY <1>4, <1>5, <1>7, <2>4
    <3>2. n \in Levels /\ n > 0 /\ f > 0 /\ f = Fewer(n)
      BY <1>4, <1>5, <2>4 DEF f
    <3> QED
      BY <1>7, <2>1, <2>4, <3>1, <3>2 DEF Place, Fewer
  <2>5. CASE f # 0 /\ n <= r
    <3>1. pc'[p] = "round" /\ f \in Levels /\ f > 0
      BY <1>4, <1>5, <1>7, <2>5
    <3>2. p # base_player
      BY <1>2, <1>4, <2>5 DEF Trees
    <3> QED
      BY <1>7, <2>1, <3>1, <3>2 DEF Place
  <2> QED
    BY <1>4, <1>5, <2>2, <2>3, <2>4, <2>5
<1>16. {pc[p], pc'[p]} \intersect {"idle", "broadcast"} = {}
  BY <1>1, <1>7
<1> QED
  BY <1>1, <1>2, <1>3, <1>8, <1>12, <1>14, <1>15, <1>16, UnseenStep

-----------------------------------------------------------------------------
(* Steps that others see.                                                  *)

LEMMA SameAtOthers ==
    ASSUME IInv, NEW p \in Parties, Frame(p), Fixed, Total' = Total
    PROVE  \A q \in Parties \ {p} : SameAt(q) /\ Place(q)'
  BY SameElsewhere DEF IInv, Places

\* A party that begins has no share yet, and others see no difference.
LEMMA BeginStep ==
    ASSUME IInv, NEW p \in Parties, Begin(p), UNCHANGED settings
    PROVE  IInv'
<1>1. /\ pc[p] = "idle" /\ runs[p] < NRuns
      /\ runs' = [runs EXCEPT ![p] = @ + 1]
      /\ values' = [values EXCEPT ![p] = Own(p, runs[p] + 1)]
      /\ sum_players' = [sum_players EXCEPT ![p] = NPlayers]
      /\ pc' = [pc EXCEPT ![p] = "round"]
      /\ UNCHANGED <<last_sum_players, peer, chan, results>>
  BY DEF Begin, Goto
<1>2. SettingsOK' /\ Fixed /\ Trees /\ SettingsOK
  BY TreesStay, TreesHold DEF IInv
<1>3. Frame(p)
  BY StepFrame DEF IInv, Acts
<1>4. /\ runs[p] \in 0..NRuns /\ NRuns \in Nat /\ NPlayers \in Nat \ {0} /\ runs[p] + 1 \in 1..NRuns
      /\ Relative(p) \in 0..(NPlayers - 1) /\ Relative(p)' = Relative(p)
  BY <1>1, <1>2, TreeSumAssumption DEF IInv, Types, Trees, Fixed
<1> DEFINE c0 == <<runs[p] + 1, p>>
<1>5. Own(p, runs[p] + 1) \in Sums /\ c0 \in Contributions
  BY <1>4 DEF Own, Zero, Sums, Contributions
<1>6. /\ pc'[p] = "round" /\ runs'[p] = runs[p] + 1 /\ values'[p] = Own(p, runs[p] + 1)
      /\ sum_players'[p] = NPlayers
  BY <1>1 DEF IInv, Types
<1>7. Types'
  BY <1>1, <1>4, <1>5 DEF IInv, Types
<1>8. ~Summing(p) /\ Summing(p)'
  BY <1>1, <1>4, <1>6 DEF Summing
<1>9. ~Summer(p) /\ runs[p] = Total /\ Total \in Nat
  BY <1>1, <1>4 DEF IInv, InStep, Summer
<1>10. Total' = Total
  <2>1. CASE p # base_player
    BY <1>2, <1>3, <2>1, SameTotal
  <2>2. CASE p = base_player
    <3>1. Total = runs[p]
      BY <1>9
    <3>2. base_player' = p
      BY <1>2, <2>2 DEF Fixed
    <3>3. Summing(base_player)'
      BY <1>4, <1>6, <1>8, <3>2 DEF Summing, Relative
    <3>4. Total' = runs'[base_player'] - 1
      BY <3>3 DEF Total
    <3> QED
      BY <1>4, <1>6, <3>1, <3>2, <3>4
  <2> QED
    BY <2>1, <2>2
<1>11. Summer(p)'
  BY <1>6, <1>9, <1>10 DEF Summer
<1>12. \A q \in Parties \ {p} : SameAt(q) /\ Place(q)'
  BY <1>2, <1>3, <1>10, SameAtOthers
<1>13. Places'
  <2>1. NPlayers \in Levels /\ NPlayers > 0 /\ Levels' = Levels
    BY <1>2, <1>4, LevelFacts DEF Fixed
  <2>2. Place(p)'
    BY <1>6, <1>8, <2>1 DEF Place
  <2> QED
    BY <1>12, <2>2 DEF Places
<1>14. InStep'
  <2>1. ASSUME NEW q \in Parties \ {p}
        PROVE  /\ runs'[q] \in {Total', Total' + 1} /\ (Summing(q)' => Summer(q)')
               /\ pc'[q] \in {"idle", "broadcast"} => ~Summer(q)'
    BY <1>3, <1>10, <1>12 DEF IInv, InStep, SameAt, Frame
  <2> QED
    BY <1>6, <1>9, <1>10, <1>11, <2>1 DEF InStep
<1>15. Channels'
  <2>1. ~Sent(p) /\ ~Sent(p)' /\ Got(p) /\ Got(p)'
    BY <1>1, <1>8, <1>9, <1>11 DEF Sent, Got
  <2>2. ASSUME NEW s \in Parties
        PROVE  ~Taken(s, p) /\ ~Taken(s, p)' /\ Told(p, s) /\ Told(p, s)'
    <3>1. Relative(s) \in 0..(NPlayers - 1) /\ Relative(s)' = Relative(s)
      BY <1>2 DEF Trees, Fixed
    <3>2. ~Has(p, Relative(s))'
      BY <1>4, <1>6, <1>8, <3>1 DEF Has
    <3> QED
      BY <1>1, <1>9, <1>11, <3>2 DEF Taken, Told
  <2>3. ASSUME NEW s \in Parties, NEW t \in Parties
        PROVE  (Up(s, t) => UpSame(s, t)) /\ (Down(s, t) => DownSame(s, t))
    BY <1>12, <2>1, <2>2 DEF SameAt, UpSame, DownSame
  <2> QED
    BY <1>1, <1>2, <2>3, SameEdge DEF Channels, IInv
<1>16. Shares'
  <2>1. Share(p) = Zero
    <3>1. Relative(p) > 0 => chan[p][Parent(p)] = <<>>
      BY <1>2, <1>9 DEF IInv, Channels, Edge, Sent, Trees
    <3> QED
      BY <1>8, <3>1 DEF Share
  <2>2. Share(p)' = Own(p, runs[p] + 1)
    BY <1>6, <1>8 DEF Share
  <2>3. ASSUME NEW q \in Parties \ {p} PROVE Share(q)' = Share(q) /\ (Summer(q)' <=> Summer(q))
    BY <1>1, <1>2, <1>3, <1>12, SameShare DEF SameAt, Frame
  <2>4. ASSUME NEW c \in Contributions
        PROVE  /\ Zero[c] = 0
               /\ Own(p, runs[p] + 1)[c] = IF c = c0 THEN 1 ELSE 0
    BY <1>5 DEF Zero, Own
  <2>5. c0[1] = Total + 1 /\ c0[2] = p /\ c0 = <<Total + 1, p>>
    BY <1>9
  <2> HIDE DEF c0
  <2>6. \A q \in Parties : Share(q)' \in Sums
    BY <1>5, <2>2, <2>3 DEF IInv, Shares
  <2>7. ASSUME NEW q \in Parties, NEW c \in Contributions, Share(q)'[c] # 0
        PROVE  Share(q)'[c] = 1 /\ c[1] = Total' + 1 /\ Summer(c[2])'
    <3>1. CASE q = p
      <4>1. c = c0
        BY <2>2, <2>4, <2>7, <3>1
      <4> QED
        BY <1>10, <1>11, <2>2, <2>4, <2>5, <3>1, <4>1
    <3>2. CASE q # p
      <4>1. Share(q)[c] = 1 /\ c[1] = Total + 1 /\ Summer(c[2]) /\ c[2] \in Parties
        BY <2>3, <2>7, <3>2 DEF IInv, Shares, Contributions
      <4>2. c[2] # p
        BY <1>9, <4>1
      <4> QED
        BY <1>10, <2>3, <3>2, <4>1, <4>2
    <3> QED
      BY <3>1, <3>2
  <2>8. ASSUME NEW q \in Parties \ {p}, NEW c \in Contributions, Share(q)'[c] # 0, Share(p)'[c] # 0
        PROVE  FALSE
    <3>1. c = c0
      BY <2>2, <2>4, <2>8
    <3>2. Summer(c[2])
      BY <2>3, <2>8 DEF IInv, Shares
    <3> QED
      BY <1>9, <2>5, <3>1, <3>2
  <2>9. ASSUME NEW q \in Parties, NEW t \in Parties, NEW c \in Contributions,
               Share(q)'[c] # 0, Share(t)'[c] # 0
        PROVE  q = t
    <3>1. q # p /\ t # p => q = t
      BY <2>3, <2>9 DEF IInv, Shares
    <3> QED
      BY <2>8, <2>9, <3>1
  <2>10. ASSUME NEW x \in Parties, Summer(x)'
         PROVE  \E q \in Parties : Share(q)'[<<Total' + 1, x>>] # 0
    <3>1. CASE x = p
      BY <1>5, <1>10, <2>2, <2>4, <2>5, <3>1
    <3>2. CASE x # p
      <4>1. PICK q \in Parties : Share(q)[<<Total + 1, x>>] # 0
        BY <2>3, <2>10, <3>2 DEF IInv, Shares
      <4>2. <<Total + 1, x>> \in Contributions
        BY <1>4, <1>9 DEF Contributions
      <4>3. q # p
        BY <2>1, <2>4, <4>1, <4>2
      <4> QED
        BY <1>10, <2>3, <4>1, <4>3
    <3> QED
      BY <3>1, <3>2
  <2> QED
    BY <2>6, <2>7, <2>9, <2>10 DEF Shares
<1>17. Complete'
  <2>1. \A q \in Parties : pc'[q] = "broadcast" => pc[q] = "broadcast" /\ values'[q] = values[q]
    BY <1>3, <1>6 DEF Frame
  <2> QED
    BY <1>1, <1>2, <1>10, <2>1, SameTotals DEF IInv
<1>18. Results'
  <2>1. ASSUME NEW q \in Parties
        PROVE  Len(results'[q]) = runs'[q] - (IF pc'[q] = "idle" THEN 0 ELSE 1)
    <3>1. CASE q = p
      BY <1>1, <1>4, <1>6, <3>1 DEF IInv, Results
    <3>2. CASE q # p
      BY <1>3, <3>2 DEF IInv, Results, Frame
    <3> QED
      BY <3>1, <3>2
  <2>2. \A i : AllOf(i)' = AllOf(i)
    BY DEF AllOf
  <2> QED
    BY <1>1, <2>1, <2>2 DEF IInv, Results
<1> QED
  BY <1>2, <1>7, <1>13, <1>14, <1>15, <1>16, <1>17, <1>18 DEF IInv

\* Two numbers with the same remainder are not less than the divisor apart.
LEMMA Residue ==
    ASSUME NEW x \in Nat, NEW k \in Nat, NEW n \in Nat \ {0}, x % n = k % n, k <= x, x < k + n
    PROVE  x = k
<1> DEFINE a == x \div n
           b == k \div n
<1>1. a \in Nat /\ x % n = x - a * n
  BY Quotient, Modulo
<1>2. b \in Nat /\ k % n = k - b * n
  BY Quotient, Modulo
<1> HIDE DEF a, b
<1>3. a * n \in Nat /\ b * n \in Nat
  BY <1>1, <1>2
<1>4. x - k = a * n - b * n
  BY <1>1, <1>2, <1>3
<1>5. a * n - b * n = (a - b) * n
  BY <1>1, <1>2
<1>6. CASE a = b
  BY <1>3, <1>4, <1>6
<1>7. CASE a < b
  <2>1. PICK e \in Nat : b = a + 1 + e
    BY <1>1, <1>2, <1>7, b = a + 1 + (b - a - 1)
  <2>2. b * n = a * n + n + e * n /\ e * n \in Nat
    BY <1>1, <2>1
  <2> QED
    BY <1>3, <1>4, <2>2
<1>8. CASE a > b
  <2>1. PICK e \in Nat : a = b + 1 + e
    BY <1>1, <1>2, <1>8, a = b + 1 + (a - b - 1)
  <2>2. a * n = b * n + n + e * n /\ e * n \in Nat
    BY <1>2, <2>1
  <2> QED
    BY <1>3, <1>4, <2>2
<1> QED
  BY <1>1, <1>2, <1>6, <1>7, <1>8

LEMMA NextModulo ==
    ASSUME NEW k \in Nat, NEW n \in Nat \ {0}
    PROVE  (k + n) % n = k % n
<1>0. PICK w \in Nat : w = k + n
  OBVIOUS
<1> DEFINE a == w \div n
           b == k \div n
           y == w % n
           z == k % n
<1>1. a \in Nat /\ y \in 0..(n - 1) /\ y = w - a * n
  BY Quotient, Modulo
<1>2. b \in Nat /\ z \in 0..(n - 1) /\ z = k - b * n
  BY Quotient, Modulo
<1> HIDE DEF a, b, y, z
<1>3. PICK e \in Int : a = b + 1 + e
  BY <1>1, <1>2, a = b + 1 + (a - b - 1)
<1>4. a * n = b * n + n + e * n /\ b * n \in Nat /\ e * n \in Int
  BY <1>2, <1>3
<1>5. z - y = e * n
  BY <1>0, <1>1, <1>2, <1>4
<1>6. CASE e = 0
  <2>1. y = z
    BY <1>1, <1>2, <1>5, <1>6
  <2> QED
    BY <1>0, <2>1 DEF y, z
<1>7. CASE e > 0
  <2>1. PICK d \in Nat : e = 1 + d
    BY <1>3, <1>7, e = 1 + (e - 1)
  <2>2. e * n = n + d * n /\ d * n \in Nat
    BY <2>1
  <2> QED
    BY <1>1, <1>2, <1>5, <2>2
<1>8. CASE e < 0
  <2>1. PICK d \in Nat : e = 0 - 1 - d
    BY <1>3, <1>8, e = 0 - 1 - (0 - 1 - e)
  <2>2. e * n = 0 - n - d * n /\ d * n \in Nat
    BY <2>1
  <2> QED
    BY <1>1, <1>2, <1>5, <2>2
<1> QED
  BY <1>3, <1>6, <1>7, <1>8

LEMMA TotalFacts ==
    ASSUME IInv
    PROVE  /\ Total \in Int
           /\ \A x \in Parties : Summer(x) => Total \in Nat /\ <<Total + 1, x>> \in Contributions
<1>1. NRuns \in Nat /\ \A x \in Parties : runs[x] \in 0..NRuns
  BY TreeSumAssumption DEF IInv, Types
<1>2. Total \in Int
  <2>1. runs[base_player] \in 0..NRuns
    BY <1>1 DEF IInv, SettingsOK
  <2> QED
    BY <1>1, <2>1 DEF Total
<1>3. ASSUME NEW x \in Parties, Summer(x)
      PROVE  Total \in Nat /\ <<Total + 1, x>> \in Contributions
  <2>1. runs[x] = Total + 1
    BY <1>3 DEF Summer
  <2>2. pc[x] # "idle"
    BY <1>3 DEF IInv, InStep
  <2>3. Len(results[x]) \in Nat /\ Len(results[x]) = runs[x] - 1
    BY <2>2 DEF IInv, Types, Results
  <2>4. Total \in Nat /\ Total + 1 \in 1..NRuns
    BY <1>1, <1>2, <2>1, <2>3
  <2> QED
    BY <2>4 DEF Contributions
<1> QED
  BY <1>2, <1>3

\* A party that sends its share up keeps it, as the message.
LEMMA SendUpStep ==
    ASSUME IInv, NEW p \in Parties, SendUp(p), UNCHANGED settings
    PROVE  IInv'
<1> DEFINE r == Relative(p)
           n == sum_players[p]
           l == last_sum_players[p]
           q0 == Player(r % n)
<1>1. /\ pc[p] = "send"
      /\ chan' = [chan EXCEPT ![p][q0] = Append(@, values[p])]
      /\ pc' = [pc EXCEPT ![p] = "round"]
      /\ UNCHANGED <<runs, values, sum_players, last_sum_players, peer, results>>
  BY DEF SendUp, Send, Goto
<1>2. SettingsOK' /\ Fixed /\ Trees /\ SettingsOK
  BY TreesStay, TreesHold DEF IInv
<1>3. Frame(p)
  BY StepFrame DEF IInv, Acts
<1>4. /\ l \in Levels /\ l \in 1..NPlayers /\ n = Fewer(l) /\ n \in 1..NPlayers /\ n \in Levels
      /\ n <= r /\ r < l /\ r \in 1..(NPlayers - 1) /\ NPlayers \in Nat
  <2>1. l \in Levels /\ l > 0 /\ n = Fewer(l) /\ n > 0 /\ n <= r /\ r < l
    BY <1>1 DEF IInv, Places, Place
  <2>2. n \in 0..NPlayers /\ l \in 0..NPlayers /\ NPlayers \in Nat /\ r \in 0..(NPlayers - 1)
    BY <1>2, TreeSumAssumption DEF IInv, Types, Trees
  <2>3. n \in Levels
    BY <1>2, <2>1, LevelFacts
  <2> QED
    BY <2>1, <2>2, <2>3
<1>5. PICK q \in Parties : q = q0 /\ Up(p, q) /\ q = Parent(p) /\ ~Down(p, q) /\ q # p
  <2>1. r % n \in 0..(NPlayers - 1)
    <3>1. r \in Nat /\ n \in Nat \ {0}
      BY <1>4
    <3>2. r % n \in 0..(n - 1)
      BY <3>1, Modulo
    <3> HIDE DEF r, n
    <3> QED
      BY <1>4, <3>2
  <2>2. q0 \in Parties /\ Relative(q0) = r % n
    BY <1>2, <2>1, PlayerAt
  <2>3. Up(p, q0)
    BY <1>4, <2>2 DEF Up
  <2>4. q0 = Parent(p) /\ Relative(q0) < r /\ Relative(q0) \in 0..(NPlayers - 1)
    BY <1>2, <2>2, <2>3 DEF Trees
  <2>5. ~Down(p, q0) /\ q0 # p
    BY <1>2, <1>4, <2>2, <2>4 DEF Trees
  <2> QED
    BY <2>2, <2>3, <2>4, <2>5
<1> HIDE DEF q0
<1>6. pc'[p] = "round"
  BY <1>1 DEF IInv, Types
<1>7. Summing(p) /\ ~Summing(p)'
  <2>1. Relative(p)' = r /\ sum_players'[p] = n
    BY <1>1, <1>2 DEF Fixed
  <2> QED
    BY <1>1, <1>4, <1>6, <2>1 DEF Summing
<1>8. Total' = Total
  <2>1. p # base_player
    BY <1>2, <1>4 DEF Trees
  <2> QED
    BY <1>2, <1>3, <2>1, SameTotal
<1>9. Summer(p) /\ Summer(p)'
  <2>1. Summer(p)
    BY <1>7 DEF IInv, InStep
  <2> QED
    BY <1>1, <1>8, <2>1 DEF Summer
<1>10. ~Sent(p) /\ Sent(p)' /\ Got(p) /\ Got(p)'
  BY <1>7, <1>9 DEF Sent, Got
<1>11. \A s \in Parties : Taken(s, p) /\ Taken(s, p)' /\ Told(p, s) /\ Told(p, s)'
  BY <1>1, <1>7, <1>9 DEF Taken, Has, Told
<1>12. \A s \in Parties \ {p} : SameAt(s) /\ Place(s)'
  BY <1>2, <1>3, <1>8, SameAtOthers
<1>13. /\ chan[p][q] = <<>> /\ chan'[p][q] = <<values[p]>> /\ values[p] \in Sums
       /\ \A s, t \in Parties : s # p \/ t # q => chan'[s][t] = chan[s][t]
  <2>1. Edge(p, q)
    BY <1>5 DEF IInv, Channels
  <2>2. chan[p][q] = <<>>
    BY <1>5, <1>10, <2>1 DEF Edge
  <2>3. values[p] \in Sums /\ chan \in [Parties -> [Parties -> Seq(Sums)]]
    BY DEF IInv, Types
  <2>4. Append(chan[p][q], values[p]) = <<values[p]>>
    BY <2>2, <2>3
  <2> QED
    BY <1>1, <1>5, <2>2, <2>3, <2>4
<1>14. Types'
  <2>1. chan' \in [Parties -> [Parties -> Seq(Sums)]]
    <3>1. chan \in [Parties -> [Parties -> Seq(Sums)]] /\ Append(chan[p][q], values[p]) \in Seq(Sums)
      BY <1>5, <1>13 DEF IInv, Types
    <3> QED
      BY <1>1, <1>5, <3>1
  <2> QED
    BY <1>1, <2>1 DEF IInv, Types
<1>15. Places'
  <2>1. Relative(p)' = r /\ sum_players'[p] = n /\ Levels' = Levels /\ p # base_player
        /\ base_player' = base_player
    BY <1>1, <1>2, <1>4 DEF Fixed, Trees
  <2>2. n > 0
    BY <1>4
  <2>3. Place(p)'
    BY <1>4, <1>6, <2>1, <2>2 DEF Place
  <2> QED
    BY <1>12, <2>3 DEF Places
<1>16. InStep'
  <2>1. ASSUME NEW s \in Parties \ {p}
        PROVE  /\ runs'[s] \in {Total', Total' + 1} /\ (Summing(s)' => Summer(s)')
               /\ pc'[s] \in {"idle", "broadcast"} => ~Summer(s)'
    BY <1>3, <1>8, <1>12 DEF IInv, InStep, SameAt, Frame
  <2>2. runs'[p] \in {Total', Total' + 1}
    BY <1>1, <1>8 DEF IInv, InStep
  <2> QED
    BY <1>6, <1>9, <2>1, <2>2 DEF InStep
<1>17. Channels'
  <2>1. Edge(p, q)'
    <3>1. (Up(p, q)' <=> Up(p, q)) /\ (Down(p, q)' <=> Down(p, q))
      BY <1>2, <1>5 DEF Fixed
    <3>2. ~Taken(p, q)
      BY <1>5, <1>10 DEF IInv, Channels, Edge
    <3>3. ~Taken(p, q)'
      BY <1>5, <1>12, <3>2 DEF SameAt
    <3>4. Box(chan'[p][q]) /\ chan'[p][q] # <<>>
      BY <1>13 DEF Box
    <3> QED
      BY <1>5, <1>10, <3>1, <3>3, <3>4 DEF Edge, Box
  <2>2. ASSUME NEW s \in Parties, NEW t \in Parties, s # p \/ t # q
        PROVE  (Up(s, t) => UpSame(s, t)) /\ (Down(s, t) => DownSame(s, t))
    <3>1. Up(s, t) => s # p
      BY <1>2, <1>5, <2>2 DEF Trees
    <3>2. Up(s, t) => UpSame(s, t)
      BY <1>11, <1>12, <3>1 DEF SameAt, UpSame
    <3>3. Down(s, t) => DownSame(s, t)
      BY <1>10, <1>11, <1>12 DEF SameAt, DownSame
    <3> QED
      BY <3>2, <3>3
  <2>3. ASSUME NEW s \in Parties, NEW t \in Parties, s # p \/ t # q
        PROVE  Edge(s, t)'
    <3>1. Edge(s, t) /\ chan'[s][t] = chan[s][t]
      BY <1>13, <2>3 DEF IInv, Channels
    <3>2. (Up(s, t) => UpSame(s, t)) /\ (Down(s, t) => DownSame(s, t))
      BY <2>2, <2>3
    <3> QED
      BY <1>2, <3>1, <3>2, SameEdge
  <2>4. ASSUME NEW s \in Parties, NEW t \in Parties
        PROVE  Edge(s, t)'
    BY <2>1, <2>3
  <2> QED
    BY <2>4 DEF Channels
<1>18. Shares'
  <2>1. Share(p) = values[p]
    BY <1>7 DEF Share
  <2>2. Share(p)' = values[p]
    <3>1. Relative(p)' > 0 /\ Parent(p)' = q
      BY <1>2, <1>4, <1>5 DEF Fixed
    <3>2. chan'[p][q] # <<>> /\ Head(chan'[p][q]) = values[p]
      BY <1>13
    <3> QED
      BY <1>7, <3>1, <3>2 DEF Share
  <2>3. ASSUME NEW s \in Parties \ {p} PROVE Share(s)' = Share(s)
    <3>1. Relative(s) > 0 => Parent(s) \in Parties
      BY <1>2 DEF Trees
    <3> QED
      BY <1>1, <1>2, <1>12, <1>13, <3>1, SameShare DEF SameAt
  <2> QED
    BY <1>8, <1>9, <1>12, <2>1, <2>2, <2>3, SameShares DEF IInv, SameAt
<1>19. Complete'
  <2>1. \A s \in Parties : pc'[s] = "broadcast" => pc[s] = "broadcast" /\ values'[s] = values[s]
    BY <1>1, <1>3, <1>6 DEF Frame
  <2>2. \A s, t \in Parties : Down(s, t) => chan'[s][t] \in {chan[s][t], <<>>}
    BY <1>5, <1>13
  <2> QED
    BY <1>2, <1>8, <2>1, <2>2, SameTotals DEF IInv
<1>20. Results'
  <2>1. \A s \in Parties : pc'[s] = "idle" <=> pc[s] = "idle"
    BY <1>1, <1>3, <1>6 DEF Frame
  <2> QED
    BY <1>1, <2>1, SameResults DEF IInv
<1> QED
  BY <1>2, <1>14, <1>15, <1>16, <1>17, <1>18, <1>19, <1>20 DEF IInv

\* A party that takes the share of another party has both.
LEMMA AddOneStep ==
    ASSUME IInv, NEW p \in Parties, AddOne(p), UNCHANGED settings
    PROVE  IInv'
<1> DEFINE r == Relative(p)
           n == sum_players[p]
           l == last_sum_players[p]
           k == peer[p]
           q0 == Player(k)
<1>1. /\ pc[p] = "add" /\ k < l
      /\ chan[q0][p] # <<>>
      /\ chan' = [chan EXCEPT ![q0][p] = Tail(@)]
      /\ values' = [values EXCEPT ![p] = Plus(@, Head(chan[q0][p]))]
      /\ peer' = [peer EXCEPT ![p] = @ + n]
      /\ UNCHANGED <<pc, runs, sum_players, last_sum_players, results>>
  BY DEF AddOne, Receive
<1>2. SettingsOK' /\ Fixed /\ Trees /\ SettingsOK
  BY TreesStay, TreesHold DEF IInv
<1>3. Frame(p)
  BY StepFrame DEF IInv, Acts
<1>4. /\ l \in Levels /\ l \in 1..NPlayers /\ n = Fewer(l) /\ n \in 1..NPlayers
      /\ r \in 0..(n - 1) /\ k \in Nat /\ n <= k /\ k % n = r /\ NPlayers \in Nat
  <2>1. l \in Levels /\ l > 0 /\ n = Fewer(l) /\ n > 0 /\ r < n /\ n <= k /\ k % n = r
    BY <1>1 DEF IInv, Places, Place
  <2>2. /\ n \in 0..NPlayers /\ l \in 0..NPlayers /\ NPlayers \in Nat /\ r \in 0..(NPlayers - 1)
        /\ k \in Nat
    BY <1>2, TreeSumAssumption DEF IInv, Types, Trees
  <2> HIDE DEF r, n, l, k
  <2> QED
    BY <2>1, <2>2
<1>5. PICK q \in Parties : /\ q = q0 /\ Relative(q) = k /\ Up(q, p) /\ p = Parent(q)
                           /\ ~Down(q, p) /\ q # p
  <2>1. k \in 0..(NPlayers - 1) /\ k > 0
    BY <1>1, <1>4
  <2>2. q0 \in Parties /\ Relative(q0) = k
    BY <1>2, <2>1, PlayerAt
  <2>3. Up(q0, p)
    BY <1>1, <1>4, <2>1, <2>2 DEF Up
  <2>4. p = Parent(q0) /\ r < k
    BY <1>2, <2>2, <2>3 DEF Trees
  <2>5. ~Down(q0, p) /\ q0 # p
    BY <1>2, <1>4, <2>2, <2>4 DEF Trees
  <2> QED
    BY <2>2, <2>3, <2>4, <2>5
<1> HIDE DEF q0
<1>6. /\ Edge(q, p) /\ Sent(q) /\ ~Taken(q, p)
      /\ \E v \in Sums : chan[q][p] = <<v>>
  <2>1. Edge(q, p)
    BY DEF IInv, Channels
  <2> QED
    BY <1>1, <1>5, <2>1 DEF Edge, Box
<1>7. PICK m \in Sums : chan[q][p] = <<m>>
  BY <1>6
<1> DEFINE v == values[p]
<1>8. /\ v \in Sums /\ Plus(v, m) \in Sums /\ values'[p] = Plus(v, m)
      /\ chan'[q][p] = <<>>
      /\ \A s, t \in Parties : s # q \/ t # p => chan'[s][t] = chan[s][t]
      /\ peer'[p] = k + n
  <2>1. chan \in [Parties -> [Parties -> Seq(Sums)]] /\ v \in Sums /\ values \in [Parties -> Sums]
        /\ peer \in [Parties -> Nat]
    BY DEF IInv, Types
  <2>2. Plus(v, m) \in Sums
    BY <2>1 DEF Plus, Sums
  <2>3. Tail(chan[q][p]) = <<>> /\ Head(chan[q][p]) = m
    BY <1>7
  <2>4. values'[p] = Plus(v, m)
    BY <1>1, <1>5, <2>1, <2>3
  <2> QED
    BY <1>1, <1>5, <2>1, <2>2, <2>3, <2>4
<1>9. Types'
  <2>1. chan' \in [Parties -> [Parties -> Seq(Sums)]]
    <3>1. chan \in [Parties -> [Parties -> Seq(Sums)]] /\ Tail(chan[q][p]) \in Seq(Sums)
      BY <1>7 DEF IInv, Types
    <3> QED
      BY <1>1, <1>5, <3>1
  <2>2. values' \in [Parties -> Sums]
    BY <1>1, <1>8 DEF IInv, Types
  <2>3. peer' \in [Parties -> Nat]
    <3>1. k + n \in Nat
      BY <1>4
    <3> QED
      BY <1>1, <3>1 DEF IInv, Types
  <2> QED
    BY <1>1, <2>1, <2>2, <2>3 DEF IInv, Types
<1>10. Summing(p) /\ Summing(p)'
  BY <1>1 DEF Summing
<1>11. Total' = Total
  BY <1>1, <1>2, <1>3, <1>10, SameTotal
<1>12. Summer(p) /\ Summer(p)'
  <2>1. Summer(p)
    BY <1>10 DEF IInv, InStep
  <2> QED
    BY <1>1, <1>11, <2>1 DEF Summer
<1>13. ~Sent(p) /\ ~Sent(p)' /\ Got(p) /\ Got(p)' /\ \A s \in Parties : Told(p, s) /\ Told(p, s)'
  BY <1>10, <1>12 DEF Sent, Got, Told
<1>14. \A s \in Parties : /\ Relative(s)' = Relative(s) /\ Relative(s) \in 0..(NPlayers - 1)
                          /\ Relative(s) = k => s = q
  BY <1>2, <1>5 DEF Fixed, Trees
<1>15. ASSUME NEW s \in Parties
       PROVE  /\ Has(p, Relative(s)) <=> Relative(s) >= l \/ (Relative(s) >= n /\ Relative(s) < k)
              /\ Has(p, Relative(s))' <=> Relative(s) >= l \/ (Relative(s) >= n /\ Relative(s) < k + n)
  BY <1>1, <1>8, <1>10, <1>14 DEF Has
<1>16. Taken(q, p)'
  <2>1. Has(p, Relative(q))'
    BY <1>4, <1>5, <1>15
  <2> QED
    BY <1>12, <2>1 DEF Taken
<1>17. ASSUME NEW s \in Parties \ {q}, Up(s, p)
       PROVE  Taken(s, p)' <=> Taken(s, p)
  <2> DEFINE x == Relative(s)
  <2>1. PICK a \in Levels : a > 0 /\ x > 0 /\ Fewer(a) <= x /\ x < a /\ r = x % Fewer(a)
    BY <1>17 DEF Up
  <2>2. ASSUME x < l, x >= n, x >= k, x < k + n PROVE FALSE
    <3>1. a = l
      BY <1>2, <1>4, <1>14, <2>1, <2>2, LevelUnique
    <3>2. x % n = k % n
      BY <1>4, <2>1, <3>1
    <3>3. x \in Nat /\ n \in Nat \ {0} /\ k \in Nat
      BY <1>4, <1>14
    <3> HIDE DEF x, n, k
    <3>4. x = k
      BY <2>2, <3>2, <3>3, Residue
    <3> QED
      BY <1>14, <3>4 DEF x, k
  <2>3. Has(p, x)' <=> Has(p, x)
    BY <1>4, <1>14, <1>15, <2>2
  <2> QED
    BY <1>12, <2>3 DEF Taken
<1>18. \A s \in Parties \ {p} : SameAt(s) /\ Place(s)'
  BY <1>2, <1>3, <1>11, SameAtOthers
<1>19. Places'
  <2>1. /\ Relative(p)' = r /\ Levels' = Levels
        /\ UNCHANGED <<opening_sum, max_broadcast, base_player>>
    BY <1>2 DEF Fixed
  <2>2. (k + n) % n = r /\ n <= k + n
    <3>1. (k + n) % n = k % n
      <4>1. k \in Nat /\ n \in Nat \ {0}
        BY <1>4
      <4> HIDE DEF k, n
      <4> QED
        BY <4>1, NextModulo
    <3> QED
      BY <1>4, <3>1
  <2>3. Place(p)'
    BY <1>1, <1>4, <1>8, <2>1, <2>2 DEF Place, Fewer
  <2> QED
    BY <1>18, <2>3 DEF Places
<1>20. InStep'
  <2>1. ASSUME NEW s \in Parties \ {p}
        PROVE  /\ runs'[s] \in {Total', Total' + 1} /\ (Summing(s)' => Summer(s)')
               /\ pc'[s] \in {"idle", "broadcast"} => ~Summer(s)'
    BY <1>3, <1>11, <1>18 DEF IInv, InStep, SameAt, Frame
  <2>2. runs'[p] \in {Total', Total' + 1}
    BY <1>1, <1>11 DEF IInv, InStep
  <2> QED
    BY <1>1, <1>12, <2>1, <2>2 DEF InStep
<1>21. Channels'
  <2>1. Edge(q, p)'
    <3>1. (Up(q, p)' <=> Up(q, p)) /\ (Down(q, p)' <=> Down(q, p))
      BY <1>2 DEF Fixed
    <3>2. Sent(q)'
      BY <1>5, <1>6, <1>18 DEF SameAt
    <3>3. Box(chan'[q][p]) /\ chan'[q][p] = <<>>
      BY <1>8 DEF Box
    <3> QED
      BY <1>5, <1>16, <3>1, <3>2, <3>3 DEF Edge, Box
  <2>2. ASSUME NEW s \in Parties, NEW t \in Parties, s # q \/ t # p
        PROVE  (Up(s, t) => UpSame(s, t)) /\ (Down(s, t) => DownSame(s, t))
    <3>1. Up(s, t) => (Sent(s)' <=> Sent(s))
      BY <1>13, <1>18 DEF SameAt
    <3>2. Up(s, t) => (Taken(s, t)' <=> Taken(s, t))
      BY <1>17, <1>18, <2>2 DEF SameAt
    <3>3. Down(s, t) => DownSame(s, t)
      BY <1>13, <1>18 DEF SameAt, DownSame
    <3> QED
      BY <3>1, <3>2, <3>3 DEF UpSame
  <2>3. ASSUME NEW s \in Parties, NEW t \in Parties, s # q \/ t # p
        PROVE  Edge(s, t)'
    <3>1. Edge(s, t) /\ chan'[s][t] = chan[s][t]
      BY <1>8, <2>3 DEF IInv, Channels
    <3>2. (Up(s, t) => UpSame(s, t)) /\ (Down(s, t) => DownSame(s, t))
      BY <2>2, <2>3
    <3> QED
      BY <1>2, <3>1, <3>2, SameEdge
  <2>4. ASSUME NEW s \in Parties, NEW t \in Parties
        PROVE  Edge(s, t)'
    BY <2>1, <2>3
  <2> QED
    BY <2>4 DEF Channels
<1>22. /\ Share(p) = v /\ Share(p)' = Plus(v, m)
       /\ Share(q) = m /\ Share(q)' = Zero
       /\ \A s \in Parties \ {p, q} : Share(s)' = Share(s)
  <2>1. Share(p) = v /\ Share(p)' = Plus(v, m)
    BY <1>8, <1>10 DEF Share
  <2>2. Relative(q) > 0 /\ ~Summing(q) /\ ~Summing(q)'
    BY <1>4, <1>5, <1>6, <1>18 DEF Sent, SameAt
  <2>3. Share(q) = m
    BY <1>5, <1>7, <2>2 DEF Share
  <2>4. Parent(q)' = p
    BY <1>2, <1>5, <2>2 DEF Fixed
  <2>5. Share(q)' = Zero
    BY <1>8, <2>2, <2>4 DEF Share, Zero
  <2>6. ASSUME NEW s \in Parties \ {p, q} PROVE Share(s)' = Share(s)
    <3>1. Relative(s) > 0 => Parent(s) \in Parties
      BY <1>2 DEF Trees
    <3>2. values'[s] = values[s] /\ (Summing(s)' <=> Summing(s))
      BY <1>3, <1>18 DEF Frame, SameAt
    <3> QED
      BY <1>2, <1>8, <3>1, <3>2, SameShare
  <2> QED
    BY <2>1, <2>3, <2>5, <2>6
<1>23. Shares'
  <2>1. \A s \in Parties : Summer(s)' <=> Summer(s)
    BY <1>12, <1>18 DEF SameAt
  <2>2. ASSUME NEW c \in Contributions
        PROVE  /\ Zero[c] = 0 /\ v[c] \in Nat /\ m[c] \in Nat
               /\ v[c] = 0 \/ m[c] = 0
               /\ Plus(v, m)[c] # 0 => Plus(v, m)[c] = v[c] \/ Plus(v, m)[c] = m[c]
               /\ v[c] # 0 \/ m[c] # 0 => Plus(v, m)[c] # 0
    <3>1. v[c] \in Nat /\ m[c] \in Nat
      BY <1>8 DEF Sums
    <3>2. v[c] = 0 \/ m[c] = 0
      BY <1>5, <1>22 DEF IInv, Shares
    <3>3. Plus(v, m)[c] = v[c] + m[c]
      BY DEF Plus
    <3> HIDE DEF v
    <3> QED
      BY <3>1, <3>2, <3>3 DEF Zero
  <2> HIDE DEF v
  <2>3. ASSUME NEW s \in Parties, NEW c \in Contributions, Share(s)'[c] # 0
        PROVE  \/ s = p /\ Share(s)'[c] = Share(p)[c] /\ Share(p)[c] # 0
               \/ s = p /\ Share(s)'[c] = Share(q)[c] /\ Share(q)[c] # 0
               \/ s # p /\ s # q /\ Share(s)'[c] = Share(s)[c] /\ Share(s)[c] # 0
    BY <1>22, <2>2, <2>3
  <2>4. \A s \in Parties : Share(s)' \in Sums
    <3>1. Zero \in Sums
      BY DEF Zero, Sums
    <3> QED
      BY <1>8, <1>22, <3>1 DEF IInv, Shares
  <2>5. ASSUME NEW s \in Parties, NEW c \in Contributions, Share(s)'[c] # 0
        PROVE  Share(s)'[c] = 1 /\ c[1] = Total' + 1 /\ Summer(c[2])'
    <3>1. c[2] \in Parties
      BY DEF Contributions
    <3> QED
      BY <1>11, <2>1, <2>3, <2>5, <3>1 DEF IInv, Shares
  <2>6. ASSUME NEW s \in Parties, NEW t \in Parties, NEW c \in Contributions,
               Share(s)'[c] # 0, Share(t)'[c] # 0
        PROVE  s = t
    <3>1. \A a, b \in Parties : Share(a)[c] # 0 /\ Share(b)[c] # 0 => a = b
      BY DEF IInv, Shares
    <3> QED
      BY <2>3, <2>6, <3>1
  <2>7. ASSUME NEW x \in Parties, Summer(x)'
        PROVE  \E s \in Parties : Share(s)'[<<Total' + 1, x>>] # 0
    <3>1. PICK s \in Parties : Share(s)[<<Total + 1, x>>] # 0
      BY <2>1, <2>7 DEF IInv, Shares
    <3>2. <<Total + 1, x>> \in Contributions
      BY <2>1, <2>7, TotalFacts
    <3>3. CASE s = p \/ s = q
      BY <1>11, <1>22, <2>2, <3>1, <3>2, <3>3
    <3>4. CASE s # p /\ s # q
      BY <1>11, <1>22, <3>1, <3>4
    <3> QED
      BY <3>3, <3>4
  <2> QED
    BY <2>4, <2>5, <2>6, <2>7 DEF Shares
<1>24. Complete'
  <2>1. \A s \in Parties : pc'[s] = "broadcast" => pc[s] = "broadcast" /\ values'[s] = values[s]
    BY <1>1, <1>3 DEF Frame
  <2>2. \A s, t \in Parties : Down(s, t) => chan'[s][t] \in {chan[s][t], <<>>}
    BY <1>8
  <2> QED
    BY <1>2, <1>11, <2>1, <2>2, SameTotals DEF IInv
<1>25. Results'
  BY <1>1, SameResults DEF IInv
<1> QED
  BY <1>2, <1>9, <1>19, <1>20, <1>21, <1>23, <1>24, <1>25 DEF IInv

LEMMA QuotientIs ==
    ASSUME NEW x \in Nat, NEW d \in Nat \ {0}, NEW r \in Nat
    PROVE  r = x \div d <=> r * d <= x /\ x < (r + 1) * d
<1> DEFINE a == x \div d
<1>1. a \in Nat /\ a * d <= x /\ x < a * d + d
  BY Quotient
<1> HIDE DEF a
<1>2. r * d \in Nat /\ a * d \in Nat /\ (r + 1) * d = r * d + d
  BY <1>1
<1>3. CASE r = a
  BY <1>1, <1>2, <1>3 DEF a
<1>4. CASE r < a
  <2>1. PICK e \in Nat : a = r + 1 + e
    BY <1>1, <1>4, a = r + 1 + (a - r - 1)
  <2>2. a * d = r * d + d + e * d /\ e * d \in Nat
    BY <2>1
  <2> QED
    BY <1>1, <1>2, <1>4, <2>2 DEF a
<1>5. CASE r > a
  <2>1. PICK e \in Nat : r = a + 1 + e
    BY <1>1, <1>5, r = a + 1 + (r - a - 1)
  <2>2. r * d = a * d + d + e * d /\ e * d \in Nat
    BY <1>1, <2>1
  <2> QED
    BY <1>1, <1>2, <1>5, <2>2 DEF a
<1> QED
  BY <1>1, <1>3, <1>4, <1>5

LEMMA DownFacts ==
    ASSUME SettingsOK, NEW p \in Parties, NEW q \in Parties, Relative(q) > 0
    PROVE  Down(p, q) <=> /\ Relative(p) * max_broadcast <= Relative(q)
                          /\ Relative(q) < (Relative(p) + 1) * max_broadcast
<1>1. Relative(p) \in Nat /\ Relative(q) \in Nat /\ max_broadcast \in Nat \ {0}
  BY Positions, TreeSumAssumption DEF SettingsOK
<1>2. Down(p, q) <=> Relative(p) = Relative(q) \div max_broadcast
  BY DEF Down
<1> QED
  BY <1>1, <1>2, QuotientIs

\* A party that is told a sum has not told anybody yet.
LEMMA ReceiveSumStep ==
    ASSUME IInv, NEW p \in Parties, ReceiveSum(p), UNCHANGED settings
    PROVE  IInv'
<1> DEFINE r == Relative(p)
           q0 == Player(r \div max_broadcast)
<1>1. /\ pc[p] = "receive"
      /\ chan[q0][p] # <<>>
      /\ chan' = [chan EXCEPT ![q0][p] = Tail(@)]
      /\ values' = [values EXCEPT ![p] = Head(chan[q0][p])]
      /\ peer' = [peer EXCEPT ![p] = r * max_broadcast]
      /\ pc' = [pc EXCEPT ![p] = "broadcast"]
      /\ UNCHANGED <<runs, sum_players, last_sum_players, results>>
  BY DEF ReceiveSum, Receive, Goto
<1>2. SettingsOK' /\ Fixed /\ Trees /\ SettingsOK
  BY TreesStay, TreesHold DEF IInv
<1>3. Frame(p)
  BY StepFrame DEF IInv, Acts
<1>4. /\ r \in 1..(NPlayers - 1) /\ NPlayers \in Nat /\ max_broadcast \in Nat \ {0}
      /\ r * max_broadcast \in Nat \ {0}
  <2>1. r > 0
    BY <1>1 DEF IInv, Places, Place
  <2>2. r \in 1..(NPlayers - 1) /\ NPlayers \in Nat /\ max_broadcast \in Nat \ {0}
    BY <1>2, <2>1, TreeSumAssumption DEF Trees, SettingsOK
  <2>3. PICK a \in Nat, b \in Nat : r = 1 + a /\ max_broadcast = 1 + b
    <3>1. r = 1 + (r - 1) /\ max_broadcast = 1 + (max_broadcast - 1)
      BY <2>2
    <3>2. r - 1 \in Nat /\ max_broadcast - 1 \in Nat
      BY <2>2
    <3> QED
      BY <3>1, <3>2
  <2> HIDE DEF r
  <2>4. r * max_broadcast = 1 + a + b + a * b /\ a * b \in Nat
    BY <2>3
  <2> QED
    BY <2>2, <2>3, <2>4
<1>5. PICK q \in Parties : q = q0 /\ Down(q, p) /\ ~Up(q, p) /\ q # p
  <2>1. PICK q \in Parties : Down(q, p)
    BY <1>2, <1>4 DEF Trees
  <2>2. q = q0
    BY <1>2, <2>1 DEF Down, Trees
  <2>3. Relative(q) < r /\ Relative(q) \in 0..(NPlayers - 1)
    BY <1>2, <2>1 DEF Trees
  <2>4. ~Up(q, p) /\ q # p
    BY <1>2, <1>4, <2>3 DEF Trees
  <2> QED
    BY <2>1, <2>2, <2>4
<1> HIDE DEF q0
<1>6. Told(q, p) /\ ~Got(p) /\ \E v \in Sums : chan[q][p] = <<v>>
  <2>1. Edge(q, p)
    BY DEF IInv, Channels
  <2> QED
    BY <1>1, <1>5, <2>1 DEF Edge, Box
<1>7. PICK m \in Sums : chan[q][p] = <<m>>
  BY <1>6
<1>8. /\ pc'[p] = "broadcast" /\ values'[p] = m /\ peer'[p] = r * max_broadcast
      /\ chan'[q][p] = <<>>
      /\ \A s, t \in Parties : s # q \/ t # p => chan'[s][t] = chan[s][t]
  <2>1. chan \in [Parties -> [Parties -> Seq(Sums)]] /\ values \in [Parties -> Sums]
        /\ peer \in [Parties -> Nat] /\ p \in DOMAIN pc
    BY DEF IInv, Types
  <2>2. Tail(chan[q][p]) = <<>> /\ Head(chan[q][p]) = m
    BY <1>7
  <2> QED
    BY <1>1, <1>5, <2>1, <2>2
<1>9. m = AllOf(Total)
  <2>1. Head(chan[q][p]) = m
    BY <1>7
  <2> QED
    BY <1>1, <1>5, <2>1 DEF IInv, Complete
<1>10. Types'
  <2>1. chan' \in [Parties -> [Parties -> Seq(Sums)]]
    <3>1. chan \in [Parties -> [Parties -> Seq(Sums)]] /\ Tail(chan[q][p]) \in Seq(Sums)
      BY <1>7 DEF IInv, Types
    <3> QED
      BY <1>1, <1>5, <3>1
  <2>2. values' \in [Parties -> Sums]
    <3>1. Head(chan[q][p]) \in Sums
      BY <1>7
    <3> QED
      BY <1>1, <1>5, <3>1 DEF IInv, Types
  <2>3. peer' \in [Parties -> Nat]
    BY <1>1, <1>4 DEF IInv, Types
  <2>4. pc' \in [Parties -> {"idle", "round", "send", "add", "broadcast", "receive"}]
    BY <1>1 DEF IInv, Types
  <2> QED
    BY <1>1, <2>1, <2>2, <2>3, <2>4 DEF IInv, Types
<1>11. ~Summing(p) /\ ~Summing(p)'
  BY <1>1, <1>8 DEF Summing
<1>12. Total' = Total
  BY <1>1, <1>2, <1>3, <1>11, SameTotal
<1>13. ~Summer(p) /\ ~Summer(p)'
  BY <1>1, <1>6, <1>12 DEF Summer, Got
<1>14. \A s \in Parties \ {p} : SameAt(s) /\ Place(s)'
  BY <1>2, <1>3, <1>12, SameAtOthers
<1>15. ~Sent(p) /\ ~Sent(p)' /\ Got(p)' /\ \A s \in Parties : ~Taken(s, p) /\ ~Taken(s, p)'
  BY <1>8, <1>13 DEF Sent, Got, Taken
<1>16. ASSUME NEW s \in Parties, Down(p, s)
       PROVE  ~Told(p, s) /\ ~Told(p, s)'
  <2>1. Relative(s)' = Relative(s) /\ Relative(s) \in 0..(NPlayers - 1) /\ Relative(s) > 0
    BY <1>2, <1>16 DEF Fixed, Trees
  <2>2. r * max_broadcast <= Relative(s)
    BY <1>2, <1>16, <2>1, DownFacts
  <2>3. ~(Relative(s) < r * max_broadcast)
    BY <1>4, <2>1, <2>2
  <2> QED
    BY <1>1, <1>8, <1>13, <2>1, <2>3 DEF Told
<1>17. Places'
  <2>1. Relative(p)' = r /\ UNCHANGED <<opening_sum, max_broadcast, base_player>>
    BY <1>2 DEF Fixed
  <2>2. r * max_broadcast <= r * max_broadcast /\ r * max_broadcast > 0
    BY <1>4
  <2>3. Place(p)'
    BY <1>8, <2>1, <2>2 DEF Place
  <2> QED
    BY <1>14, <2>3 DEF Places
<1>18. InStep'
  <2>1. ASSUME NEW s \in Parties \ {p}
        PROVE  /\ runs'[s] \in {Total', Total' + 1} /\ (Summing(s)' => Summer(s)')
               /\ pc'[s] \in {"idle", "broadcast"} => ~Summer(s)'
    BY <1>3, <1>12, <1>14 DEF IInv, InStep, SameAt, Frame
  <2>2. runs'[p] \in {Total', Total' + 1}
    BY <1>1, <1>12 DEF IInv, InStep
  <2> QED
    BY <1>11, <1>13, <2>1, <2>2 DEF InStep
<1>19. Channels'
  <2>1. Edge(q, p)'
    <3>1. (Up(q, p)' <=> Up(q, p)) /\ (Down(q, p)' <=> Down(q, p))
      BY <1>2 DEF Fixed
    <3>2. Told(q, p)'
      BY <1>5, <1>6, <1>14 DEF SameAt
    <3>3. Box(chan'[q][p]) /\ chan'[q][p] = <<>>
      BY <1>8 DEF Box
    <3> QED
      BY <1>5, <1>15, <3>1, <3>2, <3>3 DEF Edge, Box
  <2>2. ASSUME NEW s \in Parties, NEW t \in Parties, s # q \/ t # p
        PROVE  (Up(s, t) => UpSame(s, t)) /\ (Down(s, t) => DownSame(s, t))
    <3>1. Up(s, t) => UpSame(s, t)
      BY <1>14, <1>15 DEF SameAt, UpSame
    <3>2. Down(s, t) => t # p
      BY <1>2, <1>5, <2>2 DEF Trees
    <3>3. Down(s, t) => DownSame(s, t)
      BY <1>14, <1>16, <3>2 DEF SameAt, DownSame
    <3> QED
      BY <3>1, <3>3
  <2>3. ASSUME NEW s \in Parties, NEW t \in Parties, s # q \/ t # p
        PROVE  Edge(s, t)'
    <3>1. Edge(s, t) /\ chan'[s][t] = chan[s][t]
      BY <1>8, <2>3 DEF IInv, Channels
    <3>2. (Up(s, t) => UpSame(s, t)) /\ (Down(s, t) => DownSame(s, t))
      BY <2>2, <2>3
    <3> QED
      BY <1>2, <3>1, <3>2, SameEdge
  <2>4. ASSUME NEW s \in Parties, NEW t \in Parties
        PROVE  Edge(s, t)'
    BY <2>1, <2>3
  <2> QED
    BY <2>4 DEF Channels
<1>20. Shares'
  <2>1. ASSUME NEW s \in Parties PROVE Share(s)' = Share(s)
    <3>1. Relative(s) > 0 => Parent(s) \in Parties /\ Up(s, Parent(s))
      BY <1>2 DEF Trees
    <3>2. Relative(s) > 0 => chan'[s][Parent(s)] = chan[s][Parent(s)]
      BY <1>5, <1>8, <3>1
    <3>3. (Summing(s)' <=> Summing(s)) /\ (Summing(s) => values'[s] = values[s])
      BY <1>3, <1>11, <1>14 DEF Frame, SameAt
    <3> QED
      BY <1>2, <3>2, <3>3, SameShare
  <2> QED
    BY <1>12, <1>13, <1>14, <2>1, SameShares DEF IInv, SameAt
<1>21. Complete'
  <2>1. AllOf(Total)' = AllOf(Total)
    BY <1>12 DEF AllOf
  <2>2. \A s \in Parties : pc'[s] = "broadcast" => values'[s] = AllOf(Total)'
    BY <1>3, <1>8, <1>9, <2>1 DEF Frame, IInv, Complete
  <2>3. ASSUME NEW s \in Parties, NEW t \in Parties, Down(s, t)', chan'[s][t] # <<>>
        PROVE  Head(chan'[s][t]) = AllOf(Total)'
    <3>1. chan'[s][t] = chan[s][t] /\ Down(s, t)
      BY <1>2, <1>8, <2>3 DEF Fixed
    <3> QED
      BY <2>1, <2>3, <3>1 DEF IInv, Complete
  <2> QED
    BY <2>2, <2>3 DEF Complete
<1>22. Results'
  <2>1. \A s \in Parties : pc'[s] = "idle" <=> pc[s] = "idle"
    BY <1>1, <1>3, <1>8 DEF Frame
  <2> QED
    BY <1>1, <2>1, SameResults DEF IInv
<1> QED
  BY <1>2, <1>10, <1>17, <1>18, <1>19, <1>20, <1>21, <1>22 DEF IInv

\* A party that sends a sum on tells it to the parties below it, one after the other.
LEMMA BroadcastStep ==
    ASSUME IInv, NEW p \in Parties, Broadcast(p), UNCHANGED settings
    PROVE  IInv'
<1> DEFINE r == Relative(p)
           k == peer[p]
           q0 == Player(k)
<1>1. /\ pc[p] = "broadcast" /\ k < LastPeer(p)
      /\ chan' = [chan EXCEPT ![p][q0] = Append(@, values[p])]
      /\ peer' = [peer EXCEPT ![p] = @ + 1]
      /\ UNCHANGED <<pc, runs, values, sum_players, last_sum_players, results>>
  BY DEF Broadcast, Send
<1>2. SettingsOK' /\ Fixed /\ Trees /\ SettingsOK
  BY TreesStay, TreesHold DEF IInv
<1>3. Frame(p)
  BY StepFrame DEF IInv, Acts
<1>4. /\ r \in 0..(NPlayers - 1) /\ NPlayers \in Nat /\ max_broadcast \in Nat \ {0}
      /\ k \in 1..(NPlayers - 1) /\ r * max_broadcast \in Nat
      /\ r * max_broadcast <= k /\ k < (r + 1) * max_broadcast
  <2>1. k > 0 /\ r * max_broadcast <= k
    BY <1>1 DEF IInv, Places, Place
  <2>2. /\ r \in 0..(NPlayers - 1) /\ NPlayers \in Nat /\ max_broadcast \in Nat \ {0} /\ k \in Nat
    BY <1>2, TreeSumAssumption DEF IInv, Types, Trees, SettingsOK
  <2>3. r * max_broadcast \in Nat /\ (r + 1) * max_broadcast \in Nat
    BY <2>2
  <2> DEFINE last == (r + 1) * max_broadcast
  <2>4. k < IF last < NPlayers THEN last ELSE NPlayers
    BY <1>1 DEF LastPeer
  <2>5. last \in Nat
    BY <2>3
  <2> HIDE DEF last
  <2>6. k < last /\ k < NPlayers
    BY <2>2, <2>4, <2>5
  <2>7. k \in 1..(NPlayers - 1)
    BY <2>1, <2>2, <2>6
  <2> QED
    BY <2>1, <2>2, <2>3, <2>6, <2>7 DEF last
<1>5. PICK q \in Parties : /\ q = q0 /\ Relative(q) = k /\ Down(p, q) /\ ~Up(p, q) /\ q # p
  <2>1. k \in 0..(NPlayers - 1) /\ k > 0
    BY <1>4
  <2>2. q0 \in Parties /\ Relative(q0) = k
    BY <1>2, <2>1, PlayerAt
  <2>3. Down(p, q0)
    BY <1>2, <1>4, <2>1, <2>2, DownFacts
  <2>4. r < k
    BY <1>2, <2>2, <2>3 DEF Trees
  <2>5. ~Up(p, q0) /\ q0 # p
    BY <1>2, <1>4, <2>2, <2>4 DEF Trees
  <2> QED
    BY <2>2, <2>3, <2>5
<1> HIDE DEF q0
<1>6. \A s \in Parties : /\ Relative(s)' = Relative(s) /\ Relative(s) \in 0..(NPlayers - 1)
                         /\ Relative(s) = k => s = q
  BY <1>2, <1>5 DEF Fixed, Trees
<1>7. ~Summer(p)
  BY <1>1 DEF IInv, InStep
<1>8. Edge(p, q) /\ ~Told(p, q) /\ ~Got(q) /\ chan[p][q] = <<>>
  <2>1. Edge(p, q)
    BY DEF IInv, Channels
  <2>2. ~Told(p, q)
    BY <1>1, <1>4, <1>5, <1>7 DEF Told
  <2> QED
    BY <1>5, <2>1, <2>2 DEF Edge
<1> DEFINE v == values[p]
<1>9. /\ v \in Sums /\ v = AllOf(Total) /\ chan'[p][q] = <<v>> /\ peer'[p] = k + 1
      /\ \A s, t \in Parties : s # p \/ t # q => chan'[s][t] = chan[s][t]
  <2>1. v \in Sums /\ chan \in [Parties -> [Parties -> Seq(Sums)]] /\ peer \in [Parties -> Nat]
    BY DEF IInv, Types
  <2>2. v = AllOf(Total)
    BY <1>1 DEF IInv, Complete
  <2>3. Append(chan[p][q], v) = <<v>>
    BY <1>8, <2>1
  <2> QED
    BY <1>1, <1>5, <2>1, <2>2, <2>3
<1>10. Types'
  <2>1. chan' \in [Parties -> [Parties -> Seq(Sums)]]
    <3>1. chan \in [Parties -> [Parties -> Seq(Sums)]] /\ Append(chan[p][q], v) \in Seq(Sums)
      BY <1>8, <1>9 DEF IInv, Types
    <3> QED
      BY <1>1, <1>5, <3>1
  <2>2. peer' \in [Parties -> Nat]
    <3>1. k + 1 \in Nat
      BY <1>4
    <3> QED
      BY <1>1, <3>1 DEF IInv, Types
  <2> QED
    BY <1>1, <2>1, <2>2 DEF IInv, Types
<1>11. ~Summing(p) /\ ~Summing(p)'
  BY <1>1 DEF Summing
<1>12. Total' = Total
  BY <1>1, <1>2, <1>3, <1>11, SameTotal
<1>13. ~Summer(p)'
  BY <1>1, <1>7, <1>12 DEF Summer
<1>14. \A s \in Parties \ {p} : SameAt(s) /\ Place(s)'
  BY <1>2, <1>3, <1>12, SameAtOthers
<1>15. ~Sent(p) /\ ~Sent(p)' /\ Got(p) /\ Got(p)' /\ \A s \in Parties : ~Taken(s, p) /\ ~Taken(s, p)'
  BY <1>1, <1>7, <1>13 DEF Sent, Got, Taken
<1>16. Told(p, q)'
  <2>1. Relative(q)' = k /\ k < k + 1
    BY <1>4, <1>5, <1>6
  <2> QED
    BY <1>1, <1>9, <2>1 DEF Told
<1>17. ASSUME NEW s \in Parties \ {q}
       PROVE  Told(p, s)' <=> Told(p, s)
  <2>1. Relative(s)' = Relative(s) /\ (Relative(s) < k <=> Relative(s) < k + 1)
    BY <1>4, <1>6
  <2> QED
    BY <1>1, <1>7, <1>9, <1>13, <2>1 DEF Told
<1>18. Places'
  <2>1. Relative(p)' = r /\ UNCHANGED <<opening_sum, max_broadcast, base_player>>
    BY <1>2 DEF Fixed
  <2>2. r * max_broadcast <= k + 1 /\ k + 1 > 0
    BY <1>4
  <2>3. Place(p)'
    BY <1>1, <1>9, <2>1, <2>2 DEF Place
  <2> QED
    BY <1>14, <2>3 DEF Places
<1>19. InStep'
  <2>1. ASSUME NEW s \in Parties \ {p}
        PROVE  /\ runs'[s] \in {Total', Total' + 1} /\ (Summing(s)' => Summer(s)')
               /\ pc'[s] \in {"idle", "broadcast"} => ~Summer(s)'
    BY <1>3, <1>12, <1>14 DEF IInv, InStep, SameAt, Frame
  <2>2. runs'[p] \in {Total', Total' + 1}
    BY <1>1, <1>12 DEF IInv, InStep
  <2> QED
    BY <1>11, <1>13, <2>1, <2>2 DEF InStep
<1>20. Channels'
  <2>1. Edge(p, q)'
    <3>1. (Up(p, q)' <=> Up(p, q)) /\ (Down(p, q)' <=> Down(p, q))
      BY <1>2 DEF Fixed
    <3>2. ~Got(q)'
      BY <1>5, <1>8, <1>14 DEF SameAt
    <3>3. Box(chan'[p][q]) /\ chan'[p][q] # <<>>
      BY <1>9 DEF Box
    <3> QED
      BY <1>5, <1>16, <3>1, <3>2, <3>3 DEF Edge, Box
  <2>2. ASSUME NEW s \in Parties, NEW t \in Parties, s # p \/ t # q
        PROVE  (Up(s, t) => UpSame(s, t)) /\ (Down(s, t) => DownSame(s, t))
    <3>1. Up(s, t) => UpSame(s, t)
      BY <1>14, <1>15 DEF SameAt, UpSame
    <3>2. Down(s, t) => DownSame(s, t)
      BY <1>14, <1>15, <1>17, <2>2 DEF SameAt, DownSame
    <3> QED
      BY <3>1, <3>2
  <2>3. ASSUME NEW s \in Parties, NEW t \in Parties, s # p \/ t # q
        PROVE  Edge(s, t)'
    <3>1. Edge(s, t) /\ chan'[s][t] = chan[s][t]
      BY <1>9, <2>3 DEF IInv, Channels
    <3>2. (Up(s, t) => UpSame(s, t)) /\ (Down(s, t) => DownSame(s, t))
      BY <2>2, <2>3
    <3> QED
      BY <1>2, <3>1, <3>2, SameEdge
  <2>4. ASSUME NEW s \in Parties, NEW t \in Parties
        PROVE  Edge(s, t)'
    BY <2>1, <2>3
  <2> QED
    BY <2>4 DEF Channels
<1>21. Shares'
  <2>1. ASSUME NEW s \in Parties PROVE Share(s)' = Share(s)
    <3>1. Relative(s) > 0 => Parent(s) \in Parties /\ Up(s, Parent(s))
      BY <1>2 DEF Trees
    <3>2. Relative(s) > 0 => chan'[s][Parent(s)] = chan[s][Parent(s)]
      BY <1>5, <1>9, <3>1
    <3>3. (Summing(s)' <=> Summing(s)) /\ values'[s] = values[s]
      BY <1>1, <1>11, <1>14 DEF SameAt
    <3> QED
      BY <1>2, <3>2, <3>3, SameShare
  <2> QED
    BY <1>7, <1>12, <1>13, <1>14, <2>1, SameShares DEF IInv, SameAt
<1>22. Complete'
  <2>1. AllOf(Total)' = AllOf(Total)
    BY <1>12 DEF AllOf
  <2>2. \A s \in Parties : pc'[s] = "broadcast" => values'[s] = AllOf(Total)'
    BY <1>1, <2>1 DEF IInv, Complete
  <2>3. ASSUME NEW s \in Parties, NEW t \in Parties, Down(s, t)', chan'[s][t] # <<>>
        PROVE  Head(chan'[s][t]) = AllOf(Total)'
    <3>1. Down(s, t)
      BY <1>2, <2>3 DEF Fixed
    <3>2. CASE s = p /\ t = q
      <4>1. Head(chan'[p][q]) = v
        BY <1>9
      <4> QED
        BY <1>9, <2>1, <3>2, <4>1
    <3>3. CASE ~(s = p /\ t = q)
      BY <1>9, <2>1, <2>3, <3>1, <3>3 DEF IInv, Complete
    <3> QED
      BY <3>2, <3>3
  <2> QED
    BY <2>2, <2>3 DEF Complete
<1>23. Results'
  BY <1>1, SameResults DEF IInv
<1> QED
  BY <1>2, <1>10, <1>18, <1>19, <1>20, <1>21, <1>22, <1>23 DEF IInv

\* A party returns when all below it have been told.
LEMMA ReturnStep ==
    ASSUME IInv, NEW p \in Parties, Return(p), UNCHANGED settings
    PROVE  IInv' /\ values[p] = AllOf(runs[p]) /\ runs[p] = Total /\ Len(results[p]) = runs[p] - 1
<1> DEFINE r == Relative(p)
           k == peer[p]
<1>1. /\ pc[p] = "broadcast" /\ k >= LastPeer(p)
      /\ results' = [results EXCEPT ![p] = Append(@, values[p])]
      /\ pc' = [pc EXCEPT ![p] = "idle"]
      /\ UNCHANGED <<runs, values, sum_players, last_sum_players, peer, chan>>
  BY DEF Return, Goto
<1>2. SettingsOK' /\ Fixed /\ Trees /\ SettingsOK
  BY TreesStay, TreesHold DEF IInv
<1>3. Frame(p)
  BY StepFrame DEF IInv, Acts
<1>4. /\ pc'[p] = "idle" /\ k \in Nat /\ r \in 0..(NPlayers - 1) /\ NPlayers \in Nat
      /\ max_broadcast \in Nat \ {0}
  <2>1. pc'[p] = "idle" /\ k \in Nat
    BY <1>1 DEF IInv, Types
  <2> QED
    BY <1>2, <2>1, TreeSumAssumption DEF Trees, SettingsOK
<1>5. ~Summer(p) /\ runs[p] = Total
  BY <1>1 DEF IInv, InStep, Summer
<1>6. /\ values[p] = AllOf(runs[p]) /\ Len(results[p]) = runs[p] - 1
      /\ runs[p] \in 0..NRuns /\ NRuns \in Nat /\ values[p] \in Sums /\ results[p] \in Seq(Sums)
  BY <1>1, <1>5, TreeSumAssumption DEF IInv, Complete, Results, Types
<1>7. Types'
  <2>1. Append(results[p], values[p]) \in Seq(Sums)
    BY <1>6
  <2> QED
    BY <1>1, <2>1 DEF IInv, Types
<1>8. ~Summing(p) /\ ~Summing(p)'
  BY <1>1, <1>4 DEF Summing
<1>9. Total' = Total
  BY <1>1, <1>2, <1>3, <1>8, SameTotal
<1>10. ~Summer(p)'
  BY <1>1, <1>5, <1>9 DEF Summer
<1>11. \A s \in Parties \ {p} : SameAt(s) /\ Place(s)'
  BY <1>2, <1>3, <1>9, SameAtOthers
<1>12. ASSUME NEW s \in Parties, Down(p, s)
       PROVE  Told(p, s) /\ Told(p, s)'
  <2>1. Relative(s) \in 1..(NPlayers - 1)
    BY <1>2, <1>12 DEF Trees
  <2>2. Relative(s) < (r + 1) * max_broadcast
    BY <1>2, <1>12, <2>1, DownFacts
  <2>3. (r + 1) * max_broadcast \in Nat
    BY <1>4
  <2> DEFINE last == (r + 1) * max_broadcast
  <2>4. k >= IF last < NPlayers THEN last ELSE NPlayers
    BY <1>1 DEF LastPeer
  <2>5. last \in Nat /\ Relative(s) < last
    BY <2>2, <2>3
  <2> HIDE DEF last
  <2>6. Relative(s) < k
    BY <1>4, <2>1, <2>4, <2>5
  <2> QED
    BY <1>1, <1>4, <2>6 DEF Told
<1>13. SameAt(p)
  <2>1. ~Sent(p) /\ ~Sent(p)' /\ Got(p) /\ Got(p)' /\ \A s \in Parties : ~Taken(s, p) /\ ~Taken(s, p)'
    BY <1>1, <1>4, <1>5, <1>10 DEF Sent, Got, Taken
  <2> QED
    BY <1>5, <1>8, <1>10, <1>12, <2>1 DEF SameAt
<1>14. Places' /\ \A s \in Parties : SameAt(s)
  BY <1>4, <1>11, <1>13 DEF Places, Place
<1>15. InStep'
  <2>1. ASSUME NEW s \in Parties \ {p}
        PROVE  /\ runs'[s] \in {Total', Total' + 1} /\ (Summing(s)' => Summer(s)')
               /\ pc'[s] \in {"idle", "broadcast"} => ~Summer(s)'
    BY <1>3, <1>9, <1>11 DEF IInv, InStep, SameAt, Frame
  <2>2. runs'[p] \in {Total', Total' + 1}
    BY <1>1, <1>9 DEF IInv, InStep
  <2> QED
    BY <1>8, <1>10, <2>1, <2>2 DEF InStep
<1>16. Channels'
  <2>1. ASSUME NEW s \in Parties, NEW t \in Parties PROVE Edge(s, t)'
    BY <1>1, <1>2, <1>14, SameEdge DEF IInv, Channels, SameAt, UpSame, DownSame
  <2> QED
    BY <2>1 DEF Channels
<1>17. Shares'
  BY <1>1, <1>2, <1>9, <1>14, SameShare, SameShares DEF IInv, SameAt
<1>18. Complete'
  <2>1. \A s \in Parties : pc'[s] = "broadcast" => pc[s] = "broadcast" /\ values'[s] = values[s]
    BY <1>1, <1>3, <1>4 DEF Frame
  <2> QED
    BY <1>1, <1>2, <1>9, <2>1, SameTotals DEF IInv
<1>19. Results'
  <2>1. \A i : AllOf(i)' = AllOf(i)
    BY DEF AllOf
  <2>2. ASSUME NEW s \in Parties
        PROVE  /\ Len(results'[s]) = runs'[s] - (IF pc'[s] = "idle" THEN 0 ELSE 1)
               /\ \A i \in 1..Len(results'[s]) : results'[s][i] = AllOf(i)
    <3>1. CASE s = p
      <4> DEFINE res == results[p]
                 v == values[p]
      <4>1. results'[p] = Append(res, v)
        BY <1>1 DEF IInv, Types
      <4>2. res \in Seq(Sums) /\ v \in Sums /\ Len(res) \in Nat
        BY <1>6
      <4>3. \A i \in 1..Len(res) : res[i] = AllOf(i)
        BY DEF IInv, Results
      <4>4. v = AllOf(Len(res) + 1)
        <5>1. Len(res) + 1 = runs[p]
          BY <1>6
        <5> QED
          BY <1>6, <5>1
      <4> HIDE DEF res, v
      <4>5. Len(Append(res, v)) = Len(res) + 1
        BY <4>2
      <4>6. ASSUME NEW i \in 1..Len(Append(res, v)) PROVE Append(res, v)[i] = AllOf(i)
        <5>1. CASE i = Len(res) + 1
          <6>1. Append(res, v)[i] = v
            BY <4>2, <5>1
          <6> QED
            BY <4>4, <5>1, <6>1
        <5>2. CASE i # Len(res) + 1
          <6>1. i \in 1..Len(res)
            BY <4>2, <4>5, <4>6, <5>2
          <6>2. Append(res, v)[i] = res[i]
            BY <4>2, <6>1
          <6> QED
            BY <4>3, <6>1, <6>2
        <5> QED
          BY <5>1, <5>2
      <4>7. Len(Append(res, v)) = runs[p] - 0
        BY <1>6, <4>5 DEF res
      <4> QED
        BY <1>1, <1>4, <3>1, <4>1, <4>6, <4>7
    <3>2. CASE s # p
      BY <1>3, <3>2 DEF IInv, Results, Frame
    <3> QED
      BY <3>1, <3>2
  <2> QED
    BY <2>1, <2>2 DEF Results
<1> QED
  BY <1>2, <1>5, <1>6, <1>7, <1>14, <1>15, <1>16, <1>17, <1>18, <1>19 DEF IInv

-----------------------------------------------------------------------------
(* The base player has the sum.                                            *)

\* When the base player has come to its last round, all others have sent, and all has been taken.
LEMMA AllSent ==
    ASSUME IInv, Trees, pc[base_player] = "round", sum_players[base_player] = 1
    PROVE  /\ Summing(base_player) /\ Summer(base_player)
           /\ \A s \in Parties \ {base_player} : Sent(s) /\ Relative(s) > 0 /\ Taken(s, Parent(s))
<1>0. base_player \in Parties /\ NPlayers \in Nat \ {0}
  BY TreeSumAssumption DEF IInv, SettingsOK
<1>1. Summing(base_player) /\ Summer(base_player)
  BY <1>0 DEF IInv, Places, Place, InStep
<1>2. \A s \in Parties : Relative(s) \in Nat /\ (s # base_player => Relative(s) > 0)
  BY <1>0 DEF Trees
<1> DEFINE Late(s) == s # base_player /\ ~Taken(s, Parent(s))
<1>3. ASSUME NEW s \in Parties, Late(s), \A t \in Parties : Late(t) => Relative(s) <= Relative(t)
      PROVE  FALSE
  <2>1. PICK q \in Parties : q = Parent(s) /\ Up(s, q) /\ Relative(q) < Relative(s)
    BY <1>2, <1>3 DEF Trees
  <2>2. CASE q = base_player
    <3>1. Relative(s) >= 1
      BY <1>2, <1>3
    <3>2. Has(q, Relative(s))
      BY <2>2, <3>1 DEF Has
    <3> QED
      BY <1>1, <1>3, <2>1, <2>2, <3>2 DEF Taken
  <2>3. CASE q # base_player
    <3>1. ~Late(q)
      BY <1>2, <1>3, <2>1
    <3>2. PICK t \in Parties : t = Parent(q) /\ Up(q, t)
      BY <1>2, <2>3 DEF Trees
    <3>3. Sent(q)
      BY <2>3, <3>1, <3>2 DEF IInv, Channels, Edge
    <3> QED
      BY <1>3, <2>1, <3>3 DEF Sent, Taken, Has
  <2> QED
    BY <2>2, <2>3
<1>4. \A s \in Parties : ~Late(s)
  <2> SUFFICES ASSUME NEW a \in Parties, Late(a) PROVE FALSE
    OBVIOUS
  <2> DEFINE R == {Relative(s) : s \in {t \in Parties : Late(t)}}
  <2>1. R \subseteq Nat /\ R # {}
    BY <1>2
  <2>2. PICK x \in R : \A y \in R : x <= y
    <3> HIDE DEF R
    <3> QED
      BY <2>1, Least
  <2>3. PICK s \in Parties : Late(s) /\ x = Relative(s)
    OBVIOUS
  <2>4. \A t \in Parties : Late(t) => Relative(s) <= Relative(t)
    BY <2>2, <2>3
  <2> HIDE DEF Late, R
  <2> QED
    BY <1>3, <2>3, <2>4
<1>5. ASSUME NEW s \in Parties \ {base_player} PROVE Sent(s) /\ Relative(s) > 0 /\ Taken(s, Parent(s))
  <2>1. PICK q \in Parties : q = Parent(s) /\ Up(s, q)
    BY <1>2 DEF Trees
  <2>2. Taken(s, q)
    BY <1>4, <2>1
  <2>3. Sent(s)
    BY <2>1, <2>2 DEF IInv, Channels, Edge
  <2> QED
    BY <1>2, <2>1, <2>2, <2>3
<1> QED
  BY <1>1, <1>5

\* With its last round the base player completes the next sum, of which all have a part.
LEMMA LastRoundStep ==
    ASSUME IInv, Round(base_player), UNCHANGED settings, Fewer(sum_players[base_player]) = 0
    PROVE  IInv'
<1>1. PICK p \in Parties : p = base_player
  BY DEF IInv, SettingsOK
<1>2. SettingsOK' /\ Fixed /\ Trees /\ SettingsOK /\ base_player' = p
  BY <1>1, TreesStay, TreesHold DEF IInv, Fixed
<1>3. Relative(p) = 0
  BY <1>1, <1>2 DEF Trees
<1>4. /\ pc[p] = "round"
      /\ sum_players' = [sum_players EXCEPT ![p] = 0]
      /\ last_sum_players' = [last_sum_players EXCEPT ![p] = sum_players[p]]
      /\ peer' = [peer EXCEPT ![p] = 1]
      /\ pc' = [pc EXCEPT ![p] = "broadcast"]
      /\ UNCHANGED <<runs, values, chan, results>>
  BY <1>1, <1>3 DEF Round, FirstPeer, Goto
<1>5. Frame(p)
  BY <1>1, StepFrame DEF IInv, Acts
<1>6. pc'[p] = "broadcast" /\ peer'[p] = 1
  BY <1>4 DEF IInv, Types
<1>7. sum_players[p] = 1
  <2>1. sum_players[p] > 0 /\ sum_players[p] \in 0..NPlayers
    BY <1>4 DEF IInv, Places, Place, Types
  <2>2. sum_players[p] \in 1..NPlayers
    BY <2>1, TreeSumAssumption
  <2> QED
    BY <1>1, <1>2, <2>2, FewerFacts
<1>8. /\ Summing(p) /\ Summer(p)
      /\ \A s \in Parties \ {p} : Sent(s) /\ Relative(s) > 0 /\ Taken(s, Parent(s))
  BY <1>1, <1>2, <1>4, <1>7, AllSent
<1>9. \A s \in Parties : Summer(s) /\ runs[s] = Total + 1 /\ (s # p => ~Summing(s))
  BY <1>8 DEF Sent, Summer
<1>10. \A s \in Parties \ {p} : pc[s] \in {"round", "receive"}
  <2> SUFFICES ASSUME NEW s \in Parties \ {p} PROVE pc[s] \in {"round", "receive"}
    OBVIOUS
  <2>1. pc[s] \in {"idle", "round", "send", "add", "broadcast", "receive"}
    BY DEF IInv, Types
  <2>2. pc[s] \notin {"send", "add"}
    BY <1>9 DEF Summing
  <2>3. pc[s] \notin {"idle", "broadcast"}
    BY <1>9 DEF IInv, InStep
  <2> QED
    BY <2>1, <2>2, <2>3
<1>11. \A s \in Parties \ {p} : pc'[s] = pc[s]
  BY <1>5 DEF Frame
<1>12. chan \in [Parties -> [Parties -> Seq(Sums)]] /\ \A s, t \in Parties : chan[s][t] = <<>>
  <2> SUFFICES ASSUME NEW s \in Parties, NEW t \in Parties PROVE chan[s][t] = <<>>
    BY DEF IInv, Types
  <2>1. Edge(s, t)
    BY DEF IInv, Channels
  <2>2. CASE Up(s, t)
    <3>1. t = Parent(s) /\ s # p
      BY <1>2, <1>3, <2>2 DEF Trees
    <3>2. Taken(s, t)
      BY <1>8, <3>1
    <3> QED
      BY <2>1, <2>2, <3>2 DEF Edge
  <2>3. CASE Down(s, t)
    <3>1. Got(t)
      BY <1>9 DEF Got
    <3> QED
      BY <2>1, <2>3, <3>1 DEF Edge
  <2> QED
    BY <2>1, <2>2, <2>3 DEF Edge
<1>13. Total \in Nat /\ \A x \in Parties : <<Total + 1, x>> \in Contributions
  BY <1>1, <1>9, TotalFacts
<1>14. Total' = Total + 1
  <2>1. ~Summing(base_player)'
    BY <1>2, <1>6 DEF Summing
  <2>2. Total' = runs[p] - 0
    BY <1>2, <1>4, <2>1 DEF Total
  <2> QED
    BY <1>9, <1>13, <2>2
<1>15. \A s \in Parties : ~Summing(s)'
  <2>1. \A s \in Parties \ {p} : ~Summing(s)'
    BY <1>2, <1>5, <1>9, SameElsewhere
  <2>2. ~Summing(p)'
    BY <1>6 DEF Summing
  <2> QED
    BY <2>1, <2>2
<1>16. \A s \in Parties : ~Summer(s)' /\ runs'[s] = Total'
  BY <1>4, <1>9, <1>13, <1>14 DEF Summer
<1>17. Types'
  <2>1. 0 \in 0..NPlayers /\ sum_players[p] \in 0..NPlayers
    BY TreeSumAssumption DEF IInv, Types
  <2>2. /\ sum_players' \in [Parties -> 0..NPlayers] /\ last_sum_players' \in [Parties -> 0..NPlayers]
        /\ peer' \in [Parties -> Nat]
    BY <1>4, <2>1 DEF IInv, Types
  <2>3. pc' \in [Parties -> {"idle", "round", "send", "add", "broadcast", "receive"}]
    BY <1>4 DEF IInv, Types
  <2> QED
    BY <1>4, <2>2, <2>3 DEF IInv, Types
<1>18. Places'
  <2>1. \A s \in Parties \ {p} : Place(s)'
    BY <1>2, <1>5, SameElsewhere DEF IInv, Places
  <2>2. Place(p)'
    <3>1. Relative(p)' = 0 /\ max_broadcast' \in Nat
      BY <1>2, <1>3 DEF Fixed, SettingsOK
    <3>2. PICK m \in Nat : m = max_broadcast'
      BY <3>1
    <3>3. Relative(p)' * max_broadcast' = 0 * m
      BY <3>1, <3>2
    <3>4. 0 * m = 0
      BY NoTimes
    <3>5. peer'[p] > 0 /\ Relative(p)' * max_broadcast' <= peer'[p]
      BY <1>6, <3>3, <3>4
    <3> QED
      BY <1>6, <3>5 DEF Place
  <2> QED
    BY <2>1, <2>2 DEF Places
<1>19. InStep'
  BY <1>15, <1>16 DEF InStep
<1>20. Channels'
  <2>1. ASSUME NEW s \in Parties, NEW t \in Parties PROVE Edge(s, t)'
    <3>1. chan'[s][t] = <<>> /\ ~Sent(s)' /\ ~Taken(s, t)'
      BY <1>4, <1>12, <1>16 DEF Sent, Taken
    <3>2. Down(s, t)' => ~Got(t)' /\ ~Told(s, t)'
      <4> SUFFICES ASSUME Down(s, t)' PROVE ~Got(t)' /\ ~Told(s, t)'
        OBVIOUS
      <4>1. Relative(t) > 0 /\ Relative(t)' = Relative(t) /\ Relative(t) \in 0..(NPlayers - 1)
        BY <1>2 DEF Fixed, Trees
      <4>2. ~Got(t)'
        BY <1>3, <1>10, <1>11, <1>16, <4>1 DEF Got
      <4>3. ~Told(s, t)'
        BY <1>6, <1>10, <1>11, <1>16, <4>1, TreeSumAssumption DEF Told
      <4> QED
        BY <4>2, <4>3
    <3> QED
      BY <3>1, <3>2 DEF Edge, Box
  <2> QED
    BY <2>1 DEF Channels
<1>21. \A s \in Parties : Share(s)' = Zero
  <2> SUFFICES ASSUME NEW s \in Parties PROVE Share(s)' = Zero
    OBVIOUS
  <2>1. Relative(s)' = Relative(s) /\ (Relative(s) > 0 => Parent(s) \in Parties /\ Parent(s)' = Parent(s))
    BY <1>2 DEF Fixed, Trees
  <2>2. Relative(s) > 0 => chan'[s][Parent(s)] = <<>>
    BY <1>4, <1>12, <2>1
  <2> QED
    BY <1>15, <2>1, <2>2 DEF Share, Zero
<1>22. Shares'
  <2>1. Zero \in Sums /\ \A c \in Contributions : Zero[c] = 0
    BY DEF Zero, Sums
  <2> QED
    BY <1>16, <1>21, <2>1 DEF Shares
<1>23. values[p] = AllOf(Total + 1)
  <2>1. Share(p) = values[p]
    BY <1>8 DEF Share
  <2>2. ASSUME NEW s \in Parties \ {p} PROVE Share(s) = Zero
    <3>1. Relative(s) > 0 /\ Parent(s) \in Parties /\ ~Summing(s)
      BY <1>2, <1>8, <1>9 DEF Trees
    <3> QED
      BY <1>12, <3>1 DEF Share
  <2>3. ASSUME NEW c \in Contributions PROVE values[p][c] = IF c[1] = Total + 1 THEN 1 ELSE 0
    <3>1. c[2] \in Parties /\ c = <<c[1], c[2]>>
      BY DEF Contributions
    <3>2. CASE c[1] = Total + 1
      <4>1. PICK s \in Parties : Share(s)[<<Total + 1, c[2]>>] # 0
        BY <1>9, <3>1 DEF IInv, Shares
      <4>2. Share(s)[c] # 0
        BY <3>1, <3>2, <4>1
      <4>3. s = p
        BY <2>2, <4>2 DEF Zero
      <4>4. Share(p)[c] = 1
        BY <4>2, <4>3 DEF IInv, Shares
      <4> QED
        BY <2>1, <3>2, <4>4
    <3>3. CASE c[1] # Total + 1
      BY <2>1, <3>3 DEF IInv, Shares
    <3> QED
      BY <3>2, <3>3
  <2>4. values[p] \in [Contributions -> Nat]
    BY DEF IInv, Types, Sums
  <2> QED
    BY <2>3, <2>4 DEF AllOf
<1>24. Complete'
  <2>1. AllOf(Total)' = AllOf(Total + 1)
    BY <1>14 DEF AllOf
  <2>2. \A s \in Parties : pc'[s] = "broadcast" => s = p
    BY <1>10, <1>11
  <2>3. \A s, t \in Parties : chan'[s][t] = <<>>
    BY <1>4, <1>12
  <2>4. values'[p] = AllOf(Total)'
    BY <1>4, <1>23, <2>1
  <2> QED
    BY <2>2, <2>3, <2>4 DEF Complete
<1>25. Results'
  <2>1. \A s \in Parties : pc'[s] = "idle" <=> pc[s] = "idle"
    BY <1>4, <1>6, <1>11
  <2> QED
    BY <1>4, <2>1, SameResults DEF IInv
<1> QED
  BY <1>2, <1>17, <1>18, <1>19, <1>20, <1>22, <1>24, <1>25 DEF IInv

-----------------------------------------------------------------------------
(* The theorems.                                                           *)

LEMMA StepInv ==
    ASSUME IInv, NEW p \in Parties, Step(p)
    PROVE  IInv'
<1>1. UNCHANGED settings
  BY DEF Step
<1>2. CASE Begin(p)
  BY <1>1, <1>2, BeginStep
<1>3. CASE Round(p)
  <2>1. CASE p = base_player /\ Fewer(sum_players[p]) = 0
    BY <1>1, <1>3, <2>1, LastRoundStep
  <2> QED
    BY <1>1, <1>3, <2>1, RoundStep
<1>4. CASE SendUp(p)
  BY <1>1, <1>4, SendUpStep
<1>5. CASE AddOne(p)
  BY <1>1, <1>5, AddOneStep
<1>6. CASE AddedAll(p)
  BY <1>1, <1>6, AddedAllStep
<1>7. CASE ReceiveSum(p)
  BY <1>1, <1>7, ReceiveSumStep
<1>8. CASE Broadcast(p)
  BY <1>1, <1>8, BroadcastStep
<1>9. CASE Return(p)
  BY <1>1, <1>9, ReturnStep
<1> QED
  BY <1>2, <1>3, <1>4, <1>5, <1>6, <1>7, <1>8, <1>9 DEF Step

LEMMA Stutter ==
    ASSUME IInv, UNCHANGED vars
    PROVE  IInv'
<1>1. /\ UNCHANGED settings
      /\ UNCHANGED <<pc, runs, values, sum_players, last_sum_players, peer, chan, results>>
  BY DEF vars
<1>2. SettingsOK' /\ Fixed /\ Trees /\ SettingsOK
  BY <1>1, TreesStay, TreesHold DEF IInv
<1>3. PICK p \in Parties : p = base_player
  BY <1>2 DEF SettingsOK
<1>4. \A q \in Parties : Frame(q)
  BY <1>1 DEF Frame
<1>5. \A q \in Parties : (Summing(q)' <=> Summing(q))
  BY <1>1, <1>2 DEF Summing, Fixed
<1>6. Total' = Total
  BY <1>1, <1>2, <1>3, <1>4, <1>5, SameTotal
<1>7. \A q \in Parties : Place(q)'
  BY <1>1, <1>2, <1>5 DEF IInv, Places, Place, Fixed, Fewer
<1>8. \A q \in Parties : Summer(q)' <=> Summer(q)
  BY <1>1, <1>6 DEF Summer
<1>9. \A s, t \in Parties : UpSame(s, t) /\ DownSame(s, t)
  BY <1>1, <1>2, <1>5, <1>8 DEF UpSame, DownSame, Sent, Taken, Has, Told, Got, Fixed
<1>10. Channels'
  <2>1. ASSUME NEW s \in Parties, NEW t \in Parties PROVE Edge(s, t)'
    BY <1>1, <1>2, <1>9, SameEdge DEF IInv, Channels
  <2> QED
    BY <2>1 DEF Channels
<1>11. Shares'
  BY <1>1, <1>2, <1>5, <1>6, <1>8, SameShare, SameShares DEF IInv
<1>12. Types' /\ Places' /\ InStep'
  BY <1>1, <1>5, <1>6, <1>7, <1>8 DEF IInv, Types, Places, InStep
<1>13. Complete' /\ Results'
  BY <1>1, <1>2, <1>6, SameTotals, SameResults DEF IInv
<1> QED
  BY <1>2, <1>10, <1>11, <1>12, <1>13 DEF IInv

LEMMA InitInv == Init => IInv
<1> SUFFICES ASSUME Init PROVE IInv
  OBVIOUS
<1>1. /\ pc = [p \in Parties |-> "idle"] /\ runs = [p \in Parties |-> 0]
      /\ values = [p \in Parties |-> Zero]
      /\ sum_players = [p \in Parties |-> NPlayers] /\ last_sum_players = [p \in Parties |-> NPlayers]
      /\ peer = [p \in Parties |-> 0] /\ chan = [p \in Parties |-> [q \in Parties |-> <<>>]]
      /\ results = [p \in Parties |-> <<>>]
  BY DEF Init
<1>2. NPlayers \in Nat \ {0} /\ NRuns \in Nat
  BY TreeSumAssumption
<1>3. SettingsOK
  <2>1. PICK x \in Settings : /\ opening_sum = Limit(x[1]) /\ max_broadcast = Limit(x[2])
                              /\ base_player = x[3]
    BY DEF Init
  <2>2. x[1] \in Nat /\ x[2] \in Nat /\ x[3] \in 0..(NPlayers - 1)
    BY <2>1, TreeSumAssumption
  <2>3. \A n \in Nat : Limit(n) \in Nat \ {0} /\ (NPlayers > 1 => Limit(n) > 1)
    BY <1>2 DEF Limit
  <2>4. blocking \in BOOLEAN
    BY TreeSumAssumption DEF Init
  <2> QED
    BY <2>1, <2>2, <2>3, <2>4 DEF SettingsOK, Parties
<1>4. Types
  <2>1. Zero \in Sums /\ NPlayers \in 0..NPlayers /\ 0 \in 0..NRuns /\ 0 \in Nat
    BY <1>2 DEF Zero, Sums
  <2>2. chan \in [Parties -> [Parties -> Seq(Sums)]] /\ results \in [Parties -> Seq(Sums)]
    BY <1>1
  <2>3. /\ pc \in [Parties -> {"idle", "round", "send", "add", "broadcast", "receive"}]
        /\ runs \in [Parties -> 0..NRuns] /\ values \in [Parties -> Sums]
        /\ sum_players \in [Parties -> 0..NPlayers] /\ last_sum_players \in [Parties -> 0..NPlayers]
        /\ peer \in [Parties -> Nat]
    BY <1>1, <2>1
  <2> QED
    BY <2>2, <2>3 DEF Types
<1>5. \A p \in Parties : /\ pc[p] = "idle" /\ runs[p] = 0 /\ ~Summing(p) /\ results[p] = <<>>
                         /\ \A q \in Parties : chan[p][q] = <<>>
  BY <1>1 DEF Summing
<1>6. Total = 0 /\ \A p \in Parties : ~Summer(p)
  <2>1. Total = 0
    BY <1>3, <1>5 DEF Total, SettingsOK
  <2> QED
    BY <1>5, <2>1 DEF Summer
<1>7. Places
  BY <1>5 DEF Places, Place
<1>8. InStep
  BY <1>5, <1>6 DEF InStep
<1>9. Channels
  BY <1>5, <1>6 DEF Channels, Edge, Box, Sent, Taken, Told, Got
<1>10. Shares
  <2>1. \A p \in Parties : Share(p) = Zero
    BY <1>3, <1>5, TreesHold DEF Share, Trees
  <2>2. Zero \in Sums /\ \A c \in Contributions : Zero[c] = 0
    BY DEF Zero, Sums
  <2> QED
    BY <1>6, <2>1, <2>2 DEF Shares
<1>11. Complete /\ Results
  BY <1>5 DEF Complete, Results
<1> QED
  BY <1>3, <1>4, <1>7, <1>8, <1>9, <1>10, <1>11 DEF IInv

\* The inductive invariant: where every party is decides what has been sent and taken on each
\* connection, and the shares that are kept or on the way are what has been put in, once each.
THEOREM Invariance == Spec => []IInv
<1>1. ASSUME IInv, [Next]_vars PROVE IInv'
  <2>1. CASE \E p \in Parties : Step(p)
    BY <1>1, <2>1, StepInv
  <2>2. CASE UNCHANGED vars
    BY <1>1, <2>2, Stutter
  <2> QED
    BY <1>1, <2>1, <2>2 DEF Next
<1> QED
  BY <1>1, InitInv, PTL DEF Spec

\* No connection ever holds more than one message.
LEMMA OneMessage ==
    ASSUME IInv, NEW p \in Parties, NEW q \in Parties
    PROVE  Len(chan[p][q]) = 0 \/ Len(chan[p][q]) = 1
<1>1. chan[p][q] = <<>> \/ \E v \in Sums : chan[p][q] = <<v>>
  BY DEF IInv, Channels, Edge, Box
<1>2. CASE chan[p][q] = <<>>
  BY <1>2
<1>3. CASE \E v \in Sums : chan[p][q] = <<v>>
  BY <1>3
<1> QED
  BY <1>1, <1>2, <1>3

\* TypeOK: the phases, counters and messages of TreeSum, and that connections never hold
\* more than one message.
THEOREM TypeCorrect == Spec => []TypeOK
<1>1. IInv => TypeOK
  <2> SUFFICES ASSUME IInv PROVE TypeOK
    OBVIOUS
  <2>1. ASSUME NEW p \in Parties, NEW q \in Parties PROVE Len(chan[p][q]) <= 1
    <3>1. CASE Len(chan[p][q]) = 0
      BY <3>1
    <3>2. CASE Len(chan[p][q]) = 1
      BY <3>2
    <3> QED
      BY <3>1, <3>2, OneMessage
  <2> QED
    BY <2>1 DEF IInv, Types, SettingsOK, TypeOK
<1> QED
  BY <1>1, Invariance, PTL

\* When all parties are through with the same run, all that has been sent has been taken
\* (NothingLeftOver): no value of one opening can be taken for one of the next.
THEOREM AllTaken == Spec => []NothingLeftOver
<1>1. IInv => NothingLeftOver
  <2> SUFFICES ASSUME IInv, BetweenRuns, NEW p \in Parties, NEW q \in Parties
               PROVE  chan[p][q] = <<>>
    BY DEF NothingLeftOver
  <2>1. pc[p] = "idle" /\ pc[q] = "idle"
    BY DEF BetweenRuns
  <2>2. ~Summer(p) /\ Got(q)
    BY <2>1 DEF IInv, InStep, Got
  <2> QED
    BY <2>2 DEF IInv, Channels, Edge, Sent
<1> QED
  BY <1>1, Invariance, PTL

\* What each step is in AllSum: a party begins, or it has got the sum of all values of its run.
LEMMA StepPromise ==
    ASSUME IInv, NEW p \in Parties, Step(p)
    PROVE  [Promise!Next]_Promise!vars
<1>1. UNCHANGED settings
  BY DEF Step
<1>2. CASE Begin(p)
  <2>1. Len(results[p]) = runs[p]
    <3>1. pc[p] = "idle" /\ runs[p] \in 0..NRuns /\ NRuns \in Nat
      BY <1>2, TreeSumAssumption DEF Begin, IInv, Types
    <3>2. Len(results[p]) = runs[p] - 0
      BY <3>1 DEF IInv, Results
    <3> QED
      BY <3>1, <3>2
  <2>2. Promise!Begin(p)
    BY <1>2, <2>1 DEF Begin, Promise!Begin
  <2> QED
    BY <2>2 DEF Promise!Next
<1>3. CASE Return(p)
  <2>1. values[p] = AllOf(runs[p]) /\ runs[p] = Total /\ Len(results[p]) = runs[p] - 1
    BY <1>1, <1>3, ReturnStep
  <2>2. \A q \in Parties : runs[q] \in {Total, Total + 1} /\ runs[q] \in Nat
    BY TreeSumAssumption DEF IInv, InStep, Types
  <2>3. Len(results[p]) < runs[p] /\ \A q \in Parties : runs[q] >= runs[p]
    BY <2>1, <2>2
  <2>4. values[p] = Promise!All(runs[p])
    BY <2>1 DEF AllOf, Promise!All, Contributions
  <2>5. Promise!Finish(p)
    BY <1>3, <2>3, <2>4 DEF Return, Promise!Finish
  <2> QED
    BY <2>5 DEF Promise!Next
<1>4. CASE Round(p) \/ SendUp(p) \/ AddOne(p) \/ AddedAll(p) \/ ReceiveSum(p) \/ Broadcast(p)
  BY <1>4 DEF Round, SendUp, AddOne, AddedAll, ReceiveSum, Broadcast, Promise!vars
<1> QED
  BY <1>2, <1>3, <1>4 DEF Step

\* Every run gives every party the sum of what all have put in for that run, once all have begun
\* it (ImplementsAllSum), whatever the degrees of the trees and the base player.
THEOREM AllSumImplemented == Spec => ImplementsAllSum
<1>1. Init => Promise!Init
  BY DEF Init, Promise!Init
<1>2. ASSUME IInv, [Next]_vars PROVE [Promise!Next]_Promise!vars
  <2>1. CASE \E p \in Parties : Step(p)
    BY <1>2, <2>1, StepPromise
  <2>2. CASE UNCHANGED vars
    BY <2>2 DEF vars, Promise!vars
  <2> QED
    BY <1>2, <2>1, <2>2 DEF Next
<1> QED
  BY <1>1, <1>2, Invariance, PTL DEF Spec, ImplementsAllSum, Promise!Spec
=============================================================================
