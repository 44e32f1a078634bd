---------------------------- MODULE ShuffleProofs ----------------------------
(***************************************************************************)
(* Theorems about Shuffle, for any number of items, threads and shuffles   *)
(* and any permutations.                                                   *)
(***************************************************************************)
EXTENDS Shuffle, TLAPS, FunctionTheorems, FiniteSetTheorems

-----------------------------------------------------------------------------

(* The slices: each item is in that of one thread.                         *)

Per == NPerThread(NItems, Available, 1)

LEMMA Divided ==
    ASSUME NEW n \in Nat, NEW p \in Nat \ {0}
    PROVE  /\ n \div p \in Nat /\ (n \div p) * p <= n /\ n < ((n \div p) + 1) * p
           /\ p <= n => n \div p # 0
  OBVIOUS

LEMMA Times ==
    ASSUME NEW x \in Nat, NEW y \in Nat, x <= y, NEW p \in Nat
    PROVE  x * p <= y * p /\ x * p \in Nat /\ y * p \in Nat
<1>1. PICK d \in Nat : y = x + d
  BY y - x \in Nat, y = x + (y - x)
<1>2. y * p = x * p + d * p /\ d * p \in Nat /\ x * p \in Nat
  BY <1>1
<1> QED
  BY <1>2

LEMMA PerFacts == Per \in Nat \ {0}
<1> DEFINE c == (NItems + Available) \div (Available + 1)
<1>1. c \in Nat /\ c # 0
  <2>1. /\ NItems + Available \in Nat /\ Available + 1 \in Nat \ {0}
        /\ Available + 1 <= NItems + Available
    BY ShuffleAssumption
  <2> QED
    BY <2>1, Divided
<1>2. Per = (c \div 1) * 1
  BY DEF Per, NPerThread
<1> HIDE DEF c
<1>3. (c \div 1) * 1 = c
  BY <1>1
<1> QED
  BY <1>1, <1>2, <1>3

\* As many threads get a slice as there is a whole one for.
LEMMA WorkersFacts == NWorkers \in Nat /\ NWorkers * Per \in Nat /\ NWorkers * Per <= NItems
<1> DEFINE n == NItems  k == Available
           Last(u) == /\ \A i \in 1..u : Fits(i, n, 0, Per)
                      /\ u = k \/ ~Fits(u + 1, n, 0, Per)
           q == n \div Per
           u == IF q > k THEN k ELSE q
<1>1. n \in Nat \ {0} /\ k \in Nat \ {0} /\ Per \in Nat \ {0}
  BY ShuffleAssumption, PerFacts
<1>2. NWorkers = IF Per > n THEN 0 ELSE CHOOSE v \in 0..k : Last(v)
  <2>1. 0 + Per = Per
    BY <1>1
  <2> QED
    BY <1>1, <2>1 DEF NWorkers, Used, Per
<1>3. \A i \in Nat : Fits(i, n, 0, Per) <=> i * Per <= n
  BY <1>1 DEF Fits
<1>4. q \in Nat /\ q * Per <= n /\ n < (q + 1) * Per
  BY <1>1, Divided
<1> HIDE DEF q
<1>5. u \in 0..k /\ u <= q /\ (u = k \/ u = q)
  BY <1>1, <1>4
<1>6. \A i \in 1..u : i * Per <= n
  <2> TAKE i \in 1..u
  <2>1. i \in Nat /\ i <= q
    BY <1>4, <1>5
  <2>2. i * Per <= q * Per /\ i * Per \in Nat /\ q * Per \in Nat
    BY <1>1, <1>4, <2>1, Times
  <2> QED
    BY <1>1, <1>4, <2>2
<1>7. u = q => ~((u + 1) * Per <= n)
  <2>1. (q + 1) * Per \in Nat
    BY <1>1, <1>4
  <2> QED
    BY <1>1, <1>4, <2>1
<1> HIDE DEF u
<1>8. Last(u)
  BY <1>1, <1>3, <1>5, <1>6, <1>7
<1>9. \A v \in 0..k : Last(v) => v * Per \in Nat /\ v * Per <= n
  <2> SUFFICES ASSUME NEW v \in 0..k, Last(v) PROVE v * Per \in Nat /\ v * Per <= n
    OBVIOUS
  <2>1. v \in Nat /\ v * Per \in Nat
    BY <1>1
  <2>2. CASE v = 0
    BY <1>1, <2>2
  <2>3. CASE v # 0
    BY <1>3, <2>1, <2>3
  <2> QED
    BY <2>1, <2>2, <2>3
<1> HIDE DEF Last
<1>10. CASE Per > n
  BY <1>1, <1>2, <1>10
<1>11. CASE ~(Per > n)
  <2>1. NWorkers \in 0..k /\ Last(NWorkers)
    BY <1>2, <1>5, <1>8, <1>11
  <2> QED
    BY <1>1, <1>9, <2>1
<1> QED
  BY <1>10, <1>11

LEMMA SliceIs ==
    ASSUME NEW t \in Threads
    PROVE  /\ t \in Nat
           /\ t = 0 => Slice(t) = (NWorkers * Per)..(NItems - 1)
           /\ t # 0 => t \in 1..NWorkers /\ Slice(t) = ((t - 1) * Per)..(t * Per - 1)
<1>1. NWorkers \in Nat /\ Per \in Nat /\ NWorkers * Per \in Nat
  BY WorkersFacts, PerFacts
<1>2. Start(NItems, 0, Available, 1) = NWorkers * Per
  BY <1>1 DEF Start, NWorkers, Per
<1>3. t \in Nat /\ (t # 0 => t \in 1..NWorkers)
  BY <1>1 DEF Threads
<1>4. t # 0 => (t - 1) * Per \in Nat /\ t * Per \in Nat
  BY <1>1, <1>3
<1> QED
  BY <1>1, <1>2, <1>3, <1>4 DEF Slice, Slices, Begin, End, Per

LEMMA SliceInItems == ASSUME NEW t \in Threads PROVE Slice(t) \subseteq Items
<1>1. NWorkers \in Nat /\ Per \in Nat /\ NWorkers * Per \in Nat /\ NWorkers * Per <= NItems
  BY WorkersFacts, PerFacts
<1>2. NItems \in Nat
  BY ShuffleAssumption
<1>3. CASE t = 0
  BY <1>1, <1>2, <1>3, SliceIs DEF Items
<1>4. CASE t # 0
  <2>1. t \in 1..NWorkers /\ Slice(t) = ((t - 1) * Per)..(t * Per - 1)
    BY <1>4, SliceIs
  <2>2. (t - 1) * Per \in Nat /\ t * Per \in Nat /\ t * Per <= NWorkers * Per
    BY <1>1, <2>1, Times
  <2> QED
    BY <1>1, <1>2, <2>1, <2>2 DEF Items
<1> QED
  BY <1>3, <1>4

LEMMA SlicesDisjoint ==
    ASSUME NEW t \in Threads, NEW u \in Threads, NEW j, j \in Slice(t), j \in Slice(u)
    PROVE  t = u
<1>1. NWorkers \in Nat /\ Per \in Nat /\ NWorkers * Per \in Nat
  BY WorkersFacts, PerFacts
<1>2. ASSUME NEW x \in Threads, NEW y \in Threads, x < y, j \in Slice(x), j \in Slice(y) PROVE FALSE
  <2>1. x \in Nat /\ y \in Nat /\ y # 0 /\ y \in 1..NWorkers
    BY <1>2, SliceIs
  <2>2. (y - 1) * Per \in Nat /\ y * Per \in Nat /\ y * Per <= NWorkers * Per
    BY <1>1, <2>1, Times
  <2>3. j \in Int /\ (y - 1) * Per <= j /\ j < y * Per
    BY <1>2, <2>1, <2>2, SliceIs
  <2>4. CASE x = 0
    <3>1. Slice(x) = (NWorkers * Per)..(NItems - 1)
      BY <2>4, SliceIs
    <3>2. NWorkers * Per <= j
      BY <1>1, <1>2, <2>3, <3>1, ShuffleAssumption
    <3> QED
      BY <1>1, <2>2, <2>3, <3>2
  <2>5. CASE x # 0
    <3>1. x * Per \in Nat /\ x * Per <= (y - 1) * Per
      BY <1>1, <1>2, <2>1, Times
    <3>2. (x - 1) * Per \in Nat
      BY <1>1, <2>1, <2>5
    <3>3. j < x * Per
      BY <1>2, <2>5, <3>1, <3>2, SliceIs
    <3> QED
      BY <2>2, <2>3, <3>1, <3>3
  <2> QED
    BY <2>4, <2>5
<1> QED
  BY <1>2, SliceIs

LEMMA SlicesCover == ASSUME NEW j \in Items PROVE \E t \in Threads : j \in Slice(t)
<1>1. NWorkers \in Nat /\ Per \in Nat \ {0} /\ NWorkers * Per \in Nat /\ NWorkers * Per <= NItems
  BY WorkersFacts, PerFacts
<1>2. j \in Nat /\ j < NItems /\ NItems \in Nat
  BY ShuffleAssumption DEF Items
<1>3. CASE j < NWorkers * Per
  <2> DEFINE q == j \div Per
  <2>1. q \in Nat /\ q * Per <= j /\ j < (q + 1) * Per /\ q * Per \in Nat /\ (q + 1) * Per \in Nat
    <3>1. q \in Nat /\ q * Per <= j /\ j < (q + 1) * Per
      BY <1>1, <1>2, Divided
    <3> HIDE DEF q
    <3> QED
      BY <1>1, <3>1
  <2> HIDE DEF q
  <2>2. q < NWorkers
    <3>1. NWorkers <= q => NWorkers * Per <= q * Per
      BY <1>1, <2>1, Times
    <3> QED
      BY <1>1, <1>2, <1>3, <2>1, <3>1
  <2>3. q + 1 \in Threads /\ q + 1 # 0 /\ (q + 1) - 1 = q
    BY <1>1, <2>1, <2>2 DEF Threads
  <2>4. Slice(q + 1) = (q * Per)..((q + 1) * Per - 1)
    BY <2>3, SliceIs
  <2> QED
    BY <1>2, <2>1, <2>3, <2>4
<1>4. CASE ~(j < NWorkers * Per)
  <2>1. Start(NItems, 0, Available, 1) = NWorkers * Per
    BY <1>1 DEF Start, NWorkers, Per
  <2>2. 0 \in Threads
    BY <1>1, <1>2, <1>4, <2>1 DEF Threads
  <2> QED
    BY <1>1, <1>2, <1>4, <2>2, SliceIs
<1> QED
  BY <1>3, <1>4

-----------------------------------------------------------------------------
(* The permutations.                                                       *)

LEMMA PermFacts ==
    ASSUME NEW s \in Shuffles, NEW k \in Passes
    PROVE  LET f == Perm[s][Index(s, k)]
           IN /\ Index(s, k) \in Passes
              /\ f \in [Items -> Items]
              /\ \A i, j \in Items : f[i] = f[j] => i = j
              /\ \A j \in Items : AntiFunction(f)[j] \in Items /\ AntiFunction(f)[f[j]] = j
<1> DEFINE f == Perm[s][Index(s, k)]
<1>1. Index(s, k) \in Passes
  BY DEF Index, Passes
<1>2. f \in Bijection(Items, Items)
  BY <1>1, ShuffleAssumption
<1>3. /\ f \in [Items -> Items] /\ f \in Surjection(Items, Items)
      /\ \A i, j \in Items : f[i] = f[j] => i = j
  BY <1>2, Fun_BijectionProperties
<1>4. Range(f) = Items
  BY <1>3, Fun_SurjectionProperties
<1>5. AntiFunction(f) = Inverse(f, Items, Items)
  BY <1>3, <1>4 DEF AntiFunction
<1>6. Inverse(f, Items, Items) \in [Items -> Items] /\ \A j \in Items : Inverse(f, Items, Items)[f[j]] = j
  BY <1>2, Fun_BijInverse, Fun_BijectionProperties
<1> QED
  BY <1>1, <1>3, <1>5, <1>6

\* Every position of to_share is written by one thread, from a position of to_shuffle.
LEMMA TargetsFacts ==
    ASSUME NEW s \in Shuffles, NEW k \in Passes
    PROVE  /\ \A j \in Items : Source(s, k, j) \in Items
           /\ \A j \in Items : \E t \in Threads : j \in Targets(t, s, k)
           /\ \A t, u \in Threads : \A j \in Items :
                 j \in Targets(t, s, k) /\ j \in Targets(u, s, k) => t = u
<1> DEFINE f == Perm[s][Index(s, k)]
<1>1. /\ f \in [Items -> Items] /\ \A i, j \in Items : f[i] = f[j] => i = j
      /\ \A j \in Items : Before[s][Index(s, k)][j] \in Items
      /\ Index(s, k) \in Passes
  BY PermFacts DEF Before
<1>2. \A j \in Items : \E i \in Items : f[i] = j
  BY <1>1, ShuffleAssumption, Fun_BijectionProperties
<1> HIDE DEF f
<1>3. \A t \in Threads : Slice(t) \subseteq Items
  BY SliceInItems
<1>4. \A j \in Items : Source(s, k, j) \in Items
  BY <1>1 DEF Source, f
<1>5. CASE s \in Reverse
  BY <1>4, <1>5, SlicesCover, SlicesDisjoint DEF Targets
<1>6. CASE s \notin Reverse
  <2>1. \A t \in Threads : Targets(t, s, k) = {f[i] : i \in Slice(t)}
    BY <1>6 DEF Targets, f
  <2>2. \A j \in Items : \E t \in Threads : j \in Targets(t, s, k)
    BY <1>2, <2>1, SlicesCover
  <2>3. ASSUME NEW t \in Threads, NEW u \in Threads, NEW j \in Targets(t, s, k),
               j \in Targets(u, s, k)
        PROVE  t = u
    <3>1. PICK x \in Slice(t) : f[x] = j
      BY <2>1
    <3>2. PICK y \in Slice(u) : f[y] = j
      BY <2>1, <2>3
    <3>3. x = y
      BY <1>1, <1>3, <3>1, <3>2
    <3> QED
      BY <3>3, SlicesDisjoint
  <2> QED
    BY <1>4, <2>2, <2>3
<1> QED
  BY <1>5, <1>6

-----------------------------------------------------------------------------
(* The barriers.                                                           *)

Steps == {"write", "sync written", "add", "sync added", "exchange", "finalize",
          "sync finalized", "copy", "sync copied", "done"}
Control ==
    /\ step \in [Parties -> [Threads -> Steps]]
    /\ pass \in [Parties -> [Threads -> Passes]]
    /\ current \in [Parties -> [Threads -> Shuffles]]
    /\ arrived \in [Parties -> SUBSET Threads]
    /\ sent \in [Parties -> [Threads -> 0..3]]

\* Where a thread is between two barriers: what it does there, its pass and its shuffle.
Stage(p, t) ==
    <<CASE step[p][t] \in {"write", "sync written"} -> "written"
        [] step[p][t] \in {"add", "sync added"} -> "added"
        [] step[p][t] \in {"exchange", "finalize", "sync finalized"} -> "finalized"
        [] step[p][t] \in {"copy", "sync copied"} -> "copied"
        [] OTHER -> "done", pass[p][t], current[p][t]>>

\* The one after the next barrier.
After(e) ==
    CASE e[1] = "written" -> <<"added", e[2], e[3]>>
      [] e[1] = "added" -> IF e[3] < NShuffles THEN <<"written", e[2], e[3] + 1>>
                                               ELSE <<"finalized", e[2], 1>>
      [] e[1] = "finalized" -> IF e[2] < 2 THEN <<"written", e[2] + 1, e[3]>>
                                           ELSE <<"copied", e[2], e[3]>>
      [] OTHER -> <<"done", e[2], e[3]>>

Waits(p, t) == t \in arrived[p]
Together ==
    \A p \in Parties : \A t, u \in Threads :
        /\ (Waits(p, t) <=> Waits(p, u)) => Stage(p, t) = Stage(p, u)
        /\ Waits(p, t) /\ ~Waits(p, u) => Stage(p, t) = After(Stage(p, u))
        /\ arrived[p] # Threads

\* Outside of "add" and "write" no shuffle is current; a thread has exchanged once per pass.
Exchanged(p, t) ==
    pass[p][t] + (IF step[p][t] \in {"finalize", "sync finalized", "copy", "sync copied", "done"}
                  THEN 1 ELSE 0)
Counters ==
    \A p \in Parties, t \in Threads :
        /\ sent[p][t] = Exchanged(p, t)
        /\ step[p][t] \in {"copy", "sync copied", "done"} => pass[p][t] = 2
        /\ step[p][t] \notin {"write", "sync written", "add", "sync added"} => current[p][t] = 1

LockInv == Control /\ Together /\ Counters

\* A step is one of one thread; the others it can only let go on.
OthersStay(p, t) ==
    /\ \A q \in Parties, u \in Threads : q # p \/ u # t =>
          /\ step'[q][u] = step[q][u] /\ pass'[q][u] = pass[q][u]
          /\ current'[q][u] = current[q][u] /\ sent'[q][u] = sent[q][u]
    /\ \A q \in Parties \ {p} : arrived'[q] = arrived[q]

\* What a step can change of the thread that takes it, and nothing else.
Moves(p, t) ==
    /\ \E x \in Steps : step' = [step EXCEPT ![p][t] = x]
    /\ \E x \in Passes : pass' = [pass EXCEPT ![p][t] = x]
    /\ \E x \in Shuffles : current' = [current EXCEPT ![p][t] = x]
    /\ \E x \in 0..3 : sent' = [sent EXCEPT ![p][t] = x]
    /\ arrived' = arrived \/ Arrive(p, t)

LEMMA JobMoves ==
    ASSUME LockInv, NEW p \in Parties, NEW t \in Threads, Job(p, t)
    PROVE  Moves(p, t)
<1>1. /\ pass = [pass EXCEPT ![p][t] = pass[p][t]] /\ pass[p][t] \in Passes
      /\ current = [current EXCEPT ![p][t] = current[p][t]] /\ current[p][t] \in Shuffles
      /\ sent = [sent EXCEPT ![p][t] = sent[p][t]] /\ sent[p][t] \in 0..3
  BY DEF LockInv, Control
<1>2. CASE Write(p, t) \/ Add(p, t) \/ Copy(p, t) \/ Finalize(p, t)
  <2>1. /\ \E x \in Steps : step' = [step EXCEPT ![p][t] = x]
        /\ UNCHANGED <<pass, current, sent, arrived>>
    BY <1>2 DEF Write, Add, Copy, Finalize, Goto, Steps
  <2> QED
    BY <1>1, <2>1 DEF Moves
<1>3. CASE SyncWritten(p, t) \/ SyncCopied(p, t)
  <2>1. /\ \E x \in Steps : step' = [step EXCEPT ![p][t] = x]
        /\ UNCHANGED <<pass, current, sent>> /\ Arrive(p, t)
    BY <1>3 DEF SyncWritten, SyncCopied, Goto, Steps
  <2> QED
    BY <1>1, <2>1 DEF Moves
<1>4. CASE SyncAdded(p, t)
  <2>1. current[p][t] < NShuffles => current[p][t] + 1 \in Shuffles
    BY <1>1, ShuffleAssumption DEF Shuffles
  <2>2. 1 \in Shuffles
    BY ShuffleAssumption DEF Shuffles
  <2>3. /\ \E x \in Steps : step' = [step EXCEPT ![p][t] = x]
        /\ UNCHANGED <<pass, sent>> /\ Arrive(p, t)
    BY <1>4 DEF SyncAdded, NextShuffle, Goto, Steps
  <2>4. \E x \in Shuffles : current' = [current EXCEPT ![p][t] = x]
    <3>1. \/ current[p][t] < NShuffles /\ current' = [current EXCEPT ![p][t] = current[p][t] + 1]
          \/ current' = [current EXCEPT ![p][t] = 1]
      BY <1>4 DEF SyncAdded, NextShuffle, LockInv, Control
    <3> QED
      BY <2>1, <2>2, <3>1
  <2> QED
    BY <1>1, <2>3, <2>4 DEF Moves
<1>5. CASE Exchange(p, t)
  <2>1. sent[p][t] = pass[p][t]
    <3>1. step[p][t] = "exchange"
      BY <1>5 DEF Exchange, At
    <3>2. sent[p][t] = Exchanged(p, t)
      BY DEF LockInv, Counters
    <3> QED
      BY <1>1, <3>1, <3>2 DEF Exchanged, Passes
  <2>2. sent[p][t] + 1 \in 0..3
    BY <1>1, <2>1 DEF Passes
  <2>3. /\ \E x \in Steps : step' = [step EXCEPT ![p][t] = x]
        /\ UNCHANGED <<pass, current, arrived>>
    BY <1>5 DEF Exchange, Goto, Steps
  <2>4. sent' = [sent EXCEPT ![p][t] = sent[p][t] + 1]
    BY <1>5 DEF Exchange, LockInv, Control
  <2> QED
    BY <1>1, <2>2, <2>3, <2>4 DEF Moves
<1>6. CASE SyncFinalized(p, t)
  <2>1. /\ \E x \in Steps : step' = [step EXCEPT ![p][t] = x]
        /\ UNCHANGED <<current, sent>> /\ Arrive(p, t)
    BY <1>6 DEF SyncFinalized, NextPass, Goto, Steps
  <2>2. \/ pass[p][t] < 2 /\ pass' = [pass EXCEPT ![p][t] = pass[p][t] + 1]
        \/ pass' = pass
    BY <1>6 DEF SyncFinalized, NextPass, LockInv, Control
  <2>3. pass[p][t] < 2 => pass[p][t] + 1 \in Passes
    BY <1>1 DEF Passes
  <2>4. \E x \in Passes : pass' = [pass EXCEPT ![p][t] = x]
    BY <1>1, <2>2, <2>3
  <2> QED
    BY <1>1, <2>1, <2>4 DEF Moves
<1> QED
  BY <1>2, <1>3, <1>4, <1>5, <1>6 DEF Job

LEMMA JobTypes ==
    ASSUME LockInv, NEW p \in Parties, NEW t \in Threads, Job(p, t)
    PROVE  Control' /\ OthersStay(p, t)
<1>1. Moves(p, t) /\ Control
  BY JobMoves DEF LockInv
<1>2. arrived' \in [Parties -> SUBSET Threads] /\ \A q \in Parties \ {p} : arrived'[q] = arrived[q]
  BY <1>1 DEF Moves, Control, Arrive
<1>3. /\ step' \in [Parties -> [Threads -> Steps]]
      /\ \A q \in Parties, u \in Threads : q # p \/ u # t => step'[q][u] = step[q][u]
  <2>1. PICK x \in Steps : step' = [step EXCEPT ![p][t] = x]
    BY <1>1 DEF Moves
  <2> QED
    BY <1>1, <2>1 DEF Control
<1>4. /\ pass' \in [Parties -> [Threads -> Passes]]
      /\ \A q \in Parties, u \in Threads : q # p \/ u # t => pass'[q][u] = pass[q][u]
  <2>1. PICK x \in Passes : pass' = [pass EXCEPT ![p][t] = x]
    BY <1>1 DEF Moves
  <2> QED
    BY <1>1, <2>1 DEF Control
<1>5. /\ current' \in [Parties -> [Threads -> Shuffles]]
      /\ \A q \in Parties, u \in Threads : q # p \/ u # t => current'[q][u] = current[q][u]
  <2>1. PICK x \in Shuffles : current' = [current EXCEPT ![p][t] = x]
    BY <1>1 DEF Moves
  <2> QED
    BY <1>1, <2>1 DEF Control
<1>6. /\ sent' \in [Parties -> [Threads -> 0..3]]
      /\ \A q \in Parties, u \in Threads : q # p \/ u # t => sent'[q][u] = sent[q][u]
  <2>1. PICK x \in 0..3 : sent' = [sent EXCEPT ![p][t] = x]
    BY <1>1 DEF Moves
  <2> QED
    BY <1>1, <2>1 DEF Control
<1> QED
  BY <1>2, <1>3, <1>4, <1>5, <1>6 DEF Control, OthersStay

\* What a step makes of the thread that takes it.
Becomes(p, t, from, to, k, s, n) ==
    /\ step[p][t] = from /\ step'[p][t] = to
    /\ pass'[p][t] = k /\ current'[p][t] = s /\ sent'[p][t] = n
Outcome(p, t) ==
    LET k == pass[p][t]
        s == current[p][t]
        n == sent[p][t]
    IN \/ /\ arrived' = arrived
          /\ \/ Becomes(p, t, "write", "sync written", k, s, n)
             \/ Becomes(p, t, "add", "sync added", k, s, n)
             \/ Becomes(p, t, "exchange", "finalize", k, s, n + 1)
             \/ Becomes(p, t, "finalize", "sync finalized", k, s, n)
             \/ Becomes(p, t, "copy", "sync copied", k, s, n)
       \/ /\ Arrive(p, t)
          /\ \/ Becomes(p, t, "sync written", "add", k, s, n)
             \/ s < NShuffles /\ Becomes(p, t, "sync added", "write", k, s + 1, n)
             \/ ~(s < NShuffles) /\ Becomes(p, t, "sync added", "exchange", k, 1, n)
             \/ k < 2 /\ Becomes(p, t, "sync finalized", "write", k + 1, s, n)
             \/ ~(k < 2) /\ Becomes(p, t, "sync finalized", "copy", k, s, n)
             \/ Becomes(p, t, "sync copied", "done", k, s, n)

LEMMA JobOutcome ==
    ASSUME LockInv, NEW p \in Parties, NEW t \in Threads, Job(p, t)
    PROVE  t \notin arrived[p] /\ Outcome(p, t)
<1>1. t \notin arrived[p]
  BY DEF Job, At, Write, SyncWritten, Add, SyncAdded, Exchange, Finalize, SyncFinalized, Copy,
         SyncCopied
<1>2. \A x : Goto(p, t, x) => step'[p][t] = x
  BY DEF Goto, LockInv, Control
<1>3. CASE Write(p, t)
  BY <1>2, <1>3 DEF Write, At, Becomes, Outcome
<1>4. CASE SyncWritten(p, t)
  BY <1>2, <1>4 DEF SyncWritten, At, Becomes, Outcome
<1>5. CASE Add(p, t)
  BY <1>2, <1>5 DEF Add, At, Becomes, Outcome
<1>6. CASE SyncAdded(p, t)
  <2>1. \A x : current' = [current EXCEPT ![p][t] = x] => current'[p][t] = x
    BY DEF LockInv, Control
  <2>2. /\ step[p][t] = "sync added" /\ Arrive(p, t)
        /\ pass'[p][t] = pass[p][t] /\ sent'[p][t] = sent[p][t]
    BY <1>6 DEF SyncAdded, At
  <2>3. \/ /\ current[p][t] < NShuffles /\ step'[p][t] = "write"
           /\ current'[p][t] = current[p][t] + 1
        \/ ~(current[p][t] < NShuffles) /\ step'[p][t] = "exchange" /\ current'[p][t] = 1
    BY <1>2, <1>6, <2>1 DEF SyncAdded, NextShuffle
  <2> QED
    BY <1>1, <2>2, <2>3 DEF Becomes, Outcome
<1>7. CASE Exchange(p, t)
  <2>1. sent'[p][t] = sent[p][t] + 1
    BY <1>7 DEF Exchange, LockInv, Control
  <2> QED
    BY <1>2, <1>7, <2>1 DEF Exchange, At, Becomes, Outcome
<1>8. CASE Finalize(p, t)
  BY <1>2, <1>8 DEF Finalize, At, Becomes, Outcome
<1>9. CASE SyncFinalized(p, t)
  <2>1. \A x : pass' = [pass EXCEPT ![p][t] = x] => pass'[p][t] = x
    BY DEF LockInv, Control
  <2>2. /\ step[p][t] = "sync finalized" /\ Arrive(p, t)
        /\ current'[p][t] = current[p][t] /\ sent'[p][t] = sent[p][t]
    BY <1>9 DEF SyncFinalized, At
  <2>3. \/ pass[p][t] < 2 /\ step'[p][t] = "write" /\ pass'[p][t] = pass[p][t] + 1
        \/ ~(pass[p][t] < 2) /\ step'[p][t] = "copy" /\ pass'[p][t] = pass[p][t]
    BY <1>2, <1>9, <2>1 DEF SyncFinalized, NextPass
  <2> QED
    BY <1>1, <2>2, <2>3 DEF Becomes, Outcome
<1>10. CASE Copy(p, t)
  BY <1>2, <1>10 DEF Copy, At, Becomes, Outcome
<1>11. CASE SyncCopied(p, t)
  BY <1>2, <1>11 DEF SyncCopied, At, Becomes, Outcome
<1> QED
  BY <1>1, <1>3, <1>4, <1>5, <1>6, <1>7, <1>8, <1>9, <1>10, <1>11 DEF Job

\* It arrives at a barrier and goes on to the stage after it, or stays in its stage.
LEMMA JobStage ==
    ASSUME LockInv, NEW p \in Parties, NEW t \in Threads, Job(p, t)
    PROVE  \/ arrived' = arrived /\ Stage(p, t)' = Stage(p, t)
           \/ Arrive(p, t) /\ Stage(p, t)' = After(Stage(p, t))
<1>1. Outcome(p, t)
  BY JobOutcome
<1>2. CASE arrived' = arrived /\ ~Arrive(p, t)
  BY <1>1, <1>2 DEF Outcome, Becomes, Stage
<1>3. CASE Arrive(p, t)
  BY <1>1, <1>3 DEF Outcome, Becomes, Stage, After
<1> QED
  BY <1>1, <1>2, <1>3 DEF Outcome

LEMMA JobTogether ==
    ASSUME LockInv, NEW p \in Parties, NEW t \in Threads, Job(p, t)
    PROVE  Together'
<1>1. OthersStay(p, t)
  BY JobTypes
<1>2. \A q \in Parties, u \in Threads : q # p \/ u # t => Stage(q, u)' = Stage(q, u)
  BY <1>1 DEF OthersStay, Stage
<1>3. /\ t \notin arrived[p] /\ arrived[p] \subseteq Threads
      /\ \A q \in Parties : arrived[q] # Threads
      /\ \A u, v \in Threads : (Waits(p, u) <=> Waits(p, v)) => Stage(p, u) = Stage(p, v)
      /\ \A u, v \in Threads : Waits(p, u) /\ ~Waits(p, v) => Stage(p, u) = After(Stage(p, v))
  BY JobOutcome DEF LockInv, Control, Together
<1>4. ASSUME NEW q \in Parties \ {p}, NEW u \in Threads, NEW v \in Threads
      PROVE  /\ (Waits(q, u) <=> Waits(q, v))' => Stage(q, u)' = Stage(q, v)'
             /\ (Waits(q, u) /\ ~Waits(q, v))' => Stage(q, u)' = After(Stage(q, v))'
             /\ arrived'[q] # Threads
  <2>1. arrived'[q] = arrived[q]
    BY <1>1 DEF OthersStay
  <2>2. Stage(q, u)' = Stage(q, u) /\ Stage(q, v)' = Stage(q, v)
    BY <1>2
  <2>3. After(Stage(q, v))' = After(Stage(q, v))
    BY <2>2 DEF After
  <2> QED
    BY <1>3, <2>1, <2>2, <2>3 DEF LockInv, Together, Waits
<1>5. ASSUME NEW u \in Threads, NEW v \in Threads
      PROVE  /\ (Waits(p, u) <=> Waits(p, v))' => Stage(p, u)' = Stage(p, v)'
             /\ (Waits(p, u) /\ ~Waits(p, v))' => Stage(p, u)' = After(Stage(p, v)')
             /\ arrived'[p] # Threads
  <2>1. CASE arrived' = arrived /\ Stage(p, t)' = Stage(p, t)
    <3>1. Stage(p, u)' = Stage(p, u) /\ Stage(p, v)' = Stage(p, v)
      BY <1>2, <2>1
    <3> QED
      BY <1>3, <2>1, <3>1 DEF Waits
  <2>2. CASE Arrive(p, t) /\ Stage(p, t)' = After(Stage(p, t))
    <3>1. arrived'[p] = IF arrived[p] \union {t} = Threads THEN {} ELSE arrived[p] \union {t}
      BY <2>2 DEF Arrive, LockInv, Control
    <3>2. \A x \in Threads : Waits(p, x) \/ x = t => Stage(p, x)' = After(Stage(p, t))
      BY <1>2, <1>3, <2>2 DEF Waits
    <3>3. \A x \in Threads : ~Waits(p, x) /\ x # t => Stage(p, x)' = Stage(p, t)
      BY <1>2, <1>3 DEF Waits
    <3>4. CASE arrived[p] \union {t} = Threads
      BY <3>1, <3>2, <3>4 DEF Waits
    <3>5. CASE arrived[p] \union {t} # Threads
      BY <3>1, <3>2, <3>3, <3>5 DEF Waits
    <3> QED
      BY <3>4, <3>5
  <2> QED
    BY <2>1, <2>2, JobStage
<1> QED
  BY <1>4, <1>5 DEF Together, After

LEMMA JobCounters ==
    ASSUME LockInv, NEW p \in Parties, NEW t \in Threads, Job(p, t)
    PROVE  Counters'
<1>1. OthersStay(p, t)
  BY JobTypes
<1>2. ASSUME NEW q \in Parties, NEW u \in Threads, q # p \/ u # t
      PROVE  /\ sent'[q][u] = Exchanged(q, u)'
             /\ step'[q][u] \in {"copy", "sync copied", "done"} => pass'[q][u] = 2
             /\ step'[q][u] \notin {"write", "sync written", "add", "sync added"} => current'[q][u] = 1
  <2>1. /\ step'[q][u] = step[q][u] /\ pass'[q][u] = pass[q][u]
        /\ current'[q][u] = current[q][u] /\ sent'[q][u] = sent[q][u]
    BY <1>1, <1>2 DEF OthersStay
  <2>2. Exchanged(q, u)' = Exchanged(q, u)
    BY <2>1 DEF Exchanged
  <2> QED
    BY <2>1, <2>2 DEF LockInv, Counters
<1>3. /\ sent'[p][t] = Exchanged(p, t)'
      /\ step'[p][t] \in {"copy", "sync copied", "done"} => pass'[p][t] = 2
      /\ step'[p][t] \notin {"write", "sync written", "add", "sync added"} => current'[p][t] = 1
  <2>1. Outcome(p, t)
    BY JobOutcome
  <2>2. pass[p][t] \in 0..2 /\ sent[p][t] \in 0..3 /\ sent[p][t] = Exchanged(p, t)
    BY DEF LockInv, Control, Counters, Passes
  <2>3. /\ step[p][t] \in {"copy", "sync copied", "done"} => pass[p][t] = 2
        /\ step[p][t] \notin {"write", "sync written", "add", "sync added"} => current[p][t] = 1
    BY DEF LockInv, Counters
  <2> DEFINE n == sent[p][t]  k == pass[p][t]  r == current[p][t]
  <2>5. CASE Becomes(p, t, "write", "sync written", k, r, n)
    BY <2>2, <2>3, <2>5 DEF Becomes, Exchanged
  <2>6. CASE Becomes(p, t, "add", "sync added", k, r, n)
    BY <2>2, <2>3, <2>6 DEF Becomes, Exchanged
  <2>7. CASE Becomes(p, t, "exchange", "finalize", k, r, n + 1)
    <3>1. n = k
      BY <2>2, <2>7 DEF Becomes, Exchanged
    <3>2. n + 1 \in Nat /\ n + 1 = k + 1 /\ r = 1
      BY <2>2, <2>3, <2>7, <3>1 DEF Becomes
    <3>3. /\ step'[p][t] = "finalize"
          /\ pass'[p][t] = k /\ current'[p][t] = r /\ sent'[p][t] = n + 1
      BY <2>7 DEF Becomes
    <3> QED
      BY <2>2, <3>2, <3>3 DEF Exchanged
  <2>8. CASE Becomes(p, t, "finalize", "sync finalized", k, r, n)
    BY <2>2, <2>3, <2>8 DEF Becomes, Exchanged
  <2>9. CASE Becomes(p, t, "copy", "sync copied", k, r, n)
    BY <2>2, <2>3, <2>9 DEF Becomes, Exchanged
  <2>10. CASE Becomes(p, t, "sync written", "add", k, r, n)
    BY <2>2, <2>3, <2>10 DEF Becomes, Exchanged
  <2>11. CASE Becomes(p, t, "sync added", "write", k, r + 1, n)
    BY <2>2, <2>3, <2>11 DEF Becomes, Exchanged
  <2>12. CASE Becomes(p, t, "sync added", "exchange", k, 1, n)
    BY <2>2, <2>3, <2>12 DEF Becomes, Exchanged
  <2>13. CASE k < 2 /\ Becomes(p, t, "sync finalized", "write", k + 1, r, n)
    <3>1. n = k + 1
      BY <2>2, <2>13 DEF Becomes, Exchanged
    <3>2. k + 1 \in 0..2
      <4>1. k < 2
        BY <2>13
      <4> QED
        BY <2>2, <4>1
    <3>3. /\ step'[p][t] = "write"
          /\ pass'[p][t] = k + 1 /\ current'[p][t] = r /\ sent'[p][t] = n
      BY <2>13 DEF Becomes
    <3> QED
      BY <3>1, <3>2, <3>3 DEF Exchanged
  <2>14. CASE ~(k < 2) /\ Becomes(p, t, "sync finalized", "copy", k, r, n)
    <3>1. n = k + 1 /\ r = 1
      BY <2>2, <2>3, <2>14 DEF Becomes, Exchanged
    <3>2. k = 2
      <4>1. ~(k < 2)
        BY <2>14
      <4> QED
        BY <2>2, <4>1
    <3>3. /\ step'[p][t] = "copy"
          /\ pass'[p][t] = k /\ current'[p][t] = r /\ sent'[p][t] = n
      BY <2>14 DEF Becomes
    <3> QED
      BY <3>1, <3>2, <3>3 DEF Exchanged
  <2>15. CASE Becomes(p, t, "sync copied", "done", k, r, n)
    BY <2>2, <2>3, <2>15 DEF Becomes, Exchanged
  <2> QED
    BY <2>1, <2>5, <2>6, <2>7, <2>8, <2>9, <2>10, <2>11, <2>12, <2>13, <2>14, <2>15 DEF Outcome
<1> QED
  BY <1>2, <1>3 DEF Counters

LEMMA LockInit == Init => LockInv
<1>1. Threads # {}
  <2>1. 0 \in Items
    BY ShuffleAssumption DEF Items
  <2> QED
    BY <2>1, SlicesCover
<1>2. 1 \in Shuffles /\ 0 \in Passes /\ 0 \in 0..3
  BY ShuffleAssumption DEF Shuffles, Passes
<1>3. Init => Control
  BY <1>2 DEF Init, Control, Steps
<1>4. Init => Together
  BY <1>1 DEF Init, Together, Stage, Waits
<1>5. Init => Counters
  BY DEF Init, Counters, Exchanged
<1> QED
  BY <1>3, <1>4, <1>5 DEF LockInv

LEMMA LockStep == LockInv /\ [Next]_vars => LockInv'
<1>1. ASSUME LockInv, NEW p \in Parties, NEW t \in Threads, Job(p, t) PROVE LockInv'
  BY <1>1, JobTypes, JobTogether, JobCounters DEF LockInv
<1>2. ASSUME LockInv, UNCHANGED vars PROVE LockInv'
  <2>1. /\ \A p \in Parties, t \in Threads : /\ Stage(p, t)' = Stage(p, t)
                                             /\ Exchanged(p, t)' = Exchanged(p, t)
        /\ UNCHANGED threadVars /\ UNCHANGED sent
    BY <1>2 DEF vars, threadVars, Stage, Exchanged
  <2>2. Control => Control'
    BY <2>1 DEF Control, threadVars
  <2>3. Together => Together'
    <3>1. \A p \in Parties, t \in Threads : After(Stage(p, t))' = After(Stage(p, t))
      BY <2>1 DEF After
    <3> QED
      BY <2>1, <3>1 DEF Together, Waits, threadVars
  <2>4. Counters => Counters'
    BY <2>1 DEF Counters, threadVars
  <2> QED
    BY <1>2, <2>2, <2>3, <2>4 DEF LockInv
<1> QED
  BY <1>1, <1>2 DEF Next

LEMMA LockInvariance == Spec => []LockInv
  BY LockInit, LockStep, PTL DEF Spec

\* Threads that can go on are at the same place between two barriers.
LEMMA SameStage ==
    ASSUME LockInv, NEW p \in Parties, NEW t \in Threads, NEW u \in Threads,
           t \notin arrived[p], u \notin arrived[p]
    PROVE  /\ pass[p][t] = pass[p][u] /\ current[p][t] = current[p][u]
           /\ step[p][t] \in {"write", "sync written"} <=> step[p][u] \in {"write", "sync written"}
           /\ step[p][t] \in {"add", "sync added"} <=> step[p][u] \in {"add", "sync added"}
           /\ step[p][t] \in {"exchange", "finalize", "sync finalized"} <=>
                 step[p][u] \in {"exchange", "finalize", "sync finalized"}
           /\ step[p][t] \in {"copy", "sync copied"} <=> step[p][u] \in {"copy", "sync copied"}
<1>1. Stage(p, t) = Stage(p, u)
  BY DEF LockInv, Together, Waits
<1> QED
  BY <1>1 DEF Stage, LockInv, Control, Steps

\* No two threads of a party access the same place of to_share or to_shuffle at the
\* same time, one of them writing (NoRace): what Rep3Shuffler leaves to the barriers.
THEOREM BarriersSuffice == Spec => []NoRace
<1>1. ASSUME LockInv, NEW p \in Parties, NEW t \in Threads, NEW u \in Threads, t # u,
             NEW c \in Writes(p, t), c \in Reads(p, u) \union Writes(p, u)
      PROVE  FALSE
  <2> DEFINE s == current[p][t]  k == pass[p][t]
  <2>0. s \in Shuffles /\ k \in Passes
    BY <1>1 DEF LockInv, Control
  <2>1. At(p, t, "write") \/ At(p, t, "add") \/ At(p, t, "finalize")
    BY <1>1 DEF Writes
  <2>2. At(p, u, "write") \/ At(p, u, "add") \/ At(p, u, "copy") \/ At(p, u, "finalize")
    BY <1>1 DEF Reads, Writes
  <2>3. t \notin arrived[p] /\ u \notin arrived[p]
    BY <2>1, <2>2 DEF At
  <2>4. pass[p][u] = k /\ current[p][u] = s
    BY <1>1, <2>3, SameStage
  <2>5. CASE At(p, t, "write")
    <3>1. At(p, u, "write")
      BY <1>1, <2>2, <2>3, <2>5, SameStage DEF At
    <3>2. PICK j \in Targets(t, s, k) : c = <<"to_share", 0, j>>
      BY <1>1, <2>5 DEF Writes, Cells, At
    <3>3. c \in Writes(p, u)
      BY <1>1, <3>1, <3>2 DEF Reads, Cells, At
    <3>4. j \in Targets(u, s, k)
      BY <2>4, <3>1, <3>2, <3>3 DEF Writes, Cells, At
    <3>5. j \in Items
      BY <2>0, <3>2, SliceInItems, PermFacts DEF Targets
    <3> QED
      BY <1>1, <2>0, <3>2, <3>4, <3>5, TargetsFacts
  <2>6. CASE At(p, t, "finalize")
    <3>1. At(p, u, "finalize")
      BY <1>1, <2>2, <2>3, <2>6, SameStage DEF At
    <3>2. PICK r \in Shuffles, j \in Slice(t) : c = <<"to_shuffle", r, j>>
      BY <1>1, <2>6 DEF Writes, Cells, At
    <3>3. j \in Slice(u)
      BY <1>1, <3>1, <3>2 DEF Reads, Writes, Cells, At
    <3> QED
      BY <1>1, <3>2, <3>3, SlicesDisjoint
  <2>7. CASE At(p, t, "add")
    <3>1. At(p, u, "add")
      BY <1>1, <2>2, <2>3, <2>7, SameStage DEF At
    <3>2. PICK j \in Slice(t) : c = <<"to_shuffle", s, j>>
      BY <1>1, <2>7 DEF Writes, Cells, At
    <3>3. j \in Slice(u)
      BY <1>1, <3>1, <3>2 DEF Reads, Writes, Cells, At
    <3> QED
      BY <1>1, <3>2, <3>3, SlicesDisjoint
  <2> QED
    BY <2>1, <2>5, <2>6, <2>7
<1>2. LockInv => NoRace
  BY <1>1 DEF NoRace
<1> QED
  BY <1>2, LockInvariance, PTL

-----------------------------------------------------------------------------
(* The data.                                                               *)

\* The item that is at a position after the first k passes, as its first position.
Origin(s, k, j) ==
    CASE k = 0 -> j
      [] k = 1 -> Source(s, 0, j)
      [] k = 2 -> Source(s, 0, Source(s, 1, j))
      [] OTHER -> Source(s, 0, Source(s, 1, Source(s, 2, j)))
Right(s, k, j) == Item(s, Origin(s, k, j))

\* The passes a thread has finished.
Finalized(p, t) ==
    pass[p][t] + (IF step[p][t] \in {"sync finalized", "copy", "sync copied", "done"} THEN 1 ELSE 0)

\* The threads that have left a contribution in their slice for the present pass.
Contributed(p, t, s) ==
    /\ Knows(p, s, pass[p][t])
    /\ \/ step[p][t] \in {"exchange", "finalize"}
       \/ step[p][t] \in {"write", "sync written", "add", "sync added"} /\ s < current[p][t]
       \/ step[p][t] = "sync added" /\ s = current[p][t]
SliceIsRight(p, t, s, j) ==
    to_shuffle[p][s][j] = IF Contributed(p, t, s) THEN Part(Right(s, pass[p][t] + 1, j))
                          ELSE Right(s, Finalized(p, t), j)
ShuffledSoFar ==
    \A p \in Parties, t \in Threads : \A s \in Shuffles : \A j \in Slice(t) : SliceIsRight(p, t, s, j)

\* A thread that has written to to_share, up to when it adds; and when all have written.
HasWritten(p, t) ==
    \/ step[p][t] = "sync written" /\ ~Waits(p, t)
    \/ step[p][t] = "add" /\ Waits(p, t)
ToShare ==
    \A p \in Parties, t \in Threads :
        LET s == current[p][t]
            k == pass[p][t]
        IN Knows(p, s, k) =>
             /\ HasWritten(p, t) => \A j \in Targets(t, s, k) : to_share[p][j] = Right(s, k + 1, j)
             /\ At(p, t, "add") => \A j \in Items : to_share[p][j] = Right(s, k + 1, j)

\* What a thread has added to the input.
HasAdded(p, t, k, s) ==
    \/ k < sent[p][t]
    \/ /\ k = sent[p][t] /\ k = pass[p][t]
       /\ \/ s < current[p][t]
          \/ step[p][t] = "exchange"
          \/ s = current[p][t] /\ step[p][t] = "sync added"
Input ==
    \A p \in Parties, t \in Threads : \A k \in Passes, s \in Shuffles : \A j \in Slice(t) :
        HasAdded(p, t, k, s) /\ Knows(p, s, k) => input[p][t][k][s][j] = Right(s, k + 1, j)

Copied ==
    \A p \in Parties, t \in Threads : \A s \in Shuffles : \A j \in Slice(t) :
        step[p][t] \in {"sync copied", "done"} => a[p][s][j] = Right(s, 3, j)

DataInv == ShuffledSoFar /\ ToShare /\ Input /\ Copied


\* A thread blocked in a barrier has gone on to the step after it.
Blocked ==
    \A p \in Parties, t \in Threads :
        Waits(p, t) => step[p][t] \in {"write", "add", "exchange", "copy", "done"}

Inputs == UNION {[Slice(t) -> Values] : t \in Threads}
DataTypes ==
    /\ to_shuffle \in [Parties -> [Shuffles -> [Items -> Contents]]]
    /\ to_share \in [Parties -> [Items -> Values]]
    /\ input \in [Parties -> [Threads -> [Passes -> [Shuffles -> Inputs]]]]
    /\ \A p \in Parties, t \in Threads, k \in Passes, s \in Shuffles :
          input[p][t][k][s] \in [Slice(t) -> Values]
    /\ a \in [Parties -> [Shuffles -> [Items -> Contents]]]

IInv == LockInv /\ Blocked /\ DataTypes /\ DataInv

\* An item after a pass is what was before it at the source of its position.
LEMMA RightFacts ==
    ASSUME NEW s \in Shuffles, NEW k \in Passes, NEW j \in Items
    PROVE  /\ Right(s, k + 1, j) = Right(s, k, Source(s, k, j))
           /\ Right(s, k, j) \in Shuffles \X Items /\ Right(s, k + 1, j) \in Shuffles \X Items
           /\ Right(s, k, j) \in Values /\ Right(s, k + 1, j) \in Values
<1>1. \A m \in Passes, i \in Items : Source(s, m, i) \in Items
  BY TargetsFacts
<1>2. 0 \in Passes /\ 1 \in Passes /\ 2 \in Passes
  BY DEF Passes
<1>3. \A i \in Items : /\ Origin(s, 0, i) = i /\ Origin(s, 1, i) = Source(s, 0, i)
                       /\ Origin(s, 2, i) = Source(s, 0, Source(s, 1, i))
                       /\ Origin(s, 3, i) = Source(s, 0, Source(s, 1, Source(s, 2, i)))
  BY DEF Origin
<1>4. k = 0 \/ k = 1 \/ k = 2
  BY DEF Passes
<1>5. Origin(s, k + 1, j) = Origin(s, k, Source(s, k, j))
  BY <1>1, <1>2, <1>3, <1>4
<1>6. Origin(s, k, j) \in Items /\ Origin(s, k + 1, j) \in Items
  <2>1. Source(s, 0, j) \in Items /\ Source(s, 0, Source(s, 1, j)) \in Items
    BY <1>1, <1>2
  <2>2. Source(s, 0, Source(s, 1, Source(s, 2, j))) \in Items
    BY <1>1, <1>2
  <2>3. 0 + 1 = 1 /\ 1 + 1 = 2 /\ 2 + 1 = 3
    OBVIOUS
  <2> QED
    BY <1>3, <1>4, <2>1, <2>2, <2>3
<1> QED
  BY <1>5, <1>6 DEF Right, Item, Values

\* Of two parties in a row the second has the next role.
LEMMA Roles ==
    ASSUME NEW p \in Parties, NEW s \in Shuffles, NEW k \in Passes
    PROVE  /\ Following(p) \in Parties /\ Role(p, s, k) \in 0..2
           /\ Role(p, s, k) = 0 => Role(Following(p), s, k) = 1
           /\ Role(p, s, k) = 2 => Role(Following(p), s, k) = 0
<1> DEFINE i == Index(s, k)
<1>1. (i = 0 \/ i = 1 \/ i = 2) /\ (p = 0 \/ p = 1 \/ p = 2)
  BY PermFacts DEF Passes, Parties
<1>2. Role(p, s, k) = (p + i) % 3 /\ Role(Following(p), s, k) = (((p + 1) % 3) + i) % 3
  BY DEF Role, Following
<1> HIDE DEF i
<1> QED
  BY <1>1, <1>2 DEF Following, Parties

\* What finalize makes of contributions that are right.
LEMMA SumFact ==
    ASSUME IInv, NEW p \in Parties, NEW t \in Threads, Finalize(p, t),
           NEW s \in Shuffles, NEW j \in Slice(t)
    PROVE  Sum(p, t, s, pass[p][t], j) = Right(s, pass[p][t] + 1, j)
<1> DEFINE k == pass[p][t]  v == Right(s, k + 1, j)  f == Following(p)
           own == to_shuffle[p][s][j]  message == input[f][t][k][s][j]
<1>0. /\ LockInv /\ Input /\ ShuffledSoFar /\ k \in Passes /\ j \in Items
      /\ step[p][t] = "finalize" /\ Received(p, t)
  BY SliceInItems DEF IInv, DataInv, LockInv, Control, Finalize, At
<1>1. v \in Values
  BY <1>0, RightFacts
<1>2. /\ f \in Parties /\ Role(p, s, k) \in 0..2
      /\ Role(p, s, k) = 0 => Role(f, s, k) = 1
      /\ Role(p, s, k) = 2 => Role(f, s, k) = 0
  BY <1>0, Roles
<1>3. Knows(p, s, k) => own = Part(v)
  BY <1>0 DEF ShuffledSoFar, SliceIsRight, Contributed
<1>4. Knows(f, s, k) => message = v
  <2> SUFFICES ASSUME Knows(f, s, k) PROVE message = v
    OBVIOUS
  <2>1. sent[f][t] > k
    BY <1>0 DEF Received
  <2>2. HasAdded(f, t, k, s)
    BY <1>0, <1>2, <2>1 DEF HasAdded, LockInv, Control, Passes
  <2> QED
    BY <1>0, <1>2, <2>2 DEF Input
<1>5. Sum(p, t, s, k, j) = CASE Role(p, s, k) = 0 -> IF own = Part(message) THEN message ELSE Unset
                             [] Role(p, s, k) = 1 -> IF own \in {Part(w) : w \in Values} THEN own[1] ELSE Unset
                             [] Role(p, s, k) = 2 -> message
  BY DEF Sum
<1> HIDE DEF k, v, f, own, message
<1>6. CASE Role(p, s, k) = 0
  <2>1. own = Part(v) /\ message = v
    BY <1>2, <1>3, <1>4, <1>6 DEF Knows
  <2> QED
    BY <1>5, <1>6, <2>1 DEF v, k
<1>7. CASE Role(p, s, k) = 1
  <2>1. own = Part(v) /\ own[1] = v
    BY <1>3, <1>7 DEF Knows, Part
  <2> QED
    BY <1>1, <1>5, <1>7, <2>1 DEF v, k
<1>8. CASE Role(p, s, k) = 2
  <2>1. message = v
    BY <1>2, <1>4, <1>8 DEF Knows
  <2> QED
    BY <1>5, <1>8, <2>1 DEF v, k
<1> QED
  BY <1>2, <1>6, <1>7, <1>8

LEMMA JobBlocked ==
    ASSUME LockInv, Blocked, NEW p \in Parties, NEW t \in Threads, Job(p, t)
    PROVE  Blocked'
<1>1. OthersStay(p, t) /\ Outcome(p, t) /\ t \notin arrived[p]
  BY JobTypes, JobOutcome
<1>2. ASSUME NEW q \in Parties, NEW u \in Threads, q # p \/ u # t, Waits(q, u)'
      PROVE  step'[q][u] \in {"write", "add", "exchange", "copy", "done"}
  <2>1. step'[q][u] = step[q][u]
    BY <1>1, <1>2 DEF OthersStay
  <2>2. Waits(q, u)
    BY <1>1, <1>2 DEF OthersStay, Waits, Outcome, Arrive, LockInv, Control
  <2> QED
    BY <2>1, <2>2 DEF Blocked
<1>3. ASSUME Waits(p, t)'
      PROVE  step'[p][t] \in {"write", "add", "exchange", "copy", "done"}
  <2>1. arrived' # arrived
    BY <1>1, <1>3 DEF Waits
  <2> QED
    BY <1>1, <2>1 DEF Outcome, Becomes
<1> QED
  BY <1>2, <1>3 DEF Blocked

LEMMA JobDataTypes ==
    ASSUME IInv, NEW p \in Parties, NEW t \in Threads, Job(p, t)
    PROVE  DataTypes'
<1> DEFINE s == current[p][t]  k == pass[p][t]
<1>0. /\ LockInv /\ DataTypes /\ Input /\ s \in Shuffles /\ k \in Passes /\ Slice(t) \subseteq Items
  BY SliceInItems DEF IInv, LockInv, Control, DataInv
<1>1. CASE Write(p, t)
  <2>1. \A j \in Items : Whole(to_shuffle[p][s][Source(s, k, j)]) \in Values
    BY DEF Whole, Values
  <2>2. /\ UNCHANGED <<to_shuffle, input, a>>
        /\ to_share' = [to_share EXCEPT ![p] = [j \in Items |->
                          IF Knows(p, s, k) /\ j \in Targets(t, s, k)
                          THEN Whole(to_shuffle[p][s][Source(s, k, j)]) ELSE to_share[p][j]]]
    BY <1>1 DEF Write
  <2>3. to_share' \in [Parties -> [Items -> Values]]
    BY <1>0, <2>1, <2>2 DEF DataTypes
  <2> QED
    BY <1>0, <2>2, <2>3 DEF DataTypes
<1>2. CASE SyncWritten(p, t) \/ SyncAdded(p, t) \/ Exchange(p, t) \/ SyncFinalized(p, t) \/ SyncCopied(p, t)
  <2>1. UNCHANGED <<to_shuffle, to_share, input, a>>
    BY <1>2 DEF SyncWritten, SyncAdded, Exchange, SyncFinalized, SyncCopied
  <2> QED
    BY <1>0, <2>1 DEF DataTypes
<1>3. CASE Add(p, t)
  <2>1. UNCHANGED <<to_share, a>>
    BY <1>3 DEF Add
  <2> DEFINE new == [j \in Slice(t) |-> to_share[p][j]]
  <2>2. new \in [Slice(t) -> Values]
    BY <1>0 DEF DataTypes
  <2>3. input' = [input EXCEPT ![p][t][k][s] = new] \/ input' = input
    BY <1>3 DEF Add
  <2>4. new \in Inputs
    BY <2>2 DEF Inputs
  <2>9. to_shuffle' \in [Parties -> [Shuffles -> [Items -> Contents]]]
    <3>1. \A j \in Items : Part(to_share[p][j]) \in Contents
      BY <1>0 DEF DataTypes, Contents
    <3>2. \/ to_shuffle' = to_shuffle
          \/ to_shuffle' = [to_shuffle EXCEPT ![p][s] = [j \in Items |->
                                IF j \in Slice(t) THEN Part(to_share[p][j]) ELSE to_shuffle[p][s][j]]]
      BY <1>0, <1>3 DEF Add, DataTypes
    <3> DEFINE g == [j \in Items |-> IF j \in Slice(t) THEN Part(to_share[p][j]) ELSE to_shuffle[p][s][j]]
    <3>3. g \in [Items -> Contents]
      BY <1>0, <3>1 DEF DataTypes
    <3>4. to_shuffle' = to_shuffle \/ to_shuffle' = [to_shuffle EXCEPT ![p][s] = g]
      BY <3>2
    <3> HIDE DEF g
    <3>5. PICK r \in Shuffles : r = s
      BY <1>0
    <3>6. to_shuffle \in [Parties -> [Shuffles -> [Items -> Contents]]]
      BY <1>0 DEF DataTypes
    <3> HIDE DEF s, new
    <3>7. CASE to_shuffle' = [to_shuffle EXCEPT ![p][r] = g]
      BY <3>3, <3>6, <3>7
    <3> QED
      BY <3>4, <3>5, <3>6, <3>7
  <2> HIDE DEF new, s, k
  <2>7. input \in [Parties -> [Threads -> [Passes -> [Shuffles -> Inputs]]]]
    BY <1>0 DEF DataTypes
  <2>8. ASSUME input' = [input EXCEPT ![p][t][k][s] = new]
        PROVE  /\ input' \in [Parties -> [Threads -> [Passes -> [Shuffles -> Inputs]]]]
               /\ \A q \in Parties, u \in Threads, m \in Passes, r \in Shuffles :
                     \/ input'[q][u][m][r] = input[q][u][m][r]
                     \/ u = t /\ input'[q][u][m][r] = new
    <3> DEFINE f == [input[p][t] EXCEPT ![k][s] = new]
    <3>1. f \in [Passes -> [Shuffles -> Inputs]]
      BY <1>0, <2>4, <2>7
    <3>2. input' = [input EXCEPT ![p] = [@ EXCEPT ![t] = f]]
      BY <2>7, <2>8
    <3>3. \A m \in Passes, r \in Shuffles : f[m][r] = new \/ f[m][r] = input[p][t][m][r]
      BY <1>0, <2>7
    <3> HIDE DEF f
    <3>4. /\ input' \in [Parties -> [Threads -> [Passes -> [Shuffles -> Inputs]]]]
          /\ \A q \in Parties, u \in Threads : input'[q][u] = input[q][u] \/ (u = t /\ q = p /\ input'[q][u] = f)
      BY <2>7, <3>1, <3>2
    <3> QED
      BY <3>3, <3>4
  <2>5. input' \in [Parties -> [Threads -> [Passes -> [Shuffles -> Inputs]]]]
    BY <2>3, <2>7, <2>8
  <2>6. ASSUME NEW q \in Parties, NEW u \in Threads, NEW m \in Passes, NEW r \in Shuffles
        PROVE  input'[q][u][m][r] \in [Slice(u) -> Values]
    <3>1. \/ input'[q][u][m][r] = input[q][u][m][r]
          \/ u = t /\ input'[q][u][m][r] = new
      BY <2>3, <2>8
    <3> QED
      BY <1>0, <2>2, <3>1 DEF DataTypes
  <2> QED
    BY <1>0, <2>1, <2>5, <2>6, <2>9 DEF DataTypes
<1>4. CASE Finalize(p, t)
  <2>1. /\ UNCHANGED <<to_share, input, a>>
        /\ to_shuffle' = [to_shuffle EXCEPT ![p] = [r \in Shuffles |-> [j \in Items |->
                         IF j \in Slice(t) THEN Sum(p, t, r, k, j) ELSE to_shuffle[p][r][j]]]]
    BY <1>4 DEF Finalize
  <2>2. ASSUME NEW r \in Shuffles, NEW j \in Slice(t) PROVE Sum(p, t, r, k, j) \in Contents
    BY <1>0, <1>4, SumFact, RightFacts DEF Contents
  <2>3. to_shuffle' \in [Parties -> [Shuffles -> [Items -> Contents]]]
    BY <1>0, <2>1, <2>2 DEF DataTypes
  <2> QED
    BY <1>0, <2>1, <2>3 DEF DataTypes
<1>5. CASE Copy(p, t)
  <2>1. /\ UNCHANGED <<to_shuffle, to_share, input>>
        /\ a' = [a EXCEPT ![p] = [r \in Shuffles |-> [j \in Items |->
                IF j \in Slice(t) THEN to_shuffle[p][r][j] ELSE a[p][r][j]]]]
    BY <1>5 DEF Copy
  <2>2. a' \in [Parties -> [Shuffles -> [Items -> Contents]]]
    BY <1>0, <2>1 DEF DataTypes
  <2> QED
    BY <1>0, <2>1, <2>2 DEF DataTypes
<1> QED
  BY <1>1, <1>2, <1>3, <1>4, <1>5 DEF Job

\* A thread has finished a pass when it has finalized it, and only then.
LEMMA JobFinalized ==
    ASSUME LockInv, NEW p \in Parties, NEW t \in Threads, Job(p, t)
    PROVE  Finalized(p, t)' = IF step[p][t] = "finalize" THEN pass[p][t] + 1 ELSE Finalized(p, t)
<1> DEFINE n == sent[p][t]  k == pass[p][t]  r == current[p][t]
<1>1. Outcome(p, t)
  BY JobOutcome
<1>4. k \in 0..2
  BY DEF LockInv, Control, Passes
<1>2. CASE k < 2 /\ Becomes(p, t, "sync finalized", "write", k + 1, r, n)
  <2>1. step[p][t] = "sync finalized" /\ step'[p][t] = "write" /\ pass'[p][t] = k + 1
    BY <1>2 DEF Becomes
  <2>4. k < 2
    BY <1>2
  <2>5. k + 1 \in 0..2
    BY <1>4, <2>4
  <2>2. Finalized(p, t)' = k + 1
    <3>1. Finalized(p, t)' = pass'[p][t] + 0
      BY <2>1 DEF Finalized
    <3>2. (k + 1) + 0 = k + 1
      BY <1>4
    <3> QED
      BY <2>1, <3>1, <3>2
  <2>3. Finalized(p, t) = k + 1
    BY <1>4, <2>1 DEF Finalized
  <2> QED
    BY <2>1, <2>2, <2>3
<1>3. ASSUME ~(k < 2 /\ Becomes(p, t, "sync finalized", "write", k + 1, r, n))
      PROVE  /\ pass'[p][t] = k
             /\ step'[p][t] \in {"sync finalized", "copy", "sync copied", "done"} <=>
                   step[p][t] \in {"finalize", "sync finalized", "copy", "sync copied", "done"}
             /\ step[p][t] = "finalize" => step'[p][t] = "sync finalized"
  BY <1>1, <1>3 DEF Outcome, Becomes
<1> QED
  BY <1>2, <1>3 DEF Finalized

\* It contributes when it adds, until it finalizes.
LEMMA JobContributed ==
    ASSUME LockInv, NEW p \in Parties, NEW t \in Threads, Job(p, t), NEW s \in Shuffles
    PROVE  /\ step[p][t] = "finalize" => ~Contributed(p, t, s)'
           /\ step[p][t] = "add" /\ s = current[p][t] =>
                 (Contributed(p, t, s)' <=> Knows(p, s, pass[p][t])) /\ pass'[p][t] = pass[p][t]
           /\ step[p][t] # "finalize" /\ ~(step[p][t] = "add" /\ s = current[p][t]) =>
                 /\ (Contributed(p, t, s)' <=> Contributed(p, t, s))
                 /\ (Contributed(p, t, s) => pass'[p][t] = pass[p][t])
<1> DEFINE n == sent[p][t]  k == pass[p][t]  r == current[p][t]
<1>1. Outcome(p, t)
  BY JobOutcome
<1>2. r \in 1..NShuffles /\ NShuffles \in Nat /\ s \in 1..NShuffles
  BY ShuffleAssumption DEF LockInv, Control, Shuffles
<1>3. step[p][t] \notin {"write", "sync written", "add", "sync added"} => r = 1
  BY DEF LockInv, Counters
<1>9. pass'[p][t] = k => (Knows(p, s, pass[p][t])' <=> Knows(p, s, k))
  BY DEF Knows, Role, Index
<1>10. CASE Becomes(p, t, "write", "sync written", k, r, n)
  BY <1>9, <1>10 DEF Becomes, Contributed
<1>11. CASE Becomes(p, t, "sync written", "add", k, r, n)
  BY <1>9, <1>11 DEF Becomes, Contributed
<1>12. CASE Becomes(p, t, "exchange", "finalize", k, r, n + 1)
  BY <1>9, <1>12 DEF Becomes, Contributed
<1>13. CASE \/ Becomes(p, t, "finalize", "sync finalized", k, r, n)
            \/ Becomes(p, t, "sync finalized", "copy", k, r, n)
            \/ Becomes(p, t, "copy", "sync copied", k, r, n)
            \/ Becomes(p, t, "sync copied", "done", k, r, n)
  BY <1>13 DEF Becomes, Contributed
<1>5. CASE Becomes(p, t, "add", "sync added", k, r, n)
  <2>1. ~(r < r)
    BY <1>2
  <2> QED
    BY <1>5, <1>9, <2>1 DEF Becomes, Contributed
<1>6. CASE Becomes(p, t, "sync added", "write", k, r + 1, n)
  <2>1. s < r + 1 <=> s < r \/ s = r
    BY <1>2
  <2> QED
    BY <1>6, <1>9, <2>1 DEF Becomes, Contributed
<1>7. CASE ~(r < NShuffles) /\ Becomes(p, t, "sync added", "exchange", k, 1, n)
  <2>1. s < r \/ s = r
    <3>1. ~(r < NShuffles)
      BY <1>7
    <3> QED
      BY <1>2, <3>1
  <2> QED
    BY <1>7, <1>9, <2>1 DEF Becomes, Contributed
<1>8. CASE Becomes(p, t, "sync finalized", "write", k + 1, r, n)
  <2>1. step[p][t] = "sync finalized" /\ step'[p][t] = "write" /\ current'[p][t] = r
    BY <1>8 DEF Becomes
  <2>2. r = 1
    BY <1>3, <2>1
  <2>3. ~(s < r)
    <3>1. ~(s < 1)
      BY <1>2
    <3> QED
      BY <2>2, <3>1
  <2> QED
    BY <2>1, <2>3 DEF Contributed
<1> QED
  BY <1>1, <1>5, <1>6, <1>7, <1>8, <1>10, <1>11, <1>12, <1>13 DEF Outcome

LEMMA JobShuffled ==
    ASSUME IInv, NEW p \in Parties, NEW t \in Threads, Job(p, t)
    PROVE  ShuffledSoFar'
<1> DEFINE k == pass[p][t]
<1>0. /\ LockInv /\ DataTypes /\ ShuffledSoFar /\ ToShare /\ k \in Passes /\ current[p][t] \in Shuffles
  BY DEF IInv, LockInv, Control, DataInv
<1>1. ASSUME NEW q \in Parties, NEW u \in Threads, q # p \/ u # t, NEW s \in Shuffles
      PROVE  /\ Finalized(q, u)' = Finalized(q, u) /\ Contributed(q, u, s)' = Contributed(q, u, s)
             /\ pass'[q][u] = pass[q][u]
  <2>1. step'[q][u] = step[q][u] /\ pass'[q][u] = pass[q][u] /\ current'[q][u] = current[q][u]
    BY <1>0, <1>1, JobTypes DEF OthersStay
  <2>2. Finalized(q, u)' = Finalized(q, u)
    BY <2>1 DEF Finalized
  <2>3. Contributed(q, u, s)' = Contributed(q, u, s)
    BY <2>1 DEF Contributed, Knows, Role, Index
  <2> QED
    BY <2>1, <2>2, <2>3
<1>2. Finalized(p, t)' = IF step[p][t] = "finalize" THEN k + 1 ELSE Finalized(p, t)
  BY <1>0, JobFinalized
<1>3. ASSUME NEW q \in Parties, NEW u \in Threads, NEW s \in Shuffles, NEW j \in Slice(u),
             to_shuffle'[q][s][j] = to_shuffle[q][s][j],
             q = p /\ u = t => /\ step[p][t] # "finalize"
                               /\ ~(step[p][t] = "add" /\ s = current[p][t] /\ Knows(p, s, k))
      PROVE  SliceIsRight(q, u, s, j)'
  <2>0. SliceIsRight(q, u, s, j)
    BY <1>0 DEF ShuffledSoFar
  <2>1. /\ Finalized(q, u)' = Finalized(q, u)
        /\ Contributed(q, u, s)' <=> Contributed(q, u, s)
        /\ Contributed(q, u, s) => pass'[q][u] = pass[q][u]
    <3>1. CASE q # p \/ u # t
      BY <1>1, <3>1
    <3>2. CASE q = p /\ u = t
      <4>1. CASE step[p][t] = "add" /\ s = current[p][t]
        <5>1. ~Contributed(p, t, s)' /\ ~Contributed(p, t, s)
          BY <1>0, <1>3, <3>2, <4>1, JobContributed DEF Contributed
        <5> QED
          BY <1>2, <3>2, <4>1, <5>1
      <4>2. CASE ~(step[p][t] = "add" /\ s = current[p][t])
        BY <1>0, <1>2, <1>3, <3>2, <4>2, JobContributed
      <4> QED
        BY <4>1, <4>2
    <3> QED
      BY <3>1, <3>2
  <2>2. CASE Contributed(q, u, s)
    BY <1>3, <2>0, <2>1, <2>2 DEF SliceIsRight
  <2>3. CASE ~Contributed(q, u, s)
    BY <1>3, <2>0, <2>1, <2>3 DEF SliceIsRight
  <2> QED
    BY <2>2, <2>3
<1>4. CASE Finalize(p, t)
  <2>1. to_shuffle' = [to_shuffle EXCEPT ![p] = [r \in Shuffles |-> [j \in Items |->
                         IF j \in Slice(t) THEN Sum(p, t, r, k, j) ELSE to_shuffle[p][r][j]]]]
    BY <1>4 DEF Finalize
  <2>2. step[p][t] = "finalize"
    BY <1>4 DEF Finalize, At
  <2>3. ASSUME NEW r \in Shuffles, NEW j \in Slice(t)
        PROVE  SliceIsRight(p, t, r, j)'
    <3>1. Sum(p, t, r, k, j) = Right(r, k + 1, j)
      BY <1>4, SumFact
    <3>2. to_shuffle'[p][r][j] = Sum(p, t, r, k, j)
      BY <1>0, <2>1, SliceInItems DEF DataTypes
    <3>3. ~Contributed(p, t, r)' /\ Finalized(p, t)' = k + 1
      BY <1>0, <1>2, <2>2, JobContributed
    <3> QED
      BY <3>1, <3>2, <3>3 DEF SliceIsRight
  <2>4. ASSUME NEW q \in Parties, NEW u \in Threads, q # p \/ u # t,
               NEW r \in Shuffles, NEW j \in Slice(u)
        PROVE  SliceIsRight(q, u, r, j)'
    <3>1. j \in Items /\ (q = p => j \notin Slice(t))
      BY <2>4, SliceInItems, SlicesDisjoint
    <3>2. to_shuffle'[q][r][j] = to_shuffle[q][r][j]
      BY <1>0, <2>1, <3>1 DEF DataTypes
    <3> QED
      BY <1>3, <2>4, <3>2
  <2> QED
    BY <2>3, <2>4 DEF ShuffledSoFar
<1>5. CASE Add(p, t) /\ Knows(p, current[p][t], k)
  <2>0. PICK s \in Shuffles : s = current[p][t]
    BY <1>0
  <2>1. to_shuffle' = [to_shuffle EXCEPT ![p][s] = [j \in Items |->
                          IF j \in Slice(t) THEN Part(to_share[p][j]) ELSE to_shuffle[p][s][j]]]
    BY <1>0, <1>5, <2>0 DEF Add, DataTypes
  <2>2. At(p, t, "add") /\ step[p][t] = "add"
    BY <1>5 DEF Add, At
  <2>3. ASSUME NEW j \in Slice(t) PROVE SliceIsRight(p, t, s, j)'
    <3>1. to_share[p][j] = Right(s, k + 1, j)
      BY <1>0, <1>5, <2>0, <2>2, SliceInItems DEF ToShare
    <3>2. to_shuffle'[p][s][j] = Part(to_share[p][j])
      BY <1>0, <2>1, SliceInItems DEF DataTypes
    <3>3. Contributed(p, t, s)' /\ pass'[p][t] = k
      BY <1>0, <1>5, <2>0, <2>2, JobContributed
    <3> QED
      BY <3>1, <3>2, <3>3 DEF SliceIsRight
  <2>4. ASSUME NEW q \in Parties, NEW u \in Threads, NEW r \in Shuffles, NEW j \in Slice(u),
               ~(q = p /\ u = t /\ r = s)
        PROVE  SliceIsRight(q, u, r, j)'
    <3>1. j \in Items /\ (q = p /\ r = s => j \notin Slice(t))
      BY <2>4, SliceInItems, SlicesDisjoint
    <3>2. to_shuffle'[q][r][j] = to_shuffle[q][r][j]
      BY <1>0, <2>1, <3>1 DEF DataTypes
    <3> QED
      BY <1>3, <2>0, <2>2, <2>4, <3>2
  <2> QED
    BY <2>3, <2>4 DEF ShuffledSoFar
<1>6. CASE ~Finalize(p, t) /\ ~(Add(p, t) /\ Knows(p, current[p][t], k))
  <2>1. to_shuffle' = to_shuffle /\ step[p][t] # "finalize"
    BY <1>6 DEF Job, At, Write, SyncWritten, Add, SyncAdded, Exchange, SyncFinalized, Copy, SyncCopied
  <2>2. ~(step[p][t] = "add" /\ Knows(p, current[p][t], k))
    BY <1>6 DEF Job, At, Write, SyncWritten, SyncAdded, Exchange, Finalize, SyncFinalized, Copy, SyncCopied
  <2>3. \A q \in Parties, u \in Threads, s \in Shuffles : \A j \in Slice(u) : SliceIsRight(q, u, s, j)'
    BY <1>3, <2>1, <2>2
  <2> QED
    BY <2>3 DEF ShuffledSoFar
<1> QED
  BY <1>4, <1>5, <1>6

\* A thread has not added before it adds.
LEMMA JobHasAdded ==
    ASSUME IInv, NEW p \in Parties, NEW t \in Threads, Job(p, t),
           NEW k \in Passes, NEW s \in Shuffles, HasAdded(p, t, k, s)'
    PROVE  HasAdded(p, t, k, s) \/ (Add(p, t) /\ k = pass[p][t] /\ s = current[p][t])
<1> DEFINE n == sent[p][t]  m == pass[p][t]  r == current[p][t]
<1>1. Outcome(p, t)
  BY JobOutcome DEF IInv
<1>2. m \in 0..2 /\ n \in 0..3 /\ r \in 1..NShuffles /\ NShuffles \in Nat /\ k \in 0..2 /\ s \in 1..NShuffles
  BY ShuffleAssumption DEF IInv, LockInv, Control, Passes, Shuffles
<1>3. n = Exchanged(p, t) /\ (step[p][t] \in {"sync finalized"} => r = 1)
  BY DEF IInv, LockInv, Counters
<1>4. \/ k < sent'[p][t]
      \/ /\ k = sent'[p][t] /\ k = pass'[p][t]
         /\ \/ s < current'[p][t]
            \/ step'[p][t] = "exchange"
            \/ s = current'[p][t] /\ step'[p][t] = "sync added"
  BY DEF HasAdded
<1>5. CASE \/ Becomes(p, t, "write", "sync written", m, r, n)
           \/ Becomes(p, t, "finalize", "sync finalized", m, r, n)
           \/ Becomes(p, t, "copy", "sync copied", m, r, n)
           \/ Becomes(p, t, "sync written", "add", m, r, n)
           \/ Becomes(p, t, "sync finalized", "copy", m, r, n)
           \/ Becomes(p, t, "sync copied", "done", m, r, n)
  <2>1. /\ pass'[p][t] = m /\ current'[p][t] = r /\ sent'[p][t] = n
        /\ step'[p][t] \notin {"exchange", "sync added"}
    BY <1>5 DEF Becomes
  <2> QED
    BY <1>4, <2>1 DEF HasAdded
<1>6. CASE Becomes(p, t, "add", "sync added", m, r, n)
  <2>1. /\ pass'[p][t] = m /\ current'[p][t] = r /\ sent'[p][t] = n
        /\ step'[p][t] = "sync added" /\ step[p][t] = "add"
    BY <1>6 DEF Becomes
  <2>2. Add(p, t)
    BY <2>1 DEF Job, At, Write, SyncWritten, SyncAdded, Exchange, Finalize, SyncFinalized, Copy, SyncCopied
  <2> QED
    BY <1>4, <2>1, <2>2 DEF HasAdded
<1>7. CASE Becomes(p, t, "exchange", "finalize", m, r, n + 1)
  <2>1. /\ pass'[p][t] = m /\ current'[p][t] = r /\ sent'[p][t] = n + 1
        /\ step'[p][t] = "finalize" /\ step[p][t] = "exchange"
    BY <1>7 DEF Becomes
  <2>2. n = m
    BY <1>2, <1>3, <2>1 DEF Exchanged
  <2>3. k < n + 1
    BY <1>2, <1>4, <2>1, <2>2
  <2>4. k < n \/ k = n
    BY <1>2, <2>3
  <2> QED
    BY <2>1, <2>2, <2>4 DEF HasAdded
<1>8. CASE Becomes(p, t, "sync added", "write", m, r + 1, n)
  <2>1. /\ pass'[p][t] = m /\ current'[p][t] = r + 1 /\ sent'[p][t] = n
        /\ step'[p][t] = "write" /\ step[p][t] = "sync added"
    BY <1>8 DEF Becomes
  <2>2. s < r + 1 => s < r \/ s = r
    BY <1>2
  <2> QED
    BY <1>4, <2>1, <2>2 DEF HasAdded
<1>9. CASE ~(r < NShuffles) /\ Becomes(p, t, "sync added", "exchange", m, 1, n)
  <2>1. /\ pass'[p][t] = m /\ sent'[p][t] = n /\ step[p][t] = "sync added"
    BY <1>9 DEF Becomes
  <2>2. s < r \/ s = r
    <3>1. ~(r < NShuffles)
      BY <1>9
    <3> QED
      BY <1>2, <3>1
  <2> QED
    BY <1>4, <2>1, <2>2 DEF HasAdded
<1>10. CASE Becomes(p, t, "sync finalized", "write", m + 1, r, n)
  <2>1. /\ current'[p][t] = r /\ sent'[p][t] = n
        /\ step'[p][t] = "write" /\ step[p][t] = "sync finalized"
    BY <1>10 DEF Becomes
  <2>3. r = 1
    BY <1>3, <2>1
  <2>2. ~(s < r)
    BY <1>2, <2>3
  <2> QED
    BY <1>4, <2>1, <2>2 DEF HasAdded
<1> QED
  BY <1>1, <1>5, <1>6, <1>7, <1>8, <1>9, <1>10 DEF Outcome

LEMMA JobInput ==
    ASSUME IInv, NEW p \in Parties, NEW t \in Threads, Job(p, t)
    PROVE  Input'
<1> DEFINE k == pass[p][t]  s == current[p][t]
<1>0. /\ LockInv /\ DataTypes /\ ToShare /\ Input /\ k \in Passes /\ s \in Shuffles
  BY DEF IInv, LockInv, Control, DataInv
<1>1. ASSUME NEW q \in Parties, NEW u \in Threads, q # p \/ u # t, NEW m \in Passes, NEW r \in Shuffles,
             HasAdded(q, u, m, r)'
      PROVE  HasAdded(q, u, m, r)
  <2>1. /\ step'[q][u] = step[q][u] /\ pass'[q][u] = pass[q][u]
        /\ current'[q][u] = current[q][u] /\ sent'[q][u] = sent[q][u]
    BY <1>0, <1>1, JobTypes DEF OthersStay
  <2> QED
    BY <1>1, <2>1 DEF HasAdded
<1>2. CASE Add(p, t) /\ Knows(p, s, k)
  <2>1. input' = [input EXCEPT ![p][t][k][s] = [j \in Slice(t) |-> to_share[p][j]]]
    BY <1>2 DEF Add
  <2>2. \A j \in Slice(t) : to_share[p][j] = Right(s, k + 1, j)
    BY <1>0, <1>2, SliceInItems DEF Add, ToShare
  <2>3. \A j \in Slice(t) : input'[p][t][k][s][j] = Right(s, k + 1, j)
    BY <1>0, <2>1, <2>2 DEF DataTypes
  <2>4. ASSUME NEW q \in Parties, NEW u \in Threads, NEW m \in Passes, NEW r \in Shuffles,
               q # p \/ u # t \/ m # k \/ r # s
        PROVE  input'[q][u][m][r] = input[q][u][m][r]
    BY <1>0, <2>1, <2>4 DEF DataTypes
  <2>5. ASSUME NEW q \in Parties, NEW u \in Threads, NEW m \in Passes, NEW r \in Shuffles,
               NEW j \in Slice(u), HasAdded(q, u, m, r)', Knows(q, r, m)
        PROVE  input'[q][u][m][r][j] = Right(r, m + 1, j)
    <3>1. CASE q = p /\ u = t /\ m = k /\ r = s
      BY <2>3, <3>1
    <3>2. CASE q # p \/ u # t \/ m # k \/ r # s
      <4>1. HasAdded(q, u, m, r)
        BY <1>1, <2>5, <3>2, JobHasAdded
      <4> QED
        BY <1>0, <2>4, <2>5, <3>2, <4>1 DEF Input
    <3> QED
      BY <3>1, <3>2
  <2> QED
    BY <2>5 DEF Input
<1>3. CASE ~(Add(p, t) /\ Knows(p, s, k))
  <2>1. input' = input
    BY <1>3 DEF Job, Write, SyncWritten, Add, SyncAdded, Exchange, Finalize, SyncFinalized, Copy, SyncCopied
  <2>2. ASSUME NEW q \in Parties, NEW u \in Threads, NEW m \in Passes, NEW r \in Shuffles,
               HasAdded(q, u, m, r)', Knows(q, r, m)
        PROVE  HasAdded(q, u, m, r)
    BY <1>1, <1>3, <2>2, JobHasAdded
  <2> QED
    BY <1>0, <2>1, <2>2 DEF Input
<1> QED
  BY <1>2, <1>3

LEMMA StageFacts ==
    ASSUME NEW p \in Parties, NEW t \in Threads
    PROVE  /\ Stage(p, t)[2] = pass[p][t] /\ Stage(p, t)[3] = current[p][t]
           /\ Stage(p, t)[1] = "written" <=> step[p][t] \in {"write", "sync written"}
           /\ Stage(p, t)[1] = "added" <=> step[p][t] \in {"add", "sync added"}
  BY DEF Stage

LEMMA AfterFacts ==
    ASSUME NEW e
    PROVE  /\ e[1] = "written" => /\ After(e)[1] = "added"
                                  /\ After(e)[2] = e[2] /\ After(e)[3] = e[3]
           /\ After(e)[1] = "added" => e[1] = "written"
  BY DEF After

\* While a thread writes, or waits for those who write, the others are with it or wait
\* to add.
IsWriting(p, t) == ~Waits(p, t) /\ step[p][t] \in {"write", "sync written"}

LEMMA Writing ==
    ASSUME LockInv, Blocked, NEW p \in Parties, NEW t \in Threads, IsWriting(p, t),
           NEW u \in Threads
    PROVE  /\ pass[p][u] = pass[p][t] /\ current[p][u] = current[p][t]
           /\ Finalized(p, u) = pass[p][t] /\ ~Contributed(p, u, current[p][t])
           /\ Waits(p, u) => step[p][u] = "add"
           /\ ~Waits(p, u) => step[p][u] \in {"write", "sync written"}
<1>1. /\ Waits(p, u) => Stage(p, u) = After(Stage(p, t))
      /\ ~Waits(p, u) => Stage(p, u) = Stage(p, t)
  BY DEF LockInv, Together, IsWriting
<1>0. step[p][t] \in {"write", "sync written"}
  BY DEF IsWriting
<1> DEFINE e == Stage(p, t)  f == Stage(p, u)
<1>2. /\ e[1] = "written" /\ e[2] = pass[p][t] /\ e[3] = current[p][t]
      /\ f[2] = pass[p][u] /\ f[3] = current[p][u]
      /\ f[1] = "written" <=> step[p][u] \in {"write", "sync written"}
      /\ f[1] = "added" <=> step[p][u] \in {"add", "sync added"}
  BY <1>0, StageFacts
<1>8. /\ After(e)[1] = "added" /\ After(e)[2] = e[2] /\ After(e)[3] = e[3]
  BY <1>2, AfterFacts
<1> HIDE DEF e, f
<1>3. pass[p][u] = pass[p][t] /\ current[p][u] = current[p][t]
  BY <1>1, <1>2, <1>8 DEF e, f
<1>4. Waits(p, u) => step[p][u] \in {"add", "sync added"}
  BY <1>1, <1>2, <1>8 DEF e, f
<1>5. ~Waits(p, u) => step[p][u] \in {"write", "sync written"}
  BY <1>1, <1>2 DEF e, f
<1>6. Waits(p, u) => step[p][u] = "add"
  BY <1>4 DEF Blocked
<1>7. Finalized(p, u) = pass[p][u]
  <2>1. pass[p][u] \in Passes
    BY DEF LockInv, Control
  <2>2. step[p][u] \notin {"sync finalized", "copy", "sync copied", "done"}
    BY <1>5, <1>6
  <2>3. Finalized(p, u) = pass[p][u] + 0
    BY <2>2 DEF Finalized
  <2>4. \A x \in Passes : x + 0 = x
    BY DEF Passes
  <2> QED
    BY <1>3, <2>1, <2>3, <2>4
<1>9. ~Contributed(p, u, current[p][t])
  <2>1. current[p][t] \in Nat
    BY ShuffleAssumption DEF LockInv, Control, Shuffles
  <2>2. step[p][u] \in {"write", "sync written", "add"}
    BY <1>5, <1>6
  <2>3. ~(current[p][t] < current[p][u])
    BY <1>3, <2>1
  <2> QED
    BY <2>2, <2>3 DEF Contributed
<1> QED
  BY <1>3, <1>5, <1>6, <1>7, <1>9

\* What ToShare says of a thread, for a shuffle and a pass.
Shares(p, t, s, k) ==
    Knows(p, s, k) =>
      /\ HasWritten(p, t) => \A j \in Targets(t, s, k) : to_share[p][j] = Right(s, k + 1, j)
      /\ At(p, t, "add") => \A j \in Items : to_share[p][j] = Right(s, k + 1, j)

LEMMA ToShareIs ==
    ToShare <=> \A p \in Parties, t \in Threads : Shares(p, t, current[p][t], pass[p][t])
  BY DEF ToShare, Shares

LEMMA TargetsInItems ==
    ASSUME NEW t \in Threads, NEW s \in Shuffles, NEW k \in Passes
    PROVE  Targets(t, s, k) \subseteq Items
  BY SliceInItems, PermFacts DEF Targets

LEMMA JobWrite ==
    ASSUME IInv, NEW p \in Parties, NEW t \in Threads, Write(p, t), OthersStay(p, t),
           NEW u \in Threads
    PROVE  Shares(p, u, current[p][u], pass[p][u])'
<1> DEFINE k == pass[p][t]  s == current[p][t]
<1>0. /\ LockInv /\ Blocked /\ DataTypes /\ ToShare /\ ShuffledSoFar /\ k \in Passes /\ s \in Shuffles
  BY DEF IInv, LockInv, Control, DataInv
<1>1. /\ t \notin arrived[p] /\ step[p][t] = "write" /\ step'[p][t] = "sync written"
      /\ UNCHANGED <<pass, current, arrived, to_shuffle>>
      /\ to_share' = [to_share EXCEPT ![p] = [j \in Items |->
                          IF Knows(p, s, k) /\ j \in Targets(t, s, k)
                          THEN Whole(to_shuffle[p][s][Source(s, k, j)]) ELSE to_share[p][j]]]
  BY <1>0 DEF Write, At, Goto, LockInv, Control
<1>7. IsWriting(p, t)
  BY <1>1 DEF IsWriting, Waits
<1>2. /\ pass[p][u] = k /\ current[p][u] = s
      /\ Waits(p, u) => step[p][u] = "add"
      /\ ~Waits(p, u) => step[p][u] \in {"write", "sync written"}
  BY <1>0, <1>7, Writing
<1>3. ~At(p, u, "add")'
  BY <1>1, <1>2 DEF At, Waits, OthersStay
<1>4. ASSUME NEW j \in Targets(t, s, k), Knows(p, s, k)
      PROVE  to_share'[p][j] = Right(s, k + 1, j)
  <2>1. j \in Items /\ Source(s, k, j) \in Items
    BY <1>0, TargetsInItems, TargetsFacts
  <2>2. PICK v \in Threads : Source(s, k, j) \in Slice(v)
    BY <2>1, SlicesCover
  <2>3. Finalized(p, v) = k /\ ~Contributed(p, v, s)
    BY <1>0, <1>7, Writing
  <2>4. to_shuffle[p][s][Source(s, k, j)] = Right(s, k, Source(s, k, j))
    BY <1>0, <2>2, <2>3 DEF ShuffledSoFar, SliceIsRight
  <2>5. to_share'[p][j] = Whole(to_shuffle[p][s][Source(s, k, j)])
    BY <1>0, <1>1, <1>4, <2>1 DEF DataTypes
  <2>6. Right(s, k, Source(s, k, j)) \in Shuffles \X Items
    BY <1>0, <2>1, RightFacts
  <2> QED
    BY <1>0, <2>1, <2>4, <2>5, <2>6, RightFacts DEF Whole
<1>5. ASSUME u # t, HasWritten(p, u)', Knows(p, s, k), NEW j \in Targets(u, s, k)
      PROVE  to_share'[p][j] = Right(s, k + 1, j)
  <2>1. HasWritten(p, u)
    BY <1>1, <1>5 DEF HasWritten, Waits, OthersStay
  <2>2. to_share[p][j] = Right(s, k + 1, j)
    BY <1>0, <1>2, <1>5, <2>1, ToShareIs DEF Shares
  <2>3. j \in Items /\ j \notin Targets(t, s, k)
    BY <1>0, <1>5, TargetsInItems, TargetsFacts
  <2>4. to_share'[p][j] = to_share[p][j]
    BY <1>0, <1>1, <2>3 DEF DataTypes
  <2> QED
    BY <2>2, <2>4
<1>6. pass'[p][u] = k /\ current'[p][u] = s
  BY <1>1, <1>2
<1> HIDE DEF k, s
<1> QED
  BY <1>3, <1>4, <1>5, <1>6 DEF Shares

LEMMA JobSyncWritten ==
    ASSUME IInv, NEW p \in Parties, NEW t \in Threads, SyncWritten(p, t), OthersStay(p, t),
           NEW u \in Threads
    PROVE  Shares(p, u, current[p][u], pass[p][u])'
<1> DEFINE k == pass[p][t]  s == current[p][t]
<1>0. LockInv /\ Blocked /\ ToShare /\ k \in Passes /\ s \in Shuffles
  BY DEF IInv, LockInv, Control, DataInv
<1>1. /\ t \notin arrived[p] /\ step[p][t] = "sync written" /\ step'[p][t] = "add"
      /\ UNCHANGED <<pass, current, to_share>>
      /\ arrived'[p] = IF arrived[p] \union {t} = Threads THEN {} ELSE arrived[p] \union {t}
  BY <1>0 DEF SyncWritten, Arrive, At, Goto, LockInv, Control
<1>2. IsWriting(p, t)
  BY <1>1 DEF IsWriting, Waits
<1>3. ASSUME NEW v \in Threads
      PROVE  /\ pass[p][v] = k /\ current[p][v] = s
             /\ Waits(p, v) => step[p][v] = "add"
  BY <1>0, <1>2, Writing
<1>4. ASSUME NEW v \in Threads, HasWritten(p, v), Knows(p, s, k), NEW j \in Targets(v, s, k)
      PROVE  to_share'[p][j] = Right(s, k + 1, j)
  <2>1. to_share[p][j] = Right(s, k + 1, j)
    BY <1>0, <1>3, <1>4, ToShareIs DEF Shares
  <2> QED
    BY <1>1, <2>1
<1>5. ASSUME HasWritten(p, u)' PROVE HasWritten(p, u)
  <2>1. CASE u = t
    BY <1>1, <2>1 DEF HasWritten, Waits
  <2>2. CASE u # t
    <3>1. step'[p][u] = step[p][u]
      BY <2>2 DEF OthersStay
    <3>2. CASE Waits(p, u)
      BY <1>3, <1>5, <3>1, <3>2 DEF HasWritten
    <3>3. CASE ~Waits(p, u)
      <4>1. step'[p][u] # "add"
        BY <1>2, <3>1, <3>3, <1>0, Writing
      <4> QED
        BY <1>5, <3>1, <3>3, <4>1 DEF HasWritten
    <3> QED
      BY <3>2, <3>3
  <2> QED
    BY <2>1, <2>2
<1>6. ASSUME At(p, u, "add")', Knows(p, s, k), NEW j \in Items
      PROVE  to_share'[p][j] = Right(s, k + 1, j)
  <2>1. arrived[p] \union {t} = Threads
    <3>1. u # t => step[p][u] = "add"
      BY <1>6 DEF At, OthersStay
    <3>2. u # t => Waits(p, u)
      BY <1>0, <1>2, <3>1, Writing
    <3> QED
      BY <1>1, <1>6, <3>2 DEF At, Waits
  <2>2. PICK v \in Threads : j \in Targets(v, s, k)
    BY <1>0, TargetsFacts
  <2>3. HasWritten(p, v)
    BY <1>1, <1>3, <2>1 DEF HasWritten, Waits
  <2> QED
    BY <1>4, <1>6, <2>2, <2>3
<1>7. pass'[p][u] = k /\ current'[p][u] = s
  BY <1>1, <1>3
<1> HIDE DEF k, s
<1> QED
  BY <1>4, <1>5, <1>6, <1>7 DEF Shares

\* The other steps leave the threads of the party as they were, as far as to_share goes.
LEMMA JobElsewhere ==
    ASSUME IInv, NEW p \in Parties, NEW t \in Threads, Job(p, t), OthersStay(p, t),
           ~Write(p, t), ~SyncWritten(p, t), NEW u \in Threads
    PROVE  Shares(p, u, current[p][u], pass[p][u])'
<1>0. LockInv /\ Blocked /\ ToShare /\ Outcome(p, t) /\ t \notin arrived[p]
  BY JobOutcome DEF IInv, DataInv
<1>1. to_share' = to_share /\ step[p][t] \notin {"write", "sync written"}
  BY DEF Job, At, Add, SyncAdded, Exchange, Finalize, SyncFinalized, Copy, SyncCopied
<1>2. step'[p][t] \notin {"sync written", "add"}
  BY <1>0, <1>1 DEF Outcome, Becomes
<1>3. CASE u = t
  BY <1>2, <1>3 DEF Shares, HasWritten, At
<1>4. CASE u # t
  <2>1. step'[p][u] = step[p][u] /\ pass'[p][u] = pass[p][u] /\ current'[p][u] = current[p][u]
    BY <1>4 DEF OthersStay
  <2>2. CASE Waits(p, u)' <=> Waits(p, u)
    <3>1. /\ HasWritten(p, u)' <=> HasWritten(p, u)
          /\ At(p, u, "add")' <=> At(p, u, "add")
      BY <2>1, <2>2 DEF HasWritten, At, Waits
    <3>2. Shares(p, u, current[p][u], pass[p][u])
      BY <1>0, ToShareIs
    <3> QED
      BY <1>1, <2>1, <3>1, <3>2 DEF Shares
  <2>3. CASE ~(Waits(p, u)' <=> Waits(p, u))
    <3>1. Waits(p, u) /\ ~Waits(p, u)' /\ Arrive(p, t)
      <4>1. Arrive(p, t)
        BY <1>0, <2>3 DEF Outcome, Waits
      <4>2. arrived'[p] = IF arrived[p] \union {t} = Threads THEN {} ELSE arrived[p] \union {t}
        BY <1>0, <4>1 DEF Arrive, LockInv, Control
      <4> QED
        BY <1>4, <2>3, <4>1, <4>2 DEF Waits
    <3>2. step[p][u] # "sync written"
      BY <1>0, <3>1 DEF Blocked
    <3>3. Stage(p, u) = After(Stage(p, t))
      BY <1>0, <3>1 DEF LockInv, Together, Waits
    <3>4. Stage(p, t)[1] # "written"
      BY <1>1, StageFacts
    <3>5. Stage(p, u)[1] # "added"
      BY <3>3, <3>4, AfterFacts
    <3>6. step[p][u] # "add"
      BY <3>5, StageFacts
    <3> QED
      BY <2>1, <3>1, <3>2, <3>6 DEF Shares, HasWritten, At
  <2> QED
    BY <2>2, <2>3
<1> QED
  BY <1>3, <1>4

LEMMA JobToShare ==
    ASSUME IInv, NEW p \in Parties, NEW t \in Threads, Job(p, t)
    PROVE  ToShare'
<1>1. OthersStay(p, t) /\ ToShare
  BY JobTypes DEF IInv, DataInv
<1>2. ASSUME NEW u \in Threads PROVE Shares(p, u, current[p][u], pass[p][u])'
  BY <1>1, JobWrite, JobSyncWritten, JobElsewhere
<1>3. ASSUME NEW q \in Parties \ {p}, NEW u \in Threads
      PROVE  Shares(q, u, current[q][u], pass[q][u])'
  <2>1. to_share'[q] = to_share[q]
    BY DEF Job, Write, SyncWritten, Add, SyncAdded, Exchange, Finalize, SyncFinalized, Copy,
           SyncCopied, IInv, DataTypes
  <2>2. /\ step'[q][u] = step[q][u] /\ pass'[q][u] = pass[q][u] /\ current'[q][u] = current[q][u]
        /\ arrived'[q] = arrived[q]
    BY <1>1 DEF OthersStay
  <2>3. Shares(q, u, current[q][u], pass[q][u])
    BY <1>1, ToShareIs
  <2> QED
    BY <2>1, <2>2, <2>3 DEF Shares, HasWritten, At, Waits
<1>4. \A q \in Parties, u \in Threads : Shares(q, u, current[q][u], pass[q][u])'
  BY <1>2, <1>3
<1> QED
  BY <1>4 DEF ToShare, Shares

LEMMA JobCopied ==
    ASSUME IInv, NEW p \in Parties, NEW t \in Threads, Job(p, t)
    PROVE  Copied'
<1>0. /\ LockInv /\ DataTypes /\ Copied /\ ShuffledSoFar /\ OthersStay(p, t) /\ Outcome(p, t)
  BY JobTypes, JobOutcome DEF IInv, DataInv
<1>1. CASE Copy(p, t)
  <2>1. a' = [a EXCEPT ![p] = [s \in Shuffles |-> [j \in Items |->
                IF j \in Slice(t) THEN to_shuffle[p][s][j] ELSE a[p][s][j]]]]
    BY <1>1 DEF Copy
  <2>2. step[p][t] = "copy"
    BY <1>1 DEF Copy, At
  <2>3. Finalized(p, t) = 3
    <3>1. pass[p][t] = 2
      BY <1>0, <2>2 DEF LockInv, Counters
    <3> QED
      BY <2>2, <3>1 DEF Finalized
  <2>4. ASSUME NEW s \in Shuffles, NEW j \in Slice(t) PROVE a'[p][s][j] = Right(s, 3, j)
    <3>1. a'[p][s][j] = to_shuffle[p][s][j]
      BY <1>0, <2>1, SliceInItems DEF DataTypes
    <3>2. to_shuffle[p][s][j] = Right(s, Finalized(p, t), j)
      BY <1>0, <2>2 DEF ShuffledSoFar, SliceIsRight, Contributed
    <3> QED
      BY <2>3, <3>1, <3>2
  <2>5. ASSUME NEW q \in Parties, NEW u \in Threads, q # p \/ u # t, NEW s \in Shuffles, NEW j \in Slice(u),
               step'[q][u] \in {"sync copied", "done"}
        PROVE  a'[q][s][j] = Right(s, 3, j)
    <3>1. step[q][u] \in {"sync copied", "done"}
      BY <1>0, <2>5 DEF OthersStay
    <3>2. j \in Items /\ (q = p => j \notin Slice(t))
      BY <2>5, SliceInItems, SlicesDisjoint
    <3>3. a'[q][s][j] = a[q][s][j]
      BY <1>0, <2>1, <3>2 DEF DataTypes
    <3> QED
      BY <1>0, <3>1, <3>3 DEF Copied
  <2> QED
    BY <2>4, <2>5 DEF Copied
<1>2. CASE ~Copy(p, t)
  <2>1. a' = a /\ step[p][t] # "copy"
    BY <1>2 DEF Job, At, Write, SyncWritten, Add, SyncAdded, Exchange, Finalize, SyncFinalized,
                SyncCopied
  <2>2. step'[p][t] \in {"sync copied", "done"} => step[p][t] \in {"sync copied", "done"}
    BY <1>0, <2>1 DEF Outcome, Becomes
  <2>3. ASSUME NEW q \in Parties, NEW u \in Threads, step'[q][u] \in {"sync copied", "done"}
        PROVE  step[q][u] \in {"sync copied", "done"}
    BY <1>0, <2>2, <2>3 DEF OthersStay
  <2> QED
    BY <1>0, <2>1, <2>3 DEF Copied
<1> QED
  BY <1>1, <1>2

LEMMA DataInit == Init => Blocked /\ DataTypes /\ DataInv
<1> SUFFICES ASSUME Init PROVE Blocked /\ DataTypes /\ DataInv
  OBVIOUS
<1>1. /\ \A s \in Shuffles, j \in Items : Item(s, j) \in Values
      /\ Unset \in Values
  BY DEF Item, Values
<1>2. Blocked
  BY DEF Init, Blocked, Waits
<1>3. DataTypes
  <2>1. \A t \in Threads : [j \in Slice(t) |-> Unset] \in [Slice(t) -> Values]
    BY <1>1
  <2>2. \A t \in Threads : [j \in Slice(t) |-> Unset] \in Inputs
    BY <2>1 DEF Inputs
  <2>3. /\ input \in [Parties -> [Threads -> [Passes -> [Shuffles -> Inputs]]]]
        /\ \A p \in Parties, t \in Threads, k \in Passes, s \in Shuffles :
              input[p][t][k][s] \in [Slice(t) -> Values]
    BY <2>1, <2>2 DEF Init
  <2>4. /\ to_shuffle \in [Parties -> [Shuffles -> [Items -> Contents]]]
        /\ to_share \in [Parties -> [Items -> Values]]
        /\ a \in [Parties -> [Shuffles -> [Items -> Contents]]]
    BY <1>1 DEF Init, Contents
  <2> QED
    BY <2>3, <2>4 DEF DataTypes
<1>4. \A p \in Parties, t \in Threads :
         step[p][t] = "write" /\ pass[p][t] = 0 /\ current[p][t] = 1 /\ sent[p][t] = 0 /\ ~Waits(p, t)
  BY DEF Init, Waits
<1>5. ShuffledSoFar
  <2>1. \A p \in Parties, t \in Threads : Finalized(p, t) = 0
    <3>1. 0 + 0 = 0
      OBVIOUS
    <3>2. \A p \in Parties, t \in Threads : Finalized(p, t) = 0 + 0
      BY <1>4 DEF Finalized
    <3> QED
      BY <3>1, <3>2
  <2>2. \A p \in Parties, s \in Shuffles, j \in Items : to_shuffle[p][s][j] = Right(s, 0, j)
    BY DEF Init, Right, Origin
  <2>3. \A p \in Parties, t \in Threads, s \in Shuffles : ~Contributed(p, t, s)
    <3>1. \A s \in Shuffles : ~(s < 1)
      BY ShuffleAssumption DEF Shuffles
    <3> QED
      BY <1>4, <3>1 DEF Contributed
  <2> QED
    BY <2>1, <2>2, <2>3, SliceInItems DEF ShuffledSoFar, SliceIsRight
<1>6. ToShare
  BY <1>4 DEF ToShare, HasWritten, At
<1>7. Input
  <2>1. ASSUME NEW p \in Parties, NEW t \in Threads, NEW k \in Passes, NEW s \in Shuffles
        PROVE  ~HasAdded(p, t, k, s)
    <3>1. ~(k < 0) /\ ~(s < 1)
      BY ShuffleAssumption DEF Passes, Shuffles
    <3> QED
      BY <1>4, <3>1 DEF HasAdded
  <2> QED
    BY <2>1 DEF Input
<1>8. Copied
  BY <1>4 DEF Copied
<1> QED
  BY <1>2, <1>3, <1>5, <1>6, <1>7, <1>8 DEF DataInv

LEMMA IInvStep == IInv /\ [Next]_vars => IInv'
<1>1. ASSUME IInv, NEW p \in Parties, NEW t \in Threads, Job(p, t) PROVE IInv'
  <2>1. LockInv'
    BY <1>1, LockStep DEF IInv, Next
  <2> QED
    BY <1>1, <2>1, JobBlocked, JobDataTypes, JobShuffled, JobToShare, JobInput, JobCopied
       DEF IInv, DataInv
<1>2. ASSUME IInv, UNCHANGED vars PROVE IInv'
  <2>1. LockInv'
    BY <1>2, LockStep DEF IInv
  <2>2. UNCHANGED <<step, pass, current, arrived, to_shuffle, to_share, input, sent, a>>
    BY <1>2 DEF vars, threadVars
  <2>3. Blocked' /\ DataTypes'
    BY <1>2, <2>2 DEF IInv, Blocked, Waits, DataTypes
  <2>4. ShuffledSoFar' /\ ToShare'
    <3>1. \A p \in Parties, t \in Threads :
             /\ Finalized(p, t)' = Finalized(p, t)
             /\ \A s \in Shuffles : Contributed(p, t, s)' <=> Contributed(p, t, s)
      BY <2>2 DEF Finalized, Contributed
    <3>2. \A p \in Parties, t \in Threads, s \in Shuffles : \A j \in Slice(t) :
             SliceIsRight(p, t, s, j) => SliceIsRight(p, t, s, j)'
      BY <2>2, <3>1 DEF SliceIsRight
    <3>3. ShuffledSoFar'
      BY <1>2, <3>2 DEF IInv, DataInv, ShuffledSoFar
    <3>4. ToShare'
      BY <1>2, <2>2 DEF IInv, DataInv, ToShare, HasWritten, Waits, At
    <3> QED
      BY <3>3, <3>4
  <2>5. Input' /\ Copied'
    <3>1. \A p \in Parties, t \in Threads, k \in Passes, s \in Shuffles :
             HasAdded(p, t, k, s)' <=> HasAdded(p, t, k, s)
      BY <2>2 DEF HasAdded
    <3>2. Input'
      BY <1>2, <2>2, <3>1 DEF IInv, DataInv, Input
    <3>3. Copied'
      BY <1>2, <2>2 DEF IInv, DataInv, Copied
    <3> QED
      BY <3>2, <3>3
  <2> QED
    BY <2>1, <2>3, <2>4, <2>5 DEF IInv, DataInv
<1> QED
  BY <1>1, <1>2 DEF Next

LEMMA IInvInvariance == Spec => []IInv
<1>1. Init => IInv
  BY LockInit, DataInit DEF IInv
<1> QED
  BY <1>1, IInvStep, PTL DEF Spec

\* The state of the threads of shuffle_job has the types it is declared with (TypeOK).
THEOREM TypeCorrect == Spec => []TypeOK
<1>1. IInv => TypeOK
  BY DEF IInv, LockInv, Control, Steps, DataTypes, TypeOK
<1> QED
  BY <1>1, IInvInvariance, PTL

\* When all threads are through, each party holds shares of the items in the order the three
\* permutations, or their inverse, put them in (Shuffled): the passes of shuffle_job compose
\* whatever the order in which its threads run.
THEOREM ItemsShuffled == Spec => []Shuffled
<1>1. ASSUME IInv, Done, NEW p \in Parties, NEW s \in Shuffles, NEW j \in Items
      PROVE  a[p][s][j] = Right(s, 3, j)
  <2>1. PICK t \in Threads : j \in Slice(t)
    BY SlicesCover
  <2>2. step[p][t] = "done"
    BY <1>1 DEF Done, At
  <2> QED
    BY <1>1, <2>1, <2>2 DEF IInv, DataInv, Copied
<1>2. ASSUME NEW s \in Shuffles, NEW j \in Items
      PROVE  IF s \in Reverse THEN Origin(s, 3, j) = Composed(s, j)
             ELSE Composed(s, j) \in Items /\ Origin(s, 3, Composed(s, j)) = j
  <2>1. 0 \in Passes /\ 1 \in Passes /\ 2 \in Passes
    BY DEF Passes
  <2>2. \A i \in Items : Origin(s, 3, i) = Source(s, 0, Source(s, 1, Source(s, 2, i)))
    BY DEF Origin
  <2>3. CASE s \in Reverse
    <3>1. Index(s, 0) = 2 /\ Index(s, 1) = 1 /\ Index(s, 2) = 0
      BY <2>3 DEF Index
    <3>2. \A i : /\ Source(s, 0, i) = Perm[s][2][i] /\ Source(s, 1, i) = Perm[s][1][i]
                 /\ Source(s, 2, i) = Perm[s][0][i]
      BY <2>3, <3>1 DEF Source
    <3> QED
      BY <2>2, <2>3, <3>2 DEF Composed
  <2>4. CASE s \notin Reverse
    <3>1. Index(s, 0) = 0 /\ Index(s, 1) = 1 /\ Index(s, 2) = 2
      BY <2>4 DEF Index
    <3>2. \A k \in Passes, i \in Items :
             /\ Perm[s][Index(s, k)][i] \in Items
             /\ Source(s, k, Perm[s][Index(s, k)][i]) = i
      BY <2>4, PermFacts DEF Source, Before
    <3>3. \A i \in Items : /\ Perm[s][0][i] \in Items /\ Source(s, 0, Perm[s][0][i]) = i
                           /\ Perm[s][1][i] \in Items /\ Source(s, 1, Perm[s][1][i]) = i
                           /\ Perm[s][2][i] \in Items /\ Source(s, 2, Perm[s][2][i]) = i
      BY <2>1, <3>1, <3>2
    <3> QED
      BY <2>2, <2>4, <3>3 DEF Composed
  <2> QED
    BY <2>3, <2>4
<1>3. IInv => Shuffled
  BY <1>1, <1>2 DEF Shuffled, Right
<1> QED
  BY <1>3, IInvInvariance, PTL
=============================================================================
