-------------------------- MODULE CoordinatorProofs --------------------------
(***************************************************************************)
(* Theorems about Coordinator, for any number of parties, threads and      *)
(* checks.                                                                 *)
(***************************************************************************)
EXTENDS Coordinator, TLAPS, SequenceTheorems, FiniteSetTheorems

\* A thread in a check has not yet completed all of them, and the coordinator that
\* has released a thread points at it.
InCheck ==
    \A p \in Parties, t \in Threads : pc[p][t] # "idle" => checked[p][t] < NChecks
PointsAtThread == \A p \in Parties : cpc[p] = "release" => cursor[p] \in Threads

TypeInv == TypeOK /\ InCheck /\ PointsAtThread

LEMMA CardinalityOfParties == N \in Nat
  BY CoordinatorAssumption, FS_CardinalityType DEF N

LEMMA TypeInit == Init => TypeInv
  BY CoordinatorAssumption DEF Init, TypeInv, TypeOK, InCheck, PointsAtThread, Threads, Checks

\* Where a thread can be, and the facts about functions on parties and threads that
\* the steps below need.
Places == {"idle", "seeding", "revealing", "committing", "waiting", "opening", "failed"}
Table(S) == [Parties -> [Threads -> S]]

LEMMA TypesOfThreads ==
    ASSUME TypeOK
    PROVE  /\ pc \in Table(Places) /\ checked \in Table(0..NChecks)
           /\ rounds \in Table(Nat) /\ committed \in Table(Nat)
           /\ waiting \in Table(Nat) /\ signals \in Table(Nat)
           /\ opened \in [Parties -> Seq(Threads)]
  BY DEF TypeOK, Table, Places

\* A step that moves one thread, which has not completed all its checks.
LEMMA Move ==
    ASSUME TypeInv, NEW p \in Parties, NEW t \in Threads, checked[p][t] < NChecks,
           NEW w \in Places, pc' = [pc EXCEPT ![p][t] = w], checked' = checked
    PROVE  pc' \in Table(Places) /\ InCheck'
<1>1. pc \in Table(Places)
  BY TypesOfThreads DEF TypeInv
<1>2. /\ pc' \in Table(Places)
      /\ \A q \in Parties, u \in Threads : q # p \/ u # t => pc'[q][u] = pc[q][u]
  BY <1>1 DEF Table
<1>3. ASSUME NEW q \in Parties, NEW u \in Threads, pc'[q][u] # "idle"
      PROVE  checked'[q][u] < NChecks
  BY <1>2, <1>3 DEF TypeInv, InCheck
<1> QED
  BY <1>2, <1>3 DEF InCheck

LEMMA BeginTypes ==
    ASSUME TypeInv, NEW p \in Parties, NEW t \in Threads, Begin(p, t)
    PROVE  TypeInv'
<1>1. committed \in Table(Nat)
  BY TypesOfThreads DEF TypeInv
<1>2. rounds \in Table(Nat)
  BY TypesOfThreads DEF TypeInv
<1>3. pc' \in Table(Places) /\ InCheck'
  <2>1. PICK w \in Places : pc' = [pc EXCEPT ![p][t] = w]
    BY DEF Begin, Goto, Places
  <2>2. checked' = checked /\ checked[p][t] < NChecks
    BY DEF Begin
  <2> QED
    BY <2>1, <2>2, Move
<1>4. committed' \in Table(Nat)
  BY <1>1 DEF Begin, Table
<1>5. rounds' \in Table(Nat)
  BY <1>2 DEF Begin, BeginBroadcast, Table
<1>6. UNCHANGED <<checked, opened, wrong, in, cpc, told, heard, waiting, cursor, signals, done, running>>
  BY DEF Begin, coordVars
<1> QED
  BY <1>3, <1>4, <1>5, <1>6 DEF TypeInv, TypeOK, PointsAtThread, Table, Places

LEMMA SeedTypes ==
    ASSUME TypeInv, NEW p \in Parties, NEW t \in Threads, Seed(p, t)
    PROVE  TypeInv'
<1>1. committed \in Table(Nat)
  BY TypesOfThreads DEF TypeInv
<1>2. rounds \in Table(Nat)
  BY TypesOfThreads DEF TypeInv
<1>3. pc' \in Table(Places) /\ InCheck'
  <2>1. PICK w \in Places : pc' = [pc EXCEPT ![p][t] = w]
    BY DEF Seed, Goto, Places
  <2>2. checked' = checked /\ checked[p][t] < NChecks
    BY DEF Seed, TypeInv, InCheck
  <2> QED
    BY <2>1, <2>2, Move
<1>4. committed' \in Table(Nat)
  BY <1>1 DEF Seed, Table
<1>5. rounds' \in Table(Nat)
  BY <1>2 DEF Seed, BeginBroadcast, Table
<1>6. UNCHANGED <<checked, opened, wrong, in, cpc, told, heard, waiting, cursor, signals, done, running>>
  BY DEF Seed, coordVars
<1> QED
  BY <1>3, <1>4, <1>5, <1>6 DEF TypeInv, TypeOK, PointsAtThread, Table, Places

LEMMA CommitTypes ==
    ASSUME TypeInv, NEW p \in Parties, NEW t \in Threads, Commit(p, t)
    PROVE  TypeInv'
<1>1. committed \in Table(Nat)
  BY TypesOfThreads DEF TypeInv
<1>2. rounds \in Table(Nat)
  BY TypesOfThreads DEF TypeInv
<1>3. pc' \in Table(Places) /\ InCheck'
  <2>1. PICK w \in Places : pc' = [pc EXCEPT ![p][t] = w]
    BY DEF Commit, Goto, Places
  <2>2. checked' = checked /\ checked[p][t] < NChecks
    BY DEF Commit, TypeInv, InCheck
  <2> QED
    BY <2>1, <2>2, Move
<1>4. committed' \in Table(Nat)
  BY <1>1 DEF Commit, Table
<1>5. rounds' \in Table(Nat)
  BY <1>2 DEF Commit, BeginBroadcast, Table
<1>6. UNCHANGED <<checked, opened, wrong, in, cpc, told, heard, waiting, cursor, signals, done, running>>
  BY DEF Commit, coordVars
<1> QED
  BY <1>3, <1>4, <1>5, <1>6 DEF TypeInv, TypeOK, PointsAtThread, Table, Places

LEMMA WaitTypes ==
    ASSUME TypeInv, NEW p \in Parties, NEW t \in Threads, Wait(p, t)
    PROVE  TypeInv'
<1>1. in \in [Parties -> Seq(Threads)]
  BY DEF TypeInv, TypeOK
<1>2. pc' \in Table(Places) /\ InCheck'
  <2>1. PICK w \in Places : pc' = [pc EXCEPT ![p][t] = w]
    BY DEF Wait, Goto, Places
  <2>2. checked' = checked /\ checked[p][t] < NChecks
    BY DEF Wait, TypeInv, InCheck
  <2> QED
    BY <2>1, <2>2, Move
<1>3. in' \in [Parties -> Seq(Threads)]
  BY <1>1 DEF Wait
<1>4. UNCHANGED <<checked, rounds, committed, opened, wrong, cpc, told, heard, waiting, cursor, signals, done, running>>
  BY DEF Wait
<1> QED
  BY <1>2, <1>3, <1>4 DEF TypeInv, TypeOK, PointsAtThread, Table, Places

LEMMA OpenTypes ==
    ASSUME TypeInv, NEW p \in Parties, NEW t \in Threads, Open(p, t)
    PROVE  TypeInv'
<1>1. opened \in [Parties -> Seq(Threads)]
  BY DEF TypeInv, TypeOK
<1>2. rounds \in Table(Nat)
  BY TypesOfThreads DEF TypeInv
<1>3. signals \in Table(Nat)
  BY TypesOfThreads DEF TypeInv
<1>4. pc' \in Table(Places) /\ InCheck'
  <2>1. PICK w \in Places : pc' = [pc EXCEPT ![p][t] = w]
    BY DEF Open, Goto, Places
  <2>2. checked' = checked /\ checked[p][t] < NChecks
    BY DEF Open, TypeInv, InCheck
  <2> QED
    BY <2>1, <2>2, Move
<1>5. opened' \in [Parties -> Seq(Threads)]
  BY <1>1 DEF Open
<1>6. rounds' \in Table(Nat)
  BY <1>2 DEF Open, BeginBroadcast, Table
<1>7. signals' \in Table(Nat)
  BY <1>3 DEF Open, Table
<1>8. UNCHANGED <<checked, committed, wrong, in, cpc, told, heard, waiting, cursor, done, running>>
  BY DEF Open
<1> QED
  BY <1>4, <1>5, <1>6, <1>7, <1>8 DEF TypeInv, TypeOK, PointsAtThread, Table, Places

LEMMA VerifyTypes ==
    ASSUME TypeInv, NEW p \in Parties, NEW t \in Threads, Verify(p, t)
    PROVE  TypeInv'
<1>1. checked[p][t] < NChecks
  BY DEF Verify, TypeInv, InCheck
<1>2. UNCHANGED <<rounds, committed, opened, wrong, in, cpc, told, heard, waiting, cursor, signals, running>>
  BY DEF Verify
<1>3. CASE pc' = [pc EXCEPT ![p][t] = "failed"] /\ UNCHANGED <<checked, done>>
  <2>1. pc' \in Table(Places) /\ InCheck'
    BY <1>1, <1>3, Move DEF Places
  <2> QED
    BY <1>2, <1>3, <2>1 DEF TypeInv, TypeOK, PointsAtThread, Table, Places
<1>4. CASE /\ pc' = [pc EXCEPT ![p][t] = "idle"]
           /\ checked' = [checked EXCEPT ![p][t] = @ + 1]
           /\ done' = [done EXCEPT ![p] = @ + 1]
  <2>1. checked \in Table(0..NChecks)
    BY TypesOfThreads DEF TypeInv
  <2>2. pc \in Table(Places)
    BY TypesOfThreads DEF TypeInv
  <2>3. checked[p][t] + 1 \in 0..NChecks
    BY <1>1, <2>1, CoordinatorAssumption DEF Table
  <2>4. /\ checked' \in Table(0..NChecks)
        /\ \A q \in Parties, u \in Threads : q # p \/ u # t => checked'[q][u] = checked[q][u]
    BY <1>4, <2>1, <2>3 DEF Table
  <2>5. /\ pc' \in Table(Places) /\ pc'[p][t] = "idle"
        /\ \A q \in Parties, u \in Threads : q # p \/ u # t => pc'[q][u] = pc[q][u]
    BY <1>4, <2>2 DEF Table, Places
  <2>6. InCheck'
    BY <2>4, <2>5 DEF TypeInv, InCheck
  <2>7. done' \in [Parties -> Nat]
    BY <1>4 DEF TypeInv, TypeOK
  <2> QED
    BY <1>2, <2>4, <2>5, <2>6, <2>7 DEF TypeInv, TypeOK, PointsAtThread, Table, Places
<1> QED
  BY <1>3, <1>4 DEF Verify, Goto

\* The same for the steps of the coordinator thread, none of which moves a thread.
LEMMA CPopTypes == ASSUME TypeInv, NEW p \in Parties, CPop(p) PROVE TypeInv'
<1>1. UNCHANGED <<pc, checked, rounds, committed, opened, wrong, heard, waiting, cursor, signals, done, running>>
  BY DEF CPop, threadVars
<1>2. in \in [Parties -> Seq(Threads)] /\ told \in [Parties -> Seq(Threads)]
  BY DEF TypeInv, TypeOK
<1>3. in' \in [Parties -> Seq(Threads)] /\ told' \in [Parties -> Seq(Threads)]
  <2>1. CASE UNCHANGED <<in, told>>
    BY <1>2, <2>1
  <2>2. CASE /\ in[p] # <<>> /\ in' = [in EXCEPT ![p] = Tail(@)]
             /\ told' = [told EXCEPT ![p] = Append(@, Head(in[p]))]
    <3>1. Head(in[p]) \in Threads /\ Tail(in[p]) \in Seq(Threads)
      BY <1>2, <2>2, HeadTailProperties
    <3> QED
      BY <1>2, <2>2, <3>1, AppendProperties
  <2> QED
    BY <2>1, <2>2 DEF CPop
<1>4. /\ cpc' \in [Parties -> {"pop", "broadcast", "scan", "release", "ended"}]
      /\ PointsAtThread'
  <2>1. cpc \in [Parties -> {"pop", "broadcast", "scan", "release", "ended"}]
    BY DEF TypeInv, TypeOK
  <2> QED
    BY <1>1, <2>1 DEF CPop, CGoto, TypeInv, PointsAtThread
<1> QED
  BY <1>1, <1>3, <1>4 DEF TypeInv, TypeOK, InCheck

LEMMA CHearTypes == ASSUME TypeInv, NEW p \in Parties, CHear(p) PROVE TypeInv'
<1>1. UNCHANGED <<pc, checked, rounds, committed, opened, wrong, in, told, signals, done, running>>
  BY DEF CHear, threadVars
<1>2. waiting' \in Table(Nat)
  <2>1. waiting \in Table(Nat)
    BY TypesOfThreads DEF TypeInv
  <2> DEFINE askers(t) == {q \in Parties : told[q][heard[p] + 1] = t}
  <2>2. \A t \in Threads : Cardinality(askers(t)) \in Nat
    BY FS_Subset, FS_CardinalityType, CoordinatorAssumption
  <2> HIDE DEF askers
  <2>3. [t \in Threads |-> waiting[p][t] + Cardinality(askers(t))] \in [Threads -> Nat]
    BY <2>1, <2>2 DEF Table
  <2>4. waiting' = [waiting EXCEPT ![p] = [t \in Threads |-> waiting[p][t] + Cardinality(askers(t))]]
    BY DEF CHear, askers
  <2> QED
    BY <2>1, <2>3, <2>4 DEF Table
<1>3. heard' \in [Parties -> Nat]
  <2>1. heard \in [Parties -> Nat]
    BY DEF TypeInv, TypeOK
  <2> QED
    BY <2>1 DEF CHear
<1>4. cursor' \in [Parties -> 1..(NThreads + 1)]
  <2>1. cursor \in [Parties -> 1..(NThreads + 1)]
    BY DEF TypeInv, TypeOK
  <2> QED
    BY <2>1, CoordinatorAssumption DEF CHear
<1>5. /\ cpc' \in [Parties -> {"pop", "broadcast", "scan", "release", "ended"}]
      /\ PointsAtThread'
  <2>1. cpc \in [Parties -> {"pop", "broadcast", "scan", "release", "ended"}]
    BY DEF TypeInv, TypeOK
  <2> QED
    BY <2>1 DEF CHear, CGoto, TypeInv, PointsAtThread
<1> QED
  BY <1>1, <1>2, <1>3, <1>4, <1>5 DEF TypeInv, TypeOK, InCheck, Table

LEMMA CScanTypes == ASSUME TypeInv, NEW p \in Parties, CScan(p) PROVE TypeInv'
<1>1. UNCHANGED <<pc, checked, rounds, committed, opened, wrong, in, told, heard, waiting, done, running>>
  BY DEF CScan, threadVars
<1>2. cursor \in [Parties -> 1..(NThreads + 1)]
  BY DEF TypeInv, TypeOK
<1>3. cpc \in [Parties -> {"pop", "broadcast", "scan", "release", "ended"}]
  BY DEF TypeInv, TypeOK
<1>4. cursor' \in [Parties -> 1..(NThreads + 1)]
  BY <1>2, CoordinatorAssumption DEF CScan
<1>5. signals' \in Table(Nat)
  <2>1. signals \in Table(Nat)
    BY TypesOfThreads DEF TypeInv
  <2>2. cursor[p] <= NThreads => cursor[p] \in Threads
    BY <1>2, CoordinatorAssumption DEF Threads
  <2>3. \/ signals' = signals
        \/ cursor[p] \in Threads /\ signals' = [signals EXCEPT ![p][cursor[p]] = @ + 1]
    BY <1>2, <2>2, CoordinatorAssumption DEF CScan
  <2> QED
    BY <2>1, <2>3 DEF Table
<1>6. /\ cpc' \in [Parties -> {"pop", "broadcast", "scan", "release", "ended"}]
      /\ PointsAtThread'
  BY <1>2, <1>3, CoordinatorAssumption DEF CScan, CGoto, TypeInv, PointsAtThread, Threads
<1> QED
  BY <1>1, <1>4, <1>5, <1>6 DEF TypeInv, TypeOK, InCheck, Table

LEMMA CDoneTypes == ASSUME TypeInv, NEW p \in Parties, CDone(p) PROVE TypeInv'
<1>1. UNCHANGED <<pc, checked, rounds, committed, opened, wrong, in, told, heard, signals, running>>
  BY DEF CDone, threadVars
<1>2. cursor[p] \in Threads
  BY DEF CDone, TypeInv, PointsAtThread
<1>3. cursor' \in [Parties -> 1..(NThreads + 1)]
  <2>1. cursor \in [Parties -> 1..(NThreads + 1)]
    BY DEF TypeInv, TypeOK
  <2> QED
    BY <1>2, <2>1, CoordinatorAssumption DEF CDone, Threads
<1>4. waiting' \in Table(Nat)
  <2>1. waiting \in Table(Nat)
    BY TypesOfThreads DEF TypeInv
  <2> QED
    BY <1>2, <2>1 DEF CDone, Table
<1>5. done' \in [Parties -> Nat]
  <2>1. done \in [Parties -> Nat]
    BY DEF TypeInv, TypeOK
  <2> QED
    BY <2>1 DEF CDone
<1>6. /\ cpc' \in [Parties -> {"pop", "broadcast", "scan", "release", "ended"}]
      /\ PointsAtThread'
  <2>1. cpc \in [Parties -> {"pop", "broadcast", "scan", "release", "ended"}]
    BY DEF TypeInv, TypeOK
  <2>2. cursor \in [Parties -> 1..(NThreads + 1)]
    BY DEF TypeInv, TypeOK
  <2> QED
    BY <2>1, <2>2 DEF CDone, CGoto, TypeInv, PointsAtThread
<1> QED
  BY <1>1, <1>3, <1>4, <1>5, <1>6 DEF TypeInv, TypeOK, InCheck, Table

LEMMA DestroyTypes == ASSUME TypeInv, NEW p \in Parties, Destroy(p) PROVE TypeInv'
<1>1. UNCHANGED <<pc, checked, rounds, committed, opened, wrong, in, cpc, told, heard, waiting, cursor, signals>>
  BY DEF Destroy, threadVars
<1>2. done' \in [Parties -> Nat]
  <2>1. done \in [Parties -> Nat]
    BY DEF TypeInv, TypeOK
  <2> QED
    BY <2>1 DEF Destroy
<1>3. running' \in [Parties -> BOOLEAN]
  <2>1. running \in [Parties -> BOOLEAN]
    BY DEF TypeInv, TypeOK
  <2> QED
    BY <2>1 DEF Destroy
<1> QED
  BY <1>1, <1>2, <1>3 DEF TypeInv, TypeOK, InCheck, PointsAtThread

LEMMA TypeStep == ASSUME TypeInv, [Next]_vars PROVE TypeInv'
<1>1. CASE UNCHANGED vars
  BY <1>1 DEF vars, threadVars, coordVars, TypeInv, TypeOK, InCheck, PointsAtThread
<1> QED
  BY <1>1, BeginTypes, SeedTypes, CommitTypes, WaitTypes, OpenTypes, VerifyTypes, CPopTypes, CHearTypes,
     CScanTypes, CDoneTypes, DestroyTypes DEF Next, Check, Coordinate

\* The variables keep their types.
THEOREM TypeCorrect == Spec => []TypeOK
<1>1. TypeInv /\ [Next]_vars => TypeInv'
  BY TypeStep
<1>2. TypeInv => TypeOK
  BY DEF TypeInv
<1> QED
  BY <1>1, <1>2, TypeInit, PTL DEF Spec

-----------------------------------------------------------------------------
\* While the destructor has not been called, the one release of a party is where
\* its coordinator points: signalled, taken, or finished.  Afterwards its threads
\* are done for good.
InFlight(p, t) == pc[p][t] \in {"opening", "failed"}
Calm(p, t) == signals[p][t] = 0 /\ ~InFlight(p, t)
OneRelease(p) ==
    IF cpc[p] = "release"
    THEN LET c == cursor[p]
         IN /\ \A t \in Threads : t # c => Calm(p, t)
            /\ \/ signals[p][c] = 1 /\ ~InFlight(p, c) /\ done[p] = 0
               \/ signals[p][c] = 0 /\ InFlight(p, c) /\ done[p] = 0
               \/ signals[p][c] = 0 /\ ~InFlight(p, c) /\ done[p] = 1
    ELSE done[p] = 0 /\ \A t \in Threads : Calm(p, t)
AllDone(p) == \A t \in Threads : pc[p][t] = "idle" /\ checked[p][t] = NChecks
PartyInv(p) == IF running[p] THEN OneRelease(p) ELSE AllDone(p)
ReleaseInv == \A p \in Parties : PartyInv(p)

\* A step at one party leaves what is said of the others as it was.
Untouched(q) ==
    /\ pc'[q] = pc[q] /\ checked'[q] = checked[q] /\ signals'[q] = signals[q]
    /\ cpc'[q] = cpc[q] /\ cursor'[q] = cursor[q] /\ done'[q] = done[q]
    /\ running'[q] = running[q]

LEMMA Elsewhere ==
    ASSUME ReleaseInv, NEW p \in Parties, \A q \in Parties \ {p} : Untouched(q), PartyInv(p)'
    PROVE  ReleaseInv'
<1>1. ASSUME NEW q \in Parties \ {p} PROVE PartyInv(q)'
  <2>1. PartyInv(q) /\ Untouched(q)
    BY DEF ReleaseInv
  <2> QED
    BY <2>1 DEF PartyInv, OneRelease, AllDone, Calm, InFlight, Untouched
<1> QED
  BY <1>1 DEF ReleaseInv

LEMMA DomainsOfAll ==
    ASSUME TypeInv, NEW p \in Parties
    PROVE  /\ pc \in Table(Places) /\ signals \in Table(Nat)
           /\ checked \in Table(0..NChecks)
           /\ cpc \in [Parties -> {"pop", "broadcast", "scan", "release", "ended"}]
           /\ cursor \in [Parties -> 1..(NThreads + 1)]
           /\ done \in [Parties -> Nat] /\ running \in [Parties -> BOOLEAN]
  BY TypesOfThreads DEF TypeInv, TypeOK

\* A step of thread t before its release, or none at all.
LEMMA BeforeRelease ==
    ASSUME TypeInv, ReleaseInv, NEW p \in Parties, NEW t \in Threads,
           ~InFlight(p, t), NEW w \in Places \ {"opening", "failed"},
           pc' = [pc EXCEPT ![p][t] = w], checked[p][t] < NChecks,
           UNCHANGED <<checked, signals, cpc, cursor, done, running>>
    PROVE  ReleaseInv'
<1>1. pc \in Table(Places)
  BY DomainsOfAll
<1>2. /\ \A q \in Parties \ {p} : pc'[q] = pc[q]
      /\ \A u \in Threads : u # t => pc'[p][u] = pc[p][u]
      /\ pc'[p][t] = w
  BY <1>1 DEF Table
<1>3. \A u \in Threads : Calm(p, u)' <=> Calm(p, u)
  BY <1>2 DEF Calm, InFlight
<1>4. \A u \in Threads : InFlight(p, u)' <=> InFlight(p, u)
  BY <1>2 DEF InFlight
<1>5. running[p]
  <2>1. checked[p][t] # NChecks
    BY DomainsOfAll, CoordinatorAssumption DEF Table
  <2> QED
    BY <2>1 DEF ReleaseInv, PartyInv, AllDone
<1>6. cpc[p] = "release" => cursor[p] \in Threads
  BY DEF TypeInv, PointsAtThread
<1>7. PartyInv(p)'
  BY <1>3, <1>4, <1>5, <1>6 DEF ReleaseInv, PartyInv, OneRelease
<1> QED
  BY <1>2, <1>7, Elsewhere DEF Untouched

\* A thread that is released, or in flight, is the one its coordinator points at.
LEMMA InFocus ==
    ASSUME TypeInv, ReleaseInv, NEW p \in Parties, NEW t \in Threads,
           pc[p][t] # "idle", ~Calm(p, t)
    PROVE  running[p] /\ cpc[p] = "release" /\ cursor[p] = t
  BY DEF ReleaseInv, PartyInv, OneRelease, AllDone

LEMMA OpenRelease ==
    ASSUME TypeInv, ReleaseInv, NEW p \in Parties, NEW t \in Threads, Open(p, t)
    PROVE  ReleaseInv'
<1>1. running[p] /\ cpc[p] = "release" /\ cursor[p] = t
  <2>1. signals[p][t] # 0 /\ pc[p][t] # "idle"
    BY DEF Open
  <2> QED
    BY <2>1, InFocus DEF Calm
<1>2. signals[p][t] = 1 /\ ~InFlight(p, t) /\ done[p] = 0
  BY <1>1 DEF Open, ReleaseInv, PartyInv, OneRelease
<1>3. /\ \A q \in Parties \ {p} : signals'[q] = signals[q]
      /\ \A u \in Threads : u # t => signals'[p][u] = signals[p][u]
      /\ signals'[p][t] = 0
  <2>1. signals \in Table(Nat)
    BY DomainsOfAll
  <2> QED
    BY <1>2, <2>1 DEF Open, Table
<1>4. /\ \A q \in Parties \ {p} : pc'[q] = pc[q]
      /\ \A u \in Threads : u # t => pc'[p][u] = pc[p][u]
      /\ pc'[p][t] = "opening"
  <2>1. pc \in Table(Places)
    BY DomainsOfAll
  <2> QED
    BY <2>1 DEF Open, Goto, Table
<1>5. UNCHANGED <<checked, cpc, cursor, done, running>>
  BY DEF Open
<1>6. \A u \in Threads : u # t => Calm(p, u)'
  BY <1>1, <1>3, <1>4 DEF ReleaseInv, PartyInv, OneRelease, Calm, InFlight
<1>7. PartyInv(p)'
  BY <1>1, <1>2, <1>3, <1>4, <1>5, <1>6 DEF PartyInv, OneRelease, InFlight
<1> QED
  BY <1>3, <1>4, <1>5, <1>7, Elsewhere DEF Untouched

LEMMA VerifyRelease ==
    ASSUME TypeInv, ReleaseInv, NEW p \in Parties, NEW t \in Threads, Verify(p, t)
    PROVE  ReleaseInv'
<1>1. running[p] /\ cpc[p] = "release" /\ cursor[p] = t
  <2>1. InFlight(p, t) /\ pc[p][t] # "idle"
    BY DEF Verify, InFlight
  <2> QED
    BY <2>1, InFocus DEF Calm
<1>2. signals[p][t] = 0 /\ done[p] = 0 /\ \A u \in Threads : u # t => Calm(p, u)
  BY <1>1 DEF Verify, InFlight, ReleaseInv, PartyInv, OneRelease
<1>3. /\ \A q \in Parties \ {p} : pc'[q] = pc[q]
      /\ \A u \in Threads : u # t => pc'[p][u] = pc[p][u]
  <2>1. pc \in Table(Places)
    BY DomainsOfAll
  <2>2. PICK w \in Places : pc' = [pc EXCEPT ![p][t] = w]
    BY DEF Verify, Goto, Places
  <2> QED
    BY <2>1, <2>2 DEF Table
<1>4. \/ pc'[p][t] = "failed" /\ done'[p] = 0
      \/ pc'[p][t] = "idle" /\ done'[p] = 1
  <2>1. pc \in Table(Places)
    BY DomainsOfAll
  <2>2. done \in [Parties -> Nat]
    BY DomainsOfAll
  <2>3. \/ pc' = [pc EXCEPT ![p][t] = "failed"] /\ done' = done
        \/ pc' = [pc EXCEPT ![p][t] = "idle"] /\ done' = [done EXCEPT ![p] = @ + 1]
    BY DEF Verify, Goto
  <2>4. CASE pc' = [pc EXCEPT ![p][t] = "failed"] /\ done' = done
    BY <1>2, <2>1, <2>4 DEF Table
  <2>5. CASE pc' = [pc EXCEPT ![p][t] = "idle"] /\ done' = [done EXCEPT ![p] = @ + 1]
    BY <1>2, <2>1, <2>2, <2>5 DEF Table
  <2> QED
    BY <2>3, <2>4, <2>5
<1>5. \A q \in Parties \ {p} : checked'[q] = checked[q] /\ done'[q] = done[q]
  <2>1. checked \in Table(0..NChecks) /\ done \in [Parties -> Nat]
    BY DomainsOfAll
  <2> QED
    BY <2>1 DEF Verify, Table
<1>6. UNCHANGED <<signals, cpc, cursor, running>>
  BY DEF Verify
<1>7. \A u \in Threads : u # t => Calm(p, u)'
  BY <1>2, <1>3, <1>6 DEF Calm, InFlight
<1>8. PartyInv(p)'
  BY <1>1, <1>2, <1>4, <1>6, <1>7 DEF PartyInv, OneRelease, InFlight
<1> QED
  BY <1>3, <1>5, <1>6, <1>8, Elsewhere DEF Untouched

\* The coordinator's own steps, and the destructor.
LEMMA CoordinateRelease ==
    ASSUME TypeInv, ReleaseInv, NEW p \in Parties, Coordinate(p)
    PROVE  ReleaseInv'
<1>1. UNCHANGED <<pc, checked, running>>
  BY DEF Coordinate, CPop, CHear, CScan, CDone, threadVars
<1>2. \A q \in Parties \ {p} : cpc'[q] = cpc[q] /\ cursor'[q] = cursor[q]
  <2>1. /\ cpc \in [Parties -> {"pop", "broadcast", "scan", "release", "ended"}]
        /\ cursor \in [Parties -> 1..(NThreads + 1)]
    BY DomainsOfAll
  <2> QED
    BY <2>1 DEF Coordinate, CPop, CHear, CScan, CDone, CGoto
<1>3. \A q \in Parties \ {p} : signals'[q] = signals[q] /\ done'[q] = done[q]
  <2>1. signals \in Table(Nat) /\ done \in [Parties -> Nat]
    BY DomainsOfAll
  <2> QED
    BY <2>1 DEF Coordinate, CPop, CHear, CScan, CDone, Table
<1>4. CASE ~running[p]
  <2>1. PartyInv(p)'
    BY <1>1, <1>4 DEF ReleaseInv, PartyInv, AllDone
  <2> QED
    BY <1>1, <1>2, <1>3, <2>1, Elsewhere DEF Untouched
<1>5. CASE running[p]
  <2>1. cpc \in [Parties -> {"pop", "broadcast", "scan", "release", "ended"}]
    BY DomainsOfAll
  <2>2. OneRelease(p)
    BY <1>5 DEF ReleaseInv, PartyInv
  <2>3. ASSUME CPop(p) \/ CHear(p) PROVE OneRelease(p)'
    <3>1. cpc[p] # "release" /\ cpc'[p] # "release" /\ UNCHANGED <<signals, done>>
      BY <2>1, <2>3 DEF CPop, CHear, CGoto
    <3> QED
      BY <1>1, <2>2, <3>1 DEF OneRelease, Calm, InFlight
  <2>4. ASSUME CScan(p) PROVE OneRelease(p)'
    <3>1. done[p] = 0 /\ done' = done /\ \A u \in Threads : Calm(p, u)
      BY <2>2, <2>4 DEF CScan, OneRelease
    <3>2. CASE cpc'[p] # "release" /\ signals' = signals
      BY <1>1, <3>1, <3>2 DEF OneRelease, Calm, InFlight
    <3>3. CASE /\ cursor[p] <= NThreads /\ UNCHANGED cursor
               /\ signals' = [signals EXCEPT ![p][cursor[p]] = @ + 1]
      <4>1. cursor[p] \in Threads
        <5>1. cursor \in [Parties -> 1..(NThreads + 1)]
          BY DomainsOfAll
        <5> QED
          BY <3>3, <5>1, CoordinatorAssumption DEF Threads
      <4>2. signals[p][cursor[p]] = 0
        BY <3>1, <4>1 DEF Calm
      <4>3. /\ signals'[p][cursor[p]] = 1
            /\ \A u \in Threads : u # cursor[p] => signals'[p][u] = signals[p][u]
        <5>1. signals \in Table(Nat)
          BY DomainsOfAll
        <5> QED
          BY <3>3, <4>1, <4>2, <5>1 DEF Table
      <4>4. cpc'[p] = "release"
        BY <2>1, <2>4, <3>3, <4>2, <4>3 DEF CScan, CGoto
      <4>5. ~InFlight(p, cursor[p])
        BY <3>1, <4>1 DEF Calm
      <4> QED
        BY <1>1, <3>1, <3>3, <4>3, <4>4, <4>5 DEF OneRelease, Calm, InFlight
    <3>4. cursor[p] \in Nat
      <4>1. cursor \in [Parties -> 1..(NThreads + 1)]
        BY DomainsOfAll
      <4> QED
        BY <4>1
    <3> QED
      BY <2>1, <2>4, <3>2, <3>3, <3>4, CoordinatorAssumption DEF CScan, CGoto
  <2>5. ASSUME CDone(p) PROVE OneRelease(p)'
    <3>1. done[p] = 1 /\ \A u \in Threads : Calm(p, u)
      BY <2>2, <2>5 DEF CDone, OneRelease, Calm
    <3>2. cpc'[p] = "scan" /\ UNCHANGED signals
      BY <2>1, <2>5 DEF CDone, CGoto
    <3>3. done'[p] = 0
      <4>1. done \in [Parties -> Nat]
        BY DomainsOfAll
      <4> QED
        BY <2>5, <3>1, <4>1 DEF CDone
    <3> QED
      BY <1>1, <3>1, <3>2, <3>3 DEF OneRelease, Calm, InFlight
  <2>6. OneRelease(p)'
    BY <2>3, <2>4, <2>5 DEF Coordinate
  <2> QED
    BY <1>1, <1>2, <1>3, <1>5, <2>6, Elsewhere DEF Untouched, PartyInv
<1> QED
  BY <1>4, <1>5

LEMMA ReleaseStep ==
    ASSUME TypeInv, ReleaseInv, [Next]_vars
    PROVE  ReleaseInv'
<1>1. ASSUME NEW p \in Parties, NEW t \in Threads, Begin(p, t) \/ Seed(p, t) \/ Commit(p, t) \/ Wait(p, t)
      PROVE  ReleaseInv'
  <2>1. PICK w \in Places \ {"opening", "failed"} : pc' = [pc EXCEPT ![p][t] = w]
    BY <1>1 DEF Begin, Seed, Commit, Wait, Goto, Places
  <2>2. ~InFlight(p, t) /\ checked[p][t] < NChecks
    BY <1>1 DEF Begin, Seed, Commit, Wait, InFlight, TypeInv, InCheck
  <2>3. UNCHANGED <<checked, signals, cpc, cursor, done, running>>
    BY <1>1 DEF Begin, Seed, Commit, Wait, coordVars
  <2> QED
    BY <2>1, <2>2, <2>3, BeforeRelease
<1>2. ASSUME NEW p \in Parties, Destroy(p) PROVE ReleaseInv'
  <2>1. UNCHANGED <<pc, checked, signals, cpc, cursor>>
    BY <1>2 DEF Destroy, threadVars
  <2>2. /\ \A q \in Parties \ {p} : done'[q] = done[q] /\ running'[q] = running[q]
        /\ ~running'[p]
    <3>1. done \in [Parties -> Nat] /\ running \in [Parties -> BOOLEAN]
      BY <1>2, DomainsOfAll
    <3> QED
      BY <1>2, <3>1 DEF Destroy
  <2>3. PartyInv(p)'
    BY <1>2, <2>1, <2>2 DEF Destroy, PartyInv, AllDone
  <2> QED
    BY <1>2, <2>1, <2>2, <2>3, Elsewhere DEF Untouched
<1>3. CASE UNCHANGED vars
  BY <1>3 DEF vars, threadVars, coordVars, ReleaseInv, PartyInv, OneRelease, AllDone, Calm, InFlight
<1> QED
  BY <1>1, <1>2, <1>3, OpenRelease, VerifyRelease, CoordinateRelease DEF Next, Check

\* At every party at most one check is between its release and finished(), for any
\* number of threads, because `done' is taken before the next one is released.
THEOREM OneCheckAtATime == Spec => []OneAtATime
<1>1. Init => TypeInv /\ ReleaseInv
  BY TypeInit DEF Init, ReleaseInv, PartyInv, OneRelease, Calm, InFlight
<1>2. TypeInv /\ ReleaseInv /\ [Next]_vars => (TypeInv /\ ReleaseInv)'
  BY TypeStep, ReleaseStep
<1>3. TypeInv /\ ReleaseInv => OneAtATime
  <2> SUFFICES ASSUME TypeInv, ReleaseInv, NEW p \in Parties, NEW t \in Threads, NEW u \in Threads,
                      Released(p, t), Released(p, u)
               PROVE  t = u
    BY DEF OneAtATime
  <2>1. running[p]
    BY DEF ReleaseInv, PartyInv, AllDone, Released
  <2>2. ~Calm(p, t) /\ ~Calm(p, u)
    BY DEF Released, Calm, InFlight, TypeInv, TypeOK
  <2> QED
    BY <2>1, <2>2 DEF ReleaseInv, PartyInv, OneRelease
<1> QED
  BY <1>1, <1>2, <1>3, PTL DEF Spec

-----------------------------------------------------------------------------
\* The broadcasts of the first k checks of a thread: two each, and another two where
\* a random seed is needed.
Extra(t, k) == IF <<t, k>> \in Large THEN 2 ELSE 0
Before(t, k) == 2 * k + 2 * Cardinality({i \in 1..k : <<t, i>> \in Large})

LEMMA BeforeNat == ASSUME NEW t \in Threads, NEW k \in Nat PROVE Before(t, k) \in Nat
<1>1. IsFiniteSet(1..k)
  BY FS_Interval
<1>2. Cardinality({i \in 1..k : <<t, i>> \in Large}) \in Nat
  BY <1>1, FS_Subset, FS_CardinalityType
<1> QED
  BY <1>2 DEF Before

LEMMA BeforeNext ==
    ASSUME NEW t \in Threads, NEW k \in Nat
    PROVE  Before(t, k + 1) = Before(t, k) + 2 + Extra(t, k + 1)
<1> DEFINE large(n) == {i \in 1..n : <<t, i>> \in Large}
<1>1. IsFiniteSet(large(k))
  <2>1. IsFiniteSet(1..k) /\ large(k) \in SUBSET (1..k)
    BY FS_Interval
  <2> QED
    BY <2>1, FS_Subset
<1>2. Cardinality(large(k)) \in Nat
  BY <1>1, FS_CardinalityType
<1>3. CASE <<t, k + 1>> \in Large
  <2>1. large(k + 1) = large(k) \union {k + 1} /\ k + 1 \notin large(k)
    BY <1>3
  <2>2. Cardinality(large(k + 1)) = Cardinality(large(k)) + 1
    BY <1>1, <2>1, FS_AddElement
  <2> HIDE DEF large
  <2>3. Before(t, k + 1) = 2 * (k + 1) + 2 * Cardinality(large(k + 1))
        /\ Before(t, k) = 2 * k + 2 * Cardinality(large(k))
    BY DEF Before, large
  <2> QED
    BY <1>2, <1>3, <2>2, <2>3 DEF Extra
<1>4. CASE <<t, k + 1>> \notin Large
  <2>1. large(k + 1) = large(k)
    BY <1>4
  <2> HIDE DEF large
  <2>2. Before(t, k + 1) = 2 * (k + 1) + 2 * Cardinality(large(k + 1))
        /\ Before(t, k) = 2 * k + 2 * Cardinality(large(k))
    BY DEF Before, large
  <2> QED
    BY <1>2, <1>4, <2>1, <2>2 DEF Extra
<1> QED
  BY <1>3, <1>4

LEMMA BeforeMonotonic ==
    ASSUME NEW t \in Threads, NEW j \in Nat, NEW k \in Nat, j <= k
    PROVE  Before(t, j) <= Before(t, k)
<1> DEFINE large(n) == {i \in 1..n : <<t, i>> \in Large}
<1>1. IsFiniteSet(large(k)) /\ large(j) \subseteq large(k)
  <2>1. IsFiniteSet(1..k) /\ large(k) \in SUBSET (1..k)
    BY FS_Interval
  <2>2. large(j) \subseteq large(k)
    OBVIOUS
  <2> QED
    BY <2>1, <2>2, FS_Subset
<1>2. IsFiniteSet(large(j)) /\ Cardinality(large(j)) <= Cardinality(large(k))
  BY <1>1, FS_Subset
<1>3. Cardinality(large(j)) \in Nat /\ Cardinality(large(k)) \in Nat
  BY <1>1, <1>2, FS_CardinalityType
<1> HIDE DEF large
<1>4. /\ Before(t, j) = 2 * j + 2 * Cardinality(large(j))
      /\ Before(t, k) = 2 * k + 2 * Cardinality(large(k))
  BY DEF Before, large
<1> QED
  BY <1>2, <1>3, <1>4

\* One more opening is counted for the thread it is of.
LEMMA OpeningsAppend ==
    ASSUME NEW s \in Seq(Threads), NEW t \in Threads, NEW u \in Threads
    PROVE  LET count(r) == Cardinality({i \in 1..Len(r) : r[i] = u})
           IN /\ count(s) \in Nat
              /\ count(Append(s, t)) = count(s) + (IF t = u THEN 1 ELSE 0)
<1> DEFINE places(r) == {i \in 1..Len(r) : r[i] = u}
<1>1. Len(s) \in Nat /\ IsFiniteSet(places(s))
  <2>1. IsFiniteSet(1..Len(s)) /\ places(s) \in SUBSET (1..Len(s))
    BY FS_Interval, LenProperties
  <2> QED
    BY <2>1, FS_Subset, LenProperties
<1>2. Cardinality(places(s)) \in Nat
  BY <1>1, FS_CardinalityType
<1>3. CASE t = u
  <2>1. /\ places(Append(s, t)) = places(s) \union {Len(s) + 1}
        /\ Len(s) + 1 \notin places(s)
    BY <1>1, <1>3, AppendProperties
  <2> QED
    BY <1>1, <1>2, <1>3, <2>1, FS_AddElement
<1>4. CASE t # u
  <2>1. places(Append(s, t)) = places(s)
    BY <1>1, <1>4, AppendProperties
  <2>2. Cardinality(places(Append(s, t))) = Cardinality(places(s))
    BY <2>1
  <2> HIDE DEF places
  <2>3. Cardinality(places(Append(s, t))) = Cardinality(places(s)) + (IF t = u THEN 1 ELSE 0)
    BY <1>2, <1>4, <2>2
  <2> QED
    BY <1>2, <2>3 DEF places
<1> QED
  BY <1>3, <1>4

\* Where a thread is says how many broadcasts it has begun, how often it has committed
\* and opened, and what is certain of the others because their broadcasts arrived.
Committed(where) == where \in {"committing", "waiting", "opening", "failed"}
Sent(t, where, k) ==
    CASE where = "idle" -> Before(t, k)
      [] where = "seeding" -> Before(t, k) + 1
      [] where = "revealing" -> Before(t, k) + 2
      [] where \in {"committing", "waiting"} -> Before(t, k) + 1 + Extra(t, k + 1)
      [] where \in {"opening", "failed"} -> Before(t, k) + 2 + Extra(t, k + 1)
Needed(t, where, k) ==
    IF where \in {"waiting", "opening", "failed"} THEN Before(t, k) + 1 + Extra(t, k + 1)
    ELSE Before(t, k)
One(b) == IF b THEN 1 ELSE 0

Progress(p, t) ==
    LET where == pc[p][t]  k == checked[p][t]
    IN /\ rounds[p][t] = Sent(t, where, k)
       /\ committed[p][t] = k + One(Committed(where))
       /\ Openings(p, t) = k + One(InFlight(p, t))
       /\ where \in {"seeding", "revealing"} => Extra(t, k + 1) = 2
       /\ \A q \in Parties : rounds[q][t] >= Needed(t, where, k)
ProgressInv == \A p \in Parties, t \in Threads : Progress(p, t)

\* From what a thread knows of the broadcasts of another party: that party has
\* committed to the check it opens.
LEMMA ProgressSuffices == ASSUME TypeInv, ProgressInv PROVE CommittedBeforeOpened
<1> SUFFICES ASSUME NEW p \in Parties, NEW q \in Parties, NEW t \in Threads
             PROVE  Openings(p, t) <= committed[q][t]
  BY DEF CommittedBeforeOpened
<1> DEFINE k == checked[p][t]  m == checked[q][t]
<1>1. k \in Nat /\ m \in Nat
  <2>1. checked \in Table(0..NChecks)
    BY DomainsOfAll
  <2> QED
    BY <2>1, CoordinatorAssumption DEF Table
<1>2. pc[p][t] \in Places /\ pc[q][t] \in Places
  <2>1. pc \in Table(Places)
    BY DomainsOfAll
  <2> QED
    BY <2>1 DEF Table
<1>3. /\ Openings(p, t) = k + One(InFlight(p, t))
      /\ committed[q][t] = m + One(Committed(pc[q][t]))
      /\ Sent(t, pc[q][t], m) >= Needed(t, pc[p][t], k)
      /\ pc[q][t] \in {"seeding", "revealing"} => Extra(t, m + 1) = 2
  BY DEF ProgressInv, Progress
<1> HIDE DEF k, m
<1>4. /\ Before(t, k) \in Nat /\ Before(t, m) \in Nat /\ Before(t, m + 1) \in Nat
      /\ Before(t, m + 1) = Before(t, m) + 2 + Extra(t, m + 1)
  BY <1>1, BeforeNat, BeforeNext
<1>5. Extra(t, k + 1) \in {0, 2} /\ Extra(t, m + 1) \in {0, 2}
  BY DEF Extra
<1>6. CASE m > k
  BY <1>1, <1>3, <1>6 DEF One
<1>7. CASE m = k
  <2>1. InFlight(p, t) => Committed(pc[q][t])
    BY <1>2, <1>3, <1>4, <1>5, <1>7 DEF Sent, Needed, InFlight, Committed, Places
  <2> QED
    BY <1>1, <1>3, <1>7, <2>1 DEF One
<1>8. CASE m < k
  <2>1. Before(t, m + 1) <= Before(t, k)
    BY <1>1, <1>8, BeforeMonotonic
  <2>2. m + 1 = k /\ ~InFlight(p, t) /\ Committed(pc[q][t])
    <3>1. pc[q][t] \in {"opening", "failed"} /\ ~InFlight(p, t)
      BY <1>2, <1>3, <1>4, <1>5, <2>1 DEF Sent, Needed, InFlight, Places
    <3>2. ~(m + 1 < k)
      <4> SUFFICES ASSUME m + 1 < k PROVE FALSE
        OBVIOUS
      <4>1. /\ Before(t, m + 2) <= Before(t, k) /\ Before(t, m + 2) \in Nat
            /\ Before(t, m + 2) = Before(t, m + 1) + 2 + Extra(t, m + 2)
        <5>1. m + 1 \in Nat /\ m + 2 \in Nat /\ (m + 1) + 1 = m + 2
          BY <1>1
        <5> QED
          BY <1>1, <5>1, BeforeMonotonic, BeforeNext, BeforeNat
      <4>2. Extra(t, m + 2) \in {0, 2}
        BY DEF Extra
      <4> QED
        BY <1>3, <1>4, <1>5, <3>1, <4>1, <4>2 DEF Sent, Needed, InFlight
    <3> QED
      BY <1>1, <1>8, <3>1, <3>2 DEF Committed
  <2> QED
    BY <1>1, <1>3, <2>2 DEF One
<1> QED
  BY <1>1, <1>6, <1>7, <1>8

\* What a step of thread t of party p changes of all this, and what it keeps.
OnlyAt(p, t) ==
    /\ \A q \in Parties, u \in Threads : q # p \/ u # t =>
          /\ pc'[q][u] = pc[q][u] /\ checked'[q][u] = checked[q][u]
          /\ rounds'[q][u] = rounds[q][u] /\ committed'[q][u] = committed[q][u]
          /\ Openings(q, u)' = Openings(q, u)
    /\ rounds'[p][t] >= rounds[p][t]

LEMMA ProgressKept ==
    ASSUME TypeInv, TypeInv', ProgressInv, NEW p \in Parties, NEW t \in Threads,
           OnlyAt(p, t), Progress(p, t)'
    PROVE  ProgressInv'
<1> SUFFICES ASSUME NEW q \in Parties, NEW u \in Threads, q # p \/ u # t PROVE Progress(q, u)'
  BY DEF ProgressInv
<1>1. Progress(q, u)
  BY DEF ProgressInv
<1>2. /\ pc'[q][u] = pc[q][u] /\ checked'[q][u] = checked[q][u]
      /\ rounds'[q][u] = rounds[q][u] /\ committed'[q][u] = committed[q][u]
      /\ Openings(q, u)' = Openings(q, u)
  BY DEF OnlyAt
<1>3. InFlight(q, u)' = InFlight(q, u)
  BY <1>2 DEF InFlight
<1>4. ASSUME NEW r \in Parties PROVE rounds'[r][u] >= Needed(u, pc[q][u], checked[q][u])
  <2>1. rounds[r][u] >= Needed(u, pc[q][u], checked[q][u])
    BY <1>1 DEF Progress
  <2>2. rounds'[r][u] = rounds[r][u] \/ rounds'[r][u] >= rounds[r][u]
    <3>1. CASE r = p /\ u = t
      BY <3>1 DEF OnlyAt
    <3>2. CASE r # p \/ u # t
      BY <3>2 DEF OnlyAt
    <3> QED
      BY <3>1, <3>2
  <2>3. Needed(u, pc[q][u], checked[q][u]) \in Nat
    <3>1. checked \in Table(0..NChecks)
      BY DomainsOfAll
    <3>2. checked[q][u] \in Nat
      BY <3>1, CoordinatorAssumption DEF Table
    <3> QED
      BY <3>2, BeforeNat DEF Needed, Extra
  <2>4. rounds[r][u] \in Nat /\ rounds'[r][u] \in Nat
    <3>1. rounds \in Table(Nat)
      BY TypesOfThreads DEF TypeInv
    <3>2. rounds' \in Table(Nat)
      BY DEF TypeInv, TypeOK, Table
    <3> QED
      BY <3>1, <3>2 DEF Table
  <2>5. rounds'[r][u] >= rounds[r][u]
    BY <2>2, <2>4
  <2> QED
    BY <2>1, <2>3, <2>4, <2>5
<1> QED
  BY <1>1, <1>2, <1>3, <1>4 DEF Progress

\* The openings counted depend on those sent by the party only.
LEMMA SameOpenings ==
    ASSUME NEW q \in Parties, opened'[q] = opened[q], NEW u \in Threads
    PROVE  Openings(q, u)' = Openings(q, u)
  BY DEF Openings

\* One thread moves, perhaps begins a broadcast and perhaps commits.
Moves(p, t, w, r, c) ==
    /\ pc' = [pc EXCEPT ![p][t] = w]
    /\ \/ r = 0 /\ rounds' = rounds
       \/ r = 1 /\ rounds' = [rounds EXCEPT ![p][t] = @ + 1]
    /\ \/ c = 0 /\ committed' = committed
       \/ c = 1 /\ committed' = [committed EXCEPT ![p][t] = @ + 1]

LEMMA Effect ==
    ASSUME TypeInv, NEW p \in Parties, NEW t \in Threads, NEW w \in Places,
           NEW r \in {0, 1}, NEW c \in {0, 1}, Moves(p, t, w, r, c)
    PROVE  /\ pc'[p][t] = w /\ rounds'[p][t] = rounds[p][t] + r
           /\ committed'[p][t] = committed[p][t] + c
           /\ \A q \in Parties, u \in Threads : q # p \/ u # t =>
                 /\ pc'[q][u] = pc[q][u] /\ rounds'[q][u] = rounds[q][u]
                 /\ committed'[q][u] = committed[q][u]
           /\ \A q \in Parties : rounds'[q][t] >= rounds[q][t]
<1>1. /\ pc'[p][t] = w
      /\ \A q \in Parties, u \in Threads : q # p \/ u # t => pc'[q][u] = pc[q][u]
  <2>1. pc \in Table(Places)
    BY DomainsOfAll
  <2>2. pc' = [pc EXCEPT ![p][t] = w]
    BY DEF Moves
  <2> QED
    BY <2>1, <2>2 DEF Table
<1>2. rounds \in Table(Nat)
  BY TypesOfThreads DEF TypeInv
<1>3. /\ rounds'[p][t] = rounds[p][t] + r
      /\ \A q \in Parties, u \in Threads : q # p \/ u # t => rounds'[q][u] = rounds[q][u]
  <2>1. CASE r = 0 /\ rounds' = rounds
    BY <1>2, <2>1 DEF Table
  <2>2. CASE r = 1 /\ rounds' = [rounds EXCEPT ![p][t] = @ + 1]
    BY <1>2, <2>2 DEF Table
  <2> QED
    BY <2>1, <2>2 DEF Moves
<1>4. /\ committed'[p][t] = committed[p][t] + c
      /\ \A q \in Parties, u \in Threads : q # p \/ u # t => committed'[q][u] = committed[q][u]
  <2>1. committed \in Table(Nat)
    BY TypesOfThreads DEF TypeInv
  <2>2. CASE c = 0 /\ committed' = committed
    BY <2>1, <2>2 DEF Table
  <2>3. CASE c = 1 /\ committed' = [committed EXCEPT ![p][t] = @ + 1]
    BY <2>1, <2>3 DEF Table
  <2> QED
    BY <2>2, <2>3 DEF Moves
<1>5. \A q \in Parties : rounds'[q][t] >= rounds[q][t]
  <2>1. \A q \in Parties : rounds[q][t] \in Nat
    BY <1>2 DEF Table
  <2> QED
    BY <1>3, <2>1
<1> QED
  BY <1>1, <1>3, <1>4, <1>5

\* The numbers that are compared below.
LEMMA Numbers ==
    ASSUME TypeInv, NEW p \in Parties, NEW t \in Threads
    PROVE  /\ checked[p][t] \in Nat /\ pc[p][t] \in Places
           /\ \A q \in Parties : rounds[q][t] \in Nat
           /\ Before(t, checked[p][t]) \in Nat
           /\ Extra(t, checked[p][t] + 1) \in {0, 2}
<1>1. checked[p][t] \in Nat
  <2>1. checked \in Table(0..NChecks)
    BY DomainsOfAll
  <2> QED
    BY <2>1, CoordinatorAssumption DEF Table
<1>2. pc[p][t] \in Places
  <2>1. pc \in Table(Places)
    BY DomainsOfAll
  <2> QED
    BY <2>1 DEF Table
<1>3. \A q \in Parties : rounds[q][t] \in Nat
  <2>1. rounds \in Table(Nat)
    BY TypesOfThreads DEF TypeInv
  <2> QED
    BY <2>1 DEF Table
<1> QED
  BY <1>1, <1>2, <1>3, BeforeNat DEF Extra

\* A step that opens nothing and completes no check.
LEMMA ProgressOfCommit ==
    ASSUME TypeInv, TypeInv', ProgressInv, NEW p \in Parties, NEW t \in Threads, NEW w \in Places,
           NEW r \in {0, 1}, NEW c \in {0, 1}, Moves(p, t, w, r, c),
           opened' = opened, checked' = checked,
           rounds[p][t] + r = Sent(t, w, checked[p][t]),
           One(Committed(pc[p][t])) + c = One(Committed(w)),
           ~InFlight(p, t), w \notin {"opening", "failed"},
           w \in {"seeding", "revealing"} => Extra(t, checked[p][t] + 1) = 2,
           \A q \in Parties : rounds[q][t] >= Needed(t, w, checked[p][t])
    PROVE  ProgressInv'
<1> DEFINE k == checked[p][t]
<1>1. /\ pc'[p][t] = w /\ rounds'[p][t] = rounds[p][t] + r
      /\ committed'[p][t] = committed[p][t] + c
      /\ \A q \in Parties, u \in Threads : q # p \/ u # t =>
            /\ pc'[q][u] = pc[q][u] /\ rounds'[q][u] = rounds[q][u]
            /\ committed'[q][u] = committed[q][u]
      /\ \A q \in Parties : rounds'[q][t] >= rounds[q][t]
  BY Effect
<1>2. \A q \in Parties, u \in Threads : Openings(q, u)' = Openings(q, u)
  BY SameOpenings
<1>3. OnlyAt(p, t)
  BY <1>1, <1>2 DEF OnlyAt
<1>4. committed'[p][t] = k + One(Committed(w)) /\ Openings(p, t)' = k + One(InFlight(p, t))'
  <2>1. committed[p][t] = k + One(Committed(pc[p][t])) /\ Openings(p, t) = k + One(InFlight(p, t))
    BY DEF ProgressInv, Progress
  <2>2. ~InFlight(p, t)'
    BY <1>1 DEF InFlight
  <2>3. One(InFlight(p, t))' = 0 /\ One(InFlight(p, t)) = 0
    BY <2>2 DEF One
  <2>4. k \in Nat /\ One(Committed(pc[p][t])) \in Nat
    BY Numbers DEF One
  <2> QED
    BY <1>1, <1>2, <2>1, <2>3, <2>4
<1>5. \A q \in Parties : rounds'[q][t] >= Needed(t, w, k)
  <2> SUFFICES ASSUME NEW q \in Parties PROVE rounds'[q][t] >= Needed(t, w, k)
    OBVIOUS
  <2>1. Needed(t, w, k) \in Nat /\ rounds[q][t] \in Nat
    BY Numbers DEF Needed
  <2>2. rounds' \in Table(Nat)
    BY DEF TypeInv, TypeOK, Table
  <2>3. rounds'[q][t] \in Nat
    BY <2>2 DEF Table
  <2>4. rounds'[q][t] >= rounds[q][t] /\ rounds[q][t] >= Needed(t, w, k)
    BY <1>1
  <2> QED
    BY <2>1, <2>3, <2>4
<1>6. Progress(p, t)'
  <2>1. pc'[p][t] = w /\ checked'[p][t] = k /\ rounds'[p][t] = Sent(t, w, k)
    BY <1>1
  <2> HIDE DEF k
  <2> QED
    BY <1>4, <1>5, <2>1 DEF Progress, k
<1> QED
  BY <1>3, <1>6, ProgressKept

LEMMA BeginProgress ==
    ASSUME TypeInv, TypeInv', ProgressInv, NEW p \in Parties, NEW t \in Threads, Begin(p, t)
    PROVE  ProgressInv'
<1> DEFINE k == checked[p][t]
<1>1. /\ pc[p][t] = "idle" /\ UNCHANGED <<opened, checked>>
      /\ rounds' = [rounds EXCEPT ![p][t] = @ + 1]
  BY DEF Begin, BeginBroadcast
<1>2. rounds[p][t] = Before(t, k) /\ \A q \in Parties : rounds[q][t] >= Before(t, k)
  BY <1>1 DEF ProgressInv, Progress, Sent, Needed
<1>3. ~InFlight(p, t) /\ One(Committed(pc[p][t])) = 0
  BY <1>1 DEF InFlight, Committed, One
<1>4. CASE /\ <<t, k + 1>> \in Large /\ committed' = committed
           /\ pc' = [pc EXCEPT ![p][t] = "seeding"]
  <2>1. /\ rounds[p][t] + 1 = Sent(t, "seeding", k) /\ One(Committed("seeding")) = 0
        /\ Extra(t, k + 1) = 2 /\ Needed(t, "seeding", k) = Before(t, k)
    BY <1>2, <1>4 DEF Sent, Needed, Extra, Committed, One
  <2> HIDE DEF k
  <2>2. "seeding" \in Places /\ 0 \in {0, 1} /\ 1 \in {0, 1} /\ 0 + 0 = 0
    BY DEF Places
  <2>3. Moves(p, t, "seeding", 1, 0)
    BY <1>1, <1>4 DEF Moves
  <2> QED
    BY <1>1, <1>2, <1>3, <2>1, <2>2, <2>3, ProgressOfCommit DEF k
<1>5. CASE /\ <<t, k + 1>> \notin Large /\ committed' = [committed EXCEPT ![p][t] = @ + 1]
           /\ pc' = [pc EXCEPT ![p][t] = "committing"]
  <2>1. /\ rounds[p][t] + 1 = Sent(t, "committing", k) /\ One(Committed("committing")) = 1
        /\ Needed(t, "committing", k) = Before(t, k)
    <3>1. Before(t, k) + 1 + 0 = Before(t, k) + 1
      BY Numbers
    <3> QED
      BY <1>2, <1>5, <3>1 DEF Sent, Needed, Extra, Committed, One
  <2>2. "committing" \in Places /\ 1 \in {0, 1} /\ 0 + 1 = 1
    BY DEF Places
  <2>3. Moves(p, t, "committing", 1, 1)
    BY <1>1, <1>5 DEF Moves
  <2> QED
    BY <1>1, <1>2, <1>3, <2>1, <2>2, <2>3, ProgressOfCommit
<1> QED
  BY <1>4, <1>5 DEF Begin, Goto

LEMMA SeedProgress ==
    ASSUME TypeInv, TypeInv', ProgressInv, NEW p \in Parties, NEW t \in Threads, Seed(p, t)
    PROVE  ProgressInv'
<1> DEFINE k == checked[p][t]
<1>1. /\ pc[p][t] = "seeding" /\ UNCHANGED <<opened, checked, committed>>
      /\ rounds' = [rounds EXCEPT ![p][t] = @ + 1]
      /\ pc' = [pc EXCEPT ![p][t] = "revealing"]
  BY DEF Seed, BeginBroadcast, Goto
<1>2. /\ rounds[p][t] = Before(t, k) + 1 /\ Extra(t, k + 1) = 2
      /\ \A q \in Parties : rounds[q][t] >= Before(t, k)
  BY <1>1 DEF ProgressInv, Progress, Sent, Needed
<1>3. ~InFlight(p, t) /\ One(Committed(pc[p][t])) = 0
  BY <1>1 DEF InFlight, Committed, One
<1>4. /\ rounds[p][t] + 1 = Sent(t, "revealing", k) /\ One(Committed("revealing")) = 0
      /\ Needed(t, "revealing", k) = Before(t, k)
  BY <1>2, Numbers DEF Sent, Needed, Committed, One
<1>5. "revealing" \in Places /\ 1 \in {0, 1} /\ 0 \in {0, 1} /\ 0 + 0 = 0
  BY DEF Places
<1>6. Moves(p, t, "revealing", 1, 0)
  BY <1>1 DEF Moves
<1> HIDE DEF k
<1> QED
  BY <1>1, <1>2, <1>3, <1>4, <1>5, <1>6, ProgressOfCommit DEF k

LEMMA CommitProgress ==
    ASSUME TypeInv, TypeInv', ProgressInv, NEW p \in Parties, NEW t \in Threads, Commit(p, t)
    PROVE  ProgressInv'
<1> DEFINE k == checked[p][t]
<1>1. /\ pc[p][t] = "revealing" /\ UNCHANGED <<opened, checked>>
      /\ rounds' = [rounds EXCEPT ![p][t] = @ + 1]
      /\ committed' = [committed EXCEPT ![p][t] = @ + 1]
      /\ pc' = [pc EXCEPT ![p][t] = "committing"]
  BY DEF Commit, BeginBroadcast, Goto
<1>2. /\ rounds[p][t] = Before(t, k) + 2 /\ Extra(t, k + 1) = 2
      /\ \A q \in Parties : rounds[q][t] >= Before(t, k)
  BY <1>1 DEF ProgressInv, Progress, Sent, Needed
<1>3. ~InFlight(p, t) /\ One(Committed(pc[p][t])) = 0
  BY <1>1 DEF InFlight, Committed, One
<1>4. /\ rounds[p][t] + 1 = Sent(t, "committing", k) /\ One(Committed("committing")) = 1
      /\ Needed(t, "committing", k) = Before(t, k)
  BY <1>2, Numbers DEF Sent, Needed, Committed, One
<1>5. "committing" \in Places /\ 1 \in {0, 1} /\ 0 + 1 = 1
  BY DEF Places
<1>6. Moves(p, t, "committing", 1, 1)
  BY <1>1 DEF Moves
<1> QED
  BY <1>1, <1>2, <1>3, <1>4, <1>5, <1>6, ProgressOfCommit

LEMMA WaitProgress ==
    ASSUME TypeInv, TypeInv', ProgressInv, NEW p \in Parties, NEW t \in Threads, Wait(p, t)
    PROVE  ProgressInv'
<1> DEFINE k == checked[p][t]
<1>1. /\ pc[p][t] = "committing" /\ UNCHANGED <<opened, checked, rounds, committed>>
      /\ pc' = [pc EXCEPT ![p][t] = "waiting"]
      /\ \A q \in Parties : rounds[q][t] >= rounds[p][t]
  BY DEF Wait, BroadcastArrived, Goto
<1>2. rounds[p][t] = Before(t, k) + 1 + Extra(t, k + 1)
  BY <1>1 DEF ProgressInv, Progress, Sent
<1>3. ~InFlight(p, t) /\ One(Committed(pc[p][t])) = 1
  BY <1>1 DEF InFlight, Committed, One
<1>4. /\ rounds[p][t] + 0 = Sent(t, "waiting", k) /\ One(Committed("waiting")) = 1
      /\ Needed(t, "waiting", k) = rounds[p][t]
  <2>1. rounds[p][t] + 0 = rounds[p][t]
    BY Numbers
  <2> QED
    BY <1>2, <2>1 DEF Sent, Needed, Committed, One
<1>5. "waiting" \in Places /\ 0 \in {0, 1} /\ 1 + 0 = 1
  BY DEF Places
<1>6. Moves(p, t, "waiting", 0, 0)
  BY <1>1 DEF Moves
<1> QED
  BY <1>1, <1>2, <1>3, <1>4, <1>5, <1>6, ProgressOfCommit

LEMMA OpenProgress ==
    ASSUME TypeInv, TypeInv', ProgressInv, NEW p \in Parties, NEW t \in Threads, Open(p, t)
    PROVE  ProgressInv'
<1> DEFINE k == checked[p][t]
<1>1. /\ pc[p][t] = "waiting" /\ UNCHANGED <<checked, committed>>
      /\ rounds' = [rounds EXCEPT ![p][t] = @ + 1]
      /\ pc' = [pc EXCEPT ![p][t] = "opening"]
      /\ opened' = [opened EXCEPT ![p] = Append(@, t)]
  BY DEF Open, BeginBroadcast, Goto
<1>2. /\ pc'[p][t] = "opening" /\ rounds'[p][t] = rounds[p][t] + 1
      /\ \A q \in Parties, u \in Threads : q # p \/ u # t =>
            pc'[q][u] = pc[q][u] /\ rounds'[q][u] = rounds[q][u]
      /\ \A q \in Parties : rounds'[q][t] >= rounds[q][t]
  <2>1. pc \in Table(Places)
    BY DomainsOfAll
  <2>2. rounds \in Table(Nat)
    BY TypesOfThreads DEF TypeInv
  <2>3. /\ pc'[p][t] = "opening"
        /\ \A q \in Parties, u \in Threads : q # p \/ u # t => pc'[q][u] = pc[q][u]
    BY <1>1, <2>1 DEF Table
  <2>4. /\ rounds'[p][t] = rounds[p][t] + 1
        /\ \A q \in Parties, u \in Threads : q # p \/ u # t => rounds'[q][u] = rounds[q][u]
    BY <1>1, <2>2 DEF Table
  <2>5. ASSUME NEW q \in Parties PROVE rounds'[q][t] >= rounds[q][t]
    <3>1. rounds[q][t] \in Nat
      BY <2>2 DEF Table
    <3>2. rounds'[q][t] = rounds[q][t] \/ rounds'[q][t] = rounds[q][t] + 1
      BY <2>4
    <3> QED
      BY <3>1, <3>2
  <2> QED
    BY <2>3, <2>4, <2>5
<1>3. \A q \in Parties, u \in Threads :
         Openings(q, u)' = Openings(q, u) + One(q = p /\ u = t)
  <2> SUFFICES ASSUME NEW q \in Parties, NEW u \in Threads
               PROVE  Openings(q, u)' = Openings(q, u) + One(q = p /\ u = t)
    OBVIOUS
  <2>1. opened \in [Parties -> Seq(Threads)]
    BY TypesOfThreads DEF TypeInv
  <2>2. /\ Openings(q, u) \in Nat
        /\ Cardinality({i \in 1..Len(Append(opened[q], t)) : Append(opened[q], t)[i] = u})
             = Openings(q, u) + (IF t = u THEN 1 ELSE 0)
    <3>1. opened[q] \in Seq(Threads)
      BY <2>1
    <3> QED
      BY <3>1, OpeningsAppend, Zenon DEF Openings
  <2>3. CASE q = p
    <3>1. opened'[q] = Append(opened[q], t)
      BY <1>1, <2>1, <2>3
    <3>2. Openings(q, u)' = Openings(q, u) + (IF t = u THEN 1 ELSE 0)
      BY <2>2, <3>1 DEF Openings
    <3> QED
      BY <2>3, <3>2 DEF One
  <2>4. CASE q # p
    <3>1. opened'[q] = opened[q]
      BY <1>1, <2>1, <2>4
    <3>2. Openings(q, u)' = Openings(q, u)
      BY <3>1, SameOpenings
    <3> QED
      BY <2>2, <2>4, <3>2 DEF One
  <2> QED
    BY <2>3, <2>4
<1>4. OnlyAt(p, t)
  <2> SUFFICES ASSUME NEW q \in Parties, NEW u \in Threads, q # p \/ u # t
               PROVE  Openings(q, u)' = Openings(q, u)
    BY <1>1, <1>2 DEF OnlyAt
  <2>1. opened \in [Parties -> Seq(Threads)]
    BY TypesOfThreads DEF TypeInv
  <2>2. Openings(q, u) \in Nat
    <3>1. opened[q] \in Seq(Threads)
      BY <2>1
    <3> QED
      BY <3>1, OpeningsAppend, Zenon DEF Openings
  <2> QED
    BY <1>3, <2>2 DEF One
<1>5. Progress(p, t)
  BY DEF ProgressInv
<1>6. rounds'[p][t] = Sent(t, "opening", k)
  <2>1. rounds[p][t] = Before(t, k) + 1 + Extra(t, k + 1)
    BY <1>1, <1>5 DEF Progress, Sent
  <2> QED
    BY <1>2, <2>1, Numbers DEF Sent
<1>7. committed'[p][t] = k + One(Committed("opening"))
  BY <1>1, <1>5 DEF Progress, Committed, One
<1>8. Openings(p, t)' = k + One(InFlight(p, t))'
  <2>1. Openings(p, t) = k + 0
    BY <1>1, <1>5 DEF Progress, InFlight, One
  <2>2. One(InFlight(p, t))' = 1
    BY <1>2 DEF InFlight, One
  <2>3. Openings(p, t)' = Openings(p, t) + 1
    BY <1>3 DEF One
  <2> QED
    BY <2>1, <2>2, <2>3, Numbers
<1>9. \A q \in Parties : rounds'[q][t] >= Needed(t, "opening", k)
  <2> SUFFICES ASSUME NEW q \in Parties PROVE rounds'[q][t] >= Needed(t, "opening", k)
    OBVIOUS
  <2>1. rounds[q][t] >= Needed(t, "opening", k) /\ Needed(t, "opening", k) \in Nat
    BY <1>1, <1>5, Numbers DEF Progress, Needed
  <2>2. rounds' \in Table(Nat)
    BY DEF TypeInv, TypeOK, Table
  <2>3. rounds'[q][t] \in Nat /\ rounds[q][t] \in Nat
    BY <2>2, Numbers DEF Table
  <2> QED
    BY <1>2, <2>1, <2>3
<1>10. Progress(p, t)'
  <2>1. checked'[p][t] = k
    BY <1>1
  <2> HIDE DEF k
  <2> QED
    BY <1>2, <1>6, <1>7, <1>8, <1>9, <2>1 DEF Progress
<1> QED
  BY <1>4, <1>10, ProgressKept

LEMMA VerifyProgress ==
    ASSUME TypeInv, TypeInv', ProgressInv, NEW p \in Parties, NEW t \in Threads, Verify(p, t)
    PROVE  ProgressInv'
<1> DEFINE k == checked[p][t]
<1>1. /\ pc[p][t] = "opening" /\ UNCHANGED <<opened, committed, rounds>>
      /\ \A q \in Parties : rounds[q][t] >= rounds[p][t]
  BY DEF Verify, BroadcastArrived
<1>2. \A q \in Parties, u \in Threads : Openings(q, u)' = Openings(q, u)
  BY <1>1, SameOpenings
<1>3. Progress(p, t)
  BY DEF ProgressInv
<1>4. /\ rounds[p][t] = Before(t, k) + 2 + Extra(t, k + 1)
      /\ committed[p][t] = k + 1 /\ Openings(p, t) = k + 1
  BY <1>1, <1>3 DEF Progress, Sent, Committed, InFlight, One
<1>5. rounds[p][t] \in Nat /\ rounds[p][t] >= rounds[p][t]
  BY Numbers
<1>6. CASE pc' = [pc EXCEPT ![p][t] = "failed"] /\ checked' = checked
  <2>1. /\ pc'[p][t] = "failed"
        /\ \A q \in Parties, u \in Threads : q # p \/ u # t => pc'[q][u] = pc[q][u]
    <3>1. pc \in Table(Places)
      BY DomainsOfAll
    <3> QED
      BY <1>6, <3>1 DEF Table
  <2>2. OnlyAt(p, t)
    BY <1>1, <1>2, <1>5, <1>6, <2>1 DEF OnlyAt
  <2>3. Sent(t, "failed", k) = rounds[p][t] /\ One(Committed("failed")) = 1
    BY <1>4 DEF Sent, Committed, One
  <2>4. One(InFlight(p, t))' = 1
    BY <2>1 DEF InFlight, One
  <2>5. \A q \in Parties : rounds[q][t] >= Needed(t, "failed", k)
    BY <1>1, <1>3 DEF Progress, Needed
  <2>6. Progress(p, t)'
    <3>1. checked'[p][t] = k
      BY <1>6
    <3> HIDE DEF k
    <3> QED
      BY <1>1, <1>2, <1>4, <2>1, <2>3, <2>4, <2>5, <3>1 DEF Progress
  <2> QED
    BY <2>2, <2>6, ProgressKept
<1>7. CASE pc' = [pc EXCEPT ![p][t] = "idle"] /\ checked' = [checked EXCEPT ![p][t] = @ + 1]
  <2>1. /\ pc'[p][t] = "idle"
        /\ \A q \in Parties, u \in Threads : q # p \/ u # t => pc'[q][u] = pc[q][u]
    <3>1. pc \in Table(Places)
      BY DomainsOfAll
    <3> QED
      BY <1>7, <3>1 DEF Table
  <2>2. /\ checked'[p][t] = k + 1
        /\ \A q \in Parties, u \in Threads : q # p \/ u # t => checked'[q][u] = checked[q][u]
    <3>1. checked \in Table(0..NChecks)
      BY DomainsOfAll
    <3> QED
      BY <1>7, <3>1 DEF Table
  <2>3. OnlyAt(p, t)
    BY <1>1, <1>2, <1>5, <2>1, <2>2 DEF OnlyAt
  <2>4. rounds[p][t] = Before(t, k + 1)
    BY <1>4, BeforeNext, Numbers
  <2>5. Sent(t, "idle", k + 1) = Before(t, k + 1) /\ Needed(t, "idle", k + 1) = Before(t, k + 1)
    BY DEF Sent, Needed
  <2>6. One(Committed("idle")) = 0 /\ One(InFlight(p, t))' = 0 /\ (k + 1) + 0 = k + 1
    BY <2>1, Numbers DEF Committed, InFlight, One
  <2>7. Progress(p, t)'
    BY <1>1, <1>2, <1>4, <2>1, <2>2, <2>4, <2>5, <2>6 DEF Progress
  <2> QED
    BY <2>3, <2>7, ProgressKept
<1> QED
  BY <1>6, <1>7 DEF Verify, Goto

LEMMA ProgressStep ==
    ASSUME TypeInv, TypeInv', ProgressInv, [Next]_vars
    PROVE  ProgressInv'
<1>1. CASE UNCHANGED <<pc, checked, rounds, committed, opened>>
  BY <1>1 DEF ProgressInv, Progress, Openings, InFlight
<1>2. ASSUME NEW p \in Parties, Coordinate(p) \/ Destroy(p)
      PROVE  UNCHANGED <<pc, checked, rounds, committed, opened>>
  BY <1>2 DEF Coordinate, CPop, CHear, CScan, CDone, Destroy, threadVars
<1>3. CASE UNCHANGED vars
  BY <1>1, <1>3 DEF vars, threadVars
<1> QED
  BY <1>1, <1>2, <1>3, BeginProgress, SeedProgress, CommitProgress, WaitProgress, OpenProgress, VerifyProgress
     DEF Next, Check

LEMMA ProgressInit == Init => ProgressInv
<1> SUFFICES ASSUME Init, NEW p \in Parties, NEW t \in Threads PROVE Progress(p, t)
  BY DEF ProgressInv
<1>1. /\ pc[p][t] = "idle" /\ checked[p][t] = 0 /\ committed[p][t] = 0 /\ opened[p] = <<>>
      /\ \A q \in Parties : rounds[q][t] = 0
  BY DEF Init
<1>2. Before(t, 0) = 0
  <2>1. {i \in 1..0 : <<t, i>> \in Large} = {}
    OBVIOUS
  <2> QED
    BY <2>1, FS_EmptySet DEF Before
<1>3. Openings(p, t) = 0
  <2>1. {i \in 1..Len(opened[p]) : opened[p][i] = t} = {}
    BY <1>1
  <2> QED
    BY <2>1, FS_EmptySet DEF Openings
<1> QED
  BY <1>1, <1>2, <1>3 DEF Progress, Sent, Needed, Committed, InFlight, One

\* No party reveals its share of a check before every party has sent its commitment to
\* its own, for any number of parties, threads and checks, with seeds or without.
THEOREM CommitmentsFirst == Spec => []CommittedBeforeOpened
<1>1. Init => TypeInv /\ ProgressInv
  BY TypeInit, ProgressInit
<1>2. TypeInv /\ ProgressInv /\ [Next]_vars => (TypeInv /\ ProgressInv)'
  BY TypeStep, ProgressStep
<1>3. TypeInv /\ ProgressInv => CommittedBeforeOpened
  BY ProgressSuffices
<1> QED
  BY <1>1, <1>2, <1>3, PTL DEF Spec

-----------------------------------------------------------------------------
(***************************************************************************)
(* The schedule the coordinators agree on: all parties open in one order   *)
(* and in step, and nothing after a check that fails.                      *)
(***************************************************************************)

\* The check under the cursor has been opened, and has been finished.
OpenedNow(p) == cpc[p] = "release" /\ signals[p][cursor[p]] = 0
Finished(p, t) == OpenedNow(p) /\ cursor[p] = t /\ ~InFlight(p, t)

\* How many checks of a thread, and how many openings, the coordinator has left behind.
Behind(p, t) == checked[p][t] - One(Finished(p, t))
Base(p) == Len(opened[p]) - One(OpenedNow(p))

\* The coordinator is past the element of the loop over `waiting' in this round.
Passed(p, t) == cpc[p] \notin {"scan", "release"} \/ t < cursor[p]

-----------------------------------------------------------------------------
\* A coordinator is at most one round before another, which is then in its broadcast.
InRounds ==
    \A p, q \in Parties :
        /\ Len(told[p]) = heard[p] + One(cpc[p] = "broadcast")
        /\ heard[p] <= Len(told[q])

\* What a thread has asked for is with its coordinator, or has been told.
Asks(p) == told[p] \o in[p]
Asked ==
    \A p \in Parties, t \in Threads :
        Cardinality({i \in 1..Len(Asks(p)) : Asks(p)[i] = t})
          = checked[p][t] + One(pc[p][t] \in {"waiting", "opening", "failed"})

\* Since a coordinator has left behind the last check of a thread, it has heard of the
\* thread from everybody at most once, and counts those it has heard from.
Told(q, h, t) == Cardinality({i \in 1..h : told[q][i] = t})
Askers(p, t) == {q \in Parties : Told(q, heard[p], t) = Behind(p, t) + 1}
Counted ==
    \A p \in Parties, t \in Threads :
        /\ \A q \in Parties : Told(q, heard[p], t) \in {Behind(p, t), Behind(p, t) + 1}
        /\ waiting[p][t] = Cardinality(Askers(p, t))
        /\ Passed(p, t) => waiting[p][t] # N
        /\ cpc[p] = "release" /\ cursor[p] = t => waiting[p][t] = N

\* A finished check is one, and after the destructor there is nothing to release.
Settled ==
    \A p \in Parties, t \in Threads :
        /\ Finished(p, t) => checked[p][t] > 0
        /\ ~running[p] => signals[p][t] = 0

\* Two coordinators have left the same checks behind, or one of them has left the one that
\* the other is at, and that the other has opened.
Even(p, q) == Base(p) = Base(q) /\ \A t \in Threads : Behind(p, t) = Behind(q, t)
Ahead(p, q) ==
    /\ heard[p] = heard[q] /\ OpenedNow(q) /\ Passed(p, cursor[q])
    /\ Base(p) = Base(q) + 1
    /\ \A t \in Threads : Behind(p, t) = Behind(q, t) + One(t = cursor[q])
InStep == \A p, q \in Parties : Even(p, q) \/ Ahead(p, q) \/ Ahead(q, p)

\* The openings are in one order, and the last is the one under the cursor until it is
\* left behind.
OneOrder ==
    /\ \A p, q \in Parties : \A i \in 1..Len(opened[p]) :
          i <= Len(opened[q]) => opened[p][i] = opened[q][i]
    /\ \A p \in Parties : OpenedNow(p) =>
          opened[p] # <<>> /\ opened[p][Len(opened[p])] = cursor[p]

\* A check that fails is the last one opened, and is not finished.
FailsLast ==
    \A p \in Parties : \A i \in 1..Len(opened[p]) :
        IsWrong(p, i) => i = Len(opened[p]) /\ OpenedNow(p) /\ InFlight(p, cursor[p])

ScheduleState == InRounds /\ Asked /\ Counted /\ Settled /\ InStep /\ OneOrder /\ FailsLast
Lockstep == TypeInv /\ ReleaseInv /\ ProgressInv /\ ScheduleState

-----------------------------------------------------------------------------
(* What the variables are at one party, and what a step leaves alone.      *)

LEMMA AtParty ==
    ASSUME TypeInv, NEW p \in Parties
    PROVE  /\ opened[p] \in Seq(Threads) /\ Len(opened[p]) \in Nat
           /\ told[p] \in Seq(Threads) /\ Len(told[p]) \in Nat
           /\ in[p] \in Seq(Threads)
           /\ heard[p] \in Nat /\ cursor[p] \in Nat /\ cursor[p] \in 1..(NThreads + 1)
           /\ cpc[p] \in {"pop", "broadcast", "scan", "release", "ended"}
           /\ cpc[p] = "release" => cursor[p] \in Threads
           /\ done[p] \in Nat /\ running[p] \in BOOLEAN
  BY DEF TypeInv, TypeOK, PointsAtThread

LEMMA AtThread ==
    ASSUME TypeInv, NEW p \in Parties, NEW t \in Threads
    PROVE  /\ pc[p][t] \in Places /\ checked[p][t] \in Nat
           /\ signals[p][t] \in Nat /\ waiting[p][t] \in Nat
           /\ t \in Nat
<1>1. checked[p][t] \in 0..NChecks /\ waiting[p][t] \in Nat
  BY DEF TypeInv, TypeOK
<1>2. t \in Nat
  BY CoordinatorAssumption DEF Threads
<1> QED
  BY <1>1, <1>2, CoordinatorAssumption DEF TypeInv, TypeOK, Places

\* A step of one party changes nothing of another.
Same(q) ==
    /\ pc'[q] = pc[q] /\ checked'[q] = checked[q] /\ opened'[q] = opened[q]
    /\ in'[q] = in[q] /\ cpc'[q] = cpc[q] /\ told'[q] = told[q] /\ heard'[q] = heard[q]
    /\ waiting'[q] = waiting[q] /\ cursor'[q] = cursor[q] /\ signals'[q] = signals[q]
    /\ running'[q] = running[q]
StepOf(p) == (\E t \in Threads : Check(p, t)) \/ Coordinate(p) \/ Destroy(p)

LEMMA OthersAlone ==
    ASSUME TypeInv, NEW p \in Parties, StepOf(p), NEW q \in Parties \ {p}
    PROVE  Same(q)
<1> DEFINE On(f) == DOMAIN f = Parties
<1>1. /\ On(pc) /\ On(checked) /\ On(opened) /\ On(in) /\ On(cpc) /\ On(told) /\ On(heard)
      /\ On(waiting) /\ On(cursor) /\ On(signals) /\ On(running)
  BY DEF TypeInv, TypeOK
<1>2. ASSUME NEW t \in Threads, Begin(p, t) \/ Seed(p, t) \/ Commit(p, t) \/ Wait(p, t) PROVE Same(q)
  BY <1>1, <1>2 DEF Begin, Seed, Commit, Wait, Goto, coordVars, Same
<1>3. ASSUME NEW t \in Threads, Open(p, t) \/ Verify(p, t) PROVE Same(q)
  BY <1>1, <1>3 DEF Open, Verify, Goto, Same
<1>4. CASE CPop(p) \/ CHear(p)
  BY <1>1, <1>4 DEF CPop, CHear, CGoto, threadVars, Same
<1>5. CASE CScan(p) \/ CDone(p) \/ Destroy(p)
  BY <1>1, <1>5 DEF CScan, CDone, Destroy, CGoto, threadVars, Same
<1> QED
  BY <1>2, <1>3, <1>4, <1>5 DEF StepOf, Check, Coordinate

\* Nor of what is said of it.
LEMMA OthersSame ==
    ASSUME NEW q \in Parties, Same(q)
    PROVE  /\ \A t \in Threads : /\ Behind(q, t)' = Behind(q, t)
                                 /\ Finished(q, t)' = Finished(q, t)
                                 /\ InFlight(q, t)' = InFlight(q, t)
                                 /\ Passed(q, t)' = Passed(q, t)
           /\ Base(q)' = Base(q) /\ OpenedNow(q)' = OpenedNow(q)
  BY DEF Same, Behind, Base, Finished, OpenedNow, InFlight, Passed

LEMMA Ones == \A b : One(b) \in {0, 1} /\ (b => One(b) = 1) /\ (~b => One(b) = 0)
  BY DEF One

LEMMA BehindNat ==
    ASSUME TypeInv, Settled, NEW p \in Parties, NEW t \in Threads
    PROVE  Behind(p, t) \in Nat
<1>1. checked[p][t] \in Nat /\ (Finished(p, t) => checked[p][t] > 0)
  BY AtThread DEF Settled
<1> QED
  BY <1>1 DEF Behind, One

LEMMA BaseNat ==
    ASSUME TypeInv, OneOrder, NEW p \in Parties
    PROVE  Base(p) \in Nat /\ Len(opened[p]) = Base(p) + One(OpenedNow(p))
<1>1. Len(opened[p]) \in Nat /\ (OpenedNow(p) => Len(opened[p]) # 0)
  BY AtParty, EmptySeq DEF OneOrder
<1> QED
  BY <1>1 DEF Base, One

\* Coordinators that are not in a broadcast are in the same round.
LEMMA SameRound ==
    ASSUME TypeInv, InRounds, NEW p \in Parties, NEW q \in Parties,
           cpc[p] # "broadcast", cpc[q] # "broadcast"
    PROVE  heard[p] = heard[q]
<1>1. Len(told[p]) = heard[p] /\ Len(told[q]) = heard[q]
  BY AtParty DEF InRounds, One
<1> QED
  BY <1>1, AtParty DEF InRounds

\* No party has completed a check that another has not opened.
LEMMA NotBefore ==
    ASSUME TypeInv, ProgressInv, NEW p \in Parties, NEW q \in Parties, NEW t \in Threads
    PROVE  checked[q][t] <= checked[p][t] + One(InFlight(p, t))
<1> DEFINE k == checked[p][t]  m == checked[q][t]
<1>1. k \in Nat /\ m \in Nat /\ pc[p][t] \in Places /\ pc[q][t] \in Places
  BY AtThread
<1>2. /\ Sent(t, pc[p][t], k) >= Needed(t, pc[q][t], m)
      /\ pc[p][t] \in {"seeding", "revealing"} => Extra(t, k + 1) = 2
  BY DEF ProgressInv, Progress
<1> HIDE DEF k, m
<1>3. /\ Before(t, k) \in Nat /\ Before(t, m) \in Nat
      /\ Before(t, k + 1) \in Nat /\ Before(t, k + 2) \in Nat
      /\ Before(t, k + 1) = Before(t, k) + 2 + Extra(t, k + 1)
      /\ Before(t, k + 2) = Before(t, k + 1) + 2 + Extra(t, k + 2)
  <2>1. k + 1 \in Nat /\ k + 2 \in Nat /\ (k + 1) + 1 = k + 2
    BY <1>1
  <2> QED
    BY <1>1, <2>1, BeforeNat, BeforeNext
<1>4. \A n \in Nat : Extra(t, n) \in {0, 2}
  BY DEF Extra
<1>5. Extra(t, k + 1) \in {0, 2} /\ Extra(t, k + 2) \in {0, 2} /\ Extra(t, m + 1) \in {0, 2}
  BY <1>1, <1>4
<1>6. Sent(t, pc[p][t], k) >= Before(t, m)
  BY <1>1, <1>2, <1>3, <1>5 DEF Needed, Sent, Places
<1>7. CASE m > k + 1
  <2>1. Before(t, k + 2) <= Before(t, m)
    BY <1>1, <1>7, BeforeMonotonic
  <2> QED
    BY <1>1, <1>2, <1>3, <1>5, <1>6, <2>1 DEF Sent, Places
<1>8. CASE m = k + 1
  <2>1. pc[p][t] \in {"opening", "failed"}
    BY <1>1, <1>2, <1>3, <1>5, <1>6, <1>8 DEF Sent, Places
  <2> QED
    BY <1>1, <1>8, <2>1 DEF InFlight, One, k, m
<1>9. CASE m <= k
  <2>1. k <= k + One(InFlight(p, t)) /\ One(InFlight(p, t)) \in Nat
    BY <1>1 DEF One
  <2> QED
    BY <1>1, <1>9, <2>1 DEF k, m
<1> QED
  BY <1>1, <1>7, <1>8, <1>9

-----------------------------------------------------------------------------
(* Steps that leave no check behind.                                       *)

LeavesNone ==
    /\ \A p \in Parties : Base(p)' = Base(p)
    /\ \A p \in Parties, t \in Threads : Behind(p, t)' = Behind(p, t)

LEMMA NoneLeftBehind ==
    ASSUME TypeInv, NEW p \in Parties, StepOf(p), Base(p)' = Base(p),
           \A t \in Threads : Behind(p, t)' = Behind(p, t)
    PROVE  LeavesNone
<1>1. \A q \in Parties \ {p} : Same(q)
  BY OthersAlone
<1> QED
  BY <1>1, OthersSame DEF LeavesNone

\* Two coordinators stay in step if none leaves a check behind and what one is ahead
\* of stays where it is.
LEMMA InStepKept ==
    ASSUME InStep, LeavesNone,
           \A p, q \in Parties : Ahead(p, q) =>
              /\ heard'[p] = heard'[q] /\ OpenedNow(q)' /\ cursor'[q] = cursor[q]
              /\ Passed(p, cursor[q])'
    PROVE  InStep'
<1> SUFFICES ASSUME NEW p \in Parties, NEW q \in Parties
             PROVE  Even(p, q)' \/ Ahead(p, q)' \/ Ahead(q, p)'
  BY DEF InStep
<1>1. ASSUME Even(p, q) PROVE Even(p, q)'
  BY <1>1 DEF Even, LeavesNone
<1>2. ASSUME NEW x \in Parties, NEW y \in Parties, Ahead(x, y) PROVE Ahead(x, y)'
  <2>1. /\ heard'[x] = heard'[y] /\ OpenedNow(y)' /\ cursor'[y] = cursor[y]
        /\ Passed(x, cursor[y])'
    BY <1>2
  <2> QED
    BY <1>2, <2>1 DEF Ahead, LeavesNone
<1> QED
  BY <1>1, <1>2 DEF InStep

\* The counts are of what has been heard, and change with it.
LEMMA CountedKept ==
    ASSUME Counted, LeavesNone, UNCHANGED <<heard, waiting>>,
           \A p, q \in Parties, t \in Threads : Told(q, heard[p], t)' = Told(q, heard[p], t),
           \A p \in Parties, t \in Threads :
              /\ Passed(p, t)' => Passed(p, t) \/ waiting[p][t] # N
              /\ cpc'[p] = "release" /\ cursor'[p] = t =>
                    (cpc[p] = "release" /\ cursor[p] = t) \/ waiting[p][t] = N
    PROVE  Counted'
<1>1. \A p \in Parties, t \in Threads : Askers(p, t)' = Askers(p, t)
  BY DEF Askers, LeavesNone
<1> SUFFICES ASSUME NEW p \in Parties, NEW t \in Threads
             PROVE  /\ \A q \in Parties :
                          Told(q, heard[p], t)' \in {Behind(p, t)', Behind(p, t)' + 1}
                    /\ waiting'[p][t] = Cardinality(Askers(p, t)')
                    /\ Passed(p, t)' => waiting'[p][t] # N
                    /\ cpc'[p] = "release" /\ cursor'[p] = t => waiting'[p][t] = N
  BY DEF Counted, N
<1>2. \A q \in Parties : Told(q, heard[p], t) \in {Behind(p, t), Behind(p, t) + 1}
  BY DEF Counted
<1>3. /\ waiting[p][t] = Cardinality(Askers(p, t))
      /\ Passed(p, t) => waiting[p][t] # N
      /\ cpc[p] = "release" /\ cursor[p] = t => waiting[p][t] = N
  BY DEF Counted
<1>4. \A q \in Parties : Told(q, heard[p], t)' = Told(q, heard[p], t)
  OBVIOUS
<1>5. Behind(p, t)' = Behind(p, t) /\ waiting' = waiting
  BY DEF LeavesNone
<1> QED
  BY <1>1, <1>2, <1>3, <1>4, <1>5

LEMMA SameTold ==
    ASSUME UNCHANGED <<told, heard>>, NEW p \in Parties, NEW q \in Parties, NEW t \in Threads
    PROVE  Told(q, heard[p], t)' = Told(q, heard[p], t)
  BY DEF Told

\* A step that begins no check and changes no queue.
LEMMA AskedKept ==
    ASSUME Asked, \A p \in Parties : Asks(p)' = Asks(p), checked' = checked,
           \A p \in Parties, t \in Threads :
              pc'[p][t] \in {"waiting", "opening", "failed"}
                <=> pc[p][t] \in {"waiting", "opening", "failed"}
    PROVE  Asked'
<1> SUFFICES ASSUME NEW p \in Parties, NEW t \in Threads
             PROVE  Cardinality({i \in 1..Len(Asks(p)') : Asks(p)'[i] = t})
                      = checked'[p][t] + One(pc'[p][t] \in {"waiting", "opening", "failed"})
  BY DEF Asked, One
<1>1. Cardinality({i \in 1..Len(Asks(p)) : Asks(p)[i] = t})
        = checked[p][t] + One(pc[p][t] \in {"waiting", "opening", "failed"})
  BY DEF Asked
<1>2. One(pc'[p][t] \in {"waiting", "opening", "failed"})
        = One(pc[p][t] \in {"waiting", "opening", "failed"})
  BY DEF One
<1> QED
  BY <1>1, <1>2

\* The openings stay, and with them what is said of them.
LEMMA OpeningsKept ==
    ASSUME OneOrder, FailsLast, UNCHANGED <<opened, wrong>>,
           \A p \in Parties : /\ OpenedNow(p)' => OpenedNow(p) /\ cursor'[p] = cursor[p]
                              /\ OpenedNow(p) /\ InFlight(p, cursor[p]) =>
                                    OpenedNow(p)' /\ InFlight(p, cursor[p])'
    PROVE  OneOrder' /\ FailsLast'
<1>1. OneOrder'
  BY DEF OneOrder
<1>2. \A p \in Parties : \A i \in 1..Len(opened[p]) : IsWrong(p, i)' <=> IsWrong(p, i)
  BY DEF IsWrong
<1>3. FailsLast'
  BY <1>2 DEF FailsLast
<1> QED
  BY <1>1, <1>3

-----------------------------------------------------------------------------
(* The steps of the threads.                                               *)

\* A step that the coordinators do not see but for what has been asked.
LEMMA Unseen ==
    ASSUME TypeInv, ScheduleState, Asked', LeavesNone,
           UNCHANGED <<checked, opened, wrong, told, heard, waiting, cpc, cursor, signals>>,
           \A p \in Parties, t \in Threads :
              /\ InFlight(p, t)' <=> InFlight(p, t)
              /\ ~running'[p] => ~running[p] \/ signals[p][t] = 0
    PROVE  ScheduleState'
<1> USE DEF ScheduleState
<1>1. \A p \in Parties, t \in Threads :
         /\ Finished(p, t)' <=> Finished(p, t)
         /\ Passed(p, t)' <=> Passed(p, t)
  BY DEF Finished, OpenedNow, Passed
<1>2. \A p \in Parties : OpenedNow(p)' <=> OpenedNow(p)
  BY DEF OpenedNow
<1>3. InRounds'
  BY DEF InRounds, One
<1>4. Counted'
  <2>1. \A p, q \in Parties, t \in Threads : Told(q, heard[p], t)' = Told(q, heard[p], t)
    BY SameTold
  <2> QED
    BY <1>1, <2>1, CountedKept
<1>5. Settled'
  BY <1>1 DEF Settled
<1>6. InStep'
  <2>1. ASSUME NEW p \in Parties, NEW q \in Parties, Ahead(p, q)
        PROVE  /\ heard'[p] = heard'[q] /\ OpenedNow(q)' /\ cursor'[q] = cursor[q]
               /\ Passed(p, cursor[q])'
    BY <1>2, <2>1 DEF Ahead, Passed
  <2> QED
    BY <2>1, InStepKept
<1>7. OneOrder' /\ FailsLast'
  <2>1. ASSUME NEW p \in Parties, OpenedNow(p), InFlight(p, cursor[p])
        PROVE  InFlight(p, cursor[p])'
    <3>1. cursor[p] \in Threads /\ cursor' = cursor
      BY <2>1, AtParty DEF OpenedNow
    <3> QED
      BY <2>1, <3>1 DEF InFlight
  <2> QED
    BY <1>2, <2>1, OpeningsKept
<1> QED
  BY <1>3, <1>4, <1>5, <1>6, <1>7

LEMMA ConcatAppend ==
    ASSUME NEW a \in Seq(Threads), NEW b \in Seq(Threads), NEW x \in Threads
    PROVE  a \o b \in Seq(Threads) /\ a \o Append(b, x) = Append(a \o b, x)
<1>1. a \o b \in Seq(Threads) /\ Append(b, x) = b \o <<x>> /\ Append(a \o b, x) = (a \o b) \o <<x>>
  BY ConcatProperties, AppendIsConcat
<1> QED
  BY <1>1, ConcatAssociative

LEMMA ConcatBegins ==
    ASSUME NEW a \in Seq(Threads), NEW b \in Seq(Threads)
    PROVE  /\ Len(a \o b) \in Nat /\ Len(a \o b) >= Len(a)
           /\ \A i \in 1..Len(a) : (a \o b)[i] = a[i]
<1>1. Len(a) \in Nat /\ Len(b) \in Nat
  OBVIOUS
<1>2. Len(a \o b) = Len(a) + Len(b)
  OBVIOUS
<1>3. ASSUME NEW i \in 1..Len(a) PROVE (a \o b)[i] = a[i]
  BY <1>1
<1> QED
  BY <1>1, <1>2, <1>3

LEMMA ConcatMove ==
    ASSUME NEW a \in Seq(Threads), NEW b \in Seq(Threads), b # <<>>
    PROVE  Append(a, Head(b)) \o Tail(b) = a \o b
<1>1. Head(b) \in Threads /\ Tail(b) \in Seq(Threads) /\ b = <<Head(b)>> \o Tail(b)
  BY HeadTailProperties
<1>2. Append(a, Head(b)) = a \o <<Head(b)>>
  BY <1>1, AppendIsConcat
<1> QED
  BY <1>1, <1>2, ConcatAssociative

LEMMA Placed ==
    ASSUME TypeInv, NEW p \in Parties, NEW t \in Threads, NEW w \in Places,
           pc' = [pc EXCEPT ![p][t] = w]
    PROVE  /\ pc'[p][t] = w
           /\ \A q \in Parties, u \in Threads : q # p \/ u # t => pc'[q][u] = pc[q][u]
<1>1. pc \in Table(Places)
  BY DomainsOfAll
<1> QED
  BY <1>1 DEF Table

\* Nothing is left behind if nothing of the coordinators and of the openings changes.
LEMMA NothingMoves ==
    ASSUME UNCHANGED <<checked, opened, cpc, cursor, signals>>,
           \A p \in Parties, t \in Threads : InFlight(p, t)' <=> InFlight(p, t)
    PROVE  LeavesNone
<1>1. \A p \in Parties : OpenedNow(p)' = OpenedNow(p)
  BY DEF OpenedNow
<1>2. \A p \in Parties, t \in Threads : Finished(p, t)' <=> Finished(p, t)
  BY <1>1 DEF Finished
<1>3. \A p \in Parties : Base(p)' = Base(p)
  BY <1>1 DEF Base, One
<1>4. \A p \in Parties, t \in Threads : Behind(p, t)' = Behind(p, t)
  BY <1>2 DEF Behind, One
<1> QED
  BY <1>3, <1>4 DEF LeavesNone

LEMMA BeginSchedule ==
    ASSUME TypeInv, ScheduleState, NEW p \in Parties, NEW t \in Threads,
           Begin(p, t) \/ Seed(p, t) \/ Commit(p, t)
    PROVE  ScheduleState'
<1>1. PICK w \in {"seeding", "revealing", "committing"} : pc' = [pc EXCEPT ![p][t] = w]
  BY DEF Begin, Seed, Commit, Goto
<1>2. /\ pc[p][t] \in {"idle", "seeding", "revealing"}
      /\ UNCHANGED <<checked, opened, wrong, in, cpc, told, heard, waiting, cursor, signals, running>>
  BY DEF Begin, Seed, Commit, coordVars
<1>3. /\ pc'[p][t] = w
      /\ \A q \in Parties, u \in Threads : q # p \/ u # t => pc'[q][u] = pc[q][u]
  BY <1>1, Placed DEF Places
<1>4. \A q \in Parties, u \in Threads :
         /\ InFlight(q, u)' <=> InFlight(q, u)
         /\ pc'[q][u] \in {"waiting", "opening", "failed"}
              <=> pc[q][u] \in {"waiting", "opening", "failed"}
  BY <1>2, <1>3 DEF InFlight
<1>5. Asked'
  <2>1. \A q \in Parties : Asks(q)' = Asks(q)
    BY <1>2 DEF Asks
  <2> QED
    BY <1>2, <1>4, <2>1, AskedKept DEF ScheduleState
<1> QED
  BY <1>2, <1>4, <1>5, NothingMoves, Unseen

LEMMA WaitSchedule ==
    ASSUME TypeInv, ScheduleState, NEW p \in Parties, NEW t \in Threads, Wait(p, t)
    PROVE  ScheduleState'
<1>1. /\ pc' = [pc EXCEPT ![p][t] = "waiting"] /\ pc[p][t] = "committing"
      /\ in' = [in EXCEPT ![p] = Append(@, t)]
      /\ UNCHANGED <<checked, opened, wrong, cpc, told, heard, waiting, cursor, signals, running>>
  BY DEF Wait, Goto
<1>2. /\ pc'[p][t] = "waiting"
      /\ \A q \in Parties, u \in Threads : q # p \/ u # t => pc'[q][u] = pc[q][u]
  BY <1>1, Placed DEF Places
<1>3. \A q \in Parties, u \in Threads : InFlight(q, u)' <=> InFlight(q, u)
  BY <1>1, <1>2 DEF InFlight
<1>4. Asked'
  <2> SUFFICES ASSUME NEW q \in Parties, NEW u \in Threads
               PROVE  Cardinality({i \in 1..Len(Asks(q)') : Asks(q)'[i] = u})
                        = checked'[q][u] + One(pc'[q][u] \in {"waiting", "opening", "failed"})
    BY DEF Asked, One
  <2>1. Cardinality({i \in 1..Len(Asks(q)) : Asks(q)[i] = u})
          = checked[q][u] + One(pc[q][u] \in {"waiting", "opening", "failed"})
    BY DEF ScheduleState, Asked
  <2>2. CASE q # p
    <3>1. in'[q] = in[q]
      BY <1>1, <2>2 DEF TypeInv, TypeOK
    <3>2. Asks(q)' = Asks(q)
      BY <1>1, <3>1 DEF Asks
    <3> QED
      BY <1>1, <1>2, <2>1, <2>2, <3>2 DEF One
  <2>3. CASE q = p
    <3>1. told[p] \in Seq(Threads) /\ in[p] \in Seq(Threads) /\ in'[p] = Append(in[p], t)
      BY <1>1, AtParty DEF TypeInv, TypeOK
    <3>2. Asks(p)' = Append(Asks(p), t) /\ Asks(p) \in Seq(Threads)
      <4>1. /\ told[p] \o in[p] \in Seq(Threads)
            /\ told[p] \o Append(in[p], t) = Append(told[p] \o in[p], t)
        BY <3>1, ConcatAppend
      <4>2. Asks(p)' = told[p] \o Append(in[p], t) /\ Asks(p) = told[p] \o in[p]
        BY <1>1, <3>1 DEF Asks
      <4> QED
        BY <4>1, <4>2
    <3>3. Cardinality({i \in 1..Len(Asks(p)') : Asks(p)'[i] = u})
            = Cardinality({i \in 1..Len(Asks(p)) : Asks(p)[i] = u}) + (IF t = u THEN 1 ELSE 0)
      BY <3>2, OpeningsAppend
    <3>4. checked[p][u] \in Nat
      BY AtThread
    <3>5. CASE u = t
      <4>1. /\ One(pc[p][u] \in {"waiting", "opening", "failed"}) = 0
            /\ One(pc'[p][u] \in {"waiting", "opening", "failed"}) = 1
        BY <1>1, <1>2, <3>5 DEF One
      <4> QED
        BY <1>1, <2>1, <2>3, <3>3, <3>4, <3>5, <4>1
    <3>6. CASE u # t
      <4>1. pc'[p][u] = pc[p][u] /\ checked' = checked
        BY <1>1, <1>2, <3>6
      <4>2. One(pc[p][u] \in {"waiting", "opening", "failed"}) \in Nat
        BY DEF One
      <4> QED
        BY <2>1, <2>3, <3>3, <3>4, <3>6, <4>1, <4>2
    <3> QED
      BY <3>5, <3>6
  <2> QED
    BY <2>2, <2>3
<1> QED
  BY <1>1, <1>3, <1>4, NothingMoves, Unseen

\* Two coordinators that have left the same behind and have both released a thread have
\* released the same: up to there they have heard the same and counted the same.
LEMMA SameCursor ==
    ASSUME TypeInv, InRounds, Counted, NEW p \in Parties, NEW q \in Parties, Even(p, q),
           cpc[p] = "release", cpc[q] = "release"
    PROVE  cursor[p] = cursor[q]
<1>1. heard[p] = heard[q]
  BY SameRound
<1>2. ASSUME NEW u \in Threads PROVE waiting[p][u] = waiting[q][u]
  <2>1. Behind(p, u) = Behind(q, u)
    BY DEF Even
  <2>2. Askers(p, u) = Askers(q, u)
    BY <1>1, <2>1 DEF Askers
  <2> QED
    BY <2>2 DEF Counted
<1>3. /\ cursor[p] \in Threads /\ cursor[q] \in Threads
      /\ cursor[p] \in Nat /\ cursor[q] \in Nat
  BY AtParty
<1>4. waiting[p][cursor[p]] = N /\ waiting[q][cursor[q]] = N
  BY <1>3 DEF Counted
<1>5. ~(cursor[p] < cursor[q])
  <2>1. Passed(q, cursor[p]) => waiting[q][cursor[p]] # N
    BY <1>3 DEF Counted
  <2> QED
    BY <1>2, <1>3, <1>4, <2>1 DEF Passed
<1>6. ~(cursor[q] < cursor[p])
  <2>1. Passed(p, cursor[q]) => waiting[p][cursor[q]] # N
    BY <1>3 DEF Counted
  <2> QED
    BY <1>2, <1>3, <1>4, <2>1 DEF Passed
<1> QED
  BY <1>3, <1>5, <1>6

\* What thread t of party p opens is what any other has opened as the next, and all
\* others have opened what p has.
LEMMA OpenAgrees ==
    ASSUME TypeInv, ScheduleState, NEW p \in Parties, NEW q \in Parties,
           cpc[p] = "release", ~OpenedNow(p)
    PROVE  /\ Len(opened[q]) >= Len(opened[p]) /\ Len(opened[q]) <= Len(opened[p]) + 1
           /\ Len(opened[q]) = Len(opened[p]) + 1 => opened[q][Len(opened[q])] = cursor[p]
<1> USE DEF ScheduleState
<1>1. /\ Base(p) \in Nat /\ Len(opened[p]) = Base(p)
      /\ Base(q) \in Nat /\ Len(opened[q]) = Base(q) + One(OpenedNow(q))
  BY BaseNat DEF One
<1>2. ~Ahead(q, p)
  BY DEF Ahead
<1>3. CASE Ahead(p, q)
  <2>1. Base(p) = Base(q) + 1 /\ OpenedNow(q)
    BY <1>3 DEF Ahead
  <2> QED
    BY <1>1, <2>1 DEF One
<1>4. CASE Even(p, q)
  <2>1. Base(p) = Base(q)
    BY <1>4 DEF Even
  <2>2. CASE OpenedNow(q)
    <3>1. cursor[p] = cursor[q]
      BY <1>4, <2>2, SameCursor DEF OpenedNow
    <3>2. opened[q][Len(opened[q])] = cursor[q]
      BY <2>2 DEF OneOrder
    <3> QED
      BY <1>1, <2>1, <2>2, <3>1, <3>2 DEF One
  <2>3. CASE ~OpenedNow(q)
    BY <1>1, <2>1, <2>3 DEF One
  <2> QED
    BY <2>2, <2>3
<1> QED
  BY <1>2, <1>3, <1>4 DEF InStep

\* What Open does at the party.
LEMMA OpenEffect ==
    ASSUME TypeInv, ReleaseInv, NEW p \in Parties, NEW t \in Threads, Open(p, t)
    PROVE  /\ running[p] /\ cpc[p] = "release" /\ cursor[p] = t
           /\ ~OpenedNow(p) /\ OpenedNow(p)' /\ InFlight(p, t)' /\ ~InFlight(p, t)
           /\ opened' = [opened EXCEPT ![p] = Append(@, t)]
           /\ opened'[p] = Append(opened[p], t)
           /\ pc[p][t] = "waiting" /\ pc'[p][t] = "opening"
           /\ \A q \in Parties, u \in Threads : q # p \/ u # t => pc'[q][u] = pc[q][u]
           /\ UNCHANGED <<checked, wrong, in, cpc, told, heard, waiting, cursor, running>>
<1>1. /\ pc[p][t] = "waiting" /\ signals[p][t] > 0
      /\ signals' = [signals EXCEPT ![p][t] = @ - 1]
      /\ opened' = [opened EXCEPT ![p] = Append(@, t)]
      /\ pc' = [pc EXCEPT ![p][t] = "opening"]
      /\ UNCHANGED <<checked, wrong, in, cpc, told, heard, waiting, cursor, running>>
  BY DEF Open, Goto
<1>2. running[p] /\ cpc[p] = "release" /\ cursor[p] = t
  <2>1. ~Calm(p, t) /\ pc[p][t] # "idle"
    BY <1>1 DEF Calm
  <2> QED
    BY <2>1, InFocus
<1>3. signals[p][t] = 1
  BY <1>1, <1>2 DEF ReleaseInv, PartyInv, OneRelease
<1>4. signals'[p][t] = 0
  <2>1. signals \in Table(Nat)
    BY DomainsOfAll
  <2> QED
    BY <1>1, <1>3, <2>1 DEF Table
<1>5. /\ pc'[p][t] = "opening"
      /\ \A q \in Parties, u \in Threads : q # p \/ u # t => pc'[q][u] = pc[q][u]
  BY <1>1, Placed DEF Places
<1>6. opened'[p] = Append(opened[p], t)
  BY <1>1 DEF TypeInv, TypeOK
<1>7. ~OpenedNow(p) /\ OpenedNow(p)' /\ InFlight(p, t)' /\ ~InFlight(p, t)
  BY <1>1, <1>2, <1>3, <1>4, <1>5 DEF OpenedNow, InFlight
<1> QED
  BY <1>1, <1>2, <1>5, <1>6, <1>7

\* The openings after one more.
LEMMA OrderOfOpen ==
    ASSUME TypeInv, ReleaseInv, ScheduleState, NEW p \in Parties, NEW t \in Threads, Open(p, t),
           \A q \in Parties \ {p} : Same(q)
    PROVE  OneOrder' /\ FailsLast'
<1> USE DEF ScheduleState
<1> DEFINE n == Len(opened[p])
<1>1. /\ cpc[p] = "release" /\ cursor[p] = t /\ ~OpenedNow(p) /\ OpenedNow(p)' /\ InFlight(p, t)'
      /\ opened'[p] = Append(opened[p], t) /\ wrong' = wrong /\ cursor' = cursor
  BY OpenEffect
<1>2. /\ n \in Nat /\ Len(opened'[p]) = n + 1 /\ opened'[p][n + 1] = t
      /\ \A i \in 1..n : opened'[p][i] = opened[p][i]
      /\ opened'[p] # <<>>
  <2>1. opened[p] \in Seq(Threads)
    BY AtParty
  <2> QED
    BY <1>1, <2>1, AppendProperties
<1>3. \A q \in Parties \ {p} : opened'[q] = opened[q] /\ OpenedNow(q)' = OpenedNow(q)
  BY OthersSame DEF Same
<1>4. \A q \in Parties \ {p} :
         /\ Len(opened[q]) \in Nat /\ Len(opened[q]) >= n /\ Len(opened[q]) <= n + 1
         /\ Len(opened[q]) = n + 1 => opened[q][n + 1] = t
  BY <1>1, OpenAgrees, AtParty
<1> HIDE DEF n
<1>5. ASSUME NEW q \in Parties, NEW r \in Parties, NEW i \in 1..Len(opened'[q]),
             i <= Len(opened'[r])
      PROVE  opened'[q][i] = opened'[r][i]
  <2>1. \A x \in Parties, y \in Parties : \A j \in 1..Len(opened[x]) :
           j <= Len(opened[y]) => opened[x][j] = opened[y][j]
    BY DEF OneOrder
  <2>2. CASE q # p /\ r # p
    BY <1>3, <1>5, <2>1, <2>2
  <2>3. CASE q = p /\ r = p
    BY <2>3
  <2>4. ASSUME NEW x \in Parties, x # p, NEW j \in 1..(n + 1), j <= Len(opened[x])
        PROVE  opened'[p][j] = opened[x][j]
    <3>1. CASE j <= n
      BY <1>2, <2>1, <2>4, <3>1 DEF n
    <3>2. CASE j = n + 1
      BY <1>2, <1>4, <2>4, <3>2
    <3> QED
      BY <1>2, <2>4, <3>1, <3>2
  <2>5. CASE q = p /\ r # p
    BY <1>2, <1>3, <1>5, <2>4, <2>5
  <2>6. CASE q # p /\ r = p
    <3>1. i \in 1..(n + 1) /\ i <= Len(opened[q])
      BY <1>2, <1>3, <1>4, <1>5, <2>6
    <3> QED
      BY <1>3, <2>4, <2>6, <3>1
  <2> QED
    BY <2>2, <2>3, <2>5, <2>6
<1>6. OneOrder'
  <2>1. ASSUME NEW q \in Parties, OpenedNow(q)'
        PROVE  opened'[q] # <<>> /\ opened'[q][Len(opened'[q])] = cursor'[q]
    <3>1. CASE q = p
      BY <1>1, <1>2, <3>1
    <3>2. CASE q # p
      BY <1>1, <1>3, <2>1, <3>2 DEF OneOrder
    <3> QED
      BY <3>1, <3>2
  <2> QED
    BY <1>5, <2>1 DEF OneOrder
<1>7. ASSUME NEW q \in Parties, NEW i \in 1..Len(opened'[q]), IsWrong(q, i)'
      PROVE  i = Len(opened'[q]) /\ OpenedNow(q)' /\ InFlight(q, cursor[q])'
  <2>1. CASE q # p
    <3>1. IsWrong(q, i) /\ i \in 1..Len(opened[q])
      BY <1>1, <1>3, <1>7, <2>1 DEF IsWrong
    <3>2. i = Len(opened[q]) /\ OpenedNow(q) /\ InFlight(q, cursor[q])
      BY <3>1 DEF FailsLast
    <3>3. pc'[q] = pc[q]
      BY <2>1 DEF Same
    <3> QED
      BY <1>1, <1>3, <2>1, <3>2, <3>3 DEF InFlight
  <2>2. CASE q = p
    <3>1. CASE i <= n
      <4>1. i \in 1..n
        BY <1>2, <1>7, <2>2, <3>1
      <4>2. opened'[p][i] = opened[p][i]
            /\ \A u : {j \in 1..i : opened'[p][j] = u} = {j \in 1..i : opened[p][j] = u}
        BY <1>2, <4>1
      <4>3. IsWrong(p, i)
        BY <1>1, <1>7, <2>2, <4>2 DEF IsWrong
      <4> QED
        BY <1>1, <4>1, <4>3 DEF FailsLast, n
    <3>2. CASE i = n + 1
      BY <1>1, <1>2, <2>2, <3>2
    <3> QED
      BY <1>2, <1>7, <2>2, <3>1, <3>2
  <2> QED
    BY <2>1, <2>2
<1> QED
  BY <1>6, <1>7 DEF FailsLast

LEMMA OpenSchedule ==
    ASSUME TypeInv, ReleaseInv, ScheduleState, NEW p \in Parties, NEW t \in Threads, Open(p, t)
    PROVE  ScheduleState'
<1> USE DEF ScheduleState
<1>1. /\ running[p] /\ cpc[p] = "release" /\ cursor[p] = t
      /\ ~OpenedNow(p) /\ OpenedNow(p)' /\ InFlight(p, t)' /\ ~InFlight(p, t)
      /\ opened'[p] = Append(opened[p], t) /\ pc[p][t] = "waiting" /\ pc'[p][t] = "opening"
      /\ \A q \in Parties, u \in Threads : q # p \/ u # t => pc'[q][u] = pc[q][u]
      /\ UNCHANGED <<checked, wrong, in, cpc, told, heard, waiting, cursor, running>>
  BY OpenEffect
<1>2. \A q \in Parties \ {p} : Same(q)
  BY OthersAlone DEF StepOf, Check
<1>3. \A u \in Threads : ~Finished(p, u) /\ ~Finished(p, u)'
  BY <1>1 DEF Finished
<1>4. LeavesNone
  <2>1. Base(p)' = Base(p)
    <3>1. opened[p] \in Seq(Threads) /\ Len(opened[p]) \in Nat
      BY AtParty
    <3>2. Len(opened'[p]) = Len(opened[p]) + 1
      BY <1>1, <3>1, AppendProperties
    <3> QED
      BY <1>1, <3>1, <3>2 DEF Base, One
  <2>2. \A u \in Threads : Behind(p, u)' = Behind(p, u)
    BY <1>1, <1>3 DEF Behind, One
  <2> QED
    BY <1>2, <2>1, <2>2, OthersSame DEF LeavesNone
<1>5. InRounds'
  BY <1>1 DEF InRounds, One
<1>6. Asked'
  <2>1. \A q \in Parties : Asks(q)' = Asks(q)
    BY <1>1 DEF Asks
  <2> QED
    BY <1>1, <2>1, AskedKept
<1>7. Counted'
  <2>1. \A q \in Parties, u \in Threads : Passed(q, u)' <=> Passed(q, u)
    BY <1>1 DEF Passed
  <2> QED
    BY <1>1, <1>4, <2>1, SameTold, CountedKept
<1>8. Settled'
  <2>1. \A q \in Parties \ {p}, u \in Threads :
           Finished(q, u)' = Finished(q, u) /\ signals'[q] = signals[q]
    BY <1>2, OthersSame DEF Same
  <2> QED
    BY <1>1, <1>3, <2>1 DEF Settled
<1>9. InStep'
  <2>1. ASSUME NEW x \in Parties, NEW y \in Parties, Ahead(x, y)
        PROVE  /\ heard'[x] = heard'[y] /\ OpenedNow(y)' /\ cursor'[y] = cursor[y]
               /\ Passed(x, cursor[y])'
    <3>1. y # p /\ heard[x] = heard[y] /\ OpenedNow(y) /\ Passed(x, cursor[y])
      BY <1>1, <2>1 DEF Ahead
    <3>2. OpenedNow(y)'
      BY <1>2, <3>1, OthersSame
    <3> QED
      BY <1>1, <3>1, <3>2 DEF Passed
  <2> QED
    BY <1>4, <2>1, InStepKept
<1>10. OneOrder' /\ FailsLast'
  BY <1>2, OrderOfOpen
<1> QED
  BY <1>5, <1>6, <1>7, <1>8, <1>9, <1>10

\* What a check that succeeds changes.
LEMMA VerifyEffect ==
    ASSUME TypeInv, ReleaseInv, NEW p \in Parties, NEW t \in Threads, Verify(p, t)
    PROVE  /\ running[p] /\ OpenedNow(p) /\ cursor[p] = t /\ pc[p][t] = "opening"
           /\ UNCHANGED <<opened, wrong, in, cpc, told, heard, waiting, cursor, signals, running>>
           /\ \A q \in Parties, u \in Threads : q # p \/ u # t =>
                 pc'[q][u] = pc[q][u] /\ checked'[q][u] = checked[q][u]
           /\ \/ pc'[p][t] = "failed" /\ checked' = checked
              \/ /\ pc'[p][t] = "idle" /\ checked'[p][t] = checked[p][t] + 1
                 /\ <<t, checked[p][t] + 1>> \notin wrong
<1>1. /\ pc[p][t] = "opening"
      /\ UNCHANGED <<opened, wrong, in, cpc, told, heard, waiting, cursor, signals, running>>
  BY DEF Verify
<1>2. running[p] /\ cpc[p] = "release" /\ cursor[p] = t /\ signals[p][t] = 0
  <2>1. InFlight(p, t) /\ ~Calm(p, t)
    BY <1>1 DEF InFlight, Calm
  <2>2. running[p] /\ cpc[p] = "release" /\ cursor[p] = t
    BY <1>1, <2>1, InFocus
  <2> QED
    BY <2>1, <2>2 DEF ReleaseInv, PartyInv, OneRelease
<1>3. checked \in Table(0..NChecks) /\ checked[p][t] \in Nat
  BY DomainsOfAll, AtThread
<1>4. CASE pc' = [pc EXCEPT ![p][t] = "failed"] /\ checked' = checked
  <2>1. pc \in Table(Places)
    BY DomainsOfAll
  <2>2. /\ pc'[p][t] = "failed"
        /\ \A q \in Parties, u \in Threads : q # p \/ u # t => pc'[q][u] = pc[q][u]
    BY <1>4, <2>1 DEF Table
  <2> QED
    BY <1>1, <1>2, <1>4, <2>2 DEF OpenedNow
<1>5. CASE /\ pc' = [pc EXCEPT ![p][t] = "idle"] /\ checked' = [checked EXCEPT ![p][t] = @ + 1]
           /\ <<t, checked[p][t] + 1>> \notin wrong
  <2>1. /\ pc'[p][t] = "idle"
        /\ \A q \in Parties, u \in Threads : q # p \/ u # t => pc'[q][u] = pc[q][u]
    BY <1>5, Placed DEF Places
  <2>2. /\ checked'[p][t] = checked[p][t] + 1
        /\ \A q \in Parties, u \in Threads : q # p \/ u # t => checked'[q][u] = checked[q][u]
    BY <1>3, <1>5 DEF Table
  <2> QED
    BY <1>1, <1>2, <1>5, <2>1, <2>2 DEF OpenedNow
<1> QED
  BY <1>4, <1>5 DEF Verify, Goto

LEMMA FailSchedule ==
    ASSUME TypeInv, ScheduleState, NEW p \in Parties, NEW t \in Threads, pc[p][t] = "opening",
           UNCHANGED <<checked, opened, wrong, in, cpc, told, heard, waiting, cursor, signals, running>>,
           pc'[p][t] = "failed",
           \A q \in Parties, u \in Threads : q # p \/ u # t => pc'[q][u] = pc[q][u]
    PROVE  ScheduleState'
<1>1. \A q \in Parties, u \in Threads :
         /\ InFlight(q, u)' <=> InFlight(q, u)
         /\ pc'[q][u] \in {"waiting", "opening", "failed"}
              <=> pc[q][u] \in {"waiting", "opening", "failed"}
  BY DEF InFlight
<1>2. Asked'
  <2>1. \A q \in Parties : Asks(q)' = Asks(q)
    BY DEF Asks
  <2> QED
    BY <1>1, <2>1, AskedKept DEF ScheduleState
<1>3. LeavesNone
  BY <1>1, NothingMoves
<1> QED
  BY <1>1, <1>2, <1>3, Unseen

LEMMA SucceedSchedule ==
    ASSUME TypeInv, ReleaseInv, ProgressInv, ScheduleState, NEW p \in Parties, NEW t \in Threads,
           Verify(p, t), pc'[p][t] = "idle", checked'[p][t] = checked[p][t] + 1,
           <<t, checked[p][t] + 1>> \notin wrong
    PROVE  ScheduleState'
<1> USE DEF ScheduleState
<1>1. /\ running[p] /\ OpenedNow(p) /\ cursor[p] = t /\ pc[p][t] = "opening"
      /\ UNCHANGED <<opened, wrong, in, cpc, told, heard, waiting, cursor, signals, running>>
      /\ \A q \in Parties, u \in Threads : q # p \/ u # t =>
            pc'[q][u] = pc[q][u] /\ checked'[q][u] = checked[q][u]
  BY VerifyEffect
<1>2. \A q \in Parties \ {p} : Same(q)
  BY OthersAlone DEF StepOf, Check
<1>3. /\ ~Finished(p, t) /\ Finished(p, t)' /\ checked[p][t] \in Nat
      /\ \A u \in Threads \ {t} : ~Finished(p, u) /\ ~Finished(p, u)'
  <2>1. checked[p][t] \in Nat
    BY AtThread
  <2> QED
    BY <1>1, <2>1 DEF Finished, OpenedNow, InFlight
<1>4. \A q \in Parties : OpenedNow(q)' = OpenedNow(q) /\ \A u \in Threads : Passed(q, u)' = Passed(q, u)
  BY <1>1 DEF OpenedNow, Passed
<1>5. LeavesNone
  <2>1. Base(p)' = Base(p)
    BY <1>1, <1>4 DEF Base
  <2>2. ASSUME NEW u \in Threads PROVE Behind(p, u)' = Behind(p, u)
    <3>1. CASE u = t
      BY <1>3, <3>1 DEF Behind, One
    <3>2. CASE u # t
      BY <1>1, <1>3, <3>2 DEF Behind, One
    <3> QED
      BY <3>1, <3>2
  <2> QED
    BY <1>2, <2>1, <2>2, OthersSame DEF LeavesNone
<1>6. InRounds'
  BY <1>1 DEF InRounds, One
<1>7. Asked'
  <2> SUFFICES ASSUME NEW q \in Parties, NEW u \in Threads
               PROVE  Cardinality({i \in 1..Len(Asks(q)') : Asks(q)'[i] = u})
                        = checked'[q][u] + One(pc'[q][u] \in {"waiting", "opening", "failed"})
    BY DEF Asked, One
  <2>1. Asks(q)' = Asks(q)
    BY <1>1 DEF Asks
  <2>2. Cardinality({i \in 1..Len(Asks(q)) : Asks(q)[i] = u})
          = checked[q][u] + One(pc[q][u] \in {"waiting", "opening", "failed"})
    BY DEF Asked
  <2>3. CASE q = p /\ u = t
    <3>1. /\ One(pc[p][t] \in {"waiting", "opening", "failed"}) = 1
          /\ One(pc'[p][t] \in {"waiting", "opening", "failed"}) = 0
      BY <1>1 DEF One
    <3> QED
      BY <1>3, <2>1, <2>2, <2>3, <3>1
  <2>4. CASE q # p \/ u # t
    <3>1. pc'[q][u] = pc[q][u] /\ checked'[q][u] = checked[q][u]
      BY <1>1, <2>4
    <3> QED
      BY <2>1, <2>2, <3>1
  <2> QED
    BY <2>3, <2>4
<1>8. Counted'
  BY <1>1, <1>4, <1>5, SameTold, CountedKept
<1>9. Settled'
  <2>1. \A q \in Parties \ {p}, u \in Threads :
           Finished(q, u)' = Finished(q, u) /\ signals'[q] = signals[q] /\ checked'[q] = checked[q]
    BY <1>2, OthersSame DEF Same
  <2>2. checked'[p][t] > 0
    BY <1>3
  <2> QED
    BY <1>1, <1>3, <2>1, <2>2 DEF Settled
<1>10. InStep'
  <2>1. ASSUME NEW x \in Parties, NEW y \in Parties, Ahead(x, y)
        PROVE  /\ heard'[x] = heard'[y] /\ OpenedNow(y)' /\ cursor'[y] = cursor[y]
               /\ Passed(x, cursor[y])'
    BY <1>1, <1>4, <2>1 DEF Ahead, Passed
  <2> QED
    BY <1>5, <2>1, InStepKept
<1>11. OneOrder'
  BY <1>1, <1>4 DEF OneOrder
<1>12. FailsLast'
  <2> SUFFICES ASSUME NEW q \in Parties, NEW i \in 1..Len(opened[q]), IsWrong(q, i)
               PROVE  i = Len(opened[q]) /\ OpenedNow(q) /\ InFlight(q, cursor[q])'
    BY <1>1, <1>4 DEF FailsLast, IsWrong
  <2>1. i = Len(opened[q]) /\ OpenedNow(q) /\ InFlight(q, cursor[q])
    BY DEF FailsLast
  <2>2. CASE q # p
    BY <1>1, <1>2, <2>1, <2>2 DEF Same, InFlight
  <2>3. CASE q = p
    <3>1. opened[p][i] = t
      BY <1>1, <2>1, <2>3 DEF OneOrder
    <3>2. Openings(p, t) = checked[p][t] + 1
      BY <1>1, <1>3 DEF ProgressInv, Progress, InFlight, One
    <3>3. <<t, Openings(p, t)>> \in wrong
      BY <2>1, <2>3, <3>1 DEF IsWrong, Openings
    <3> QED
      BY <3>2, <3>3
  <2> QED
    BY <2>2, <2>3
<1> QED
  BY <1>6, <1>7, <1>8, <1>9, <1>10, <1>11, <1>12

LEMMA VerifySchedule ==
    ASSUME TypeInv, ReleaseInv, ProgressInv, ScheduleState, NEW p \in Parties, NEW t \in Threads,
           Verify(p, t)
    PROVE  ScheduleState'
<1>1. /\ pc[p][t] = "opening"
      /\ UNCHANGED <<opened, wrong, in, cpc, told, heard, waiting, cursor, signals, running>>
      /\ \A q \in Parties, u \in Threads : q # p \/ u # t => pc'[q][u] = pc[q][u]
      /\ \/ pc'[p][t] = "failed" /\ checked' = checked
         \/ /\ pc'[p][t] = "idle" /\ checked'[p][t] = checked[p][t] + 1
            /\ <<t, checked[p][t] + 1>> \notin wrong
  BY VerifyEffect
<1>2. CASE pc'[p][t] = "failed" /\ checked' = checked
  BY <1>1, <1>2, FailSchedule
<1>3. CASE /\ pc'[p][t] = "idle" /\ checked'[p][t] = checked[p][t] + 1
           /\ <<t, checked[p][t] + 1>> \notin wrong
  BY <1>3, SucceedSchedule
<1> QED
  BY <1>1, <1>2, <1>3

-----------------------------------------------------------------------------
(* The steps of the coordinators.                                          *)

\* A step of a coordinator between two releases, or that makes one.
LEMMA BetweenReleases ==
    ASSUME TypeInv, ScheduleState, NEW p \in Parties, StepOf(p), ~OpenedNow(p), ~OpenedNow(p)',
           UNCHANGED <<pc, checked, opened, wrong, running>>,
           running[p] \/ signals' = signals,
           \A y \in Parties : Ahead(p, y) => heard'[p] = heard[p] /\ Passed(p, cursor[y])'
    PROVE  LeavesNone /\ Settled' /\ InStep' /\ OneOrder' /\ FailsLast'
<1> USE DEF ScheduleState
<1>1. \A q \in Parties \ {p} :
         /\ Same(q) /\ OpenedNow(q)' = OpenedNow(q)
         /\ cursor'[q] = cursor[q] /\ heard'[q] = heard[q] /\ signals'[q] = signals[q]
         /\ \A u \in Threads : Finished(q, u)' = Finished(q, u) /\ Passed(q, u)' = Passed(q, u)
  BY OthersAlone, OthersSame DEF Same
<1>2. \A u \in Threads : ~Finished(p, u) /\ ~Finished(p, u)'
  BY DEF Finished
<1>3. LeavesNone
  <2>1. Base(p)' = Base(p)
    BY DEF Base, One
  <2>2. \A u \in Threads : Behind(p, u)' = Behind(p, u)
    BY <1>2 DEF Behind, One
  <2> QED
    BY <2>1, <2>2, NoneLeftBehind
<1>4. Settled'
  BY <1>1, <1>2 DEF Settled
<1>5. InStep'
  <2>1. ASSUME NEW x \in Parties, NEW y \in Parties, Ahead(x, y)
        PROVE  /\ heard'[x] = heard'[y] /\ OpenedNow(y)' /\ cursor'[y] = cursor[y]
               /\ Passed(x, cursor[y])'
    <3>1. /\ y # p /\ heard[x] = heard[y] /\ OpenedNow(y) /\ Passed(x, cursor[y])
          /\ cursor[y] \in Threads
      BY <2>1, AtParty DEF Ahead, OpenedNow
    <3>2. CASE x = p
      <4>1. heard'[p] = heard[p] /\ Passed(p, cursor[y])'
        BY <2>1, <3>2
      <4> QED
        BY <1>1, <3>1, <3>2, <4>1 DEF Passed
    <3>3. CASE x # p
      <4>1. Passed(x, cursor[y])'
        BY <1>1, <3>1, <3>3 DEF Passed, Same
      <4> QED
        BY <1>1, <3>1, <3>3, <4>1
    <3> QED
      BY <3>2, <3>3
  <2> QED
    BY <1>3, <2>1, InStepKept
<1>6. OneOrder' /\ FailsLast'
  <2>1. ASSUME NEW q \in Parties
        PROVE  /\ OpenedNow(q)' => OpenedNow(q) /\ cursor'[q] = cursor[q]
               /\ OpenedNow(q) /\ InFlight(q, cursor[q]) =>
                     OpenedNow(q)' /\ InFlight(q, cursor[q])'
    <3>1. CASE q = p
      BY <3>1
    <3>2. CASE q # p
      BY <1>1, <3>2 DEF InFlight
    <3> QED
      BY <3>1, <3>2
  <2> QED
    BY <2>1, OpeningsKept
<1> QED
  BY <1>3, <1>4, <1>5, <1>6

LEMMA CPopSchedule ==
    ASSUME TypeInv, ScheduleState, NEW p \in Parties, CPop(p)
    PROVE  ScheduleState'
<1> USE DEF ScheduleState
<1>1. /\ cpc[p] = "pop" /\ cpc'[p] \in {"broadcast", "ended"}
      /\ UNCHANGED <<pc, checked, opened, wrong, heard, waiting, cursor, signals, running>>
  BY DEF CPop, CGoto, threadVars, TypeInv, TypeOK
<1>2. /\ told[p] \in Seq(Threads) /\ in[p] \in Seq(Threads) /\ Len(told[p]) \in Nat
      /\ \/ /\ in[p] # <<>> /\ cpc'[p] = "broadcast"
            /\ in'[p] = Tail(in[p]) /\ told'[p] = Append(told[p], Head(in[p]))
         \/ cpc'[p] = "ended" /\ in' = in /\ told' = told
  <2>1. /\ told \in [Parties -> Seq(Threads)] /\ in \in [Parties -> Seq(Threads)]
        /\ cpc \in [Parties -> {"pop", "broadcast", "scan", "release", "ended"}]
    BY DEF TypeInv, TypeOK
  <2> QED
    BY <2>1, AtParty DEF CPop, CGoto
<1>3. Head(in[p]) \in Threads \/ in[p] = <<>>
  BY <1>2, HeadTailProperties
<1>4. \A q \in Parties \ {p} : Same(q)
  BY OthersAlone DEF StepOf, Coordinate
<1>5. ~OpenedNow(p) /\ ~OpenedNow(p)' /\ \A u \in Threads : Passed(p, u) /\ Passed(p, u)'
  BY <1>1 DEF OpenedNow, Passed
<1>6. LeavesNone /\ Settled' /\ InStep' /\ OneOrder' /\ FailsLast'
  <2>1. StepOf(p) /\ \A y \in Parties : Ahead(p, y) =>
                        heard'[p] = heard[p] /\ Passed(p, cursor[y])'
    BY <1>1 DEF StepOf, Coordinate, Passed
  <2> QED
    BY <1>1, <1>5, <2>1, BetweenReleases
<1>7. \A i \in 1..Len(told[p]) : told'[p][i] = told[p][i]
  BY <1>2, <1>3, AppendProperties
<1>8. /\ Len(told'[p]) = Len(told[p]) + One(cpc'[p] = "broadcast")
      /\ Len(told'[p]) \in Nat /\ Len(told'[p]) >= Len(told[p])
  <2>1. CASE cpc'[p] = "broadcast"
    <3>1. Len(told'[p]) = Len(told[p]) + 1
      BY <1>2, <1>3, <2>1, AppendProperties
    <3>2. One(cpc'[p] = "broadcast") = 1
      BY <2>1 DEF One
    <3> QED
      BY <1>2, <3>1, <3>2
  <2>2. CASE cpc'[p] = "ended"
    <3>1. told' = told /\ One(cpc'[p] = "broadcast") = 0
      BY <1>2, <2>2 DEF One
    <3> QED
      BY <1>2, <3>1
  <2> QED
    BY <1>1, <2>1, <2>2
<1>9. InRounds'
  <2> SUFFICES ASSUME NEW q \in Parties, NEW r \in Parties
               PROVE  /\ Len(told'[q]) = heard[q] + One(cpc'[q] = "broadcast")
                      /\ heard[q] <= Len(told'[r])
    BY <1>1 DEF InRounds, One
  <2>1. /\ Len(told[q]) = heard[q] + One(cpc[q] = "broadcast") /\ heard[q] <= Len(told[r])
        /\ heard[q] \in Nat /\ Len(told[r]) \in Nat
    BY AtParty DEF InRounds
  <2>2. Len(told'[q]) = heard[q] + One(cpc'[q] = "broadcast")
    <3>1. CASE q = p
      <4>1. One(cpc[q] = "broadcast") = 0 /\ heard[q] + 0 = heard[q]
        BY <1>1, <2>1, <3>1 DEF One
      <4> QED
        BY <1>8, <2>1, <3>1, <4>1
    <3>2. CASE q # p
      BY <1>4, <2>1, <3>2 DEF Same
    <3> QED
      BY <3>1, <3>2
  <2>3. heard[q] <= Len(told'[r])
    <3>1. CASE r = p
      BY <1>8, <2>1, <3>1
    <3>2. CASE r # p
      BY <1>4, <2>1, <3>2 DEF Same
    <3> QED
      BY <3>1, <3>2
  <2> QED
    BY <2>2, <2>3
<1>10. Asked'
  <2>1. Asks(p)' = Asks(p)
    BY <1>2, ConcatMove DEF Asks
  <2>2. \A q \in Parties : Asks(q)' = Asks(q)
    BY <1>4, <2>1 DEF Asks, Same
  <2> QED
    BY <1>1, <2>2, AskedKept
<1>11. Counted'
  <2>1. ASSUME NEW x \in Parties, NEW q \in Parties, NEW u \in Threads
        PROVE  Told(q, heard[x], u)' = Told(q, heard[x], u)
    <3>1. heard[x] <= Len(told[q]) /\ heard[x] \in Nat /\ Len(told[q]) \in Nat
      BY AtParty DEF InRounds
    <3>2. \A i \in 1..heard[x] : told'[q][i] = told[q][i]
      <4>1. CASE q = p
        BY <1>7, <3>1, <4>1
      <4>2. CASE q # p
        BY <1>4, <4>2 DEF Same
      <4> QED
        BY <4>1, <4>2
    <3>3. {i \in 1..heard[x] : told'[q][i] = u} = {i \in 1..heard[x] : told[q][i] = u}
      BY <3>2
    <3> QED
      BY <1>1, <3>3 DEF Told
  <2>2. ASSUME NEW x \in Parties, NEW u \in Threads
        PROVE  /\ Passed(x, u)' => Passed(x, u)
               /\ cpc'[x] = "release" => cpc[x] = "release" /\ cursor'[x] = cursor[x]
    BY <1>1, <1>4, <1>5 DEF Same, Passed
  <2> QED
    BY <1>1, <1>6, <2>1, <2>2, CountedKept
<1> QED
  BY <1>6, <1>9, <1>10, <1>11

\* What has been told is at most what has been asked for, and one more message is one
\* more if it is of the thread.
LEMMA ToldLimit ==
    ASSUME TypeInv, Asked, NEW q \in Parties, NEW u \in Threads, NEW h \in Nat, h <= Len(told[q])
    PROVE  /\ Told(q, h, u) \in Nat
           /\ Told(q, h, u) <= checked[q][u] + One(pc[q][u] \in {"waiting", "opening", "failed"})
<1> DEFINE all == {i \in 1..Len(Asks(q)) : Asks(q)[i] = u}
           some == {i \in 1..h : told[q][i] = u}
<1>1. /\ told[q] \in Seq(Threads) /\ in[q] \in Seq(Threads) /\ Len(told[q]) \in Nat
  BY AtParty
<1>2. /\ Len(Asks(q)) \in Nat /\ Len(Asks(q)) >= Len(told[q])
      /\ \A i \in 1..Len(told[q]) : Asks(q)[i] = told[q][i]
  BY <1>1, ConcatBegins DEF Asks
<1>3. IsFiniteSet(all)
  <2>1. IsFiniteSet(1..Len(Asks(q))) /\ all \in SUBSET (1..Len(Asks(q)))
    BY <1>2, FS_Interval
  <2> QED
    BY <2>1, FS_Subset
<1>4. some \subseteq all
  BY <1>1, <1>2
<1>5. Cardinality(some) \in Nat /\ Cardinality(some) <= Cardinality(all)
  BY <1>3, <1>4, FS_Subset, FS_CardinalityType
<1> QED
  BY <1>5 DEF Asked, Told

LEMMA ToldNext ==
    ASSUME NEW q \in Parties, NEW u \in Threads, NEW h \in Nat
    PROVE  /\ Told(q, h, u) \in Nat
           /\ Told(q, h + 1, u) = Told(q, h, u) + One(told[q][h + 1] = u)
<1> DEFINE places(n) == {i \in 1..n : told[q][i] = u}
<1>1. IsFiniteSet(places(h)) /\ Cardinality(places(h)) \in Nat
  <2>1. IsFiniteSet(1..h) /\ places(h) \in SUBSET (1..h)
    BY FS_Interval
  <2> QED
    BY <2>1, FS_Subset, FS_CardinalityType
<1>2. CASE told[q][h + 1] = u
  <2>1. places(h + 1) = places(h) \union {h + 1} /\ h + 1 \notin places(h)
    BY <1>2
  <2>2. Cardinality(places(h + 1)) = Cardinality(places(h)) + 1
    BY <1>1, <2>1, FS_AddElement
  <2> QED
    BY <1>1, <1>2, <2>2 DEF Told, One
<1>3. CASE told[q][h + 1] # u
  <2>1. places(h + 1) = places(h)
    BY <1>3
  <2>2. Cardinality(places(h + 1)) = Cardinality(places(h))
    BY <2>1
  <2>3. Told(q, h + 1, u) = Told(q, h, u) /\ Told(q, h, u) \in Nat
    BY <1>1, <2>2 DEF Told
  <2> QED
    BY <1>3, <2>3 DEF One
<1> QED
  BY <1>2, <1>3

\* If the count is complete then it is of everybody once.
LEMMA EverybodyAsked ==
    ASSUME Counted, NEW p \in Parties, NEW u \in Threads, waiting[p][u] = N, NEW q \in Parties
    PROVE  Told(q, heard[p], u) = Behind(p, u) + 1
<1>1. Cardinality(Askers(p, u)) = Cardinality(Parties) /\ Askers(p, u) \subseteq Parties
  BY DEF Counted, N, Askers
<1>2. Askers(p, u) = Parties
  BY <1>1, CoordinatorAssumption, FS_Subset
<1> QED
  BY <1>2 DEF Askers

\* A thread that everybody has asked for waits, as long as it is not released.
LEMMA ReleasedWaits ==
    ASSUME TypeInv, ScheduleState, NEW p \in Parties, NEW u \in Threads, waiting[p][u] = N,
           ~Finished(p, u)
    PROVE  pc[p][u] \in {"waiting", "opening", "failed"}
<1> USE DEF ScheduleState
<1>1. Told(p, heard[p], u) = checked[p][u] + 1
  <2>1. Told(p, heard[p], u) = Behind(p, u) + 1 /\ checked[p][u] \in Nat
    BY EverybodyAsked, AtThread
  <2> QED
    BY <2>1 DEF Behind, One
<1>2. heard[p] \in Nat /\ heard[p] <= Len(told[p]) /\ checked[p][u] \in Nat
  BY AtParty, AtThread DEF InRounds
<1>3. Told(p, heard[p], u) <= checked[p][u] + One(pc[p][u] \in {"waiting", "opening", "failed"})
  BY <1>2, ToldLimit
<1> QED
  BY <1>1, <1>2, <1>3 DEF One

LEMMA CScanSchedule ==
    ASSUME TypeInv, ReleaseInv, ScheduleState, NEW p \in Parties, CScan(p)
    PROVE  ScheduleState'
<1> USE DEF ScheduleState
<1> DEFINE c == cursor[p]
<1>1. /\ cpc[p] = "scan" /\ c \in Nat /\ c \in 1..(NThreads + 1) /\ NThreads \in Nat
      /\ UNCHANGED <<pc, checked, opened, wrong, in, told, heard, waiting, running>>
  BY AtParty, CoordinatorAssumption DEF CScan, threadVars
<1>2. \/ c > NThreads /\ cpc'[p] = "pop" /\ cursor' = cursor /\ signals' = signals
      \/ /\ c \in Threads /\ waiting[p][c] = N /\ cpc'[p] = "release"
         /\ signals' = [signals EXCEPT ![p][c] = @ + 1] /\ cursor' = cursor
      \/ /\ c \in Threads /\ waiting[p][c] # N /\ cpc' = cpc
         /\ cursor'[p] = c + 1 /\ signals' = signals
  <2>1. c > NThreads \/ c \in Threads
    BY <1>1 DEF Threads
  <2>2. cpc \in [Parties -> {"pop", "broadcast", "scan", "release", "ended"}]
        /\ cursor \in [Parties -> 1..(NThreads + 1)]
    BY DomainsOfAll
  <2>3. CASE c > NThreads
    BY <1>1, <2>2, <2>3 DEF CScan, CGoto
  <2>4. CASE ~(c > NThreads) /\ waiting[p][c] = N
    BY <1>1, <2>1, <2>2, <2>4 DEF CScan, CGoto
  <2>5. CASE ~(c > NThreads) /\ waiting[p][c] # N
    BY <1>1, <2>1, <2>2, <2>5 DEF CScan, CGoto
  <2> QED
    BY <2>3, <2>4, <2>5
<1>3. \A q \in Parties \ {p} : Same(q)
  BY OthersAlone DEF StepOf, Coordinate
<1>4. ~OpenedNow(p) /\ \A u \in Threads : ~Finished(p, u)
  BY <1>1 DEF OpenedNow, Finished
<1>5. ~OpenedNow(p)'
  <2>1. CASE cpc'[p] = "release"
    <3>1. c \in Threads /\ signals \in Table(Nat)
      BY <1>1, <1>2, <2>1, DomainsOfAll
    <3>2. signals[p][c] \in Nat /\ signals'[p][c] = signals[p][c] + 1 /\ cursor'[p] = c
      BY <1>1, <1>2, <2>1, <3>1 DEF Table
    <3> QED
      BY <3>2 DEF OpenedNow
  <2> QED
    BY <2>1 DEF OpenedNow
<1>6. running[p] \/ signals' = signals
  <2> SUFFICES ASSUME ~running[p], c \in Threads, waiting[p][c] = N PROVE FALSE
    BY <1>2
  <2>1. pc[p][c] \in {"waiting", "opening", "failed"}
    BY <1>4, ReleasedWaits
  <2> QED
    BY <2>1 DEF ReleaseInv, PartyInv, AllDone
<1>7. ASSUME NEW u \in Threads
      PROVE  /\ Passed(p, u) => Passed(p, u)'
             /\ Passed(p, u)' => Passed(p, u) \/ waiting[p][u] # N
             /\ cpc'[p] = "release" /\ cursor'[p] = u => waiting[p][u] = N
  <2>1. u \in Nat /\ u <= NThreads
    BY <1>1 DEF Threads
  <2> QED
    BY <1>1, <1>2, <2>1 DEF Passed
<1>8. LeavesNone /\ Settled' /\ InStep' /\ OneOrder' /\ FailsLast'
  <2>1. ASSUME NEW y \in Parties, Ahead(p, y)
        PROVE  heard'[p] = heard[p] /\ Passed(p, cursor[y])'
    <3>1. cursor[y] \in Threads /\ cpc[y] = "release" /\ Passed(p, cursor[y])
      BY <2>1, AtParty DEF Ahead, OpenedNow
    <3>2. y # p
      BY <1>1, <3>1
    <3>3. cursor'[y] = cursor[y]
      BY <1>3, <3>2 DEF Same
    <3> QED
      BY <1>1, <1>7, <3>1, <3>3 DEF Passed
  <2> QED
    BY <1>1, <1>4, <1>5, <1>6, <2>1, BetweenReleases DEF StepOf, Coordinate
<1>9. InRounds'
  <2>1. \A q \in Parties : cpc'[q] = "broadcast" <=> cpc[q] = "broadcast"
    BY <1>1, <1>2, <1>3 DEF Same
  <2> QED
    BY <1>1, <2>1 DEF InRounds, One
<1>10. Asked'
  BY <1>1, AskedKept DEF Asks
<1>11. Counted'
  <2>1. ASSUME NEW x \in Parties, NEW u \in Threads
        PROVE  /\ Passed(x, u)' => Passed(x, u) \/ waiting[x][u] # N
               /\ cpc'[x] = "release" /\ cursor'[x] = u =>
                     (cpc[x] = "release" /\ cursor[x] = u) \/ waiting[x][u] = N
    BY <1>3, <1>7 DEF Same, Passed
  <2> QED
    BY <1>1, <1>8, <2>1, SameTold, CountedKept
<1> QED
  BY <1>8, <1>9, <1>10, <1>11

LEMMA DestroySchedule ==
    ASSUME TypeInv, ReleaseInv, ScheduleState, NEW p \in Parties, Destroy(p)
    PROVE  ScheduleState'
<1>1. /\ running[p] /\ AllDone(p) /\ running' = [running EXCEPT ![p] = FALSE]
      /\ UNCHANGED <<pc, checked, opened, wrong, in, cpc, told, heard, waiting, cursor, signals>>
  BY DEF Destroy, AllDone, threadVars
<1>2. ASSUME NEW u \in Threads PROVE signals[p][u] = 0
  <2>1. OneRelease(p)
    BY <1>1 DEF ReleaseInv, PartyInv
  <2>2. CASE cpc[p] = "release" /\ cursor[p] = u /\ signals[p][u] = 1
    <3>1. waiting[p][u] = N /\ ~Finished(p, u)
      BY <2>2 DEF ScheduleState, Counted, Finished, OpenedNow
    <3>2. pc[p][u] \in {"waiting", "opening", "failed"}
      BY <3>1, ReleasedWaits
    <3> QED
      BY <1>1, <3>2 DEF AllDone
  <2> QED
    BY <2>1, <2>2 DEF OneRelease, Calm
<1>3. \A q \in Parties, u \in Threads :
         /\ InFlight(q, u)' <=> InFlight(q, u)
         /\ ~running'[q] => ~running[q] \/ signals[q][u] = 0
  BY <1>1, <1>2 DEF InFlight, TypeInv, TypeOK
<1>4. Asked'
  BY <1>1, AskedKept DEF ScheduleState, Asks
<1>5. LeavesNone
  BY <1>1, <1>3, NothingMoves
<1> QED
  BY <1>1, <1>3, <1>4, <1>5, Unseen

\* A coordinator that leaves a check behind has seen it finished, and so has everybody
\* opened it: who has not left it behind is at it.
LEMMA OpenedThere ==
    ASSUME TypeInv, ReleaseInv, ProgressInv, Settled, NEW p \in Parties, NEW q \in Parties,
           NEW u \in Threads, Finished(p, u), Behind(q, u) = Behind(p, u)
    PROVE  OpenedNow(q) /\ cursor[q] = u
<1>1. /\ checked[p][u] \in Nat /\ checked[q][u] \in Nat
      /\ checked[p][u] <= checked[q][u] + One(InFlight(q, u))
  BY AtThread, NotBefore
<1>2. Behind(p, u) = checked[p][u] - 1
  BY DEF Behind, One
<1>3. CASE Finished(q, u)
  BY <1>3 DEF Finished
<1>4. CASE ~Finished(q, u)
  <2>1. Behind(q, u) = checked[q][u]
    BY <1>1, <1>4 DEF Behind, One
  <2>2. InFlight(q, u)
    BY <1>1, <1>2, <2>1 DEF One
  <2>3. running[q] /\ cpc[q] = "release" /\ cursor[q] = u
    BY <2>2, InFocus DEF InFlight, Calm
  <2>4. signals[q][u] = 0
    BY <2>2, <2>3 DEF ReleaseInv, PartyInv, OneRelease
  <2> QED
    BY <2>3, <2>4 DEF OpenedNow
<1> QED
  BY <1>3, <1>4

LEMMA CDoneEffect ==
    ASSUME TypeInv, ReleaseInv, ScheduleState, NEW p \in Parties, CDone(p)
    PROVE  LET c == cursor[p]
           IN /\ c \in Threads /\ c \in Nat /\ cpc[p] = "release" /\ cpc'[p] = "scan" /\ cursor'[p] = c + 1
              /\ waiting[p][c] = N /\ waiting'[p][c] = 0
              /\ \A u \in Threads : u # c => waiting'[p][u] = waiting[p][u]
              /\ UNCHANGED <<pc, checked, opened, wrong, in, told, heard, signals, running>>
              /\ Finished(p, c) /\ OpenedNow(p) /\ ~OpenedNow(p)'
<1> DEFINE c == cursor[p]
<1>1. /\ cpc[p] = "release" /\ done[p] > 0
      /\ waiting' = [waiting EXCEPT ![p][c] = 0] /\ cursor' = [cursor EXCEPT ![p] = @ + 1]
      /\ cpc' = [cpc EXCEPT ![p] = "scan"]
      /\ UNCHANGED <<pc, checked, opened, wrong, in, told, heard, signals, running>>
  BY DEF CDone, CGoto, threadVars
<1>2. c \in Threads /\ c \in Nat /\ cpc'[p] = "scan" /\ cursor'[p] = c + 1
  <2>1. /\ cpc \in [Parties -> {"pop", "broadcast", "scan", "release", "ended"}]
        /\ cursor \in [Parties -> 1..(NThreads + 1)]
    BY DomainsOfAll
  <2> QED
    BY <1>1, <2>1, AtParty
<1>3. waiting'[p][c] = 0 /\ \A u \in Threads : u # c => waiting'[p][u] = waiting[p][u]
  <2>1. waiting \in Table(Nat)
    BY TypesOfThreads DEF TypeInv
  <2> QED
    BY <1>1, <1>2, <2>1 DEF Table
<1>4. waiting[p][c] = N
  BY <1>1, <1>2 DEF ScheduleState, Counted
<1>5. signals[p][c] = 0 /\ ~InFlight(p, c)
  <2>1. CASE running[p]
    BY <1>1, <2>1 DEF ReleaseInv, PartyInv, OneRelease
  <2>2. CASE ~running[p]
    BY <1>2, <2>2 DEF ReleaseInv, PartyInv, AllDone, InFlight, ScheduleState, Settled
  <2> QED
    BY <2>1, <2>2
<1> QED
  BY <1>1, <1>2, <1>3, <1>4, <1>5 DEF Finished, OpenedNow

LEMMA CDoneCounts ==
    ASSUME TypeInv, ReleaseInv, ScheduleState, NEW p \in Parties, CDone(p),
           \A q \in Parties \ {p} : Same(q),
           \A u \in Threads : Behind(p, u)' = Behind(p, u) + One(u = cursor[p])
    PROVE  Counted'
<1> USE DEF ScheduleState
<1> DEFINE c == cursor[p]
<1>1. /\ c \in Threads /\ c \in Nat /\ cpc[p] = "release" /\ cpc'[p] = "scan" /\ cursor'[p] = c + 1
      /\ waiting[p][c] = N /\ waiting'[p][c] = 0
      /\ \A u \in Threads : u # c => waiting'[p][u] = waiting[p][u]
      /\ UNCHANGED <<told, heard>>
  BY CDoneEffect
<1>2. \A x \in Parties, q \in Parties, u \in Threads :
         Told(q, heard[x], u)' = Told(q, heard[x], u)
  BY <1>1, SameTold
<1> SUFFICES ASSUME NEW x \in Parties, NEW u \in Threads
             PROVE  /\ \A q \in Parties :
                          Told(q, heard[x], u)' \in {Behind(x, u)', Behind(x, u)' + 1}
                    /\ waiting'[x][u] = Cardinality(Askers(x, u)')
                    /\ Passed(x, u)' => waiting'[x][u] # N
                    /\ cpc'[x] = "release" /\ cursor'[x] = u => waiting'[x][u] = N
  BY DEF Counted, N
<1>3. /\ \A q \in Parties : Told(q, heard[x], u) \in {Behind(x, u), Behind(x, u) + 1}
      /\ waiting[x][u] = Cardinality(Askers(x, u))
      /\ Passed(x, u) => waiting[x][u] # N
      /\ cpc[x] = "release" /\ cursor[x] = u => waiting[x][u] = N
      /\ Behind(x, u) \in Nat
  BY BehindNat DEF Counted
<1>4. CASE x # p
  <2>1. /\ Behind(x, u)' = Behind(x, u) /\ Passed(x, u)' = Passed(x, u)
        /\ waiting'[x] = waiting[x] /\ cpc'[x] = cpc[x] /\ cursor'[x] = cursor[x]
    BY <1>4, OthersSame DEF Same
  <2>2. Askers(x, u)' = Askers(x, u)
    BY <1>2, <2>1 DEF Askers
  <2> QED
    BY <1>2, <1>3, <2>1, <2>2
<1>5. CASE x = p /\ u # c
  <2>1. Behind(p, u)' = Behind(p, u)
    BY <1>3, <1>5 DEF One
  <2>2. Askers(p, u)' = Askers(p, u)
    BY <1>2, <2>1 DEF Askers
  <2>3. u \in Nat /\ (Passed(p, u)' => Passed(p, u))
    BY <1>1, <1>5, AtThread DEF Passed
  <2> QED
    BY <1>1, <1>2, <1>3, <1>5, <2>1, <2>2, <2>3
<1>6. CASE x = p /\ u = c
  <2>1. Behind(p, u)' = Behind(p, u) + 1 /\ Behind(p, u) \in Nat
    BY <1>3, <1>6 DEF One
  <2>2. ASSUME NEW q \in Parties PROVE Told(q, heard[p], u)' = Behind(p, u)'
    <3>1. Told(q, heard[p], u) = Behind(p, u) + 1
      BY <1>1, <1>6, EverybodyAsked
    <3> QED
      BY <1>2, <2>1, <3>1
  <2>3. Askers(p, u)' = {}
    BY <2>1, <2>2 DEF Askers
  <2>4. Cardinality(Askers(p, u)') = 0
    BY <2>3, FS_EmptySet
  <2>5. N # 0
    BY CoordinatorAssumption, FS_EmptySet DEF N
  <2> QED
    BY <1>1, <1>6, <2>2, <2>4, <2>5
<1> QED
  BY <1>4, <1>5, <1>6

LEMMA CDoneInStep ==
    ASSUME TypeInv, ReleaseInv, ProgressInv, ScheduleState, NEW p \in Parties, CDone(p),
           \A q \in Parties \ {p} : Same(q), Base(p)' = Base(p) + 1,
           \A u \in Threads : Behind(p, u)' = Behind(p, u) + One(u = cursor[p])
    PROVE  InStep'
<1> USE DEF ScheduleState
<1> DEFINE c == cursor[p]
<1>1. /\ c \in Threads /\ c \in Nat /\ cpc[p] = "release" /\ cpc'[p] = "scan" /\ cursor'[p] = c + 1
      /\ heard' = heard /\ Finished(p, c)
  BY CDoneEffect
<1>2. ASSUME NEW q \in Parties \ {p} PROVE Even(p, q)' \/ Ahead(p, q)'
  <2>1. /\ \A u \in Threads : Behind(q, u)' = Behind(q, u) /\ Base(q)' = Base(q)
        /\ OpenedNow(q)' = OpenedNow(q) /\ cursor'[q] = cursor[q]
    BY OthersSame DEF Same
  <2>2. Base(p) \in Nat /\ Base(q) \in Nat
    BY BaseNat
  <2>3. \A u \in Threads : Behind(p, u) \in Nat /\ Behind(q, u) \in Nat
    BY BehindNat
  <2>4. Base(q)' = Base(q)
    BY <1>1, <2>1
  <2>5. CASE Even(p, q)
    <3>1. OpenedNow(q) /\ cursor[q] = c
      BY <1>1, <2>5, OpenedThere DEF Even
    <3>2. heard[p] = heard[q]
      BY <1>1, <3>1, SameRound DEF OpenedNow
    <3>3. Passed(p, cursor[q])'
      BY <1>1, <2>1, <3>1 DEF Passed
    <3> QED
      BY <1>1, <2>1, <2>4, <2>5, <3>1, <3>2, <3>3 DEF Even, Ahead
  <2>6. CASE Ahead(q, p)
    BY <2>1, <2>4, <2>6 DEF Even, Ahead
  <2>7. ~Ahead(p, q)
    <3> SUFFICES ASSUME Ahead(p, q) PROVE FALSE
      OBVIOUS
    <3>1. cursor[q] < c /\ cursor[q] \in Nat /\ Behind(p, c) = Behind(q, c) + One(c = cursor[q])
      BY <1>1, AtParty DEF Ahead, Passed
    <3>2. Behind(p, c) = Behind(q, c)
      BY <1>1, <2>3, <3>1 DEF One
    <3>3. cursor[q] = c
      BY <1>1, <3>2, OpenedThere
    <3> QED
      BY <1>1, <3>1, <3>3
  <2> QED
    BY <2>5, <2>6, <2>7 DEF InStep
<1>3. ASSUME NEW x \in Parties \ {p}, NEW y \in Parties \ {p}
      PROVE  Even(x, y)' \/ Ahead(x, y)' \/ Ahead(y, x)'
  <2>1. ASSUME NEW z \in {x, y}
        PROVE  /\ \A u \in Threads : Behind(z, u)' = Behind(z, u) /\ Passed(z, u)' = Passed(z, u)
               /\ Base(z)' = Base(z) /\ OpenedNow(z)' = OpenedNow(z) /\ cursor'[z] = cursor[z]
               /\ cpc'[z] = cpc[z]
    BY OthersSame DEF Same
  <2>2. ASSUME Even(x, y) PROVE Even(x, y)'
    BY <2>1, <2>2 DEF Even
  <2>3. ASSUME NEW v \in {x, y}, NEW w \in {x, y}, Ahead(v, w) PROVE Ahead(v, w)'
    <3>1. Passed(v, cursor[w])'
      BY <2>1, <2>3 DEF Ahead, Passed
    <3> QED
      BY <1>1, <2>1, <2>3, <3>1 DEF Ahead
  <2> QED
    BY <2>2, <2>3 DEF InStep
<1>4. Even(p, p)'
  BY DEF Even
<1>5. \A x \in Parties, y \in Parties : Even(x, y)' => Even(y, x)'
  BY DEF Even
<1> QED
  BY <1>2, <1>3, <1>4, <1>5 DEF InStep

LEMMA CDoneSchedule ==
    ASSUME TypeInv, ReleaseInv, ProgressInv, ScheduleState, NEW p \in Parties, CDone(p)
    PROVE  ScheduleState'
<1> USE DEF ScheduleState
<1> DEFINE c == cursor[p]
<1>1. /\ c \in Threads /\ cpc[p] = "release" /\ cpc'[p] = "scan"
      /\ UNCHANGED <<pc, checked, opened, wrong, in, told, heard, signals, running>>
      /\ Finished(p, c) /\ OpenedNow(p) /\ ~OpenedNow(p)'
  BY CDoneEffect
<1>2. \A q \in Parties \ {p} : Same(q)
  BY OthersAlone DEF StepOf, Coordinate
<1>3. \A u \in Threads : ~Finished(p, u)' /\ (Finished(p, u) <=> u = c)
  BY <1>1 DEF Finished
<1>4. Base(p)' = Base(p) + 1
  <2>1. Len(opened[p]) \in Nat
    BY AtParty
  <2> QED
    BY <1>1, <2>1 DEF Base, One
<1>5. \A u \in Threads : Behind(p, u)' = Behind(p, u) + One(u = c)
  <2> SUFFICES ASSUME NEW u \in Threads PROVE Behind(p, u)' = Behind(p, u) + One(u = c)
    OBVIOUS
  <2>1. checked[p][u] \in Nat
    BY AtThread
  <2> QED
    BY <1>1, <1>3, <2>1 DEF Behind, One
<1>6. InRounds'
  <2>1. \A q \in Parties : cpc'[q] = "broadcast" <=> cpc[q] = "broadcast"
    BY <1>1, <1>2 DEF Same
  <2> QED
    BY <1>1, <2>1 DEF InRounds, One
<1>7. Asked'
  BY <1>1, AskedKept DEF Asks
<1>8. Counted'
  BY <1>2, <1>5, CDoneCounts
<1>9. InStep'
  BY <1>2, <1>4, <1>5, CDoneInStep
<1>10. Settled'
  <2>1. \A q \in Parties \ {p}, u \in Threads : Finished(q, u)' = Finished(q, u)
    BY <1>2, OthersSame
  <2> QED
    BY <1>1, <1>3, <2>1 DEF Settled
<1>11. OneOrder' /\ FailsLast'
  <2>1. ASSUME NEW q \in Parties
        PROVE  /\ OpenedNow(q)' => OpenedNow(q) /\ cursor'[q] = cursor[q]
               /\ OpenedNow(q) /\ InFlight(q, cursor[q]) =>
                     OpenedNow(q)' /\ InFlight(q, cursor[q])'
    <3>1. CASE q = p
      BY <1>1, <3>1 DEF Finished
    <3>2. CASE q # p
      <4>1. OpenedNow(q)' = OpenedNow(q) /\ cursor'[q] = cursor[q]
        BY <1>2, <3>2, OthersSame DEF Same
      <4> QED
        BY <1>1, <4>1 DEF InFlight
    <3> QED
      BY <3>1, <3>2
  <2> QED
    BY <1>1, <2>1, OpeningsKept
<1> QED
  BY <1>6, <1>7, <1>8, <1>9, <1>10, <1>11

LEMMA CHearEffect ==
    ASSUME TypeInv, ReleaseInv, ScheduleState, NEW p \in Parties, CHear(p)
    PROVE  /\ cpc[p] = "broadcast" /\ cpc'[p] = "scan" /\ cursor'[p] = 1
           /\ heard'[p] = heard[p] + 1 /\ heard[p] \in Nat
           /\ \A q \in Parties : Len(told[q]) \in Nat /\ Len(told[q]) > heard[p]
           /\ \A u \in Threads : waiting'[p][u] =
                 waiting[p][u] + Cardinality({q \in Parties : told[q][heard[p] + 1] = u})
           /\ UNCHANGED <<pc, checked, opened, wrong, in, told, signals, running>>
           /\ ~OpenedNow(p) /\ ~OpenedNow(p)'
<1>1. /\ cpc[p] = "broadcast" /\ \A q \in Parties : Len(told[q]) > heard[p]
      /\ heard' = [heard EXCEPT ![p] = @ + 1] /\ cursor' = [cursor EXCEPT ![p] = 1]
      /\ cpc' = [cpc EXCEPT ![p] = "scan"]
      /\ waiting' = [waiting EXCEPT ![p] =
                       [t \in Threads |->
                          @[t] + Cardinality({q \in Parties : told[q][heard[p] + 1] = t})]]
      /\ UNCHANGED <<pc, checked, opened, wrong, in, told, signals, running>>
  BY DEF CHear, CGoto, threadVars
<1>2. /\ cpc \in [Parties -> {"pop", "broadcast", "scan", "release", "ended"}]
      /\ cursor \in [Parties -> 1..(NThreads + 1)] /\ heard \in [Parties -> Nat]
      /\ waiting \in [Parties -> [Threads -> Nat]]
  BY DEF TypeInv, TypeOK
<1>3. cpc'[p] = "scan" /\ cursor'[p] = 1 /\ heard'[p] = heard[p] + 1 /\ heard[p] \in Nat
  BY <1>1, <1>2
<1>4. \A u \in Threads : waiting'[p][u] =
         waiting[p][u] + Cardinality({q \in Parties : told[q][heard[p] + 1] = u})
  BY <1>1, <1>2
<1>5. \A q \in Parties : Len(told[q]) \in Nat
  BY AtParty
<1> QED
  BY <1>1, <1>3, <1>4, <1>5 DEF OpenedNow

\* Everybody's next message counts, because nobody has asked for a thread again before the
\* check was left behind.
LEMMA CHearCounts ==
    ASSUME TypeInv, ReleaseInv, ProgressInv, ScheduleState, NEW p \in Parties, CHear(p),
           \A q \in Parties \ {p} : Same(q), LeavesNone
    PROVE  Counted'
<1> USE DEF ScheduleState
<1> DEFINE h == heard[p]
<1>1. /\ cpc[p] = "broadcast" /\ cpc'[p] = "scan" /\ cursor'[p] = 1
      /\ heard'[p] = h + 1 /\ h \in Nat
      /\ \A q \in Parties : Len(told[q]) \in Nat /\ Len(told[q]) > h
      /\ \A u \in Threads : waiting'[p][u] =
            waiting[p][u] + Cardinality({q \in Parties : told[q][h + 1] = u})
      /\ UNCHANGED <<pc, checked, opened, wrong, in, told, signals, running>>
      /\ ~OpenedNow(p)
  BY CHearEffect
<1> HIDE DEF h
<1> SUFFICES ASSUME NEW x \in Parties, NEW u \in Threads
             PROVE  /\ \A q \in Parties :
                          Told(q, heard[x], u)' \in {Behind(x, u)', Behind(x, u)' + 1}
                    /\ waiting'[x][u] = Cardinality(Askers(x, u)')
                    /\ Passed(x, u)' => waiting'[x][u] # N
                    /\ cpc'[x] = "release" /\ cursor'[x] = u => waiting'[x][u] = N
  BY DEF Counted, N
<1>2. /\ \A q \in Parties : Told(q, heard[x], u) \in {Behind(x, u), Behind(x, u) + 1}
      /\ waiting[x][u] = Cardinality(Askers(x, u))
      /\ Passed(x, u) => waiting[x][u] # N
      /\ cpc[x] = "release" /\ cursor[x] = u => waiting[x][u] = N
      /\ Behind(x, u) \in Nat
  BY BehindNat DEF Counted
<1>3. Behind(x, u)' = Behind(x, u)
  BY DEF LeavesNone
<1>4. CASE x # p
  <2>1. /\ Passed(x, u)' = Passed(x, u) /\ heard'[x] = heard[x]
        /\ waiting'[x] = waiting[x] /\ cpc'[x] = cpc[x] /\ cursor'[x] = cursor[x]
    BY <1>4, OthersSame DEF Same
  <2>2. \A q \in Parties : Told(q, heard[x], u)' = Told(q, heard[x], u)
    BY <1>1, <2>1 DEF Told
  <2>3. Askers(x, u)' = Askers(x, u)
    BY <1>3, <2>2 DEF Askers
  <2> QED
    BY <1>2, <1>3, <2>1, <2>2, <2>3
<1>5. CASE x = p
  <2> DEFINE b == Behind(p, u)
             new == {q \in Parties : told[q][h + 1] = u}
  <2>1. b = checked[p][u] /\ b \in Nat /\ ~InFlight(p, u)
    <3>1. ~InFlight(p, u)
      <4>1. CASE running[p]
        BY <1>1, <4>1 DEF ReleaseInv, PartyInv, OneRelease, Calm
      <4>2. CASE ~running[p]
        BY <4>2 DEF ReleaseInv, PartyInv, AllDone, InFlight
      <4> QED
        BY <4>1, <4>2
    <3> QED
      BY <1>1, <1>2, <1>5, <3>1, AtThread DEF Behind, Finished, One
  <2>2. ASSUME NEW q \in Parties
        PROVE  /\ Told(q, h, u) \in {b, b + 1}
               /\ Told(q, h + 1, u) = Told(q, h, u) + One(told[q][h + 1] = u)
               /\ Told(q, h + 1, u) <= b + 1
    <3>1. Told(q, h, u) \in {b, b + 1}
      BY <1>2, <1>5 DEF h
    <3>2. Told(q, h + 1, u) = Told(q, h, u) + One(told[q][h + 1] = u)
      BY <1>1, ToldNext
    <3>3. /\ Told(q, h + 1, u) \in Nat
          /\ Told(q, h + 1, u)
               <= checked[q][u] + One(pc[q][u] \in {"waiting", "opening", "failed"})
      <4>1. h + 1 \in Nat /\ h + 1 <= Len(told[q])
        BY <1>1
      <4> QED
        BY <4>1, ToldLimit
    <3>4. checked[q][u] <= b /\ checked[q][u] \in Nat
      <4>1. checked[q][u] <= checked[p][u] + One(InFlight(p, u)) /\ checked[q][u] \in Nat
        BY NotBefore, AtThread
      <4> QED
        BY <2>1, <4>1 DEF One
    <3> HIDE DEF b
    <3>5. One(pc[q][u] \in {"waiting", "opening", "failed"}) \in {0, 1}
      BY DEF One
    <3>6. Told(q, h + 1, u) <= b + 1
      BY <2>1, <3>3, <3>4, <3>5
    <3> QED
      BY <3>1, <3>2, <3>6
  <2>3. \A q \in Parties : Told(q, heard[p], u)' = Told(q, h + 1, u)
    BY <1>1 DEF Told
  <2>4. Behind(p, u)' = b
    BY <1>3, <1>5
  <2>5. Askers(p, u) = {q \in Parties : Told(q, h, u) = b + 1}
    BY DEF Askers, h
  <2> HIDE DEF b
  <2>6. Askers(p, u)' = Askers(p, u) \union new
    <3>1. Askers(p, u)' = {q \in Parties : Told(q, h + 1, u) = b + 1}
      BY <2>3, <2>4 DEF Askers
    <3>2. \A q \in Parties : Told(q, h + 1, u) = b + 1
                               <=> (Told(q, h, u) = b + 1 \/ told[q][h + 1] = u)
      BY <2>1, <2>2 DEF One
    <3> QED
      BY <2>5, <3>1, <3>2
  <2>7. Askers(p, u) \cap new = {}
    <3>1. \A q \in Parties : ~(Told(q, h, u) = b + 1 /\ told[q][h + 1] = u)
      BY <2>1, <2>2 DEF One
    <3> QED
      BY <2>5, <3>1
  <2>8. IsFiniteSet(Askers(p, u)) /\ IsFiniteSet(new)
    BY CoordinatorAssumption, FS_Subset DEF Askers
  <2>9. Cardinality(Askers(p, u)') = Cardinality(Askers(p, u)) + Cardinality(new)
    <3>1. Cardinality(Askers(p, u) \union new) =
            Cardinality(Askers(p, u)) + Cardinality(new) - Cardinality(Askers(p, u) \cap new)
      BY <2>8, FS_Union
    <3>2. Cardinality(Askers(p, u) \cap new) = 0
      BY <2>7, FS_EmptySet
    <3>3. Cardinality(Askers(p, u)) \in Nat /\ Cardinality(new) \in Nat
      BY <2>8, FS_CardinalityType
    <3> HIDE DEF new
    <3> QED
      BY <2>6, <3>1, <3>2, <3>3
  <2>10. waiting'[p][u] = Cardinality(Askers(p, u)')
    BY <1>1, <1>2, <1>5, <2>9
  <2>11. \A q \in Parties : Told(q, heard[p], u)' \in {b, b + 1}
    BY <2>1, <2>2, <2>3 DEF One
  <2>12. ~Passed(p, u)' /\ cpc'[p] # "release"
    <3>1. u \in Nat /\ ~(u < 1)
      BY CoordinatorAssumption DEF Threads
    <3> QED
      BY <1>1, <3>1 DEF Passed
  <2> QED
    BY <1>5, <2>4, <2>10, <2>11, <2>12
<1> QED
  BY <1>4, <1>5

LEMMA CHearSchedule ==
    ASSUME TypeInv, ReleaseInv, ProgressInv, ScheduleState, NEW p \in Parties, CHear(p)
    PROVE  ScheduleState'
<1> USE DEF ScheduleState
<1>1. /\ cpc[p] = "broadcast" /\ cpc'[p] = "scan"
      /\ heard'[p] = heard[p] + 1 /\ heard[p] \in Nat
      /\ \A q \in Parties : Len(told[q]) \in Nat /\ Len(told[q]) > heard[p]
      /\ UNCHANGED <<pc, checked, opened, wrong, in, told, signals, running>>
      /\ ~OpenedNow(p) /\ ~OpenedNow(p)'
  BY CHearEffect
<1>2. StepOf(p) /\ \A q \in Parties \ {p} : Same(q)
  BY OthersAlone DEF StepOf, Coordinate
<1>3. LeavesNone /\ Settled' /\ InStep' /\ OneOrder' /\ FailsLast'
  <2>1. ASSUME NEW y \in Parties, Ahead(p, y) PROVE FALSE
    <3>1. heard[p] = heard[y] /\ cpc[y] = "release"
      BY <2>1 DEF Ahead, OpenedNow
    <3>2. Len(told[y]) = heard[y] /\ heard[y] \in Nat
      BY <3>1, AtParty DEF InRounds, One
    <3> QED
      BY <1>1, <3>1, <3>2
  <2> QED
    BY <1>1, <1>2, <2>1, BetweenReleases
<1>4. InRounds'
  <2> SUFFICES ASSUME NEW q \in Parties, NEW r \in Parties
               PROVE  /\ Len(told[q]) = heard'[q] + One(cpc'[q] = "broadcast")
                      /\ heard'[q] <= Len(told[r])
    BY <1>1 DEF InRounds, One
  <2>1. CASE q = p
    <3>1. Len(told[p]) = heard[p] + 1
      BY <1>1 DEF InRounds, One
    <3>2. heard'[p] <= Len(told[r])
      BY <1>1
    <3> QED
      BY <1>1, <2>1, <3>1, <3>2 DEF One
  <2>2. CASE q # p
    BY <1>2, <2>2 DEF InRounds, Same
  <2> QED
    BY <2>1, <2>2
<1>5. Asked'
  BY <1>1, AskedKept DEF Asks
<1>6. Counted'
  BY <1>2, <1>3, CHearCounts
<1> QED
  BY <1>3, <1>4, <1>5, <1>6

-----------------------------------------------------------------------------
(* All steps.                                                              *)

LEMMA StutterSchedule ==
    ASSUME TypeInv, ScheduleState, UNCHANGED vars
    PROVE  ScheduleState'
<1>1. /\ UNCHANGED <<pc, checked, opened, wrong, in, told, heard, waiting, cpc, cursor, signals>>
      /\ running' = running
  BY DEF vars, threadVars, coordVars
<1>2. \A p \in Parties, t \in Threads : InFlight(p, t)' <=> InFlight(p, t)
  BY <1>1 DEF InFlight
<1>3. LeavesNone
  BY <1>1, <1>2, NothingMoves
<1>4. Asked'
  BY <1>1, AskedKept DEF Asks, ScheduleState
<1> QED
  BY <1>1, <1>2, <1>3, <1>4, Unseen

LEMMA ScheduleInit == Init => ScheduleState
<1> SUFFICES ASSUME Init PROVE ScheduleState
  OBVIOUS
<1>1. \A p \in Parties :
         /\ opened[p] = <<>> /\ told[p] = <<>> /\ in[p] = <<>> /\ heard[p] = 0
         /\ cpc[p] = "pop" /\ running[p] /\ ~OpenedNow(p)
         /\ \A t \in Threads : /\ pc[p][t] = "idle" /\ checked[p][t] = 0
                               /\ waiting[p][t] = 0 /\ ~Finished(p, t)
  BY DEF Init, OpenedNow, Finished
<1>2. N # 0
  BY CoordinatorAssumption, FS_EmptySet DEF N
<1>3. Cardinality({}) = 0
  BY FS_EmptySet
<1>4. \A p \in Parties, t \in Threads : Behind(p, t) = 0
  BY <1>1 DEF Behind, One
<1>5. \A p \in Parties : Base(p) = 0 /\ Len(opened[p]) = 0
  BY <1>1 DEF Base, One
<1>6. InRounds
  BY <1>1 DEF InRounds, One
<1>7. Asked
  <2> SUFFICES ASSUME NEW p \in Parties, NEW t \in Threads
               PROVE  Cardinality({i \in 1..Len(Asks(p)) : Asks(p)[i] = t}) = 0
    BY <1>1 DEF Asked, One
  <2>1. Asks(p) = <<>> /\ Len(Asks(p)) = 0
    <3>1. Asks(p) = <<>> \o <<>>
      BY <1>1 DEF Asks
    <3>2. <<>> \in Seq(Threads)
      OBVIOUS
    <3>3. <<>> \o <<>> = <<>>
      BY <3>2, ConcatEmptySeq
    <3> QED
      BY <3>1, <3>3
  <2>2. {i \in 1..Len(Asks(p)) : Asks(p)[i] = t} = {}
    BY <2>1
  <2> QED
    BY <1>3, <2>2
<1>8. Counted
  <2> SUFFICES ASSUME NEW p \in Parties, NEW t \in Threads
               PROVE  /\ \A q \in Parties : Told(q, heard[p], t) = 0
                      /\ Cardinality(Askers(p, t)) = 0
    BY <1>1, <1>2, <1>4 DEF Counted
  <2>1. \A q \in Parties : Told(q, heard[p], t) = 0
    <3> SUFFICES ASSUME NEW q \in Parties PROVE Told(q, heard[p], t) = 0
      OBVIOUS
    <3>1. {i \in 1..heard[p] : told[q][i] = t} = {}
      BY <1>1
    <3> QED
      BY <1>3, <3>1 DEF Told
  <2>2. Askers(p, t) = {}
    BY <1>4, <2>1 DEF Askers
  <2> QED
    BY <1>3, <2>1, <2>2
<1>9. Settled
  BY <1>1 DEF Settled
<1>10. InStep
  BY <1>4, <1>5 DEF InStep, Even
<1>11. OneOrder /\ FailsLast
  BY <1>1, <1>5 DEF OneOrder, FailsLast
<1> QED
  BY <1>6, <1>7, <1>8, <1>9, <1>10, <1>11 DEF ScheduleState

LEMMA LockstepStep == ASSUME Lockstep, [Next]_vars PROVE Lockstep'
<1> USE DEF Lockstep
<1>1. TypeInv' /\ ReleaseInv' /\ ProgressInv'
  BY TypeStep, ReleaseStep, ProgressStep
<1>2. ASSUME NEW p \in Parties, NEW t \in Threads, Check(p, t) PROVE ScheduleState'
  BY <1>2, BeginSchedule, WaitSchedule, OpenSchedule, VerifySchedule DEF Check
<1>3. ASSUME NEW p \in Parties, Coordinate(p) PROVE ScheduleState'
  BY <1>3, CPopSchedule, CHearSchedule, CScanSchedule, CDoneSchedule DEF Coordinate
<1>4. ASSUME NEW p \in Parties, Destroy(p) PROVE ScheduleState'
  BY <1>4, DestroySchedule
<1>5. ASSUME UNCHANGED vars PROVE ScheduleState'
  BY <1>5, StutterSchedule
<1> QED
  BY <1>1, <1>2, <1>3, <1>4, <1>5 DEF Next

LEMMA LockstepInit == Init => Lockstep
<1>1. Init => ReleaseInv
  BY DEF Init, ReleaseInv, PartyInv, OneRelease, Calm, InFlight
<1> QED
  BY <1>1, TypeInit, ProgressInit, ScheduleInit DEF Lockstep

LEMMA LockstepInvariance == Spec => []Lockstep
  BY LockstepInit, LockstepStep, PTL DEF Spec

-----------------------------------------------------------------------------
(* What follows from it.                                                   *)

\* The parties' openings differ by one at most.
LEMMA OneApart ==
    ASSUME Lockstep, NEW p \in Parties, NEW q \in Parties
    PROVE  Len(opened[p]) \in Nat /\ Len(opened[q]) \in Nat /\ Len(opened[q]) <= Len(opened[p]) + 1
<1>1. /\ Base(p) \in Nat /\ Len(opened[p]) = Base(p) + One(OpenedNow(p))
      /\ Base(q) \in Nat /\ Len(opened[q]) = Base(q) + One(OpenedNow(q))
  BY BaseNat DEF Lockstep, ScheduleState
<1>2. Even(p, q) \/ Ahead(p, q) \/ Ahead(q, p)
  BY DEF Lockstep, ScheduleState, InStep
<1>3. Base(p) = Base(q) \/ Base(p) = Base(q) + 1 \/ (Base(q) = Base(p) + 1 /\ OpenedNow(p))
  BY <1>2 DEF Even, Ahead
<1> QED
  BY <1>1, <1>3 DEF One

\* A check that fails is opened by all parties as their last, whoever is ahead.
LEMMA FailureIsLast ==
    ASSUME Lockstep, NEW p \in Parties, NEW i \in 1..Len(opened[p]), IsWrong(p, i),
           NEW q \in Parties
    PROVE  Len(opened[q]) <= i
<1> USE DEF Lockstep, ScheduleState
<1>1. i = Len(opened[p]) /\ i \in Nat
  BY OneApart DEF FailsLast
<1>2. CASE Len(opened[q]) < i
  BY <1>1, <1>2, OneApart
<1>3. CASE Len(opened[q]) >= i
  <2>1. \A j \in 1..i : opened[q][j] = opened[p][j]
    BY <1>1, <1>3, OneApart DEF OneOrder
  <2>2. i \in 1..i /\ i \in 1..Len(opened[q])
    BY <1>1, <1>3, OneApart
  <2>3. {j \in 1..i : opened[q][j] = opened[q][i]} = {j \in 1..i : opened[p][j] = opened[p][i]}
    BY <2>1, <2>2
  <2>4. IsWrong(q, i)
    BY <2>1, <2>2, <2>3 DEF IsWrong
  <2> QED
    BY <1>1, <2>2, <2>4 DEF FailsLast
<1> QED
  BY <1>1, <1>2, <1>3, OneApart

\* After a check that fails no party opens another (NothingAfterFailure): the finished()
\* of Coordinator.cpp that the exception skips stops the coordinators of all parties.
THEOREM FailureStopsAll == Spec => []NothingAfterFailure
<1>1. Lockstep => NothingAfterFailure
  BY FailureIsLast DEF NothingAfterFailure
<1> QED
  BY <1>1, LockstepInvariance, PTL

\* Some party has opened at least as much as any other.
LEMMA ForemostIs ==
    ASSUME Lockstep
    PROVE  Foremost \in Parties /\ \A q \in Parties : Len(opened[Foremost]) >= Len(opened[q])
<1>1. PICK p \in Parties : TRUE
  BY CoordinatorAssumption
<1>2. \E x \in Parties : \A q \in Parties : Len(opened[x]) >= Len(opened[q])
  <2>1. CASE \A q \in Parties : Len(opened[p]) >= Len(opened[q])
    BY <2>1
  <2>2. CASE \E x \in Parties : ~(Len(opened[p]) >= Len(opened[x]))
    <3>1. PICK x \in Parties : ~(Len(opened[p]) >= Len(opened[x]))
      BY <2>2
    <3>2. Len(opened[x]) = Len(opened[p]) + 1
      BY <3>1, OneApart
    <3>3. \A q \in Parties : Len(opened[x]) >= Len(opened[q])
      BY <3>2, OneApart
    <3> QED
      BY <3>3
  <2> QED
    BY <2>1, <2>2
<1> QED
  BY <1>2 DEF Foremost

\* The order of the schedule is that of any party with as many openings.
OrderOfAny ==
    \A p \in Parties : (\A q \in Parties : Len(opened[p]) >= Len(opened[q]))
                          => opened[Foremost] = opened[p]
LEMMA OrderIs == Lockstep => OrderOfAny
<1> SUFFICES ASSUME Lockstep, NEW p \in Parties,
                    \A q \in Parties : Len(opened[p]) >= Len(opened[q])
             PROVE  opened[Foremost] = opened[p]
  BY DEF OrderOfAny
<1>1. /\ Foremost \in Parties /\ Len(opened[Foremost]) >= Len(opened[p])
      /\ Len(opened[p]) >= Len(opened[Foremost])
  BY ForemostIs
<1>2. Len(opened[Foremost]) = Len(opened[p])
  BY <1>1, OneApart
<1>3. \A i \in 1..Len(opened[p]) : opened[Foremost][i] = opened[p][i]
  BY <1>1, <1>2, OneApart DEF Lockstep, ScheduleState, OneOrder
<1>4. opened[Foremost] \in Seq(Threads) /\ opened[p] \in Seq(Threads)
  BY <1>1, AtParty DEF Lockstep
<1> QED
  BY <1>2, <1>3, <1>4, SeqEqual

LEMMA OpenIsScheduled ==
    ASSUME Lockstep, Lockstep', NEW p \in Parties, NEW t \in Threads, Open(p, t)
    PROVE  Schedule!Open(p, t)
<1> DEFINE F == opened[Foremost]  n == Len(opened[p])
<1> USE DEF Lockstep
<1>1. /\ cpc[p] = "release" /\ ~OpenedNow(p)
      /\ opened[p] \in Seq(Threads) /\ n \in Nat
      /\ opened'[p] = Append(opened[p], t)
      /\ \A q \in Parties \ {p} : opened'[q] = opened[q]
  <2>1. opened' = [opened EXCEPT ![p] = Append(@, t)] /\ DOMAIN opened = Parties
    BY DEF Open, TypeInv, TypeOK
  <2> QED
    BY <2>1, OpenEffect, AtParty DEF OpenedNow
<1>2. \A q \in Parties : Len(opened[q]) \in Nat /\ Len(opened[q]) >= n /\ Len(opened[q]) <= n + 1
  BY <1>1, OpenAgrees, OneApart
<1>3. Len(opened'[p]) = n + 1 /\ opened'[p][n + 1] = t
      /\ \A i \in 1..n : opened'[p][i] = opened[p][i]
  BY <1>1, AppendProperties
<1>4. F' = opened'[p]
  <2>1. \A q \in Parties : Len(opened'[p]) >= Len(opened'[q])
    BY <1>1, <1>2, <1>3
  <2>2. (Lockstep => OrderOfAny)'
    BY OrderIs, PTL
  <2> QED
    BY <2>1, <2>2 DEF OrderOfAny
<1>5. IF n = Len(F) THEN F' = Append(F, t) ELSE t = F[n + 1] /\ F' = F
  <2>1. Foremost \in Parties /\ \A q \in Parties : Len(F) >= Len(opened[q])
    BY ForemostIs
  <2>2. CASE n = Len(F)
    <3>1. F = opened[p]
      BY <1>2, <2>1, <2>2, OrderIs DEF OrderOfAny
    <3> QED
      BY <1>1, <1>4, <2>2, <3>1
  <2>3. CASE n # Len(F)
    <3>1. Len(F) = n + 1
      BY <1>2, <2>1, <2>3
    <3>2. Foremost # p /\ F \in Seq(Threads)
      BY <2>1, <2>3, AtParty
    <3>3. opened'[Foremost] = F
      BY <1>1, <2>1, <3>2
    <3>4. \A i \in 1..(n + 1) : opened'[p][i] = F[i]
      BY <1>3, <2>1, <3>1, <3>3 DEF ScheduleState, OneOrder
    <3>5. n + 1 \in 1..(n + 1)
      BY <1>1
    <3>6. opened'[p] \in Seq(Threads)
      BY <1>1, AppendProperties
    <3>7. opened'[p] = F
      BY <1>3, <3>1, <3>2, <3>4, <3>6, SeqEqual
    <3> QED
      BY <1>3, <1>4, <2>3, <3>4, <3>5, <3>7
  <2> QED
    BY <2>2, <2>3
<1>6. [q \in Parties |-> Len(opened[q])]' = [[q \in Parties |-> Len(opened[q])] EXCEPT ![p] = @ + 1]
  BY <1>1, <1>3
<1> QED
  BY <1>1, <1>2, <1>5, <1>6 DEF Schedule!Open

LEMMA ScheduleStep ==
    ASSUME Lockstep, Lockstep', [Next]_vars
    PROVE  [Schedule!Next]_(Schedule!vars)
<1>1. ASSUME NEW p \in Parties, NEW t \in Threads, Open(p, t) PROVE Schedule!Next
  BY <1>1, OpenIsScheduled DEF Schedule!Next
<1>2. CASE UNCHANGED opened
  BY <1>2 DEF Schedule!vars, Foremost
<1>3. ASSUME NEW p \in Parties, NEW t \in Threads, Check(p, t), ~Open(p, t) PROVE UNCHANGED opened
  BY <1>3 DEF Check, Begin, Seed, Commit, Wait, Verify
<1>4. ASSUME NEW p \in Parties, Coordinate(p) \/ Destroy(p) PROVE UNCHANGED opened
  BY <1>4 DEF Coordinate, CPop, CHear, CScan, CDone, Destroy, threadVars
<1> QED
  BY <1>1, <1>2, <1>3, <1>4 DEF Next, vars, threadVars

\* All parties open the results of their threads' checks in one order and in step
\* (ImplementsSchedule), which is what Coordinator.cpp is there for.
THEOREM ScheduleImplemented == Spec => ImplementsSchedule
<1>1. Init => Schedule!Init
  <2> SUFFICES ASSUME Init PROVE Schedule!Init
    OBVIOUS
  <2>1. Foremost \in Parties
    BY LockstepInit, ForemostIs
  <2>2. \A p \in Parties : opened[p] = <<>> /\ Len(opened[p]) = 0
    BY DEF Init
  <2> QED
    BY <2>1, <2>2 DEF Schedule!Init
<1>2. Lockstep /\ Lockstep' /\ [Next]_vars => [Schedule!Next]_(Schedule!vars)
  BY ScheduleStep
<1> QED
  BY <1>1, <1>2, LockstepInvariance, PTL DEF Spec, ImplementsSchedule, Schedule!Spec
=============================================================================
