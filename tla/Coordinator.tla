----------------------------- MODULE Coordinator -----------------------------
(***************************************************************************)
(* The coordination of MAC checks among the threads of all parties         *)
(* (Tools/Coordinator.cpp, Commit_And_Open_ in Tools/Subroutines.cpp and   *)
(* MAC_Check_::Check in Protocols/MAC_Check.hpp).                          *)
(*                                                                         *)
(* At every party each virtual machine thread runs checks: it commits to   *)
(* its share of the check value, waits for the party's coordinator, opens, *)
(* and tells the coordinator that it has finished.  A coordinator thread   *)
(* takes one waiting thread at a time, tells it to the other coordinators  *)
(* and, once all parties have asked for a thread, lets it go.  Threads of  *)
(* the same number, and the coordinators, have connections of their own,   *)
(* so the order among them is open; on one connection it is kept.          *)
(***************************************************************************)
EXTENDS Naturals, Sequences, FiniteSets

CONSTANTS Parties,     \* the parties
          NThreads,    \* threads 1..NThreads, in the order of their identifiers
          NChecks,     \* bound: checks one thread runs
          Large,       \* the checks over ten or more values, as <<thread, check>>
          MayFail      \* the checks whose shares may not add up to zero

Threads == 1..NThreads
Checks == Threads \X (1..NChecks)
N == Cardinality(Parties)

ASSUME CoordinatorAssumption ==
    /\ IsFiniteSet(Parties) /\ Parties # {}
    /\ NThreads \in Nat /\ NChecks \in Nat
    /\ Large \subseteq Checks /\ MayFail \subseteq Checks

VARIABLES
    \* the threads that check
    pc,        \* where each thread is in Check
    checked,   \* the checks it has completed
    rounds,    \* the broadcasts it has begun on its connection
    committed, \* ghost: the commitments it has sent
    opened,    \* ghost: the openings each party has sent, in order
    wrong,     \* the checks whose shares do not add up to zero
    \* the coordinators
    in,        \* the identifiers waiting for the coordinator
    cpc,       \* where the coordinator thread is in run
    told,      \* the identifiers it has broadcast
    heard,     \* the broadcasts it has completed
    waiting,   \* how many parties have asked for each thread
    cursor,    \* where the iteration over `waiting' is
    signals,   \* the releases not taken yet, per thread
    done,      \* the calls of finished() not taken yet
    running    \* FALSE once the destructor has stopped `in'

threadVars == <<pc, checked, rounds, committed, opened, wrong>>
coordVars == <<in, cpc, told, heard, waiting, cursor, signals, done, running>>
vars == <<threadVars, coordVars>>

TypeOK ==
    /\ pc \in [Parties -> [Threads ->
                {"idle", "seeding", "revealing", "committing", "waiting", "opening", "failed"}]]
    /\ checked \in [Parties -> [Threads -> 0..NChecks]]
    /\ rounds \in [Parties -> [Threads -> Nat]]
    /\ committed \in [Parties -> [Threads -> Nat]]
    /\ opened \in [Parties -> Seq(Threads)]
    /\ wrong \subseteq Checks
    /\ in \in [Parties -> Seq(Threads)]
    /\ cpc \in [Parties -> {"pop", "broadcast", "scan", "release", "ended"}]
    /\ told \in [Parties -> Seq(Threads)]
    /\ heard \in [Parties -> Nat]
    /\ waiting \in [Parties -> [Threads -> Nat]]
    /\ cursor \in [Parties -> 1..(NThreads + 1)]
    /\ signals \in [Parties -> [Threads -> Nat]]
    /\ done \in [Parties -> Nat]
    /\ running \in [Parties -> BOOLEAN]

Init ==
    /\ pc = [p \in Parties |-> [t \in Threads |-> "idle"]]
    /\ checked = [p \in Parties |-> [t \in Threads |-> 0]]
    /\ rounds = [p \in Parties |-> [t \in Threads |-> 0]]
    /\ committed = [p \in Parties |-> [t \in Threads |-> 0]]
    /\ opened = [p \in Parties |-> <<>>]
    /\ wrong \in SUBSET MayFail
    /\ in = [p \in Parties |-> <<>>]
    /\ cpc = [p \in Parties |-> "pop"]
    /\ told = [p \in Parties |-> <<>>]
    /\ heard = [p \in Parties |-> 0]
    /\ waiting = [p \in Parties |-> [t \in Threads |-> 0]]
    /\ cursor = [p \in Parties |-> 1]
    /\ signals = [p \in Parties |-> [t \in Threads |-> 0]]
    /\ done = [p \in Parties |-> 0]
    /\ running = [p \in Parties |-> TRUE]
-----------------------------------------------------------------------------
(* The threads.                                                            *)

Goto(p, t, where) == pc' = [pc EXCEPT ![p][t] = where]

\* A broadcast begins with sending to everybody and ends when the messages of
\* all other parties for this round have arrived.
BeginBroadcast(p, t) == rounds' = [rounds EXCEPT ![p][t] = @ + 1]
BroadcastArrived(p, t) == \A q \in Parties : rounds[q][t] >= rounds[p][t]

\* MAC_Check_::Check up to its first broadcast: the commitment, or with ten values
\* or more the commitment to a share of a random seed (Create_Random_Seed).
Begin(p, t) ==
    /\ pc[p][t] = "idle" /\ checked[p][t] < NChecks
    /\ BeginBroadcast(p, t)
    /\ IF <<t, checked[p][t] + 1>> \in Large
       THEN Goto(p, t, "seeding") /\ UNCHANGED committed
       ELSE Goto(p, t, "committing") /\ committed' = [committed EXCEPT ![p][t] = @ + 1]
    /\ UNCHANGED <<checked, opened, wrong, coordVars>>

\* The second broadcast of Create_Random_Seed, which opens the shares of the seed.
Seed(p, t) ==
    /\ pc[p][t] = "seeding" /\ BroadcastArrived(p, t)
    /\ BeginBroadcast(p, t)
    /\ Goto(p, t, "revealing")
    /\ UNCHANGED <<committed, checked, opened, wrong, coordVars>>

\* Mutant of Commit: a large check goes on without having committed.
CommitOnly(p, t) ==
    /\ pc[p][t] = "revealing" /\ BroadcastArrived(p, t)
    /\ Goto(p, t, "committing")
    /\ UNCHANGED <<rounds, committed, checked, opened, wrong, coordVars>>

\* With the seed the values are combined, and Commit_And_Open_ commits to the result.
Commit(p, t) ==
    /\ pc[p][t] = "revealing" /\ BroadcastArrived(p, t)
    /\ BeginBroadcast(p, t)
    /\ Goto(p, t, "committing")
    /\ committed' = [committed EXCEPT ![p][t] = @ + 1]
    /\ UNCHANGED <<checked, opened, wrong, coordVars>>

\* Commit_And_Open_ up to Coordinator::wait, which looks up the signal and asks.
Wait(p, t) ==
    /\ pc[p][t] = "committing" /\ BroadcastArrived(p, t)
    /\ Goto(p, t, "waiting")
    /\ in' = [in EXCEPT ![p] = Append(@, t)]
    /\ UNCHANGED <<checked, rounds, committed, opened, wrong, cpc, told, heard, waiting,
                   cursor, signals, done, running>>

\* The end of Coordinator::wait and the broadcast of the openings.
Open(p, t) ==
    /\ pc[p][t] = "waiting" /\ signals[p][t] > 0
    /\ signals' = [signals EXCEPT ![p][t] = @ - 1]
    /\ BeginBroadcast(p, t)
    /\ opened' = [opened EXCEPT ![p] = Append(@, t)]
    /\ Goto(p, t, "opening")
    /\ UNCHANGED <<checked, committed, wrong, in, cpc, told, heard, waiting, cursor, done, running>>

\* Mutants of Verify: finished() forgotten; finished() before the sum is looked at.
VerifyOnly(p, t) ==
    /\ pc[p][t] = "opening" /\ BroadcastArrived(p, t)
    /\ IF <<t, checked[p][t] + 1>> \in wrong
       THEN Goto(p, t, "failed") /\ UNCHANGED checked
       ELSE Goto(p, t, "idle") /\ checked' = [checked EXCEPT ![p][t] = @ + 1]
    /\ UNCHANGED <<rounds, committed, opened, wrong, coordVars>>

FinishAndVerify(p, t) ==
    /\ pc[p][t] = "opening" /\ BroadcastArrived(p, t)
    /\ done' = [done EXCEPT ![p] = @ + 1]
    /\ IF <<t, checked[p][t] + 1>> \in wrong
       THEN Goto(p, t, "failed") /\ UNCHANGED checked
       ELSE Goto(p, t, "idle") /\ checked' = [checked EXCEPT ![p][t] = @ + 1]
    /\ UNCHANGED <<rounds, committed, opened, wrong, in, cpc, told, heard, waiting, cursor,
                   signals, running>>

\* The rest of Check: a sum other than zero throws before finished() is called.
Verify(p, t) ==
    /\ pc[p][t] = "opening" /\ BroadcastArrived(p, t)
    /\ IF <<t, checked[p][t] + 1>> \in wrong
       THEN Goto(p, t, "failed") /\ UNCHANGED <<checked, done>>
       ELSE /\ Goto(p, t, "idle")
            /\ checked' = [checked EXCEPT ![p][t] = @ + 1]
            /\ done' = [done EXCEPT ![p] = @ + 1]
    /\ UNCHANGED <<rounds, committed, opened, wrong, in, cpc, told, heard, waiting, cursor,
                   signals, running>>
-----------------------------------------------------------------------------
(* The coordinator thread.                                                 *)

CGoto(p, where) == cpc' = [cpc EXCEPT ![p] = where]

\* in.pop(id): false ends the loop; an identifier is broadcast.
CPop(p) ==
    /\ cpc[p] = "pop"
    /\ \/ /\ running[p] /\ in[p] # <<>>
          /\ in' = [in EXCEPT ![p] = Tail(@)]
          /\ told' = [told EXCEPT ![p] = Append(@, Head(in[p]))]
          /\ CGoto(p, "broadcast")
       \/ ~running[p] /\ CGoto(p, "ended") /\ UNCHANGED <<in, told>>
    /\ UNCHANGED <<threadVars, heard, waiting, cursor, signals, done, running>>

\* The identifiers of this round have come from all parties and are counted.
CHear(p) ==
    /\ cpc[p] = "broadcast"
    /\ \A q \in Parties : Len(told[q]) > heard[p]
    /\ heard' = [heard EXCEPT ![p] = @ + 1]
    /\ waiting' = [waiting EXCEPT ![p] =
                     [t \in Threads |->
                        @[t] + Cardinality({q \in Parties : told[q][heard[p] + 1] = t})]]
    /\ cursor' = [cursor EXCEPT ![p] = 1]
    /\ CGoto(p, "scan")
    /\ UNCHANGED <<threadVars, in, told, signals, done, running>>

\* Mutant of CScan: the complete threads in any order, as in an unordered map.
CScanUnordered(p) ==
    /\ cpc[p] = "scan"
    /\ \/ \E t \in Threads :
             /\ waiting[p][t] = N
             /\ signals' = [signals EXCEPT ![p][t] = @ + 1]
             /\ cursor' = [cursor EXCEPT ![p] = t]
             /\ CGoto(p, "release")
       \/ /\ \A t \in Threads : waiting[p][t] # N
          /\ CGoto(p, "pop") /\ UNCHANGED <<cursor, signals>>
    /\ UNCHANGED <<threadVars, in, told, heard, waiting, done, running>>

\* The loop over `waiting': a thread all parties have asked for is released.
CScan(p) ==
    /\ cpc[p] = "scan"
    /\ IF cursor[p] > NThreads
       THEN CGoto(p, "pop") /\ UNCHANGED <<cursor, signals>>
       ELSE IF waiting[p][cursor[p]] = N
            THEN /\ signals' = [signals EXCEPT ![p][cursor[p]] = @ + 1]
                 /\ CGoto(p, "release")
                 /\ UNCHANGED cursor
            ELSE cursor' = [cursor EXCEPT ![p] = @ + 1] /\ UNCHANGED <<cpc, signals>>
    /\ UNCHANGED <<threadVars, in, told, heard, waiting, done, running>>

\* Mutants of CDone: done.pop() left out; it does not block on an empty queue.
CDoneAtOnce(p) ==
    /\ cpc[p] = "release"
    /\ waiting' = [waiting EXCEPT ![p][cursor[p]] = 0]
    /\ cursor' = [cursor EXCEPT ![p] = @ + 1]
    /\ CGoto(p, "scan")
    /\ UNCHANGED <<threadVars, in, told, heard, signals, done, running>>

CDoneUnblocked(p) ==
    /\ cpc[p] = "release"
    /\ done' = [done EXCEPT ![p] = @ - 1]
    /\ waiting' = [waiting EXCEPT ![p][cursor[p]] = 0]
    /\ cursor' = [cursor EXCEPT ![p] = @ + 1]
    /\ CGoto(p, "scan")
    /\ UNCHANGED <<threadVars, in, told, heard, signals, running>>

\* done.pop(), then the count starts anew.
CDone(p) ==
    /\ cpc[p] = "release" /\ done[p] > 0
    /\ done' = [done EXCEPT ![p] = @ - 1]
    /\ waiting' = [waiting EXCEPT ![p][cursor[p]] = 0]
    /\ cursor' = [cursor EXCEPT ![p] = @ + 1]
    /\ CGoto(p, "scan")
    /\ UNCHANGED <<threadVars, in, told, heard, signals, running>>

\* The destructor, called when the party's threads have ended.
Destroy(p) ==
    /\ running[p]
    /\ \A t \in Threads : pc[p][t] = "idle" /\ checked[p][t] = NChecks
    /\ running' = [running EXCEPT ![p] = FALSE]
    /\ done' = [done EXCEPT ![p] = @ + 1]
    /\ UNCHANGED <<threadVars, in, cpc, told, heard, waiting, cursor, signals>>

Check(p, t) ==
    Begin(p, t) \/ Seed(p, t) \/ Commit(p, t) \/ Wait(p, t) \/ Open(p, t) \/ Verify(p, t)
Coordinate(p) == CPop(p) \/ CHear(p) \/ CScan(p) \/ CDone(p)

\* Nothing is left to do: all coordinators have ended, or a check has failed and
\* the exception is about to end the program.
Over ==
    \/ \A p \in Parties : cpc[p] = "ended"
    \/ \E p \in Parties, t \in Threads : pc[p][t] = "failed"

Next ==
    \/ \E p \in Parties, t \in Threads : Check(p, t)
    \/ \E p \in Parties : Coordinate(p) \/ Destroy(p)
    \/ Over /\ UNCHANGED vars

\* While there are threads that can run, one of them does; messages sent arrive.  This
\* is weak fairness of all steps together, as only they change anything, in a form that
\* TLC checks faster than WF_vars.
Fairness == <>[]ENABLED (\/ \E p \in Parties, t \in Threads : Check(p, t)
                         \/ \E p \in Parties : Coordinate(p) \/ Destroy(p))
            => []<><<TRUE>>_vars

Spec == Init /\ [][Next]_vars /\ Fairness
-----------------------------------------------------------------------------
\* At one party at most one check is released and not finished.
Released(p, t) ==
    \/ pc[p][t] = "waiting" /\ signals[p][t] > 0
    \/ pc[p][t] \in {"opening", "failed"}
OneAtATime ==
    \A p \in Parties, t, u \in Threads : Released(p, t) /\ Released(p, u) => t = u

\* Nobody reveals its share of a check before all parties have sent their commitments
\* to it: opened counts one opening for each commitment, thread by thread.
Openings(p, t) == Cardinality({i \in 1..Len(opened[p]) : opened[p][i] = t})
CommittedBeforeOpened ==
    \A p, q \in Parties, t \in Threads : Openings(p, t) <= committed[q][t]

\* After a check that fails no party opens any other: the opening of the wrong
\* check is the last one, because Verify throws before finished() is called.
IsWrong(p, i) ==
    LET t == opened[p][i]
    IN <<t, Cardinality({j \in 1..i : opened[p][j] = t})>> \in wrong
NothingAfterFailure ==
    \A p \in Parties : \A i \in 1..Len(opened[p]) :
        IsWrong(p, i) => \A q \in Parties : Len(opened[q]) <= i

\* If all checks are right then all of them complete, and the coordinators end.
AllComplete ==
    wrong = {} => <>(\A p \in Parties : cpc[p] = "ended"
                                        /\ \A t \in Threads : checked[p][t] = NChecks)

\* All parties open in the same order, in step: CheckSchedule, for the openings sent.
Foremost == CHOOSE p \in Parties : \A q \in Parties : Len(opened[p]) >= Len(opened[q])
Schedule == INSTANCE CheckSchedule
              WITH order <- opened[Foremost], opened <- [p \in Parties |-> Len(opened[p])]
ImplementsSchedule == Schedule!Spec
=============================================================================
