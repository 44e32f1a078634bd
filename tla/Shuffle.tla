------------------------------- MODULE Shuffle -------------------------------
(***************************************************************************)
(* The multithreaded secure shuffle of three parties                       *)
(* (Rep3Shuffler<T>::shuffle_job in Protocols/Rep3Shuffler.hpp, with the   *)
(* barrier of ThreadQueues::sync).                                         *)
(*                                                                         *)
(* A shuffle is three permutations, each known to two of the parties.  In  *)
(* each pass these two permute what they hold and share it anew with       *)
(* everybody.  At every party several threads work on slices of the same   *)
(* vectors, to_share being one for all shuffles, and only the barriers     *)
(* keep them apart.  The threads of the same number of the three parties   *)
(* talk to each other.  A share is abstracted to the item it is a share    *)
(* of, a share of what only the party itself has put in to Part of that    *)
(* item, and the units of an item to one.  The random values that two      *)
(* parties draw from one generator, in the same order, are left out.       *)
(***************************************************************************)
EXTENDS Slicing, FiniteSets, Sequences, Functions

CONSTANTS NItems,      \* items to shuffle
          Available,   \* threads available besides the caller
          NShuffles,   \* shuffles done at once
          Reverse,     \* which of them are reversed
          Perm,        \* the three permutations of each
          Unset        \* what a vector holds before it is written

Items == 0..(NItems - 1)
Shuffles == 1..NShuffles
Parties == 0..2
Passes == 0..2

\* The threads that run shuffle_job: those with a slice, and the caller, thread 0,
\* if something is left for it (Rep3Shuffler::apply_multiple).
NWorkers == Used(NItems, 0, Available, 1)
Threads == (1..NWorkers) \union (IF Start(NItems, 0, Available, 1) # NItems THEN {0} ELSE {})
Slices == [t \in Threads |->
              IF t = 0 THEN Start(NItems, 0, Available, 1)..(NItems - 1)
              ELSE Begin(t, NItems, 0, Available, 1)..(End(t, NItems, 0, Available, 1) - 1)]
Slice(t) == Slices[t]

ASSUME ShuffleAssumption ==
    /\ NItems \in Nat \ {0} /\ Available \in Nat \ {0} /\ NShuffles \in Nat \ {0}
    /\ Reverse \subseteq Shuffles
    /\ \A s \in Shuffles, i \in Passes : Perm[s][i] \in Bijection(Items, Items)

VARIABLES
    step,       \* where each thread is in shuffle_job
    pass,       \* its pass
    current,    \* its current_shuffle
    arrived,    \* the threads blocked in the barrier of each party
    to_shuffle, \* of each party: the items being shuffled, per shuffle
    to_share,   \* of each party: the items about to be shared
    input,      \* of each thread: the message of its input, per pass and shuffle
    sent,       \* how many exchanges each thread has begun
    a           \* of each party: the result, per shuffle

threadVars == <<step, pass, current, arrived>>
vars == <<threadVars, to_shuffle, to_share, input, sent, a>>

Item(s, j) == <<s, j>>
Values == (Shuffles \X Items) \union {Unset}

\* A share of what one of the two parties that know the permutation has put in.
Part(v) == <<v>>
Contents == Values \union {Part(v) : v \in Values}

\* What a share stands for to who uses it: a contribution alone is of no use.
Whole(c) == IF c \in Shuffles \X Items THEN c ELSE Unset

TypeOK ==
    /\ step \in [Parties -> [Threads -> {"write", "sync written", "add", "sync added",
                     "exchange", "finalize", "sync finalized", "copy", "sync copied", "done"}]]
    /\ pass \in [Parties -> [Threads -> Passes]]
    /\ current \in [Parties -> [Threads -> Shuffles]]
    /\ arrived \in [Parties -> SUBSET Threads]
    /\ to_shuffle \in [Parties -> [Shuffles -> [Items -> Contents]]]
    /\ to_share \in [Parties -> [Items -> Values]]
    /\ \A p \in Parties, t \in Threads, k \in Passes, s \in Shuffles :
          input[p][t][k][s] \in [Slice(t) -> Values]
    /\ sent \in [Parties -> [Threads -> 0..3]]
    /\ a \in [Parties -> [Shuffles -> [Items -> Contents]]]

Init ==
    /\ step = [p \in Parties |-> [t \in Threads |-> "write"]]
    /\ pass = [p \in Parties |-> [t \in Threads |-> 0]]
    /\ current = [p \in Parties |-> [t \in Threads |-> 1]]
    /\ arrived = [p \in Parties |-> {}]
    /\ to_shuffle = [p \in Parties |-> [s \in Shuffles |-> [j \in Items |-> Item(s, j)]]]
    /\ to_share = [p \in Parties |-> [j \in Items |-> Unset]]
    /\ input = [p \in Parties |-> [t \in Threads |-> [k \in Passes |->
                   [s \in Shuffles |-> [j \in Slice(t) |-> Unset]]]]]
    /\ sent = [p \in Parties |-> [t \in Threads |-> 0]]
    /\ a = [p \in Parties |-> [s \in Shuffles |-> [j \in Items |-> Unset]]]
-----------------------------------------------------------------------------
\* The permutation used in a pass, and who knows it: P.get_player(i) is 0 or 1.
Index(s, k) == IF s \in Reverse THEN 2 - k ELSE k
Role(p, s, k) == (p + Index(s, k)) % 3
Knows(p, s, k) == Role(p, s, k) < 2
Following(p) == (p + 1) % 3

At(p, t, where) == step[p][t] = where /\ t \notin arrived[p]
Goto(p, t, where) == step' = [step EXCEPT ![p][t] = where]

\* The position that each permutation takes to position j.
Before == [s \in Shuffles |-> [i \in Passes |-> AntiFunction(Perm[s][i])]]

\* Mutant of Source: `reverse' makes no difference to what is read.
SourceForward(s, k, j) == Before[s][Index(s, k)][j]

\* The position in to_shuffle that position j of to_share is written from.
Source(s, k, j) ==
    IF s \in Reverse THEN Perm[s][Index(s, k)][j] ELSE Before[s][Index(s, k)][j]

\* The positions of to_share that a thread writes: its slice in a reversed shuffle,
\* otherwise wherever the permutation sends its slice.
Targets(t, s, k) ==
    IF s \in Reverse THEN Slice(t) ELSE {Perm[s][Index(s, k)][j] : j \in Slice(t)}

Write(p, t) ==
    LET s == current[p][t]
        k == pass[p][t]
    IN /\ At(p, t, "write") /\ Goto(p, t, "sync written")
       /\ to_share' = [to_share EXCEPT ![p] = [j \in Items |->
                          IF Knows(p, s, k) /\ j \in Targets(t, s, k)
                          THEN Whole(to_shuffle[p][s][Source(s, k, j)]) ELSE @[j]]]
       /\ UNCHANGED <<pass, current, arrived, to_shuffle, input, sent, a>>

\* ThreadQueues::sync: the last one to arrive lets all go on.
Arrive(p, t) ==
    arrived' = [arrived EXCEPT ![p] = IF @ \union {t} = Threads THEN {} ELSE @ \union {t}]

SyncWritten(p, t) ==
    /\ At(p, t, "sync written") /\ Goto(p, t, "add") /\ Arrive(p, t)
    /\ UNCHANGED <<pass, current, to_shuffle, to_share, input, sent, a>>

\* input.add_mine shares what is in to_share: it leaves the party's own shares in the
\* slice of to_shuffle, and the message for the party before it in the input.
Add(p, t) ==
    LET s == current[p][t]
        k == pass[p][t]
    IN /\ At(p, t, "add") /\ Goto(p, t, "sync added")
       /\ IF Knows(p, s, k)
          THEN /\ to_shuffle' = [to_shuffle EXCEPT ![p][s] = [j \in Items |->
                                   IF j \in Slice(t) THEN Part(to_share[p][j]) ELSE @[j]]]
               /\ input' = [input EXCEPT ![p][t][k][s] = [j \in Slice(t) |-> to_share[p][j]]]
          ELSE UNCHANGED <<to_shuffle, input>>
       /\ UNCHANGED <<pass, current, arrived, to_share, sent, a>>

NextShuffle(p, t) ==
    IF current[p][t] < NShuffles
    THEN Goto(p, t, "write") /\ current' = [current EXCEPT ![p][t] = @ + 1]
    ELSE Goto(p, t, "exchange") /\ current' = [current EXCEPT ![p][t] = 1]

\* Mutant of SyncAdded: no barrier before the next shuffle uses to_share.
SkipAdded(p, t) ==
    /\ At(p, t, "sync added") /\ NextShuffle(p, t)
    /\ UNCHANGED <<pass, arrived, to_shuffle, to_share, input, sent, a>>

SyncAdded(p, t) ==
    /\ At(p, t, "sync added") /\ NextShuffle(p, t) /\ Arrive(p, t)
    /\ UNCHANGED <<pass, to_shuffle, to_share, input, sent, a>>

\* What input.exchange receives is from the following party, if that has put in anything
\* in this pass.
Received(p, t) ==
    (\E s \in Shuffles : Knows(Following(p), s, pass[p][t])) => sent[Following(p)][t] > pass[p][t]

\* Mutant of Exchange: receives before it sends.
ExchangeReceivingFirst(p, t) ==
    /\ At(p, t, "exchange") /\ Goto(p, t, "finalize") /\ Received(p, t)
    /\ sent' = [sent EXCEPT ![p][t] = @ + 1]
    /\ UNCHANGED <<pass, current, arrived, to_shuffle, to_share, input, a>>

\* input.exchange sends before it receives, which Finalize waits for.
Exchange(p, t) ==
    /\ At(p, t, "exchange") /\ Goto(p, t, "finalize")
    /\ sent' = [sent EXCEPT ![p][t] = @ + 1]
    /\ UNCHANGED <<pass, current, arrived, to_shuffle, to_share, input, a>>

\* input.finalize_vector_sum adds to what to_shuffle holds.  Of the two who know the
\* permutation the first gets the message of the second, and the second needs none;
\* the third party gets the message of the first and sets its shares anew.
Sum(p, t, s, k, j) ==
    LET own == to_shuffle[p][s][j]
        message == input[Following(p)][t][k][s][j]
    IN CASE Role(p, s, k) = 0 -> IF own = Part(message) THEN message ELSE Unset
         [] Role(p, s, k) = 1 -> IF own \in {Part(v) : v \in Values} THEN own[1] ELSE Unset
         [] Role(p, s, k) = 2 -> message

Finalize(p, t) ==
    /\ At(p, t, "finalize") /\ Goto(p, t, "sync finalized") /\ Received(p, t)
    /\ to_shuffle' = [to_shuffle EXCEPT ![p] = [s \in Shuffles |-> [j \in Items |->
                         IF j \in Slice(t) THEN Sum(p, t, s, pass[p][t], j) ELSE @[s][j]]]]
    /\ UNCHANGED <<pass, current, arrived, to_share, input, sent, a>>

\* Mutant of NextPass: one pass too many.
NextPassFour(p, t) ==
    IF pass[p][t] <= 2
    THEN Goto(p, t, "write") /\ pass' = [pass EXCEPT ![p][t] = @ + 1]
    ELSE Goto(p, t, "copy") /\ UNCHANGED pass

NextPass(p, t) ==
    IF pass[p][t] < 2
    THEN Goto(p, t, "write") /\ pass' = [pass EXCEPT ![p][t] = @ + 1]
    ELSE Goto(p, t, "copy") /\ UNCHANGED pass

SyncFinalized(p, t) ==
    /\ At(p, t, "sync finalized") /\ NextPass(p, t) /\ Arrive(p, t)
    /\ UNCHANGED <<current, to_shuffle, to_share, input, sent, a>>

Copy(p, t) ==
    /\ At(p, t, "copy") /\ Goto(p, t, "sync copied")
    /\ a' = [a EXCEPT ![p] = [s \in Shuffles |-> [j \in Items |->
                IF j \in Slice(t) THEN to_shuffle[p][s][j] ELSE @[s][j]]]]
    /\ UNCHANGED <<pass, current, arrived, to_shuffle, to_share, input, sent>>

SyncCopied(p, t) ==
    /\ At(p, t, "sync copied") /\ Goto(p, t, "done") /\ Arrive(p, t)
    /\ UNCHANGED <<pass, current, to_shuffle, to_share, input, sent, a>>

Job(p, t) == \/ Write(p, t) \/ SyncWritten(p, t) \/ Add(p, t) \/ SyncAdded(p, t)
             \/ Exchange(p, t) \/ Finalize(p, t) \/ SyncFinalized(p, t)
             \/ Copy(p, t) \/ SyncCopied(p, t)

Done == \A p \in Parties, t \in Threads : At(p, t, "done")
Next == \/ \E p \in Parties, t \in Threads : Job(p, t)
        \/ Done /\ UNCHANGED vars

\* While there are threads that can run, one of them does; messages sent arrive.  This
\* is weak fairness of all steps together, as only they change anything; TLC takes
\* much longer over WF_vars(\E p \in Parties, t \in Threads : Job(p, t)).
Fairness == <>[]ENABLED (\E p \in Parties, t \in Threads : Job(p, t)) => []<><<TRUE>>_vars

Spec == Init /\ [][Next]_vars /\ Fairness
-----------------------------------------------------------------------------
\* What the next step of a thread reads and writes: <<vector, shuffle, position>>.
Cells(vector, s, positions) == {<<vector, s, j>> : j \in positions}
Reads(p, t) ==
    LET s == current[p][t]
        k == pass[p][t]
    IN CASE At(p, t, "write") /\ Knows(p, s, k) ->
              Cells("to_shuffle", s, {Source(s, k, j) : j \in Targets(t, s, k)})
         [] At(p, t, "add") /\ Knows(p, s, k) -> Cells("to_share", 0, Slice(t))
         [] At(p, t, "finalize") ->
              UNION {Cells("to_shuffle", r, Slice(t)) : r \in {r \in Shuffles : Knows(p, r, k)}}
         [] At(p, t, "copy") -> UNION {Cells("to_shuffle", r, Slice(t)) : r \in Shuffles}
         [] OTHER -> {}
Writes(p, t) ==
    LET s == current[p][t]
        k == pass[p][t]
    IN CASE At(p, t, "write") /\ Knows(p, s, k) -> Cells("to_share", 0, Targets(t, s, k))
         [] At(p, t, "add") /\ Knows(p, s, k) -> Cells("to_shuffle", s, Slice(t))
         [] At(p, t, "finalize") -> UNION {Cells("to_shuffle", r, Slice(t)) : r \in Shuffles}
         [] OTHER -> {}

\* Two threads of a party never access the same place at the same time, one of them
\* writing: the barriers are where they have to be.
NoRace ==
    \A p \in Parties, t \in Threads : Writes(p, t) # {} =>
        \A u \in Threads \ {t} : Writes(p, t) \intersect (Reads(p, u) \union Writes(p, u)) = {}

\* Where the three permutations, or the inverse of them all, take each item.
Composed(s, j) == Perm[s][2][Perm[s][1][Perm[s][0][j]]]

\* When all threads are through, each party has shares of the shuffled items.
Shuffled ==
    Done => \A p \in Parties, s \in Shuffles, j \in Items :
                IF s \in Reverse THEN a[p][s][j] = Item(s, Composed(s, j))
                ELSE a[p][s][Composed(s, j)] = Item(s, j)

\* The shuffle comes to an end.
ShuffleEnds == <>Done
=============================================================================
