------------------------------- MODULE TreeSum -------------------------------
(***************************************************************************)
(* Opening values along a tree of parties (TreeSum in                      *)
(* Protocols/MAC_Check.h): in rounds, ever fewer parties add up what they  *)
(* get from the others, until the base player has the sum and sends it     *)
(* down another tree.  Parties talk over ordered connections.  These may   *)
(* take a message at once, or hold back the sender until the receiver      *)
(* reads, as they do with long messages.  A value is abstracted to what it *)
(* is the sum of.                                                          *)
(***************************************************************************)
EXTENDS Integers, Sequences

CONSTANTS NPlayers,       \* number of parties
          Settings,       \* the values of <<opening_sum, max_broadcast, base_player>>
          NRuns,          \* bound: how often run is called
          Blocking        \* whether send_to only returns when the receiver reads, any of these

ASSUME TreeSumAssumption ==
    /\ NPlayers \in Nat \ {0}
    /\ Settings \subseteq Nat \X Nat \X (0..(NPlayers - 1))
    /\ NRuns \in Nat /\ Blocking \subseteq BOOLEAN

Parties == 0..(NPlayers - 1)

VARIABLES
    \* what all parties have constructed TreeSum with
    opening_sum,   \* how many values a party sums up at once
    max_broadcast, \* how many parties a party sends to
    base_player,   \* the root of both trees
    blocking,      \* whether connections hold back the sender until the receiver reads
    \* the parties
    pc,            \* where each party is in run
    runs,          \* how many runs it has begun
    values,        \* what it has summed up
    sum_players,   \* how many parties are left in the summing phase
    last_sum_players,
    peer,          \* the next one to receive from or send to, counted from the base
    chan,          \* the connections: chan[p][q] from p to q
    results        \* ghost: the values when run returned, one per run

settings == <<opening_sum, max_broadcast, base_player, blocking>>
vars == <<settings, pc, runs, values, sum_players, last_sum_players, peer, chan, results>>

Contributions == (1..NRuns) \X Parties
Sums == [Contributions -> Nat]
Zero == [c \in Contributions |-> 0]
Own(p, run) == [Zero EXCEPT ![<<run, p>>] = 1]
Plus(x, y) == [c \in Contributions |-> x[c] + y[c]]

TypeOK ==
    /\ {opening_sum, max_broadcast} \subseteq Nat /\ base_player \in Parties /\ blocking \in BOOLEAN
    /\ pc \in [Parties -> {"idle", "round", "send", "add", "broadcast", "receive"}]
    /\ runs \in [Parties -> 0..NRuns]
    /\ values \in [Parties -> Sums]
    /\ sum_players \in [Parties -> 0..NPlayers]
    /\ last_sum_players \in [Parties -> 0..NPlayers]
    /\ peer \in [Parties -> Nat]
    /\ chan \in [Parties -> [Parties -> Seq(Sums)]]
    /\ \A p, q \in Parties : Len(chan[p][q]) <= 1
    /\ results \in [Parties -> Seq(Sums)]

\* Parties are counted from the base player.
Relative(p) == (p - base_player) % NPlayers
Player(r) == (base_player + r) % NPlayers

\* Less than two stands for no limit.
Limit(n) == IF n < 2 THEN NPlayers ELSE n

Init ==
    /\ \E x \in Settings : /\ opening_sum = Limit(x[1]) /\ max_broadcast = Limit(x[2])
                           /\ base_player = x[3]
    /\ blocking \in Blocking
    /\ pc = [p \in Parties |-> "idle"]
    /\ runs = [p \in Parties |-> 0]
    /\ values = [p \in Parties |-> Zero]
    /\ sum_players = [p \in Parties |-> NPlayers]
    /\ last_sum_players = [p \in Parties |-> NPlayers]
    /\ peer = [p \in Parties |-> 0]
    /\ chan = [p \in Parties |-> [q \in Parties |-> <<>>]]
    /\ results = [p \in Parties |-> <<>>]
-----------------------------------------------------------------------------
Goto(p, where) == pc' = [pc EXCEPT ![p] = where]

\* With connections that block, send_to has not returned while its message is unread.
Unblocked(p) == blocking => \A q \in Parties : chan[p][q] = <<>>
Send(p, q) == chan' = [chan EXCEPT ![p][q] = Append(@, values[p])]
Receive(q, p) == chan[q][p] # <<>> /\ chan' = [chan EXCEPT ![q][p] = Tail(@)]

Begin(p) ==
    /\ pc[p] = "idle" /\ runs[p] < NRuns
    /\ runs' = [runs EXCEPT ![p] = @ + 1]
    /\ values' = [values EXCEPT ![p] = Own(p, runs[p] + 1)]
    /\ sum_players' = [sum_players EXCEPT ![p] = NPlayers]
    /\ Goto(p, "round")
    /\ UNCHANGED <<last_sum_players, peer, chan, results>>

\* Mutant of Fewer: rounded down.
FewerRoundedDown(n) == (n - 2) \div opening_sum

\* How many parties sum up what n parties have.
Fewer(n) == (n - 2 + opening_sum) \div opening_sum

\* Mutant of FirstPeer: the root begins with itself.
FirstPeerItself(p, fewer) == IF fewer = 0 THEN 0 ELSE Relative(p) + fewer

\* Whom a party receives from first, or the root sends to first.
FirstPeer(p, fewer) == IF fewer = 0 THEN 1 ELSE Relative(p) + fewer

\* What a party does in a round of the summing phase: send, add, or nothing.
Round(p) ==
    LET fewer == Fewer(sum_players[p])
    IN /\ pc[p] = "round"
       /\ sum_players' = [sum_players EXCEPT ![p] = fewer]
       /\ last_sum_players' = [last_sum_players EXCEPT ![p] = sum_players[p]]
       /\ peer' = [peer EXCEPT ![p] = FirstPeer(p, fewer)]
       /\ Goto(p, IF fewer = 0
                  THEN IF Relative(p) = 0 THEN "broadcast" ELSE "receive"
                  ELSE IF Relative(p) < fewer THEN "add"
                  ELSE IF Relative(p) < sum_players[p] THEN "send" ELSE "round")
       /\ UNCHANGED <<runs, values, chan, results>>

SendUp(p) ==
    /\ pc[p] = "send"
    /\ Send(p, Player(Relative(p) % sum_players[p]))
    /\ Goto(p, "round")
    /\ UNCHANGED <<runs, values, sum_players, last_sum_players, peer, results>>

\* add_openings: the messages are taken in the order of the senders.
AddOne(p) ==
    /\ pc[p] = "add" /\ peer[p] < last_sum_players[p]
    /\ LET q == Player(peer[p])
       IN /\ Receive(q, p)
          /\ values' = [values EXCEPT ![p] = Plus(@, Head(chan[q][p]))]
    /\ peer' = [peer EXCEPT ![p] = @ + sum_players[p]]
    /\ UNCHANGED <<pc, runs, sum_players, last_sum_players, results>>

AddedAll(p) ==
    /\ pc[p] = "add" /\ peer[p] >= last_sum_players[p]
    /\ Goto(p, "round")
    /\ UNCHANGED <<runs, values, sum_players, last_sum_players, peer, chan, results>>

\* Mutant of LastPeer: sent on past the last party.
LastPeerOfAll(p) == (Relative(p) + 1) * max_broadcast

\* The end of the range of parties, counted from the base, that p sends to.
LastPeer(p) ==
    LET last == (Relative(p) + 1) * max_broadcast
    IN IF last < NPlayers THEN last ELSE NPlayers

\* Mutant of ReceiveSum: the sum is added to what the party has, as on the way up.
ReceiveAndAdd(p) ==
    LET q == Player(Relative(p) \div max_broadcast)
    IN /\ pc[p] = "receive"
       /\ Receive(q, p)
       /\ values' = [values EXCEPT ![p] = Plus(@, Head(chan[q][p]))]
       /\ peer' = [peer EXCEPT ![p] = Relative(p) * max_broadcast]
       /\ Goto(p, "broadcast")
       /\ UNCHANGED <<runs, sum_players, last_sum_players, results>>

\* ReceiveValues, in start by those that send on, in finish by the leaves.
ReceiveSum(p) ==
    LET q == Player(Relative(p) \div max_broadcast)
    IN /\ pc[p] = "receive"
       /\ Receive(q, p)
       /\ values' = [values EXCEPT ![p] = Head(chan[q][p])]
       /\ peer' = [peer EXCEPT ![p] = Relative(p) * max_broadcast]
       /\ Goto(p, "broadcast")
       /\ UNCHANGED <<runs, sum_players, last_sum_players, results>>

Broadcast(p) ==
    /\ pc[p] = "broadcast" /\ peer[p] < LastPeer(p)
    /\ Send(p, Player(peer[p]))
    /\ peer' = [peer EXCEPT ![p] = @ + 1]
    /\ UNCHANGED <<pc, runs, values, sum_players, last_sum_players, results>>

Return(p) ==
    /\ pc[p] = "broadcast" /\ peer[p] >= LastPeer(p)
    /\ results' = [results EXCEPT ![p] = Append(@, values[p])]
    /\ Goto(p, "idle")
    /\ UNCHANGED <<runs, values, sum_players, last_sum_players, peer, chan>>

Step(p) ==
    /\ \/ Begin(p) \/ Round(p) \/ SendUp(p) \/ AddOne(p) \/ AddedAll(p)
       \/ ReceiveSum(p) \/ Broadcast(p) \/ Return(p)
    /\ Unblocked(p)
    /\ UNCHANGED settings

Finished == \A p \in Parties : pc[p] = "idle" /\ runs[p] = NRuns
Next == (\E p \in Parties : Step(p)) \/ (Finished /\ UNCHANGED vars)

\* Parties go on, and messages sent arrive.
Spec == Init /\ [][Next]_vars /\ \A p \in Parties : WF_vars(Step(p))
-----------------------------------------------------------------------------
\* Every party gets the sum of all values of the same run, AllSum.
Promise == INSTANCE AllSum WITH begun <- runs
ImplementsAllSum == Promise!Spec

\* What is sent is received in the same run: when all are through with it no message
\* is left over to be taken for one of the next.
BetweenRuns == \A p, q \in Parties : pc[p] = "idle" /\ runs[p] = runs[q]
NothingLeftOver == BetweenRuns => \A p, q \in Parties : chan[p][q] = <<>>

\* All runs come to their end, even if every send_to waits for its message to be read.
AllReturn == <>Finished
=============================================================================
