----------------------------- MODULE Commitments -----------------------------
(***************************************************************************)
(* Commitments of all parties to all parties (AllCommitments in            *)
(* Tools/Commit.cpp) and the two ways they are opened: open(message), used *)
(* by PairwiseSetup::covert_key_generation, and open() with one            *)
(* check_relative per message passed around, used by                       *)
(* SummingEncCommit in FHEOffline/SimpleEncCommit.cpp.                     *)
(* Hashing is abstracted: a message fits a commitment if it is the one of  *)
(* the player the commitment is for, and has not changed since.            *)
(***************************************************************************)
EXTENDS Integers, FiniteSets

CONSTANT NPlayers       \* number of parties

ASSUME CommitmentsAssumption == NPlayers \in Nat \ {0}

Parties == 0..(NPlayers - 1)

VARIABLES
    relative,   \* TRUE for messages passed around, FALSE for open(message)
    changed,    \* the parties whose message is not what they have committed to
    pc,         \* where each party is
    rounds,     \* the broadcasts and exchanges it has begun
    passed,     \* how often it has passed on messages
    holds,      \* whose message it holds
    checked     \* whose messages it has checked

acvars == <<relative, changed, pc, rounds, passed, holds, checked>>

ACTypeOK ==
    /\ relative \in BOOLEAN /\ changed \subseteq Parties
    /\ pc \in [Parties -> {"start", "commit", "messages", "open", "check", "pass",
                           "accepted", "failed"}]
    /\ rounds \in [Parties -> Nat]
    /\ passed \in [Parties -> 0..(NPlayers - 1)]
    /\ holds \in [Parties -> Parties]
    /\ checked \in [Parties -> SUBSET Parties]

ACInit ==
    /\ relative \in BOOLEAN /\ changed \in SUBSET Parties
    /\ pc = [p \in Parties |-> "start"]
    /\ rounds = [p \in Parties |-> 0]
    /\ passed = [p \in Parties |-> 0]
    /\ holds = [p \in Parties |-> p]
    /\ checked = [p \in Parties |-> {}]
-----------------------------------------------------------------------------
Goto(p, where) == pc' = [pc EXCEPT ![p] = where]
Begin(p) == rounds' = [rounds EXCEPT ![p] = @ + 1]

\* Broadcast_Receive returns when all others have sent for this round.
Arrived(p) == \A q \in Parties : rounds[q] >= rounds[p]

Commit(p) ==
    /\ pc[p] = "start" /\ Begin(p) /\ Goto(p, "commit")
    /\ UNCHANGED <<relative, changed, passed, holds, checked>>

\* open(message) sends the messages first, then the randomness as open() does.
SendMessages(p) ==
    /\ ~relative
    /\ pc[p] = "commit" /\ Arrived(p) /\ Begin(p) /\ Goto(p, "messages")
    /\ UNCHANGED <<relative, changed, passed, holds, checked>>

Open(p) ==
    /\ pc[p] = (IF relative THEN "commit" ELSE "messages")
    /\ Arrived(p) /\ Begin(p) /\ Goto(p, "open")
    /\ UNCHANGED <<relative, changed, passed, holds, checked>>

\* Mutant of Fits: the opening is not compared.
FitsAlways(player, owner) == player = owner

\* Commitment::check of a message by owner, against what `player' has committed to.
Fits(player, owner) == player = owner /\ owner \notin changed

\* The loop at the end of open(message): for (int i = 0; i != P.my_num(); i++).
CheckAll(p) ==
    /\ ~relative /\ pc[p] = "open" /\ Arrived(p)
    /\ IF \A i \in 0..(p - 1) : Fits(i, i)
       THEN Goto(p, "accepted") /\ checked' = [checked EXCEPT ![p] = 0..(p - 1)]
       ELSE Goto(p, "failed") /\ UNCHANGED checked
    /\ UNCHANGED <<relative, changed, rounds, passed, holds>>

\* Mutant of Pass: one time too many.
PassMore(p) ==
    /\ relative /\ pc[p] = "open" /\ (passed[p] = 0 => Arrived(p))
    /\ IF passed[p] < NPlayers
       THEN Begin(p) /\ Goto(p, "pass")
       ELSE Goto(p, "accepted") /\ UNCHANGED rounds
    /\ UNCHANGED <<relative, changed, passed, holds, checked>>

\* P.pass_around: to the next party, from the one before.
Pass(p) ==
    /\ relative /\ pc[p] = "open" /\ (passed[p] = 0 => Arrived(p))
    /\ IF passed[p] < NPlayers - 1
       THEN Begin(p) /\ Goto(p, "pass")
       ELSE Goto(p, "accepted") /\ UNCHANGED rounds
    /\ UNCHANGED <<relative, changed, passed, holds, checked>>

\* Mutant of Diff: where a message goes to is mistaken for where it comes from.
DiffForward(p, diff) == (p + diff) % NPlayers

\* check_relative(diff, message): the player it is about.
Diff(p, diff) == (p + NPlayers - diff) % NPlayers

\* The message held by the previous party until this round is the one it has had
\* from the one before it, and so on.
CheckRelative(p) ==
    LET diff == passed[p] + 1
        owner == (p - diff) % NPlayers
        player == Diff(p, diff)
        before == (p - 1) % NPlayers
    IN /\ pc[p] = "pass" /\ rounds[before] >= rounds[p]
       /\ holds' = [holds EXCEPT ![p] = owner]
       /\ passed' = [passed EXCEPT ![p] = diff]
       /\ IF Fits(player, owner)
          THEN Goto(p, "open") /\ checked' = [checked EXCEPT ![p] = @ \union {player}]
          ELSE Goto(p, "failed") /\ UNCHANGED checked
       /\ UNCHANGED <<relative, changed, rounds>>

Step(p) == \/ Commit(p) \/ SendMessages(p) \/ Open(p) \/ CheckAll(p) \/ Pass(p)
           \/ CheckRelative(p)

\* An exception at one party ends the program there, and the others in due course.
Over == (\A p \in Parties : pc[p] = "accepted") \/ (\E p \in Parties : pc[p] = "failed")

ACNext == (\E p \in Parties : Step(p)) \/ (Over /\ UNCHANGED acvars)

\* Parties go on, and messages sent arrive.
ACSpec == ACInit /\ [][ACNext]_acvars /\ \A p \in Parties : WF_acvars(Step(p))
-----------------------------------------------------------------------------
\* A party that has opened the commitments has compared the messages of all others
\* with them ("open and check everything", Tools/Commit.h).
EverythingChecked ==
    \A p \in Parties : pc[p] = "accepted" => Parties \ {p} \subseteq checked[p]

\* What a party has checked and accepted is what has been committed to, as long as
\* nothing has changed nobody fails, and messages passed around are all checked: each is
\* compared with the commitment of the party it is from, although they go around one way
\* and are counted the other way.
ChecksAreRight ==
    /\ \A p \in Parties :
        /\ checked[p] \intersect changed = {}
        /\ pc[p] = "failed" => changed # {}
    /\ relative => EverythingChecked

\* The parties all accept in the end or, where messages are passed around, somebody
\* rejects what has changed.
Decided ==
    <>IF relative /\ changed # {} THEN \E p \in Parties : pc[p] = "failed"
      ELSE \/ \A p \in Parties : pc[p] = "accepted"
           \/ changed # {} /\ \E p \in Parties : pc[p] = "failed"
=============================================================================
