------------------------------ MODULE MacBatch ------------------------------
(***************************************************************************)
(* The values that a MAC check has opened and not checked yet              *)
(* (Tree_MAC_Check and MAC_Check_ in Protocols/MAC_Check.hpp).  MACs are   *)
(* kept when an opening is prepared, values when it has taken place, and   *)
(* all are checked together once there are POPEN_MAX of them.  Checks      *)
(* compare by position, so that the two vectors must never get out of step *)
(* and reset must remove from both what has been checked.                  *)
(*                                                                         *)
(* A secret is a number; macs, vals and values hold the secrets whose MACs *)
(* and values they are.  An opening may go wrong, which is what the check  *)
(* is for: the random combination of many values is taken to find it out.  *)
(***************************************************************************)
EXTENDS Naturals, Sequences

CONSTANTS POPEN_MAX,    \* values that are checked at the latest
          AlwaysCheck,  \* whether the option always_check may be set
          MaxSecrets    \* bound: secrets that are opened

ASSUME MacBatchAssumption ==
    /\ POPEN_MAX \in Nat \ {0} /\ MaxSecrets \in Nat
    /\ AlwaysCheck \subseteq BOOLEAN

VARIABLES
    always_check,  \* the option
    phase,         \* what the caller does, or how it has ended
    values,        \* the secrets of the opening being prepared, or the values of the last
    macs,          \* the MACs to check
    vals,          \* the values to check them with
    popen_cnt,     \* how many values have been opened since the last check
    secrets,       \* how many secrets there have been
    wrong,         \* those that have been opened wrongly
    opened,        \* ghost: the values opened, in order
    accepted       \* ghost: those that a check has accepted, in order

ghosts == <<secrets, wrong, opened, accepted>>
vars == <<always_check, phase, values, macs, vals, popen_cnt, ghosts>>

Running == {"idle", "preparing", "leaving"}
TypeOK ==
    /\ always_check \in BOOLEAN
    /\ phase \in Running \cup {"failed", "aborted", "terminated", "over"}
    /\ values \in Seq(Nat) /\ macs \in Seq(Nat) /\ vals \in Seq(Nat)
    /\ popen_cnt \in Nat /\ popen_cnt <= Len(macs) /\ popen_cnt <= Len(vals)
    /\ secrets \in Nat
    /\ wrong \in SUBSET Nat /\ opened \in Seq(Nat) /\ accepted \in Seq(Nat)

Init ==
    /\ always_check \in AlwaysCheck
    /\ phase = "idle" /\ values = <<>> /\ macs = <<>> /\ vals = <<>> /\ popen_cnt = 0
    /\ secrets = 0 /\ wrong = {} /\ opened = <<>> /\ accepted = <<>>
-----------------------------------------------------------------------------
Waiting(m, v) == IF Len(m) >= Len(v) THEN Len(m) ELSE Len(v)     \* WaitingForCheck
From(s, first) == SubSeq(s, first, Len(s))

\* Mutants of Reset: MACs kept; the count kept.
ResetValues(m, v, n) ==
    /\ vals' = From(v, n + 1)
    /\ macs' = m
    /\ popen_cnt' = 0
ResetKeepingCount(m, v, n) ==
    /\ vals' = From(v, n + 1)
    /\ macs' = From(m, n + 1)
    /\ popen_cnt' = n

\* reset: erases the first n of both.
Reset(m, v, n) ==
    /\ vals' = From(v, n + 1)
    /\ macs' = From(m, n + 1)
    /\ popen_cnt' = 0

\* Position by position, whether what has been opened is what the MAC is for.
Correct(m, v, n, bad) == \A i \in 1..n : v[i] = m[i] /\ v[i] \notin bad

\* MAC_Check_::Check with these values, of which `bad' are wrong: both ways of checking
\* come to the same.  A failure throws after reset.
Check(m, v, n, bad, next) ==
    IF Waiting(m, v) = 0
    THEN phase' = next /\ macs' = m /\ vals' = v /\ popen_cnt' = n /\ UNCHANGED accepted
    ELSE IF Len(m) > n
    THEN phase' = "aborted" /\ macs' = m /\ vals' = v /\ popen_cnt' = n /\ UNCHANGED accepted
    ELSE /\ Reset(m, v, n)
         /\ IF Correct(m, v, n, bad)
            THEN phase' = next /\ accepted' = accepted \o SubSeq(v, 1, n)
            ELSE phase' = "failed" /\ UNCHANGED accepted

\* Mutant of CheckIfNeeded: the limit has to be exceeded.
CheckLater(m, v, n, bad) ==
    IF Waiting(m, v) > POPEN_MAX THEN Check(m, v, n, bad, "idle")
    ELSE phase' = "idle" /\ macs' = m /\ vals' = v /\ popen_cnt' = n /\ UNCHANGED accepted

CheckIfNeeded(m, v, n, bad) ==
    IF Waiting(m, v) >= POPEN_MAX THEN Check(m, v, n, bad, "idle")
    ELSE phase' = "idle" /\ macs' = m /\ vals' = v /\ popen_cnt' = n /\ UNCHANGED accepted
-----------------------------------------------------------------------------
(* The callers open with init_open, prepare_open for every secret and      *)
(* exchange, and do nothing else in between.                               *)

InitOpen ==
    /\ phase = "idle"
    /\ phase' = "preparing"
    /\ values' = <<>>
    /\ UNCHANGED <<always_check, macs, vals, popen_cnt, ghosts>>

PrepareOpen ==
    /\ phase = "preparing" /\ secrets < MaxSecrets
    /\ secrets' = secrets + 1
    /\ values' = Append(values, secrets + 1)
    /\ macs' = Append(macs, secrets + 1)
    /\ UNCHANGED <<always_check, phase, vals, popen_cnt, wrong, opened, accepted>>

\* The opening, which appends to vals by AddToValues and may go wrong for some.
Exchange ==
    /\ phase = "preparing"
    /\ \E bad \in SUBSET {values[i] : i \in 1..Len(values)} :
           LET v == vals \o values
               n == popen_cnt + Len(values)
           IN /\ wrong' = wrong \cup bad
              /\ IF always_check THEN Check(macs, v, n, wrong \cup bad, "idle")
                 ELSE CheckIfNeeded(macs, v, n, wrong \cup bad)
    /\ opened' = opened \o values
    /\ UNCHANGED <<always_check, values, secrets>>

\* A value that is public is to be checked with the others.
AddToCheck ==
    /\ phase = "idle" /\ secrets < MaxSecrets
    /\ secrets' = secrets + 1
    /\ \E bad \in SUBSET {secrets + 1} :
           /\ wrong' = wrong \cup bad
           /\ CheckIfNeeded(Append(macs, secrets + 1), Append(vals, secrets + 1), popen_cnt + 1,
                            wrong \cup bad)
    /\ opened' = Append(opened, secrets + 1)
    /\ UNCHANGED <<always_check, values>>

\* Called by the owner at any time, and before it destroys the object.
CallCheck ==
    /\ phase = "idle"
    /\ \E next \in {"idle", "leaving"} : Check(macs, vals, popen_cnt, wrong, next)
    /\ UNCHANGED <<always_check, values, secrets, wrong, opened>>

\* The destructor terminates the program if anything has not been checked.
Destroy ==
    /\ phase = "leaving"
    /\ phase' = IF Waiting(macs, vals) > 0 THEN "terminated" ELSE "over"
    /\ UNCHANGED <<always_check, values, macs, vals, popen_cnt, ghosts>>

Ended == phase \notin Running /\ UNCHANGED vars
Next == InitOpen \/ PrepareOpen \/ Exchange \/ AddToCheck \/ CallCheck \/ Destroy \/ Ended

Spec == Init /\ [][Next]_vars
-----------------------------------------------------------------------------
\* Unless a check has failed, every value opened has been accepted or waits for the next
\* check, each once and in order; fewer than POPEN_MAX wait between operations, none that
\* has been accepted is wrong, and the object only goes when all have been accepted.
NothingSlipsThrough ==
    /\ phase \in Running => accepted \o vals = opened
    /\ phase = "idle" => Len(vals) < POPEN_MAX
    /\ phase = "over" => accepted = opened
    /\ \A i \in 1..Len(accepted) : accepted[i] \notin wrong

\* A check fails only because an opening went wrong: MACs and values are never out of
\* step, neither assertion nor destructor stops the program.
NoFalseAlarm ==
    /\ phase = "failed" => wrong # {}
    /\ phase \notin {"aborted", "terminated"}
=============================================================================
