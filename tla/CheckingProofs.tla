--------------------------- MODULE CheckingProofs ---------------------------
(***************************************************************************)
(* That nothing is used before it has been checked.  Of MacBatch, for any  *)
(* POPEN_MAX and any number of secrets: MACs and values stay in step, and  *)
(* no value opened escapes its check.  Of Commitments, for any number of   *)
(* parties: opened commitments are compared with what their owners have    *)
(* sent, and where messages go around with all of them.                    *)
(***************************************************************************)
EXTENDS MacBatch, Commitments, SequenceTheorems, TLAPS

(***************************************************************************)
(* The batches of MAC checks.                                              *)
(***************************************************************************)
\* While an opening is prepared, the MACs are ahead of the values by what is prepared.
InStep ==
    /\ phase \in {"idle", "leaving"} => macs = vals
    /\ phase = "preparing" => macs = vals \o values
    /\ phase \in Running => popen_cnt = Len(vals) /\ accepted \o vals = opened
    /\ phase \in {"idle", "preparing"} => Len(vals) < POPEN_MAX
    /\ phase = "leaving" => vals = <<>>

\* Secrets have been numbered in turn, so that none is opened twice.
Numbered ==
    /\ \A i \in 1..Len(opened) : opened[i] <= secrets
    /\ \A j \in 1..Len(values) : values[j] <= secrets
    /\ phase = "preparing" =>
           \A i \in 1..Len(opened), j \in 1..Len(values) : opened[i] # values[j]

IInv == TypeOK /\ InStep /\ Numbered /\ NothingSlipsThrough /\ NoFalseAlarm

\* How a call of Check or CheckIfNeeded may end, for values in step with their MACs.
After(v, bad, next) ==
    /\ macs' = vals' /\ popen_cnt' = Len(vals') /\ vals' \in Seq(Nat) /\ accepted' \in Seq(Nat)
    /\ \/ phase' = "failed" /\ accepted' = accepted /\ bad # {}
       \/ /\ phase' = next
          /\ accepted' \o vals' = accepted \o v
          /\ next = "idle" => Len(vals') < POPEN_MAX
          /\ next = "leaving" => vals' = <<>>
          /\ \A i \in 1..Len(accepted') :
                 \/ i \in 1..Len(accepted) /\ accepted'[i] = accepted[i]
                 \/ accepted'[i] \notin bad

\* Check removes all values, and accepts them unless one is wrong.
LEMMA CheckEnds ==
    ASSUME NEW v \in Seq(Nat), NEW bad, NEW next \in {"idle", "leaving"},
           accepted \in Seq(Nat), Check(v, v, Len(v), bad, next)
    PROVE  After(v, bad, next)
<1>1. POPEN_MAX > 0
  BY MacBatchAssumption
<1>2. CASE Len(v) = 0
  <2>1. v = <<>>
    BY <1>2
  <2>2. phase' = next /\ macs' = v /\ vals' = v /\ popen_cnt' = Len(v) /\ accepted' = accepted
    BY <1>2 DEF Check, Waiting
  <2> QED
    BY <1>1, <2>1, <2>2 DEF After
<1>3. CASE Len(v) # 0
  <2>1. Reset(v, v, Len(v))
    BY <1>3 DEF Check, Waiting
  <2>2. macs' = <<>> /\ vals' = <<>> /\ popen_cnt' = 0
    BY <2>1 DEF Reset, From
  <2>3. CASE Correct(v, v, Len(v), bad)
    <3>1. phase' = next /\ accepted' = accepted \o SubSeq(v, 1, Len(v))
      BY <1>3, <2>3 DEF Check, Waiting
    <3>2. SubSeq(v, 1, Len(v)) = v
      OBVIOUS
    <3>3. accepted' = accepted \o v
      BY <3>1, <3>2
    <3>4. \A i \in 1..Len(v) : v[i] \notin bad
      BY <2>3 DEF Correct
    <3>5. ASSUME NEW i \in 1..Len(accepted')
          PROVE  \/ i \in 1..Len(accepted) /\ accepted'[i] = accepted[i]
                 \/ accepted'[i] \notin bad
      <4>1. CASE i <= Len(accepted)
        BY <3>3, <4>1
      <4>2. CASE i > Len(accepted)
        <5>1. i - Len(accepted) \in 1..Len(v) /\ accepted'[i] = v[i - Len(accepted)]
          BY <3>3, <4>2
        <5> QED
          BY <3>4, <5>1
      <4> QED
        BY <4>1, <4>2
    <3>6. accepted' \in Seq(Nat) /\ accepted' \o <<>> = accepted \o v
      BY <3>3
    <3> QED
      BY <1>1, <2>2, <3>1, <3>5, <3>6 DEF After
  <2>4. CASE ~Correct(v, v, Len(v), bad)
    <3>1. phase' = "failed" /\ accepted' = accepted
      BY <1>3, <2>4 DEF Check, Waiting
    <3>2. bad # {}
      BY <2>4 DEF Correct
    <3> QED
      BY <2>2, <3>1, <3>2 DEF After
  <2> QED
    BY <2>3, <2>4
<1> QED
  BY <1>2, <1>3

\* The same if the check only takes place from POPEN_MAX values on.
LEMMA CheckIfNeededEnds ==
    ASSUME NEW v \in Seq(Nat), NEW bad, accepted \in Seq(Nat),
           CheckIfNeeded(v, v, Len(v), bad)
    PROVE  After(v, bad, "idle")
<1>1. CASE Len(v) >= POPEN_MAX
  <2>1. Check(v, v, Len(v), bad, "idle")
    BY <1>1 DEF CheckIfNeeded, Waiting
  <2> QED
    BY <2>1, CheckEnds
<1>2. CASE Len(v) < POPEN_MAX
  <2>1. Waiting(v, v) = Len(v) /\ Len(v) \in Nat /\ POPEN_MAX \in Nat
    BY MacBatchAssumption DEF Waiting
  <2>2. phase' = "idle" /\ macs' = v /\ vals' = v /\ popen_cnt' = Len(v) /\ accepted' = accepted
    BY <1>2, <2>1 DEF CheckIfNeeded
  <2> QED
    BY <1>2, <2>2 DEF After
<1> QED
  BY <1>1, <1>2, MacBatchAssumption

\* What follows for the invariant where new values v are checked with those waiting.
LEMMA AfterCheck ==
    ASSUME IInv, phase \in Running, NEW new \in Seq(Nat), NEW next \in {"idle", "leaving"},
           After(vals \o new, wrong', next),
           opened' = opened \o new, secrets' \in Nat, secrets' >= secrets,
           \A j \in 1..Len(new) : new[j] <= secrets',
           wrong' \in SUBSET Nat,
           \A i \in 1..Len(opened) : opened[i] \in wrong' => opened[i] \in wrong,
           values' = values, always_check' = always_check
    PROVE  IInv'
<1> DEFINE v == vals \o new
<1>1. /\ accepted \in Seq(Nat) /\ vals \in Seq(Nat) /\ opened \in Seq(Nat) /\ values \in Seq(Nat)
      /\ accepted \o vals = opened /\ secrets \in Nat /\ always_check \in BOOLEAN
  BY DEF IInv, TypeOK, InStep
<1>2. /\ macs' = vals' /\ popen_cnt' = Len(vals') /\ vals' \in Seq(Nat)
      /\ accepted' \in Seq(Nat)
  BY DEF After
<1>3. opened' \in Seq(Nat)
  BY <1>1
<1>4. phase' \in {"idle", "leaving", "failed"}
  BY DEF After
<1>5. TypeOK'
  BY <1>1, <1>2, <1>3, <1>4 DEF TypeOK, Running
<1>6. \A i \in 1..Len(accepted) : accepted[i] \notin wrong'
  <2>1. SUFFICES ASSUME NEW i \in 1..Len(accepted) PROVE accepted[i] \notin wrong'
    OBVIOUS
  <2>2. i \in 1..Len(opened) /\ opened[i] = accepted[i]
    BY <1>1
  <2>3. accepted[i] \notin wrong
    BY DEF IInv, NothingSlipsThrough
  <2> QED
    BY <2>2, <2>3
<1>7. \A i \in 1..Len(opened') : opened'[i] <= secrets'
  <2>1. SUFFICES ASSUME NEW i \in 1..Len(opened') PROVE opened'[i] <= secrets'
    OBVIOUS
  <2>2. CASE i <= Len(opened)
    <3>1. opened'[i] = opened[i] /\ i \in 1..Len(opened)
      BY <1>1, <2>2
    <3>2. opened[i] <= secrets /\ opened[i] \in Nat
      BY <1>1, <3>1 DEF IInv, Numbered
    <3> QED
      BY <1>1, <3>1, <3>2
  <2>3. CASE i > Len(opened)
    <3>1. i - Len(opened) \in 1..Len(new) /\ opened'[i] = new[i - Len(opened)]
      BY <1>1, <2>3
    <3> QED
      BY <3>1
  <2> QED
    BY <1>1, <2>2, <2>3
<1>8. \A j \in 1..Len(values') : values'[j] <= secrets'
  <2>1. SUFFICES ASSUME NEW j \in 1..Len(values) PROVE values[j] <= secrets'
    OBVIOUS
  <2>2. values[j] <= secrets /\ values[j] \in Nat
    BY <1>1 DEF IInv, Numbered
  <2> QED
    BY <1>1, <2>2
<1>9. Numbered'
  BY <1>4, <1>7, <1>8 DEF Numbered
<1>10. CASE phase' = "failed"
  <2>1. accepted' = accepted /\ wrong' # {}
    BY <1>10 DEF After
  <2>2. NothingSlipsThrough' /\ NoFalseAlarm'
    BY <1>6, <1>10, <2>1 DEF NothingSlipsThrough, NoFalseAlarm, Running
  <2>3. InStep'
    BY <1>10 DEF InStep, Running
  <2> QED
    BY <1>5, <1>9, <2>2, <2>3 DEF IInv
<1>11. CASE phase' = next
  <2>1. /\ accepted' \o vals' = accepted \o v
        /\ next = "idle" => Len(vals') < POPEN_MAX
        /\ next = "leaving" => vals' = <<>>
        /\ \A i \in 1..Len(accepted') :
               \/ i \in 1..Len(accepted) /\ accepted'[i] = accepted[i]
               \/ accepted'[i] \notin wrong'
    BY <1>11 DEF After
  <2>2. accepted \o v = opened \o new
    <3>1. accepted \in Seq(Nat) /\ vals \in Seq(Nat) /\ new \in Seq(Nat)
      BY <1>1
    <3>2. (accepted \o vals) \o new = accepted \o (vals \o new)
      BY ONLY <3>1, ConcatAssociative
    <3> QED
      BY <1>1, <3>2
  <2>3. accepted' \o vals' = opened'
    BY <2>1, <2>2
  <2>4. \A i \in 1..Len(accepted') : accepted'[i] \notin wrong'
    BY <1>6, <2>1
  <2>5. InStep'
    BY <1>2, <1>11, <2>1, <2>3 DEF InStep
  <2>6. NothingSlipsThrough' /\ NoFalseAlarm'
    BY <1>11, <2>1, <2>3, <2>4 DEF NothingSlipsThrough, NoFalseAlarm
  <2> QED
    BY <1>5, <1>9, <2>5, <2>6 DEF IInv
<1> QED
  BY <1>10, <1>11 DEF After

LEMMA InitInv == Init => IInv
BY MacBatchAssumption
   DEF Init, IInv, TypeOK, InStep, Numbered, NothingSlipsThrough, NoFalseAlarm, Running

LEMMA NextInv == IInv /\ [Next]_vars => IInv'
<1> SUFFICES ASSUME IInv, [Next]_vars PROVE IInv'
  OBVIOUS
<1> USE MacBatchAssumption
<1>1. CASE InitOpen
  <2>1. TypeOK'
    BY <1>1 DEF InitOpen, ghosts, IInv, TypeOK, Running
  <2>2. InStep'
    BY <1>1 DEF InitOpen, ghosts, IInv, TypeOK, InStep, Running
  <2>3. Numbered'
    BY <1>1 DEF InitOpen, ghosts, IInv, Numbered
  <2>4. NothingSlipsThrough' /\ NoFalseAlarm'
    BY <1>1 DEF InitOpen, ghosts, IInv, NothingSlipsThrough, NoFalseAlarm, Running
  <2> QED
    BY <2>1, <2>2, <2>3, <2>4 DEF IInv
<1>2. CASE PrepareOpen
  <2>1. /\ phase = "preparing" /\ phase' = phase /\ always_check' = always_check
        /\ vals' = vals /\ popen_cnt' = popen_cnt /\ wrong' = wrong /\ opened' = opened
        /\ accepted' = accepted /\ secrets' = secrets + 1
        /\ values' = Append(values, secrets + 1) /\ macs' = Append(macs, secrets + 1)
    BY <1>2 DEF PrepareOpen
  <2>2. /\ values \in Seq(Nat) /\ vals \in Seq(Nat) /\ macs \in Seq(Nat) /\ secrets \in Nat
        /\ opened \in Seq(Nat) /\ macs = vals \o values
    BY <2>1 DEF IInv, TypeOK, InStep
  <2>3. TypeOK'
    BY <2>1, <2>2 DEF IInv, TypeOK
  <2>4. macs' = vals' \o values'
    <3>1. secrets + 1 \in Nat /\ <<secrets + 1>> \in Seq(Nat) /\ vals \o values \in Seq(Nat)
      BY <2>2
    <3>2. macs' = (vals \o values) \o <<secrets + 1>>
      BY <2>1, <2>2, <3>1, AppendIsConcat
    <3>3. values' = values \o <<secrets + 1>>
      BY <2>1, <2>2, <3>1, AppendIsConcat
    <3>4. (vals \o values) \o <<secrets + 1>> = vals \o (values \o <<secrets + 1>>)
      BY <2>2, <3>1, ConcatAssociative
    <3>5. macs' = vals \o (values \o <<secrets + 1>>)
      BY <3>2, <3>4
    <3>6. vals' = vals
      BY <2>1
    <3> QED
      BY <3>3, <3>5, <3>6
  <2>5. InStep'
    BY <2>1, <2>4 DEF IInv, InStep, Running
  <2>6. \A i \in 1..Len(opened) : opened[i] <= secrets /\ opened[i] \in Nat
    BY <2>2 DEF IInv, Numbered
  <2>7. ASSUME NEW j \in 1..Len(values')
        PROVE  /\ values'[j] <= secrets'
               /\ \A i \in 1..Len(opened) : opened[i] # values'[j]
    <3>1. CASE j <= Len(values)
      <4>1. values'[j] = values[j] /\ j \in 1..Len(values) /\ values[j] \in Nat
        BY <2>1, <2>2, <3>1
      <4> QED
        BY <2>1, <2>2, <4>1 DEF IInv, Numbered
    <3>2. CASE j > Len(values)
      <4>1. values'[j] = secrets + 1
        BY <2>1, <2>2, <3>2
      <4> QED
        BY <2>1, <2>2, <2>6, <4>1
    <3> QED
      BY <2>2, <3>1, <3>2
  <2>8. \A i \in 1..Len(opened) : opened[i] <= secrets'
    BY <2>1, <2>2, <2>6
  <2>9. Numbered'
    BY <2>1, <2>7, <2>8 DEF Numbered
  <2>10. NothingSlipsThrough' /\ NoFalseAlarm'
    BY <2>1 DEF IInv, NothingSlipsThrough, NoFalseAlarm
  <2> QED
    BY <2>3, <2>5, <2>9, <2>10 DEF IInv
<1>3. CASE Exchange
  <2>1. /\ values \in Seq(Nat) /\ vals \in Seq(Nat) /\ secrets \in Nat /\ wrong \in SUBSET Nat
        /\ opened \in Seq(Nat) /\ accepted \in Seq(Nat) /\ phase = "preparing"
        /\ macs = vals \o values /\ popen_cnt = Len(vals)
    BY <1>3 DEF Exchange, IInv, TypeOK, InStep, Running
  <2>2. PICK bad \in SUBSET {values[i] : i \in 1..Len(values)} :
           /\ wrong' = wrong \cup bad
           /\ IF always_check THEN Check(macs, vals \o values, popen_cnt + Len(values), wrong \cup bad, "idle")
              ELSE CheckIfNeeded(macs, vals \o values, popen_cnt + Len(values), wrong \cup bad)
    BY <1>3 DEF Exchange
  <2>3. Len(vals \o values) = popen_cnt + Len(values) /\ vals \o values \in Seq(Nat)
    BY <2>1
  <2>4. After(vals \o values, wrong', "idle")
    <3>1. CASE always_check
      <4>1. Check(vals \o values, vals \o values, Len(vals \o values), wrong', "idle")
        BY <2>1, <2>2, <2>3, <3>1
      <4> QED
        BY <2>1, <2>3, <4>1, CheckEnds
    <3>2. CASE ~always_check
      <4>1. CheckIfNeeded(vals \o values, vals \o values, Len(vals \o values), wrong')
        BY <2>1, <2>2, <2>3, <3>2
      <4> QED
        BY <2>1, <2>3, <4>1, CheckIfNeededEnds
    <3> QED
      BY <3>1, <3>2
  <2>5. bad \subseteq Nat
    <3>1. \A i \in 1..Len(values) : values[i] \in Nat
      BY <2>1
    <3>2. bad \subseteq {values[i] : i \in 1..Len(values)}
      OBVIOUS
    <3> QED
      BY ONLY <3>1, <3>2
  <2>6. ASSUME NEW i \in 1..Len(opened), opened[i] \in wrong' PROVE opened[i] \in wrong
    <3>1. \A j \in 1..Len(values) : opened[i] # values[j]
      BY <2>1 DEF IInv, Numbered
    <3> QED
      BY <2>2, <2>6, <3>1
  <2>7. \A j \in 1..Len(values) : values[j] <= secrets
    BY DEF IInv, Numbered
  <2>8. /\ opened' = opened \o values /\ secrets' = secrets /\ values' = values
        /\ always_check' = always_check
    BY <1>3 DEF Exchange
  <2>9. secrets' \in Nat /\ secrets' >= secrets /\ wrong' \in SUBSET Nat /\ phase \in Running
    BY <2>1, <2>2, <2>5, <2>8 DEF Running
  <2>10. \A j \in 1..Len(values) : values[j] <= secrets'
    BY <2>7, <2>8
  <2> QED
    BY <2>1, <2>4, <2>6, <2>8, <2>9, <2>10, AfterCheck
<1>4. CASE AddToCheck
  <2> DEFINE new == <<secrets + 1>>
  <2>1. /\ vals \in Seq(Nat) /\ secrets \in Nat /\ wrong \in SUBSET Nat
        /\ opened \in Seq(Nat) /\ accepted \in Seq(Nat) /\ phase = "idle"
        /\ macs = vals /\ popen_cnt = Len(vals)
    BY <1>4 DEF AddToCheck, IInv, TypeOK, InStep, Running
  <2>2. PICK bad \in SUBSET {secrets + 1} :
           /\ wrong' = wrong \cup bad
           /\ CheckIfNeeded(Append(macs, secrets + 1), Append(vals, secrets + 1), popen_cnt + 1,
                            wrong \cup bad)
    BY <1>4 DEF AddToCheck
  <2>3. /\ Append(vals, secrets + 1) = vals \o new /\ Len(vals \o new) = popen_cnt + 1
        /\ vals \o new \in Seq(Nat) /\ new \in Seq(Nat)
    <3>1. secrets + 1 \in Nat /\ new \in Seq(Nat) /\ Len(new) = 1
      BY <2>1
    <3>2. Append(vals, secrets + 1) = vals \o new
      BY <2>1, <3>1, AppendIsConcat
    <3>3. Len(vals \o new) = Len(vals) + 1 /\ vals \o new \in Seq(Nat)
      BY <2>1, <3>1
    <3> QED
      BY <2>1, <3>1, <3>2, <3>3
  <2>4. CheckIfNeeded(vals \o new, vals \o new, Len(vals \o new), wrong')
    BY <2>1, <2>2, <2>3
  <2>5. After(vals \o new, wrong', "idle")
    BY <2>1, <2>3, <2>4, CheckIfNeededEnds
  <2>6. ASSUME NEW i \in 1..Len(opened), opened[i] \in wrong' PROVE opened[i] \in wrong
    <3>1. opened[i] <= secrets /\ opened[i] \in Nat
      BY <2>1 DEF IInv, Numbered
    <3>2. opened[i] # secrets + 1
      BY <2>1, <3>1
    <3> QED
      BY <2>2, <2>6, <3>2
  <2>7. /\ opened' = Append(opened, secrets + 1) /\ secrets' = secrets + 1 /\ values' = values
        /\ always_check' = always_check
    BY <1>4 DEF AddToCheck
  <2>8. opened' = opened \o new
    BY <2>1, <2>7, AppendIsConcat
  <2>9. /\ secrets' \in Nat /\ secrets' >= secrets /\ wrong' \in SUBSET Nat
        /\ phase \in Running
    BY <2>1, <2>2, <2>7 DEF Running
  <2>10. \A j \in 1..Len(new) : new[j] <= secrets'
    BY <2>1, <2>7
  <2> QED
    BY <2>3, <2>5, <2>6, <2>7, <2>8, <2>9, <2>10, AfterCheck
<1>5. CASE CallCheck
  <2>1. /\ vals \in Seq(Nat) /\ secrets \in Nat /\ wrong \in SUBSET Nat
        /\ opened \in Seq(Nat) /\ accepted \in Seq(Nat) /\ phase = "idle"
        /\ macs = vals /\ popen_cnt = Len(vals)
    BY <1>5 DEF CallCheck, IInv, TypeOK, InStep, Running
  <2>2. PICK next \in {"idle", "leaving"} : Check(macs, vals, popen_cnt, wrong, next)
    BY <1>5 DEF CallCheck
  <2>3. After(vals, wrong, next)
    BY <2>1, <2>2, CheckEnds
  <2>4. /\ opened' = opened /\ secrets' = secrets /\ values' = values /\ wrong' = wrong
        /\ always_check' = always_check
    BY <1>5 DEF CallCheck
  <2>5. vals \o <<>> = vals /\ opened \o <<>> = opened /\ <<>> \in Seq(Nat)
    BY <2>1
  <2>6. After(vals \o <<>>, wrong', next) /\ opened' = opened \o <<>>
    BY <2>3, <2>4, <2>5
  <2>7. secrets' \in Nat /\ secrets' >= secrets /\ wrong' \in SUBSET Nat /\ phase \in Running
    BY <2>1, <2>4 DEF Running
  <2>8. \A j \in 1..Len(<<>>) : <<>>[j] <= secrets'
    OBVIOUS
  <2> QED
    BY <2>4, <2>5, <2>6, <2>7, <2>8, AfterCheck
<1>6. CASE Destroy
  <2>1. /\ phase = "leaving" /\ phase' = IF Waiting(macs, vals) > 0 THEN "terminated" ELSE "over"
        /\ always_check' = always_check /\ values' = values /\ macs' = macs /\ vals' = vals
        /\ popen_cnt' = popen_cnt /\ secrets' = secrets /\ wrong' = wrong /\ opened' = opened
        /\ accepted' = accepted
    BY <1>6 DEF Destroy, ghosts
  <2>2. macs = <<>> /\ vals = <<>> /\ accepted \in Seq(Nat) /\ accepted \o <<>> = opened
    BY <2>1 DEF IInv, InStep, TypeOK, Running
  <2>3. phase' = "over" /\ accepted = opened
    BY <2>1, <2>2 DEF Waiting
  <2>4. TypeOK'
    BY <2>1, <2>3 DEF IInv, TypeOK
  <2>5. InStep'
    BY <2>3 DEF InStep, Running
  <2>6. Numbered'
    BY <2>1, <2>3 DEF IInv, Numbered
  <2>7. NothingSlipsThrough' /\ NoFalseAlarm'
    BY <2>1, <2>3 DEF IInv, NothingSlipsThrough, NoFalseAlarm, Running
  <2> QED
    BY <2>4, <2>5, <2>6, <2>7 DEF IInv
<1>7. CASE UNCHANGED vars
  BY <1>7 DEF vars, ghosts, IInv, TypeOK, InStep, Numbered, NothingSlipsThrough, NoFalseAlarm
<1> QED
  BY <1>1, <1>2, <1>3, <1>4, <1>5, <1>6, <1>7 DEF Next, Ended

\* The inductive invariant: MACs and values are in step, secrets are numbered.
THEOREM Invariance == Spec => []IInv
BY InitInv, NextInv, PTL DEF Spec

\* Tree_MAC_Check keeps its vectors in range of its counter.
THEOREM TypeCorrect == Spec => []TypeOK
<1>1. IInv => TypeOK
  BY DEF IInv
<1> QED
  BY <1>1, Invariance, PTL

\* Every value opened is accepted by a check or waits for the next one, with fewer than
\* POPEN_MAX others, whatever the sequence of openings, additions and checks.
THEOREM Secure == Spec => []NothingSlipsThrough
<1>1. IInv => NothingSlipsThrough
  BY DEF IInv
<1> QED
  BY <1>1, Invariance, PTL

\* The assertion in Check holds, the destructor finds nothing left, and checks fail only
\* if an opening has gone wrong.
THEOREM Complete == Spec => []NoFalseAlarm
<1>1. IInv => NoFalseAlarm
  BY DEF IInv
<1> QED
  BY <1>1, Invariance, PTL

(***************************************************************************)
(* The commitments of all parties.                                         *)
(***************************************************************************)
\* A party that has passed on messages n times has checked those of the n parties before it.
Around ==
    \A p \in Parties :
        /\ pc[p] = "pass" => passed[p] < NPlayers - 1
        /\ relative /\ pc[p] = "accepted" => passed[p] = NPlayers - 1
        /\ relative /\ pc[p] # "failed" =>
               \A d \in 1..passed[p] : Diff(p, d) \in checked[p]

\* The first part of ChecksAreRight.
Honest ==
    \A p \in Parties :
        /\ checked[p] \intersect changed = {}
        /\ pc[p] = "failed" => changed # {}

ACInv == ACTypeOK /\ Around /\ Honest

\* The player check_relative counts to is the one the message has come from.
LEMMA OwnerIsPlayer ==
    ASSUME NEW p \in Parties, NEW d \in 1..(NPlayers - 1)
    PROVE  Diff(p, d) = (p - d) % NPlayers /\ Diff(p, d) \in Parties
<1>1. NPlayers \in Nat \ {0} /\ p \in 0..(NPlayers - 1)
  BY CommitmentsAssumption DEF Parties
<1>2. CASE d <= p
  BY <1>1, <1>2 DEF Diff, Parties
<1>3. CASE d > p
  BY <1>1, <1>3 DEF Diff, Parties
<1> QED
  BY <1>1, <1>2, <1>3

\* Counting back from a party one comes to every other party before one is around.
LEMMA EverybodyIsBefore ==
    ASSUME NEW p \in Parties, NEW q \in Parties \ {p}
    PROVE  \E d \in 1..(NPlayers - 1) : Diff(p, d) = q
<1>1. NPlayers \in Nat \ {0} /\ p \in 0..(NPlayers - 1) /\ q \in 0..(NPlayers - 1) /\ q # p
  BY CommitmentsAssumption DEF Parties
<1>2. CASE q < p
  <2>1. p - q \in 1..(NPlayers - 1) /\ Diff(p, p - q) = q
    BY <1>1, <1>2 DEF Diff
  <2> QED
    BY <2>1
<1>3. CASE q > p
  <2>1. p + NPlayers - q \in 1..(NPlayers - 1) /\ Diff(p, p + NPlayers - q) = q
    BY <1>1, <1>3 DEF Diff
  <2> QED
    BY <2>1
<1> QED
  BY <1>1, <1>2, <1>3

\* The invariant holds at the beginning: nothing has been checked.
LEMMA ACInitHolds == ACInit => ACInv
<1> SUFFICES ASSUME ACInit PROVE ACInv
  OBVIOUS
<1>1. NPlayers \in Nat \ {0}
  BY CommitmentsAssumption
<1>2. ACTypeOK
  BY <1>1 DEF ACInit, ACTypeOK, Parties
<1>3. Around /\ Honest
  BY <1>1 DEF ACInit, Around, Honest
<1> QED
  BY <1>2, <1>3 DEF ACInv

\* The invariant is kept by every step of a party.
LEMMA StepInv ==
    ASSUME ACInv, NEW p \in Parties, Step(p)
    PROVE  ACInv'
<1> USE DEF Goto, Begin
<1>1. ACTypeOK /\ Around /\ Honest
  BY DEF ACInv
<1>2. NPlayers \in Nat \ {0} /\ p \in 0..(NPlayers - 1)
  BY CommitmentsAssumption DEF Parties
<1>3. ASSUME Commit(p) \/ SendMessages(p) \/ Open(p) PROVE ACInv'
  <2>1. pc[p] \notin {"pass", "accepted", "failed"}
        /\ \E where \in {"commit", "messages", "open"} : pc' = [pc EXCEPT ![p] = where]
    BY <1>3 DEF Commit, SendMessages, Open
  <2>2. /\ rounds' = [rounds EXCEPT ![p] = @ + 1]
        /\ UNCHANGED <<relative, changed, passed, holds, checked>>
    BY <1>3 DEF Commit, SendMessages, Open
  <2>3. ACTypeOK'
    BY <1>1, <2>1, <2>2 DEF ACTypeOK
  <2>4. Around'
    BY <1>1, <2>1, <2>2 DEF ACTypeOK, Around
  <2>5. Honest'
    BY <1>1, <2>1, <2>2 DEF ACTypeOK, Honest
  <2> QED
    BY <2>3, <2>4, <2>5 DEF ACInv
<1>4. ASSUME CheckAll(p) PROVE ACInv'
  <2>1. ~relative /\ pc[p] = "open" /\ UNCHANGED <<relative, changed, rounds, passed, holds>>
    BY <1>4 DEF CheckAll
  <2>2. CASE \A i \in 0..(p - 1) : Fits(i, i)
    <3>1. /\ pc' = [pc EXCEPT ![p] = "accepted"]
          /\ checked' = [checked EXCEPT ![p] = 0..(p - 1)]
      BY <1>4, <2>2 DEF CheckAll
    <3>2. (0..(p - 1)) \intersect changed = {} /\ 0..(p - 1) \subseteq Parties
      BY <1>2, <2>2 DEF Fits, Parties
    <3>3. ACTypeOK'
      BY <1>1, <2>1, <3>1, <3>2 DEF ACTypeOK
    <3>4. Around' /\ Honest'
      BY <1>1, <2>1, <3>1, <3>2 DEF ACTypeOK, Around, Honest
    <3> QED
      BY <3>3, <3>4 DEF ACInv
  <2>3. CASE ~\A i \in 0..(p - 1) : Fits(i, i)
    <3>1. pc' = [pc EXCEPT ![p] = "failed"] /\ checked' = checked
      BY <1>4, <2>3 DEF CheckAll
    <3>2. changed # {}
      BY <2>3 DEF Fits
    <3>3. ACTypeOK'
      BY <1>1, <2>1, <3>1 DEF ACTypeOK
    <3>4. Around' /\ Honest'
      BY <1>1, <2>1, <3>1, <3>2 DEF ACTypeOK, Around, Honest
    <3> QED
      BY <3>3, <3>4 DEF ACInv
  <2> QED
    BY <2>2, <2>3
<1>5. ASSUME Pass(p) PROVE ACInv'
  <2>1. relative /\ pc[p] = "open" /\ UNCHANGED <<relative, changed, passed, holds, checked>>
    BY <1>5 DEF Pass
  <2>2. \/ /\ passed[p] < NPlayers - 1 /\ pc' = [pc EXCEPT ![p] = "pass"]
           /\ rounds' = [rounds EXCEPT ![p] = @ + 1]
        \/ /\ passed[p] >= NPlayers - 1 /\ pc' = [pc EXCEPT ![p] = "accepted"]
           /\ rounds' = rounds
    BY <1>1, <1>2, <1>5 DEF Pass, ACTypeOK
  <2>3. ACTypeOK'
    BY <1>1, <2>1, <2>2 DEF ACTypeOK
  <2>4. Around'
    BY <1>1, <1>2, <2>1, <2>2 DEF ACTypeOK, Around
  <2>5. Honest'
    BY <1>1, <2>1, <2>2 DEF ACTypeOK, Honest
  <2> QED
    BY <2>3, <2>4, <2>5 DEF ACInv
<1>6. ASSUME CheckRelative(p) PROVE ACInv'
  <2> DEFINE diff == passed[p] + 1
  <2>1. pc[p] = "pass" /\ diff \in 1..(NPlayers - 1)
    BY <1>1, <1>2, <1>6 DEF CheckRelative, Around, ACTypeOK
  <2>2. Diff(p, diff) = (p - diff) % NPlayers /\ Diff(p, diff) \in Parties
    BY <2>1, OwnerIsPlayer
  <2>3. /\ holds' = [holds EXCEPT ![p] = Diff(p, diff)]
        /\ passed' = [passed EXCEPT ![p] = diff]
        /\ UNCHANGED <<relative, changed, rounds>>
    BY <1>6, <2>2 DEF CheckRelative
  <2>4. \/ /\ Diff(p, diff) \notin changed /\ pc' = [pc EXCEPT ![p] = "open"]
           /\ checked' = [checked EXCEPT ![p] = @ \union {Diff(p, diff)}]
        \/ /\ Diff(p, diff) \in changed /\ pc' = [pc EXCEPT ![p] = "failed"]
           /\ checked' = checked
    BY <1>6, <2>2 DEF CheckRelative, Fits
  <2> HIDE DEF diff
  <2>5. ACTypeOK'
    BY <1>1, <1>2, <2>1, <2>2, <2>3, <2>4 DEF ACTypeOK
  <2>6. Honest'
    BY <1>1, <2>2, <2>3, <2>4 DEF ACTypeOK, Honest
  <2>7. \A d \in 1..diff : d \in 1..passed[p] \/ d = diff
    BY <1>1, <2>1 DEF diff, ACTypeOK
  <2>8. Around'
    <3> SUFFICES ASSUME NEW q \in Parties
                 PROVE  /\ pc'[q] = "pass" => passed'[q] < NPlayers - 1
                        /\ relative' /\ pc'[q] = "accepted" => passed'[q] = NPlayers - 1
                        /\ relative' /\ pc'[q] # "failed" =>
                               \A d \in 1..passed'[q] : Diff(q, d) \in checked'[q]
      BY DEF Around, Diff
    <3>1. CASE q = p
      BY <1>1, <2>1, <2>3, <2>4, <2>7, <3>1 DEF ACTypeOK, Around
    <3>2. CASE q # p
      BY <1>1, <2>3, <2>4, <3>2 DEF ACTypeOK, Around
    <3> QED
      BY <3>1, <3>2
  <2> QED
    BY <2>5, <2>6, <2>8 DEF ACInv
<1> QED
  BY <1>3, <1>4, <1>5, <1>6 DEF Step

\* The inductive invariant: what is checked is right, and who has passed on messages n times
\* has checked n parties, counted back from itself.
THEOREM ACInvariance == ACSpec => []ACInv
<1>1. ASSUME ACInv, ACNext PROVE ACInv'
  <2>1. CASE \E p \in Parties : Step(p)
    BY <1>1, <2>1, StepInv
  <2>2. CASE UNCHANGED acvars
    BY <1>1, <2>2 DEF acvars, ACInv, ACTypeOK, Around, Honest, Diff
  <2> QED
    BY <1>1, <2>1, <2>2 DEF ACNext
<1>2. ASSUME ACInv, UNCHANGED acvars PROVE ACInv'
  BY <1>2 DEF acvars, ACInv, ACTypeOK, Around, Honest, Diff
<1> QED
  BY <1>1, <1>2, ACInitHolds, PTL DEF ACSpec

\* The type invariant of the commitments, for any number of parties.
THEOREM ACTypeCorrect == ACSpec => []ACTypeOK
<1>1. ACInv => ACTypeOK
  BY DEF ACInv
<1> QED
  BY <1>1, ACInvariance, PTL

\* Nobody accepts what is not committed to or fails without reason, and messages passed
\* around are compared with the commitments of all other parties.
THEOREM ComparedWithAll == ACSpec => []ChecksAreRight
<1>1. ASSUME ACInv, relative PROVE EverythingChecked
  <2> SUFFICES ASSUME NEW p \in Parties, pc[p] = "accepted", NEW q \in Parties \ {p}
               PROVE  q \in checked[p]
    BY DEF EverythingChecked
  <2>1. passed[p] = NPlayers - 1 /\ \A d \in 1..passed[p] : Diff(p, d) \in checked[p]
    BY <1>1 DEF ACInv, Around
  <2> QED
    BY <2>1, EverybodyIsBefore
<1>2. ACInv => ChecksAreRight
  BY <1>1 DEF ACInv, Honest, ChecksAreRight
<1> QED
  BY <1>2, ACInvariance, PTL

=============================================================================
