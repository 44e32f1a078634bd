--------------------------- MODULE ThreadPoolProofs ---------------------------
(***************************************************************************)
(* Theorems about ThreadPool, for any number of threads, items, tapes and  *)
(* loops.                                                                  *)
(***************************************************************************)
EXTENDS ThreadPool, TLAPS, SequenceTheorems, FiniteSetTheorems

\* What the proof needs to know of the types: queues are sequences, counters numbers.
AnyJob == [type : {"none", "stop", "tape", "loop", "sync", "check", "usage"},
           output : Int, begin : Int, end : Int]
Stages == {"absent", "created", "setup", "loop", "busy", "final", "signout", "winddown",
           "leaving", "ended"}
Queues == /\ in \in [Threads -> Seq(AnyJob)] /\ out \in [Threads -> Seq(AnyJob)]
          /\ left \in [Threads -> Int]
Workers == wpc \in [Threads -> Stages] /\ job \in [Threads -> AnyJob] /\ batches \in Int

\* The jobs that are counted but in neither queue.
Queued(t) == Len(in[t])
Ready(t) == Len(out[t])
Owed(t) == left[t] - Queued(t) - Ready(t)
Early == {"absent", "created", "setup", "loop", "busy"}
Holding(stage) == IF stage \in {"setup", "busy"} THEN 1 ELSE 0
OwedInWork == \A t \in Threads : wpc[t] \in Early => Owed(t) = Holding(wpc[t])

\* The machine only speaks to threads that exist.
Starts == {"starting", "stop", "signout", "usage", "joining"}
Addressed ==
    /\ nthreads \in 0..MaxThreads /\ mthread \in Nat
    /\ mpc \in Starts => mthread < nthreads
    /\ mpc = "join" => nthreads > 0
    /\ mpc = "run" => nthreads > 0
    /\ available \subseteq Threads

PoolInv == Queues /\ Workers /\ Addressed /\ OwedInWork

LEMMA Lengths ==
    ASSUME Queues, NEW t \in Threads
    PROVE  /\ Queued(t) \in Nat /\ Ready(t) \in Nat /\ left[t] \in Int
           /\ in[t] \in Seq(AnyJob) /\ out[t] \in Seq(AnyJob)
  BY LenProperties DEF Queues, Queued, Ready

LEMMA OwedSuffices == ASSUME PoolInv PROVE LeftCounts
<1> SUFFICES ASSUME NEW t \in Threads, wpc[t] \in {"absent", "created", "setup", "loop", "busy"}
             PROVE  left[t] = Queued(t) + Ready(t) + Count(wpc[t] \in {"setup", "busy"})
  BY DEF LeftCounts, Queued, Ready
<1>1. Queued(t) \in Nat /\ Ready(t) \in Nat /\ left[t] \in Int
  BY Lengths DEF PoolInv
<1>2. left[t] - Queued(t) - Ready(t) = Count(wpc[t] \in {"setup", "busy"})
  BY DEF PoolInv, OwedInWork, Owed, Early, Holding, Count
<1> QED
  BY <1>1, <1>2 DEF Count

-----------------------------------------------------------------------------
\* The operations of ThreadQueue: scheduling a job and taking a result owe nothing
\* new, a job taken is owed a result, and a result handed in pays.
LEMMA ScheduleOwes ==
    ASSUME Queues, NEW t \in Threads, NEW j \in AnyJob, Schedule(t, j)
    PROVE  Queues' /\ \A u \in Threads : Owed(u)' = Owed(u)
<1>1. in[t] \in Seq(AnyJob)
  BY Lengths
<1>2. Append(in[t], j) \in Seq(AnyJob) /\ Len(Append(in[t], j)) = Len(in[t]) + 1
  BY <1>1, AppendProperties
<1>3. Queues'
  BY <1>2 DEF Queues, Schedule
<1>4. \A u \in Threads \ {t} : Owed(u)' = Owed(u)
  BY DEF Queues, Schedule, Owed, Queued, Ready
<1>5. Owed(t)' = Owed(t)
  <2>1. Queued(t)' = Queued(t) + 1 /\ Ready(t)' = Ready(t)
    BY <1>2 DEF Queues, Schedule, Queued, Ready
  <2>2. left'[t] = left[t] + 1
    <3>1. left \in [Threads -> Int]
      BY DEF Queues
    <3> QED
      BY <3>1 DEF Schedule
  <2> QED
    BY <2>1, <2>2, Lengths DEF Owed
<1> QED
  BY <1>3, <1>4, <1>5

LEMMA TakeNextOwes ==
    ASSUME Queues, NEW t \in Threads, TakeNext(t)
    PROVE  /\ Queues' /\ Head(in[t]) \in AnyJob /\ Owed(t)' = Owed(t) + 1
           /\ \A u \in Threads \ {t} : Owed(u)' = Owed(u)
<1>1. in[t] \in Seq(AnyJob) /\ in[t] # <<>>
  BY Lengths DEF TakeNext
<1>2. /\ Head(in[t]) \in AnyJob /\ Tail(in[t]) \in Seq(AnyJob)
      /\ Len(Tail(in[t])) = Len(in[t]) - 1
  BY <1>1, HeadTailProperties
<1>3. Queues'
  BY <1>2 DEF Queues, TakeNext
<1>4. \A u \in Threads \ {t} : Owed(u)' = Owed(u)
  BY DEF Queues, TakeNext, Owed, Queued, Ready
<1>5. Owed(t)' = Owed(t) + 1
  <2>1. left' = left /\ Queued(t)' = Queued(t) - 1 /\ Ready(t)' = Ready(t)
    BY <1>2 DEF Queues, TakeNext, Queued, Ready
  <2> QED
    BY <2>1, Lengths DEF Owed
<1> QED
  BY <1>2, <1>3, <1>4, <1>5

LEMMA FinishedOwes ==
    ASSUME Queues, NEW t \in Threads, NEW j \in AnyJob, Finished(t, j)
    PROVE  /\ Queues' /\ Owed(t)' = Owed(t) - 1
           /\ \A u \in Threads \ {t} : Owed(u)' = Owed(u)
<1>1. out[t] \in Seq(AnyJob)
  BY Lengths
<1>2. Append(out[t], j) \in Seq(AnyJob) /\ Len(Append(out[t], j)) = Len(out[t]) + 1
  BY <1>1, AppendProperties
<1>3. Queues'
  BY <1>2 DEF Queues, Finished
<1>4. \A u \in Threads \ {t} : Owed(u)' = Owed(u)
  BY DEF Queues, Finished, Owed, Queued, Ready
<1>5. Owed(t)' = Owed(t) - 1
  <2>1. left' = left /\ Queued(t)' = Queued(t) /\ Ready(t)' = Ready(t) + 1
    BY <1>2 DEF Queues, Finished, Queued, Ready
  <2> QED
    BY <2>1, Lengths DEF Owed
<1> QED
  BY <1>3, <1>4, <1>5

LEMMA TakeResultOwes ==
    ASSUME Queues, NEW t \in Threads, TakeResult(t)
    PROVE  Queues' /\ \A u \in Threads : Owed(u)' = Owed(u)
<1>1. out[t] \in Seq(AnyJob) /\ out[t] # <<>>
  BY Lengths DEF TakeResult
<1>2. Tail(out[t]) \in Seq(AnyJob) /\ Len(Tail(out[t])) = Len(out[t]) - 1
  BY <1>1, HeadTailProperties
<1>3. Queues'
  BY <1>2 DEF Queues, TakeResult
<1>4. \A u \in Threads \ {t} : Owed(u)' = Owed(u)
  BY DEF Queues, TakeResult, Owed, Queued, Ready
<1>5. Owed(t)' = Owed(t)
  <2>1. Queued(t)' = Queued(t) /\ Ready(t)' = Ready(t) - 1
    BY <1>2 DEF Queues, TakeResult, Queued, Ready
  <2>2. left'[t] = left[t] - 1
    <3>1. left \in [Threads -> Int]
      BY DEF Queues
    <3> QED
      BY <3>1 DEF TakeResult
  <2> QED
    BY <2>1, <2>2, Lengths DEF Owed
<1> QED
  BY <1>3, <1>4, <1>5

-----------------------------------------------------------------------------
\* A thread that moves on, and what it is owed before and after.
LEMMA Moved ==
    ASSUME PoolInv, NEW t \in Threads, NEW w \in Stages, wpc' = [wpc EXCEPT ![t] = w],
           \A u \in Threads \ {t} : Owed(u)' = Owed(u),
           w \in Early => wpc[t] \in Early /\ Owed(t)' = Owed(t) + Holding(w) - Holding(wpc[t])
    PROVE  wpc' \in [Threads -> Stages] /\ OwedInWork'
<1>1. wpc \in [Threads -> Stages]
  BY DEF PoolInv, Workers
<1>2. /\ wpc' \in [Threads -> Stages] /\ wpc'[t] = w
      /\ \A u \in Threads \ {t} : wpc'[u] = wpc[u]
  BY <1>1
<1>3. w \in Early => Owed(t)' = Holding(w)
  <2>1. Holding(w) \in Int /\ Holding(wpc[t]) \in Int
    BY DEF Holding
  <2>2. wpc[t] \in Early => Owed(t) = Holding(wpc[t])
    BY DEF PoolInv, OwedInWork
  <2> QED
    BY <2>1, <2>2
<1> QED
  BY <1>2, <1>3 DEF PoolInv, OwedInWork

\* A step that moves no thread and owes nothing new.
LEMMA Stayed ==
    ASSUME PoolInv, wpc' = wpc, \A u \in Threads : Owed(u)' = Owed(u)
    PROVE  OwedInWork'
  BY DEF PoolInv, OwedInWork

LEMMA SameQueues == ASSUME UNCHANGED <<in, out, left>>, Queues
                    PROVE  Queues' /\ \A u \in Threads : Owed(u)' = Owed(u)
  BY DEF Queues, Owed, Queued, Ready

LEMMA WorkerStep ==
    ASSUME PoolInv, NEW t \in Threads, Worker(t)
    PROVE  PoolInv'
<1> USE DEF workerVars, machineVars, loopVars, tapeVars, queueVars
<1>1. /\ Queues /\ wpc \in [Threads -> Stages] /\ job \in [Threads -> AnyJob]
      /\ batches \in Int
  BY DEF PoolInv, Workers
<1>2. Addressed'
  BY DEF PoolInv, Addressed, Worker, Awake, SetUp, TakeJob, Arrive, FinishSlice, FinishTape,
         FinalCheck, SignOut, WindDown, Leave
<1>3. ASSUME TakeNext(t), NEW w \in Stages, wpc' = [wpc EXCEPT ![t] = w],
             w \in Early => wpc[t] \in Early /\ Holding(w) = Holding(wpc[t]) + 1
      PROVE  Queues' /\ wpc' \in [Threads -> Stages] /\ OwedInWork'
  <2>1. /\ Queues' /\ Owed(t)' = Owed(t) + 1
        /\ \A u \in Threads \ {t} : Owed(u)' = Owed(u)
    BY <1>1, <1>3, TakeNextOwes
  <2>2. w \in Early => wpc[t] \in Early /\ Owed(t)' = Owed(t) + Holding(w) - Holding(wpc[t])
    <3>1. Owed(t) \in Int /\ Holding(wpc[t]) \in Int
      BY <1>1, Lengths DEF Owed, Holding
    <3> QED
      BY <1>3, <2>1, <3>1
  <2> QED
    BY <1>3, <2>1, <2>2, Moved
<1>4. ASSUME NEW j \in AnyJob, Finished(t, j), NEW w \in Stages, wpc' = [wpc EXCEPT ![t] = w],
             w \in Early => wpc[t] \in Early /\ Holding(wpc[t]) = Holding(w) + 1
      PROVE  Queues' /\ wpc' \in [Threads -> Stages] /\ OwedInWork'
  <2>1. /\ Queues' /\ Owed(t)' = Owed(t) - 1
        /\ \A u \in Threads \ {t} : Owed(u)' = Owed(u)
    BY <1>1, <1>4, FinishedOwes
  <2>2. w \in Early => wpc[t] \in Early /\ Owed(t)' = Owed(t) + Holding(w) - Holding(wpc[t])
    <3>1. Owed(t) \in Int /\ Holding(w) \in Int
      BY <1>1, Lengths DEF Owed, Holding
    <3> QED
      BY <1>4, <2>1, <3>1
  <2> QED
    BY <1>4, <2>1, <2>2, Moved
<1>5. ASSUME UNCHANGED <<in, out, left>>, NEW w \in Stages \ Early, wpc' = [wpc EXCEPT ![t] = w]
      PROVE  Queues' /\ wpc' \in [Threads -> Stages] /\ OwedInWork'
  BY <1>1, <1>5, SameQueues, Moved
<1>6. NoJob \in AnyJob /\ TapeJob \in AnyJob /\ Usage \in AnyJob
  BY DEF NoJob, TapeJob, Usage, Job, AnyJob
<1>7. CASE Awake(t)
  <2>1. Queues' /\ wpc' \in [Threads -> Stages] /\ OwedInWork'
    BY <1>3, <1>7 DEF Awake, WGoto, Stages, Early, Holding
  <2> QED
    BY <1>1, <1>2, <1>7, <2>1 DEF Awake, PoolInv, Workers
<1>8. CASE SetUp(t)
  <2>1. Queues' /\ wpc' \in [Threads -> Stages] /\ OwedInWork'
    BY <1>4, <1>6, <1>8 DEF SetUp, WGoto, Stages, Early, Holding
  <2> QED
    BY <1>1, <1>2, <1>8, <2>1 DEF SetUp, PoolInv, Workers
<1>9. CASE TakeJob(t)
  <2>1. Queues' /\ wpc' \in [Threads -> Stages] /\ OwedInWork'
    BY <1>3, <1>9 DEF TakeJob, WGoto, Stages, Early, Holding
  <2>2. Head(in[t]) \in AnyJob
    BY <1>1, <1>9, TakeNextOwes DEF TakeJob
  <2>3. job' \in [Threads -> AnyJob] /\ batches' \in Int
    BY <1>1, <1>9, <2>2 DEF TakeJob
  <2> QED
    BY <1>2, <2>1, <2>3 DEF PoolInv, Workers
<1>10. CASE Arrive(t)
  <2>1. Queues' /\ OwedInWork'
    BY <1>1, <1>10, SameQueues, Stayed DEF Arrive
  <2> QED
    BY <1>1, <1>2, <1>10, <2>1 DEF Arrive, PoolInv, Workers
<1>11. CASE FinishSlice(t)
  <2>1. job[t] \in AnyJob /\ wpc[t] = "busy"
    BY <1>1, <1>11 DEF FinishSlice, InSlice
  <2>2. Queues' /\ wpc' \in [Threads -> Stages] /\ OwedInWork'
    BY <1>4, <1>11, <2>1 DEF FinishSlice, WGoto, Stages, Early, Holding
  <2> QED
    BY <1>1, <1>2, <1>11, <2>2 DEF FinishSlice, PoolInv, Workers
<1>12. CASE FinishTape(t)
  <2>1. Queues' /\ wpc' \in [Threads -> Stages] /\ OwedInWork'
    BY <1>4, <1>6, <1>12 DEF FinishTape, WGoto, Stages, Early, Holding
  <2> QED
    BY <1>1, <1>2, <1>12, <2>1 DEF FinishTape, PoolInv, Workers
<1>13. CASE FinalCheck(t)
  <2>1. Queues' /\ wpc' \in [Threads -> Stages] /\ OwedInWork'
    BY <1>5, <1>13 DEF FinalCheck, WGoto, Stages, Early
  <2> QED
    BY <1>1, <1>2, <1>13, <2>1 DEF FinalCheck, PoolInv, Workers
<1>14. CASE SignOut(t)
  <2>1. Queues' /\ wpc' \in [Threads -> Stages] /\ OwedInWork'
    BY <1>3, <1>14 DEF SignOut, WGoto, Stages, Early
  <2> QED
    BY <1>1, <1>2, <1>14, <2>1 DEF SignOut, PoolInv, Workers
<1>15. CASE WindDown(t)
  <2>1. Queues' /\ wpc' \in [Threads -> Stages] /\ OwedInWork'
    BY <1>4, <1>6, <1>15 DEF WindDown, WGoto, Stages, Early
  <2> QED
    BY <1>1, <1>2, <1>15, <2>1 DEF WindDown, PoolInv, Workers
<1>16. CASE Leave(t)
  <2>1. Queues' /\ wpc' \in [Threads -> Stages] /\ OwedInWork'
    BY <1>5, <1>16 DEF Leave, WGoto, Stages, Early
  <2> QED
    BY <1>1, <1>2, <1>16, <2>1 DEF Leave, PoolInv, Workers
<1> QED
  BY <1>7, <1>8, <1>9, <1>10, <1>11, <1>12, <1>13, <1>14, <1>15, <1>16 DEF Worker

-----------------------------------------------------------------------------
\* The slices of a loop lie between numbers, and go to threads that exist.
LEMMA SliceIsJob ==
    ASSUME NEW n \in Nat, NEW k \in Nat, NEW i \in Nat, NEW g \in {1, 2}
    PROVE  Begin(i, n, 0, k, g) \in Int /\ End(i, n, 0, k, g) \in Int
<1>1. ((n + k) \div (k + 1)) \in Int
  OBVIOUS
<1>2. NPerThread(n, k, g) \in Int
  BY <1>1 DEF NPerThread
<1>3. ASSUME NEW x \in Int PROVE (i - 1) * x \in Int /\ i * x \in Int
  BY <1>3
<1> QED
  BY <1>2, <1>3 DEF Begin, End

LEMMA FoundExist ==
    ASSUME PoolInv
    PROVE  FindAvailable \subseteq Threads /\ IsFiniteSet(FindAvailable)
<1>1. FindAvailable \in SUBSET (1..(nthreads - 1)) /\ nthreads \in Int
  BY ThreadPoolAssumption DEF FindAvailable, PoolInv, Addressed
<1>2. 1..(nthreads - 1) \subseteq Threads
  BY ThreadPoolAssumption DEF PoolInv, Addressed, Threads
<1>3. IsFiniteSet(1..(nthreads - 1))
  BY <1>1, FS_Interval
<1> QED
  BY <1>1, <1>2, <1>3, FS_Subset

LEMMA DistributeOwes ==
    ASSUME PoolInv, NEW type \in {"loop", "sync", "check"}, NEW n \in Nat, NEW g \in {1, 2},
           Distribute(type, n, g), out' = out
    PROVE  /\ Queues' /\ (\A u \in Threads : Owed(u)' = Owed(u))
           /\ available' \subseteq Threads
<1> DEFINE found == FindAvailable
           k == Cardinality(found)
           used == IF k = 0 THEN 0 ELSE Used(n, 0, k, g)
           busy == {t \in found : Rank(t, found) <= used}
           slice(i) == Job(type, batches + 1, Begin(i, n, 0, k, g), End(i, n, 0, k, g))
<1>1. found \subseteq Threads /\ k \in Nat
  BY FoundExist, FS_CardinalityType
<1>2. ASSUME NEW t \in Threads PROVE slice(Rank(t, found)) \in AnyJob
  <2>1. Rank(t, found) \in Nat
    BY FoundExist, FS_Subset, FS_CardinalityType DEF Rank
  <2>2. Begin(Rank(t, found), n, 0, k, g) \in Int /\ End(Rank(t, found), n, 0, k, g) \in Int
    BY <1>1, <2>1, SliceIsJob
  <2>3. batches + 1 \in Int
    BY DEF PoolInv, Workers
  <2> QED
    BY <2>2, <2>3 DEF Job, AnyJob
<1>3. /\ available' = (IF k = 0 THEN available ELSE busy)
      /\ in' = [t \in Threads |-> IF t \in busy THEN Append(in[t], slice(Rank(t, found))) ELSE in[t]]
      /\ left' = [t \in Threads |-> left[t] + Count(t \in busy)]
  BY DEF Distribute
<1> HIDE DEF used, busy, slice, k, found
<1>4. Queues
  BY DEF PoolInv
<1>5. ASSUME NEW t \in Threads
      PROVE  in'[t] \in Seq(AnyJob) /\ left'[t] \in Int /\ Owed(t)' = Owed(t)
  <2>1. in[t] \in Seq(AnyJob) /\ left[t] \in Int
    BY <1>4, Lengths
  <2>2. CASE t \in busy
    <3>1. in'[t] = Append(in[t], slice(Rank(t, found))) /\ left'[t] = left[t] + 1
      BY <1>3, <2>2 DEF Count
    <3>2. /\ Append(in[t], slice(Rank(t, found))) \in Seq(AnyJob)
          /\ Len(Append(in[t], slice(Rank(t, found)))) = Len(in[t]) + 1
      BY <1>2, <2>1, AppendProperties
    <3>3. Queued(t)' = Queued(t) + 1 /\ Ready(t)' = Ready(t)
      BY <3>1, <3>2 DEF Queued, Ready
    <3>4. Owed(t)' = Owed(t)
      <4>1. Queued(t) \in Nat /\ Ready(t) \in Nat /\ left[t] \in Int
        BY <1>4, Lengths
      <4>2. left'[t] = left[t] + 1
        BY <3>1
      <4> QED
        BY <3>3, <4>1, <4>2 DEF Owed
    <3> QED
      BY <2>1, <3>1, <3>2, <3>4
  <2>3. CASE t \notin busy
    <3>1. in'[t] = in[t] /\ left'[t] = left[t] + 0
      BY <1>3, <2>3 DEF Count
    <3>2. left'[t] = left[t]
      BY <2>1, <3>1
    <3> QED
      BY <2>1, <3>1, <3>2 DEF Owed, Queued, Ready
  <2> QED
    BY <2>2, <2>3
<1>6. Queues'
  <2>1. in' \in [Threads -> Seq(AnyJob)]
    BY <1>3, <1>5
  <2>2. left' \in [Threads -> Int]
    BY <1>3, <1>5
  <2> QED
    BY <1>4, <2>1, <2>2 DEF Queues
<1>7. available' \subseteq Threads
  BY <1>1, <1>3 DEF busy, PoolInv, Addressed
<1> QED
  BY <1>5, <1>6, <1>7

LEMMA MainTapeStep ==
    ASSUME PoolInv, MainTape
    PROVE  PoolInv'
<1> USE DEF workerVars, machineVars, loopVars, tapeVars, queueVars
<1>1. /\ Queues /\ wpc \in [Threads -> Stages] /\ job \in [Threads -> AnyJob]
      /\ batches \in Int /\ 0 \in Threads
  BY ThreadPoolAssumption DEF PoolInv, Workers, Threads
<1>2. TapeJob \in AnyJob
  BY DEF TapeJob, Job, AnyJob
<1>3. ASSUME NEW t \in Threads, RunTape(t) PROVE PoolInv'
  <2>1. Queues' /\ OwedInWork'
    BY <1>1, <1>2, <1>3, ScheduleOwes, Stayed DEF RunTape
  <2> QED
    BY <1>1, <1>3, <2>1 DEF RunTape, PoolInv, Workers, Addressed
<1>4. ASSUME NEW t \in Threads, JoinTape(t) PROVE PoolInv'
  <2>1. Queues' /\ OwedInWork'
    BY <1>1, <1>4, TakeResultOwes, Stayed DEF JoinTape
  <2> QED
    BY <1>1, <1>4, <2>1 DEF JoinTape, PoolInv, Workers, Addressed
<1>5. CASE BeginLoop
  <2>1. PICK type \in {"loop", "sync", "check"}, n \in Nat, g \in {1, 2} : Distribute(type, n, g)
    <3>1. MaxItems \in Nat
      BY ThreadPoolAssumption
    <3>2. 1..MaxItems \subseteq Nat /\ 0 \in Nat /\ 1..2 = {1, 2}
      BY <3>1
    <3> QED
      BY <1>5, <3>2 DEF BeginLoop
  <2>2. Queues' /\ OwedInWork' /\ available' \subseteq Threads
    BY <1>5, <2>1, DistributeOwes, Stayed DEF BeginLoop
  <2>3. batches' \in Int /\ UNCHANGED <<wpc, job, mpc, nthreads, mthread>>
    BY <1>1, <1>5 DEF BeginLoop
  <2> QED
    BY <1>1, <2>2, <2>3 DEF PoolInv, Workers, Addressed
<1>6. CASE FinishLocal
  <2>1. Queues' /\ OwedInWork'
    BY <1>1, <1>6, SameQueues, Stayed DEF FinishLocal
  <2> QED
    BY <1>1, <1>6, <2>1 DEF FinishLocal, PoolInv, Workers, Addressed
<1>7. CASE WrapUpThread
  <2>1. PICK t \in available : TakeResult(t) /\ available' = available \ {t}
    BY <1>7 DEF WrapUpThread
  <2>2. t \in Threads
    BY DEF PoolInv, Addressed
  <2>3. Queues' /\ OwedInWork'
    BY <1>1, <1>7, <2>1, <2>2, TakeResultOwes, Stayed DEF WrapUpThread
  <2> QED
    BY <1>1, <1>7, <2>1, <2>3 DEF WrapUpThread, PoolInv, Workers, Addressed
<1>8. CASE EndLoop
  <2>1. Queues' /\ OwedInWork'
    BY <1>1, <1>8, SameQueues, Stayed DEF EndLoop
  <2> QED
    BY <1>1, <1>8, <2>1 DEF EndLoop, PoolInv, Workers, Addressed
<1>9. CASE EndTape
  <2>1. /\ Queues' /\ Owed(0)' = Owed(0) - 1
        /\ \A u \in Threads \ {0} : Owed(u)' = Owed(u)
    BY <1>1, <1>2, <1>9, FinishedOwes DEF EndTape
  <2>2. wpc[0] = "busy" /\ wpc' = [wpc EXCEPT ![0] = "loop"]
    BY <1>9 DEF EndTape, InTape, WGoto
  <2>3. Owed(0)' = Owed(0) + Holding("loop") - Holding(wpc[0]) /\ "loop" \in Stages
    <3>1. Owed(0) \in Int
      BY <1>1, Lengths DEF Owed
    <3> QED
      BY <2>1, <2>2, <3>1 DEF Holding, Stages
  <2>4. wpc' \in [Threads -> Stages] /\ OwedInWork'
    BY <1>1, <2>1, <2>2, <2>3, Moved DEF Early
  <2> QED
    BY <1>1, <1>9, <2>1, <2>4 DEF EndTape, PoolInv, Workers, Addressed
<1> QED
  BY <1>3, <1>4, <1>5, <1>6, <1>7, <1>8, <1>9 DEF MainTape

LEMMA MachineStep ==
    ASSUME PoolInv, Machine
    PROVE  PoolInv'
<1> USE DEF workerVars, machineVars, loopVars, tapeVars, queueVars
<1>1. /\ Queues /\ wpc \in [Threads -> Stages] /\ job \in [Threads -> AnyJob]
      /\ batches \in Int /\ 0 \in Threads
  BY ThreadPoolAssumption DEF PoolInv, Workers, Threads
<1>2. NoJob \in AnyJob /\ StopJob \in AnyJob /\ TapeJob \in AnyJob
  BY DEF NoJob, StopJob, TapeJob, Job, AnyJob
<1>3. mpc \in Starts => mthread \in Threads
  BY ThreadPoolAssumption DEF PoolInv, Addressed, Threads
<1>4. CASE Prepare
  <2>1. Queues' /\ OwedInWork'
    BY <1>1, <1>4, SameQueues, Stayed DEF Prepare
  <2>2. Addressed'
    BY <1>4, ThreadPoolAssumption DEF Prepare, PoolInv, Addressed, Starts
  <2> QED
    BY <1>1, <1>4, <2>1, <2>2 DEF Prepare, PoolInv, Workers
<1>5. CASE StartThread
  <2>1. PICK t \in Threads : t = mthread
    BY <1>3, <1>5 DEF StartThread, Starts
  <2>2. /\ Schedule(t, NoJob) /\ wpc[t] = "absent" /\ wpc' = [wpc EXCEPT ![t] = "created"]
        /\ "created" \in Stages
    BY <1>5, <2>1 DEF StartThread, WGoto, Stages
  <2>3. Queues' /\ \A u \in Threads : Owed(u)' = Owed(u)
    BY <1>1, <1>2, <2>2, ScheduleOwes
  <2>4. Owed(t)' = Owed(t) + Holding("created") - Holding(wpc[t])
    <3>1. Owed(t) \in Int
      BY <1>1, Lengths DEF Owed
    <3> QED
      BY <2>2, <2>3, <3>1 DEF Holding
  <2>5. wpc' \in [Threads -> Stages] /\ OwedInWork'
    BY <2>2, <2>3, <2>4, Moved DEF Early
  <2> QED
    BY <1>1, <1>5, <2>3, <2>5 DEF StartThread, PoolInv, Workers, Addressed
<1>6. ASSUME NEW t \in Threads, NEW j \in AnyJob, Schedule(t, j), UNCHANGED workerVars
      PROVE  Queues' /\ OwedInWork'
  BY <1>1, <1>6, ScheduleOwes, Stayed
<1>7. ASSUME NEW t \in Threads, TakeResult(t), UNCHANGED workerVars
      PROVE  Queues' /\ OwedInWork'
  BY <1>1, <1>7, TakeResultOwes, Stayed
<1>8. CASE ThreadStarted
  <2>1. Queues' /\ OwedInWork'
    BY <1>3, <1>7, <1>8 DEF ThreadStarted, Starts
  <2>2. Addressed'
    BY <1>8 DEF ThreadStarted, PoolInv, Addressed, Starts
  <2> QED
    BY <1>1, <1>8, <2>1, <2>2 DEF ThreadStarted, PoolInv, Workers
<1>9. CASE RunMain
  <2>1. Queues' /\ OwedInWork'
    BY <1>1, <1>2, <1>6, <1>9 DEF RunMain
  <2>2. Addressed'
    BY <1>9 DEF RunMain, PoolInv, Addressed, Starts
  <2> QED
    BY <1>1, <1>9, <2>1, <2>2 DEF RunMain, PoolInv, Workers
<1>10. CASE JoinMain
  <2>1. Queues' /\ OwedInWork'
    BY <1>1, <1>7, <1>10 DEF JoinMain
  <2>2. Addressed'
    BY <1>10 DEF JoinMain, PoolInv, Addressed, Starts
  <2> QED
    BY <1>1, <1>10, <2>1, <2>2 DEF JoinMain, PoolInv, Workers
<1>11. CASE StopThread
  <2>1. Queues' /\ OwedInWork'
    BY <1>2, <1>3, <1>6, <1>11 DEF StopThread, Starts
  <2>2. Addressed'
    BY <1>11 DEF StopThread, PoolInv, Addressed, Starts
  <2> QED
    BY <1>1, <1>11, <2>1, <2>2 DEF StopThread, PoolInv, Workers
<1>12. CASE LetSignOut
  <2>1. Queues' /\ OwedInWork'
    BY <1>2, <1>3, <1>6, <1>12 DEF LetSignOut, Starts
  <2>2. Addressed'
    BY <1>12 DEF LetSignOut, PoolInv, Addressed, Starts
  <2> QED
    BY <1>1, <1>12, <2>1, <2>2 DEF LetSignOut, PoolInv, Workers
<1>13. CASE TakeUsage
  <2>1. Queues' /\ OwedInWork'
    BY <1>3, <1>7, <1>13 DEF TakeUsage, Starts
  <2>2. Addressed'
    BY <1>13 DEF TakeUsage, PoolInv, Addressed, Starts
  <2> QED
    BY <1>1, <1>13, <2>1, <2>2 DEF TakeUsage, PoolInv, Workers
<1>14. CASE JoinThread
  <2>1. Queues' /\ OwedInWork'
    BY <1>1, <1>14, SameQueues, Stayed DEF JoinThread
  <2>2. Addressed'
    BY <1>14 DEF JoinThread, PoolInv, Addressed, Starts
  <2> QED
    BY <1>1, <1>14, <2>1, <2>2 DEF JoinThread, PoolInv, Workers
<1> QED
  BY <1>4, <1>5, <1>8, <1>9, <1>10, <1>11, <1>12, <1>13, <1>14 DEF Machine

-----------------------------------------------------------------------------
LEMMA PoolInit == Init => PoolInv
<1> SUFFICES ASSUME Init PROVE PoolInv
  OBVIOUS
<1>1. NoJob \in AnyJob
  BY DEF NoJob, Job, AnyJob
<1>2. <<>> \in Seq(AnyJob)
  BY EmptySeq
<1>3. Queues
  BY <1>2 DEF Init, Queues
<1>4. Workers
  BY <1>1 DEF Init, Workers, Stages
<1>5. Addressed
  BY ThreadPoolAssumption DEF Init, Addressed, Starts
<1>6. OwedInWork
  <2> SUFFICES ASSUME NEW t \in Threads PROVE Owed(t) = 0 /\ Holding(wpc[t]) = 0
    BY DEF OwedInWork
  <2>1. Queued(t) = 0 /\ Ready(t) = 0 /\ left[t] = 0 /\ wpc[t] = "absent"
    BY <1>2, EmptySeq DEF Init, Queued, Ready
  <2> QED
    BY <2>1 DEF Owed, Holding
<1> QED
  BY <1>3, <1>4, <1>5, <1>6 DEF PoolInv

LEMMA PoolStep == PoolInv /\ [Next]_vars => PoolInv'
<1> SUFFICES ASSUME PoolInv, [Next]_vars PROVE PoolInv'
  OBVIOUS
<1>1. CASE UNCHANGED vars
  BY <1>1 DEF PoolInv, Queues, Workers, Addressed, OwedInWork, Owed, Queued, Ready, vars,
         queueVars, workerVars, machineVars, tapeVars, loopVars
<1>2. CASE Next
  BY <1>1, <1>2, MachineStep, MainTapeStep, WorkerStep DEF Next
<1> QED
  BY <1>1, <1>2

\* The counter that decides whether a thread is available (ThreadQueue::left) is at
\* all times the number of jobs on their way, however many threads, tapes and loops.
THEOREM JobsCounted == Spec => []LeftCounts
<1>1. PoolInv => LeftCounts
  BY OwedSuffices
<1> QED
  BY <1>1, PoolInit, PoolStep, PTL DEF Spec

-----------------------------------------------------------------------------
(* The order in which the threads of the virtual machine come and go, and  *)
(* which of them are available.                                            *)

\* A main tape runs between RunMain and JoinMain only, and what it uses is given back.
Ordered ==
    /\ tpc \in {"none", "choose", "local", "wrapup"}
    /\ tapes \subseteq Threads \ {0} /\ available \subseteq Threads \ {0}
    /\ tpc = "none" => tapes = {}
    /\ tpc \in {"none", "choose"} => available = {}
    /\ tpc # "none" => mpc = "join" /\ wpc[0] = "busy"

\* Threads are set up one at a time, and say nothing before they are.
Startup ==
    \A t \in Threads :
        /\ wpc[t] \in {"created", "setup"} => mpc = "starting" /\ mthread = t
        /\ wpc[t] \in {"absent", "created", "setup"} => out[t] = <<>>
        /\ t >= nthreads \/ (mpc = "starting" /\ t > mthread) => wpc[t] = "absent"

\* After "stop" a thread gets nothing but the sign that it is its turn.
StopSent(t) ==
    (mpc = "stop" /\ t < mthread) \/ mpc \in {"signout", "usage", "joining", "done"}
Turn(t) == mpc \in {"usage", "joining"} /\ mthread = t
Stopping ==
    \A t \in Threads :
        /\ ~StopSent(t) => wpc[t] \in Early
        /\ wpc[t] \in {"final", "signout"} /\ in[t] # <<>> => Turn(t)
        /\ wpc[t] \in {"winddown", "leaving"} => Turn(t)
StopLast ==
    \A t \in Threads : wpc[t] \in Early => \A i \in 1..Len(in[t]) :
        in[t][i].type = "stop" =>
            StopSent(t) /\ (i = Len(in[t]) \/ (i + 1 = Len(in[t]) /\ Turn(t)))

\* Before the machine stops, the jobs of a thread are accounted for: the main tape, a
\* tape, a slice, or the stand-in for its initialization.
BeforeStop == {"prepare", "starting", "run", "join"}
Account(t) ==
    Count(t = 0 /\ mpc = "join") + Count(t \in tapes) + Count(t \in available)
    + Count(mpc = "starting" /\ mthread = t /\ wpc[t] # "absent")
Accounts == mpc \in BeforeStop => \A t \in Threads : left[t] = Account(t)
\* There is no main tape to begin unless the machine waits for its end.
FirstTape == mpc # "join" => \A i \in 1..Len(in[0]) : in[0][i].type # "tape"

MachineInv == PoolInv /\ Ordered /\ Startup /\ Stopping /\ StopLast /\ Accounts /\ FirstTape

-----------------------------------------------------------------------------
\* What the operations of ThreadQueue do to the queues, element by element.
LEMMA ScheduleFacts ==
    ASSUME Queues, NEW t \in Threads, NEW j \in AnyJob, Schedule(t, j)
    PROVE  /\ \A u \in Threads \ {t} : in'[u] = in[u] /\ left'[u] = left[u]
           /\ out' = out /\ left'[t] = left[t] + 1 /\ in'[t] # <<>>
           /\ Len(in'[t]) = Len(in[t]) + 1 /\ in'[t][Len(in[t]) + 1] = j
           /\ \A i \in 1..Len(in[t]) : in'[t][i] = in[t][i]
<1>1. in \in [Threads -> Seq(AnyJob)] /\ left \in [Threads -> Int] /\ in[t] \in Seq(AnyJob)
  BY DEF Queues
<1>2. /\ in'[t] = Append(in[t], j) /\ left'[t] = left[t] + 1 /\ out' = out
      /\ \A u \in Threads \ {t} : in'[u] = in[u] /\ left'[u] = left[u]
  BY <1>1 DEF Schedule
<1>3. /\ Len(Append(in[t], j)) = Len(in[t]) + 1 /\ Append(in[t], j)[Len(in[t]) + 1] = j
      /\ \A i \in 1..Len(in[t]) : Append(in[t], j)[i] = in[t][i]
      /\ Append(in[t], j) # <<>>
  BY <1>1, AppendProperties
<1> QED
  BY <1>2, <1>3

LEMMA TakeNextFacts ==
    ASSUME Queues, NEW t \in Threads, TakeNext(t)
    PROVE  /\ \A u \in Threads \ {t} : in'[u] = in[u]
           /\ out' = out /\ left' = left /\ in[t] # <<>> /\ Head(in[t]) = in[t][1]
           /\ Len(in'[t]) = Len(in[t]) - 1 /\ Len(in[t]) \in Nat \ {0}
           /\ (Len(in[t]) = 1 => in'[t] = <<>>)
           /\ \A i \in 1..Len(in'[t]) : in'[t][i] = in[t][i + 1] /\ i + 1 \in 1..Len(in[t])
<1>1. in \in [Threads -> Seq(AnyJob)] /\ in[t] \in Seq(AnyJob) /\ in[t] # <<>>
  BY DEF Queues, TakeNext
<1>2. /\ in'[t] = Tail(in[t]) /\ out' = out /\ left' = left
      /\ \A u \in Threads \ {t} : in'[u] = in[u]
  BY <1>1 DEF TakeNext
<1>3. /\ Len(Tail(in[t])) = Len(in[t]) - 1 /\ Tail(in[t]) \in Seq(AnyJob)
      /\ \A i \in 1..Len(Tail(in[t])) : Tail(in[t])[i] = in[t][i + 1]
  BY <1>1, HeadTailProperties
<1>4. Len(in[t]) \in Nat \ {0} /\ Head(in[t]) = in[t][1]
  BY <1>1, LenProperties, EmptySeq
<1>5. Len(in[t]) = 1 => in'[t] = <<>>
  <2>1. \A s \in Seq(AnyJob) : Len(s) = 0 => s = <<>>
    BY EmptySeq
  <2>2. Len(in[t]) = 1 => Len(Tail(in[t])) = 0
    BY <1>3, <1>4
  <2> QED
    BY <1>2, <1>3, <2>1, <2>2
<1> QED
  BY <1>1, <1>2, <1>3, <1>4, <1>5

LEMMA FinishedFacts ==
    ASSUME Queues, NEW t \in Threads, NEW j, Finished(t, j)
    PROVE  in' = in /\ left' = left /\ \A u \in Threads \ {t} : out'[u] = out[u]
  BY DEF Queues, Finished

LEMMA TakeResultFacts ==
    ASSUME Queues, NEW t \in Threads, TakeResult(t)
    PROVE  /\ \A u \in Threads \ {t} : out'[u] = out[u] /\ left'[u] = left[u]
           /\ in' = in /\ left'[t] = left[t] - 1 /\ out[t] # <<>>
<1>1. out \in [Threads -> Seq(AnyJob)] /\ left \in [Threads -> Int]
  BY DEF Queues
<1> QED
  BY <1>1 DEF TakeResult

-----------------------------------------------------------------------------
\* A thread's own step: it is not the one to say which jobs there are, nor whose turn it is.
LEMMA WorkerCounts ==
    ASSUME PoolInv, Ordered, NEW t \in Threads, Worker(t)
    PROVE  /\ left' = left /\ UNCHANGED <<mpc, nthreads, mthread, tapes, available>>
           /\ (tpc' = tpc \/ (TakeJob(t) /\ t = 0 /\ in[0][1].type = "tape" /\ tpc' = "choose"))
           /\ wpc[t] # "absent" /\ wpc'[t] # "absent"
           /\ t = 0 /\ wpc[0] = "busy" => wpc'[0] = "busy"
           /\ in' = in \/ TakeNext(t)
           /\ \A u \in Threads \ {t} : wpc'[u] = wpc[u] /\ in'[u] = in[u] /\ out'[u] = out[u]
<1> USE DEF workerVars, machineVars, loopVars, tapeVars, queueVars
<1>1. wpc \in [Threads -> Stages] /\ Queues
  BY DEF PoolInv, Workers
<1>2. Queues => in \in [Threads -> Seq(AnyJob)] /\ out \in [Threads -> Seq(AnyJob)]
  BY DEF Queues
<1>3. CASE Awake(t)
  BY <1>1, <1>2, <1>3 DEF Awake, TakeNext, WGoto
<1>4. CASE SetUp(t)
  BY <1>1, <1>2, <1>4 DEF SetUp, Finished, WGoto
<1>5. CASE TakeJob(t)
  <2>1. Head(in[t]) = in[t][1]
    BY <1>1, <1>5, TakeNextFacts DEF TakeJob
  <2> QED
    BY <1>1, <1>2, <1>5, <2>1 DEF TakeJob, TakeNext, WGoto
<1>6. CASE Arrive(t)
  <2>1. wpc[t] = "busy"
    <3>1. InSlice(t)
      BY <1>6 DEF Arrive
    <3> QED
      BY <3>1 DEF InSlice, Ordered
  <2> QED
    BY <1>1, <1>2, <1>6, <2>1 DEF Arrive
<1>7. CASE FinishSlice(t)
  BY <1>1, <1>2, <1>7 DEF FinishSlice, InSlice, Finished, WGoto
<1>8. CASE FinishTape(t)
  BY <1>1, <1>2, <1>8 DEF FinishTape, Finished, WGoto
<1>9. CASE FinalCheck(t)
  BY <1>1, <1>2, <1>9 DEF FinalCheck, WGoto
<1>10. CASE SignOut(t)
  BY <1>1, <1>2, <1>10 DEF SignOut, TakeNext, WGoto
<1>11. CASE WindDown(t)
  BY <1>1, <1>2, <1>11 DEF WindDown, Finished, WGoto
<1>12. CASE Leave(t)
  BY <1>1, <1>2, <1>12 DEF Leave, WGoto
<1> QED
  BY <1>3, <1>4, <1>5, <1>6, <1>7, <1>8, <1>9, <1>10, <1>11, <1>12 DEF Worker

LEMMA WorkerKeeps ==
    ASSUME MachineInv, NEW t \in Threads, Worker(t)
    PROVE  MachineInv'
<1>1. PoolInv /\ PoolInv' /\ Queues /\ wpc \in [Threads -> Stages] /\ 0 \in Threads
  BY WorkerStep, ThreadPoolAssumption DEF MachineInv, PoolInv, Workers, Threads
<1>2. /\ left' = left /\ UNCHANGED <<mpc, nthreads, mthread, tapes, available>>
      /\ wpc[t] # "absent" /\ wpc'[t] # "absent"
      /\ in' = in \/ TakeNext(t)
      /\ \A u \in Threads \ {t} : wpc'[u] = wpc[u] /\ in'[u] = in[u] /\ out'[u] = out[u]
  BY <1>1, WorkerCounts DEF MachineInv
<1>3. Ordered'
  <2>1. CASE tpc' = tpc
    BY <1>1, <1>2, <2>1, WorkerCounts DEF MachineInv, Ordered
  <2>2. CASE TakeJob(t) /\ t = 0 /\ in[0][1].type = "tape" /\ tpc' = "choose"
    <3>1. wpc[0] = "loop" /\ 1 \in 1..Len(in[0]) /\ Head(in[0]) = in[0][1]
      BY <1>1, <2>2, TakeNextFacts DEF TakeJob
    <3>2. mpc = "join" /\ tpc = "none"
      BY <2>2, <3>1 DEF MachineInv, FirstTape, Ordered
    <3>3. wpc'[0] = "busy"
      BY <1>1, <2>2, <3>1 DEF TakeJob, WGoto
    <3> QED
      BY <1>2, <2>2, <3>2, <3>3 DEF MachineInv, Ordered
  <2> QED
    BY <1>1, <2>1, <2>2, WorkerCounts DEF MachineInv
<1>4. Startup'
  <2>1. wpc'[t] \in {"created", "setup"} => wpc[t] \in {"created", "setup"} /\ out'[t] = out[t]
    BY <1>1 DEF Worker, Awake, SetUp, TakeJob, Arrive, FinishSlice, FinishTape, FinalCheck,
                SignOut, WindDown, Leave, WGoto, TakeNext, queueVars, workerVars
  <2> QED
    BY <1>1, <1>2, <2>1 DEF MachineInv, Startup
<1>5. \A u \in Threads : (StopSent(u)' <=> StopSent(u)) /\ (Turn(u)' <=> Turn(u))
  BY <1>2 DEF StopSent, Turn
<1>6. \A u \in Threads : in'[u] # <<>> => in[u] # <<>>
  BY <1>1, <1>2, TakeNextFacts
<1>7. StopLast'
  <2>1. wpc'[t] \in Early => wpc[t] \in Early
    <3>1. wpc[t] \in Early \/ wpc[t] \in {"final", "signout", "winddown", "leaving", "ended"}
      BY <1>1 DEF Stages, Early
    <3> QED
      BY <1>1, <3>1 DEF Worker, Awake, SetUp, TakeJob, Arrive, FinishSlice, FinishTape, FinalCheck,
                SignOut, WindDown, Leave, WGoto, workerVars, Early, InSlice
  <2> SUFFICES ASSUME NEW u \in Threads, wpc'[u] \in Early, NEW i \in 1..Len(in'[u]),
                      in'[u][i].type = "stop"
               PROVE  StopSent(u) /\ (i = Len(in'[u]) \/ (i + 1 = Len(in'[u]) /\ Turn(u)))
    BY <1>5 DEF StopLast
  <2>2. wpc[u] \in Early
    BY <1>2, <2>1
  <2>3. CASE in'[u] = in[u]
    BY <2>2, <2>3 DEF MachineInv, StopLast
  <2>4. CASE u = t /\ TakeNext(t)
    <3>1. /\ in'[u][i] = in[u][i + 1] /\ i + 1 \in 1..Len(in[u])
          /\ Len(in'[u]) = Len(in[u]) - 1 /\ Len(in[u]) \in Nat
      BY <1>1, <2>4, TakeNextFacts
    <3>2. StopSent(u) /\ (i + 1 = Len(in[u]) \/ (i + 1 + 1 = Len(in[u]) /\ Turn(u)))
      BY <2>2, <3>1 DEF MachineInv, StopLast
    <3> QED
      BY <3>1, <3>2
  <2> QED
    BY <1>2, <2>3, <2>4
<1>8. Stopping'
  <2> SUFFICES ASSUME NEW u \in Threads
               PROVE  /\ ~StopSent(u) => wpc'[u] \in Early
                      /\ wpc'[u] \in {"final", "signout"} /\ in'[u] # <<>> => Turn(u)
                      /\ wpc'[u] \in {"winddown", "leaving"} => Turn(u)
    BY <1>5 DEF Stopping
  <2>1. CASE u # t
    BY <1>2, <2>1 DEF MachineInv, Stopping
  <2>2. CASE u = t /\ TakeJob(t)
    <3>1. /\ Head(in[t]) = in[t][1] /\ 1 \in 1..Len(in[t])
          /\ (Len(in[t]) = 1 => in'[t] = <<>>)
      BY <1>1, <2>2, TakeNextFacts DEF TakeJob
    <3>2. CASE Head(in[t]).type = "stop"
      <4>1. wpc[t] \in Early /\ wpc'[t] = "final"
        BY <1>1, <2>2, <3>2 DEF TakeJob, WGoto, Early
      <4>2. StopSent(t) /\ (1 = Len(in[t]) \/ Turn(t))
        BY <3>1, <3>2, <4>1 DEF MachineInv, StopLast
      <4> QED
        <5>1. in'[t] # <<>> => Turn(t)
          BY <3>1, <4>2
        <5> QED
          BY <2>2, <4>1, <4>2, <5>1
    <3>3. CASE Head(in[t]).type # "stop"
      BY <1>1, <2>2, <3>3 DEF TakeJob, WGoto, Early
    <3> QED
      BY <3>2, <3>3
  <2>3. CASE u = t /\ (SetUp(t) \/ Awake(t) \/ Arrive(t) \/ FinishSlice(t) \/ FinishTape(t))
    <3>1. wpc'[t] \in Early
      BY <1>1, <1>3, <2>3 DEF SetUp, Awake, Arrive, FinishSlice, FinishTape, WGoto, Early,
         InSlice, MachineInv, Ordered, workerVars
    <3> QED
      BY <2>3, <3>1 DEF Early
  <2>4. CASE u = t /\ (FinalCheck(t) \/ SignOut(t) \/ WindDown(t) \/ Leave(t))
    <3>1. wpc[t] \notin Early
      BY <2>4 DEF FinalCheck, SignOut, WindDown, Leave, Early
    <3> QED
      BY <1>1, <1>6, <2>4, <3>1 DEF FinalCheck, SignOut, WindDown, Leave, TakeNext, WGoto, MachineInv, Stopping
  <2> QED
    BY <2>1, <2>2, <2>3, <2>4 DEF Worker
<1>9. Accounts'
  BY <1>2 DEF MachineInv, Accounts, Account
<1>10. FirstTape'
  <2> SUFFICES ASSUME mpc # "join", NEW i \in 1..Len(in'[0]) PROVE in'[0][i].type # "tape"
    BY <1>2 DEF FirstTape
  <2>1. CASE in'[0] = in[0]
    BY <2>1 DEF MachineInv, FirstTape
  <2>2. CASE t = 0 /\ TakeNext(t)
    <3>1. in'[0][i] = in[0][i + 1] /\ i + 1 \in 1..Len(in[0])
      BY <1>1, <2>2, TakeNextFacts
    <3> QED
      BY <3>1 DEF MachineInv, FirstTape
  <2> QED
    BY <1>1, <1>2, <2>1, <2>2
<1> QED
  BY <1>1, <1>3, <1>4, <1>7, <1>8, <1>9, <1>10 DEF MachineInv

-----------------------------------------------------------------------------
\* A loop goes to the threads listed as available from then on, a slice to each.
LEMMA DistributeFacts ==
    ASSUME PoolInv, available = {}, NEW type \in {"loop", "sync", "check"}, NEW n \in Nat,
           NEW g \in {1, 2}, Distribute(type, n, g)
    PROVE  /\ available' \subseteq 1..(nthreads - 1)
           /\ \A t \in Threads : left'[t] = left[t] + Count(t \in available')
           /\ \A t \in Threads \ available' : in'[t] = in[t]
           /\ \A t \in available' :
                  /\ left[t] = 0
                  /\ \E j \in AnyJob : j.type = type /\ in'[t] = Append(in[t], j)
<1> DEFINE found == FindAvailable
           k == Cardinality(found)
           used == IF k = 0 THEN 0 ELSE Used(n, 0, k, g)
           busy == {t \in found : Rank(t, found) <= used}
           slice(i) == Job(type, batches + 1, Begin(i, n, 0, k, g), End(i, n, 0, k, g))
<1>1. found \subseteq Threads /\ k \in Nat /\ IsFiniteSet(found)
  BY FoundExist, FS_CardinalityType
<1>2. /\ available' = (IF k = 0 THEN available ELSE busy)
      /\ in' = [t \in Threads |-> IF t \in busy THEN Append(in[t], slice(Rank(t, found))) ELSE in[t]]
      /\ left' = [t \in Threads |-> left[t] + Count(t \in busy)]
  BY DEF Distribute
<1>3. found = {t \in 1..(nthreads - 1) : left[t] = 0}
  BY DEF FindAvailable, IsAvailable
<1>4. \A t \in Threads : slice(Rank(t, found)) \in AnyJob /\ slice(Rank(t, found)).type = type
  <2> TAKE t \in Threads
  <2>1. Rank(t, found) \in Nat
    BY FoundExist, FS_Subset, FS_CardinalityType DEF Rank
  <2>2. Begin(Rank(t, found), n, 0, k, g) \in Int /\ End(Rank(t, found), n, 0, k, g) \in Int
    BY <1>1, <2>1, SliceIsJob
  <2>3. batches + 1 \in Int
    BY DEF PoolInv, Workers
  <2> QED
    BY <2>2, <2>3 DEF Job, AnyJob
<1>5. k = 0 => busy = {}
  <2>1. k = 0 => found = {}
    BY <1>1, FS_EmptySet
  <2> QED
    BY <2>1
<1>6. busy \subseteq found
  OBVIOUS
<1> HIDE DEF used, busy, slice, k, found
<1>7. available' = busy
  BY <1>2, <1>5
<1>8. \A t \in busy : in'[t] = Append(in[t], slice(Rank(t, found)))
  BY <1>1, <1>2, <1>6
<1> QED
  BY <1>1, <1>2, <1>3, <1>4, <1>6, <1>7, <1>8

LEMMA TapeKeeps ==
    ASSUME MachineInv, MainTape
    PROVE  MachineInv'
<1> USE DEF workerVars, machineVars, loopVars, tapeVars, queueVars
<1>1. /\ PoolInv /\ Queues /\ wpc \in [Threads -> Stages] /\ 0 \in Threads /\ PoolInv'
      /\ MaxThreads \in Nat /\ nthreads \in 0..MaxThreads
  BY MainTapeStep, ThreadPoolAssumption DEF MachineInv, PoolInv, Workers, Threads, Addressed
<1>2. /\ tpc # "none" /\ UNCHANGED <<mpc, nthreads, mthread>>
  BY DEF MainTape, RunTape, JoinTape, BeginLoop, FinishLocal, WrapUpThread, EndLoop, EndTape, InTape
<1>3. mpc = "join" /\ wpc[0] = "busy"
  BY <1>2 DEF MachineInv, Ordered
<1>4. \A t \in Threads : ~StopSent(t) /\ ~Turn(t) /\ wpc[t] \in Early
  BY <1>3 DEF StopSent, Turn, MachineInv, Stopping
<1>5. \A t \in Threads : \A i \in 1..Len(in[t]) : in[t][i].type # "stop"
  BY <1>4 DEF MachineInv, StopLast
<1>6. \A t \in Threads : left[t] = Account(t)
  BY <1>3 DEF MachineInv, Accounts, BeforeStop
<1>7. \A t \in Threads : Account(t) = Count(t = 0) + Count(t \in tapes) + Count(t \in available)
  BY <1>3 DEF Account, Count
<1>8. ASSUME Ordered',
             \A t \in Threads : wpc'[t] = wpc[t] \/ wpc'[t] = "loop",
             \A t \in Threads : wpc[t] = "absent" => wpc'[t] = wpc[t] /\ out'[t] = out[t],
             \A t \in Threads : \A i \in 1..Len(in'[t]) : in'[t][i].type # "stop",
             \A t \in Threads :
                left'[t] = Count(t = 0) + Count(t \in tapes') + Count(t \in available')
      PROVE  MachineInv'
  <2>1. Startup'
    BY <1>2, <1>3, <1>8 DEF MachineInv, Startup
  <2>2. \A t \in Threads : ~StopSent(t)' /\ ~Turn(t)'
    BY <1>2, <1>3 DEF StopSent, Turn
  <2>3. Stopping'
    BY <1>4, <1>8, <2>2 DEF Stopping, Early
  <2>4. StopLast'
    BY <1>8 DEF StopLast
  <2>5. Accounts'
    BY <1>2, <1>3, <1>8 DEF Accounts, Account, Count
  <2>6. FirstTape'
    BY <1>2, <1>3 DEF FirstTape
  <2> QED
    BY <1>1, <1>8, <2>1, <2>3, <2>4, <2>5, <2>6 DEF MachineInv
<1>9. ASSUME NEW t \in Threads, RunTape(t) PROVE MachineInv'
  <2>1. Schedule(t, TapeJob) /\ TapeJob \in AnyJob /\ TapeJob.type # "stop"
    BY <1>9 DEF RunTape, TapeJob, Job, AnyJob
  <2>2. t # 0 /\ t \notin tapes /\ tpc = "choose" /\ available = {}
    BY <1>9 DEF RunTape, InTape, MachineInv, Ordered
  <2>3. Ordered'
    BY <1>2, <1>3, <1>9, <2>2 DEF RunTape, MachineInv, Ordered
  <2>4. \A u \in Threads : \A i \in 1..Len(in'[u]) : in'[u][i].type # "stop"
    <3> TAKE u \in Threads
    <3>1. CASE u # t
      BY <1>1, <1>5, <2>1, <3>1, ScheduleFacts
    <3>2. CASE u = t
      <4>1. Len(in[t]) \in Nat
        BY <1>1, Lengths DEF Queued
      <4> QED
        BY <1>1, <1>5, <2>1, <3>2, <4>1, ScheduleFacts
    <3> QED
      BY <3>1, <3>2
  <2>5. \A u \in Threads :
           left'[u] = Count(u = 0) + Count(u \in tapes') + Count(u \in available')
    <3>1. \A u \in Threads \ {t} : left'[u] = left[u] /\ (u \in tapes' <=> u \in tapes)
      BY <1>1, <1>9, <2>1, ScheduleFacts DEF RunTape
    <3>2. left'[t] = left[t] + 1 /\ t \in tapes'
      BY <1>1, <1>9, <2>1, ScheduleFacts DEF RunTape
    <3>3. available' = available
      BY <1>9 DEF RunTape
    <3> QED
      BY <1>6, <1>7, <2>2, <3>1, <3>2, <3>3 DEF Count
  <2> QED
    BY <1>8, <1>9, <2>1, <2>3, <2>4, <2>5 DEF RunTape, Schedule
<1>10. ASSUME NEW t \in Threads, JoinTape(t) PROVE MachineInv'
  <2>1. TakeResult(t) /\ t \in tapes /\ tapes' = tapes \ {t} /\ available' = available
    BY <1>10 DEF JoinTape
  <2>2. Ordered'
    BY <1>2, <1>3, <1>10 DEF JoinTape, InTape, MachineInv, Ordered
  <2>3. \A u \in Threads :
           left'[u] = Count(u = 0) + Count(u \in tapes') + Count(u \in available')
    <3>1. \A u \in Threads \ {t} : left'[u] = left[u]
      BY <1>1, <2>1, TakeResultFacts
    <3>2. left'[t] = left[t] - 1
      BY <1>1, <2>1, TakeResultFacts
    <3> QED
      BY <1>6, <1>7, <2>1, <3>1, <3>2 DEF Count
  <2>4. \A u \in Threads : wpc[u] = "absent" => out'[u] = out[u]
    BY <1>1, <2>1, TakeResultFacts DEF MachineInv, Startup
  <2> QED
    BY <1>1, <1>5, <1>8, <1>10, <2>1, <2>2, <2>3, <2>4, TakeResultFacts DEF JoinTape
<1>11. CASE BeginLoop
  <2>1. PICK type \in {"loop", "sync", "check"}, n \in Nat, g \in {1, 2} : Distribute(type, n, g)
    <3>1. MaxItems \in Nat
      BY ThreadPoolAssumption
    <3>2. 1..MaxItems \subseteq Nat /\ 0 \in Nat /\ 1..2 = {1, 2}
      BY <3>1
    <3> QED
      BY <1>11, <3>2 DEF BeginLoop
  <2>2. available = {} /\ tpc = "choose"
    BY <1>11 DEF BeginLoop, InTape, MachineInv, Ordered
  <2>3. /\ available' \subseteq 1..(nthreads - 1)
        /\ \A t \in Threads : left'[t] = left[t] + Count(t \in available')
        /\ \A t \in Threads \ available' : in'[t] = in[t]
        /\ \A t \in available' : \E j \in AnyJob : j.type = type /\ in'[t] = Append(in[t], j)
    BY <1>1, <2>1, <2>2, DistributeFacts
  <2>4. Ordered'
    BY <1>1, <1>2, <1>3, <1>11, <2>2, <2>3 DEF BeginLoop, MachineInv, Ordered, Threads
  <2>5. \A t \in Threads : \A i \in 1..Len(in'[t]) : in'[t][i].type # "stop"
    <3> TAKE t \in Threads
    <3>1. CASE t \notin available'
      BY <1>5, <2>3, <3>1
    <3>2. CASE t \in available'
      <4>1. PICK j \in AnyJob : j.type = type /\ in'[t] = Append(in[t], j)
        BY <2>3, <3>2
      <4>2. in[t] \in Seq(AnyJob) /\ Len(in[t]) \in Nat
        BY <1>1, Lengths DEF Queued
      <4>3. /\ Len(in'[t]) = Len(in[t]) + 1 /\ in'[t][Len(in[t]) + 1] = j
            /\ \A i \in 1..Len(in[t]) : in'[t][i] = in[t][i]
        BY <4>1, <4>2, AppendProperties
      <4> QED
        BY <1>5, <4>1, <4>2, <4>3
    <3> QED
      BY <3>1, <3>2
  <2>6. \A t \in Threads :
           left'[t] = Count(t = 0) + Count(t \in tapes') + Count(t \in available')
    BY <1>6, <1>7, <1>11, <2>2, <2>3 DEF BeginLoop, Count
  <2> QED
    BY <1>8, <1>11, <2>4, <2>5, <2>6 DEF BeginLoop
<1>12. CASE FinishLocal
  <2>1. Ordered'
    BY <1>2, <1>3, <1>12 DEF FinishLocal, MachineInv, Ordered
  <2> QED
    BY <1>5, <1>6, <1>7, <1>8, <1>12, <2>1 DEF FinishLocal
<1>13. CASE WrapUpThread
  <2>1. PICK t \in available : TakeResult(t) /\ available' = available \ {t}
    BY <1>13 DEF WrapUpThread
  <2>2. t \in Threads
    BY <1>1 DEF PoolInv, Addressed
  <2>3. Ordered'
    BY <1>2, <1>3, <1>13, <2>1 DEF WrapUpThread, InTape, MachineInv, Ordered
  <2>4. \A u \in Threads :
           left'[u] = Count(u = 0) + Count(u \in tapes') + Count(u \in available')
    <3>1. \A u \in Threads \ {t} : left'[u] = left[u]
      BY <1>1, <2>1, <2>2, TakeResultFacts
    <3>2. left'[t] = left[t] - 1
      BY <1>1, <2>1, <2>2, TakeResultFacts
    <3>3. tapes' = tapes
      BY <1>13 DEF WrapUpThread
    <3> QED
      BY <1>6, <1>7, <2>1, <3>1, <3>2, <3>3 DEF Count
  <2>5. /\ \A u \in Threads : wpc[u] = "absent" => out'[u] = out[u]
        /\ in' = in
    BY <1>1, <2>1, <2>2, TakeResultFacts DEF MachineInv, Startup
  <2> QED
    BY <1>1, <1>5, <1>8, <1>13, <2>3, <2>4, <2>5 DEF WrapUpThread
<1>14. CASE EndLoop
  <2>1. Ordered'
    BY <1>2, <1>3, <1>14 DEF EndLoop, MachineInv, Ordered
  <2> QED
    BY <1>5, <1>6, <1>7, <1>8, <1>14, <2>1 DEF EndLoop
<1>15. CASE EndTape
  <2>1. /\ in' = in /\ left' = left /\ (\A u \in Threads \ {0} : out'[u] = out[u])
        /\ tapes = {} /\ available = {} /\ tpc' = "none" /\ UNCHANGED <<tapes, available>>
        /\ wpc' = [wpc EXCEPT ![0] = "loop"]
    BY <1>1, <1>15, FinishedFacts DEF EndTape, InTape, WGoto, MachineInv, Ordered
  <2>2. Ordered'
    BY <1>2, <1>3, <2>1 DEF MachineInv, Ordered
  <2> QED
    BY <1>1, <1>3, <1>5, <1>6, <1>7, <1>8, <2>1, <2>2
<1> QED
  BY <1>9, <1>10, <1>11, <1>12, <1>13, <1>14, <1>15 DEF MainTape

-----------------------------------------------------------------------------
\* No thread has been told to stop, or can have been, before the machine begins to.
LEMMA NotStopping ==
    ASSUME MachineInv, NEW t \in Threads, ~StopSent(t)
    PROVE  wpc[t] \in Early /\ \A i \in 1..Len(in[t]) : in[t][i].type # "stop"
  BY DEF MachineInv, Stopping, StopLast

\* A step of the machine that gives one thread a job.
LEMMA ElementsAfter ==
    ASSUME Queues, NEW t \in Threads, NEW j \in AnyJob, Schedule(t, j), NEW i \in 1..Len(in'[t])
    PROVE  (i \in 1..Len(in[t]) /\ in'[t][i] = in[t][i]) \/ (i = Len(in[t]) + 1 /\ in'[t][i] = j)
<1>1. Len(in[t]) \in Nat
  BY Lengths DEF Queued
<1> QED
  BY <1>1, ScheduleFacts

LEMMA MachineKeeps ==
    ASSUME MachineInv, Machine
    PROVE  MachineInv'
<1> USE DEF workerVars, machineVars, loopVars, tapeVars, queueVars
<1>1. /\ PoolInv /\ Queues /\ wpc \in [Threads -> Stages] /\ 0 \in Threads /\ PoolInv'
      /\ MaxThreads \in Nat /\ nthreads \in 0..MaxThreads /\ mthread \in Nat
      /\ mpc \in Starts => mthread < nthreads /\ mthread \in Threads
  BY MachineStep, ThreadPoolAssumption DEF MachineInv, PoolInv, Workers, Threads, Addressed
<1>2. /\ NoJob \in AnyJob /\ StopJob \in AnyJob /\ TapeJob \in AnyJob
      /\ NoJob.type = "none" /\ StopJob.type = "stop" /\ TapeJob.type = "tape"
  BY DEF NoJob, StopJob, TapeJob, Job, AnyJob
<1>3. \A t \in Threads : t \in Nat
  BY DEF Threads
<1>4. UNCHANGED <<tpc, tapes, available>>
  BY DEF Machine, Prepare, StartThread, ThreadStarted, RunMain, JoinMain, StopThread, LetSignOut,
         TakeUsage, JoinThread
\* Before the machine stops its threads.
<1>5. ASSUME NEW t \in Threads, NEW j \in AnyJob, Schedule(t, j), j.type # "stop",
             mpc \in BeforeStop, mpc' \in BeforeStop,
             \A u \in Threads : wpc'[u] = wpc[u] \/ wpc'[u] \in Early
      PROVE  Stopping' /\ StopLast'
  <2>1. \A u \in Threads : ~StopSent(u) /\ ~StopSent(u)'
    BY <1>5 DEF StopSent, BeforeStop
  <2>2. \A u \in Threads : wpc[u] \in Early /\ \A i \in 1..Len(in[u]) : in[u][i].type # "stop"
    BY <2>1, NotStopping
  <2>3. Stopping'
    BY <1>5, <2>1, <2>2 DEF Stopping, Early
  <2>4. StopLast'
    <3> SUFFICES ASSUME NEW u \in Threads, NEW i \in 1..Len(in'[u])
                 PROVE  in'[u][i].type # "stop"
      BY DEF StopLast
    <3>1. CASE u # t
      BY <1>1, <1>5, <2>2, <3>1, ScheduleFacts
    <3>2. CASE u = t
      BY <1>1, <1>5, <2>2, <3>2, ElementsAfter
    <3> QED
      BY <3>1, <3>2
  <2> QED
    BY <2>3, <2>4
<1>6. ASSUME in' = in, wpc' = wpc, mpc \in BeforeStop, \A u \in Threads : ~StopSent(u)'
      PROVE  Stopping' /\ StopLast'
  <2>1. \A u \in Threads : ~StopSent(u)
    BY <1>6 DEF StopSent, BeforeStop
  <2>2. \A u \in Threads : wpc[u] \in Early /\ \A i \in 1..Len(in[u]) : in[u][i].type # "stop"
    BY <2>1, NotStopping
  <2>3. Stopping'
    BY <1>6, <2>1, <2>2 DEF Stopping, Early
  <2>4. StopLast'
    BY <1>6, <2>2 DEF StopLast
  <2> QED
    BY <2>3, <2>4
<1>7. CASE Prepare
  <2>1. PICK n \in 1..MaxThreads :
           /\ n >= nthreads /\ nthreads' = n /\ mthread' = nthreads
           /\ mpc' = IF n = nthreads THEN "run" ELSE "starting"
    BY <1>7 DEF Prepare
  <2>2. /\ mpc = "prepare" /\ mpc' \in {"run", "starting"}
        /\ UNCHANGED <<in, out, left, wpc>>
    BY <1>7, <2>1 DEF Prepare
  <2>3. Ordered' /\ FirstTape'
    BY <1>4, <2>2 DEF MachineInv, Ordered, FirstTape
  <2>4. Startup'
    BY <1>1, <1>3, <2>1, <2>2 DEF MachineInv, Startup
  <2>5. Stopping' /\ StopLast'
    BY <1>6, <2>2 DEF BeforeStop, StopSent
  <2>6. Accounts'
    BY <1>1, <1>3, <1>4, <2>1, <2>2 DEF MachineInv, Accounts, Account, BeforeStop, Startup, Count
  <2> QED
    BY <1>1, <2>3, <2>4, <2>5, <2>6 DEF MachineInv
<1>8. CASE StartThread
  <2>1. PICK t \in Threads : t = mthread
    BY <1>1, <1>8 DEF StartThread, Starts
  <2>2. /\ mpc = "starting" /\ Schedule(t, NoJob) /\ wpc[t] = "absent"
        /\ wpc' = [wpc EXCEPT ![t] = "created"] /\ UNCHANGED <<mpc, nthreads, mthread>>
    BY <1>8, <2>1 DEF StartThread, WGoto
  <2>3. /\ \A u \in Threads \ {t} : wpc'[u] = wpc[u] /\ left'[u] = left[u] /\ in'[u] = in[u]
        /\ wpc'[t] = "created" /\ left'[t] = left[t] + 1 /\ out' = out
    BY <1>1, <1>2, <2>2, ScheduleFacts
  <2>4. Ordered'
    BY <1>4, <2>2 DEF MachineInv, Ordered
  <2>5. Startup'
    BY <1>1, <1>3, <2>1, <2>2, <2>3 DEF MachineInv, Startup, Starts
  <2>6. Stopping' /\ StopLast'
    BY <1>2, <1>5, <2>2, <2>3 DEF BeforeStop, Early
  <2>7. Accounts'
    BY <1>4, <2>1, <2>2, <2>3 DEF MachineInv, Accounts, Account, BeforeStop, Count
  <2>8. FirstTape'
    BY <1>1, <1>2, <2>2, <2>3, ElementsAfter DEF MachineInv, FirstTape
  <2> QED
    BY <1>1, <2>4, <2>5, <2>6, <2>7, <2>8 DEF MachineInv
<1>9. CASE ThreadStarted
  <2>1. PICK t \in Threads : t = mthread
    BY <1>1, <1>9 DEF ThreadStarted, Starts
  <2>2. /\ mpc = "starting" /\ TakeResult(t) /\ wpc[t] # "absent" /\ wpc' = wpc
        /\ mthread' = t + 1 /\ mpc' = (IF t + 1 = nthreads THEN "run" ELSE "starting")
        /\ nthreads' = nthreads
    BY <1>9, <2>1 DEF ThreadStarted
  <2>3. /\ \A u \in Threads \ {t} : out'[u] = out[u] /\ left'[u] = left[u]
        /\ in' = in /\ left'[t] = left[t] - 1 /\ out[t] # <<>>
    BY <1>1, <2>2, TakeResultFacts
  <2>4. Ordered' /\ FirstTape'
    BY <1>4, <2>2, <2>3 DEF MachineInv, Ordered, FirstTape
  <2>5. Startup'
    BY <1>1, <1>3, <2>1, <2>2, <2>3 DEF MachineInv, Startup
  <2>6. Stopping' /\ StopLast'
    BY <1>6, <2>2, <2>3 DEF BeforeStop, StopSent
  <2>7. Accounts'
    <3>1. \A u \in Threads \ {t} : left[u] = Count(u \in tapes) + Count(u \in available)
      BY <2>1, <2>2 DEF MachineInv, Accounts, Account, BeforeStop, Count
    <3>2. left[t] = 1 + Count(t \in tapes) + Count(t \in available)
      BY <2>1, <2>2 DEF MachineInv, Accounts, Account, BeforeStop, Count
    <3>3. \A u \in Threads : left'[u] = Count(u \in tapes) + Count(u \in available)
      BY <2>3, <3>1, <3>2 DEF Count
    <3>4. t + 1 \in Threads => (mpc' = "starting" => wpc[t + 1] = "absent")
      BY <1>3, <2>1, <2>2 DEF MachineInv, Startup
    <3> QED
      BY <1>4, <2>2, <3>3, <3>4 DEF Accounts, Account, Count
  <2> QED
    BY <1>1, <2>4, <2>5, <2>6, <2>7 DEF MachineInv
<1>10. CASE RunMain
  <2>1. /\ mpc = "run" /\ Schedule(0, TapeJob) /\ mpc' = "join" /\ wpc' = wpc
        /\ UNCHANGED <<nthreads, mthread>>
    BY <1>10 DEF RunMain
  <2>2. /\ \A u \in Threads \ {0} : left'[u] = left[u]
        /\ left'[0] = left[0] + 1 /\ out' = out
    BY <1>1, <1>2, <2>1, ScheduleFacts
  <2>3. Ordered' /\ FirstTape'
    BY <1>4, <2>1 DEF MachineInv, Ordered, FirstTape
  <2>4. Startup'
    BY <2>1, <2>2 DEF MachineInv, Startup
  <2>5. Stopping' /\ StopLast'
    BY <1>1, <1>2, <1>5, <2>1 DEF BeforeStop
  <2>6. Accounts'
    BY <1>4, <2>1, <2>2 DEF MachineInv, Accounts, Account, BeforeStop, Count
  <2> QED
    BY <1>1, <2>3, <2>4, <2>5, <2>6 DEF MachineInv
\* The main tape has ended when the machine gets its result.
<1>11. CASE JoinMain
  <2>1. /\ mpc = "join" /\ TakeResult(0) /\ mpc' \in {"prepare", "stop"} /\ mthread' = 0
        /\ wpc' = wpc /\ nthreads' = nthreads
    BY <1>11 DEF JoinMain
  <2>2. /\ \A u \in Threads \ {0} : out'[u] = out[u] /\ left'[u] = left[u]
        /\ in' = in /\ left'[0] = left[0] - 1 /\ out[0] # <<>>
    BY <1>1, <2>1, TakeResultFacts
  <2>3. in[0] = <<>> /\ wpc[0] # "busy"
    <3>1. left[0] = 1
      BY <1>1, <2>1 DEF MachineInv, Accounts, Account, BeforeStop, Ordered, Count
    <3>2. ~StopSent(0)
      BY <2>1 DEF StopSent
    <3>3. left[0] - Queued(0) - Ready(0) = Holding(wpc[0])
      BY <1>1, <3>2, NotStopping DEF PoolInv, OwedInWork, Owed
    <3>4. Queued(0) \in Nat /\ Ready(0) \in Nat /\ Ready(0) # 0
      <4>1. out[0] \in Seq(AnyJob)
        BY <1>1, Lengths
      <4>2. Len(out[0]) # 0
        BY <2>2, <4>1, EmptySeq
      <4> QED
        BY <1>1, <4>2, Lengths DEF Ready
    <3>5. Queued(0) = 0 /\ Holding(wpc[0]) = 0
      <4>1. Holding(wpc[0]) = 0 \/ Holding(wpc[0]) = 1
        BY DEF Holding
      <4> QED
        BY <3>1, <3>3, <3>4, <4>1
    <3>6. in[0] \in Seq(AnyJob)
      BY <1>1, Lengths
    <3> QED
      BY <3>5, <3>6, EmptySeq DEF Holding, Queued
  <2>4. Ordered'
    BY <1>4, <2>1, <2>3 DEF MachineInv, Ordered
  <2>5. FirstTape'
    <3>1. Len(in'[0]) = 0
      BY <1>1, <2>2, <2>3, EmptySeq
    <3> QED
      BY <3>1 DEF FirstTape
  <2>6. Startup'
    BY <1>1, <2>1, <2>2 DEF MachineInv, Startup
  <2>7. Stopping' /\ StopLast'
    <3>1. \A u \in Threads : ~StopSent(u)'
      BY <1>3, <2>1 DEF StopSent
    <3> QED
      BY <1>6, <2>1, <2>2, <3>1 DEF BeforeStop
  <2>8. Accounts'
    BY <1>4, <2>1, <2>2 DEF MachineInv, Accounts, Account, BeforeStop, Count
  <2> QED
    BY <1>1, <2>4, <2>5, <2>6, <2>7, <2>8 DEF MachineInv
\* While it stops them no loop and no tape is left, and nobody is set up.
<1>12. ASSUME mpc \in {"stop", "signout", "usage", "joining"}, wpc' = wpc, nthreads' = nthreads,
              mpc' \in {"stop", "signout", "usage", "joining", "done"},
              \A u \in Threads : out[u] = <<>> => out'[u] = out[u],
              \A i \in 1..Len(in'[0]) : in'[0][i].type # "tape"
       PROVE  Ordered' /\ Startup' /\ Accounts' /\ FirstTape'
  <2>1. Ordered'
    BY <1>4, <1>12 DEF MachineInv, Ordered
  <2>2. Startup'
    BY <1>12 DEF MachineInv, Startup
  <2> QED
    BY <1>12, <2>1, <2>2 DEF Accounts, BeforeStop, FirstTape
<1>13. mpc \in {"stop", "signout", "usage", "joining"} =>
          \A i \in 1..Len(in[0]) : in[0][i].type # "tape"
  BY DEF MachineInv, FirstTape
<1>14. ASSUME mpc \in {"stop", "signout", "usage", "joining"}, NEW t \in Threads,
              NEW j \in AnyJob, Schedule(t, j), j.type # "tape"
       PROVE  /\ \A u \in Threads : out[u] = <<>> => out'[u] = out[u]
              /\ \A i \in 1..Len(in'[0]) : in'[0][i].type # "tape"
  <2>1. \A i \in 1..Len(in'[0]) : in'[0][i].type # "tape"
    <3>1. CASE t # 0
      BY <1>1, <1>13, <1>14, <3>1, ScheduleFacts
    <3>2. CASE t = 0
      BY <1>1, <1>13, <1>14, <3>2, ElementsAfter
    <3> QED
      BY <3>1, <3>2
  <2> QED
    BY <1>1, <1>14, <2>1, ScheduleFacts
<1>15. CASE StopThread
  <2>1. PICK t \in Threads : t = mthread
    BY <1>1, <1>15 DEF StopThread, Starts
  <2>2. /\ mpc = "stop" /\ Schedule(t, StopJob) /\ wpc' = wpc /\ nthreads' = nthreads
        /\ (mpc' = "stop" /\ mthread' = mthread + 1) \/ mpc' = "signout"
    BY <1>15, <2>1 DEF StopThread
  <2>3. Ordered' /\ Startup' /\ Accounts' /\ FirstTape'
    BY <1>2, <1>12, <1>14, <2>2
  <2>4. \A u \in Threads : (StopSent(u) => StopSent(u)') /\ ~Turn(u) /\ ~Turn(u)'
    BY <1>1, <1>3, <2>2 DEF StopSent, Turn
  <2>5. ~StopSent(t) /\ StopSent(t)'
    BY <1>1, <1>3, <2>1, <2>2 DEF StopSent
  <2>6. wpc[t] \in Early /\ \A i \in 1..Len(in[t]) : in[t][i].type # "stop"
    BY <2>5, NotStopping
  <2>7. \A u \in Threads \ {t} : in'[u] = in[u]
    BY <1>1, <1>2, <2>2, ScheduleFacts
  <2>8. Stopping'
    <3> SUFFICES ASSUME NEW u \in Threads
                 PROVE  /\ ~StopSent(u)' => wpc[u] \in Early
                        /\ wpc[u] \in {"final", "signout"} => in'[u] = <<>>
                        /\ wpc[u] \notin {"winddown", "leaving"}
      BY <2>2 DEF Stopping
    <3>1. CASE u = t
      BY <2>6, <3>1 DEF Early
    <3>2. CASE u # t
      BY <2>4, <2>7, <3>2 DEF MachineInv, Stopping
    <3> QED
      BY <3>1, <3>2
  <2>9. StopLast'
    <3> SUFFICES ASSUME NEW u \in Threads, wpc[u] \in Early, NEW i \in 1..Len(in'[u]),
                        in'[u][i].type = "stop"
                 PROVE  StopSent(u)' /\ i = Len(in'[u])
      BY <2>2 DEF StopLast
    <3>1. CASE u = t
      <4>1. i = Len(in[t]) + 1 /\ Len(in'[t]) = Len(in[t]) + 1
        BY <1>1, <1>2, <2>2, <2>6, <3>1, ElementsAfter, ScheduleFacts
      <4> QED
        BY <2>5, <3>1, <4>1
    <3>2. CASE u # t
      BY <2>4, <2>7, <3>2 DEF MachineInv, StopLast
    <3> QED
      BY <3>1, <3>2
  <2> QED
    BY <1>1, <2>3, <2>8, <2>9 DEF MachineInv
<1>16. CASE LetSignOut
  <2>1. PICK t \in Threads : t = mthread
    BY <1>1, <1>16 DEF LetSignOut, Starts
  <2>2. /\ mpc = "signout" /\ Schedule(t, NoJob) /\ wpc' = wpc /\ nthreads' = nthreads
        /\ mpc' = "usage" /\ mthread' = mthread
    BY <1>16, <2>1 DEF LetSignOut
  <2>3. Ordered' /\ Startup' /\ Accounts' /\ FirstTape'
    BY <1>2, <1>12, <1>14, <2>2
  <2>4. \A u \in Threads : StopSent(u) /\ StopSent(u)' /\ ~Turn(u)
    BY <2>2 DEF StopSent, Turn
  <2>5. Turn(t)'
    BY <2>1, <2>2 DEF Turn
  <2>6. \A u \in Threads \ {t} : in'[u] = in[u]
    BY <1>1, <1>2, <2>2, ScheduleFacts
  <2>7. Stopping'
    <3> SUFFICES ASSUME NEW u \in Threads, u # t
                 PROVE  /\ wpc[u] \in {"final", "signout"} => in[u] = <<>>
                        /\ wpc[u] \notin {"winddown", "leaving"}
      BY <2>2, <2>4, <2>5, <2>6 DEF Stopping
    <3> QED
      BY <2>4 DEF MachineInv, Stopping
  <2>8. StopLast'
    <3> SUFFICES ASSUME NEW u \in Threads, wpc[u] \in Early, NEW i \in 1..Len(in'[u]),
                        in'[u][i].type = "stop"
                 PROVE  i = Len(in'[u]) \/ (i + 1 = Len(in'[u]) /\ u = t)
      BY <2>2, <2>4, <2>5 DEF StopLast
    <3>1. CASE u = t
      <4>1. /\ Len(in'[t]) = Len(in[t]) + 1 /\ Len(in[t]) \in Nat
            /\ (i = Len(in[t]) + 1 \/ (i \in 1..Len(in[t]) /\ in[t][i].type = "stop"))
        BY <1>1, <1>2, <2>2, <3>1, ElementsAfter, ScheduleFacts, Lengths DEF Queued
      <4>2. i = Len(in[t]) + 1 \/ i = Len(in[t])
        BY <2>4, <3>1, <4>1 DEF MachineInv, StopLast
      <4> QED
        BY <3>1, <4>1, <4>2
    <3>2. CASE u # t
      BY <2>4, <2>6, <3>2 DEF MachineInv, StopLast
    <3> QED
      BY <3>1, <3>2
  <2> QED
    BY <1>1, <2>3, <2>7, <2>8 DEF MachineInv
<1>17. CASE TakeUsage
  <2>1. PICK t \in Threads : t = mthread
    BY <1>1, <1>17 DEF TakeUsage, Starts
  <2>2. /\ mpc = "usage" /\ TakeResult(t) /\ wpc' = wpc /\ nthreads' = nthreads
        /\ mpc' = "joining" /\ mthread' = mthread
    BY <1>17, <2>1 DEF TakeUsage
  <2>3. in' = in /\ (\A u \in Threads : out[u] = <<>> => out'[u] = out[u])
    BY <1>1, <2>2, TakeResultFacts
  <2>4. Ordered' /\ Startup' /\ Accounts' /\ FirstTape'
    BY <1>12, <1>13, <2>2, <2>3
  <2>5. \A u \in Threads : StopSent(u) /\ StopSent(u)' /\ (Turn(u)' <=> Turn(u))
    BY <2>2 DEF StopSent, Turn
  <2>6. Stopping' /\ StopLast'
    BY <2>2, <2>3, <2>5 DEF MachineInv, Stopping, StopLast
  <2> QED
    BY <1>1, <2>4, <2>6 DEF MachineInv
\* The thread whose turn it was has ended.
<1>18. CASE JoinThread
  <2>1. PICK t \in Threads : t = mthread
    BY <1>1, <1>18 DEF JoinThread, Starts
  <2>2. /\ mpc = "joining" /\ wpc[t] = "ended" /\ wpc' = wpc /\ nthreads' = nthreads
        /\ mpc' \in {"signout", "done"} /\ in' = in /\ out' = out
    BY <1>18, <2>1 DEF JoinThread
  <2>3. Ordered' /\ Startup' /\ Accounts' /\ FirstTape'
    BY <1>12, <1>13, <2>2
  <2>4. \A u \in Threads : StopSent(u) /\ StopSent(u)' /\ (Turn(u) => u = t)
    BY <2>1, <2>2 DEF StopSent, Turn
  <2>5. Stopping' /\ StopLast'
    BY <2>2, <2>4 DEF MachineInv, Stopping, StopLast, Early
  <2> QED
    BY <1>1, <2>3, <2>5 DEF MachineInv
<1> QED
  BY <1>7, <1>8, <1>9, <1>10, <1>11, <1>15, <1>16, <1>17, <1>18 DEF Machine

-----------------------------------------------------------------------------
LEMMA MachineInit == Init => MachineInv
<1> SUFFICES ASSUME Init PROVE MachineInv
  OBVIOUS
<1>1. Len(<<>>) = 0 /\ 0 \in Threads
  BY EmptySeq, ThreadPoolAssumption DEF Threads
<1>2. \A t \in Threads : in[t] = <<>> /\ out[t] = <<>> /\ wpc[t] = "absent" /\ left[t] = 0
  BY DEF Init
<1>3. Ordered /\ Startup /\ Stopping
  BY <1>2 DEF Init, Ordered, Startup, Stopping, Early
<1>4. StopLast /\ FirstTape
  BY <1>1, <1>2 DEF StopLast, FirstTape
<1>5. Accounts
  BY <1>2 DEF Init, Accounts, Account, Count
<1> QED
  BY <1>3, <1>4, <1>5, PoolInit DEF MachineInv

LEMMA MachineInvStep == MachineInv /\ [Next]_vars => MachineInv'
<1> SUFFICES ASSUME MachineInv, [Next]_vars PROVE MachineInv'
  OBVIOUS
<1>1. CASE UNCHANGED vars
  <2>1. PoolInv'
    BY <1>1, PoolStep DEF MachineInv
  <2>2. UNCHANGED <<in, out, left, wpc, mpc, nthreads, mthread, tpc, tapes, available>>
    BY <1>1 DEF vars, queueVars, workerVars, machineVars, tapeVars, loopVars
  <2>3. Ordered' /\ Startup' /\ Accounts' /\ FirstTape'
    BY <2>2 DEF MachineInv, Ordered, Startup, Accounts, Account, FirstTape
  <2>4. Stopping' /\ StopLast'
    BY <2>2 DEF MachineInv, Stopping, StopLast, StopSent, Turn
  <2> QED
    BY <2>1, <2>3, <2>4 DEF MachineInv
<1>2. CASE Next
  BY <1>1, <1>2, MachineKeeps, TapeKeeps, WorkerKeeps DEF Next
<1> QED
  BY <1>1, <1>2

\* The machine's account of its threads holds in every state.
LEMMA Invariance == Spec => []MachineInv
  BY MachineInit, MachineInvStep, PTL DEF Spec

\* No two threads are in the setup of their players, or in taking them down, at the same
\* time (Machine::prepare and stop_threads go "thread by thread"), however many threads
\* there are and however they are scheduled.
THEOREM ThreadByThread == Spec => []OneAtATime
<1>1. MachineInv => OneAtATime
  <2> SUFFICES ASSUME MachineInv, NEW t \in Threads, NEW u \in Threads,
                      NEW step \in {{"created", "setup"}, {"winddown", "leaving"}},
                      wpc[t] \in step, wpc[u] \in step
               PROVE  t = u
    BY DEF OneAtATime
  <2>1. CASE step = {"created", "setup"}
    BY <2>1 DEF MachineInv, Startup
  <2>2. CASE step = {"winddown", "leaving"}
    BY <2>2 DEF MachineInv, Stopping, Turn
  <2> QED
    BY <2>1, <2>2
<1> QED
  BY <1>1, Invariance, PTL

\* Whenever the main tape can distribute a loop, the threads it finds available are those
\* it has run no tape in since it joined the last, whatever the threads have come to
\* (ThreadQueue::left, not the state of the thread, decides): all parties find the same.
THEOREM TimingIndependent == Spec => []SameThreadsEverywhere
<1>1. MachineInv => SameThreadsEverywhere
  <2> SUFFICES ASSUME MachineInv, mpc = "join", InTape("choose"), NEW t \in 1..(nthreads - 1)
               PROVE  IsAvailable(t) <=> t \notin tapes
    BY DEF SameThreadsEverywhere
  <2>1. t \in Threads /\ t # 0
    BY ThreadPoolAssumption DEF MachineInv, PoolInv, Addressed, Threads
  <2>2. left[t] = Count(t \in tapes) + Count(t \in available) /\ available = {}
    BY <2>1 DEF MachineInv, Accounts, Account, BeforeStop, Ordered, InTape, Count
  <2> QED
    BY <2>2 DEF IsAvailable, Count
<1> QED
  BY <1>1, Invariance, PTL

-----------------------------------------------------------------------------
(***************************************************************************)
(* The loops that the main tape distributes: the assertions of             *)
(* ThreadQueues, and that every item is worked on once.                    *)
(***************************************************************************)

LEMMA Division ==
    ASSUME NEW n \in Nat, NEW p \in Nat \ {0}
    PROVE  /\ n \div p \in Nat /\ (n \div p) * p <= n /\ n < ((n \div p) + 1) * p
  OBVIOUS

LEMMA Monotone ==
    ASSUME NEW a \in Nat, NEW b \in Nat, a <= b, NEW p \in Nat
    PROVE  a * p <= b * p /\ a * p \in Nat /\ b * p \in Nat
<1>1. PICK d \in Nat : b = a + d
  BY b - a \in Nat, b = a + (b - a)
<1>2. b * p = a * p + d * p /\ d * p \in Nat /\ a * p \in Nat
  BY <1>1
<1> QED
  BY <1>2

LEMMA PerThread ==
    ASSUME NEW n \in Nat, NEW k \in Nat, NEW g \in Nat \ {0}
    PROVE  NPerThread(n, k, g) \in Nat /\ (n = 0 => NPerThread(n, k, g) = 0)
<1> DEFINE c == (n + k) \div (k + 1)
<1>1. c \in Nat
  BY Division, n + k \in Nat, k + 1 \in Nat \ {0}
<1>2. n = 0 => c = 0
  OBVIOUS
<1>3. c \div g \in Nat
  BY <1>1, Division
<1>4. c = 0 => c \div g = 0
  OBVIOUS
<1>5. NPerThread(n, k, g) = (c \div g) * g
  BY DEF NPerThread
<1> HIDE DEF c
<1> DEFINE d == c \div g
<1>6. d * g \in Nat /\ (d = 0 => d * g = 0)
  BY <1>3
<1> QED
  BY <1>2, <1>4, <1>5, <1>6

\* As many threads get a slice as there is a whole slice for, and the two ways of counting
\* them agree for a loop that begins at 0.
LEMMA UsedFacts ==
    ASSUME NEW n \in Nat, NEW k \in Nat \ {0}, NEW g \in Nat \ {0}
    PROVE  /\ Used(n, 0, k, g) \in 0..k
           /\ Used(n, 0, k, g) * NPerThread(n, k, g) <= n
           /\ n # 0 /\ Used(n, 0, k, g) # 0 => NPerThread(n, k, g) # 0
           /\ CountsAgree(n, 0, k, g)
<1> DEFINE per == NPerThread(n, k, g)
           Last(u) == /\ \A i \in 1..u : Fits(i, n, 0, per)
                      /\ u = k \/ ~Fits(u + 1, n, 0, per)
<1>1. per \in Nat /\ (n = 0 => per = 0)
  BY PerThread
<1>2. \A i \in Nat : Fits(i, n, 0, per) <=> i * per <= n
  BY <1>1 DEF Fits
<1>3. CountsAgree(n, 0, k, g) <=>
        Used(n, 0, k, g) = (IF n = 0 THEN k ELSE IF per = 0 THEN 0
                            ELSE IF n \div per > k THEN k ELSE n \div per)
  BY <1>1 DEF CountsAgree, NThreads
<1>4. Used(n, 0, k, g) = IF n # 0 /\ (per = 0 \/ per > n) THEN 0 ELSE CHOOSE u \in 0..k : Last(u)
  BY <1>1 DEF Used
<1> HIDE DEF per
<1>5. ASSUME NEW u \in 0..k, NEW v \in 0..k, u < v, Last(u), Last(v) PROVE FALSE
  BY <1>5
<1>6. ASSUME NEW u \in 0..k, Last(u) PROVE (CHOOSE v \in 0..k : Last(v)) = u
  <2>1. \A v \in 0..k : Last(v) => v = u
    BY <1>5, <1>6
  <2> HIDE DEF Last
  <2> QED
    BY <1>6, <2>1
<1>7. CASE n = 0
  <2>1. \A i \in Nat : i * per = 0
    BY <1>1, <1>7
  <2>2. Last(k)
    BY <1>2, <2>1
  <2>3. Used(n, 0, k, g) = k
    BY <1>4, <1>6, <1>7, <2>2
  <2> QED
    BY <1>3, <1>7, <2>1, <2>3 DEF per
<1>8. CASE n # 0 /\ per = 0
  BY <1>3, <1>4, <1>8 DEF per
<1>9. CASE n # 0 /\ per # 0 /\ per > n
  <2>1. n \div per = 0
    <3>1. n \div per \in Nat /\ (n \div per) * per <= n
      BY <1>1, <1>9, Division
    <3>2. n \div per >= 1 => 1 * per <= (n \div per) * per
      BY <1>1, <3>1, Monotone
    <3> QED
      BY <1>1, <1>9, <3>1, <3>2
  <2>2. Used(n, 0, k, g) = 0
    BY <1>4, <1>9
  <2> QED
    BY <1>1, <1>3, <1>9, <2>1, <2>2 DEF per
<1>10. CASE n # 0 /\ per # 0 /\ per <= n
  <2> DEFINE q == n \div per
             u == IF q > k THEN k ELSE q
  <2>1. q \in Nat /\ q * per <= n /\ n < (q + 1) * per
    BY <1>1, <1>10, Division
  <2> HIDE DEF q
  <2>2. u \in 0..k /\ u <= q
    BY <2>1
  <2>3. \A i \in 1..u : Fits(i, n, 0, per)
    <3> TAKE i \in 1..u
    <3>1. i * per <= q * per /\ i * per \in Nat /\ q * per \in Nat
      BY <1>1, <2>1, <2>2, Monotone
    <3> QED
      BY <1>2, <2>1, <3>1
  <2>4. u = k \/ ~Fits(u + 1, n, 0, per)
    <3>1. u = k \/ u = q
      OBVIOUS
    <3>2. (q + 1) * per \in Nat
      BY <1>1, <2>1
    <3>3. ~((q + 1) * per <= n)
      BY <2>1, <3>2
    <3> QED
      BY <1>2, <2>1, <3>1, <3>3
  <2>5. Last(u)
    BY <2>3, <2>4
  <2>6. Used(n, 0, k, g) = u
    <3>1. ~(per > n)
      BY <1>1, <1>10
    <3>2. (CHOOSE v \in 0..k : Last(v)) = u
      BY <1>6, <2>2, <2>5
    <3> HIDE DEF Last, u
    <3> QED
      BY <1>4, <1>10, <3>1, <3>2
  <2>7. u * per <= n
    <3>1. u * per <= q * per /\ u * per \in Nat /\ q * per \in Nat
      BY <1>1, <2>1, <2>2, Monotone
    <3> QED
      BY <2>1, <3>1
  <2> QED
    BY <1>3, <1>10, <2>2, <2>6, <2>7 DEF per, q
<1> QED
  BY <1>1, <1>7, <1>8, <1>9, <1>10

\* The whole slices before the caller's: each item is in one of them.
LEMMA OneSlice ==
    ASSUME NEW p \in Nat, NEW u \in Nat, NEW i \in Nat, i < u * p
    PROVE  \E r \in 1..u : (r - 1) * p <= i /\ i < r * p
<1>1. p # 0
  BY u * 0 = 0
<1> DEFINE q == i \div p
<1>2. q \in Nat /\ q * p <= i /\ i < (q + 1) * p
  BY <1>1, Division
<1> HIDE DEF q
<1>3. q < u
  <2>1. u <= q => u * p <= q * p /\ u * p \in Nat /\ q * p \in Nat
    BY <1>2, Monotone
  <2>2. u * p \in Nat /\ q * p \in Nat
    BY <1>2
  <2> QED
    BY <1>2, <2>1, <2>2
<1>4. q + 1 \in 1..u /\ (q + 1) - 1 = q
  BY <1>2, <1>3
<1> QED
  BY <1>2, <1>4

LEMMA SlicesApart ==
    ASSUME NEW p \in Nat, NEW r \in Nat \ {0}, NEW s \in Nat \ {0}, NEW i \in Nat,
           (r - 1) * p <= i, i < r * p, (s - 1) * p <= i, i < s * p
    PROVE  r = s
<1>1. ASSUME NEW a \in Nat \ {0}, NEW b \in Nat \ {0}, a < b, i < a * p, (b - 1) * p <= i
      PROVE  FALSE
  <2>1. a * p <= (b - 1) * p /\ a * p \in Nat /\ (b - 1) * p \in Nat
    BY <1>1, a <= b - 1, b - 1 \in Nat, Monotone
  <2> QED
    BY <1>1, <2>1
<1> QED
  BY <1>1

-----------------------------------------------------------------------------
\* The ranks of the threads found are the numbers from 1 on.
LEMMA Ranks ==
    ASSUME NEW F, IsFiniteSet(F), F \subseteq Nat
    PROVE  /\ \A t \in F : Rank(t, F) \in 1..Cardinality(F)
           /\ \A t, u \in F : Rank(t, F) = Rank(u, F) => t = u
           /\ \A r \in 1..Cardinality(F) : \E t \in F : Rank(t, F) = r
<1> DEFINE Upto(t) == {v \in F : v <= t}
<1>1. ASSUME NEW t \in F PROVE /\ IsFiniteSet(Upto(t)) /\ t \in Upto(t)
                               /\ Rank(t, F) = Cardinality(Upto(t))
                               /\ Rank(t, F) \in 1..Cardinality(F)
  <2>1. IsFiniteSet(Upto(t)) /\ t \in Upto(t) /\ Upto(t) \subseteq F
    BY FS_Subset
  <2>2. Cardinality(Upto(t)) \in Nat /\ Cardinality(Upto(t)) <= Cardinality(F) /\ Cardinality(F) \in Nat
    BY <2>1, FS_Subset, FS_CardinalityType
  <2>3. Cardinality(Upto(t)) # 0
    BY <2>1, FS_EmptySet
  <2> QED
    BY <2>1, <2>2, <2>3 DEF Rank
<1>2. ASSUME NEW t \in F, NEW u \in F, t < u PROVE Rank(t, F) # Rank(u, F)
  <2>1. Upto(t) \subseteq Upto(u) /\ u \notin Upto(t) /\ u \in Upto(u)
    <3>1. \A v \in F : v \in Nat
      OBVIOUS
    <3>2. \A v \in F : v <= t => v <= u
      BY <1>2, <3>1
    <3>3. ~(u <= t)
      BY <1>2, <3>1
    <3> QED
      BY <1>1, <3>2, <3>3
  <2>2. Cardinality(Upto(t)) = Cardinality(Upto(u)) => Upto(t) = Upto(u)
    BY <1>1, <2>1, FS_Subset
  <2> QED
    BY <1>1, <2>1, <2>2
<1>3. \A t, u \in F : Rank(t, F) = Rank(u, F) => t = u
  BY <1>2
<1> DEFINE f == [t \in F |-> Rank(t, F)]
           K == 1..Cardinality(F)
<1>4. f \in Injection(F, K)
  <2> HIDE DEF Upto
  <2>1. f \in [F -> K]
    BY <1>1
  <2>2. \A t, u \in F : f[t] = f[u] => t = u
    BY <1>3
  <2> QED
    BY <2>1, <2>2 DEF Injection, IsInjective
<1>5. IsFiniteSet(K) /\ Cardinality(K) = Cardinality(F)
  BY FS_CardinalityType, FS_Interval
<1>6. f \in Surjection(F, K)
  BY <1>4, <1>5, FS_Injection
<1>7. \A r \in K : \E t \in F : f[t] = r
  BY <1>6 DEF Surjection
<1> QED
  BY <1>1, <1>3, <1>7

\* The slices of the threads used, and what they leave to the caller.
Slice(t, F, n, g) ==
    [begin |-> Begin(Rank(t, F), n, 0, Cardinality(F), g),
     end |-> End(Rank(t, F), n, 0, Cardinality(F), g)]
Contains(j, i) == j.begin <= i /\ i < j.end
Served(F, n, g) == {t \in F : Rank(t, F) <= Used(n, 0, Cardinality(F), g)}
Rest(F, n, g) == Start(n, 0, Cardinality(F), g)

\* Served threads' slices are disjoint, and together they are all before the caller's.
Cut(busy, start, F, n, g) ==
           /\ start \in 0..n
           /\ \A t \in busy : Slice(t, F, n, g).begin \in 0..n /\ Slice(t, F, n, g).end \in 0..n
           /\ \A i \in Nat : \A t \in busy : Contains(Slice(t, F, n, g), i) => i < start
           /\ \A i \in Nat : \A t, u \in busy :
                 Contains(Slice(t, F, n, g), i) /\ Contains(Slice(u, F, n, g), i) => t = u
           /\ \A i \in Nat : i < start => \E t \in busy : Contains(Slice(t, F, n, g), i)
LEMMA Partition ==
    ASSUME NEW F, IsFiniteSet(F), F \subseteq Nat, F # {}, NEW n \in Nat, NEW g \in Nat \ {0}
    PROVE  Cut(Served(F, n, g), Rest(F, n, g), F, n, g)
<1> DEFINE busy == Served(F, n, g)
           start == Rest(F, n, g)
           k == Cardinality(F)
           per == NPerThread(n, k, g)
           used == Used(n, 0, k, g)
<1>1. k \in Nat \ {0}
  BY FS_CardinalityType, FS_EmptySet
<1>2. per \in Nat /\ used \in 0..k /\ used * per <= n /\ used * per \in Nat
  <2>1. per \in Nat /\ used \in 0..k /\ used * per <= n
    BY <1>1, PerThread, UsedFacts
  <2> HIDE DEF per, used
  <2> QED
    BY <1>1, <2>1
<1>3. start = 0 + used * per
  BY DEF Rest, Start
<1>4. \A t \in F : /\ Slice(t, F, n, g).begin = 0 + (Rank(t, F) - 1) * per
                   /\ Slice(t, F, n, g).end = 0 + Rank(t, F) * per
  BY DEF Slice, Begin, End
<1>5. /\ \A t \in F : Rank(t, F) \in 1..k
      /\ \A t, u \in F : Rank(t, F) = Rank(u, F) => t = u
      /\ \A r \in 1..k : \E t \in F : Rank(t, F) = r
  BY Ranks
<1>6. busy = {t \in F : Rank(t, F) <= used}
  BY DEF Served
<1> HIDE DEF k, per, used, busy, start
<1>7. start = used * per /\ start \in 0..n
  BY <1>2, <1>3
<1>8. ASSUME NEW t \in busy
      PROVE  /\ Rank(t, F) \in 1..used
             /\ Slice(t, F, n, g).begin = (Rank(t, F) - 1) * per
             /\ Slice(t, F, n, g).end = Rank(t, F) * per
             /\ (Rank(t, F) - 1) * per \in Nat /\ Rank(t, F) * per \in Nat
             /\ (Rank(t, F) - 1) * per <= Rank(t, F) * per
             /\ Rank(t, F) * per <= start
  <2>1. Rank(t, F) \in 1..used /\ t \in F
    BY <1>1, <1>2, <1>5, <1>6
  <2> DEFINE r == Rank(t, F)
  <2> HIDE DEF r
  <2>2. r \in Nat /\ r - 1 \in Nat /\ r - 1 <= r /\ r <= used /\ used \in Nat
    BY <1>1, <1>2, <2>1 DEF r
  <2>3. (r - 1) * per <= r * per /\ (r - 1) * per \in Nat /\ r * per \in Nat /\ r * per <= used * per
    BY <1>2, <2>2, Monotone
  <2> QED
    BY <1>4, <1>7, <2>1, <2>3 DEF r
<1>9. ASSUME NEW t \in busy
      PROVE  Slice(t, F, n, g).begin \in 0..n /\ Slice(t, F, n, g).end \in 0..n
  BY <1>7, <1>8
<1>10. ASSUME NEW i \in Nat, NEW t \in busy, Contains(Slice(t, F, n, g), i) PROVE i < start
  BY <1>7, <1>8, <1>10 DEF Contains
<1>11. ASSUME NEW i \in Nat, NEW t \in busy, NEW u \in busy,
              Contains(Slice(t, F, n, g), i), Contains(Slice(u, F, n, g), i)
       PROVE  t = u
  <2>1. /\ (Rank(t, F) - 1) * per <= i /\ i < Rank(t, F) * per /\ Rank(t, F) \in Nat \ {0}
        /\ (Rank(u, F) - 1) * per <= i /\ i < Rank(u, F) * per /\ Rank(u, F) \in Nat \ {0}
    BY <1>2, <1>8, <1>11 DEF Contains
  <2>2. Rank(t, F) = Rank(u, F)
    BY <1>2, <2>1, SlicesApart
  <2> QED
    BY <1>5, <1>6, <2>2
<1>12. ASSUME NEW i \in Nat, i < start PROVE \E t \in busy : Contains(Slice(t, F, n, g), i)
  <2>1. PICK r \in 1..used : (r - 1) * per <= i /\ i < r * per
    <3>1. used \in Nat /\ i < used * per
      BY <1>1, <1>2, <1>7, <1>12
    <3> QED
      BY <1>2, <3>1, OneSlice
  <2>2. r \in 1..k
    BY <1>1, <1>2
  <2>3. PICK t \in F : Rank(t, F) = r
    BY <1>5, <2>2
  <2>4. t \in busy
    BY <1>1, <1>2, <1>6, <2>3
  <2> QED
    BY <1>8, <2>1, <2>3, <2>4 DEF Contains
<1> QED
  BY <1>7, <1>9, <1>10, <1>11, <1>12 DEF Cut, busy, start

-----------------------------------------------------------------------------
\* The slices that wait for their thread or are worked on, and the caller's.
Loops == {"loop", "sync", "check"}
Pending(t) == t \in available /\ (in[t] # <<>> \/ wpc[t] = "busy")
ToDo(t) == IF in[t] # <<>> THEN in[t][1] ELSE job[t]
Covers(t, i) == Pending(t) /\ Contains(ToDo(t), i)
CallerCovers(i) == tpc = "local" /\ batch.start <= i /\ i < batch.n

\* The caller has its own loop only, and no thread both a tape and a slice.
Callers ==
    /\ available \cap tapes = {}
    /\ tpc \in {"none", "choose"} => sync = 0
    /\ tpc \in {"local", "wrapup"} => batch.type \in Loops

\* The threads that are listed have a slice of this loop, or its result, and the others
\* none of any.
Current(j) == j.type = batch.type /\ j.output = batches
Handed ==
    \A t \in available :
        /\ \A i \in 1..Len(in[t]) : Current(in[t][i])
        /\ wpc[t] = "busy" => Current(job[t])
        /\ \A i \in 1..Len(out[t]) : Current(out[t][i])
NoneLeft ==
    \A t \in Threads \ available :
        /\ \A i \in 1..Len(in[t]) : in[t][i].type \notin Loops
        /\ wpc[t] = "busy" => job[t].type \notin Loops

\* An item that has not been worked on is in one slice that is to be worked on, and an item
\* that has is in none.
Coverage ==
    \A i \in Items :
        /\ worked[i] \in {0, 1}
        /\ CallerCovers(i) => worked[i] = 0
        /\ \A t \in Threads : Covers(t, i) => worked[i] = 0 /\ ~CallerCovers(i)
        /\ \A t \in Threads : \A u \in Threads : Covers(t, i) /\ Covers(u, i) => t = u
        /\ i < batch.n /\ worked[i] = 0 => CallerCovers(i) \/ \E t \in Threads : Covers(t, i)

LoopState == Callers /\ Handed /\ NoneLeft /\ Coverage /\ ~aborted
LoopInv == MachineInv /\ LoopState

\* A thread that is listed has been given one thing to do, and is up to it.
LEMMA OneJob ==
    ASSUME LoopInv, NEW t \in available
    PROVE  /\ t \in Threads \ {0} /\ left[t] = 1
           /\ mpc = "join" /\ tpc \in {"local", "wrapup"} /\ batch.type \in Loops
           /\ ~StopSent(t) /\ wpc[t] \in {"absent", "loop", "busy"}
           /\ Queued(t) + Ready(t) + Holding(wpc[t]) = 1
           /\ wpc[t] = "busy" => in[t] = <<>> /\ out[t] = <<>>
           /\ in[t] # <<>> => Len(in[t]) = 1 /\ out[t] = <<>> /\ wpc[t] # "busy"
           /\ out[t] # <<>> => in[t] = <<>> /\ wpc[t] # "busy"
<1>1. t \in Threads \ {0} /\ mpc = "join" /\ tpc \in {"local", "wrapup"} /\ t \notin tapes
  BY DEF LoopInv, LoopState, MachineInv, Ordered, Callers
<1>2. left[t] = 1
  BY <1>1 DEF LoopInv, MachineInv, Accounts, Account, BeforeStop, Count
<1>3. ~StopSent(t) /\ wpc[t] \in Early
  BY <1>1 DEF StopSent, LoopInv, MachineInv, Stopping
<1>4. wpc[t] \in {"absent", "loop", "busy"}
  BY <1>1, <1>3 DEF Early, LoopInv, MachineInv, Startup
<1>5. Queues
  BY DEF LoopInv, MachineInv, PoolInv
<1>6. left[t] - Queued(t) - Ready(t) = Holding(wpc[t])
  BY <1>1, <1>3 DEF LoopInv, MachineInv, PoolInv, OwedInWork, Owed
<1>7. Queued(t) \in Nat /\ Ready(t) \in Nat /\ in[t] \in Seq(AnyJob) /\ out[t] \in Seq(AnyJob)
  BY <1>1, <1>5, Lengths
<1>8. Holding(wpc[t]) \in {0, 1} /\ (wpc[t] = "busy" => Holding(wpc[t]) = 1)
  BY DEF Holding
<1>9. Queued(t) + Ready(t) + Holding(wpc[t]) = 1
  BY <1>2, <1>6, <1>7, <1>8
<1>10. (in[t] = <<>> <=> Queued(t) = 0) /\ (out[t] = <<>> <=> Ready(t) = 0)
  BY <1>7, EmptySeq DEF Queued, Ready
<1>11. wpc[t] = "busy" => Queued(t) = 0 /\ Ready(t) = 0
  BY <1>7, <1>8, <1>9
<1>12. Queued(t) # 0 => Queued(t) = 1 /\ Ready(t) = 0 /\ wpc[t] # "busy"
  BY <1>7, <1>8, <1>9
<1>13. Ready(t) # 0 => Queued(t) = 0 /\ wpc[t] # "busy"
  BY <1>7, <1>8, <1>9
<1> QED
  BY <1>1, <1>2, <1>3, <1>4, <1>9, <1>10, <1>11, <1>12, <1>13 DEF Queued, LoopInv, LoopState, Callers

-----------------------------------------------------------------------------
\* A step that leaves all slices where they are, or moves them with their threads.
LEMMA CoverageKept ==
    ASSUME Coverage, worked' = worked, batch' = batch, tpc' = "local" <=> tpc = "local",
           \A t \in Threads : (Pending(t)' <=> Pending(t)) /\ (Pending(t) => ToDo(t)' = ToDo(t))
    PROVE  Coverage'
<1>1. \A t \in Threads : \A i \in Items : Covers(t, i)' <=> Covers(t, i)
  BY DEF Covers, Contains
<1>2. \A i \in Items : CallerCovers(i)' <=> CallerCovers(i)
  BY DEF CallerCovers
<1> QED
  BY <1>1, <1>2 DEF Coverage

\* What a step of a thread leaves alone.
LEMMA WorkerLeaves ==
    ASSUME PoolInv, NEW t \in Threads, Worker(t)
    PROVE  /\ UNCHANGED <<batch, batches, sync, aborted>>
           /\ \A u \in Threads \ {t} : job'[u] = job[u]
           /\ job' = job \/ TakeJob(t)
           /\ worked' = worked \/ FinishSlice(t)
           /\ out' = out \/ SetUp(t) \/ FinishSlice(t) \/ FinishTape(t) \/ WindDown(t)
           /\ wpc'[t] = "busy" => TakeJob(t) \/ wpc[t] = "busy"
<1> USE DEF workerVars, machineVars, loopVars, tapeVars, queueVars
<1>1. job \in [Threads -> AnyJob] /\ wpc \in [Threads -> Stages]
  BY DEF PoolInv, Workers
<1>2. CASE Awake(t)
  BY <1>1, <1>2 DEF Awake, TakeNext, WGoto
<1>3. CASE SetUp(t)
  BY <1>1, <1>3 DEF SetUp, WGoto
<1>4. CASE TakeJob(t)
  BY <1>1, <1>4 DEF TakeJob, TakeNext
<1>5. CASE Arrive(t)
  BY <1>5 DEF Arrive
<1>6. CASE FinishSlice(t)
  BY <1>1, <1>6 DEF FinishSlice, WGoto
<1>7. CASE FinishTape(t)
  BY <1>1, <1>7 DEF FinishTape, WGoto
<1>8. CASE FinalCheck(t)
  BY <1>1, <1>8 DEF FinalCheck, WGoto
<1>9. CASE SignOut(t)
  BY <1>1, <1>9 DEF SignOut, TakeNext, WGoto
<1>10. CASE WindDown(t)
  BY <1>1, <1>10 DEF WindDown, WGoto
<1>11. CASE Leave(t)
  BY <1>1, <1>11 DEF Leave, WGoto
<1> QED
  BY <1>2, <1>3, <1>4, <1>5, <1>6, <1>7, <1>8, <1>9, <1>10, <1>11 DEF Worker

\* A thread without a slice, or the main tape's own.
LEMMA OtherWorker ==
    ASSUME LoopInv, NEW t \in Threads \ available, Worker(t)
    PROVE  Handed' /\ NoneLeft' /\ Coverage'
<1>1. /\ PoolInv /\ Queues /\ Ordered /\ job \in [Threads -> AnyJob] /\ wpc \in [Threads -> Stages]
      /\ available \subseteq Threads
  BY DEF LoopInv, MachineInv, PoolInv, Workers, Ordered
<1>2. /\ UNCHANGED <<batch, batches, available>> /\ (in' = in \/ TakeNext(t))
      /\ \A u \in Threads \ {t} :
            wpc'[u] = wpc[u] /\ in'[u] = in[u] /\ out'[u] = out[u] /\ job'[u] = job[u]
      /\ tpc' = tpc \/ (TakeJob(t) /\ t = 0 /\ tpc' = "choose")
  BY <1>1, WorkerCounts, WorkerLeaves
<1>3. /\ \A i \in 1..Len(in[t]) : in[t][i].type \notin Loops
      /\ wpc[t] = "busy" => job[t].type \notin Loops
  BY DEF LoopInv, LoopState, NoneLeft
<1>5. worked' = worked
  BY <1>1, <1>3, WorkerLeaves DEF FinishSlice, InSlice, Loops
<1>6. Handed'
  BY <1>1, <1>2 DEF LoopInv, LoopState, Handed, Current
<1>7. tpc' = "local" <=> tpc = "local"
  <2>1. ASSUME TakeJob(t), t = 0, tpc' = "choose" PROVE tpc # "local"
    BY <1>1, <2>1 DEF TakeJob, Ordered
  <2> QED
    BY <1>2, <2>1
<1>8. Coverage'
  <2>1. \A u \in Threads : (Pending(u)' <=> Pending(u)) /\ (Pending(u) => ToDo(u)' = ToDo(u))
    BY <1>2 DEF Pending, ToDo
  <2> QED
    BY <1>2, <1>5, <1>7, <2>1, CoverageKept DEF LoopInv, LoopState
<1>9. NoneLeft'
  <2>1. \A i \in 1..Len(in'[t]) : in'[t][i].type \notin Loops
    <3>1. CASE in' = in
      BY <1>3, <3>1
    <3>2. CASE TakeNext(t)
      <4> TAKE i \in 1..Len(in'[t])
      <4>1. in'[t][i] = in[t][i + 1] /\ i + 1 \in 1..Len(in[t])
        BY <1>1, <3>2, TakeNextFacts
      <4> QED
        BY <1>3, <4>1
    <3> QED
      BY <1>2, <3>1, <3>2
  <2>2. wpc'[t] = "busy" => job'[t].type \notin Loops
    <3>1. CASE TakeJob(t)
      <4>1. /\ Head(in[t]) = in[t][1] /\ 1 \in 1..Len(in[t]) /\ job'[t] = Head(in[t])
        BY <1>1, <3>1, TakeNextFacts DEF TakeJob
      <4> QED
        BY <1>3, <4>1
    <3>2. CASE ~TakeJob(t)
      BY <1>1, <1>3, <3>2, WorkerLeaves
    <3> QED
      BY <3>1, <3>2
  <2> QED
    BY <1>2, <2>1, <2>2 DEF LoopInv, LoopState, NoneLeft
<1> QED
  BY <1>6, <1>8, <1>9

\* A thread with a slice takes it, waits at the barriers, and is done with it.
LEMMA SliceWorker ==
    ASSUME LoopInv, NEW t \in available, Worker(t)
    PROVE  Handed' /\ NoneLeft' /\ Coverage'
<1>1. /\ PoolInv /\ Queues /\ Ordered /\ job \in [Threads -> AnyJob] /\ wpc \in [Threads -> Stages]
      /\ available \subseteq Threads /\ t \in Threads
  BY OneJob DEF LoopInv, MachineInv, PoolInv, Workers, Ordered
<1>2. /\ UNCHANGED <<batch, batches, available>>
      /\ \A u \in Threads \ {t} :
            wpc'[u] = wpc[u] /\ in'[u] = in[u] /\ out'[u] = out[u] /\ job'[u] = job[u]
      /\ tpc' = tpc
  BY <1>1, OneJob, WorkerCounts, WorkerLeaves
<1>3. NoneLeft'
  BY <1>2 DEF LoopInv, LoopState, NoneLeft
<1>4. /\ \A i \in 1..Len(in[t]) : Current(in[t][i])
      /\ wpc[t] = "busy" => Current(job[t])
      /\ \A i \in 1..Len(out[t]) : Current(out[t][i])
  BY DEF LoopInv, LoopState, Handed
<1>5. \A j : Current(j)' <=> Current(j)
  BY <1>2 DEF Current
<1>6. ASSUME \A i \in 1..Len(in'[t]) : Current(in'[t][i]), wpc'[t] = "busy" => Current(job'[t]),
             \A i \in 1..Len(out'[t]) : Current(out'[t][i])
      PROVE  Handed'
  <2>1. \A u \in available : /\ \A i \in 1..Len(in'[u]) : Current(in'[u][i])
                             /\ wpc'[u] = "busy" => Current(job'[u])
                             /\ \A i \in 1..Len(out'[u]) : Current(out'[u][i])
    <3> TAKE u \in available
    <3>1. CASE u = t
      BY <1>6, <3>1
    <3>2. CASE u # t
      <4>1. u \in Threads /\ wpc'[u] = wpc[u] /\ in'[u] = in[u] /\ out'[u] = out[u] /\ job'[u] = job[u]
        BY <1>1, <1>2, <3>2
      <4> QED
        BY <4>1 DEF LoopInv, LoopState, Handed
    <3> QED
      BY <3>1, <3>2
  <2> QED
    BY <1>2, <2>1 DEF Handed, Current
<1>7. \A u \in Threads \ {t} : (Pending(u)' <=> Pending(u)) /\ ToDo(u)' = ToDo(u)
  BY <1>2 DEF Pending, ToDo
<1>8. CASE TakeJob(t)
  <2>1. /\ Head(in[t]) = in[t][1] /\ 1 \in 1..Len(in[t]) /\ in[t] # <<>> /\ Len(in[t]) = 1
        /\ in'[t] = <<>> /\ out' = out /\ job'[t] = in[t][1]
    <3>1. in[t] # <<>> /\ job'[t] = Head(in[t]) /\ Head(in[t]) = in[t][1] /\ out' = out
          /\ (Len(in[t]) = 1 => in'[t] = <<>>)
      BY <1>1, <1>8, TakeNextFacts DEF TakeJob
    <3> QED
      BY <3>1, OneJob
  <2>2. Current(job'[t]) /\ job'[t].type \in Loops
    BY <1>4, <2>1, OneJob DEF Current
  <2>3. wpc'[t] = "busy"
    BY <1>1, <1>8, <2>1, <2>2 DEF TakeJob, WGoto, Loops
  <2>4. Handed'
    <3>1. Len(in'[t]) = 0
      BY <2>1, EmptySeq
    <3> QED
      BY <1>4, <1>6, <2>1, <2>2, <3>1
  <2>5. Pending(t) /\ Pending(t)' /\ ToDo(t)' = ToDo(t)
    BY <1>2, <2>1, <2>3 DEF Pending, ToDo
  <2>6. worked' = worked
    BY <1>8 DEF TakeJob
  <2>7. Coverage'
    BY <1>1, <1>2, <1>7, <2>5, <2>6, CoverageKept DEF LoopInv, LoopState
  <2> QED
    BY <1>3, <2>4, <2>7
<1>9. CASE Arrive(t)
  <2>1. UNCHANGED <<in, out, wpc, job, worked>>
    BY <1>9 DEF Arrive, queueVars, workerVars
  <2>2. Handed'
    BY <1>4, <1>6, <2>1
  <2>3. (Pending(t)' <=> Pending(t)) /\ ToDo(t)' = ToDo(t)
    BY <1>2, <2>1 DEF Pending, ToDo
  <2>4. Coverage'
    <3>1. \A u \in Threads : (Pending(u)' <=> Pending(u)) /\ (Pending(u) => ToDo(u)' = ToDo(u))
      BY <1>7, <2>3
    <3> QED
      BY <1>2, <2>1, <3>1, CoverageKept DEF LoopInv, LoopState
  <2> QED
    BY <1>3, <2>2, <2>4
<1>10. CASE FinishSlice(t)
  <2>1. /\ wpc[t] = "busy" /\ in' = in /\ out'[t] = Append(out[t], job[t]) /\ wpc'[t] = "loop"
        /\ Work(job[t].begin, job[t].end) /\ job' = job
    BY <1>1, <1>10 DEF FinishSlice, InSlice, Finished, WGoto, Queues
  <2>2. in[t] = <<>> /\ out[t] = <<>>
    BY <2>1, OneJob
  <2>3. Handed'
    <3>1. Len(in'[t]) = 0
      BY <2>1, <2>2, EmptySeq
    <3>2. out'[t] = <<job[t]>>
      BY <2>1, <2>2
    <3>3. Len(out'[t]) = 1 /\ out'[t][1] = job[t]
      BY <3>2
    <3> QED
      BY <1>4, <1>6, <2>1, <3>1, <3>3
  <2>4. /\ Pending(t) /\ ToDo(t) = job[t] /\ ~Pending(t)'
    BY <1>1, <1>2, <2>1, <2>2 DEF Pending, ToDo
  <2>5. \A u \in Threads : \A i \in Items : Covers(u, i)' <=> Covers(u, i) /\ u # t
    BY <1>7, <2>4 DEF Covers, Contains
  <2>6. \A i \in Items : CallerCovers(i)' <=> CallerCovers(i)
    BY <1>2 DEF CallerCovers
  <2>7. \A i \in Items : worked'[i] = worked[i] + IF Covers(t, i) THEN 1 ELSE 0
    BY <2>1, <2>4 DEF Work, Covers, Contains
  <2>8. Coverage'
    <3> SUFFICES ASSUME NEW i \in Items
                 PROVE  /\ worked'[i] \in {0, 1}
                        /\ CallerCovers(i) => worked'[i] = 0
                        /\ \A u \in Threads : Covers(u, i)' => worked'[i] = 0 /\ ~CallerCovers(i)
                        /\ \A u \in Threads : \A v \in Threads : Covers(u, i)' /\ Covers(v, i)' => u = v
                        /\ i < batch.n /\ worked'[i] = 0 =>
                              CallerCovers(i) \/ \E u \in Threads : Covers(u, i)'
      BY <1>2, <2>6 DEF Coverage
    <3>1. /\ worked[i] \in {0, 1} /\ (CallerCovers(i) => worked[i] = 0)
          /\ \A u \in Threads : Covers(u, i) => worked[i] = 0 /\ ~CallerCovers(i)
          /\ \A u \in Threads : \A v \in Threads : Covers(u, i) /\ Covers(v, i) => u = v
          /\ i < batch.n /\ worked[i] = 0 => CallerCovers(i) \/ \E u \in Threads : Covers(u, i)
      BY DEF LoopInv, LoopState, Coverage
    <3>2. CASE Covers(t, i)
      <4>1. worked[i] = 0 /\ worked'[i] = 1 /\ ~CallerCovers(i)
        BY <1>1, <2>7, <3>1, <3>2
      <4>2. \A u \in Threads : ~Covers(u, i)'
        BY <1>1, <2>5, <3>1, <3>2
      <4> QED
        BY <4>1, <4>2
    <3>3. CASE ~Covers(t, i)
      <4>1. worked'[i] = worked[i]
        BY <2>7, <3>1, <3>3
      <4>2. \A u \in Threads : Covers(u, i)' <=> Covers(u, i)
        BY <2>5, <3>3
      <4> QED
        BY <3>1, <4>1, <4>2
    <3> QED
      BY <3>2, <3>3
  <2> QED
    BY <1>3, <2>3, <2>8
<1>11. ~FinishTape(t)
  <2>1. wpc[t] = "busy" => job[t].type \in Loops
    BY <1>4, OneJob DEF Current
  <2> QED
    BY <2>1 DEF FinishTape, Loops
<1>12. wpc[t] \in {"absent", "loop", "busy"}
  BY OneJob
<1> QED
  BY <1>8, <1>9, <1>10, <1>11, <1>12 DEF Worker, Awake, SetUp, FinalCheck, SignOut, WindDown, Leave

LEMMA WorkerLoops ==
    ASSUME LoopInv, NEW t \in Threads, Worker(t)
    PROVE  LoopState'
<1>1. PoolInv /\ Ordered
  BY DEF LoopInv, MachineInv
<1>2. UNCHANGED <<batch, sync, available, tapes, aborted>>
  BY <1>1, WorkerCounts, WorkerLeaves
<1>3. Callers'
  <2>1. CASE tpc' = tpc
    BY <1>2, <2>1 DEF LoopInv, LoopState, Callers
  <2>2. CASE TakeJob(t) /\ t = 0 /\ tpc' = "choose"
    <3>1. tpc = "none"
      BY <1>1, <2>2 DEF TakeJob, Ordered
    <3> QED
      BY <1>2, <2>2, <3>1 DEF LoopInv, LoopState, Callers
  <2> QED
    BY <1>1, <2>1, <2>2, WorkerCounts
<1>4. Handed' /\ NoneLeft' /\ Coverage'
  BY OtherWorker, SliceWorker
<1> QED
  BY <1>2, <1>3, <1>4 DEF LoopInv, LoopState

-----------------------------------------------------------------------------
\* While a tape runs, a thread that is available has nothing in its queues and no work.
LEMMA NothingToDo ==
    ASSUME MachineInv, mpc = "join", NEW t \in Threads, left[t] = 0
    PROVE  in[t] = <<>> /\ out[t] = <<>> /\ wpc[t] # "busy" /\ t \notin tapes
<1>1. wpc[t] \in Early
  BY DEF MachineInv, Stopping, StopSent
<1>2. 0 - Queued(t) - Ready(t) = Holding(wpc[t]) /\ Queues
  BY <1>1 DEF MachineInv, PoolInv, OwedInWork, Owed
<1>3. Queued(t) \in Nat /\ Ready(t) \in Nat /\ in[t] \in Seq(AnyJob) /\ out[t] \in Seq(AnyJob)
  BY <1>2, Lengths
<1>4. Holding(wpc[t]) \in {0, 1} /\ (wpc[t] = "busy" => Holding(wpc[t]) = 1)
  BY DEF Holding
<1>5. Queued(t) = 0 /\ Ready(t) = 0 /\ wpc[t] # "busy"
  BY <1>2, <1>3, <1>4
<1>6. t \notin tapes
  BY DEF MachineInv, Accounts, Account, BeforeStop, Count
<1> QED
  BY <1>3, <1>5, <1>6, EmptySeq DEF Queued, Ready

\* What the threads find in their queues when a loop has been distributed.
LEMMA Distributed ==
    ASSUME MachineInv, mpc = "join", available = {}, sync = 0, ~aborted,
           NEW type \in Loops, NEW n \in Nat, NEW g \in {1, 2}, Distribute(type, n, g)
    PROVE  \E start \in 0..n :
             /\ batch' = [type |-> type, n |-> n, start |-> start] /\ ~aborted'
             /\ \A t \in Threads \ available' : in'[t] = in[t]
             /\ \A t \in available' :
                   /\ t \in Threads \ {0} /\ left[t] = 0 /\ Len(in'[t]) = 1
                   /\ in'[t][1].type = type /\ in'[t][1].output = batches + 1
                   /\ in'[t][1].begin \in 0..n /\ in'[t][1].end \in 0..n
             /\ \A i \in Nat : \A t \in available' : Contains(in'[t][1], i) => i < start
             /\ \A i \in Nat : \A t, u \in available' :
                   Contains(in'[t][1], i) /\ Contains(in'[u][1], i) => t = u
             /\ \A i \in Nat : i < start => \E t \in available' : Contains(in'[t][1], i)
<1> DEFINE F == FindAvailable
           k == Cardinality(F)
           used == IF k = 0 THEN 0 ELSE Used(n, 0, k, g)
           busy == {t \in F : Rank(t, F) <= used}
           slice(i) == Job(type, batches + 1, Begin(i, n, 0, k, g), End(i, n, 0, k, g))
           start == IF k = 0 THEN 0 ELSE Start(n, 0, k, g)
           parties == IF type = "sync" /\ k > 0 THEN SyncParties(n, k) ELSE 0
<1>1. /\ PoolInv /\ F \subseteq Threads /\ IsFiniteSet(F) /\ k \in Nat
      /\ in \in [Threads -> Seq(AnyJob)] /\ nthreads \in Nat
  BY ThreadPoolAssumption, FoundExist, FS_CardinalityType DEF MachineInv, PoolInv, Queues, Addressed
<1>2. F = {t \in 1..(nthreads - 1) : left[t] = 0}
  BY DEF FindAvailable, IsAvailable
<1>3. F \subseteq Threads \ {0} /\ F \subseteq Nat
  BY <1>1, <1>2
<1>4. /\ available' = (IF k = 0 THEN available ELSE busy)
      /\ in' = [t \in Threads |-> IF t \in busy THEN Append(in[t], slice(Rank(t, F))) ELSE in[t]]
      /\ batch' = [type |-> type, n |-> n, start |-> start]
      /\ aborted' = (aborted \/ (k > 0 /\ ~CountsAgree(n, 0, k, g)) \/ (parties > 1 /\ sync > 0))
  BY DEF Distribute
<1>5. k = 0 <=> F = {}
  BY <1>1, FS_EmptySet
<1>6. ~aborted'
  <2>1. k > 0 => CountsAgree(n, 0, k, g)
    <3>1. g \in Nat \ {0}
      OBVIOUS
    <3> HIDE DEF k
    <3>2. k > 0 => k \in Nat \ {0}
      BY <1>1
    <3> QED
      BY <3>1, <3>2, UsedFacts
  <2>2. ~(sync > 0)
    OBVIOUS
  <2> HIDE DEF k, parties
  <2> QED
    BY <1>4, <2>1, <2>2
<1>7. available' = busy /\ busy \subseteq F
  BY <1>4, <1>5
<1>8. ASSUME NEW t \in busy
      PROVE  /\ t \in Threads \ {0} /\ left[t] = 0 /\ Len(in'[t]) = 1
             /\ in'[t][1] = slice(Rank(t, F))
  <2>1. t \in Threads \ {0} /\ left[t] = 0
    BY <1>2, <1>3, <1>7
  <2>2. in[t] = <<>>
    BY <2>1, NothingToDo
  <2>3. in'[t] = Append(<<>>, slice(Rank(t, F)))
    BY <1>4, <2>1, <2>2
  <2> HIDE DEF slice
  <2> QED
    BY <2>1, <2>3
<1>9. \A t \in Threads \ busy : in'[t] = in[t]
  BY <1>4
<1>10. ASSUME NEW t
       PROVE  /\ slice(Rank(t, F)).type = type /\ slice(Rank(t, F)).output = batches + 1
              /\ slice(Rank(t, F)).begin = Slice(t, F, n, g).begin
              /\ slice(Rank(t, F)).end = Slice(t, F, n, g).end
  BY DEF Job, Slice
<1>11. CASE k = 0
  <2>1. busy = {} /\ start = 0
    BY <1>5, <1>11
  <2>2. start \in 0..n /\ \A i \in Nat : ~(i < start)
    BY <2>1
  <2> HIDE DEF busy, start, F
  <2> QED
    BY <1>4, <1>6, <1>7, <1>9, <2>1, <2>2
<1>12. CASE k # 0
  <2>1. F # {} /\ start = Rest(F, n, g) /\ busy = Served(F, n, g) /\ g \in Nat \ {0}
    BY <1>5, <1>12 DEF Rest, Served
  <2>2. /\ start \in 0..n
        /\ \A t \in busy : Slice(t, F, n, g).begin \in 0..n /\ Slice(t, F, n, g).end \in 0..n
        /\ \A i \in Nat : \A t \in busy : Contains(Slice(t, F, n, g), i) => i < start
        /\ \A i \in Nat : \A t, u \in busy :
              Contains(Slice(t, F, n, g), i) /\ Contains(Slice(u, F, n, g), i) => t = u
        /\ \A i \in Nat : i < start => \E t \in busy : Contains(Slice(t, F, n, g), i)
    <3> HIDE DEF F, busy, start
    <3>1. Cut(busy, start, F, n, g)
      BY <1>1, <1>3, <2>1, Partition
    <3> QED
      BY <3>1 DEF Cut
  <2>3. \A t \in busy :
           /\ in'[t][1].type = type /\ in'[t][1].output = batches + 1
           /\ in'[t][1].begin = Slice(t, F, n, g).begin /\ in'[t][1].end = Slice(t, F, n, g).end
    <3> TAKE t \in busy
    <3> HIDE DEF F, busy, start, slice
    <3> QED
      BY <1>8, <1>10
  <2>4. \A t \in busy : \A i \in Nat : Contains(in'[t][1], i) <=> Contains(Slice(t, F, n, g), i)
    BY <2>3 DEF Contains
  <2> HIDE DEF F, busy, start, slice, k
  <2>5. \A t \in busy : in'[t][1].begin \in 0..n /\ in'[t][1].end \in 0..n
    BY <2>2, <2>3
  <2>6. /\ \A i \in Nat : \A t \in busy : Contains(in'[t][1], i) => i < start
        /\ \A i \in Nat : \A t, u \in busy : Contains(in'[t][1], i) /\ Contains(in'[u][1], i) => t = u
        /\ \A i \in Nat : i < start => \E t \in busy : Contains(in'[t][1], i)
    BY <2>2, <2>4
  <2>7. \A t \in busy : t \in Threads \ {0} /\ left[t] = 0 /\ Len(in'[t]) = 1
    BY <1>8
  <2> QED
    BY <1>4, <1>6, <1>7, <1>9, <2>2, <2>3, <2>5, <2>6, <2>7
<1> QED
  BY <1>11, <1>12

-----------------------------------------------------------------------------
\* A step before and after which no thread is listed.
LEMMA NothingListed ==
    ASSUME LoopInv, available = {}, available' = {}, worked' = worked, batch' = batch,
           tpc' = "local" <=> tpc = "local"
    PROVE  Handed' /\ Coverage'
<1>1. \A t \in Threads : ~Pending(t) /\ ~Pending(t)'
  BY DEF Pending
<1>2. Coverage'
  BY <1>1, CoverageKept DEF LoopInv, LoopState
<1> QED
  BY <1>2 DEF Handed

LEMMA BeginLoopLoops ==
    ASSUME LoopInv, BeginLoop
    PROVE  LoopState'
<1>1. /\ MachineInv /\ PoolInv /\ Queues /\ available = {} /\ tpc = "choose" /\ mpc = "join"
      /\ sync = 0 /\ ~aborted /\ 0 \in Threads
  BY ThreadPoolAssumption
     DEF LoopInv, LoopState, MachineInv, PoolInv, Ordered, Callers, BeginLoop, InTape, Threads
<1>2. /\ batches' = batches + 1 /\ worked' = [i \in Items |-> 0] /\ tpc' = "local"
      /\ UNCHANGED <<out, wpc, job, tapes>>
  BY DEF BeginLoop, workerVars
<1>3. PICK type \in Loops, n \in Nat, g \in {1, 2} : Distribute(type, n, g)
  <2>1. MaxItems \in Nat
    BY ThreadPoolAssumption
  <2>2. 1..MaxItems \subseteq Nat /\ 0 \in Nat /\ 1..2 = {1, 2}
    BY <2>1
  <2> QED
    BY <2>2 DEF BeginLoop, Loops
<1>4. PICK start \in 0..n :
         /\ batch' = [type |-> type, n |-> n, start |-> start] /\ ~aborted'
         /\ \A t \in Threads \ available' : in'[t] = in[t]
         /\ \A t \in available' :
               /\ t \in Threads \ {0} /\ left[t] = 0 /\ Len(in'[t]) = 1
               /\ in'[t][1].type = type /\ in'[t][1].output = batches + 1
               /\ in'[t][1].begin \in 0..n /\ in'[t][1].end \in 0..n
         /\ \A i \in Nat : \A t \in available' : Contains(in'[t][1], i) => i < start
         /\ \A i \in Nat : \A t, u \in available' :
               Contains(in'[t][1], i) /\ Contains(in'[u][1], i) => t = u
         /\ \A i \in Nat : i < start => \E t \in available' : Contains(in'[t][1], i)
  BY <1>1, <1>3, Distributed
<1>5. batch'.type = type /\ batch'.n = n /\ batch'.start = start
  BY <1>4
<1>6. \A t \in available' : out[t] = <<>> /\ wpc[t] # "busy" /\ t \notin tapes
  BY <1>1, <1>4, NothingToDo
<1>7. Callers'
  BY <1>2, <1>5, <1>6 DEF Callers
<1>8. Handed'
  <2> SUFFICES ASSUME NEW t \in available'
               PROVE  /\ \A i \in 1..Len(in'[t]) : in'[t][i].type = type /\ in'[t][i].output = batches'
                      /\ wpc'[t] # "busy" /\ Len(out'[t]) = 0
    BY <1>5 DEF Handed, Current
  <2>1. \A i \in 1..Len(in'[t]) : i = 1
    <3>1. Len(in'[t]) = 1 /\ \A i \in 1..1 : i = 1
      BY <1>4
    <3> QED
      BY <3>1
  <2>2. Len(out'[t]) = 0
    BY <1>2, <1>6, EmptySeq
  <2> QED
    BY <1>2, <1>4, <1>6, <2>1, <2>2
<1>9. NoneLeft'
  BY <1>1, <1>2, <1>4 DEF LoopInv, LoopState, NoneLeft
<1>10. \A i \in Items : i \in Nat /\ worked'[i] = 0
  BY <1>2 DEF Items
<1>11. \A t \in Threads : \A i \in Items :
          Covers(t, i)' <=> t \in available' /\ Contains(in'[t][1], i)
  <2> SUFFICES ASSUME NEW t \in available', NEW i \in Items
               PROVE  Covers(t, i)' <=> Contains(in'[t][1], i)
    BY DEF Covers, Pending
  <2>1. in'[t] # <<>>
    BY <1>4, EmptySeq
  <2> QED
    BY <2>1 DEF Covers, Pending, ToDo, Contains
<1>12. \A i \in Items : CallerCovers(i)' <=> start <= i /\ i < n
  BY <1>2, <1>5 DEF CallerCovers
<1>13. Coverage'
  <2> SUFFICES ASSUME NEW i \in Items
               PROVE  /\ \A t \in Threads : Covers(t, i)' => ~(start <= i /\ i < n)
                      /\ \A t \in Threads : \A u \in Threads : Covers(t, i)' /\ Covers(u, i)' => t = u
                      /\ i < n => (start <= i /\ i < n) \/ \E t \in Threads : Covers(t, i)'
    BY <1>5, <1>10, <1>12 DEF Coverage
  <2>1. \A t \in Threads : Covers(t, i)' => i < start
    BY <1>4, <1>10, <1>11
  <2>2. \A t \in Threads : \A u \in Threads : Covers(t, i)' /\ Covers(u, i)' => t = u
    BY <1>4, <1>10, <1>11
  <2>3. i < start => \E t \in Threads : Covers(t, i)'
    BY <1>4, <1>10, <1>11
  <2>4. i \in Nat /\ n \in Nat /\ start \in Nat
    BY <1>4, <1>10
  <2> QED
    BY <2>1, <2>2, <2>3, <2>4
<1> QED
  BY <1>4, <1>7, <1>8, <1>9, <1>13 DEF LoopState

LEMMA FinishLocalLoops ==
    ASSUME LoopInv, FinishLocal
    PROVE  LoopState'
<1>1. /\ tpc = "local" /\ tpc' = "wrapup" /\ Work(batch.start, batch.n)
      /\ UNCHANGED <<in, out, wpc, job, tapes, available, batch, batches, sync, aborted>>
  BY DEF FinishLocal, InTape, queueVars, workerVars
<1>2. Callers' /\ Handed' /\ NoneLeft'
  BY <1>1 DEF LoopInv, LoopState, Callers, Handed, NoneLeft, Current
<1>3. \A t \in Threads : \A i \in Items : Covers(t, i)' <=> Covers(t, i)
  BY <1>1 DEF Covers, Pending, ToDo, Contains
<1>4. \A i \in Items : ~CallerCovers(i)'
  BY <1>1 DEF CallerCovers
<1>5. \A i \in Items : worked'[i] = worked[i] + IF CallerCovers(i) THEN 1 ELSE 0
  BY <1>1 DEF Work, CallerCovers
<1>6. Coverage'
  <2> SUFFICES ASSUME NEW i \in Items
               PROVE  /\ worked'[i] \in {0, 1}
                      /\ \A t \in Threads : Covers(t, i) => worked'[i] = 0
                      /\ \A t \in Threads : \A u \in Threads : Covers(t, i) /\ Covers(u, i) => t = u
                      /\ i < batch.n /\ worked'[i] = 0 => \E t \in Threads : Covers(t, i)
    BY <1>1, <1>3, <1>4 DEF Coverage
  <2>1. /\ worked[i] \in {0, 1} /\ (CallerCovers(i) => worked[i] = 0)
        /\ \A t \in Threads : Covers(t, i) => worked[i] = 0 /\ ~CallerCovers(i)
        /\ \A t \in Threads : \A u \in Threads : Covers(t, i) /\ Covers(u, i) => t = u
        /\ i < batch.n /\ worked[i] = 0 => CallerCovers(i) \/ \E t \in Threads : Covers(t, i)
    BY DEF LoopInv, LoopState, Coverage
  <2>2. CASE CallerCovers(i)
    <3>1. worked'[i] = 1
      BY <1>5, <2>1, <2>2
    <3> QED
      BY <2>1, <2>2, <3>1
  <2>3. CASE ~CallerCovers(i)
    <3>1. worked'[i] = worked[i]
      BY <1>5, <2>1, <2>3
    <3> QED
      BY <2>1, <2>3, <3>1
  <2> QED
    BY <2>2, <2>3
<1> QED
  BY <1>1, <1>2, <1>6 DEF LoopInv, LoopState

LEMMA WrapUpLoops ==
    ASSUME LoopInv, WrapUpThread
    PROVE  LoopState'
<1>1. PICK t \in available :
         /\ TakeResult(t) /\ available' = available \ {t}
         /\ aborted' = (aborted \/ Head(out[t]).output # batches \/ Head(out[t]).type # batch.type)
  BY DEF WrapUpThread
<1>2. UNCHANGED <<wpc, job, tpc, tapes, batch, batches, worked, sync>>
  BY DEF WrapUpThread, workerVars
<1>3. t \in Threads /\ Queues /\ available \subseteq Threads
  BY OneJob DEF LoopInv, MachineInv, PoolInv, Ordered
<1>4. /\ in' = in /\ out[t] # <<>> /\ \A u \in Threads \ {t} : out'[u] = out[u]
  BY <1>1, <1>3, TakeResultFacts
<1>5. in[t] = <<>> /\ wpc[t] # "busy"
  BY <1>4, OneJob
<1>6. Head(out[t]) = out[t][1] /\ 1 \in 1..Len(out[t])
  <2>1. out[t] \in Seq(AnyJob) /\ Len(out[t]) \in Nat
    BY <1>3, Lengths DEF Ready
  <2>2. Len(out[t]) # 0
    BY <1>4, <2>1, EmptySeq
  <2> QED
    BY <2>1, <2>2
<1>7. ~aborted'
  BY <1>1, <1>6 DEF LoopInv, LoopState, Handed, Current
<1>8. Callers'
  BY <1>1, <1>2 DEF LoopInv, LoopState, Callers
<1>9. Handed'
  BY <1>1, <1>2, <1>3, <1>4 DEF LoopInv, LoopState, Handed, Current
<1>10. NoneLeft'
  <2>1. Len(in[t]) = 0
    BY <1>5, EmptySeq
  <2>2. \A u \in Threads \ available' : u = t \/ u \in Threads \ available
    BY <1>1
  <2> QED
    BY <1>2, <1>4, <1>5, <2>1, <2>2 DEF LoopInv, LoopState, NoneLeft
<1>11. Coverage'
  <2>1. \A u \in Threads : (Pending(u)' <=> Pending(u)) /\ ToDo(u)' = ToDo(u)
    BY <1>1, <1>2, <1>4, <1>5 DEF Pending, ToDo
  <2> QED
    BY <1>2, <2>1, CoverageKept DEF LoopInv, LoopState
<1> QED
  BY <1>7, <1>8, <1>9, <1>10, <1>11 DEF LoopState

LEMMA TapeLoops ==
    ASSUME LoopInv, MainTape
    PROVE  LoopState'
<1> USE DEF workerVars, machineVars, loopVars, tapeVars, queueVars
<1>1. /\ PoolInv /\ Queues /\ Ordered /\ Callers /\ NoneLeft /\ 0 \in Threads
      /\ wpc \in [Threads -> Stages] /\ ~aborted
  BY ThreadPoolAssumption
     DEF LoopInv, LoopState, MachineInv, PoolInv, Workers, Threads
<1>2. ASSUME NEW t \in Threads, RunTape(t) PROVE LoopState'
  <2>1. /\ Schedule(t, TapeJob) /\ TapeJob \in AnyJob /\ TapeJob.type \notin Loops
        /\ available = {} /\ tpc = "choose"
        /\ UNCHANGED <<available, batch, batches, worked, sync, tpc, wpc, job, aborted>>
    BY <1>1, <1>2 DEF RunTape, TapeJob, Job, AnyJob, Loops, InTape, Ordered
  <2>2. Handed' /\ Coverage'
    BY <2>1, NothingListed
  <2>3. Callers'
    BY <1>1, <2>1 DEF Callers
  <2>4. \A u \in Threads : \A i \in 1..Len(in'[u]) : in'[u][i].type \notin Loops
    <3> TAKE u \in Threads
    <3>1. CASE u # t
      BY <1>1, <2>1, <3>1, ScheduleFacts DEF NoneLeft
    <3>2. CASE u = t
      BY <1>1, <2>1, <3>2, ElementsAfter DEF NoneLeft
    <3> QED
      BY <3>1, <3>2
  <2>5. NoneLeft'
    BY <1>1, <2>1, <2>4 DEF NoneLeft
  <2> QED
    BY <1>1, <2>1, <2>2, <2>3, <2>5 DEF LoopState
<1>3. ASSUME NEW t \in Threads, JoinTape(t) PROVE LoopState'
  <2>1. /\ in' = in /\ available = {} /\ tpc = "choose" /\ tapes' = tapes \ {t}
        /\ UNCHANGED <<available, batch, batches, worked, sync, tpc, wpc, job, aborted>>
    BY <1>1, <1>3, TakeResultFacts DEF JoinTape, InTape, Ordered
  <2>2. Handed' /\ Coverage'
    BY <2>1, NothingListed
  <2>3. Callers' /\ NoneLeft'
    BY <1>1, <2>1 DEF Callers, NoneLeft
  <2> QED
    BY <1>1, <2>1, <2>2, <2>3 DEF LoopState
<1>4. CASE EndLoop
  <2>1. /\ available = {} /\ tpc = "wrapup" /\ tpc' = "choose" /\ sync' = 0
        /\ UNCHANGED <<in, available, batch, batches, worked, wpc, job, tapes, aborted>>
    BY <1>4 DEF EndLoop, InTape
  <2>2. Handed' /\ Coverage'
    BY <2>1, NothingListed
  <2>3. Callers' /\ NoneLeft'
    BY <1>1, <2>1 DEF Callers, NoneLeft
  <2> QED
    BY <1>1, <2>1, <2>2, <2>3 DEF LoopState
<1>5. CASE EndTape
  <2>1. /\ available = {} /\ tpc = "choose" /\ tpc' = "none" /\ in' = in
        /\ wpc' = [wpc EXCEPT ![0] = "loop"]
        /\ UNCHANGED <<available, batch, batches, worked, sync, job, tapes, aborted>>
    BY <1>1, <1>5 DEF EndTape, InTape, WGoto, Finished, Ordered
  <2>2. Handed' /\ Coverage'
    BY <2>1, NothingListed
  <2>3. Callers' /\ NoneLeft'
    BY <1>1, <2>1 DEF Callers, NoneLeft
  <2> QED
    BY <1>1, <2>1, <2>2, <2>3 DEF LoopState
<1> QED
  BY <1>2, <1>3, <1>4, <1>5, BeginLoopLoops, FinishLocalLoops, WrapUpLoops DEF MainTape

\* The machine has no part in a loop: none is under way when it does anything.
LEMMA MachineLoops ==
    ASSUME LoopInv, Machine
    PROVE  LoopState'
<1> USE DEF workerVars, machineVars, loopVars, tapeVars, queueVars
<1>1. /\ PoolInv /\ Queues /\ Ordered /\ Callers /\ NoneLeft /\ ~aborted /\ MachineInv
      /\ wpc \in [Threads -> Stages]
  BY DEF LoopInv, LoopState, MachineInv, PoolInv, Workers
<1>2. UNCHANGED <<tpc, tapes, available, batch, batches, worked, sync, job, aborted>>
  BY DEF Machine, Prepare, StartThread, ThreadStarted, RunMain, JoinMain, StopThread, LetSignOut,
         TakeUsage, JoinThread
<1>3. tpc = "none"
  <2>1. CASE JoinMain
    <3>1. tpc' = "none"
      <4>1. Ordered' /\ mpc' # "join"
        BY <1>1, <2>1, MachineKeeps DEF MachineInv, JoinMain, Machine
      <4> QED
        BY <4>1 DEF Ordered
    <3> QED
      BY <1>2, <3>1
  <2>2. CASE mpc # "join"
    BY <1>1, <2>2 DEF Ordered
  <2> QED
    BY <2>1, <2>2 DEF Machine, Prepare, StartThread, ThreadStarted, RunMain, StopThread,
       LetSignOut, TakeUsage, JoinThread
<1>4. available = {}
  BY <1>1, <1>3 DEF Ordered
<1>5. Handed' /\ Coverage'
  BY <1>2, <1>4, NothingListed
<1>6. Callers'
  BY <1>1, <1>2 DEF Callers
<1>7. ASSUME (in' = in) \/ \E t \in Threads : \E j \in {NoJob, StopJob, TapeJob} : Schedule(t, j),
             \A t \in Threads : wpc'[t] = wpc[t] \/ wpc'[t] # "busy"
      PROVE  NoneLeft'
  <2>1. \A j \in {NoJob, StopJob, TapeJob} : j \in AnyJob /\ j.type \notin Loops
    BY DEF NoJob, StopJob, TapeJob, Job, AnyJob, Loops
  <2>2. \A u \in Threads : \A i \in 1..Len(in'[u]) : in'[u][i].type \notin Loops
    <3>1. CASE in' = in
      BY <1>1, <1>4, <3>1 DEF NoneLeft
    <3>2. ASSUME NEW t \in Threads, NEW j \in {NoJob, StopJob, TapeJob}, Schedule(t, j)
          PROVE  \A u \in Threads : \A i \in 1..Len(in'[u]) : in'[u][i].type \notin Loops
      <4> TAKE u \in Threads
      <4>1. CASE u # t
        BY <1>1, <1>4, <2>1, <3>2, <4>1, ScheduleFacts DEF NoneLeft
      <4>2. CASE u = t
        BY <1>1, <1>4, <2>1, <3>2, <4>2, ElementsAfter DEF NoneLeft
      <4> QED
        BY <4>1, <4>2
    <3> QED
      BY <1>7, <3>1, <3>2
  <2> QED
    BY <1>1, <1>2, <1>4, <1>7, <2>2 DEF NoneLeft
<1>8. mpc \in Starts => mthread \in Threads
  BY ThreadPoolAssumption DEF LoopInv, MachineInv, PoolInv, Addressed, Threads
<1>9. 0 \in Threads
  BY ThreadPoolAssumption DEF Threads
<1>10. NoneLeft'
  <2>1. CASE Prepare \/ JoinThread
    BY <1>7, <2>1 DEF Prepare, JoinThread
  <2>2. CASE ThreadStarted \/ TakeUsage \/ JoinMain
    BY <1>7, <2>2 DEF ThreadStarted, TakeUsage, JoinMain, TakeResult
  <2>3. CASE StartThread
    BY <1>1, <1>7, <1>8, <2>3 DEF StartThread, WGoto, Starts
  <2>4. CASE StopThread \/ LetSignOut \/ RunMain
    BY <1>1, <1>7, <1>8, <1>9, <2>4 DEF StopThread, LetSignOut, RunMain, Starts
  <2> QED
    BY <2>1, <2>2, <2>3, <2>4 DEF Machine
<1> QED
  BY <1>1, <1>2, <1>5, <1>6, <1>10 DEF LoopState

-----------------------------------------------------------------------------
LEMMA LoopInit == Init => LoopInv
<1> SUFFICES ASSUME Init PROVE LoopInv
  OBVIOUS
<1>1. \A t \in Threads : in[t] = <<>> /\ wpc[t] = "absent"
  BY DEF Init
<1>2. Len(<<>>) = 0
  BY EmptySeq
<1>3. Callers /\ Handed /\ NoneLeft
  BY <1>1, <1>2 DEF Init, Callers, Handed, NoneLeft
<1>4. Coverage
  <2>1. \A i \in Items : i \in Nat /\ worked[i] = 0 /\ ~CallerCovers(i) /\ ~(i < batch.n)
    BY DEF Init, CallerCovers, NoBatch, Items
  <2>2. \A t \in Threads : \A i \in Items : ~Covers(t, i)
    BY DEF Init, Covers, Pending
  <2> QED
    BY <2>1, <2>2 DEF Coverage
<1> QED
  BY <1>3, <1>4, MachineInit DEF Init, LoopInv, LoopState

LEMMA LoopStep == LoopInv /\ [Next]_vars => LoopInv'
<1> SUFFICES ASSUME LoopInv, [Next]_vars PROVE LoopInv'
  OBVIOUS
<1>1. MachineInv'
  BY MachineInvStep DEF LoopInv
<1>2. CASE UNCHANGED vars
  <2>1. UNCHANGED <<in, out, wpc, job, tpc, tapes, available, batch, batches, worked, sync, aborted>>
    BY <1>2 DEF vars, queueVars, workerVars, machineVars, tapeVars, loopVars
  <2>2. Callers' /\ Handed' /\ NoneLeft'
    BY <2>1 DEF LoopInv, LoopState, Callers, Handed, NoneLeft, Current
  <2>3. Coverage'
    <3>1. \A t \in Threads : (Pending(t)' <=> Pending(t)) /\ ToDo(t)' = ToDo(t)
      BY <2>1 DEF Pending, ToDo
    <3> QED
      BY <2>1, <3>1, CoverageKept DEF LoopInv, LoopState
  <2> QED
    BY <1>1, <2>1, <2>2, <2>3 DEF LoopInv, LoopState
<1>3. CASE Next
  <2>1. LoopState'
    BY <1>2, <1>3, MachineLoops, TapeLoops, WorkerLoops DEF Next, LoopInv
  <2> QED
    BY <1>1, <2>1 DEF LoopInv
<1> QED
  BY <1>2, <1>3

LEMMA LoopInvariance == Spec => []LoopInv
  BY LoopInit, LoopStep, PTL DEF Spec

\* No assertion of ThreadQueues fails, whatever the loops: the two ways of counting the
\* threads agree (lines 143 to 163), wrap_up takes a result of the loop it wraps up, and
\* no barrier is left from a loop before.
THEOREM AssertionsHold == Spec => []NoAssertionFails
<1>1. LoopInv => NoAssertionFails
  BY DEF LoopInv, LoopState, NoAssertionFails
<1> QED
  BY <1>1, LoopInvariance, PTL

\* The slices of the threads and the caller's part make up the loop (distribute_no_setup):
\* no item is worked on twice, and none is left out when the loop has been wrapped up.
THEOREM LoopsComplete == Spec => []EachItemOnce
<1>1. LoopInv => EachItemOnce
  <2> SUFFICES ASSUME LoopInv, NEW i \in Items
               PROVE  worked[i] <= 1 /\ (tpc = "choose" /\ i < batch.n => worked[i] = 1)
    BY DEF EachItemOnce
  <2>1. worked[i] \in {0, 1}
    BY DEF LoopInv, LoopState, Coverage
  <2>2. ASSUME tpc = "choose", i < batch.n PROVE worked[i] = 1
    <3>1. available = {}
      BY <2>2 DEF LoopInv, MachineInv, Ordered
    <3>2. ~CallerCovers(i) /\ \A t \in Threads : ~Covers(t, i)
      BY <2>2, <3>1 DEF CallerCovers, Covers, Pending
    <3> QED
      BY <2>1, <2>2, <3>2 DEF LoopInv, LoopState, Coverage
  <2> QED
    BY <2>1, <2>2
<1> QED
  BY <1>1, LoopInvariance, PTL

-----------------------------------------------------------------------------
(* Type correctness.  The counter `left' stays a number when the machine    *)
(* stops as well: a thread that has stopped is owed what it never answered. *)

Spare(stage) ==
    IF stage = "winddown" THEN 2
    ELSE IF stage \in {"final", "signout", "leaving", "ended"} THEN 1
    ELSE Holding(stage)
OwedAtLeast == \A t \in Threads : Owed(t) >= Spare(wpc[t])

QueueTypes == /\ in \in [Threads -> Seq(Jobs)] /\ out \in [Threads -> Seq(Jobs)]
              /\ job \in [Threads -> Jobs]
StateTypes ==
    /\ mpc \in {"prepare", "starting", "run", "join", "stop", "signout", "usage",
                "joining", "done"}
    /\ mthread \in 0..MaxThreads /\ runs \in 0..MaxRuns /\ tapesRun \in 0..MaxTapes
LoopTypes ==
    /\ batch \in [type : {"none", "loop", "sync", "check"}, n : 0..MaxItems, start : 0..MaxItems]
    /\ batches \in 0..MaxBatches /\ worked \in [Items -> Nat]
    /\ sync \in Nat /\ arrivals \in Nat
    /\ at \in [Threads -> 0..NSyncs] /\ phase \in [Threads -> Nat]
    /\ aborted \in BOOLEAN
TypeInv == LoopInv /\ OwedAtLeast /\ QueueTypes /\ StateTypes /\ LoopTypes

LEMMA JobsAreAny == Jobs \subseteq AnyJob
<1>1. MaxItems \in Nat /\ MaxBatches \in Nat
  BY ThreadPoolAssumption
<1> QED
  BY <1>1 DEF Jobs, AnyJob

LEMMA KnownJobs == /\ NoJob \in Jobs /\ StopJob \in Jobs /\ TapeJob \in Jobs /\ Usage \in Jobs
<1>1. MaxItems \in Nat /\ MaxBatches \in Nat
  BY ThreadPoolAssumption
<1> QED
  BY <1>1 DEF NoJob, StopJob, TapeJob, Usage, Job, Jobs

LEMMA TypesSuffice == ASSUME TypeInv PROVE TypeOK
<1>1. left \in [Threads -> Nat]
  <2>1. left \in [Threads -> Int] /\ Queues
    BY DEF TypeInv, LoopInv, MachineInv, PoolInv, Queues
  <2>2. \A t \in Threads : left[t] \in Nat
    <3> TAKE t \in Threads
    <3>1. Queued(t) \in Nat /\ Ready(t) \in Nat /\ left[t] \in Int
      BY <2>1, Lengths
    <3>2. Spare(wpc[t]) \in Nat
      BY DEF Spare, Holding
    <3>3. left[t] - Queued(t) - Ready(t) >= Spare(wpc[t])
      BY DEF TypeInv, OwedAtLeast, Owed
    <3> QED
      BY <3>1, <3>2, <3>3
  <2> QED
    BY <2>1, <2>2
<1>2. wpc \in [Threads -> Stages] /\ nthreads \in 0..MaxThreads
  BY DEF TypeInv, LoopInv, MachineInv, PoolInv, Workers, Addressed
<1>3. tpc \in {"none", "choose", "local", "wrapup"} /\ tapes \subseteq Threads
      /\ available \subseteq Threads \ {0}
  BY DEF TypeInv, LoopInv, MachineInv, Ordered
<1> QED
  BY <1>1, <1>2, <1>3 DEF TypeInv, QueueTypes, StateTypes, LoopTypes, TypeOK, Stages

\* The operations of ThreadQueue again: which jobs are in the queues.
LEMMA ScheduleTypes ==
    ASSUME QueueTypes, NEW t \in Threads, NEW j \in Jobs, Schedule(t, j)
    PROVE  in' \in [Threads -> Seq(Jobs)] /\ out' \in [Threads -> Seq(Jobs)]
<1>1. Append(in[t], j) \in Seq(Jobs)
  BY AppendProperties DEF QueueTypes
<1> QED
  BY <1>1 DEF QueueTypes, Schedule

LEMMA TakeNextTypes ==
    ASSUME QueueTypes, NEW t \in Threads, TakeNext(t)
    PROVE  /\ in' \in [Threads -> Seq(Jobs)] /\ out' \in [Threads -> Seq(Jobs)]
           /\ Head(in[t]) \in Jobs
<1>1. in[t] \in Seq(Jobs) /\ in[t] # <<>>
  BY DEF QueueTypes, TakeNext
<1>2. Head(in[t]) \in Jobs /\ Tail(in[t]) \in Seq(Jobs)
  BY <1>1, HeadTailProperties
<1> QED
  BY <1>2 DEF QueueTypes, TakeNext

LEMMA FinishedTypes ==
    ASSUME QueueTypes, NEW t \in Threads, NEW j \in Jobs, Finished(t, j)
    PROVE  in' \in [Threads -> Seq(Jobs)] /\ out' \in [Threads -> Seq(Jobs)]
<1>1. Append(out[t], j) \in Seq(Jobs)
  BY AppendProperties DEF QueueTypes
<1> QED
  BY <1>1 DEF QueueTypes, Finished

LEMMA TakeResultTypes ==
    ASSUME QueueTypes, NEW t \in Threads, TakeResult(t)
    PROVE  in' \in [Threads -> Seq(Jobs)] /\ out' \in [Threads -> Seq(Jobs)]
<1>1. out[t] \in Seq(Jobs) /\ out[t] # <<>>
  BY DEF QueueTypes, TakeResult
<1>2. Tail(out[t]) \in Seq(Jobs)
  BY <1>1, HeadTailProperties
<1> QED
  BY <1>2 DEF QueueTypes, TakeResult

\* A thread that moves on and is still owed enough.
LEMMA StillOwed ==
    ASSUME OwedAtLeast, NEW t \in Threads, NEW w \in Stages, wpc' = [wpc EXCEPT ![t] = w],
           wpc \in [Threads -> Stages], \A u \in Threads \ {t} : Owed(u)' = Owed(u),
           Owed(t)' >= Spare(w)
    PROVE  OwedAtLeast'
<1>1. wpc'[t] = w /\ \A u \in Threads \ {t} : wpc'[u] = wpc[u]
  OBVIOUS
<1> QED
  BY <1>1 DEF OwedAtLeast

LEMMA SameOwed ==
    ASSUME OwedAtLeast, wpc' = wpc, \A u \in Threads : Owed(u)' = Owed(u)
    PROVE  OwedAtLeast'
  BY DEF OwedAtLeast

LEMMA WorkerTypes ==
    ASSUME TypeInv, NEW t \in Threads, Worker(t)
    PROVE  OwedAtLeast' /\ QueueTypes' /\ StateTypes' /\ LoopTypes'
<1> USE DEF workerVars, machineVars, loopVars, tapeVars, queueVars
<1>1. /\ PoolInv /\ Queues /\ OwedAtLeast /\ QueueTypes /\ StateTypes /\ LoopTypes
      /\ wpc \in [Threads -> Stages] /\ job \in [Threads -> Jobs] /\ Owed(t) \in Int
  <2>1. Queues
    BY DEF TypeInv, LoopInv, MachineInv, PoolInv
  <2>2. Owed(t) \in Int
    BY <2>1, Lengths DEF Owed
  <2> QED
    BY <2>1, <2>2 DEF TypeInv, LoopInv, MachineInv, PoolInv, Workers, QueueTypes
<1>2. StateTypes'
  BY <1>1 DEF StateTypes, Worker, Awake, SetUp, TakeJob, Arrive, FinishSlice, FinishTape,
         FinalCheck, SignOut, WindDown, Leave
<1>3. ASSUME TakeNext(t), NEW w \in Stages, wpc' = [wpc EXCEPT ![t] = w],
             Spare(w) = Spare(wpc[t]) + 1
      PROVE  OwedAtLeast'
  <2>1. /\ Owed(t)' = Owed(t) + 1 /\ \A u \in Threads \ {t} : Owed(u)' = Owed(u)
    BY <1>1, <1>3, TakeNextOwes
  <2>2. Owed(t) >= Spare(wpc[t]) /\ Spare(wpc[t]) \in Int
    BY <1>1 DEF OwedAtLeast, Spare, Holding
  <2>3. Owed(t)' >= Spare(w)
    BY <1>1, <1>3, <2>1, <2>2
  <2> QED
    BY <1>1, <1>3, <2>1, <2>3, StillOwed
<1>4. ASSUME NEW j \in Jobs, Finished(t, j), NEW w \in Stages, wpc' = [wpc EXCEPT ![t] = w],
             Spare(wpc[t]) = Spare(w) + 1
      PROVE  OwedAtLeast'
  <2>1. /\ Owed(t)' = Owed(t) - 1 /\ \A u \in Threads \ {t} : Owed(u)' = Owed(u)
    BY <1>1, <1>4, JobsAreAny, FinishedOwes
  <2>2. Owed(t) >= Spare(wpc[t]) /\ Spare(w) \in Int
    BY <1>1 DEF OwedAtLeast, Spare, Holding
  <2>3. Owed(t)' >= Spare(w)
    BY <1>1, <1>4, <2>1, <2>2
  <2> QED
    BY <1>1, <1>4, <2>1, <2>3, StillOwed
<1>5. ASSUME UNCHANGED <<in, out, left>>, NEW w \in Stages, wpc' = [wpc EXCEPT ![t] = w],
             Spare(w) = Spare(wpc[t])
      PROVE  OwedAtLeast'
  <2>1. \A u \in Threads : Owed(u)' = Owed(u)
    BY <1>1, <1>5, SameQueues
  <2>2. Owed(t)' >= Spare(w)
    BY <1>1, <1>5, <2>1 DEF OwedAtLeast
  <2> QED
    BY <1>1, <1>5, <2>1, <2>2, StillOwed
<1>6. MaxItems \in Nat /\ NSyncs \in Nat
  BY ThreadPoolAssumption
<1>7. CASE Awake(t)
  <2>1. OwedAtLeast'
    BY <1>3, <1>7 DEF Awake, WGoto, Stages, Spare, Holding
  <2>2. QueueTypes' /\ LoopTypes'
    BY <1>1, <1>7, TakeNextTypes DEF Awake, QueueTypes, LoopTypes
  <2> QED
    BY <1>2, <2>1, <2>2
<1>8. CASE SetUp(t)
  <2>1. OwedAtLeast'
    BY <1>4, <1>8, KnownJobs DEF SetUp, WGoto, Stages, Spare, Holding
  <2>2. QueueTypes' /\ LoopTypes'
    BY <1>1, <1>8, KnownJobs, FinishedTypes DEF SetUp, QueueTypes, LoopTypes
  <2> QED
    BY <1>2, <2>1, <2>2
<1>9. CASE TakeJob(t)
  <2>1. OwedAtLeast'
    BY <1>3, <1>9 DEF TakeJob, WGoto, Stages, Spare, Holding
  <2>2. QueueTypes'
    BY <1>1, <1>9, TakeNextTypes DEF TakeJob, QueueTypes
  <2>3. LoopTypes'
    BY <1>1, <1>6, <1>9 DEF TakeJob, LoopTypes
  <2> QED
    BY <1>2, <2>1, <2>2, <2>3
<1>10. CASE Arrive(t)
  <2>1. UNCHANGED <<in, out, left, wpc, job>> /\ sync > 0 /\ at[t] < NSyncs
    BY <1>10 DEF Arrive, MustSync
  <2>2. OwedAtLeast' /\ QueueTypes'
    BY <1>1, <2>1, SameQueues, SameOwed DEF QueueTypes
  <2>3. arrivals \div sync \in Nat /\ arrivals + 1 \in Nat /\ at[t] + 1 \in 0..NSyncs
    <3>1. sync \in Nat \ {0} /\ arrivals \in Nat /\ at[t] \in 0..NSyncs
      BY <1>1, <2>1 DEF LoopTypes
    <3> QED
      BY <1>6, <2>1, <3>1, Division
  <2>4. LoopTypes'
    BY <1>1, <1>10, <2>3 DEF Arrive, LoopTypes
  <2> QED
    BY <1>2, <2>2, <2>4
<1>11. CASE FinishSlice(t)
  <2>1. wpc[t] = "busy" /\ job[t] \in Jobs /\ Finished(t, job[t])
        /\ wpc' = [wpc EXCEPT ![t] = "loop"]
    BY <1>1, <1>11 DEF FinishSlice, InSlice, WGoto
  <2>2. OwedAtLeast'
    BY <1>4, <2>1 DEF Stages, Spare, Holding
  <2>3. QueueTypes'
    BY <1>1, <1>11, <2>1, FinishedTypes DEF FinishSlice, QueueTypes
  <2>4. worked' \in [Items -> Nat]
    BY <1>1, <1>11 DEF FinishSlice, Work, LoopTypes
  <2>5. LoopTypes'
    BY <1>1, <1>11, <2>4 DEF FinishSlice, LoopTypes
  <2> QED
    BY <1>2, <2>2, <2>3, <2>5
<1>12. CASE FinishTape(t)
  <2>1. OwedAtLeast'
    BY <1>4, <1>12, KnownJobs DEF FinishTape, WGoto, Stages, Spare, Holding
  <2>2. QueueTypes' /\ LoopTypes'
    BY <1>1, <1>12, KnownJobs, FinishedTypes DEF FinishTape, QueueTypes, LoopTypes
  <2> QED
    BY <1>2, <2>1, <2>2
<1>13. CASE FinalCheck(t)
  <2>1. OwedAtLeast'
    BY <1>5, <1>13 DEF FinalCheck, WGoto, Stages, Spare
  <2> QED
    BY <1>1, <1>2, <1>13, <2>1 DEF FinalCheck, QueueTypes, LoopTypes
<1>14. CASE SignOut(t)
  <2>1. OwedAtLeast'
    BY <1>3, <1>14 DEF SignOut, WGoto, Stages, Spare
  <2>2. QueueTypes' /\ LoopTypes'
    BY <1>1, <1>14, TakeNextTypes DEF SignOut, QueueTypes, LoopTypes
  <2> QED
    BY <1>2, <2>1, <2>2
<1>15. CASE WindDown(t)
  <2>1. OwedAtLeast'
    BY <1>4, <1>15, KnownJobs DEF WindDown, WGoto, Stages, Spare
  <2>2. QueueTypes' /\ LoopTypes'
    BY <1>1, <1>15, KnownJobs, FinishedTypes DEF WindDown, QueueTypes, LoopTypes
  <2> QED
    BY <1>2, <2>1, <2>2
<1>16. CASE Leave(t)
  <2>1. OwedAtLeast'
    BY <1>5, <1>16 DEF Leave, WGoto, Stages, Spare
  <2> QED
    BY <1>1, <1>2, <1>16, <2>1 DEF Leave, QueueTypes, LoopTypes
<1> QED
  BY <1>7, <1>8, <1>9, <1>10, <1>11, <1>12, <1>13, <1>14, <1>15, <1>16 DEF Worker

\* A queue of one job.
LEMMA OneElement ==
    ASSUME NEW s \in Seq(AnyJob), Len(s) = 1, s[1] \in Jobs
    PROVE  s \in Seq(Jobs)
<1>1. <<s[1]>> \in Seq(Jobs) /\ <<s[1]>> \in Seq(AnyJob) /\ Len(<<s[1]>>) = 1
  BY JobsAreAny
<1>2. s = <<s[1]>>
  <2>1. \A i \in 1..Len(s) : s[i] = <<s[1]>>[i]
    <3>1. \A i \in 1..1 : i = 1
      OBVIOUS
    <3> QED
      BY <3>1
  <2> QED
    BY <1>1, <2>1, SeqEqual
<1> QED
  BY <1>1, <1>2

LEMMA BeginLoopTypes ==
    ASSUME TypeInv, BeginLoop
    PROVE  OwedAtLeast' /\ QueueTypes' /\ StateTypes' /\ LoopTypes'
<1> USE DEF workerVars, machineVars, queueVars
<1>1. /\ MachineInv /\ PoolInv /\ available = {} /\ mpc = "join" /\ sync = 0 /\ ~aborted
      /\ QueueTypes /\ StateTypes /\ LoopTypes /\ OwedAtLeast
  BY DEF TypeInv, LoopInv, LoopState, MachineInv, Ordered, Callers, BeginLoop, InTape
<1>2. /\ batches' = batches + 1 /\ batches < MaxBatches /\ worked' = [i \in Items |-> 0]
      /\ arrivals' = 0 /\ at' = [at EXCEPT ![0] = 0]
      /\ UNCHANGED <<out, wpc, job, mpc, mthread, runs, tapesRun, phase>>
  BY DEF BeginLoop
<1>3. MaxItems \in Nat /\ MaxBatches \in Nat /\ NSyncs \in Nat
  BY ThreadPoolAssumption
<1>4. PICK type \in Loops, n \in 0..MaxItems, g \in {1, 2} : Distribute(type, n, g)
  <2>1. 1..MaxItems \subseteq 0..MaxItems /\ 0 \in 0..MaxItems /\ 1..2 = {1, 2}
    BY <1>3
  <2> QED
    BY <2>1 DEF BeginLoop, Loops
<1>5. n \in Nat /\ n <= MaxItems
  BY <1>3
<1>6. PICK start \in 0..n :
         /\ batch' = [type |-> type, n |-> n, start |-> start] /\ ~aborted'
         /\ \A t \in Threads \ available' : in'[t] = in[t]
         /\ \A t \in available' :
               /\ t \in Threads \ {0} /\ left[t] = 0 /\ Len(in'[t]) = 1
               /\ in'[t][1].type = type /\ in'[t][1].output = batches + 1
               /\ in'[t][1].begin \in 0..n /\ in'[t][1].end \in 0..n
         /\ \A i \in Nat : \A t \in available' : Contains(in'[t][1], i) => i < start
         /\ \A i \in Nat : \A t, u \in available' :
               Contains(in'[t][1], i) /\ Contains(in'[u][1], i) => t = u
         /\ \A i \in Nat : i < start => \E t \in available' : Contains(in'[t][1], i)
  BY <1>1, <1>4, <1>5, Distributed
<1>7. Queues' /\ \A u \in Threads : Owed(u)' = Owed(u)
  BY <1>1, <1>2, <1>4, <1>5, DistributeOwes DEF Loops
<1>8. OwedAtLeast'
  BY <1>1, <1>2, <1>7, SameOwed
<1>9. QueueTypes'
  <2>1. in' \in [Threads -> Seq(AnyJob)]
    BY <1>7 DEF Queues
  <2>2. \A t \in Threads : in'[t] \in Seq(Jobs)
    <3> TAKE t \in Threads
    <3>1. CASE t \notin available'
      BY <1>1, <1>6, <3>1 DEF QueueTypes
    <3>2. CASE t \in available'
      <4>1. in'[t] \in Seq(AnyJob) /\ Len(in'[t]) = 1
        BY <1>6, <2>1, <3>2
      <4>2. in'[t][1] \in AnyJob
        BY <4>1, ElementOfSeq
      <4>3. batches + 1 \in 0..MaxBatches
        BY <1>1, <1>2, <1>3 DEF LoopTypes
      <4>4. 0..n \subseteq 0..MaxItems
        BY <1>3, <1>5
      <4>5. /\ in'[t][1].type \in Loops /\ in'[t][1].output \in 0..MaxBatches
            /\ in'[t][1].begin \in 0..MaxItems /\ in'[t][1].end \in 0..MaxItems
        BY <1>6, <3>2, <4>3, <4>4
      <4>6. in'[t][1] \in Jobs
        BY <4>2, <4>5 DEF AnyJob, Jobs, Loops
      <4> QED
        BY <4>1, <4>6, OneElement
    <3> QED
      BY <3>1, <3>2
  <2> QED
    BY <1>1, <1>2, <2>1, <2>2 DEF QueueTypes
<1>10. StateTypes'
  BY <1>1, <1>2 DEF StateTypes
<1>11. LoopTypes'
  <2>1. batch' \in [type : {"none", "loop", "sync", "check"}, n : 0..MaxItems, start : 0..MaxItems]
    BY <1>3, <1>4, <1>6 DEF Loops
  <2>2. sync' \in Nat
    <3> DEFINE k == Cardinality(FindAvailable)
               parties == IF type = "sync" /\ k > 0 THEN SyncParties(n, k) ELSE 0
    <3>1. sync' = IF parties > 1 THEN parties ELSE sync
      BY <1>4 DEF Distribute
    <3>2. k \in Nat
      BY <1>1, FoundExist, FS_CardinalityType
    <3> HIDE DEF k
    <3>3. k > 0 => SyncParties(n, k) \in Nat
      <4> SUFFICES ASSUME k > 0 PROVE SyncParties(n, k) \in Nat
        OBVIOUS
      <4>1. k \in Nat \ {0} /\ 1 \in Nat \ {0}
        BY <3>2
      <4>2. Used(n, 0, k, 1) \in 0..k /\ Used(n, 0, k, 1) = NThreads(n, 0, k, 1)
        BY <1>5, <4>1, UsedFacts DEF CountsAgree
      <4>3. NThreads(n, 0, k, 1) \in Nat
        BY <4>1, <4>2
      <4> QED
        BY <4>3 DEF SyncParties
    <3> QED
      BY <1>1, <3>1, <3>3
  <2>3. batches' \in 0..MaxBatches /\ worked' \in [Items -> Nat]
    BY <1>1, <1>2, <1>3 DEF LoopTypes
  <2>4. at' \in [Threads -> 0..NSyncs]
    <3>1. 0 \in 0..NSyncs /\ at \in [Threads -> 0..NSyncs]
      BY <1>1, <1>3 DEF LoopTypes
    <3> QED
      BY <1>2, <3>1
  <2>5. aborted' \in BOOLEAN
    BY <1>4 DEF Distribute
  <2>6. arrivals' \in Nat /\ phase' \in [Threads -> Nat]
    BY <1>1, <1>2 DEF LoopTypes
  <2> QED
    BY <2>1, <2>2, <2>3, <2>4, <2>5, <2>6 DEF LoopTypes
<1> QED
  BY <1>8, <1>9, <1>10, <1>11

LEMMA TapeTypes ==
    ASSUME TypeInv, MainTape
    PROVE  OwedAtLeast' /\ QueueTypes' /\ StateTypes' /\ LoopTypes'
<1> USE DEF workerVars, machineVars, loopVars, tapeVars, queueVars
<1>1. /\ PoolInv /\ Queues /\ OwedAtLeast /\ QueueTypes /\ StateTypes /\ LoopTypes
      /\ wpc \in [Threads -> Stages] /\ available \subseteq Threads /\ 0 \in Threads
  BY ThreadPoolAssumption
     DEF TypeInv, LoopInv, MachineInv, PoolInv, Workers, Ordered, Threads
<1>2. MaxTapes \in Nat
  BY ThreadPoolAssumption
<1>3. ASSUME NEW t \in Threads, RunTape(t)
      PROVE  OwedAtLeast' /\ QueueTypes' /\ StateTypes' /\ LoopTypes'
  <2>1. OwedAtLeast'
    BY <1>1, <1>3, KnownJobs, JobsAreAny, ScheduleOwes, SameOwed DEF RunTape
  <2>2. QueueTypes'
    BY <1>1, <1>3, KnownJobs, ScheduleTypes DEF RunTape, QueueTypes
  <2> QED
    BY <1>1, <1>2, <1>3, <2>1, <2>2 DEF RunTape, StateTypes, LoopTypes
<1>4. ASSUME NEW t \in Threads, JoinTape(t)
      PROVE  OwedAtLeast' /\ QueueTypes' /\ StateTypes' /\ LoopTypes'
  <2>1. OwedAtLeast'
    BY <1>1, <1>4, TakeResultOwes, SameOwed DEF JoinTape
  <2>2. QueueTypes'
    BY <1>1, <1>4, TakeResultTypes DEF JoinTape, QueueTypes
  <2> QED
    BY <1>1, <1>4, <2>1, <2>2 DEF JoinTape, StateTypes, LoopTypes
<1>5. CASE FinishLocal
  <2>1. UNCHANGED <<in, out, left, wpc, job>>
    BY <1>5 DEF FinishLocal
  <2>2. OwedAtLeast' /\ QueueTypes'
    BY <1>1, <2>1, SameQueues, SameOwed DEF QueueTypes
  <2>3. worked' \in [Items -> Nat]
    BY <1>1, <1>5 DEF FinishLocal, Work, LoopTypes
  <2> QED
    BY <1>1, <1>5, <2>2, <2>3 DEF FinishLocal, StateTypes, LoopTypes
<1>6. CASE WrapUpThread
  <2>1. PICK t \in available : TakeResult(t)
    BY <1>6 DEF WrapUpThread
  <2>2. OwedAtLeast'
    BY <1>1, <1>6, <2>1, TakeResultOwes, SameOwed DEF WrapUpThread
  <2>3. QueueTypes'
    BY <1>1, <1>6, <2>1, TakeResultTypes DEF WrapUpThread, QueueTypes
  <2>4. aborted' \in BOOLEAN
    BY <1>6 DEF WrapUpThread
  <2> QED
    BY <1>1, <1>6, <2>2, <2>3, <2>4 DEF WrapUpThread, StateTypes, LoopTypes
<1>7. CASE EndLoop
  <2>1. UNCHANGED <<in, out, left, wpc, job>>
    BY <1>7 DEF EndLoop
  <2>2. OwedAtLeast' /\ QueueTypes'
    BY <1>1, <2>1, SameQueues, SameOwed DEF QueueTypes
  <2> QED
    BY <1>1, <1>7, <2>2 DEF EndLoop, StateTypes, LoopTypes
<1>8. CASE EndTape
  <2>1. /\ wpc[0] = "busy" /\ wpc' = [wpc EXCEPT ![0] = "loop"] /\ Finished(0, TapeJob)
    BY <1>8 DEF EndTape, InTape, WGoto
  <2>2. Owed(0)' = Owed(0) - 1 /\ \A u \in Threads \ {0} : Owed(u)' = Owed(u)
    BY <1>1, <2>1, KnownJobs, JobsAreAny, FinishedOwes
  <2>3. Owed(0)' >= Spare("loop") /\ "loop" \in Stages
    <3>1. Owed(0) \in Int
      BY <1>1, Lengths DEF Owed
    <3>2. Owed(0) >= 1
      BY <1>1, <2>1 DEF OwedAtLeast, Spare, Holding
    <3> QED
      BY <2>2, <3>1, <3>2 DEF Spare, Holding, Stages
  <2>4. OwedAtLeast'
    BY <1>1, <2>1, <2>2, <2>3, StillOwed
  <2>5. QueueTypes'
    BY <1>1, <1>8, KnownJobs, FinishedTypes DEF EndTape, QueueTypes
  <2> QED
    BY <1>1, <1>8, <2>4, <2>5 DEF EndTape, StateTypes, LoopTypes
<1> QED
  BY <1>3, <1>4, <1>5, <1>6, <1>7, <1>8, BeginLoopTypes DEF MainTape

LEMMA MachineTypes ==
    ASSUME TypeInv, Machine
    PROVE  OwedAtLeast' /\ QueueTypes' /\ StateTypes' /\ LoopTypes'
<1> USE DEF workerVars, machineVars, loopVars, tapeVars, queueVars
<1>1. /\ PoolInv /\ Queues /\ OwedAtLeast /\ QueueTypes /\ StateTypes /\ LoopTypes
      /\ wpc \in [Threads -> Stages] /\ 0 \in Threads
      /\ nthreads \in 0..MaxThreads /\ mthread \in Nat
      /\ mpc \in Starts => mthread \in Threads /\ mthread < nthreads
  BY ThreadPoolAssumption
     DEF TypeInv, LoopInv, MachineInv, PoolInv, Workers, Addressed, Threads
<1>2. LoopTypes'
  <2>1. UNCHANGED <<batch, batches, worked, sync, arrivals, at, phase, aborted>>
    BY DEF Machine, Prepare, StartThread, ThreadStarted, RunMain, JoinMain, StopThread, LetSignOut,
           TakeUsage, JoinThread
  <2> QED
    BY <1>1, <2>1 DEF LoopTypes
<1>3. StateTypes'
  <2>1. MaxThreads \in Nat /\ MaxRuns \in Nat
    BY ThreadPoolAssumption
  <2> QED
    BY <1>1, <2>1 DEF StateTypes, Machine, Prepare, StartThread, ThreadStarted, RunMain, JoinMain,
       StopThread, LetSignOut, TakeUsage, JoinThread, Starts
<1>4. ASSUME NEW t \in Threads, NEW j \in {NoJob, StopJob, TapeJob}, Schedule(t, j), UNCHANGED job
      PROVE  QueueTypes' /\ \A u \in Threads : Owed(u)' = Owed(u)
  BY <1>1, <1>4, KnownJobs, JobsAreAny, ScheduleOwes, ScheduleTypes DEF QueueTypes
<1>5. ASSUME NEW t \in Threads, TakeResult(t), UNCHANGED <<job, wpc>>
      PROVE  QueueTypes' /\ OwedAtLeast'
  BY <1>1, <1>5, TakeResultOwes, TakeResultTypes, SameOwed DEF QueueTypes
<1>6. CASE Prepare \/ JoinThread
  <2>1. UNCHANGED <<in, out, left, wpc, job>>
    BY <1>6 DEF Prepare, JoinThread
  <2>2. OwedAtLeast' /\ QueueTypes'
    BY <1>1, <2>1, SameQueues, SameOwed DEF QueueTypes
  <2> QED
    BY <1>2, <1>3, <2>2
<1>7. CASE ThreadStarted \/ TakeUsage \/ JoinMain
  BY <1>1, <1>2, <1>3, <1>5, <1>7 DEF ThreadStarted, TakeUsage, JoinMain, Starts
<1>8. CASE StopThread \/ LetSignOut \/ RunMain
  <2>1. wpc' = wpc /\ job' = job
    BY <1>8 DEF StopThread, LetSignOut, RunMain
  <2>2. PICK t \in Threads, j \in {NoJob, StopJob, TapeJob} : Schedule(t, j)
    BY <1>1, <1>8 DEF StopThread, LetSignOut, RunMain, Starts
  <2> QED
    BY <1>1, <1>2, <1>3, <1>4, <2>1, <2>2, SameOwed
<1>9. CASE StartThread
  <2>1. PICK t \in Threads : t = mthread
    BY <1>1, <1>9 DEF StartThread, Starts
  <2>2. /\ Schedule(t, NoJob) /\ wpc[t] = "absent" /\ wpc' = [wpc EXCEPT ![t] = "created"]
        /\ job' = job
    BY <1>9, <2>1 DEF StartThread, WGoto
  <2>3. QueueTypes' /\ \A u \in Threads : Owed(u)' = Owed(u)
    BY <1>4, <2>2
  <2>4. Owed(t)' >= Spare("created") /\ "created" \in Stages
    BY <1>1, <2>2, <2>3 DEF OwedAtLeast, Spare, Holding, Stages
  <2>5. OwedAtLeast'
    BY <1>1, <2>2, <2>3, <2>4, StillOwed
  <2> QED
    BY <1>2, <1>3, <2>3, <2>5
<1> QED
  BY <1>6, <1>7, <1>8, <1>9 DEF Machine

LEMMA TypeInit == Init => TypeInv
<1> SUFFICES ASSUME Init PROVE TypeInv
  OBVIOUS
<1>1. /\ MaxThreads \in Nat /\ MaxItems \in Nat /\ MaxTapes \in Nat /\ MaxBatches \in Nat
      /\ MaxRuns \in Nat /\ NSyncs \in Nat
  BY ThreadPoolAssumption
<1>2. <<>> \in Seq(Jobs)
  BY EmptySeq
<1>3. QueueTypes
  BY <1>2, KnownJobs DEF Init, QueueTypes
<1>4. StateTypes
  BY <1>1 DEF Init, StateTypes
<1>5. LoopTypes
  <2>1. 0 \in 0..MaxItems /\ 0 \in 0..MaxBatches /\ 0 \in 0..NSyncs
    BY <1>1
  <2>2. batch \in [type : {"none", "loop", "sync", "check"}, n : 0..MaxItems, start : 0..MaxItems]
    BY <2>1 DEF Init, NoBatch
  <2>3. worked \in [Items -> Nat] /\ phase \in [Threads -> Nat]
    BY DEF Init
  <2>4. at \in [Threads -> 0..NSyncs]
    BY <2>1 DEF Init
  <2> QED
    BY <2>1, <2>2, <2>3, <2>4 DEF Init, LoopTypes
<1>6. OwedAtLeast
  <2> SUFFICES ASSUME NEW t \in Threads PROVE Owed(t) = 0 /\ Spare(wpc[t]) = 0
    BY DEF OwedAtLeast
  <2>1. Queued(t) = 0 /\ Ready(t) = 0 /\ left[t] = 0 /\ wpc[t] = "absent"
    BY <1>2, EmptySeq DEF Init, Queued, Ready
  <2> QED
    BY <2>1 DEF Owed, Spare, Holding
<1> QED
  BY <1>3, <1>4, <1>5, <1>6, LoopInit DEF TypeInv

LEMMA TypeStep == TypeInv /\ [Next]_vars => TypeInv'
<1> SUFFICES ASSUME TypeInv, [Next]_vars PROVE TypeInv'
  OBVIOUS
<1>1. LoopInv'
  BY LoopStep DEF TypeInv
<1>2. CASE UNCHANGED vars
  <2>1. UNCHANGED vars
    BY <1>2
  <2>2. OwedAtLeast' /\ QueueTypes'
    <3>1. UNCHANGED <<in, out, left, wpc, job>> /\ Queues
      BY <2>1 DEF vars, queueVars, workerVars, TypeInv, LoopInv, MachineInv, PoolInv
    <3> QED
      BY <3>1, SameQueues, SameOwed DEF TypeInv, QueueTypes
  <2>3. StateTypes' /\ LoopTypes'
    BY <2>1 DEF vars, machineVars, tapeVars, loopVars, TypeInv, StateTypes, LoopTypes
  <2> QED
    BY <1>1, <2>2, <2>3 DEF TypeInv
<1>3. CASE Next
  <2>1. OwedAtLeast' /\ QueueTypes' /\ StateTypes' /\ LoopTypes'
    <3>1. CASE Machine
      BY <3>1, MachineTypes
    <3>2. CASE MainTape
      BY <3>2, TapeTypes
    <3>3. ASSUME NEW t \in Threads, Worker(t)
          PROVE  OwedAtLeast' /\ QueueTypes' /\ StateTypes' /\ LoopTypes'
      BY <3>3, WorkerTypes
    <3>4. CASE UNCHANGED vars
      BY <1>2, <3>4 DEF TypeInv
    <3> QED
      BY <1>3, <3>1, <3>2, <3>3, <3>4 DEF Next
  <2> QED
    BY <1>1, <2>1 DEF TypeInv
<1> QED
  BY <1>2, <1>3

\* Every variable has its type: among others, slices lie within their loop, `left' is not
\* negative, and no thread arrives at more barriers than its job has.
THEOREM TypeCorrect == Spec => []TypeOK
<1>1. TypeInv => TypeOK
  BY TypesSuffice
<1> QED
  BY <1>1, TypeInit, TypeStep, PTL DEF Spec
=============================================================================
