----------------------------- MODULE ThreadPool -----------------------------
(***************************************************************************)
(* The threads of the virtual machine (Processor/Machine.hpp,              *)
(* Processor/ThreadQueue.cpp, Processor/ThreadQueues.cpp and               *)
(* thread_info::Sub_Main_Func in Processor/Online-Thread.hpp).             *)
(*                                                                         *)
(* The machine starts its threads one by one, has thread 0 run the main    *)
(* tape, and stops them.  The main tape runs tapes in the other threads,   *)
(* joins them, and distributes loops among the threads that have nothing   *)
(* to do.  Each thread has a queue in and a queue out (WaitQueues with one *)
(* reader, so sequences here: module WaitQueue) and the counter `left'     *)
(* that says whether it is available.                                      *)
(***************************************************************************)
EXTENDS Slicing, Sequences, FiniteSets

CONSTANTS MaxThreads,   \* bound: threads of the machine
          MaxItems,     \* bound: items of a distributed loop
          MaxTapes,     \* bound: tapes the main tape runs
          MaxBatches,   \* bound: loops the main tape distributes
          MaxRuns,      \* bound: calls of run_step before stop_threads
          NSyncs        \* barriers one job of a synchronized loop passes

ASSUME ThreadPoolAssumption ==
    /\ MaxThreads \in Nat \ {0}
    /\ {MaxItems, MaxTapes, MaxBatches, MaxRuns, NSyncs} \subseteq Nat

Threads == 0..(MaxThreads - 1)
Items == 0..(MaxItems - 1)

VARIABLES
    \* the queues
    in, out,    \* of each thread
    left,       \* jobs scheduled in each thread whose result nobody has taken
    \* the threads
    wpc,        \* where each thread is in Sub_Main_Func
    job,        \* what it is working on
    \* the machine
    mpc,        \* where the machine is in prepare, run_step and stop_threads
    nthreads,   \* the threads that exist or are about to
    mthread,    \* the thread the machine's loop has come to
    runs,       \* calls of run_step so far
    \* the main tape, in thread 0
    tpc,        \* what it does
    tapes,      \* the other threads that run a tape not joined yet
    tapesRun,   \* how many tapes it has run
    available,  \* ThreadQueues::available
    batch,      \* the loop it distributes
    batches,    \* how many it has distributed
    worked,     \* how many times each item of that loop has been worked on
    sync,       \* the parties to the barrier, 0 if there is none
    arrivals,   \* the arrivals at that barrier so far
    at,         \* how often each thread has arrived there in its job
    phase,      \* the phase of the barrier in which it last arrived
    aborted     \* an assertion has failed

queueVars == <<in, out, left>>
workerVars == <<wpc, job>>
machineVars == <<mpc, nthreads, mthread, runs>>
loopVars == <<available, batch, batches, worked, sync, arrivals, at, phase>>
tapeVars == <<tpc, tapes, tapesRun, loopVars>>
vars == <<queueVars, workerVars, machineVars, tapeVars, aborted>>

Job(type, output, begin, end) ==
    [type |-> type, output |-> output, begin |-> begin, end |-> end]
NoJob == Job("none", 0, 0, 0)      \* ThreadJob()
StopJob == Job("stop", 0, 0, 0)    \* ThreadJob(-1)
TapeJob == Job("tape", 0, 0, 0)
Usage == Job("usage", 0, 0, 0)     \* what a thread signs out with

Count(b) == IF b THEN 1 ELSE 0

Jobs == [type : {"none", "stop", "tape", "loop", "sync", "check", "usage"},
         output : 0..MaxBatches, begin : 0..MaxItems, end : 0..MaxItems]
NoBatch == [type |-> "none", n |-> 0, start |-> 0]

TypeOK ==
    /\ in \in [Threads -> Seq(Jobs)] /\ out \in [Threads -> Seq(Jobs)]
    /\ left \in [Threads -> Nat]
    /\ wpc \in [Threads -> {"absent", "created", "setup", "loop", "busy", "final",
                            "signout", "winddown", "leaving", "ended"}]
    /\ job \in [Threads -> Jobs]
    /\ mpc \in {"prepare", "starting", "run", "join", "stop", "signout", "usage",
                "joining", "done"}
    /\ nthreads \in 0..MaxThreads /\ mthread \in 0..MaxThreads /\ runs \in 0..MaxRuns
    /\ tpc \in {"none", "choose", "joining", "local", "wrapup"}
    /\ tapes \subseteq Threads /\ tapesRun \in 0..MaxTapes
    /\ available \subseteq Threads \ {0}
    /\ batch \in [type : {"none", "loop", "sync", "check"}, n : 0..MaxItems, start : 0..MaxItems]
    /\ batches \in 0..MaxBatches
    /\ worked \in [Items -> Nat]
    /\ sync \in Nat /\ arrivals \in Nat
    /\ at \in [Threads -> 0..NSyncs] /\ phase \in [Threads -> Nat]
    /\ aborted \in BOOLEAN

Init ==
    /\ in = [t \in Threads |-> <<>>] /\ out = [t \in Threads |-> <<>>]
    /\ left = [t \in Threads |-> 0]
    /\ wpc = [t \in Threads |-> "absent"]
    /\ job = [t \in Threads |-> NoJob]
    /\ mpc = "prepare" /\ nthreads = 0 /\ mthread = 0 /\ runs = 0
    /\ tpc = "none" /\ tapes = {} /\ tapesRun = 0
    /\ available = {} /\ batch = NoBatch /\ batches = 0
    /\ worked = [i \in Items |-> 0]
    /\ sync = 0 /\ arrivals = 0 /\ at = [t \in Threads |-> 0]
    /\ phase = [t \in Threads |-> 0]
    /\ aborted = FALSE
-----------------------------------------------------------------------------
(* ThreadQueue.                                                            *)

\* Mutant of Schedule: the job is not counted.
ScheduleUncounted(t, j) ==
    /\ in' = [in EXCEPT ![t] = Append(@, j)]
    /\ UNCHANGED <<out, left>>

Schedule(t, j) ==
    /\ left' = [left EXCEPT ![t] = @ + 1]
    /\ in' = [in EXCEPT ![t] = Append(@, j)]
    /\ UNCHANGED out

\* next(): blocks until there is a job.
TakeNext(t) ==
    /\ in[t] # <<>>
    /\ in' = [in EXCEPT ![t] = Tail(@)]
    /\ UNCHANGED <<out, left>>

Finished(t, j) ==
    /\ out' = [out EXCEPT ![t] = Append(@, j)]
    /\ UNCHANGED <<in, left>>

\* Mutant of TakeResult: the job still counts.
TakeResultCounted(t) ==
    /\ out[t] # <<>>
    /\ out' = [out EXCEPT ![t] = Tail(@)]
    /\ UNCHANGED <<in, left>>

\* result(): blocks until there is a result.
TakeResult(t) ==
    /\ out[t] # <<>>
    /\ out' = [out EXCEPT ![t] = Tail(@)]
    /\ left' = [left EXCEPT ![t] = @ - 1]
    /\ UNCHANGED in

\* Mutant of IsAvailable: a thread with a job is taken as well.
IsAvailableAlways(t) == TRUE

IsAvailable(t) == left[t] = 0
-----------------------------------------------------------------------------
(* The threads.                                                            *)

WGoto(t, where) == wpc' = [wpc EXCEPT ![t] = where]

\* The stand-in for the initialization is taken, then the player and the
\* processor are set up, then the machine is told.
Awake(t) ==
    /\ wpc[t] = "created" /\ TakeNext(t) /\ WGoto(t, "setup")
    /\ UNCHANGED <<job, machineVars, tapeVars, aborted>>

SetUp(t) ==
    /\ wpc[t] = "setup" /\ Finished(t, NoJob) /\ WGoto(t, "loop")
    /\ UNCHANGED <<job, machineVars, tapeVars, aborted>>

\* The loop over the jobs.  The main tape begins in thread 0.
TakeJob(t) ==
    /\ wpc[t] = "loop" /\ TakeNext(t)
    /\ job' = [job EXCEPT ![t] = Head(in[t])]
    /\ IF Head(in[t]).type = "stop" THEN WGoto(t, "final") ELSE WGoto(t, "busy")
    /\ at' = [at EXCEPT ![t] = 0]
    /\ tpc' = IF t = 0 /\ Head(in[t]).type = "tape" THEN "choose" ELSE tpc
    /\ UNCHANGED <<machineVars, tapes, tapesRun, available, batch, batches, worked,
                   sync, arrivals, phase, aborted>>

\* A thread, or the main tape itself, works on a slice of the current loop.
InSlice(t) ==
    IF t = 0 THEN tpc = "local" ELSE wpc[t] = "busy" /\ job[t].type \in {"loop", "sync", "check"}
\* With nothing left for it the caller does not call shuffle_job.
MustSync(t) ==
    /\ sync > 0
    /\ IF t = 0 THEN batch.type = "sync" /\ batch.start # batch.n ELSE job[t].type = "sync"

\* arrive_and_wait: a thread goes on when the phase is over in which it has arrived,
\* that is, when so many have arrived as the barrier has parties.
PassedBarrier(t) == at[t] = 0 \/ arrivals >= (phase[t] + 1) * sync
Arrive(t) ==
    /\ InSlice(t) /\ MustSync(t) /\ at[t] < NSyncs /\ PassedBarrier(t)
    /\ at' = [at EXCEPT ![t] = @ + 1]
    /\ arrivals' = arrivals + 1
    /\ phase' = [phase EXCEPT ![t] = arrivals \div sync]
    /\ UNCHANGED <<queueVars, workerVars, machineVars, tpc, tapes, tapesRun, available,
                   batch, batches, worked, sync, aborted>>

SliceDone(t) == MustSync(t) => at[t] = NSyncs /\ PassedBarrier(t)
Work(begin, end) ==
    worked' = [i \in Items |-> worked[i] + IF begin <= i /\ i < end THEN 1 ELSE 0]

FinishSlice(t) ==
    /\ t # 0 /\ InSlice(t) /\ SliceDone(t)
    /\ Work(job[t].begin, job[t].end)
    /\ Finished(t, job[t]) /\ WGoto(t, "loop")
    /\ UNCHANGED <<job, machineVars, tpc, tapes, tapesRun, available, batch, batches,
                   sync, arrivals, at, phase, aborted>>

\* A tape other than the main tape runs to its end.
FinishTape(t) ==
    /\ t # 0 /\ wpc[t] = "busy" /\ job[t].type = "tape"
    /\ Finished(t, TapeJob) /\ WGoto(t, "loop")
    /\ UNCHANGED <<job, machineVars, tapeVars, aborted>>

\* After "stop": the final check, another next(), and out one by one.
FinalCheck(t) ==
    /\ wpc[t] = "final" /\ WGoto(t, "signout")
    /\ UNCHANGED <<queueVars, job, machineVars, tapeVars, aborted>>

SignOut(t) ==
    /\ wpc[t] = "signout" /\ TakeNext(t) /\ WGoto(t, "winddown")
    /\ UNCHANGED <<job, machineVars, tapeVars, aborted>>

WindDown(t) ==
    /\ wpc[t] = "winddown" /\ Finished(t, Usage) /\ WGoto(t, "leaving")
    /\ UNCHANGED <<job, machineVars, tapeVars, aborted>>

\* The MAC checks and the player are deleted after the usage has been sent.
Leave(t) ==
    /\ wpc[t] = "leaving" /\ WGoto(t, "ended")
    /\ UNCHANGED <<queueVars, job, machineVars, tapeVars, aborted>>

Worker(t) == \/ Awake(t) \/ SetUp(t) \/ TakeJob(t) \/ Arrive(t) \/ FinishSlice(t)
             \/ FinishTape(t) \/ FinalCheck(t) \/ SignOut(t) \/ WindDown(t) \/ Leave(t)
-----------------------------------------------------------------------------
(* The main tape, in thread 0.                                             *)

InTape(where) == wpc[0] = "busy" /\ tpc = where

\* RUN_TAPE.  Compiled programs run tapes in threads that have none.
RunTape(t) ==
    /\ InTape("choose") /\ tapesRun < MaxTapes
    /\ t \in 1..(nthreads - 1) /\ t \notin tapes
    /\ Schedule(t, TapeJob)
    /\ tapes' = tapes \union {t} /\ tapesRun' = tapesRun + 1
    /\ UNCHANGED <<workerVars, machineVars, tpc, loopVars, aborted>>

\* JOIN_TAPE
JoinTape(t) ==
    /\ InTape("choose") /\ t \in tapes
    /\ TakeResult(t)
    /\ tapes' = tapes \ {t}
    /\ UNCHANGED <<workerVars, machineVars, tpc, tapesRun, loopVars, aborted>>

\* find_available(): the threads without a job, unless some are in use already.
\* They are listed in the order of their numbers, so that the slice of a thread is
\* the one of its rank.
FindAvailable ==
    IF available # {} THEN {} ELSE {t \in 1..(nthreads - 1) : IsAvailable(t)}
Rank(t, threads) == Cardinality({u \in threads : u <= t})

\* distribute, distribute_with_sync, and the loop of distribute_no_setup.  The
\* threads with a slice stay in `available'.  The slices are for different threads,
\* so the order of the pushes does not matter to anybody.
Distribute(type, n, granularity) ==
    LET found == FindAvailable
        k == Cardinality(found)
        used == IF k = 0 THEN 0 ELSE Used(n, 0, k, granularity)
        busy == {t \in found : Rank(t, found) <= used}
        slice(i) == Job(type, batches + 1, Begin(i, n, 0, k, granularity),
                                           End(i, n, 0, k, granularity))
        parties == IF type = "sync" /\ k > 0 THEN SyncParties(n, k) ELSE 0
    IN /\ available' = IF k = 0 THEN available ELSE busy
       /\ in' = [t \in Threads |-> IF t \in busy THEN Append(in[t], slice(Rank(t, found)))
                                    ELSE in[t]]
       /\ left' = [t \in Threads |-> left[t] + Count(t \in busy)]
       /\ batch' = [type |-> type, n |-> n,
                    start |-> IF k = 0 THEN 0 ELSE Start(n, 0, k, granularity)]
       /\ sync' = IF parties > 1 THEN parties ELSE sync
       /\ aborted' = (aborted \/ (k > 0 /\ ~CountsAgree(n, 0, k, granularity))
                              \/ (parties > 1 /\ sync > 0))

\* The caller of a distribution: parallel loops, Rep3Shuffler::apply, and CHECK,
\* which has every available thread run an empty slice.
BeginLoop ==
    /\ InTape("choose") /\ batches < MaxBatches
    /\ \/ \E n \in 1..MaxItems, granularity \in 1..2 : Distribute("loop", n, granularity)
       \/ \E n \in 1..MaxItems : Distribute("sync", n, 1)
       \/ Distribute("check", 0, 1)
    /\ batches' = batches + 1
    /\ worked' = [i \in Items |-> 0]
    /\ arrivals' = 0 /\ at' = [at EXCEPT ![0] = 0] /\ UNCHANGED phase
    /\ tpc' = "local"
    /\ UNCHANGED <<out, workerVars, machineVars, tapes, tapesRun>>

\* Mutant of FinishLocal: the caller works on all of the loop.
FinishAll ==
    /\ InTape("local")
    /\ SliceDone(0)
    /\ Work(0, batch.n)
    /\ tpc' = "wrapup"
    /\ UNCHANGED <<queueVars, workerVars, machineVars, tapes, tapesRun, available, batch,
                   batches, sync, arrivals, at, phase, aborted>>

\* Mutant of FinishLocal: no wrap_up where the caller has begun at 0, the way the
\* loops over preprocessing data can afford but CHECK cannot.
FinishUnwrapped ==
    /\ InTape("local")
    /\ SliceDone(0)
    /\ Work(batch.start, batch.n)
    /\ tpc' = IF batch.start = 0 THEN "choose" ELSE "wrapup"
    /\ UNCHANGED <<queueVars, workerVars, machineVars, tapes, tapesRun, available, batch,
                   batches, sync, arrivals, at, phase, aborted>>

\* The rest of the loop is the caller's; with nothing left it takes no part in
\* the barriers.
FinishLocal ==
    /\ InTape("local")
    /\ SliceDone(0)
    /\ Work(batch.start, batch.n)
    /\ tpc' = "wrapup"
    /\ UNCHANGED <<queueVars, workerVars, machineVars, tapes, tapesRun, available, batch,
                   batches, sync, arrivals, at, phase, aborted>>

\* wrap_up: the results of all threads used, in order, must be of this loop.
WrapUpThread ==
    /\ InTape("wrapup")
    /\ \E t \in available :
          /\ \A u \in available : t <= u
          /\ TakeResult(t)
          /\ aborted' = (aborted \/ Head(out[t]).output # batches \/ Head(out[t]).type # batch.type)
          /\ available' = available \ {t}
    /\ UNCHANGED <<workerVars, machineVars, tpc, tapes, tapesRun, batch, batches, worked,
                   sync, arrivals, at, phase>>

EndLoop ==
    /\ InTape("wrapup") /\ available = {}
    /\ sync' = 0
    /\ tpc' = "choose"
    /\ UNCHANGED <<queueVars, workerVars, machineVars, tapes, tapesRun, available, batch,
                   batches, worked, arrivals, at, phase, aborted>>

\* The main tape ends when it has joined all others.
EndTape ==
    /\ InTape("choose") /\ tapes = {}
    /\ Finished(0, TapeJob) /\ WGoto(0, "loop")
    /\ tpc' = "none"
    /\ UNCHANGED <<job, machineVars, tapes, tapesRun, loopVars, aborted>>

MainTape == \/ \E t \in Threads : RunTape(t) \/ JoinTape(t)
            \/ BeginLoop \/ FinishLocal \/ WrapUpThread \/ EndLoop \/ EndTape
-----------------------------------------------------------------------------
(* The machine.                                                            *)

\* prepare: old threads are kept, new ones are started one at a time.
Prepare ==
    /\ mpc = "prepare" /\ runs < MaxRuns
    /\ \E n \in 1..MaxThreads :
          /\ n >= nthreads
          /\ nthreads' = n /\ mthread' = nthreads
          /\ mpc' = IF n = nthreads THEN "run" ELSE "starting"
    /\ runs' = runs + 1
    /\ UNCHANGED <<queueVars, workerVars, tapeVars, aborted>>

StartThread ==
    /\ mpc = "starting" /\ wpc[mthread] = "absent"
    /\ Schedule(mthread, NoJob)
    /\ WGoto(mthread, "created")
    /\ UNCHANGED <<job, machineVars, tapeVars, aborted>>

ThreadStarted ==
    /\ mpc = "starting" /\ wpc[mthread] # "absent"
    /\ TakeResult(mthread)
    /\ mthread' = mthread + 1
    /\ mpc' = IF mthread + 1 = nthreads THEN "run" ELSE "starting"
    /\ UNCHANGED <<workerVars, nthreads, runs, tapeVars, aborted>>

\* run_step: run_tape(0, 0, ...) and join_tape(0).
RunMain ==
    /\ mpc = "run" /\ Schedule(0, TapeJob) /\ mpc' = "join"
    /\ UNCHANGED <<workerVars, nthreads, mthread, runs, tapeVars, aborted>>

JoinMain ==
    /\ mpc = "join" /\ TakeResult(0)
    /\ mpc' \in {"prepare", "stop"} /\ (mpc' = "prepare" => runs < MaxRuns)
    /\ mthread' = 0
    /\ UNCHANGED <<workerVars, nthreads, runs, tapeVars, aborted>>

\* stop_threads: all threads are told to stop, then they sign out one by one.
StopThread ==
    /\ mpc = "stop" /\ Schedule(mthread, StopJob)
    /\ IF mthread + 1 < nthreads THEN mthread' = mthread + 1 /\ UNCHANGED mpc
       ELSE mthread' = 0 /\ mpc' = "signout"
    /\ UNCHANGED <<workerVars, nthreads, runs, tapeVars, aborted>>

LetSignOut ==
    /\ mpc = "signout" /\ Schedule(mthread, NoJob) /\ mpc' = "usage"
    /\ UNCHANGED <<workerVars, nthreads, mthread, runs, tapeVars, aborted>>

TakeUsage ==
    /\ mpc = "usage" /\ TakeResult(mthread) /\ mpc' = "joining"
    /\ UNCHANGED <<workerVars, nthreads, mthread, runs, tapeVars, aborted>>

\* Mutant of JoinThread: the next thread signs out when this one has sent its usage.
JoinNobody ==
    /\ mpc = "joining"
    /\ mthread' = mthread + 1
    /\ mpc' = IF mthread + 1 = nthreads THEN "done" ELSE "signout"
    /\ UNCHANGED <<queueVars, workerVars, nthreads, runs, tapeVars, aborted>>

JoinThread ==
    /\ mpc = "joining" /\ wpc[mthread] = "ended"
    /\ mthread' = mthread + 1
    /\ mpc' = IF mthread + 1 = nthreads THEN "done" ELSE "signout"
    /\ UNCHANGED <<queueVars, workerVars, nthreads, runs, tapeVars, aborted>>

Machine == \/ Prepare \/ StartThread \/ ThreadStarted \/ RunMain \/ JoinMain
           \/ StopThread \/ LetSignOut \/ TakeUsage \/ JoinThread

Next ==
    \/ ~aborted /\ (Machine \/ MainTape \/ \E t \in Threads : Worker(t))
    \/ (mpc = "done" \/ aborted) /\ UNCHANGED vars

\* Threads are scheduled, and a tape comes to its end.
Fairness ==
    /\ WF_vars(~aborted /\ Machine) /\ WF_vars(~aborted /\ MainTape)
    /\ \A t \in Threads : WF_vars(~aborted /\ Worker(t))

Spec == Init /\ [][Next]_vars /\ Fairness
-----------------------------------------------------------------------------
\* No assertion of ThreadQueues fails: the slices are counted right, a result
\* taken in wrap_up is one of the loop, and there is no barrier from before.
NoAssertionFails == ~aborted

\* `left' counts the jobs on their way: in the queue, in work, or finished with the
\* result not taken, so that an available thread has nothing to do and no result
\* of an earlier job can be taken for one of a later job.
LeftCounts ==
    \A t \in Threads :
        wpc[t] \in {"absent", "created", "setup", "loop", "busy"} =>
            left[t] = Len(in[t]) + Len(out[t]) + Count(wpc[t] \in {"setup", "busy"})

\* When a loop has been wrapped up, every item has been worked on once; at no time
\* has one been worked on twice.
EachItemOnce ==
    \A i \in Items :
        /\ worked[i] <= 1
        /\ tpc = "choose" /\ i < batch.n => worked[i] = 1

\* The threads set up their players one after the other, and take them down one
\* after the other ("cannot start threads in parallel", "wind down thread by thread").
OneAtATime ==
    \A t, u \in Threads :
        \A step \in {{"created", "setup"}, {"winddown", "leaving"}} :
            wpc[t] \in step /\ wpc[u] \in step => t = u

\* Between loops the threads available are those without a tape, however far they
\* have come with their jobs: it does not depend on timing which threads get slices,
\* so that all parties, running the same tape, choose the same.
SameThreadsEverywhere ==
    mpc = "join" /\ InTape("choose") =>
        \A t \in 1..(nthreads - 1) : IsAvailable(t) <=> t \notin tapes

\* The machine comes to an end, with no thread left over.
MachineEnds == <>(mpc = "done" /\ \A t \in Threads : wpc[t] \in {"absent", "ended"})
=============================================================================
