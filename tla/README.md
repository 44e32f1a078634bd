# TLA+ models of the MP-SPDZ virtual machine

MP-SPDZ (`mp-spdz-0.4.3`) runs programs on secret-shared data among several
parties. Every party runs the same bytecode in a virtual machine with several
threads; the threads of the same number at different parties talk to each other
over connections of their own. Most of the code is algebra, which is tested by
running it. What testing hardly reaches is the coordination: threads of one party
among themselves, and the same threads of different parties, must come to the
same decisions in the same order without ever talking about the order. This
directory models that coordination in TLA+, checks it with TLC and proves what TLAPS
can of it.

Paths below are relative to `mp-spdz-0.4.3/`.

## Inventory

| Part | State it keeps | Operations | Talks to |
|---|---|---|---|
| WaitQueue (`Tools/WaitQueue.h`) | a deque, `running`, a mutex and a condition variable | `push`, `pop`, `pop_dont_stop`, `stop` | every thread below |
| Coordinator (`Tools/Coordinator.cpp`) | queue `in`, counts `waiting`, queues `signals`, queue `done` | `run` (its thread), `wait`, `finished`, destructor | checking threads of the party; coordinators of the others |
| MAC checks (`Protocols/MAC_Check.hpp`, `Tools/Subroutines.cpp`) | opened values and their MACs, `popen_cnt` | opening, `Check`, `Commit_And_Open_` | coordinator; the same thread of other parties |
| Opening along a tree (`TreeSum` in `Protocols/MAC_Check.h`) | `opening_sum`, `max_broadcast`, `base_player` | `run` = `start` and `finish`, `add_openings` | the same thread of other parties |
| Machine threads (`Processor/Machine.hpp`, `Online-Thread.hpp`, `ThreadQueue.cpp`, `ThreadQueues.cpp`) | per thread two WaitQueues and `left`; `available`, `sync_point` | `prepare`, `run_step`, `stop_threads`, `run_tapes`, `join_tape`, `distribute`, `distribute_with_sync`, `sync`, `wrap_up` | queues; a barrier; all protocols |
| Secure shuffling (`Protocols/Rep3Shuffler.hpp`) | `to_shuffle`, `to_share`, stored permutations | `apply_multiple`, `shuffle_job` | machine threads, barrier; the other two parties |
| Commitments (`Tools/Commit.cpp`) | `comms`, `opens`, `messages` | `commit`, `open`, `open(message)`, `check_relative` | all parties |
| Connections (`Networking/Player.cpp`, `Sender.cpp`, `Receiver.cpp`, `Exchanger.h`) | sockets, one sender and receiver thread each | send, receive, exchange, broadcast | WaitQueues; sockets |
| Setting up connections (`Networking/Server.cpp`, `ServerSocket.cpp`) | `clients`, `used`, a signal | accept, `get_connection_socket` | all parties |
| Preprocessing (`Processor/Data_Files.hpp`, `Protocols/ReplicatedPrep.hpp`) | buffers of triples, bits, inputs; positions in files | take one, refill, sacrifice | machine threads, protocols |
| Instructions, memory (`Processor/Instruction.hpp`, `Processor.hpp`) | registers, memory, program counter | one per instruction | all of the above |
| Protocols (`Protocols/`) | shares being multiplied or input | `init`, `prepare`, `exchange`, `finalize` | players, preprocessing |
| Oblivious transfer (`OT/`) | matrices; an inbox and an outbox per multiplier | triple generation | one thread per other party |
| Boolean machine (`GC/`) | threads with queues, registers of bits | run and join tapes | as the machine |
| Homomorphic offline phase (`FHEOffline/`, `FHE/`, `Math/`) | keys, ciphertexts | generate triples, prove and verify | players, AllCommitments |
| Garbled circuits (`BMR/`, `Yao/`), `ECDSA/`, `ExternalIO/` | wires, keys, sockets | garble, evaluate, sign, serve clients | own or common networking |
| Compiler, scripts, main programs | - | - | produce bytecode, start parties |

What is hard, and what makes it correct:

* **WaitQueue.** `pop` looks at the size once before it waits and reads `running`
  again after the unlock. Correct: nothing is taken from an empty deque, nothing
  lost, doubled or reordered before a stop, and a stop reaches the consumer.
* **Coordinator.** Threads reach checks in a different order at each party.
  Correct: all parties open the same checks in the same order and one at a time,
  nobody opens before everybody has committed, nobody opens anything after a check
  that fails, and if none fails all complete and everything can be torn down.
* **Machine threads.** A counter read without its lock decides which threads get
  slices of a loop, and this has to be the same decision at all parties. Correct:
  the counter counts what it should, every item is worked on once, results are
  taken by whom they are meant for, barriers are made for as many as come, and the
  machine can be shut down.
* **Shuffling.** Threads write the same vectors wherever a permutation sends them.
  Each leaves the shares of what it has put in among the items being shuffled and finds
  them there later. Correct: no data race, no hang, and the result is the composed permutation.
* **Tree.** The two trees are computed by each party on its own. Correct: what one
  sends is what another waits for, every value is added once, and nothing hangs even if
  sending a message takes until the other side reads it, for any base and any two degrees.
* **Commitments.** Messages go around one way and are counted the other way.
  Correct: each is compared with the commitment of the party it is from.
* **Values waiting for a check.** MACs come when an opening is prepared, values when it is
  done, and both leave together. Correct: whatever sequence of calls, MAC and value of
  one secret stay at one position, and nothing opened gets past the checks.
* **Connections.** Every operation of a player moves data both ways between all parties
  over sockets that block when they are full. Correct: no operation gets what belongs to
  another one, nothing is overwritten or given back before it is sent, and parties never
  wait in a circle. (One part of this does not hold: see the third disagreement below.)
* **Setting up connections.** All threads of a party share one server; clients come in any
  order, some without saying who they are. Correct: both ends of a connection are with
  the same thread and direction, and all get their players.

`PROJECT.json` lists the components with what is left out of each, and the hazards
of the code line by line with the properties that cover them.

## Modules and code

`Spec` of every module has one action per step of the code that other threads or
parties can tell apart; definitions keep the names of the code where they can.

**WaitQueue** (with the abstract **BlockingFIFO**). `queue`, `running` are the
members. `Push`, `Stop` are critical sections. `pop` has three steps, as it gives up
the mutex: `Pop` up to `pthread_cond_wait` (or all of the critical section if there
is no need to wait), `Resume` after it, and `Return`, which for `pop` reads `running`
outside of the lock. `Signal` wakes any one waiter. What an empty deque's `front()`
yields is the value `Garbage`. What consumers call is chosen at the beginning: if `draining`,
`pop_dont_stop` (used by `BMR/network/Client.cpp`), otherwise `pop`; and so is whether
wakeups may be `spurious`. BlockingFIFO is a sequence of pending values
that can be closed; the refinement maps `pending` to what the consumer has in hand
before the deque.

**Coordinator** (with the abstract **CheckSchedule**). Threads: `Begin`, `Seed`, `Commit`,
`Wait`, `Open`, `Verify` are the stretches of `MAC_Check_::Check`, `Create_Random_Seed` and
`Commit_And_Open_` between two points where they block. A check of ten values or more
takes two broadcasts for the seed, begun by `Begin` and `Seed`, before the one of the
commitment, which `Commit` begins; other checks commit in `Begin`. A broadcast is a counter:
it ends when all parties have begun the broadcast of the same number on the same
thread's connections. Coordinator thread: `CPop`, `CHear`, `CScan`, `CDone` are
`run` up to the next blocking call or, for the loop over the map `waiting` (ordered
by identifier), the next element; `Destroy` is the destructor. The queues are taken
for sequences and counters, which module WaitQueue justifies: each has one consumer,
and `in` and `done` are stopped only by the destructor. `wrong` are the checks that
fail, chosen at the beginning. CheckSchedule says that all parties open in one
order and that nobody opens the next check before everybody has opened the last.

**Slicing** is the arithmetic of `ThreadQueues.cpp`: how many items per slice, how
many slices, twice as the code has it, and how many parties the barrier has.

**ThreadPool** composes Slicing with the machine (`Prepare`, `StartThread`,
`ThreadStarted`, `RunMain`, `JoinMain`, `StopThread`, `LetSignOut`, `TakeUsage`,
`JoinThread`), the threads (`Awake` to `Leave` are `Sub_Main_Func` from job to
job), and the main tape in thread 0 (`RunTape`, `JoinTape`, `BeginLoop`,
`FinishLocal`, `WrapUpThread`, `EndLoop`, `EndTape`). `Schedule`, `TakeNext`,
`Finished`, `TakeResult` are the four operations of ThreadQueue. Three kinds of
loops stand for all callers: `"loop"` for preprocessing with a granularity, `"sync"`
for shuffles with their barriers, `"check"` for CHECK, which distributes no items.
The vector `available` is a set and slices are numbered by rank, since the vector is
always in the order of the threads. `aborted` is a failed assertion.

**Shuffle** is `shuffle_job` at three parties. A step ends where the code meets a
barrier or another party. A share is represented by the item it is a share of. `Add` is
`add_mine`, which leaves the party's own shares of what it puts in in the thread's slice of
`to_shuffle` (a `Part` of an item, which is of no use alone) and the message for the party
before it in `input`. `Finalize` adds what has come from the party after it to what it finds
in `to_shuffle`: only if both are of the same item the sum is a share of this item. `Received`
waits for the next party only, and only if that has put in anything in the pass. `Reads` and `Writes` say what the next
step of a thread touches.

**TreeSum** (with the abstract **AllSum**). `Round` is one iteration of the summing
loop, `SendUp`, `AddOne`, `AddedAll` what follows it; `ReceiveSum`, `Broadcast`,
`Return` are the way down. A value is the count of each party's contribution to
each run, so that a value added twice, left out or of another run shows.
Connections are ordered. With `blocking`, chosen at the beginning, a party does nothing more
while a message it has sent is unread (`Unblocked`), which is what `send_to` does with a
long message. A party that sends to one that sends as well is stuck then, and so is one that
sends to itself (the mutant `FirstPeerItself`).

**MacBatch** is the bookkeeping around the openings. `InitOpen`, `PrepareOpen`,
`Exchange`, `AddToCheck`, `CallCheck`, `Destroy` are the operations of
`Tree_MAC_Check` and `MAC_Check_`; `Check`, `CheckIfNeeded` and `Reset` are the functions
they call. A secret is a number, and `macs` and `vals` say of which secret a MAC and a
value are, so that one out of step shows. Any of the values opened may be wrong. What
happens inside an opening is TreeSum, what happens inside a check is Coordinator.

**Transport** (with the abstract **Rounds**). `Begin` is the call of an operation,
`Return` its end. With an `Exchanger` (`MultiPlayer`, and `CryptoPlayer` for a stream
that is sent and received into) the operation goes through stages of Exchangers that take
turns: `Construct` is a constructor, `RoundSends` and `RoundReceives` are what
`Exchanger::round` moves on sockets that do not block, `RoundWrites` and `RoundReads` on
encrypted ones, where it blocks, `Finish` ends a stage. Otherwise `Begin` makes requests
to the threads of `CryptoPlayer`, which are `Sender` and `Receiver`, and `Wait` takes
what they have done. `PlanExchangers` and `PlanThreads` translate, operation by
operation, who sends to whom in which stage. Data moves in units that know the
operation, sender, receiver and position they belong to, the first one being the length;
a socket holds `Capacity` of them. `mem` are the streams, so that receiving into a
stream overwrites what has not been sent yet. A stream that is sent and received into has
`room` for some units. When the length of the other message has come the code resizes the
stream to the larger of the two, which moves it to other memory unless that is
less than its room, while the Exchanger goes on sending from where it was (`Freed`): each unit
sent from then on (`ToSendNext`) is the one that was there, or garbage. That the program may
also end there is not modelled. Rounds says that an operation ends when
everybody who has something for a party has begun it, and yields just that.
`Operations` are the calls there can be. `MatchingAssumption` says what callers see to, that
whom a party is to send to is to receive from it: two parties that exchange name each other,
and in `partial_broadcast` the senders that one passes have it as a receiver.

**PlayerSetup**. `Accept` is one turn of the accepting thread, with `process_connection`
or a new thread; `WaitForClientId` is that thread; `Listen` is the constructor.
`Visitor` and `VisitorLeaves` are somebody who connects and says nothing. A thread that
constructs a player follows a script (`Scripts`), computed from `setup_sockets` and the
constructor of `CryptoPlayer`: connect (`SetUpClientSocket`), send the identifier
(`SendId`), ask the server (`GetConnectionSocket`), and shake hands (`Handshake`). A
connection is a tuple that says who made it for which thread and direction, and `Id` is
what is said about it over the wire.

**Commitments**. `Commit`, `SendMessages`, `Open` are the broadcasts, `CheckAll` the
loop at the end of `open(message)`, `Pass` and `CheckRelative` the loop of
`SummingEncCommit::create_more` in `FHEOffline/SimpleEncCommit.cpp`, the only
caller of `check_relative`. `Pass` has `pass_around` deliver the message that the party before has,
which Transport says it does given spare room. Its specification and types have the prefix `AC` (`ACSpec`, `ACTypeOK`), for
`AllCommitments`, so that CheckingProofs can speak of this module and of MacBatch.

`MC*.tla` hold the instances for TLC. The operators whose comment starts with
"Mutant of" are wrong versions of the definition after them, listed with the
property that each of them breaks in `PROJECT.json`.

## Runs

| Run | Instance | Distinct states | What it shows |
|---|---|---|---|
| `waitqueue` | 2 producers with 3 values each, 1 consumer with `pop`, with `pop_dont_stop`, and with `pop_dont_stop` and spurious wakeups | 9 819 | `NoUnderflow`, `EachOnce`, `Delivered`, `StopEnds`, `ImplementsFIFO` |
| `coordinator` | 3 parties, 2 threads, 2 checks each, one with a seed that may fail | 489 187 | `OneAtATime`, `CommittedBeforeOpened`, `NothingAfterFailure`, `AllComplete`, `ImplementsSchedule` |
| `threadpool` | up to 3 threads, 2 calls of `run_step`, 1 tape, 2 loops over up to 4 items, 2 barriers per job | 114 634 | `NoAssertionFails`, `LeftCounts`, `EachItemOnce`, `OneAtATime`, `SameThreadsEverywhere`, `MachineEnds` |
| `shuffle` | 3 items, 2 threads at each of 3 parties, 2 shuffles, one reversed | 431 456 | `NoRace`, `Shuffled`, `ShuffleEnds` |
| `treesum` | 5 parties, 3 settings of the degrees and the base, 2 runs, connections that block or not | 103 313 | `NothingLeftOver`, `ImplementsAllSum`, `AllReturn` |
| `mac_batch` | up to 6 secrets, a limit of 3, with and without `always_check` | 2 861 | `NothingSlipsThrough`, `NoFalseAlarm` |
| `transport` | 3 parties, plain and encrypted, 4 programs of 1 to 3 operations, sockets with 2 units, streams with spare room | 49 427 | `CleanClose`, `ImplementsRounds`, `AllReturn` |
| `transport_partial` | the opening of ShamirMC, 3 parties | - | `SpecifiedSenders` is violated |
| `transport_reuse` | passing around streams that are full, or too small for another party's message | - | `BufferReused` is violated |
| `player_setup` | 2 and 3 parties, 2 threads at once, a visitor; handshakes of 3 to 6 parties | 362 707 | `Matched`, `AllSetUp` |
| `commitments` | 4 parties, either way of opening, any messages changed | 3 329 | `ChecksAreRight`, `Decided` |
| `commitments_everything` | the same | - | `EverythingChecked` is violated |

Each module's first run checks its `TypeOK` (`ACTypeOK` in Commitments) as well, except for
Transport, whose other properties would fail first; its types are part of a theorem.

Bounds and why they are enough:

* `MaxPushes`, `NChecks`, `MaxTapes`, `MaxBatches`, `MaxRuns`, `NRuns` bound how often
  something is repeated. What can go wrong between repetitions (a value, a result, a
  release or a message taken for one of the next) needs two of them; the queue has
  three so that one is in hand, one in the deque and one yet to come. The theorems
  below hold without these bounds.
* Every queue of the code has one consumer (in `BMR/network/Client.cpp` one sending thread per
  queue), so the run has one; for `EachOnce` the theorem has any number.
* Two threads show every relative order of checks at two coordinators; three
  parties are there because two of them may be ahead of the third.
* Three threads are the caller and two workers, one of which may be busy with a
  tape; four items over up to three slices give empty rests, rests for the caller,
  slices that do not fit and, with a granularity of 2, no slice at all. Every loop
  size from 1 to 4 and the empty loop is an initial choice of `BeginLoop`.
* In the shuffle a thread with a slice and the caller with the rest are enough for
  every kind of conflict between two threads; two shuffles because `to_share` is
  reused by the second; one of them is reversed. The permutations do not commute, and in
  either shuffle their composition is a rotation, which differs from its inverse, so that
  a shuffle that ignores `reverse` shows (the mutant `SourceForward`).
* Five parties with binary trees have three rounds up and three levels down; the other
  settings are no limit, and a ternary way up with a binary way down. Different bases
  make the positions relative.
* In MacBatch six secrets are twice the limit, so that there are two checks with values
  left over from an opening in between, and openings that go beyond the limit at once.
* A socket with room for two units holds less than the messages (up to three units and
  the length), so that every operation can be held back, which is the case a deadlock needs.
  One unit would be too few: on encrypted sockets the Exchanger sends the length
  and a unit before it receives anything, so that two parties with the same stream on
  both sides rely on room for both. Real sockets hold far more. Three parties are
  enough for a ring, for senders that are not receivers, and for parties that are in
  different operations; the programs use every operation, empty and long messages, and
  both kinds of streams.
* In PlayerSetup the order of handshakes depends on the number of parties: for all that
  are prime, even, and divisible by three up to six it is checked alone (connections are
  there already); the server is checked with few parties but two threads at once.

The model checker found three disagreements.

* `AllCommitments::open(message)` is declared with "open and check everything"
  (`Tools/Commit.h:47`) but its loop ends at the own number (`Tools/Commit.cpp:89`), so
  that party 0 compares nothing and the last party all others. The run
  `commitments_everything` has the counterexample. The other way to open commitments does
  compare everything (third part of `ChecksAreRight`).
* `MultiPlayer::partial_broadcast_no_stats` (`Networking/Player.cpp:541`) sends to the
  senders and receives from the receivers, although "specified senders broadcast
  information to specified receivers" (`Networking/Player.h:397`), which is what
  `CryptoPlayer` does. Callers that pass the same set for both do not notice; ShamirMC
  does not, and with unencrypted connections its parties get the data of others than they
  read (run `transport_partial`). The programs of the run `transport` therefore use the
  same set for both.
* `Exchanger::round` (`Networking/Exchanger.h:149`) resizes the stream that it receives into,
  also if it is sending from that stream, whose memory is then deleted unless there is more
  room than either message needs (`Tools/octetStream.h:305-330`). What it still sends is read
  from the deleted memory, although `exchange` and `pass_around` are offered for one stream
  (`Networking/Player.h:328` and 337-341), and with `CryptoPlayer` too, which uses an Exchanger for that. In the run
  `transport_reuse` a party gets something else than its peer had. A stream that has
  grown by appending usually has room to spare, which is why this seldom shows; it takes a stream
  that is just full, or a longer message from the peer. The programs of the run `transport`
  therefore have spare room.

### Fairness

Weak fairness of every thread's next step, nothing else; in Shuffle and Coordinator only that
some thread that can run does, which is weaker and enough because no thread there goes on
forever (it is written out, as TLC takes much longer over `WF_vars` of all steps). The code has no
scheduling of its own: it relies on the operating system to run runnable threads
and on connections to deliver what was sent, which is what weak fairness of a step
enabled by a message or a signal says. Strong fairness is nowhere needed. In WaitQueue nobody
has to push or stop. In ThreadPool the main tape is fair as one process: it
does not go on forever because its tapes and loops are bounded, and it ends with
its tapes joined, as compiled programs do. In Coordinator `AllComplete` holds for runs without a
failing check only: after one the others wait until the exception ends the program.
In Transport the calling threads, senders and receivers are fair and what is in a
socket can be received; in PlayerSetup all parties start at some time, and a visitor need
never leave.

What the liveness properties need beyond that: a condition variable does not lose
a signal sent to a thread that is waiting, and `pthread_cond_wait` does not return
without one. The latter matters: `pop` is safe only because of it (`if` instead of
`while` in `WaitQueue.h:69`). `pop_dont_stop` is safe in any case, but its consumer may take
such a wakeup for the end and leave while the queue is running (`GaveUp`), and what is pushed then
is not delivered. `Delivered` excuses this and nothing else: with `pop_dont_stop` everything that was
pushed before the stop is handed over, if need be after the stop.

## Proofs

Eight modules hold theorems. TLAPS checks them for all values of the constants that
satisfy the assumption of the module they are about.

**WaitQueueProofs** (from `WaitQueueAssumption`). `TypeCorrect` is unconditional; its
invariant `TypeInv` adds that a pop that will return true has a value. `NeverUnderflows`
and `FIFOImplemented` assume `SafeUse`: one consumer, and `Modes` without spurious wakeups unless it
drains. `NoUnderflow` alone is not inductive. `FrontInv` adds `WokenFinds`: a consumer that
was woken finds a value or finds the queue stopped, which holds because a signal comes
with a push or the stop and nobody else takes from the deque. The refinement maps
each critical section to one step of the channel; the step where a `pop` discards a
value because of a stop is one of them. `HandedOverOnce` assumes `NeverGarbage`: `SafeUse`, or
any number of consumers that drain, with spurious wakeups. By `OnceInv`: a value that has been
pushed is in one place only, the deque, a consumer's hand or what has been handed over.

**CoordinatorProofs** (from `CoordinatorAssumption`: finitely many parties, at least one).
`TypeCorrect`: the types are inductive only with `InCheck` (a thread in a check has not done
all of them) and `PointsAtThread` (a coordinator that has released a thread points at it).
`OneCheckAtATime`: by `ReleaseInv`, which says that the signals not taken, the thread in
between, and `done` together make one exactly while the coordinator is at `done.pop()`, and
none otherwise, and that they belong to the thread under the cursor. `CommitmentsFirst`:
by `ProgressInv`, which for every thread derives from its place in the check how many
broadcasts it has begun (`Sent`, with `Before` counting those of earlier checks, two more
where there was a seed), how many commitments and openings it has sent, and how many
broadcasts all others must have begun (`Needed`). That a broadcast
arrived is thereby translated to a commitment at the other party. The additional
broadcasts of large checks are what makes the counting necessary: a party that skipped
one would be a broadcast behind and yet seem to have committed.

Its second part is the schedule: `FailureStopsAll` and `ScheduleImplemented` by
`Lockstep`, the invariants above with `ScheduleState`, which says how far the coordinators
may be apart. A coordinator is one round of broadcasts before another at most, and the other
is in its broadcast then (`InRounds`). The count of a thread at a coordinator is of those
parties that it has heard ask since it has left the thread's last check behind (`Counted`),
and a thread asks once for a check (`Asked`). Two coordinators have left the same checks
behind, or one is ahead by the check that the other has released and opened (`InStep`). In
the same round even coordinators have the same counts, so, as they go through `waiting` in the
order of the identifiers, they release the same thread (`SameCursor`): the openings are in
one order (`OneOrder`). A coordinator leaves a check behind only if `finished()` was called,
which takes the openings of all parties (`NotBefore`, from `ProgressInv`), so nobody is ahead by
two. Since a failing check is not finished it stays the last one (`FailsLast`).

**ThreadPoolProofs** (from `ThreadPoolAssumption`). `JobsCounted`: by `PoolInv`, which
says what every thread owes: `left` minus the lengths of its queues is 1 while it
works on a job and 0 otherwise, up to the stop. `ThreadQueue` operations change it in
a fixed way (lemmas `ScheduleOwes`, `TakeNextOwes`, `FinishedOwes`, `TakeResultOwes`,
and `DistributeOwes` for a whole loop), so each action is a thread that moves (`Moved`)
or none (`Stayed`). `Addressed` says that the machine speaks to existing threads only.

`ThreadByThread` and `TimingIndependent`: by `MachineInv`. While the machine is not stopping, `left` is what the program has asked of a
thread and has not taken back (`Accounts`: a tape, a slice, or the job that stands for the
initialization), whatever the thread has done of it; that is why the choice of threads for a
loop is the program's and not the scheduler's. A thread is in its setup only if the machine
waits for it (`Startup`), and a stop is the last job of a thread but for the sign that it is
its turn (`StopLast`, `Stopping`), so that it takes down its player in its turn only.

The second part is about loops. `AssertionsHold` and `LoopsComplete` by `LoopInv`:
a listed thread has one slice of the present loop or its result (`Handed`), others
have none of any (`NoneLeft`), and every item that has not been worked on is in exactly one slice
that is to be worked on, or in the caller's part (`Coverage`). `distribute` establishes it
by the arithmetic of Slicing: the ranks of the threads are one for each slice (`Ranks`), a
slice contains the items of its rank and no other (`SlicesApart`, `Partition`), and the two
computations of how many threads take part agree (`UsedFacts`), which is the assertion. `TypeCorrect`
needs the same, since it is the accounts that keep `left` from going below zero.

**ShuffleProofs** (from `ShuffleAssumption`, whatever the permutations). The barriers first.
`Stage` is what a thread does between two barriers, with its pass and its shuffle, and `After`
the stage that comes next. By `Together` the threads of a party that do not wait are all in one
stage, and those that wait are in the one after it; the barrier is never full. A step keeps
its thread in its stage or takes it to the next one through the barrier (`JobStage`). Since
slices are disjoint (`SlicesDisjoint`), and so are the positions that two threads write in
`to_share` (`TargetsFacts`), `BarriersSuffice` follows: threads in one stage do not touch what
another writes. In particular no thread still reads `to_shuffle` where it pleases when another one
leaves its own shares there in `Add`, since all of them have written by then. `ItemsShuffled`
needs more: what a thread has finalized is in place after that
many passes (`ShuffledSoFar`, with `Right` for the item that belongs at a position), and where it has
added for the present pass there is its party's part of what belongs there after this pass
(`Contributed`), until it finalizes; what has
been written to `to_share` is what the pass makes of it, for all positions once a thread may
add (`ToShare`), and so is what has been added to the input (`Input`). A thread reads positions of
`to_shuffle` that belong to others; they are in the same pass because of the barriers
(`Writing`). At the last arrival all have written, hence the whole vector is right
(`JobSyncWritten`). What a party gets in an exchange comes from a thread of the next party that may be in
another pass, but it is of the pass of the receiver, since a party that has begun
that exchange had added all of it (`HasAdded`). With what the party finds in its own slice it
makes the item (`SumFact`).

**TreeSumProofs** (from `TreeSumAssumption`: any number of parties, any degrees of both trees, any
base player, connections that block or not). First the trees. How many parties are left in a round cannot be
defined by recursion here, so `Levels` is the smallest set that contains all parties and, with a
number, what a round makes of it. A smaller level is not above what a round makes of a
larger one (`Chain`), so each party but the base sends in one round (`LevelOf`) to one party with
a smaller number (`Trees`). Then, by the invariant: where each party is decides what it has sent
and taken (`Sent`, `Taken`, `Told`, `Got`), a connection holds a message exactly between the two,
and never a second one (`Channels`). That is why `AllTaken` (`NothingLeftOver`) holds. `AllSumImplemented` needs to know what is in the messages. `Total` counts the sums the
base has completed; all parties are in the run of the last one or in the next (`InStep`). The
share of a party is what it has summed up or has sent up and nobody has taken: the shares contain
each value put in for the next sum once and no other (`Shares`). When the base comes to its last
round all others have sent and all has been taken (`AllSent`: otherwise take the late party closest
to the base), so its share has all of them. Only then does anybody get the sum, and
parties in the next run cannot disturb those that are still told the last one.

**CheckingProofs** (from `MacBatchAssumption` and the assumption on the number of parties) is
about what is checked before it is used, in MacBatch and in Commitments. `Secure` and `Complete` by an invariant with
two parts beyond the types. `InStep`: the MACs are those of `vals`, followed by those of the
opening being prepared, the count is that of the values, and what has been accepted and
what waits make up what has been opened. `Numbered`: the secrets being opened are
new, so that an opening cannot make a value wrong that has been accepted. The lemmas
`CheckEnds` and `CheckIfNeededEnds` say what a check leaves of vectors in step, `AfterCheck`
that the invariant follows from it; all operations that check cite them.

Its second part is about Commitments. `ComparedWithAll`: by
`Around`, which says that who has passed on messages n times has compared the n parties
before it. The rest is counting modulo the number of parties: what `check_relative` takes for the
sender is the sender (`OwnerIsPlayer`), and one comes to every other party before one is
around (`EverybodyIsBefore`).

**PlayerSetupProofs** (from `PlayerSetupAssumption`). `BothEndsMatch` for any number of parties and
threads. First the scripts are shown to be `Sound` whatever the number of parties:
every identifier is sent over the connection made in the step before, a party connects
to those not after it and asks the server for those not before it, and no step
connects twice. Then, by the invariant: what is with the server of a party leads there and
its thread is past the step that makes it (`Addressed`), it is there once (`Once`), and
a thread that has connected has the connection (`Connected`). A connection found
under an identifier at a server is therefore the only one that `Between` can mean.

**TransportProofs** (from `TransportAssumption`, `RoomAssumption` and `MatchingAssumption`: any number of
parties, any programs of operations that match, messages of any sizes, any capacity, both classes).
The difficulty is that nothing in a socket says what it is. A receiver takes the next unit for the
next one that it expects, the two ends may be in different operations, several
operations may be in one socket at once, and of the two sockets between parties the threads
use one in each direction while an Exchanger uses `sockets` for both. The invariant
therefore gives each end of a connection a `Position`, the operation and the unit that it is to
move next, derived from `phase`, `at`, `stage`, `tx`, `rx` and the queues of its threads.
`Traffic` is all that may go from one party to another by a socket in the course of the
program, in the order of positions (`May`: the unit of the message, or garbage as well if the stream is sent and
received into without spare room), and `Flow` is the heart: a socket holds, in
order and each once, the units that are between the position of its receiver and that
of its sender (`Carries`). It is not inductive alone. `WithExchangers` and `WithThreads` say
how far a party may be (the Exchangers constructed are those of the stage, in their order; a stream
is requested, or done and waited for, or neither), `ToSend` that what has not been sent is still as
the caller has filled it where it is, although a stream may be received into, `HasReceived` that what has
been received is the beginning of the message.
Then the lemmas: one position further is one unit sent or received (`SendFlow`,
`ReceiveFlow`), a position that moves over units that do not exist changes nothing, no plan
has a party twice (so that every pair of an operation has a connection of its own), and what one
party's plan sends the other's receives, which is where `MatchingAssumption` is needed. There is one lemma
for each action of the module, brought together in `NextKeeps`.

`AlwaysCleanClose`: at a party that has ended the program the position is behind all traffic, so
what is sent to it has been received. `Invariance` also shows that no party gets to "failed",
that is, the exception of `Sender::wait` and `Receiver::wait` for a stream of another
operation is never thrown. `KeepsPromise`: a step that ends an operation yields what has been
received, which is the message of the same operation from all those who have one (`HasReceived`,
with all units counted), and they must have begun it since they have sent it (`Flow`). It has
two hypotheses. `SpareRoom`: a stream that is sent and received into has more room than any message
of its operation needs, so that it is not moved while it is sent from. Without it the code may send anything, as the run
`transport_reuse` shows. `Agreed`: either all connections are encrypted, or `partial_broadcast` is called
with the same senders and receivers, but for the party itself (`MutualBroadcasts`). Without it
MultiPlayer does something else than CryptoPlayer, as the run `transport_partial` shows; the
programs of the run `transport` meet both. `AlwaysCleanClose` needs neither: it is about how much is
sent and received, and what stands for a length is never garbage. The attempt to prove the
module showed a mistake in it: `Return` was a `CASE` with arms that overlap for an empty
message, of which TLA+ does not say which one is taken. It is an `IF` now.

Only model-checked: every liveness property (`Delivered`, `StopEnds`, `AllComplete`,
`MachineEnds`, `ShuffleEnds`, `AllReturn`, `AllSetUp`, `Decided`), which are outside of what the
prover does. In Transport that includes deadlock: that parties never wait in a circle depends on
`Capacity` and is shown by `AllReturn` for the programs of its run. Every invariant of the
passing runs, and every refinement, is a theorem. What the theorems assume beyond the modules'
assumptions is said above: `SafeUse` and `NeverGarbage` for the queue, `Agreed` and `SpareRoom` for Transport.

## Not modelled

* Arithmetic, cryptography, the protocols' algebra, the compiler: see the components.
* In the models of this directory: time and statistics; exceptions other than a check or
  commitment that fails; crashes, because nothing is recovered from one (a
  party that loses a connection ends); the contents of messages.
* What deleted memory does beyond being read: in Transport it yields what was there or
  garbage, while the program may as well be stopped by the system.
* Memory orders of the hardware. Where the code accesses shared data without a lock
  (`left` in `available()`, `running` in `pop`) a read yields the latest value.
* `wait_timer`, `thread_stats` and `waited` are read or written without a lock in places; they
  are only reported.
* The destructor of Coordinator is called when the threads of its party have ended; called earlier,
  what it pushes to `done` would count as a finished check. In ThreadPool the final check of
  a thread, which involves other parties, is a step that it can always take.
* Time: the timeouts of `ServerSocket` and of sockets end the program. A visitor that
  never leaves does no harm in the model, because the thread that waits for it is its own.
* Connections that break, and the coordination server that tells parties the addresses of
  the others (`Networking/Server.cpp`): straight code before anything else runs.
* What `get_connection_socket` throws if an identifier is used twice leaves the
  mutex locked; in PlayerSetup the thread does not go on, and no setup comes to it.
* Callers of MacBatch open without a check in between, as all in the repository do. The
  checks for rings (`MAC_Check_Z2k`) and `Direct_MAC_Check` are other code.
* `partial_broadcast` throws "unexpected information" if a stream for the results is not
  empty; all callers pass empty ones.
* ThreadPool has compiled programs run tapes only in threads without one, and join them.

## Plan

In this order, the most important behaviour first.

1. **OTHandshake**: NPartyTripleGenerator and OTMultiplier through inbox and outbox.
2. **GCThreads**: ThreadMaster and Thread; **PrepBuffers**: buffers refilled while a loop is
   distributed, with the direct callers of `distribute_no_setup`.
3. The clients of `AnonymousServerSocket`, with PlayerSetup's server; BMR nodes over
   `pop_dont_stop` and Transport.

Runs for these should stay with two or three parties, two threads and two rounds.
