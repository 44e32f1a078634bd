------------------------------ MODULE Transport ------------------------------
(***************************************************************************)
(* The players that move octetStreams between parties: MultiPlayer, which  *)
(* works on plain sockets with an Exchanger per peer, and CryptoPlayer,    *)
(* which has two encrypted sockets to every party with a thread for each   *)
(* direction, but falls back on an Exchanger when it is to receive into    *)
(* the stream that it sends (Networking/Player.cpp, CryptoPlayer.cpp,      *)
(* Exchanger.h, Sender.cpp, Receiver.cpp, Tools/octetStream.h).            *)
(*                                                                         *)
(* Data moves in units: one for the length of a message and one for each   *)
(* piece that is sent or received at once.  A socket holds at most         *)
(* Capacity units, then sending has to wait.                               *)
(***************************************************************************)
EXTENDS Integers, Sequences

CONSTANTS N,         \* number of parties
          Programs,  \* sequences of operations to choose from, the same at all parties
          Kinds,     \* the players to choose from: "plain", "crypto"
          Capacity   \* units a connection holds

Parties == 0..(N - 1)
NoParty == N
Pos(p, offset) == (p + offset) % N        \* get_player
Offsets == 1..(N - 1)

(***************************************************************************)
(* An operation is a record             with a field kind and               *)
(*   size      the units of what each party sends                          *)
(*   "exchange":          other, the other party of each, or NoParty       *)
(*   "pass_around":       offset                                           *)
(*   "send_receive_all":  channels, pairs <<from, to>>                     *)
(*   "partial_broadcast": senders and receivers, the sets each party       *)
(*                        passes, empty for those that do not call it      *)
(* For the first two, same says that one stream is sent and received into, *)
(* and room is how many units the memory of that stream holds at each.     *)
(***************************************************************************)
Same(op) == op.kind \in {"exchange", "pass_around"} /\ op.same

Operations ==
    [kind : {"exchange"}, same : BOOLEAN, other : [Parties -> 0..N], size : [Parties -> Nat],
     room : [Parties -> Nat]]
    \cup [kind : {"pass_around"}, same : BOOLEAN, offset : Offsets, size : [Parties -> Nat],
          room : [Parties -> Nat]]
    \cup [kind : {"send_receive_all"}, channels : SUBSET (Parties \X Parties),
          size : [Parties -> Nat]]
    \cup [kind : {"partial_broadcast"}, senders : [Parties -> SUBSET Parties],
          receivers : [Parties -> SUBSET Parties], size : [Parties -> Nat]]

ASSUME TransportAssumption ==
    /\ N \in Nat \ {0} /\ Capacity \in Nat \ {0}
    /\ Programs \in Seq(Seq(Operations)) /\ Kinds \subseteq {"plain", "crypto"}

(* A stream holds at least what is in it. *)
ASSUME RoomAssumption ==
    \A i \in DOMAIN Programs : \A k \in DOMAIN Programs[i] :
        LET op == Programs[i][k] IN
        Same(op) => \A p \in Parties : op.size[p] <= op.room[p]

(* Whom a party is to send to expects it.  MultiPlayer::partial_broadcast sends to its      *)
(* `senders', CryptoPlayer's to its receivers.                                              *)
ASSUME MatchingAssumption ==
    \A i \in DOMAIN Programs : \A k \in DOMAIN Programs[i] :
        LET op == Programs[i][k] IN
        /\ op.kind = "exchange" =>
             \A p \in Parties : op.other[p] # NoParty =>
                 op.other[p] # p /\ op.other[op.other[p]] = p
        /\ op.kind = "partial_broadcast" =>
             \A p, q \in Parties : p # q =>
                 (q \in op.senders[p] <=> p \in op.receivers[q])

VARIABLES
    kind,      \* the class of the players, from the option --encrypted
    program,   \* which of Programs runs
    at,        \* the operation each party is in, or has ended if idle
    phase,     \* what its calling thread does
    stage,     \* how far it is in the sequence of exchanges of an operation
    made,      \* how many Exchangers it has constructed, or streams waited for
    mem,       \* the streams of each party
    tx, rx,    \* per party and other party, the units sent and received, -1 if none are to be
    len,       \* the length received, for rx
    wire,      \* the units in the sockets
    requested, \* per sender and receiver thread the queue `in' ...
    finished,  \* ... and the queue `out'
    result     \* ghost: what each operation has yielded

threads == <<requested, finished>>
vars == <<kind, program, at, phase, stage, made, mem, tx, rx, len, wire, threads, result>>

\* octetStreams by name: what is sent to everybody is os[my_num()], <<"s", p>>.
Streams == {"s", "r"} \X Parties
Source(op, p, q) == IF op.kind = "send_receive_all" THEN <<"s", q>> ELSE <<"s", p>>
Target(op, p, q) == IF Same(op) THEN <<"s", p>> ELSE <<"r", q>>
Directions == {"send", "receive"}
Stream(op, p, q, d) == IF d = "send" THEN Source(op, p, q) ELSE Target(op, p, q)

\* A unit of the payload, and the one for the length; receivers take what comes.
Unit(k, p, q, i) == <<k, p, q, i>>
Header(n) == <<0, n, 0, 0>>
Decode(u) == u[2]
Garbage == <<0, 0, 0, 1>>

Ops == Programs[program]
Op(p) == Ops[at[p]]
ByThreads(op) == kind = "crypto" /\ ~Same(op)

\* The socket of the threads from p to q, by the numbers of the two, so that both ends
\* mean the same one.  Exchangers use `sockets' in both directions.
Sockets == {"sockets", "other_sockets"}
ThreadSocket(p, q) == IF p < q THEN "other_sockets" ELSE "sockets"
-----------------------------------------------------------------------------
(* Which exchanges an operation consists of: a sequence of stages, each a  *)
(* sequence of pairs of a party to send to and one to receive from, which  *)
(* may be neither where a loop over all offsets does nothing for one.      *)

Pair(to, from) == [to |-> to, from |-> from]
If(b, q) == IF b THEN q ELSE NoParty
Peer(pair, d) == IF d = "send" THEN pair.to ELSE pair.from

\* MultiPlayer::partial_broadcast_no_stats: sends to `senders', receives from `receivers'.
PartialBroadcast(op, p) ==
    [i \in Offsets |-> Pair(If(Pos(p, i) \in op.senders[p], Pos(p, i)),
                            If(Pos(p, N - i) \in op.receivers[p], Pos(p, N - i)))]

\* The functions of MultiPlayer, and what the Exchangers of CryptoPlayer are used for.
PlanExchangers(op, p) ==
    CASE op.kind = "exchange" ->
           IF op.other[p] = NoParty THEN <<>> ELSE <<<<Pair(op.other[p], op.other[p])>>>>
      [] op.kind = "pass_around" -> <<<<Pair(Pos(p, op.offset), Pos(p, N - op.offset))>>>>
      [] op.kind = "send_receive_all" ->
           [i \in Offsets |->
               <<Pair(If(<<p, Pos(p, i)>> \in op.channels, Pos(p, i)),
                      If(<<Pos(p, N - i), p>> \in op.channels, Pos(p, N - i)))>>]
      [] op.kind = "partial_broadcast" -> IF N = 1 THEN <<>> ELSE <<PartialBroadcast(op, p)>>

\* The requests of CryptoPlayer: everything at once, sends to `my_receivers' and
\* receives from `my_senders'.
PlanThreads(op, p) ==
    CASE op.kind \in {"exchange", "pass_around"} ->
           IF PlanExchangers(op, p) = <<>> THEN <<>> ELSE PlanExchangers(op, p)[1]
      [] op.kind = "send_receive_all" ->
           [i \in Offsets |-> Pair(If(<<p, Pos(p, i)>> \in op.channels, Pos(p, i)),
                                   If(<<Pos(p, i), p>> \in op.channels, Pos(p, i)))]
      [] op.kind = "partial_broadcast" ->
           [i \in Offsets |-> Pair(If(Pos(p, i) \in op.receivers[p], Pos(p, i)),
                                   If(Pos(p, i) \in op.senders[p], Pos(p, i)))]

\* The plans of all operations, looked up rather than computed again.
Plans(Plan(_, _)) ==
    [i \in DOMAIN Programs |-> [k \in DOMAIN Programs[i] |->
        [p \in Parties |-> Plan(Programs[i][k], p)]]]
AllExchanges == Plans(PlanExchangers)
AllRequests == Plans(PlanThreads)
Exchanges(p) == AllExchanges[program][at[p]][p]
Requests(p) == AllRequests[program][at[p]][p]
Pairs(p) == Exchanges(p)[stage[p]]
-----------------------------------------------------------------------------
All(x) == [p \in Parties |-> x]
Nothing == [d \in Directions |-> <<>>]

Init ==
    /\ kind \in Kinds /\ program \in DOMAIN Programs
    /\ at = All(0) /\ phase = All("idle") /\ stage = All(0) /\ made = All(0)
    /\ mem = All([s \in Streams |-> <<>>])
    /\ tx = All(All(-1)) /\ rx = All(All(-1)) /\ len = All(All(0))
    /\ wire = [s \in Sockets |-> All(All(<<>>))]
    /\ requested = All(All(Nothing)) /\ finished = All(All(Nothing))
    /\ result = All(<<>>)
-----------------------------------------------------------------------------
(* Moving units.  tx and rx count the one for the length as well.          *)

Goto(p, where) == phase' = [phase EXCEPT ![p] = where]

Next1(count) == IF count = -1 THEN 1 ELSE count + 1

Send(s, p, q, u, count) ==
    /\ Len(wire[s][p][q]) < Capacity
    /\ wire' = [wire EXCEPT ![s][p][q] = Append(@, u)]
    /\ tx' = [tx EXCEPT ![p][q] = count]

Receive(s, p, q, count) ==
    /\ wire[s][q][p] # <<>>
    /\ wire' = [wire EXCEPT ![s][q][p] = Tail(@)]
    /\ rx' = [rx EXCEPT ![p][q] = count]

ReceiveLength(s, p, q, count) ==
    /\ Receive(s, p, q, count)
    /\ len' = [len EXCEPT ![p][q] = Decode(Head(wire[s][q][p]))]
    /\ UNCHANGED mem

Overwrite(seq, i, u) == IF i <= Len(seq) THEN [seq EXCEPT ![i] = u] ELSE Append(seq, u)
ReceiveUnit(s, p, q, stream, count) ==
    /\ Receive(s, p, q, count)
    /\ mem' = [mem EXCEPT ![p][stream] = Overwrite(@, rx[p][q], Head(wire[s][q][p]))]
    /\ UNCHANGED len

SentAll(p, q) == q # NoParty => tx[p][q] = Op(p).size[p] + 1
Received(p, q) == q # NoParty => rx[p][q] > 0 /\ rx[p][q] > len[p][q]
-----------------------------------------------------------------------------
(* The calling thread.                                                     *)

\* What p has for q in an operation.  Only with send_receive_all it depends on q.
Content(k, p, q) == [i \in 1..Ops[k].size[p] |-> Unit(k, p, q, i)]
Message(k, p, q) == Content(k, p, Source(Ops[k], p, q)[2])

\* The caller fills the streams it sends, those it receives into are empty.
Fill(k, p) ==
    mem' = [mem EXCEPT ![p] = [stream \in Streams |->
        IF stream[1] = "s" THEN Content(k, p, stream[2]) ELSE <<>>]]

\* Those that the code has received from, whatever the operation is meant to be.
Froms(pairs) == {pairs[i].from : i \in DOMAIN pairs}
ReceivedFrom(p) ==
    IF ByThreads(Op(p)) THEN Froms(Requests(p))
    ELSE UNION {Froms(Exchanges(p)[i]) : i \in DOMAIN Exchanges(p)}

\* An operation ends: whether it has yielded the message from each party, something else,
\* or nothing.  A stream has the length that has come with it.
Return(p) ==
    /\ Goto(p, "idle")
    /\ result' = [result EXCEPT ![p] = Append(@, [q \in Parties |->
           IF q \notin ReceivedFrom(p) THEN "nothing"
           ELSE IF SubSeq(mem[p][Target(Op(p), p, q)], 1, len[p][q]) = Message(at[p], q, p)
                THEN "message" ELSE "garbage"])]

\* An operation begins: CryptoPlayer makes all requests, MultiPlayer its first Exchanger.
Begin(p) ==
    LET k == at[p] + 1
        op == Ops[k]
        pairs == AllRequests[program][k][p]
    IN
    /\ phase[p] = "idle" /\ at[p] < Len(Ops)
    /\ at' = [at EXCEPT ![p] = k]
    /\ Fill(k, p)
    /\ stage' = [stage EXCEPT ![p] = 1]
    /\ made' = [made EXCEPT ![p] = 0]
    /\ IF ByThreads(op)
       THEN /\ Goto(p, "wait")
            /\ requested' = [requested EXCEPT ![p] = [q \in Parties |-> [d \in Directions |->
                   IF \E i \in DOMAIN pairs : Peer(pairs[i], d) = q
                   THEN Append(@[q][d], Stream(op, p, q, d)) ELSE @[q][d]]]]
       ELSE Goto(p, "construct") /\ UNCHANGED requested
    /\ UNCHANGED <<kind, program, tx, rx, len, wire, finished, result>>

\* There is nobody to talk to in this operation.
ReturnAtOnce(p) ==
    /\ \/ phase[p] = "construct" /\ Exchanges(p) = <<>>
       \/ phase[p] = "wait" /\ Requests(p) = <<>>
    /\ Return(p)
    /\ UNCHANGED <<kind, program, at, stage, made, mem, tx, rx, len, wire, threads>>

\* The constructor of an Exchanger sends the length, and waits until it can.
Construct(p) ==
    LET pair == Pairs(p)[made[p] + 1] IN
    /\ phase[p] = "construct" /\ Exchanges(p) # <<>>
    /\ IF pair.to = NoParty THEN UNCHANGED <<wire, tx>>
       ELSE Send("sockets", p, pair.to, Header(Len(mem[p][Source(Op(p), p, pair.to)])), 1)
    /\ rx' = IF pair.from = NoParty THEN rx ELSE [rx EXCEPT ![p][pair.from] = 0]
    /\ made' = [made EXCEPT ![p] = @ + 1]
    /\ Goto(p, IF made[p] + 1 < Len(Pairs(p)) THEN "construct"
               ELSE IF kind = "plain" THEN "exchange" ELSE "write")
    /\ UNCHANGED <<kind, program, at, stage, mem, len, threads, result>>

\* Mutant of MayReceive: the rule for a stream that is sent and received into forgotten.
MayReceiveAlways(p, pair) == TRUE

\* Mutant of MayReceive: into this stream only when all is sent.
MayReceiveAfterwards(p, pair) == Same(Op(p)) => SentAll(p, pair.to)

\* Into the stream that is sent, Exchanger::round receives only what has been sent
\* already, or when all is sent.
MayReceive(p, pair) ==
    Same(Op(p)) => SentAll(p, pair.to) \/ tx[p][pair.to] > rx[p][pair.from]

\* With the length comes receive_stream.resize(max(new_len, len)), which moves the stream
\* to other memory unless that is less than its room; `data' stays where the stream was.
Freed(p, pair) ==
    /\ Same(Op(p)) /\ rx[p][pair.from] > 0
    /\ len[p][pair.from] >= Op(p).room[p] \/ Op(p).size[p] >= Op(p).room[p]

\* What is read from memory that has been freed may be what was there, or not.
ToSendNext(p, pair) ==
    LET i == tx[p][pair.to] IN
    IF Freed(p, pair) THEN {Content(at[p], p, p)[i], Garbage}
                      ELSE {mem[p][Source(Op(p), p, pair.to)][i]}

ExchangerSends(p, pair) ==
    /\ ~SentAll(p, pair.to)
    /\ \E u \in ToSendNext(p, pair) : Send("sockets", p, pair.to, u, tx[p][pair.to] + 1)

ExchangerReceives(p, pair) ==
    /\ ~Received(p, pair.from)
    /\ IF rx[p][pair.from] = 0
       THEN ReceiveLength("sockets", p, pair.from, 1)
       ELSE /\ MayReceive(p, pair)
            /\ ReceiveUnit("sockets", p, pair.from, Target(Op(p), p, pair.from),
                           rx[p][pair.from] + 1)

\* Rounds on plain sockets: the calls do not block while something is left to send, or
\* at all in a broadcast, where the Exchangers take turns.  Moving nothing is no step.
RoundSends(p) ==
    /\ phase[p] = "exchange"
    /\ \E i \in DOMAIN Pairs(p) : ExchangerSends(p, Pairs(p)[i])
    /\ UNCHANGED <<kind, program, at, phase, stage, made, mem, rx, len, threads, result>>
RoundReceives(p) ==
    /\ phase[p] = "exchange"
    /\ \E i \in DOMAIN Pairs(p) : ExchangerReceives(p, Pairs(p)[i])
    /\ UNCHANGED <<kind, program, at, phase, stage, made, tx, threads, result>>

\* The same on encrypted sockets, where every call blocks until it has moved something.
RoundWrites(p) ==
    /\ phase[p] = "write"
    /\ IF SentAll(p, Pairs(p)[1].to) THEN ~Received(p, Pairs(p)[1].from) /\ UNCHANGED <<wire, tx>>
                                      ELSE ExchangerSends(p, Pairs(p)[1])
    /\ Goto(p, "read")
    /\ UNCHANGED <<kind, program, at, stage, made, mem, rx, len, threads, result>>
RoundReads(p) ==
    LET pair == Pairs(p)[1] IN
    /\ phase[p] = "read"
    /\ IF Received(p, pair.from) \/ (rx[p][pair.from] > 0 /\ ~MayReceive(p, pair))
       THEN UNCHANGED <<mem, rx, len, wire>>
       ELSE ExchangerReceives(p, pair)
    /\ Goto(p, "write")
    /\ UNCHANGED <<kind, program, at, stage, made, tx, threads, result>>

\* All Exchangers of the stage are done: the next stage, or the end of the operation.
Finish(p) ==
    /\ phase[p] \in {"exchange", "write"}
    /\ \A i \in DOMAIN Pairs(p) : SentAll(p, Pairs(p)[i].to) /\ Received(p, Pairs(p)[i].from)
    /\ tx' = [tx EXCEPT ![p] = All(-1)]
    /\ rx' = [rx EXCEPT ![p] = All(-1)]
    /\ IF stage[p] = Len(Exchanges(p))
       THEN Return(p) /\ UNCHANGED <<stage, made>>
       ELSE /\ stage' = [stage EXCEPT ![p] = @ + 1]
            /\ made' = [made EXCEPT ![p] = 0]
            /\ Goto(p, "construct")
            /\ UNCHANGED result
    /\ UNCHANGED <<kind, program, at, mem, len, wire, threads>>
-----------------------------------------------------------------------------
(* The threads of CryptoPlayer.  A stream is at the head of `in' for as    *)
(* long as the thread works on it.                                         *)

\* Mutant of Waits: the calling thread waits for what it receives only.
WaitsForReceivers(p) ==
    [i \in DOMAIN Requests(p) |-> [d |-> "receive", q |-> Requests(p)[i].from]]

\* What the calling thread waits for: for each pair the sender, then the receiver.
Waits(p) ==
    [j \in 1..(2 * Len(Requests(p))) |->
        LET d == IF j % 2 = 1 THEN "send" ELSE "receive"
        IN [d |-> d, q |-> Peer(Requests(p)[(j + 1) \div 2], d)]]

\* Sender::wait and Receiver::wait take the next stream and throw if it is not theirs.
Takes(p, q, d) ==
    /\ finished[p][q][d] # <<>>
    /\ finished' = [finished EXCEPT ![p][q][d] = Tail(@)]
Mine(p, q, d) == Head(finished[p][q][d]) = Stream(Op(p), p, q, d)

Wait(p) ==
    LET w == Waits(p)[made[p] + 1] IN
    /\ phase[p] = "wait" /\ Requests(p) # <<>>
    /\ IF w.q = NoParty THEN UNCHANGED finished ELSE Takes(p, w.q, w.d)
    /\ made' = [made EXCEPT ![p] = @ + 1]
    /\ IF w.q # NoParty /\ ~Mine(p, w.q, w.d) THEN Goto(p, "failed") /\ UNCHANGED result
       ELSE IF made[p] + 1 = Len(Waits(p)) THEN Return(p)
       ELSE UNCHANGED <<phase, result>>
    /\ UNCHANGED <<kind, program, at, stage, mem, tx, rx, len, wire, requested>>

Push(p, q, d) ==
    /\ requested' = [requested EXCEPT ![p][q][d] = Tail(@)]
    /\ finished' = [finished EXCEPT ![p][q][d] = Append(@, Head(requested[p][q][d]))]

\* One unit of octetStream::Send in Sender::run_with_error, and after the last out.push.
Sender(p, q) ==
    LET stream == mem[p][Head(requested[p][q]["send"])]
        sent == tx[p][q]
    IN
    /\ requested[p][q]["send"] # <<>>
    /\ Send(ThreadSocket(p, q), p, q, IF sent = -1 THEN Header(Len(stream)) ELSE stream[sent],
            IF sent = Len(stream) \/ stream = <<>> THEN -1 ELSE Next1(sent))
    /\ IF sent = Len(stream) \/ stream = <<>> THEN Push(p, q, "send") ELSE UNCHANGED threads
    /\ UNCHANGED <<kind, program, at, phase, stage, made, mem, rx, len, result>>

\* One unit of octetStream::Receive in Receiver::run_with_error, and out.push.
Receiver(p, q) ==
    LET s == ThreadSocket(q, p)
        received == rx[p][q]
        last == IF received = -1 THEN Decode(Head(wire[s][q][p])) = 0
                                 ELSE received = len[p][q]
        next == IF last THEN -1 ELSE Next1(received)
    IN
    /\ requested[p][q]["receive"] # <<>> /\ wire[s][q][p] # <<>>
    /\ IF received = -1 THEN ReceiveLength(s, p, q, next)
       ELSE ReceiveUnit(s, p, q, Head(requested[p][q]["receive"]), next)
    /\ IF last THEN Push(p, q, "receive") ELSE UNCHANGED threads
    /\ UNCHANGED <<kind, program, at, phase, stage, made, tx, result>>
-----------------------------------------------------------------------------
\* The destructors close the sockets; CryptoPlayer's does before it stops the threads.
Close(p) ==
    /\ phase[p] = "idle" /\ at[p] = Len(Ops)
    /\ Goto(p, "closed")
    /\ UNCHANGED <<kind, program, at, stage, made, mem, tx, rx, len, wire, threads, result>>

Call(p) ==
    \/ Begin(p) \/ ReturnAtOnce(p) \/ Construct(p) \/ RoundSends(p) \/ RoundReceives(p)
    \/ RoundWrites(p) \/ RoundReads(p) \/ Finish(p) \/ Wait(p) \/ Close(p)

Over == \A p \in Parties : phase[p] = "closed"

Next ==
    \/ \E p \in Parties : Call(p)
    \/ \E p, q \in Parties : Sender(p, q) \/ Receiver(p, q)
    \/ Over /\ UNCHANGED vars

\* Threads are scheduled; what is in a socket can be received.
Fairness ==
    /\ \A p \in Parties : WF_vars(Call(p))
    /\ \A p, q \in Parties : WF_vars(Sender(p, q)) /\ WF_vars(Receiver(p, q))

Spec == Init /\ [][Next]_vars /\ Fairness
-----------------------------------------------------------------------------
\* When a party closes its connections nothing has been sent to it that it has not
\* received, and none of its threads is still at work on a socket: sockets closed with
\* data unread are reset, and the senders still exist when the sockets are deleted.
CleanClose ==
    \A p \in Parties : phase[p] = "closed" =>
        /\ \A q \in Parties, s \in Sockets : wire[s][q][p] = <<>>
        /\ \A q \in Parties : tx[p][q] = -1 /\ rx[p][q] = -1
                               /\ requested[p][q] = Nothing

\* Whether q has something for p in an operation.
Has(op, p, q) ==
    CASE op.kind = "exchange" -> op.other[p] = q
      [] op.kind = "pass_around" -> Pos(q, op.offset) = p
      [] op.kind = "send_receive_all" -> <<q, p>> \in op.channels
      [] op.kind = "partial_broadcast" -> q \in op.senders[p]
Channels ==
    [k \in 1..Len(Ops) |->
        {c \in Parties \X Parties : c[1] # c[2] /\ Has(Ops[k], c[2], c[1])}]
Promise == INSTANCE Rounds WITH begun <- at, channels <- Channels

\* The senders and the receivers that a party passes are the same parties, but for itself.
\* The classes differ in the others: see SpecifiedSenders.
Mutual(op) ==
    op.kind = "partial_broadcast" =>
        \A p \in Parties : op.senders[p] \ {p} = op.receivers[p] \ {p}
MutualBroadcasts == \A i \in DOMAIN Programs : \A k \in DOMAIN Programs[i] : Mutual(Programs[i][k])

\* A stream that is sent and received into has more room than any message needs, so that
\* it stays where it is.  Otherwise see BufferReused.
Roomy(op) == Same(op) => \A p, q \in Parties : op.size[q] < op.room[p]
SpareRoom == \A i \in DOMAIN Programs : \A k \in DOMAIN Programs[i] : Roomy(Programs[i][k])

\* Given spare room, either class keeps the promise of Rounds: every operation yields what
\* the others have for it, unmixed with what they send before and after, and nothing is
\* overwritten before it is sent.
ImplementsRounds == Promise!Spec

\* All operations return at all parties: no cycle of parties waiting for one another, be it
\* because of full sockets or because of the order in which they send and receive.
AllReturn == <>Over

\* "Specified senders broadcast information to specified receivers", with os holding
\* "received data elsewhere" (Networking/Player.h): a party ends up with the data of the
\* senders it has specified.
SpecifiedSenders ==
    \A p \in Parties : \A k \in 1..Len(result[p]) :
        Ops[k].kind = "partial_broadcast" =>
            \A q \in Parties \ {p} :
                result[p][k][q] # "nothing" <=> q \in Ops[k].senders[p]

\* "Exchange information with one other party, reusing the buffer", and likewise for
\* pass_around (Networking/Player.h): what a party receives into the buffer that it sends
\* is what the other party had in its own.
BufferReused ==
    \A p \in Parties : \A k \in 1..Len(result[p]) :
        Same(Ops[k]) => \A q \in Parties : result[p][k][q] # "garbage"
=============================================================================
