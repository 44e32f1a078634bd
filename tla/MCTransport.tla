----------------------------- MODULE MCTransport -----------------------------
(* Programs for Transport with three parties.                                *)
EXTENDS Transport

One == [p \in Parties |-> 1]
Only(q) == [p \in Parties |-> IF p = q THEN 1 ELSE 0]
Long == [p \in Parties |-> 3]
Longer(q) == [p \in Parties |-> IF p = q THEN 2 ELSE 1]

\* Room for more than any of the messages, and for one unit more than Longer.
Spare == [p \in Parties |-> 4]
Tight(q) == [p \in Parties |-> Longer(q)[p] + 1]

PassAroundIn(room, same, offset, size) ==
    [kind |-> "pass_around", same |-> same, offset |-> offset, size |-> size, room |-> room]
PassAround(same, offset, size) == PassAroundIn(Spare, same, offset, size)
Exchange(same, a, b, size) ==
    [kind |-> "exchange", same |-> same, size |-> size, room |-> Spare,
     other |-> [p \in Parties |-> CASE p = a -> b [] p = b -> a [] OTHER -> NoParty]]
SendReceiveAll(channels, size) ==
    [kind |-> "send_receive_all", channels |-> channels, size |-> size]
PartialBroadcastAmong(set, size) ==
    [kind |-> "partial_broadcast", size |-> size,
     senders |-> [p \in Parties |-> IF p \in set THEN set ELSE {}],
     receivers |-> [p \in Parties |-> IF p \in set THEN set ELSE {}]]

\* Parties that are done with the first operation meet others that are still in it; messages may be empty.
MCPrograms == <<
    <<PassAround(TRUE, 1, Longer(0)), Exchange(FALSE, 0, 1, Only(1)),
      PassAround(FALSE, 1, One)>>,
    <<SendReceiveAll({<<0, 1>>, <<1, 0>>, <<1, 2>>}, One), PassAround(FALSE, 2, One)>>,
    <<PartialBroadcastAmong(Parties, Only(0))>>,
    <<PartialBroadcastAmong({0, 1}, One), Exchange(TRUE, 0, 1, Long),
      SendReceiveAll({<<2, 1>>, <<1, 2>>, <<0, 2>>}, Only(2))>>
  >>

\* ShamirMC::exchange with a threshold of one: from the next party, to the one before.
MCOpening == <<<<
    [kind |-> "partial_broadcast",
     senders |-> [p \in Parties |-> {p, Pos(p, 1)}],
     receivers |-> [p \in Parties |-> {Pos(p, N - 1)}],
     size |-> One]>>
  >>

\* A stream with room for what it holds and no more, or for one unit more while another
\* party's message is by one unit longer.
MCReuse == << <<PassAroundIn(Longer(0), TRUE, 1, Longer(0))>>,
              <<PassAroundIn(Tight(0), TRUE, 1, Longer(0))>> >>
=============================================================================
