---------------------------- MODULE BlockingFIFO ----------------------------
(***************************************************************************)
(* What a WaitQueue (Tools/WaitQueue.h) promises the threads that use it:  *)
(* a first-in first-out channel with one reader, which hands over every    *)
(* value once and in order until it is closed.  A reader that drains       *)
(* (pop_dont_stop) still hands over what is pending when it is closed; any *)
(* other reader may discard it.                                            *)
(***************************************************************************)
EXTENDS Naturals, Sequences

CONSTANT Values       \* what can be pushed

VARIABLES draining,   \* TRUE if the reader uses pop_dont_stop
          pending,    \* the values pushed and not handed over yet
          closed,     \* stop has been called
          delivered   \* the values handed over, in order

vars == <<draining, pending, closed, delivered>>

Init == draining \in BOOLEAN /\ pending = <<>> /\ closed = FALSE /\ delivered = <<>>

Put(v) ==
    /\ pending' = Append(pending, v)
    /\ UNCHANGED <<draining, closed, delivered>>

Get ==
    /\ pending # <<>>
    /\ pending' = Tail(pending)
    /\ delivered' = Append(delivered, Head(pending))
    /\ UNCHANGED <<draining, closed>>

Discard ==
    /\ closed /\ ~draining /\ pending # <<>>
    /\ pending' = Tail(pending)
    /\ UNCHANGED <<draining, closed, delivered>>

Close == closed' = TRUE /\ UNCHANGED <<draining, pending, delivered>>

Next == (\E v \in Values : Put(v)) \/ Get \/ Discard \/ Close

Spec == Init /\ [][Next]_vars
=============================================================================
