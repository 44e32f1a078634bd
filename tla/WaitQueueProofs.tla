--------------------------- MODULE WaitQueueProofs ---------------------------
(***************************************************************************)
(* Theorems about WaitQueue, for any number of producers and pushes.       *)
(***************************************************************************)
EXTENDS WaitQueue, TLAPS, SequenceTheorems

\* A pop that is about to return true has something to return.
HasTaken ==
    \A c \in Consumers : pc[c] = "unlocked" /\ running /\ ~draining => value[c] # NoItem

\* Only a pop that has left its critical section holds a value.
HoldsOutside == \A c \in Consumers : value[c] # NoItem => pc[c] = "unlocked"

TypeInv == TypeOK /\ HasTaken /\ HoldsOutside

\* How the queue is used does not change.
LEMMA ModeKept ==
    ASSUME TypeOK, [Next]_vars
    PROVE  mode' = mode /\ draining' = draining /\ spurious' = spurious /\ draining \in BOOLEAN
  BY WaitQueueAssumption DEF Next, vars, mode, TypeOK

\* Signal changes nothing but pc, and at most from "waiting" to "woken".
LEMMA SignalEffect ==
    ASSUME TypeOK, Signal
    PROVE  /\ pc' \in [Consumers -> {"idle", "waiting", "woken", "unlocked", "left"}]
           /\ \A c \in Consumers : pc'[c] # pc[c] => pc[c] = "waiting" /\ pc'[c] = "woken"
  BY DEF TypeOK, Signal

\* The critical section of pop keeps the types and takes an item of the deque.
LEMMA TakeKeeps ==
    ASSUME TypeInv, NEW c \in Consumers, pc[c] \in {"idle", "woken"}, Take(c),
           draining \in BOOLEAN, draining' = draining, mode' = mode
    PROVE  TypeInv'
<1> USE DEF TypeInv, TypeOK
<1>1. queue # <<>> => Head(queue) \in Items /\ Tail(queue) \in Seq(Items)
  BY HeadTailProperties
<1>2. /\ value' \in [Consumers -> Items \union {NoItem, Garbage}]
      /\ queue' \in Seq(Items)
      /\ running /\ ~draining => value'[c] # NoItem
      /\ \A d \in Consumers \ {c} : value'[d] = value[d]
  <2>1. CASE (draining \/ running) /\ queue # <<>> /\ value' = [value EXCEPT ![c] = Head(queue)]
    BY <2>1, <1>1, WaitQueueAssumption DEF Take
  <2>2. CASE value' = [value EXCEPT ![c] = Garbage]
    BY <2>2, WaitQueueAssumption DEF Take
  <2>3. CASE (draining \/ ~running) /\ value' = [value EXCEPT ![c] = NoItem]
    BY <2>3, WaitQueueAssumption DEF Take
  <2> QED
    BY <2>1, <2>2, <2>3, WaitQueueAssumption DEF Take
<1>3. TypeOK'
  BY <1>2 DEF Take
<1>4. HasTaken' /\ HoldsOutside'
  BY <1>2 DEF Take, HasTaken, HoldsOutside
<1> QED
  BY <1>3, <1>4

\* Every step keeps the types.
LEMMA TypeStep == ASSUME TypeInv, [Next]_vars PROVE TypeInv'
<1> USE WaitQueueAssumption DEF TypeInv, TypeOK
<1>0. mode' = mode /\ draining' = draining /\ draining \in BOOLEAN
  BY ModeKept
<1>1. ASSUME NEW p \in Producers, Push(p) PROVE TypeInv'
  <2>1. <<p, pushed[p] + 1>> \in Items
    BY <1>0, <1>1 DEF Push, Items
  <2>2. pushed' \in [Producers -> 0..MaxPushes]
    BY <1>0, <1>1 DEF Push
  <2>3. TypeOK'
    BY <1>0, <1>1, <2>1, <2>2, SignalEffect DEF Push
  <2>4. HasTaken' /\ HoldsOutside'
    BY <1>0, <1>1, SignalEffect DEF Push, HasTaken, HoldsOutside
  <2> QED
    BY <2>3, <2>4
<1>2. ASSUME NEW c \in Consumers, Pop(c) PROVE TypeInv'
  <2>1. CASE running /\ queue = <<>>
    BY <1>0, <1>2, <2>1 DEF Pop, HasTaken, HoldsOutside
  <2>2. CASE ~(running /\ queue = <<>>)
    BY <1>0, <1>2, <2>2, TakeKeeps DEF Pop
  <2> QED
    BY <2>1, <2>2
<1>3. ASSUME NEW c \in Consumers, Resume(c) PROVE TypeInv'
  BY <1>0, <1>3, TakeKeeps DEF Resume
<1>4. ASSUME NEW c \in Consumers, Return(c) PROVE TypeInv'
  <2>1. TypeOK'
    <3>1. received' \in Seq(Items \union {Garbage})
      <4>1. CASE received' = received
        BY <4>1
      <4>2. CASE received' = Append(received, value[c]) /\ value[c] # NoItem
        BY <4>2
      <4> QED
        BY <1>0, <1>4, <4>1, <4>2 DEF Return, HasTaken
    <3> QED
      BY <1>0, <1>4, <3>1 DEF Return
  <2>2. HasTaken' /\ HoldsOutside'
    BY <1>0, <1>4 DEF Return, HasTaken, HoldsOutside
  <2> QED
    BY <2>1, <2>2
<1>5. ASSUME NEW c \in Consumers, WakeSpuriously(c) PROVE TypeInv'
  BY <1>0, <1>5 DEF WakeSpuriously, HasTaken, HoldsOutside
<1>6. CASE Stop
  BY <1>0, <1>6, SignalEffect DEF Stop, HasTaken, HoldsOutside
<1>7. CASE UNCHANGED vars
  BY <1>0, <1>7 DEF vars, HasTaken, HoldsOutside
<1> QED
  BY <1>1, <1>2, <1>3, <1>4, <1>5, <1>6, <1>7 DEF Next, Consume

\* The variables keep their types, whoever pops and however.
THEOREM TypeCorrect == Spec => []TypeOK
<1>1. Init => TypeInv
  BY WaitQueueAssumption DEF Init, mode, TypeInv, TypeOK, HasTaken, HoldsOutside
<1>2. TypeInv /\ [Next]_vars => TypeInv'
  BY TypeStep
<1>3. TypeInv => TypeOK
  BY DEF TypeInv
<1> QED
  BY <1>1, <1>2, <1>3, PTL DEF Spec

-----------------------------------------------------------------------------
\* What a `pop' with one consumer that only signals wake rests on: a thread that
\* was woken finds a value, or finds the queue stopped.
WokenFinds ==
    ~draining => \A c \in Consumers : pc[c] = "woken" => queue # <<>> \/ ~running

SafeUse == OneReader /\ \A m \in Modes : m[1] \/ ~m[2]

FrontInv == TypeInv /\ WokenFinds /\ NoUnderflow

LEMMA FrontTake ==
    ASSUME SafeUse, FrontInv, NEW c \in Consumers, Take(c),
           pc[c] = "woken" \/ ~(running /\ queue = <<>>),
           draining \in BOOLEAN, draining' = draining
    PROVE  WokenFinds' /\ NoUnderflow'
<1> USE DEF FrontInv, TypeInv, TypeOK
<1>1. ~draining /\ running => queue # <<>>
  BY DEF WokenFinds
<1>2. queue # <<>> => Head(queue) \in Items
  BY HeadTailProperties
<1>3. NoUnderflow'
  BY <1>1, <1>2, WaitQueueAssumption DEF Take, NoUnderflow
<1>4. \A d \in Consumers : d = c
  BY DEF SafeUse, OneReader
<1>5. WokenFinds'
  BY <1>4 DEF Take, WokenFinds
<1> QED
  BY <1>3, <1>5

LEMMA FrontStep == ASSUME SafeUse, FrontInv, [Next]_vars PROVE FrontInv'
<1> USE DEF FrontInv, TypeInv, TypeOK
<1>0. mode' = mode /\ draining' = draining /\ spurious' = spurious /\ draining \in BOOLEAN
  BY ModeKept
<1>1. TypeInv'
  BY TypeStep
<1>2. ASSUME NEW p \in Producers, Push(p) PROVE WokenFinds' /\ NoUnderflow'
  <2>1. <<p, pushed[p] + 1>> \in Items
    BY <1>2, WaitQueueAssumption DEF Push, Items
  <2>2. queue' # <<>>
    BY <1>2, <2>1, AppendProperties DEF Push
  <2> QED
    BY <1>0, <1>2, <2>2 DEF Push, WokenFinds, NoUnderflow
<1>3. ASSUME NEW c \in Consumers, Pop(c) PROVE WokenFinds' /\ NoUnderflow'
  <2>1. CASE running /\ queue = <<>>
    BY <1>0, <1>3, <2>1 DEF Pop, WokenFinds, NoUnderflow
  <2>2. CASE ~(running /\ queue = <<>>)
    BY <1>0, <1>3, <2>2, FrontTake DEF Pop
  <2> QED
    BY <2>1, <2>2
<1>4. ASSUME NEW c \in Consumers, Resume(c) PROVE WokenFinds' /\ NoUnderflow'
  BY <1>0, <1>4, FrontTake DEF Resume
<1>5. ASSUME NEW c \in Consumers, Return(c) PROVE WokenFinds' /\ NoUnderflow'
  BY <1>0, <1>5, WaitQueueAssumption DEF Return, WokenFinds, NoUnderflow
<1>6. ASSUME NEW c \in Consumers, WakeSpuriously(c) PROVE WokenFinds' /\ NoUnderflow'
  <2>1. draining
    BY <1>6, WaitQueueAssumption DEF SafeUse, WakeSpuriously, mode
  <2> QED
    BY <1>0, <1>6, <2>1 DEF mode, WakeSpuriously, WokenFinds, NoUnderflow
<1>7. CASE Stop
  BY <1>0, <1>1, <1>7, SignalEffect DEF Stop, WokenFinds, NoUnderflow
<1>8. CASE UNCHANGED vars
  BY <1>0, <1>1, <1>8 DEF vars, WokenFinds, NoUnderflow
<1> QED
  BY <1>1, <1>2, <1>3, <1>4, <1>5, <1>6, <1>7, <1>8 DEF Next, Consume

LEMMA FrontInit == Init => FrontInv
  BY WaitQueueAssumption
     DEF Init, mode, FrontInv, TypeInv, TypeOK, HasTaken, HoldsOutside, WokenFinds, NoUnderflow

\* With one consumer, and no spurious wakeup unless it drains, pop never takes the
\* front of an empty deque, although it looks at the size only before it waits.
THEOREM NeverUnderflows == ASSUME SafeUse PROVE Spec => []NoUnderflow
<1>1. FrontInv /\ [Next]_vars => FrontInv'
  BY FrontStep
<1>2. FrontInv => NoUnderflow
  BY DEF FrontInv
<1> QED
  BY <1>1, <1>2, FrontInit, PTL DEF Spec

-----------------------------------------------------------------------------
\* What is pending, from the deque's end: pushing to it and taking from it.
LEMMA PendingTake ==
    ASSUME SafeUse, FrontInv, NEW c \in Consumers, Take(c), value[c] = NoItem, NoUnderflow'
    PROVE  InHand' \o queue' = InHand \o queue
<1> USE DEF FrontInv, TypeInv, TypeOK
<1>1. Reader = c
  BY DEF SafeUse, OneReader, Reader
<1>2. InHand = <<>>
  BY <1>1 DEF InHand
<1>3. InHand \o queue = queue
  BY <1>2, ConcatEmptySeq
<1>4. CASE value'[c] = NoItem /\ queue' = queue
  BY <1>4, <1>1, <1>3, ConcatEmptySeq DEF InHand
<1>5. CASE queue # <<>> /\ value'[c] = Head(queue) /\ queue' = Tail(queue)
  <2>1. Head(queue) \in Items /\ Tail(queue) \in Seq(Items)
    BY <1>5, HeadTailProperties
  <2>2. InHand' = <<Head(queue)>>
    BY <1>1, <1>5, <2>1, WaitQueueAssumption DEF InHand
  <2>3. <<Head(queue)>> \o Tail(queue) = queue
    BY <1>5, <2>1, HeadTailProperties
  <2> QED
    BY <1>3, <1>5, <2>2, <2>3
<1> QED
  BY <1>4, <1>5 DEF Take, NoUnderflow

\* Every step of the queue is a step of the first-in first-out channel.
LEMMA FIFOStep ==
    ASSUME SafeUse, FrontInv, FrontInv', [Next]_vars
    PROVE  [Abstract!Next]_(Abstract!vars)
<1> USE DEF FrontInv, TypeInv, TypeOK, Abstract!vars
<1>0. draining' = draining
  BY ModeKept
<1> DEFINE pend == InHand \o queue
<1>1. PICK r \in Consumers : Consumers = {r}
  BY DEF SafeUse, OneReader
<1>2. Reader = r
  BY <1>1 DEF Reader
<1>3. InHand \in Seq(Items)
  BY <1>2 DEF InHand, NoUnderflow
<1>4. ASSUME NEW p \in Producers, Push(p) PROVE [Abstract!Next]_(Abstract!vars)
  <2>1. <<p, pushed[p] + 1>> \in Items
    BY <1>4, WaitQueueAssumption DEF Push, Items
  <2>2. InHand' = InHand
    BY <1>4 DEF Push, InHand
  <2>3. pend' = Append(pend, <<p, pushed[p] + 1>>)
    BY <1>3, <1>4, <2>1, <2>2 DEF Push
  <2> QED
    BY <1>0, <1>4, <2>1, <2>3 DEF Push, Abstract!Next, Abstract!Put
<1>5. ASSUME NEW c \in Consumers, Take(c), pc[c] \in {"idle", "woken"}
      PROVE  [Abstract!Next]_(Abstract!vars)
  <2>1. value[c] = NoItem
    BY <1>5 DEF HoldsOutside
  <2>2. pend' = pend
    BY <1>5, <2>1, PendingTake
  <2> QED
    BY <1>0, <1>5, <2>2 DEF Take
<1>6. ASSUME NEW c \in Consumers, Return(c) PROVE [Abstract!Next]_(Abstract!vars)
  <2>1. Reader = c
    BY <1>1, <1>2
  <2>2. pend' = queue
    BY <1>6, <2>1 DEF Return, InHand
  <2>3. CASE value[c] = NoItem
    <3>1. pend = queue
      BY <2>1, <2>3 DEF InHand
    <3>2. received' = received /\ running' = running
      BY <1>6, <2>3 DEF Return, HasTaken
    <3> QED
      BY <1>0, <2>2, <3>1, <3>2
  <2>4. CASE value[c] # NoItem
    <3>1. value[c] \in Items
      BY <2>4 DEF NoUnderflow
    <3>2. pend = <<value[c]>> \o queue
      BY <2>1, <2>4 DEF InHand
    <3>3. Head(pend) = value[c] /\ Tail(pend) = queue /\ pend # <<>>
      BY <3>1, <3>2
    <3> QED
      BY <1>0, <1>6, <2>2, <2>4, <3>3 DEF Return, Abstract!Next, Abstract!Get, Abstract!Discard
  <2> QED
    BY <2>3, <2>4
<1>7. CASE Stop
  BY <1>0, <1>7 DEF Stop, InHand, Abstract!Next, Abstract!Close
<1>8. ASSUME NEW c \in Consumers, Pop(c) \/ Resume(c) PROVE [Abstract!Next]_(Abstract!vars)
  BY <1>0, <1>5, <1>8 DEF Pop, Resume, InHand
<1>9. ASSUME NEW c \in Consumers, WakeSpuriously(c) PROVE [Abstract!Next]_(Abstract!vars)
  BY <1>0, <1>9 DEF WakeSpuriously, InHand
<1>10. CASE UNCHANGED vars
  BY <1>0, <1>10 DEF vars, InHand
<1> QED
  BY <1>4, <1>6, <1>7, <1>8, <1>9, <1>10 DEF Next, Consume

\* Used that way, the mutex, the condition variable and the deque implement the
\* first-in first-out channel.
THEOREM FIFOImplemented == ASSUME SafeUse PROVE Spec => ImplementsFIFO
<1>1. Init => Abstract!Init
  BY ConcatEmptySeq, WaitQueueAssumption DEF Init, Abstract!Init, InHand, SafeUse, OneReader, Reader
<1>2. FrontInv /\ [Next]_vars => FrontInv'
  BY FrontStep
<1>3. FrontInv /\ FrontInv' /\ [Next]_vars => [Abstract!Next]_(Abstract!vars)
  BY FIFOStep
<1> QED
  BY <1>1, <1>2, <1>3, FrontInit, PTL DEF Spec, ImplementsFIFO, Abstract!Spec

-----------------------------------------------------------------------------
\* Where a value is: in the deque, with a consumer, or handed over.  It is in one
\* place, once, and has been pushed.
Pushed(x) == x \in Items /\ x[2] <= pushed[x[1]]

InDeque ==
    \A i \in 1..Len(queue) :
        /\ Pushed(queue[i])
        /\ \A j \in 1..Len(queue) : queue[i] = queue[j] => i = j
        /\ \A j \in 1..Len(received) : queue[i] # received[j]
        /\ \A c \in Consumers : queue[i] # value[c]
WithConsumer ==
    \A c \in Consumers : value[c] # NoItem =>
        /\ Pushed(value[c])
        /\ \A d \in Consumers : value[c] = value[d] => c = d
        /\ \A j \in 1..Len(received) : value[c] # received[j]
HandedOver ==
    \A i \in 1..Len(received) :
        Pushed(received[i]) /\ \A j \in 1..Len(received) : received[i] = received[j] => i = j

OnceInv == InDeque /\ WithConsumer /\ HandedOver

\* A push adds a value that is nowhere yet.
LEMMA OncePush ==
    ASSUME TypeInv, OnceInv, NEW p \in Producers, Push(p)
    PROVE  OnceInv'
<1> USE DEF TypeInv, TypeOK
<1>0. PICK x : x = <<p, pushed[p] + 1>>
  OBVIOUS
<1>1. /\ x \in Items /\ pushed[p] \in Nat
      /\ pushed'[p] = pushed[p] + 1 /\ \A q \in Producers \ {p} : pushed'[q] = pushed[q]
  BY <1>0, WaitQueueAssumption DEF Push, Items
<1>2. /\ Len(queue) \in Nat /\ Len(queue') = Len(queue) + 1 /\ queue'[Len(queue) + 1] = x
      /\ \A i \in 1..Len(queue) : queue'[i] = queue[i]
  BY <1>0, <1>1, AppendProperties DEF Push
<1>3. \A y : Pushed(y) => y # x /\ Pushed(y)'
  <2> SUFFICES ASSUME NEW y, Pushed(y) PROVE y # x /\ Pushed(y)'
    OBVIOUS
  <2>1. y \in Items /\ y[1] \in Producers /\ y[2] \in Nat /\ y[2] <= pushed[y[1]]
    BY DEF Pushed, Items
  <2>2. pushed[y[1]] \in Nat /\ pushed'[y[1]] \in {pushed[y[1]], pushed[y[1]] + 1}
    BY <1>1, <2>1
  <2> QED
    BY <1>0, <1>1, <2>1, <2>2 DEF Pushed
<1>4. Pushed(x)' /\ x # NoItem
  <2>1. x[1] = p /\ x[2] = pushed[p] + 1 /\ pushed[p] + 1 <= pushed'[p]
    BY <1>0, <1>1
  <2> QED
    BY <1>1, <2>1, WaitQueueAssumption DEF Pushed
<1>5. \A i \in 1..Len(queue') :
         /\ i \in Nat
         /\ (i \in 1..Len(queue) /\ queue'[i] = queue[i]) \/ (i = Len(queue) + 1 /\ queue'[i] = x)
  BY <1>2
<1>6. value' = value /\ received' = received
  BY DEF Push
<1>7. InDeque'
  <2>1. \A i \in 1..Len(queue) : Pushed(queue[i]) /\ queue[i] # x
    BY <1>3 DEF OnceInv, InDeque
  <2>2. \A c \in Consumers : value[c] # x
    BY <1>3, <1>4 DEF OnceInv, WithConsumer
  <2>3. \A j \in 1..Len(received) : received[j] # x
    BY <1>3 DEF OnceInv, HandedOver
  <2> QED
    BY <1>3, <1>4, <1>5, <1>6, <2>1, <2>2, <2>3 DEF OnceInv, InDeque
<1>8. WithConsumer' /\ HandedOver'
  BY <1>3, <1>6 DEF OnceInv, WithConsumer, HandedOver
<1> QED
  BY <1>7, <1>8 DEF OnceInv

\* A critical section of pop moves the front of the deque to the consumer.
LEMMA OnceTake ==
    ASSUME TypeInv, OnceInv, NEW c \in Consumers, pc[c] \in {"idle", "woken"}, Take(c), NoUnderflow'
    PROVE  OnceInv'
<1> USE DEF TypeInv, TypeOK
<1>1. /\ value[c] = NoItem /\ received' = received /\ pushed' = pushed
      /\ \A y : Pushed(y)' <=> Pushed(y)
  BY DEF HoldsOutside, Take, Pushed
<1>2. CASE value' = [value EXCEPT ![c] = NoItem] /\ queue' = queue
  <2>1. value' = value
    BY <1>1, <1>2
  <2> QED
    BY <1>1, <1>2, <2>1 DEF OnceInv, InDeque, WithConsumer, HandedOver
<1>3. CASE queue # <<>> /\ value' = [value EXCEPT ![c] = Head(queue)] /\ queue' = Tail(queue)
  <2>1. /\ Len(queue) \in Nat /\ 1 \in 1..Len(queue) /\ Head(queue) = queue[1]
        /\ Len(queue') = Len(queue) - 1
        /\ \A i \in 1..Len(queue') : i + 1 \in 1..Len(queue) /\ i + 1 # 1 /\ queue'[i] = queue[i + 1]
    BY <1>3, HeadTailProperties
  <2>2. value'[c] = queue[1] /\ \A d \in Consumers \ {c} : value'[d] = value[d]
    BY <1>3, <2>1
  <2>3. InDeque'
    <3> SUFFICES ASSUME NEW i \in 1..Len(queue')
                 PROVE  /\ Pushed(queue'[i])
                        /\ \A j \in 1..Len(queue') : queue'[i] = queue'[j] => i = j
                        /\ \A j \in 1..Len(received) : queue'[i] # received[j]
                        /\ \A d \in Consumers : queue'[i] # value'[d]
      BY <1>1 DEF InDeque
    <3>1. i \in Nat /\ \A j \in 1..Len(queue') : j \in Nat /\ (i + 1 = j + 1 => i = j)
      OBVIOUS
    <3>2. i + 1 \in 1..Len(queue) /\ queue'[i] = queue[i + 1] /\ i + 1 # 1
      BY <2>1
    <3>3. Pushed(queue'[i]) /\ (\A j \in 1..Len(received) : queue'[i] # received[j])
      BY <3>2 DEF OnceInv, InDeque
    <3>4. ASSUME NEW j \in 1..Len(queue'), queue'[i] = queue'[j] PROVE i = j
      <4>1. j + 1 \in 1..Len(queue) /\ queue[i + 1] = queue[j + 1]
        BY <2>1, <3>2, <3>4
      <4>2. i + 1 = j + 1
        BY <3>2, <4>1 DEF OnceInv, InDeque
      <4> QED
        BY <3>1, <4>2
    <3>5. queue'[i] # queue[1] /\ \A d \in Consumers : queue'[i] # value[d]
      BY <2>1, <3>2 DEF OnceInv, InDeque
    <3> QED
      BY <2>2, <3>3, <3>4, <3>5
  <2>4. WithConsumer'
    BY <1>1, <2>1, <2>2 DEF OnceInv, InDeque, WithConsumer
  <2> QED
    BY <1>1, <2>3, <2>4 DEF OnceInv, HandedOver
<1> QED
  BY <1>2, <1>3 DEF Take, NoUnderflow

\* Returning moves the consumer's value to what has been handed over, or drops it.
LEMMA OnceReturn ==
    ASSUME TypeInv, OnceInv, NEW c \in Consumers, Return(c)
    PROVE  OnceInv'
<1>1. /\ \A d \in Consumers : value'[d] = NoItem \/ (d # c /\ value'[d] = value[d])
      /\ queue' = queue /\ \A y : Pushed(y)' <=> Pushed(y)
  BY DEF Return, Pushed, TypeInv, TypeOK
<1>2. \A y : Pushed(y) => y # NoItem
  BY WaitQueueAssumption DEF Pushed
<1>3. CASE received' = received
  <2>1. InDeque'
    BY <1>1, <1>2, <1>3 DEF OnceInv, InDeque
  <2>2. WithConsumer' /\ HandedOver'
    BY <1>1, <1>3 DEF OnceInv, WithConsumer, HandedOver
  <2> QED
    BY <2>1, <2>2 DEF OnceInv
<1>4. CASE received' = Append(received, value[c]) /\ value[c] # NoItem
  <2>1. /\ Len(received) \in Nat /\ Len(received') = Len(received) + 1
        /\ received'[Len(received) + 1] = value[c]
        /\ \A i \in 1..Len(received) : received'[i] = received[i]
    BY <1>4, AppendProperties DEF TypeInv, TypeOK
  <2>2. \A i \in 1..Len(received') :
           \/ i \in 1..Len(received) /\ received'[i] = received[i]
           \/ i = Len(received) + 1 /\ received'[i] = value[c]
    BY <2>1
  <2>3. HandedOver'
    BY <1>1, <1>4, <2>2 DEF OnceInv, WithConsumer, HandedOver
  <2>4. InDeque'
    BY <1>1, <1>2, <2>2 DEF OnceInv, InDeque
  <2>5. WithConsumer'
    BY <1>1, <1>4, <2>2 DEF OnceInv, WithConsumer
  <2> QED
    BY <2>3, <2>4, <2>5 DEF OnceInv
<1> QED
  BY <1>3, <1>4 DEF Return, HasTaken, TypeInv

\* One consumer, or consumers that drain: a pop never takes what is not there.
NeverGarbage == SafeUse \/ \A m \in Modes : m[1]
FoundInv == TypeInv /\ NoUnderflow /\ (draining \/ WokenFinds)

LEMMA FoundStep == ASSUME NeverGarbage, FoundInv, [Next]_vars PROVE FoundInv'
<1>0. draining' = draining
  BY ModeKept DEF FoundInv, TypeInv
<1>1. CASE draining
  <2>1. TypeInv'
    BY TypeStep DEF FoundInv
  <2>2. ASSUME NEW c \in Consumers, Take(c) PROVE NoUnderflow'
    <3>1. queue # <<>> => Head(queue) \in Items
      BY HeadTailProperties DEF FoundInv, TypeInv, TypeOK
    <3> QED
      BY <1>1, <2>2, <3>1, WaitQueueAssumption DEF Take, FoundInv, TypeInv, TypeOK, NoUnderflow
  <2>3. NoUnderflow'
    BY <2>2, WaitQueueAssumption
       DEF Next, Consume, Push, Pop, Resume, Return, WakeSpuriously, Stop, vars, FoundInv, TypeInv,
           TypeOK, NoUnderflow
  <2> QED
    BY <1>0, <1>1, <2>1, <2>3 DEF FoundInv
<1>2. CASE ~draining
  <2>1. SafeUse
    BY <1>2, WaitQueueAssumption DEF NeverGarbage, FoundInv, TypeInv, TypeOK, mode
  <2> QED
    BY <1>2, <2>1, FrontStep DEF FoundInv, FrontInv
<1> QED
  BY <1>1, <1>2

LEMMA OnceStep ==
    ASSUME FoundInv, FoundInv', OnceInv, [Next]_vars
    PROVE  OnceInv'
<1> USE DEF FoundInv
<1>1. ASSUME NEW p \in Producers, Push(p) PROVE OnceInv'
  BY <1>1, OncePush
<1>2. ASSUME NEW c \in Consumers, Take(c), pc[c] \in {"idle", "woken"} PROVE OnceInv'
  BY <1>2, OnceTake
<1>3. ASSUME NEW c \in Consumers, Return(c) PROVE OnceInv'
  BY <1>3, OnceReturn
<1>4. CASE UNCHANGED <<queue, value, received, pushed>>
  BY <1>4 DEF OnceInv, InDeque, WithConsumer, HandedOver, Pushed
<1>5. ASSUME NEW c \in Consumers, Pop(c) \/ Resume(c), ~Take(c)
      PROVE  UNCHANGED <<queue, value, received, pushed>>
  BY <1>5 DEF Pop, Resume
<1> QED
  BY <1>1, <1>2, <1>3, <1>4, <1>5
     DEF Next, Consume, Pop, Resume, WakeSpuriously, Stop, vars

\* However many consumers drain the queue, and with one that does not, no value that
\* was pushed is returned by pop twice.
THEOREM HandedOverOnce == ASSUME NeverGarbage PROVE Spec => []EachOnce
<1>1. Init => FoundInv /\ OnceInv
  BY FrontInit DEF Init, FrontInv, FoundInv, OnceInv, InDeque, WithConsumer, HandedOver
<1>2. FoundInv /\ [Next]_vars => FoundInv'
  BY FoundStep
<1>3. FoundInv /\ FoundInv' /\ OnceInv /\ [Next]_vars => OnceInv'
  BY OnceStep
<1>4. OnceInv => EachOnce
  BY DEF OnceInv, HandedOver, EachOnce
<1> QED
  BY <1>1, <1>2, <1>3, <1>4, PTL DEF Spec
=============================================================================
