------------------------------ MODULE WaitQueue ------------------------------
(***************************************************************************)
(* The queue every thread of the virtual machine talks through             *)
(* (Tools/WaitQueue.h): a deque under a mutex with one condition variable. *)
(* A step is one critical section, or one access outside of it: `pop' is   *)
(* the section up to pthread_cond_wait, the section after it, and the read *)
(* of `running' after the mutex has been released.  Consumers loop         *)
(* "while (queue.pop(x))", or pop_dont_stop if `draining'.                 *)
(***************************************************************************)
EXTENDS Naturals, Sequences

CONSTANTS Producers,   \* the threads that push
          Consumers,   \* the threads that pop
          MaxPushes,   \* bound: values one producer pushes
          Modes,       \* the values of <<draining, spurious>> there can be
          NoItem,      \* what a pop that found nothing holds
          Garbage      \* what front() of an empty deque yields: undefined

Items == Producers \X (1..MaxPushes)

ASSUME WaitQueueAssumption ==
    /\ MaxPushes \in Nat
    /\ Modes \subseteq BOOLEAN \X BOOLEAN
    /\ NoItem \notin Items
    /\ Garbage \notin Items
    /\ NoItem # Garbage

VARIABLES draining,  \* consumers call pop_dont_stop instead of pop
          spurious,  \* pthread_cond_wait may return without a signal
          queue,     \* the deque
          running,   \* the flag stop() clears
          pc,        \* where each consumer is
          value,     \* what each consumer's pop has taken
          pushed,    \* how many values each producer has pushed
          received   \* the values pop returned with true, in order (history)

mode == <<draining, spurious>>
vars == <<draining, spurious, queue, running, pc, value, pushed, received>>

TypeOK ==
    /\ mode \in Modes
    /\ queue \in Seq(Items)
    /\ running \in BOOLEAN
    /\ pc \in [Consumers -> {"idle", "waiting", "woken", "unlocked", "left"}]
    /\ value \in [Consumers -> Items \union {NoItem, Garbage}]
    /\ pushed \in [Producers -> 0..MaxPushes]
    /\ received \in Seq(Items \union {Garbage})

Init ==
    /\ \E m \in Modes : draining = m[1] /\ spurious = m[2]
    /\ queue = <<>>
    /\ running = TRUE
    /\ pc = [c \in Consumers |-> "idle"]
    /\ value = [c \in Consumers |-> NoItem]
    /\ pushed = [p \in Producers |-> 0]
    /\ received = <<>>

\* pthread_cond_signal: one waiting thread, if there is any, becomes runnable.
Signal ==
    LET waiting == {c \in Consumers : pc[c] = "waiting"}
    IN IF waiting = {} THEN UNCHANGED pc
       ELSE \E c \in waiting : pc' = [pc EXCEPT ![c] = "woken"]

\* Mutant of Push: the value put at the front.
PushFront(p) ==
    /\ pushed[p] < MaxPushes
    /\ pushed' = [pushed EXCEPT ![p] = @ + 1]
    /\ queue' = <<<<p, pushed[p] + 1>>>> \o queue
    /\ Signal
    /\ UNCHANGED <<running, value, received>>

Push(p) ==
    /\ pushed[p] < MaxPushes
    /\ pushed' = [pushed EXCEPT ![p] = @ + 1]
    /\ queue' = Append(queue, <<p, pushed[p] + 1>>)
    /\ Signal
    /\ UNCHANGED <<running, value, received>>

\* Mutants of Take: pop_front forgotten; pop_dont_stop ends when stopped, as pop does.
TakeWithoutRemoving(c) ==
    /\ pc' = [pc EXCEPT ![c] = "unlocked"]
    /\ value' = [value EXCEPT ![c] = IF (draining \/ running) /\ queue # <<>>
                                     THEN Head(queue) ELSE NoItem]
    /\ UNCHANGED <<queue, running, pushed, received>>

TakeWhileRunning(c) ==
    /\ pc' = [pc EXCEPT ![c] = "unlocked"]
    /\ IF running /\ queue # <<>>
       THEN value' = [value EXCEPT ![c] = Head(queue)] /\ queue' = Tail(queue)
       ELSE value' = [value EXCEPT ![c] = NoItem] /\ UNCHANGED queue
    /\ UNCHANGED <<running, pushed, received>>

\* The rest of the critical section of pop, from where the mutex is held for good.
Take(c) ==
    /\ pc' = [pc EXCEPT ![c] = "unlocked"]
    /\ IF IF draining THEN queue # <<>> ELSE running
       THEN IF queue # <<>>
            THEN value' = [value EXCEPT ![c] = Head(queue)] /\ queue' = Tail(queue)
            ELSE value' = [value EXCEPT ![c] = Garbage] /\ UNCHANGED queue
       ELSE value' = [value EXCEPT ![c] = NoItem] /\ UNCHANGED queue
    /\ UNCHANGED <<running, pushed, received>>

\* Mutant of Pop: no wait on an empty deque.
PopAtOnce(c) == pc[c] = "idle" /\ Take(c)

\* `if', not `while': a thread that comes back from the wait does not look again.
Pop(c) ==
    /\ pc[c] = "idle"
    /\ IF running /\ queue = <<>>
       THEN /\ pc' = [pc EXCEPT ![c] = "waiting"]
            /\ UNCHANGED <<queue, running, value, pushed, received>>
       ELSE Take(c)

Resume(c) == pc[c] = "woken" /\ Take(c)

WakeSpuriously(c) ==
    /\ spurious
    /\ pc[c] = "waiting"
    /\ pc' = [pc EXCEPT ![c] = "woken"]
    /\ UNCHANGED <<queue, running, value, pushed, received>>

\* Mutant of Return: pop is taken to have succeeded always.
ReturnAlways(c) ==
    /\ pc[c] = "unlocked"
    /\ received' = Append(received, value[c])
    /\ pc' = [pc EXCEPT ![c] = "idle"]
    /\ value' = [value EXCEPT ![c] = NoItem]
    /\ UNCHANGED <<queue, running, pushed>>

\* pop returns `running' as it is now, after unlock; pop_dont_stop returns what
\* it found out under the lock.  A consumer leaves its loop on false.
Return(c) ==
    /\ pc[c] = "unlocked"
    /\ LET result == IF draining THEN value[c] # NoItem ELSE running
       IN IF result
          THEN /\ received' = Append(received, value[c])
               /\ pc' = [pc EXCEPT ![c] = "idle"]
          ELSE pc' = [pc EXCEPT ![c] = "left"] /\ UNCHANGED received
    /\ value' = [value EXCEPT ![c] = NoItem]
    /\ UNCHANGED <<queue, running, pushed>>

\* Mutant of Stop: the signal forgotten.
StopSilently ==
    /\ running
    /\ running' = FALSE
    /\ UNCHANGED <<pc, queue, value, pushed, received>>

Stop ==
    /\ running
    /\ running' = FALSE
    /\ Signal
    /\ UNCHANGED <<queue, value, pushed, received>>

Consume(c) == Pop(c) \/ Resume(c) \/ Return(c)

Finished == \A c \in Consumers : pc[c] = "left"

Next ==
    \/ /\ \/ \E p \in Producers : Push(p)
          \/ \E c \in Consumers : Consume(c) \/ WakeSpuriously(c)
          \/ Stop
       /\ UNCHANGED mode
    \/ Finished /\ UNCHANGED vars

\* A runnable thread runs; nobody has to push, and stop need not be called.
Fairness == \A c \in Consumers : WF_vars(Consume(c) /\ UNCHANGED mode)

Spec == Init /\ [][Next]_vars /\ Fairness
-----------------------------------------------------------------------------
\* No pop takes the front of an empty deque: with the `if' of lines 69-70 this
\* rests on there being one consumer and on pthread_cond_wait never returning
\* without a signal.
NoUnderflow == \A c \in Consumers : value[c] # Garbage

\* No value is handed over twice, whoever pops.
EachOnce ==
    \A i, j \in 1..Len(received) : received[i] = received[j] => i = j

\* A consumer that drains and has taken a wakeup without a value for the end.
GaveUp(c) == running /\ (pc[c] = "left" \/ (pc[c] = "unlocked" /\ value[c] = NoItem))

\* A value pushed is handed over unless somebody stops the queue, and by consumers
\* that drain also if somebody does.  Only if such consumers have all left before the
\* stop, because of wakeups without a signal, is nobody there to take it.
Delivered ==
    \A p \in Producers, k \in 1..MaxPushes :
        running /\ pushed[p] >= k ~>
            \/ \E i \in 1..Len(received) : received[i] = <<p, k>>
            \/ ~running /\ ~draining
            \/ spurious /\ \A c \in Consumers : GaveUp(c)

\* After stop() the consumer leaves its loop, however it was waiting.
StopEnds == ~running ~> Finished

\* One consumer at work makes the queue a first-in first-out channel.
OneReader == \E c \in Consumers : Consumers = {c}
Reader == CHOOSE c \in Consumers : TRUE
InHand == IF value[Reader] = NoItem THEN <<>> ELSE <<value[Reader]>>
Abstract == INSTANCE BlockingFIFO
              WITH Values <- Items, pending <- InHand \o queue, closed <- ~running, delivered <- received
ImplementsFIFO == Abstract!Spec
=============================================================================
