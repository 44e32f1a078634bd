------------------------------- MODULE Slicing -------------------------------
(***************************************************************************)
(* How ThreadQueues (Processor/ThreadQueues.cpp) cuts a loop over items    *)
(* base..n_items-1 into slices for the available threads: the arithmetic   *)
(* of get_n_per_thread, get_n_threads and distribute_no_setup.             *)
(***************************************************************************)
EXTENDS Integers

\* int(ceil(n_items / (available + 1.0)) / granularity) * granularity
NPerThread(nItems, avail, granularity) ==
    (((nItems + avail) \div (avail + 1)) \div granularity) * granularity

\* min(available.size(), (n_items - base) / per_thread), where the division is
\* unsigned: a base beyond n_items counts as an enormous number of items.
NThreads(nItems, base, avail, granularity) ==
    LET per == NPerThread(nItems, avail, granularity)
    IN IF nItems = 0 THEN avail
       ELSE IF per = 0 THEN 0
       ELSE IF base > nItems \/ (nItems - base) \div per > avail THEN avail
       ELSE (nItems - base) \div per

\* How many of the available threads distribute_no_setup gives a slice: none, if
\* one slice is empty or goes beyond the end, or as many as fit.
Fits(i, nItems, base, per) == base + i * per <= nItems
Used(nItems, base, avail, granularity) ==
    LET per == NPerThread(nItems, avail, granularity)
    IN IF nItems # 0 /\ (per = 0 \/ base + per > nItems) THEN 0
       ELSE CHOOSE u \in 0..avail :
               /\ \A i \in 1..u : Fits(i, nItems, base, per)
               /\ u = avail \/ ~Fits(u + 1, nItems, base, per)

Begin(i, nItems, base, avail, granularity) ==
    base + (i - 1) * NPerThread(nItems, avail, granularity)
End(i, nItems, base, avail, granularity) ==
    base + i * NPerThread(nItems, avail, granularity)

\* What distribute_no_setup returns: where the caller's own slice begins.
Start(nItems, base, avail, granularity) ==
    base + Used(nItems, base, avail, granularity) * NPerThread(nItems, avail, granularity)

\* The assertions of lines 143, 152, 154 and 163 say that the two ways of
\* counting the threads agree.
CountsAgree(nItems, base, avail, granularity) ==
    Used(nItems, base, avail, granularity) = NThreads(nItems, base, avail, granularity)

\* Mutant of SyncParties: the caller always counts.
SyncPartiesWithCaller(nItems, avail) == NThreads(nItems, 0, avail, 1) + 1

\* The parties to the barrier of distribute_with_sync: the threads with a slice,
\* and the caller if something is left for it.
SyncParties(nItems, avail) ==
    LET threads == NThreads(nItems, 0, avail, 1)
    IN threads + (IF NPerThread(nItems, avail, 1) * threads # nItems THEN 1 ELSE 0)
=============================================================================
