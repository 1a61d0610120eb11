----------------------------- MODULE Scheduler ------------------------------
(***************************************************************************)
(* The round-robin scheduler (scheduler.go) under selectAvailable          *)
(* (pool.go): every caller filters the slice for the pages that are        *)
(* available and then takes the next value of one shared counter modulo    *)
(* the length of what it has filtered.  Pages become available and         *)
(* unavailable, and are replaced, in between.                              *)
(***************************************************************************)
EXTENDS Naturals, Sequences, FiniteSets, SequencesExt

CONSTANTS
    Page,       \* a replacement takes the name of the page it replaces
    Caller,     \* goroutines in tryAcquire
    NoPage,     \* nil
    Modulus     \* of the counter: 2^64 in the code

\* What an instance has to assume.
SchedulerAssumption ==
    /\ IsFiniteSet(Page) /\ NoPage \notin Page
    /\ Modulus \in Nat \ {0}

VARIABLES
    slice,      \* p.pages
    idle,       \* the pages for which isAvailable holds
    counter,    \* RoundRobinScheduler.counter
    pages,      \* per caller: the argument of Select
    pc,
    picked,     \* the last page that Select returned
    turns       \* history: picks per page since the last disturbance

vars == <<slice, idle, counter, pages, pc, picked, turns>>

\* The pages of a slice that are available, in their order: the loop of
\* selectAvailable.
Filtered(pps) ==
    LET filtered[i \in 0 .. Len(pps)] ==
            IF i = 0 THEN <<>>
            ELSE IF pps[i] \in idle THEN Append(filtered[i - 1], pps[i])
            ELSE filtered[i - 1]
    IN  filtered[Len(pps)]

Undisturbed == UNCHANGED <<slice, idle, counter>>
Disturbed == turns' = [p \in Page |-> 0]

Init ==
    /\ slice \in SetToSeqs(Page)
    /\ idle \in SUBSET Page
    /\ counter = 0
    /\ pages = [c \in Caller |-> <<>>] /\ pc = [c \in Caller |-> "out"]
    /\ picked = NoPage
    /\ turns = [p \in Page |-> 0]

\* selectAvailable, both of its paths: the pages that are available, in the
\* order of the slice.
Filter(c) ==
    /\ pc[c] = "out"
    /\ pages' = [pages EXCEPT ![c] = Filtered(slice)]
    /\ pc' = [pc EXCEPT ![c] = "select"]
    /\ Undisturbed /\ UNCHANGED <<picked, turns>>

\* Select without a page leaves the counter alone.
SelectNone(c) ==
    /\ pc[c] = "select" /\ pages[c] = <<>>
    /\ picked' = NoPage
    /\ pc' = [pc EXCEPT ![c] = "out"]
    /\ Undisturbed /\ UNCHANGED <<pages, turns>>

\* The caller picks from what is available still, and the counter does not
\* wrap around.
Regular(c) ==
    /\ pages[c] = Filtered(slice)
    /\ counter + 1 < Modulus

\* Mutants of Choice: the counter's low end only; the last page is left out.
Choice_First(s) == Head(s)
Choice_NotLast(s) == s[1 + (counter % (IF Len(s) > 1 THEN Len(s) - 1 ELSE 1))]

Choice(s) == s[1 + (counter % Len(s))]

Select(c) ==
    /\ pc[c] = "select" /\ pages[c] # <<>>
    /\ picked' = Choice(pages[c])
    /\ counter' = (counter + 1) % Modulus
    /\ \/ Regular(c) /\ turns' = [turns EXCEPT ![picked'] = @ + 1]
       \/ ~Regular(c) /\ Disturbed
    /\ pages' = [pages EXCEPT ![c] = <<>>]
    /\ pc' = [pc EXCEPT ![c] = "out"]
    /\ UNCHANGED <<slice, idle>>

\* A page expires, is marked by the health checker or the reaper, or is
\* spared.
Flip(p) ==
    /\ idle' = (IF p \in idle THEN idle \ {p} ELSE idle \cup {p})
    /\ Disturbed
    /\ UNCHANGED <<slice, counter, pages, pc, picked>>

\* The new page is appended.
Replace(p) ==
    /\ \E i \in 1 .. Len(slice) :
          slice[i] = p /\ slice' = Append(RemoveAt(slice, i), p)
    /\ idle' = idle \cup {p}
    /\ Disturbed
    /\ UNCHANGED <<counter, pages, pc, picked>>

\* RebuildAll.
Reset ==
    /\ counter' = 0
    /\ Disturbed
    /\ UNCHANGED <<slice, idle, pages, pc, picked>>

Next ==
    \/ \E c \in Caller : Filter(c) \/ SelectNone(c) \/ Select(c)
    \/ \E p \in Page : Flip(p) \/ Replace(p)
    \/ Reset

Spec == Init /\ [][Next]_vars

\* Callers are scheduled; pages need not change at all.
FairSpec ==
    Spec /\ \A c \in Caller : WF_vars(Filter(c) \/ SelectNone(c) \/ Select(c))

-----------------------------------------------------------------------------
(* Properties.                                                             *)

\* Whatever the callers interleave, between two disturbances (a change of the
\* pages, a pick from an outdated list, the counter's overflow) no page gets
\* two operations more than another one that is available as well.
Even == \A p, q \in idle : turns[p] <= turns[q] + 1

\* Once the pages no longer change, each that is available is picked again
\* and again, across the overflows of the counter.
EveryPageServed ==
    \A p \in Page :
        <>[](p \in idle) /\ <>[][Undisturbed \/ \E c \in Caller : Select(c)]_vars
            => []<>(picked = p)

-----------------------------------------------------------------------------
(* What the comments of the code say and the code does not do.             *)

\* scheduler.go: "RoundRobinScheduler distributes requests evenly across
\* pages."  A page that is available all the time gets its turns also while
\* others come and go.
NoPageStarves ==
    \A p \in Page : <>[](p \in idle) => []<>(p \notin idle \/ picked = p)
=============================================================================
