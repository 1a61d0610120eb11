----------------------------- MODULE PoolDrain ------------------------------
(***************************************************************************)
(* The counters of a pool's pages and who reads them (pool.go): ActiveOps, *)
(* Drain, Stats.  Session.Close takes the pool out of the session and then *)
(* drains it, while calls that had got hold of the pool before go on and   *)
(* failed operations have their pages replaced.  The sum of ActiveOps is   *)
(* not atomic: it loads one page's counter after the other, under the read *)
(* lock, which keeps the slice as it is but not the counters.              *)
(***************************************************************************)
EXTENDS Naturals, FiniteSets, FiniteSetsExt

CONSTANTS
    Page,       \* the pages ever made: a bound
    Caller,     \* goroutines that call DoShare
    NoPage,     \* nil
    MinPages,   \* in the pool at the start
    MaxPages,
    MaxUse      \* operations, in all: a bound

ASSUME PoolDrainAssumption ==
    /\ IsFiniteSet(Page) /\ IsFiniteSet(Caller)
    /\ NoPage \notin Page
    /\ MinPages \in Nat /\ MaxPages \in Nat /\ MaxUse \in Nat

VARIABLES
    pages,      \* the slice
    made,       \* every page made so far
    activeOps,  \* per page
    useCount,   \* per page
    acquired,   \* history: how often Acquire has returned a page
    pc,         \* where each caller is
    held,       \* its page
    drain,      \* where Session.Close is
    unread,     \* what ActiveOps has still to add
    sum,        \* and what it has added up
    watched     \* history: whose operations ran in the pool when Drain began

counters == <<activeOps, useCount, acquired>>
slice == <<pages, made>>
draining == <<drain, unread, sum>>
vars == <<slice, counters, pc, held, draining, watched>>

At(c, label) == pc[c] = label
Goto(c, label) == pc' = [pc EXCEPT ![c] = label]

\* ActiveOps holds the read lock: the slice cannot change.
Unlocked == drain # "summing"

Init ==
    /\ pages \in {P \in SUBSET Page : Cardinality(P) = MinPages}
    /\ made = pages
    /\ activeOps = [p \in Page |-> 0] /\ useCount = [p \in Page |-> 0]
    /\ acquired = 0
    /\ pc = [c \in Caller |-> "out"]
    /\ held = [c \in Caller |-> NoPage]
    /\ drain = "open" /\ unread = {} /\ sum = 0
    /\ watched = {}

-----------------------------------------------------------------------------
(* DoShare.                                                                *)

\* A call that has read s.pool, which Close sets to nil before it drains.
Come(c) ==
    /\ At(c, "out") /\ drain = "open" /\ acquired < MaxUse
    /\ Goto(c, "acquire")
    /\ UNCHANGED <<slice, counters, held, draining, watched>>

Select(c, p) ==
    /\ At(c, "acquire") /\ p \in pages
    /\ held' = [held EXCEPT ![c] = p]
    /\ Goto(c, "selected")
    /\ UNCHANGED <<slice, counters, draining, watched>>

Bump(c) ==
    /\ At(c, "selected")
    /\ activeOps' = [activeOps EXCEPT ![held[c]] = @ + 1]
    /\ useCount' = [useCount EXCEPT ![held[c]] = @ + 1]
    /\ acquired' = acquired + 1
    /\ Goto(c, "operate")
    /\ UNCHANGED <<slice, held, draining, watched>>

\* No page is available; useCount is left alone.
Grow(c, p) ==
    /\ At(c, "acquire") /\ Cardinality(pages) < MaxPages
    /\ p \notin made
    /\ made' = made \cup {p}
    /\ activeOps' = [activeOps EXCEPT ![p] = @ + 1]
    /\ held' = [held EXCEPT ![c] = p]
    /\ Goto(c, "append")
    /\ UNCHANGED <<pages, useCount, acquired, draining, watched>>

AppendPage(c) ==
    /\ At(c, "append") /\ Unlocked
    /\ pages' = pages \cup {held[c]}
    /\ acquired' = acquired + 1
    /\ Goto(c, "operate")
    /\ UNCHANGED <<made, activeOps, useCount, held, draining, watched>>

Release(c) ==
    /\ At(c, "operate")
    /\ activeOps' = [activeOps EXCEPT ![held[c]] = @ - 1]
    /\ held' = [held EXCEPT ![c] = NoPage]
    /\ Goto(c, "out")
    /\ watched' = watched \ {c}
    /\ UNCHANGED <<slice, useCount, acquired, draining>>

\* The operation panicked: DoShare's Release has no defer, and is never called.
Abandon(c) ==
    /\ At(c, "operate")
    /\ held' = [held EXCEPT ![c] = NoPage]
    /\ Goto(c, "out")
    /\ watched' = watched \ {c}
    /\ UNCHANGED <<slice, counters, draining>>

\* removePageLocked, for a page that fails or expires under operations.
RemovePage(p) ==
    /\ p \in pages /\ Unlocked
    /\ pages' = pages \ {p}
    /\ watched' = {c \in watched : held[c] # p}
    /\ UNCHANGED <<made, counters, pc, held, draining>>

-----------------------------------------------------------------------------
(* Session.Close: Drain, then Close of the pool.                           *)

Counted(c) == pc[c] = "operate" /\ held[c] \in pages

BeginDrain ==
    /\ drain = "open"
    /\ drain' = "summing" /\ unread' = pages /\ sum' = 0
    /\ watched' = {c \in Caller : Counted(c)}
    /\ UNCHANGED <<slice, counters, pc, held>>

ReadCounter(p) ==
    /\ drain = "summing" /\ p \in unread
    /\ sum' = sum + activeOps[p]
    /\ unread' = unread \ {p}
    /\ UNCHANGED <<slice, counters, pc, held, drain, watched>>

\* Mutants of Judge: one page without operations is enough; the deadline is
\* not looked at.
Judge_FirstZero ==
    /\ drain = "summing"
    /\ unread = {} \/ (unread # pages /\ sum = 0)
    /\ drain' = (IF sum = 0 THEN "drained" ELSE "asleep")
    /\ UNCHANGED <<slice, counters, pc, held, unread, sum, watched>>
Judge_Forever ==
    /\ drain = "summing" /\ unread = {}
    /\ drain' = (IF sum = 0 THEN "drained" ELSE "summing")
    /\ unread' = (IF sum = 0 THEN {} ELSE pages) /\ sum' = 0
    /\ UNCHANGED <<slice, counters, pc, held, watched>>

Judge ==
    /\ drain = "summing" /\ unread = {}
    /\ drain' = (IF sum = 0 THEN "drained" ELSE "asleep")
    /\ UNCHANGED <<slice, counters, pc, held, unread, sum, watched>>

\* The 50 ms are over: before the deadline, another look.
LookAgain ==
    /\ drain = "asleep"
    /\ drain' = "summing" /\ unread' = pages /\ sum' = 0
    /\ UNCHANGED <<slice, counters, pc, held, watched>>

Expire ==
    /\ drain = "asleep"
    /\ drain' = "expired"
    /\ UNCHANGED <<slice, counters, pc, held, unread, sum, watched>>

ClosePool ==
    /\ drain \in {"drained", "expired"}
    /\ drain' = "closed"
    /\ pages' = {}
    /\ UNCHANGED <<made, counters, pc, held, unread, sum, watched>>

-----------------------------------------------------------------------------
\* Stats, read in one piece.
TotalUse == MapThenSumSet(LAMBDA p : useCount[p], pages)

CallerStep(c) ==
    \/ Come(c) \/ Bump(c) \/ AppendPage(c) \/ Release(c) \/ Abandon(c)
    \/ \E p \in Page : Select(c, p) \/ Grow(c, p)

DrainStep ==
    \/ (\E p \in Page : ReadCounter(p))
    \/ Judge \/ LookAgain \/ Expire \/ ClosePool

\* Pages and operations are used up, or the pool is closed.
AtRest == drain = "closed" /\ UNCHANGED vars

Next ==
    \/ \E c \in Caller : CallerStep(c)
    \/ \E p \in Page : RemovePage(p)
    \/ BeginDrain \/ DrainStep \/ AtRest

Spec == Init /\ [][Next]_vars

\* The goroutine of Close is scheduled, and the clock reaches the deadline:
\* it cannot be asleep again and again and never find it past.
FairSpec == Spec /\ WF_vars(DrainStep) /\ SF_vars(Expire)

-----------------------------------------------------------------------------
(* Properties.                                                             *)

\* A Drain that has not run into its deadline has waited for every operation
\* that ran in the pool when it began, unless its page was replaced: although
\* counters go up and down while it adds them, it does not overlook one.
DrainWaits == drain = "drained" => watched = {}

\* Close is not held up for longer than GracePeriod by operations that hang, nor
\* by counts that an operation which panicked has left behind.
DrainEnds == drain = "summing" ~> drain = "closed"

-----------------------------------------------------------------------------
(* What the comments of the code say and the code does not do.             *)

\* pool.go: "Drain waits for all active operations to complete, with a
\* timeout."
DrainedIsQuiet == drain = "drained" => \A c \in Caller : ~At(c, "operate")

\* pool.go: "TotalUse // cumulative use count across all pages".
TotalUseIsCumulative == drain = "open" /\ Unlocked => TotalUse = acquired
=============================================================================
