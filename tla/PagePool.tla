------------------------------ MODULE PagePool ------------------------------
(***************************************************************************)
(* The page pool of one browser context: pool.go, the two background       *)
(* goroutines of health.go, and the way Session.DoShare (session.go) uses  *)
(* the pool.                                                               *)
(*                                                                         *)
(* An actor is a goroutine: a Client is a caller of DoShare, a Replacer is *)
(* one `go s.pool.replacePage(pp)', HealthChecker and Reaper are the two   *)
(* goroutines that Start launches.  A critical section of p.mu is one      *)
(* step; every atomic load or store outside p.mu is a step of its own when *)
(* another actor can tell the difference.                                  *)
(*                                                                         *)
(* Abstractions: the slice p.pages is a set, and the scheduler may return  *)
(* any available page (Scheduler.tla has the round-robin rule); a timer    *)
(* other than the age of a page may fire at any moment; ages saturate at   *)
(* AgeCap, beyond which no comparison of the code tells them apart.        *)
(* useCount and lastUsed are left out: no step of the pool reads them.     *)
(***************************************************************************)
EXTENDS Naturals, FiniteSets, FiniteSetsExt

CONSTANTS
    Page,                \* the pages that may ever be created: bounds creation
    Client,              \* concurrent callers of DoShare
    Replacer,            \* concurrently live `go replacePage' goroutines
    HealthChecker,       \* the goroutine of startHealthChecker
    Reaper,              \* the goroutine of startReaper
    NoPage,              \* the nil *poolPage
    MinPages, MaxPages,  \* PoolConfig, with durations in clock ticks
    TTL, GracePeriod, HealthCheckInterval,
    MaxMissed, MaxLost,  \* where the two history counters saturate
    MaxAbandoned         \* operations that may end without a Release: a bound

ASSUME ActorAssumption ==
    /\ IsFiniteSet(Page) /\ IsFiniteSet(Client) /\ IsFiniteSet(Replacer)
    /\ Client # {}
    /\ NoPage \notin Page
    /\ Client \cap Replacer = {}
    /\ {HealthChecker, Reaper} \cap (Client \cup Replacer) = {}
    /\ HealthChecker # Reaper

\* PoolConfig.Validate: CreateSession refuses any other configuration.
ASSUME ConfigAssumption ==
    /\ {MinPages, MaxPages, TTL, GracePeriod, HealthCheckInterval} \subseteq Nat
    /\ MaxPages >= 1
    /\ MinPages <= MaxPages
    /\ TTL > 0 => GracePeriod < TTL

ASSUME BoundAssumption == {MaxMissed, MaxLost, MaxAbandoned} \subseteq Nat

VARIABLES
    phase,      \* life of the pool: Start, then Close
    pages,      \* p.pages
    state,      \* poolPage.state
    raw,        \* the playwright page behind each poolPage
    age,        \* time since poolPage.createdAt
    activeOps,  \* poolPage.activeOps
    pc,         \* where each goroutine is
    held,       \* the *poolPage each goroutine works on
    todo,       \* rest of the snapshot a background run iterates over
    seen,       \* page ages at the `now' that runReap took
    aged,       \* pages too old to be given out at the `now' of each caller
    missed,     \* history: replacePage calls whose target had already left
    lost,       \* history: background page creations that failed
    abandoned   \* history: operations on each page that were never released

vars == <<phase, pages, state, raw, age, activeOps, pc, held, todo, seen,
          missed, lost, abandoned, aged>>

\* A goroutine exists only when its interval is set: startHealthChecker and
\* startReaper return early otherwise.
Background == {b \in {HealthChecker, Reaper} :
                 \/ b = HealthChecker /\ HealthCheckInterval > 0
                 \/ b = Reaper /\ TTL > 0}
Actor == Client \cup Replacer \cup Background

AgeCap == TTL + GracePeriod
Older(n) == IF n < AgeCap THEN n + 1 ELSE AgeCap

\* The window before its TTL in which a page takes no new callers.
InGrace(p) == TTL > 0 /\ GracePeriod > 0 /\ age[p] > TTL - GracePeriod

UpTo(n, cap) == IF n < cap THEN n + 1 ELSE cap

At(a, label) == pc[a] = label
Goto(a, label) == pc' = [pc EXCEPT ![a] = label]
Hold(a, p) == held' = [held EXCEPT ![a] = p]

-----------------------------------------------------------------------------
Init ==
    /\ phase = "warming"
    /\ pages = {}
    /\ state = [p \in Page |-> "idle"]
    /\ raw = [p \in Page |-> "none"]
    /\ age = [p \in Page |-> 0]
    /\ activeOps = [p \in Page |-> 0]
    /\ pc = [a \in Actor |-> IF a \in Client THEN "ready" ELSE "off"]
    /\ held = [a \in Actor |-> NoPage]
    /\ todo = [b \in Background |-> {}]
    /\ seen = [p \in Page |-> 0]
    /\ aged = [c \in Client |-> {}]
    /\ missed = 0
    /\ lost = 0
    /\ abandoned = [p \in Page |-> 0]

-----------------------------------------------------------------------------
(* Start.  Nobody else has the pool yet, so one addPage is one step.       *)

WarmUp(p) ==
    /\ phase = "warming"
    /\ Cardinality(pages) < MinPages
    /\ raw[p] = "none"
    /\ raw' = [raw EXCEPT ![p] = "open"]
    /\ pages' = pages \cup {p}
    /\ UNCHANGED <<phase, state, age, activeOps, pc, held, todo, seen,
                   missed, lost, abandoned, aged>>

\* createPage or Init failed: Start returns the error and the caller drops
\* the pool; the goroutines were never launched.
WarmUpFails ==
    /\ phase = "warming"
    /\ Cardinality(pages) < MinPages
    /\ phase' = "failed"
    /\ UNCHANGED <<pages, state, raw, age, activeOps, pc, held, todo, seen,
                   missed, lost, abandoned, aged>>

Started ==
    /\ phase = "warming"
    /\ Cardinality(pages) >= MinPages
    /\ phase' = "open"
    /\ pc' = [a \in Actor |-> IF a \in Background THEN "wait" ELSE pc[a]]
    /\ aged' = [c \in Client |-> {p \in Page : InGrace(p)}]
    /\ UNCHANGED <<pages, state, raw, age, activeOps, held, todo, seen,
                   missed, lost, abandoned>>

-----------------------------------------------------------------------------
(* Acquire, the operation, and Release.  A caller that read s.pool before  *)
(* a Close still reaches the pool after it, hence no guard on "open".      *)

Usable == phase \in {"open", "cancelled", "closed"}

\* What time.Now tells a caller about the pages.
LooksAtClock(c) == aged' = [aged EXCEPT ![c] = {p \in Page : InGrace(p)}]
ForgetsClock(c) == aged' = [aged EXCEPT ![c] = {}]

\* tryAcquire takes its `now' before it has the read lock.  A caller that
\* starts, or starts to wait, has a `now' of that moment; as long as it has
\* not got the lock, its `now' can be any later one.
TakeNow(c) ==
    /\ Usable
    /\ pc[c] \in {"ready", "waiting"}
    /\ LooksAtClock(c)
    /\ UNCHANGED <<phase, pages, state, raw, age, activeOps, pc, held, todo,
                   seen, missed, lost, abandoned>>

\* Mutants of Available: the state is not looked at; the age is not.
Available_AnyState(c, p) == p \in pages /\ p \notin aged[c]
Available_NoGrace(c, p) == p \in pages /\ state[p] = "idle"

\* isAvailable: the state is of this moment, the age is that at the `now' of
\* the caller.
Available(c, p) ==
    /\ p \in pages
    /\ state[p] = "idle"
    /\ p \notin aged[c]

\* tryAcquire under the read lock; the retry of the waiting loop is the same.
\* The step stands at the instant the state of the selected page is loaded:
\* the slice is stable under the lock and no page becomes available again.
Select(c, p) ==
    /\ Usable
    /\ pc[c] \in {"ready", "waiting"}
    /\ Available(c, p)
    /\ Hold(c, p) /\ Goto(c, "selected") /\ ForgetsClock(c)
    /\ UNCHANGED <<phase, pages, state, raw, age, activeOps, todo, seen,
                   missed, lost, abandoned>>

\* tryAcquire after the read lock is released: only now is the page counted.
Bump(c) ==
    /\ At(c, "selected")
    /\ activeOps' = [activeOps EXCEPT ![held[c]] = @ + 1]
    /\ Goto(c, "operating")
    /\ UNCHANGED <<phase, pages, state, raw, age, held, todo, seen,
                   missed, lost, abandoned, aged>>

\* Nothing available: grow if tryAcquire's totalPages is below MaxPages.
NoneAvailable(c, label) ==
    /\ Usable
    /\ At(c, "ready")
    /\ \A p \in Page : ~Available(c, p)
    /\ Goto(c, label)
    /\ UNCHANGED <<phase, pages, state, raw, age, activeOps, held, todo, seen,
                   missed, lost, abandoned>>

GrowOnDemand(c) ==
    Cardinality(pages) < MaxPages /\ NoneAvailable(c, "create") /\ ForgetsClock(c)
AwaitPage(c) ==
    Cardinality(pages) >= MaxPages /\ NoneAvailable(c, "waiting") /\ LooksAtClock(c)

\* ctx.Done or the deadline of the waiting loop.
GiveUp(c) ==
    /\ At(c, "waiting")
    /\ Goto(c, "ready") /\ LooksAtClock(c)
    /\ UNCHANGED <<phase, pages, state, raw, age, activeOps, held, todo, seen,
                   missed, lost, abandoned>>

ReleaseOf(c) ==
    /\ At(c, "operating")
    /\ activeOps' = [activeOps EXCEPT ![held[c]] = @ - 1]
    /\ LooksAtClock(c)

\* The operation succeeded, or failed with a business error.
Release(c) ==
    /\ ReleaseOf(c)
    /\ Goto(c, "ready") /\ Hold(c, NoPage)
    /\ UNCHANGED <<phase, pages, state, raw, age, todo, seen,
                   missed, lost, abandoned>>

\* It failed with a connection error or on a closed page: DoShare starts a
\* goroutine that replaces the page, and does not wait for it.
ReleaseAndReplace(c, r) ==
    /\ ReleaseOf(c)
    /\ At(r, "off")
    /\ pc' = [pc EXCEPT ![c] = "ready", ![r] = "replace"]
    /\ held' = [held EXCEPT ![c] = NoPage, ![r] = held[c]]
    /\ UNCHANGED <<phase, pages, state, raw, age, todo, seen,
                   missed, lost, abandoned>>

\* The operation panicked, with a recover above DoShare, or ended its
\* goroutine: DoShare calls Release without a defer, so the page stays counted.
Abandon(c) ==
    /\ At(c, "operating")
    /\ MapThenSumSet(LAMBDA p : abandoned[p], Page) < MaxAbandoned
    /\ abandoned' = [abandoned EXCEPT ![held[c]] = @ + 1]
    /\ Goto(c, "ready") /\ Hold(c, NoPage) /\ LooksAtClock(c)
    /\ UNCHANGED <<phase, pages, state, raw, age, activeOps, todo, seen,
                   missed, lost>>

-----------------------------------------------------------------------------
(* createAndInitPage followed by the append under p.mu, for every actor.   *)
(* The new page is known to its creator only until it is appended.         *)

AfterCreate(a) == CASE a \in Client     -> "ready"
                    [] a \in Replacer   -> "off"
                    [] a \in Background -> "next"

CreatePage(a, p) ==
    /\ At(a, "create")
    /\ raw[p] = "none"
    /\ raw' = [raw EXCEPT ![p] = "open"]
    /\ Goto(a, "append") /\ Hold(a, p)
    /\ UNCHANGED <<phase, pages, state, age, activeOps, todo, seen,
                   missed, lost, abandoned, aged>>

\* createPage failed, or Init failed and the raw page was closed again.
CreateFails(a) ==
    /\ At(a, "create")
    /\ Goto(a, AfterCreate(a))
    /\ lost' = IF a \in Client THEN lost ELSE UpTo(lost, MaxLost)
    /\ IF a \in Client THEN LooksAtClock(a) ELSE UNCHANGED aged
    /\ UNCHANGED <<phase, pages, state, raw, age, activeOps, held, todo, seen,
                   missed, abandoned>>

\* Mutant of AppendAndUse: the first operation on a new page is not counted.
AppendAndUse_Uncounted(c) ==
    /\ At(c, "append")
    /\ pages' = pages \cup {held[c]}
    /\ Goto(c, "operating")
    /\ UNCHANGED <<phase, state, raw, age, activeOps, held, todo, seen,
                   missed, lost, abandoned, aged>>

\* Acquire counts its operation before the page becomes visible.
AppendAndUse(c) ==
    /\ At(c, "append")
    /\ pages' = pages \cup {held[c]}
    /\ activeOps' = [activeOps EXCEPT ![held[c]] = @ + 1]
    /\ Goto(c, "operating")
    /\ UNCHANGED <<phase, state, raw, age, held, todo, seen,
                   missed, lost, abandoned, aged>>

AppendPage(a) ==
    /\ a \notin Client
    /\ At(a, "append")
    /\ pages' = pages \cup {held[a]}
    /\ Goto(a, AfterCreate(a)) /\ Hold(a, NoPage)
    /\ UNCHANGED <<phase, state, raw, age, activeOps, todo, seen,
                   missed, lost, abandoned, aged>>

-----------------------------------------------------------------------------
(* removePageLocked: leaves the slice, is marked closed, and a goroutine   *)
(* of its own closes the playwright page some time later.                  *)

\* Mutants: the playwright page is not closed; the slice keeps the page.
RemovePageLocked_NoClose(p) ==
    /\ pages' = pages \ {p}
    /\ state' = [state EXCEPT ![p] = "closed"]
    /\ UNCHANGED raw
RemovePageLocked_StaysInSlice(p) ==
    /\ state' = [state EXCEPT ![p] = "closed"]
    /\ raw' = [raw EXCEPT ![p] = IF @ = "open" THEN "closing" ELSE @]
    /\ UNCHANGED pages

RemovePageLocked(p) ==
    /\ pages' = pages \ {p}
    /\ state' = [state EXCEPT ![p] = "closed"]
    /\ raw' = [raw EXCEPT ![p] = IF @ = "open" THEN "closing" ELSE @]

\* The goroutine that removePageLocked launches.
CloseRaw(p) ==
    /\ raw[p] = "closing"
    /\ raw' = [raw EXCEPT ![p] = "closed"]
    /\ UNCHANGED <<phase, pages, state, age, activeOps, pc, held, todo, seen,
                   missed, lost, abandoned, aged>>

\* Mutant of ReplacePage: like runReap, it makes a page only if the pool is below
\* MinPages, but looks before it removes the old one.
ReplacePage_IfNeeded(a) ==
    /\ pc[a] \in {"replace", "drained", "overdue"}
    /\ RemovePageLocked(held[a])
    /\ Goto(a, IF Cardinality(pages) < MinPages THEN "create" ELSE AfterCreate(a))
    /\ Hold(a, NoPage)
    /\ UNCHANGED <<phase, age, activeOps, todo, seen, missed, lost, abandoned, aged>>

\* replacePage, called by the health checker and by DoShare's goroutine.  It
\* goes on to create a page whether or not the target was still there.
ReplacePage(a) ==
    /\ pc[a] \in {"replace", "drained", "overdue"}
    /\ RemovePageLocked(held[a])
    /\ missed' = IF held[a] \in pages THEN missed ELSE UpTo(missed, MaxMissed)
    /\ Goto(a, "create") /\ Hold(a, NoPage)
    /\ UNCHANGED <<phase, age, activeOps, todo, seen, lost, abandoned, aged>>

-----------------------------------------------------------------------------
(* The background goroutines: one run is a snapshot and a loop over it.    *)

\* runReap, too, takes its `now' before it has the read lock.
ReaperTakesNow ==
    /\ At(Reaper, "wait")
    /\ seen' = age
    /\ Goto(Reaper, "awake")
    /\ UNCHANGED <<phase, pages, state, raw, age, activeOps, held, todo,
                   missed, lost, abandoned, aged>>

TakeSnapshot(b) ==
    /\ At(b, IF b = Reaper THEN "awake" ELSE "wait")
    /\ todo' = [todo EXCEPT ![b] = pages]
    /\ Goto(b, "next")
    /\ UNCHANGED <<phase, pages, state, raw, age, activeOps, held, seen,
                   missed, lost, abandoned, aged>>

RunEnds(b) ==
    /\ At(b, "next")
    /\ todo[b] = {}
    /\ Goto(b, "wait")
    /\ seen' = IF b = Reaper THEN [p \in Page |-> 0] ELSE seen
    /\ UNCHANGED <<phase, pages, state, raw, age, activeOps, held, todo,
                   missed, lost, abandoned, aged>>

\* p.ctx is done: the goroutine leaves its loop and wg.Done runs.
Exit(b) ==
    /\ phase = "cancelled"
    /\ At(b, "wait")
    /\ Goto(b, "off")
    /\ UNCHANGED <<phase, pages, state, raw, age, activeOps, held, todo, seen,
                   missed, lost, abandoned, aged>>

Skip(b, p) ==
    /\ At(b, "next")
    /\ todo' = [todo EXCEPT ![b] = @ \ {p}]
    /\ UNCHANGED <<phase, pages, state, raw, age, activeOps, pc, held, seen,
                   missed, lost, abandoned, aged>>

Choose(b, p, label) ==
    /\ At(b, "next")
    /\ todo' = [todo EXCEPT ![b] = @ \ {p}]
    /\ Goto(b, label) /\ Hold(b, p)
    /\ UNCHANGED <<phase, pages, state, raw, age, activeOps, seen,
                   missed, lost, abandoned, aged>>

\* Mutant of FindsHealthy: Check is trusted with a closed page.
FindsHealthy_TrustsCheck(p) ==
    p \in todo[HealthChecker] /\ Skip(HealthChecker, p)

\* runHealthCheck: a page that is not idle, or that passes Check, is skipped.
\* Check is the caller's code: it may answer anything about an open page, so
\* a page that dies between the load of its state and the check is covered.
FindsHealthy(p) ==
    /\ p \in todo[HealthChecker]
    /\ state[p] = "idle" => raw[p] # "closed"
    /\ Skip(HealthChecker, p)

FindsUnhealthy(p) ==
    /\ p \in todo[HealthChecker]
    /\ state[p] = "idle"
    /\ Choose(HealthChecker, p, "mark")

\* setState(pageClosing) is a plain store: it does not look at the state
\* that was read before the check, which may have changed since.
MarkClosing(b, label, p) ==
    /\ At(b, "mark")
    /\ state' = [state EXCEPT ![held[b]] = "closing"]
    /\ Goto(b, label) /\ Hold(b, p)
    /\ UNCHANGED <<phase, pages, raw, age, activeOps, todo, seen,
                   missed, lost, abandoned, aged>>

HealthMarks == MarkClosing(HealthChecker, "drain", held[HealthChecker])

DrainEnds(label) ==
    /\ At(HealthChecker, "drain")
    /\ Goto(HealthChecker, label)
    /\ UNCHANGED <<phase, pages, state, raw, age, activeOps, held, todo, seen,
                   missed, lost, abandoned, aged>>

\* waitAndReplace leaves its loop: no operation is counted, or GracePeriod
\* is over.
\* Mutant of DrainTimesOut: waitAndReplace has no deadline.
DrainTimesOut_Never == FALSE

Drained == DrainEnds("drained") /\ activeOps[held[HealthChecker]] = 0
DrainTimesOut == DrainEnds("overdue") /\ activeOps[held[HealthChecker]] > 0

-----------------------------------------------------------------------------
(* runReap.                                                                *)

EntersGrace(p) == state[p] = "idle" /\ seen[p] > TTL - GracePeriod

\* Mutant of Expired: the threshold of the grace period is used.
Expired_InGrace(p) == state[p] = "closing" /\ seen[p] > TTL - GracePeriod

Expired(p) == state[p] = "closing" /\ seen[p] > TTL

ReaperSkips(p) ==
    /\ p \in todo[Reaper]
    /\ ~EntersGrace(p) /\ ~Expired(p)
    /\ Skip(Reaper, p)

ReaperPicksGrace(p) ==
    p \in todo[Reaper] /\ EntersGrace(p) /\ Choose(Reaper, p, "mark")

ReaperPicksExpired(p) ==
    p \in todo[Reaper] /\ Expired(p) /\ Choose(Reaper, p, "expired")

\* activeOps is loaded after the state: a page in use is left for a later
\* run until the grace period after its TTL is over as well.
ReaperDecides(label) ==
    /\ At(Reaper, "expired")
    /\ Goto(Reaper, label)
    /\ UNCHANGED <<phase, pages, state, raw, age, activeOps, todo, seen,
                   missed, lost, abandoned, aged>>

\* Mutant of MustWait: no force-close.
MustWait_ForOps(p) == activeOps[p] > 0

MustWait(p) == activeOps[p] > 0 /\ seen[p] < TTL + GracePeriod

ReaperSpares ==
    ReaperDecides("next") /\ MustWait(held[Reaper]) /\ Hold(Reaper, NoPage)
ReaperCondemns ==
    ReaperDecides("reap") /\ ~MustWait(held[Reaper]) /\ UNCHANGED held

ReaperMarks == MarkClosing(Reaper, "next", NoPage)

\* Mutant of Reap: needMore is computed before the removal.
Reap_CountsTarget ==
    /\ At(Reaper, "reap")
    /\ RemovePageLocked(held[Reaper])
    /\ Goto(Reaper, IF Cardinality(pages) < MinPages THEN "create" ELSE "next")
    /\ Hold(Reaper, NoPage)
    /\ UNCHANGED <<phase, age, activeOps, todo, seen,
                   missed, lost, abandoned, aged>>

\* Removal and needMore are computed in one critical section.
Reap ==
    /\ At(Reaper, "reap")
    /\ RemovePageLocked(held[Reaper])
    /\ Goto(Reaper, IF Cardinality(pages') < MinPages THEN "create" ELSE "next")
    /\ Hold(Reaper, NoPage)
    /\ UNCHANGED <<phase, age, activeOps, todo, seen,
                   missed, lost, abandoned, aged>>

-----------------------------------------------------------------------------
(* Close, called by Session.Close after Drain and by rebuildContext.       *)

Cancel ==
    /\ phase = "open"
    /\ phase' = "cancelled"
    /\ UNCHANGED <<pages, state, raw, age, activeOps, pc, held, todo, seen,
                   missed, lost, abandoned, aged>>

\* wg.Wait has returned; the rest runs under the write lock.
CloseAll ==
    /\ phase = "cancelled"
    /\ \A b \in Background : At(b, "off")
    /\ phase' = "closed"
    /\ pages' = {}
    /\ state' = [p \in Page |-> IF p \in pages THEN "closed" ELSE state[p]]
    /\ raw' = [p \in Page |-> IF p \in pages THEN "closed" ELSE raw[p]]
    /\ UNCHANGED <<age, activeOps, pc, held, todo, seen,
                   missed, lost, abandoned, aged>>

-----------------------------------------------------------------------------
(* The environment: a page crashes or is closed by an operation, and time  *)
(* passes.  The age of a page that has left the pool is never read again,  *)
(* so it is not kept either.                                               *)

PageDies(p) ==
    /\ raw[p] = "open"
    /\ raw' = [raw EXCEPT ![p] = "closed"]
    /\ UNCHANGED <<phase, pages, state, age, activeOps, pc, held, todo, seen,
                   missed, lost, abandoned, aged>>

Ageing(p) == p \in pages \/ \E a \in Actor : At(a, "append") /\ held[a] = p

Tick ==
    /\ TTL > 0
    /\ \E p \in Page : Ageing(p) /\ age[p] < AgeCap
    /\ age' = [p \in Page |-> IF Ageing(p) THEN Older(age[p]) ELSE 0]
    /\ UNCHANGED <<phase, pages, state, raw, activeOps, pc, held, todo, seen,
                   missed, lost, abandoned, aged>>

\* The pool is finished and its callers have left: not a deadlock.
AtRest ==
    /\ phase \in {"failed", "closed"}
    /\ \A a \in Actor : pc[a] \in {"ready", "off"}
    /\ UNCHANGED vars

-----------------------------------------------------------------------------
ClientNext ==
    \E c \in Client :
        \/ TakeNow(c)
        \/ \E p \in Page : Select(c, p)
        \/ Bump(c)
        \/ GrowOnDemand(c)
        \/ AwaitPage(c)
        \/ GiveUp(c)
        \/ Release(c)
        \/ \E r \in Replacer : ReleaseAndReplace(c, r)
        \/ Abandon(c)
        \/ AppendAndUse(c)

CreatorNext ==
    \E a \in Actor :
        \/ \E p \in Page : CreatePage(a, p)
        \/ CreateFails(a)
        \/ AppendPage(a)
        \/ ReplacePage(a)

BackgroundNext ==
    \E b \in Background : TakeSnapshot(b) \/ RunEnds(b) \/ Exit(b)

HealthNext ==
    /\ HealthChecker \in Background
    /\ \/ \E p \in Page : FindsHealthy(p) \/ FindsUnhealthy(p)
       \/ HealthMarks
       \/ Drained
       \/ DrainTimesOut

ReaperNext ==
    /\ Reaper \in Background
    /\ \/ ReaperTakesNow
       \/ \E p \in Page : ReaperSkips(p) \/ ReaperPicksGrace(p)
                                         \/ ReaperPicksExpired(p)
       \/ ReaperSpares
       \/ ReaperCondemns
       \/ ReaperMarks
       \/ Reap

PoolNext ==
    \/ \E p \in Page : WarmUp(p)
    \/ WarmUpFails
    \/ Started
    \/ Cancel
    \/ CloseAll

EnvNext == (\E p \in Page : CloseRaw(p) \/ PageDies(p)) \/ Tick

Next == \/ ClientNext \/ CreatorNext \/ BackgroundNext \/ HealthNext
        \/ ReaperNext \/ PoolNext \/ EnvNext \/ AtRest

Spec == Init /\ [][Next]_vars

\* Every goroutine is scheduled and every call to the browser returns, with a
\* page or with an error (InitTimeout); sleeps end and tickers fire.  When
\* p.ctx is done and a tick is pending, select picks at random, so the exit is
\* taken sooner or later.  An operation of a caller may hang for ever.
Fairness ==
    /\ \A a \in Actor :
         /\ WF_vars((\E p \in Page : CreatePage(a, p)) \/ CreateFails(a))
         /\ WF_vars(AppendPage(a))
         /\ WF_vars(ReplacePage(a))
    /\ \A b \in Background :
         WF_vars(TakeSnapshot(b)) /\ WF_vars(RunEnds(b)) /\ SF_vars(Exit(b))
    /\ WF_vars(HealthNext)
    /\ WF_vars(ReaperNext)
    /\ WF_vars(CloseAll)
    /\ WF_vars(Tick)

FairSpec == Spec /\ Fairness

-----------------------------------------------------------------------------
(* Invariants.                                                             *)

\* Every variable keeps its type; activeOps, an int64 in the code, is never
\* negative.
TypeOK ==
    /\ phase \in {"warming", "failed", "open", "cancelled", "closed"}
    /\ pages \subseteq Page
    /\ state \in [Page -> {"idle", "closing", "closed"}]
    /\ raw \in [Page -> {"none", "open", "closing", "closed"}]
    /\ age \in [Page -> Nat]
    /\ activeOps \in [Page -> Nat]
    /\ pc \in [Actor -> {"ready", "selected", "operating", "waiting",
                         "create", "append", "off", "wait", "awake", "next",
                         "mark", "drain", "drained", "overdue", "replace",
                         "expired", "reap"}]
    /\ held \in [Actor -> Page \cup {NoPage}]
    /\ todo \in [Background -> SUBSET Page]
    /\ seen \in [Page -> Nat]
    /\ aged \in [Client -> SUBSET Page]
    /\ missed \in Nat /\ lost \in Nat
    /\ abandoned \in [Page -> Nat]

Operating(p) == {c \in Client : At(c, "operating") /\ held[c] = p}

\* The counter that drain and reap decisions read is the number of operations
\* running on the page, for pages that have been removed or replaced as well,
\* and nothing but an operation that DoShare never got back from adds to it:
\* each of those is counted for ever.
ActiveOpsExact ==
    \A p \in Page : activeOps[p] = Cardinality(Operating(p)) + abandoned[p]

Private(p) == \E a \in Actor : At(a, "append") /\ held[a] = p

\* No playwright page leaks: one that is open is in the pool, or its creator
\* is about to put it there (createAndInitPage, removePageLocked, Close).
NoOrphanPage == \A p \in Page : raw[p] = "open" => p \in pages \/ Private(p)

Creators == {a \in Actor : pc[a] \in {"create", "append"}}

\* How far MaxPages can be exceeded.  Acquire compares the size before it
\* creates and appends without a second look, and replacePage creates without
\* any look; still k goroutines put at most k - 1 pages above the maximum,
\* and one more for each replacePage whose page was no longer there.
CapacityAccounting ==
    missed < MaxMissed =>
        Cardinality(pages) + Cardinality(Creators)
            <= MaxPages - 1 + Cardinality(Actor) + missed

\* Once warmed up, the pool is never short of MinPages by more than the
\* replacements that are under way and those whose creation failed.
FloorAccounting ==
    phase \in {"open", "cancelled"} /\ lost < MaxLost =>
        Cardinality(pages) + Cardinality(Creators \ Client) + lost >= MinPages

\* A page is reaped only after its TTL, and never without having been closed
\* to new callers first, although the reaper works on an old snapshot.
ReapedIsExpired ==
    Reaper \in Background /\ At(Reaper, "reap") =>
        LET p == held[Reaper] IN p \in pages => age[p] > TTL /\ state[p] = "closing"

-----------------------------------------------------------------------------
(* Action properties and the abstract specification.                       *)

HasPage(c, p) == pc[c] \in {"selected", "operating"} /\ held[c] = p
Users(p) == {c \in Client : HasPage(c, p)}

\* The callers that have the page, or may get it yet: those whose `now' is from
\* before its grace period, and the one that has created it and appends it.
Reaches(p) ==
    Users(p) \cup {c \in Client : \/ At(c, "append") /\ held[c] = p
                                  \/ pc[c] \in {"ready", "waiting"} /\ p \notin aged[c]}

\* PoolConfig.GracePeriod: once a page is in the window before its TTL, the
\* circle of its callers is closed, even before the reaper has seen it.  Only
\* those already in Acquire with an older `now' can still be given it.
GraceTakesNoCaller ==
    [][\A p \in Page : InGrace(p) => Reaches(p)' \subseteq Reaches(p)]_vars

StatusOf(p) == IF p \in pages
               THEN IF state[p] = "idle" THEN "offered" ELSE "withdrawn"
               ELSE IF raw[p] = "none" \/ Private(p) THEN "unborn" ELSE "retired"

Lifecycle == INSTANCE PageLifecycle WITH
    status <- [p \in Page |-> StatusOf(p)],
    users <- [p \in Page |-> Users(p)]

\* The pool implements the life of a page that PageLifecycle promises.
LifecycleSpec == Lifecycle!Spec

-----------------------------------------------------------------------------
(* Liveness, under FairSpec.                                               *)

\* Close returns: a hanging operation, a page that cannot be created or a run
\* in progress delays it but cannot hold wg.Wait for ever.
CloseTerminates == phase = "cancelled" ~> phase = "closed"

\* While the health checker runs, a dead page does not stay in the pool.
DeadPageLeaves ==
    HealthChecker \in Background =>
        \A p \in Page : (phase = "open" /\ p \in pages /\ raw[p] = "closed")
                            ~> p \notin pages

\* A page does not outlive its TTL for ever, even if an operation hangs on it.
ExpiredPageLeaves ==
    Reaper \in Background =>
        \A p \in Page : (phase = "open" /\ p \in pages /\ age[p] > TTL)
                            ~> p \notin pages

-----------------------------------------------------------------------------
(* What the comments of the code say and the code does not do.             *)

\* config.go: "MaxPages is the maximum number of pages allowed."
WithinMaxPages == Cardinality(pages) <= MaxPages

\* pool.go: "Close shuts down background goroutines and closes all pages."
CloseEmptiesPool == phase = "closed" => pages = {}

\* health.go: "waitAndReplace waits for active ops to drain (up to
\* GracePeriod), then replaces the page."
DrainedMeansUnused ==
    HealthChecker \in Background /\ At(HealthChecker, "drained") =>
        Operating(held[HealthChecker]) = {}

\* pool.go: "The caller MUST call Release when done."  DoShare does not, when
\* the operation panics.
ReleasedWhenDone == \A p \in Page : activeOps[p] = Cardinality(Operating(p))

\* config.go: "GracePeriod is the window before TTL expiry during which a page
\* stops accepting new operations."
GraceTakesNobody ==
    [][\A p \in pages : InGrace(p) => Users(p)' \subseteq Users(p)]_vars
=============================================================================
