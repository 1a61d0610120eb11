# A verification development of browserpm

browserpm keeps browser pages for many goroutines: a manager owns one browser,
a session owns one browser context and the pool of pages on it, and callers run
their operations on a page of their own (`Do`) or on a shared one (`DoShare`).
What is hard about it is concurrency under failure: pages die, contexts die,
pages expire, and callers, background goroutines and `Close` work on the same
few variables, often through copies taken under a lock that is no longer held.

This directory has TLA+ models of the library's components, the TLC runs that
check them on small instances, and TLAPS proofs of what matters most for every
instance.

    tlc -workers 2 -config pool_health.cfg MCPagePool.tla      # a run
    tlapm SessionProofs.tla                                    # the proofs of a module

`PROJECT.json` lists the runs, the lines every definition stands for, the
hazards, the findings, and for each property a mutant of the model that breaks
it.

## 1. Inventory

| Component | State | Operations | Correct when |
|---|---|---|---|
| page pool, `pool.go` | slice of pages under `p.mu`; per page an atomic state, count of running operations, last use, use count | `Start`, `Acquire`, `Release`, `replacePage`, `Close`, `Drain`, `RebuildAll`, `Stats`, `HealthCheck` | no page is lost without being closed, operations are counted exactly (for ever, when they panic), size stays near MinPages..MaxPages, a withdrawn page gets no new caller, a drain overlooks no operation |
| health checker and reaper, `health.go` | two goroutines on two tickers; each run works on a snapshot of the slice | `runHealthCheck`, `waitAndReplace`, `runReap` | dead and expired pages leave, young ones stay, they end when the pool closes |
| session, `session.go` | `bCtx`, `pool`, `state` under `s.mu`; `rebuilding`, an atomic flag | `Do`, `DoShare`, `Close`, internally `ensureContext`, `rebuildContext`, `buildContextLocked`; queries | context and pool exist together or not at all, none leaks, one rebuild at a time, calls come back, its locks are taken in no circle |
| scheduler, `scheduler.go` | one atomic counter | `Select`, `Reset` | every available page gets its turn |
| manager, `manager.go` | `sync.Map` of sessions, `closed`, a Once, the browser and driver processes | `New`, `CreateSession`, `GetSession`, `CloseSession`, `Do`, `Close` | an open session can be found, sessions are closed before the browser, a failed `New` leaves no process |
| global singleton, `global.go` | manager, error, options, Once, mutex | `Global` and the G functions, `Shutdown`, `SetGlobalOptions` | one manager, always within `Shutdown`'s reach, made with every option set before |
| configuration, `config.go` | a value, copied per session | defaults, options, `Validate` | what is accepted makes a pool that can serve |
| installer, `installer.go` | a Once, a result | `Install`, `IsInstalled`, `EnsureInstalled` | one answer for all callers, which every one of them waits for |
| errors, `errors.go` | chains of codes | `WrapError`, `Is`; `IsConnectionError` in `session.go` | the cause stays visible, a lost connection is recognised |
| logger, `logger.go` | the adapter's level, the zap core | `With`, `SetLevel`, output | a session logs what its manager logs |
| process monitor, `process.go`, `utils.go` | a list being filled while processes come and go | `GetProcessInfos`, `getProcessMemory` | every process of the browser's answer is listed |
| test helpers, `test_scenarios/helpers` | `TestManager` and its cleanups | `NewTestManager`, `CreateSession`, `AddCleanup`, `Close` | cleanups run in reverse order, before what they were added after is gone |
| providers and public types, stealth, version | none | | |
| test simulators, scenarios, examples | of the tests | | |

How they interact. `Session.DoShare` asks the pool for a page, runs the
operation, releases the page, and on a connection error either rebuilds the
whole context or starts `go s.pool.replacePage(pp)` and tries again, three
attempts in all. `Session.Close` and `rebuildContext` close the pool, the one
after draining it, the other at once. The pool calls back into user code
(`Init`, `Check`) and into the browser; every such call may fail or take long.
`BrowserManager.Close` closes every session and then the browser and the driver
process. `Global` runs `New` inside a Once, `New` runs `Install` inside the
Once of an Installer, and `Shutdown` closes the manager under the mutex that
the body of the first Once takes as well.

The hard behaviours, each with its line in `PROJECT.json` under "hazards":
check-then-act across two critical sections (growing the pool, counting an
operation, marking a page, registering a session); work on stale snapshots and
copies; sums over counters that move; goroutines that nobody waits for
(`go replacePage`); `Close` against everything; retries and lost races that
combine; lock-free reads of a pointer that a rebuild sets to nil; a look at the
clock before a wait for the lock; an operation that panics and is not released; a read lock
taken twice; and error paths of a start that has several steps.

## 2. Modules

| Module | What it is |
|---|---|
| `PagePool` | the pool, both background goroutines, and the callers of `DoShare` as far as the pool sees them |
| `PageLifecycle` | the abstract life of a page, which `PagePool` implements |
| `PoolDrain` | the counters of the pages, `ActiveOps`, `Drain` and `Stats`, under a closing session |
| `Session` | a session and all its callers |
| `Locks` | `s.mu` and `p.mu` with the writer preference of `sync.RWMutex`, and every operation as its lock instructions |
| `Manager` | the registry of sessions and `Close` of the manager |
| `Launch` | `New` and the Installer, step by step |
| `Global` | the singleton |
| `Startup` | `Global` composed with `Launch`: what the body of the Once does |
| `RunsOnce` | what `sync.Once` promises; `Manager` (Close) and `Global` implement it |
| `Config` | defaults, options, validation, the sessions' copies |
| `Scheduler` | round robin over what is available |
| `Errors` | the way of an error from where it arises to the caller |
| `CallTime` | how long all the attempts of a call wait |
| `Logger`, `ProcessInfo`, `Harness` | loggers, the list of processes, the `TestManager` of the integration tests |
| `MCPagePool`, `MCLocks` | the symmetry of the instances |
| `MCParts` | one instance of the seven parts that share no state: `Config`, `Scheduler`, `Errors`, `CallTime`, `Logger`, `ProcessInfo`, `Harness` |
| `PagePoolProofs`, `PagePoolRefinement`, `DrainProofs`, `SessionProofs`, `LocksProofs`, `ManagerProofs`, `StartupProofs`, `PartsProofs` | the proofs |

`PagePool` and `Session` meet at two interfaces. `PagePool` lets a
caller come at any time, also during and after `Close`, since `Session` shows
that callers do; and it starts a replacement on any released page, which is
what a failed operation leads to in `Session`. `Session` lets `Acquire` and the
operation end in any way, since `PagePool` shows no more about them. `Manager`
sees of a session that it is open, draining or closed, since the locks and
retries inside are `Session`'s; `Global` sees of `New` that it succeeds or
fails, and `Startup` puts the steps of `Launch` in that place.

### PagePool

An actor is a goroutine with a program counter `pc` and the page it works on,
`held`. The slice is the set `pages`; `state` and `activeOps` are the atomics
of a page; `raw` is the playwright page behind it (`none` before creation,
`open`, `closing` once `removePageLocked` has launched the goroutine that
closes it, `closed`); `age` is the time since `createdAt`.

A section under `p.mu` is one step. What lies outside is a step of its own:
`tryAcquire` is `TakeNow` (the look at the clock before the wait for the lock),
`Select` (under the read lock) and `Bump` (the atomic add after it). `aged` is
what the clock has told a caller: the pages that at its `now` were too old to be
given out. It is set anew when a caller comes back to "ready" or begins to wait,
and `TakeNow` may set it at any moment in between; so when `Select` comes, the
caller's `now` is any moment since, however much time has passed. Growing is `GrowOnDemand` (the size that `tryAcquire` returned),
`CreatePage`, `AppendAndUse`; `replacePage` is `ReplacePage`, `CreatePage`,
`AppendPage`. A run of a background goroutine is `TakeSnapshot`, a visit to
each page of `todo`, and `RunEnds`; the reaper compares the ages of its own
`now` (`ReaperTakesNow`, `seen`), which it takes before the lock, too. The load of a state and the later `setState` are two
steps (`FindsUnhealthy` and `HealthMarks`, `ReaperPicksGrace` and
`ReaperMarks`), so every overwriting that the code allows happens. `Close` is
`Cancel`, the background goroutines' `Exit`, and `CloseAll` once `wg.Wait`
returns.

An operation ends in `Release`, in `ReleaseAndReplace`, or in `Abandon`: it
panics, somebody above recovers, and `Release`, which `DoShare` calls without a
`defer`, is never called. The page then stays counted. `abandoned` is the
history of that.

Left out: `useCount` and `lastUsed`, which no decision reads; the choice of the
scheduler (any available page); the length of a drain (it may time out at any
moment). `missed`, `lost` and `abandoned` are history variables that only
properties and bounds read.

### PageLifecycle

Each page is unborn, offered, withdrawn, then retired, and never goes back.
Only an offered page takes a caller, a caller has at most one page, and keeps
it even when the page is withdrawn or retired under it. The refinement maps a
page in the slice to offered when its state is idle and to withdrawn otherwise,
and a page out of the slice to unborn until its creator has appended it.

### Session

`writer` is the goroutine that holds `s.mu` for writing; a read-locked section
is one step that needs `writer` to be nobody, and the unlocked reads of
`s.pool` in `DoShare` need nothing (`TakePool`, `TakeNilPool`, `ReplacesPage`,
`ReplacesOnNil`; a pointer is read in one piece, so the race has no other
outcome). A context and its pool share a name. `ensureContext` is `FindsContext`
or `MissesContext`, then `FindsContextLate` or `LockToBuild`, then `Built`,
`Discards` or `NotBuilt`. `isContextDead` is `Probe`, which copies `s.bCtx` under the lock,
and `FindsDead` or `FindsAlive`, which asks the copy later. `rebuildContext` is
`SwapWins` or `SwapLoses`, then `LockToRebuild`, `ClosePool`, `CloseContext`,
`Built`, `Discards` or `NotBuilt`, and `Unflag`, which is deferred first and so runs after
the unlock. `Retry` and `Exhausted` are the end of the loop body. `Close` takes
both pointers in one step and closes what they point to in two more.

`NotBuilt` is a `NewContext` that fails; `Discards` is one that succeeds and
whose context is closed again because `Setup` or `Start` has failed, in one step,
for nobody else can see it. `Fresh` takes the contexts in a certain order: any
other order gives the same behaviours under other names. An operation that
panics leaves no lock and no flag of the session behind, and ends its call like
one that succeeds; what it leaves behind in the pool is in `PagePool`.

### PoolDrain

`Session.Close` sets `s.pool` to nil and then drains what it had, while calls
that read the pointer before go on. `ActiveOps` loads one counter after the
other under the read lock: `ReadCounter` is one load, in any order, and between
two loads callers count up (`Bump`, `Grow`) and down (`Release`), or never down
again (`Abandon`), which needs no lock; `AppendPage` and `RemovePage` need it. `Grow` does not ask whether a page
of the slice is available: each may be expired, closing or dead. `watched`
remembers who was operating when the drain began.

### Locks

An operation is the sequence of its lock instructions on its longest path, with
the operations it calls spliced in, as the code nests them. `Lock` is two steps,
`Announce`, from which on no new reader gets in, and `Locked`, when the readers
have left. `PoolClose` waits for the background goroutines, which take `p.mu`
themselves. `WaitsFor` is the graph in which `NoCircularWait` looks for a knot:
it is a stronger question than TLC's deadlock check, which needs everybody to
be stuck.

### Manager

`sessions` is the `sync.Map`; each of its methods is one step. `CreateSession`
is `Create` (the closed check and `newSession`) and `Register`
(`LoadOrStore`) or `FindsDuplicate`; `CloseSession` is `LoadAndDelete`, then the
session's own `Close` in two steps (`BeginClose`, `EndClose`), between which it
drains; `KeepsAndCloses` is a caller that got the session by name and closes it
without the manager. `Close` is a walk: `sync.Map.Range` visits each name at
most once (`Visit`), names that were there at the start and are still there are
visited, and what is stored meanwhile may be or not; every visit closes the
session it has read and then deletes the name (`Forget`). `Do` opens a context
of its own in the browser.

### Launch, Global, Startup

`Launch` has a step for each of the calls of `init` that may fail, `Install`
included, whose body is three such steps. Starters have an Installer each,
sharers share one; all install to the same path, `disk`. `EnsureInstalled` is a
sharer whose Installer nobody shares. `answers` is the history of what `Install`
of each Installer has returned; an Installer that has failed returns its
`installErr` to every later call.

In `Global` a section under `globalMu` is one step unless something in it takes
time: `Shutdown` holds the mutex from `BeginShutdown` to `EndShutdown`. The
Once is `globalOnce`: `BeginInit` starts its body, which reads the options
under the mutex, runs `New` without it and stores the pointer without it;
everybody else comes through `Await` and `GlobalReturns`. A call of
`SetGlobalOptions` that finds a manager does nothing and is no step.

`Startup` extends `Global` and instantiates `Launch` with the users as starters.
A user inside "new" takes the steps of `Launch`, and how they end decides
between `NewSucceeds` and `NewFails`; `CloseAll` is `CloseManager` with what it
does to browser and driver. The installers of others run beside it.

### The smaller parts

`Config` has the numbers of a Config, as integers (durations in seconds): an
option sets one field to any value, `NewConfig` validates, `Copy` is the struct
copy in `CreateSession`, `Override` a session option, `Create` and `Refuse` the
second validation. `Offered`, `WarmUp` and `CanGrow` are what the pool computes
from it; `createdAt` is taken before `Init`, so a page has an age when it arrives.

`Scheduler` splits a caller into `Filter` (the available pages, in the order of
the slice) and `Select` (the atomic add, and the choice); in between pages
change, other callers count, and the counter wraps around at `Modulus`. The
history `turns` counts picks since the last disturbance. `Filtered` is the loop
of `selectAvailable`; its fast path gives the same list.

`Errors` walks one call through the retry loop with an error in hand, a chain
of codes with the cause at its bottom: each function that wraps adds its code,
`IsConnectionError` looks through the chain as the code looks through the text.
`CallTime` counts ticks of `Acquire`'s ticker over the attempts of one call,
with the deadline of `Acquire` and the caller's context. `Logger` has the two
levels a message passes, the adapter's and zap's. `ProcessInfo` reads memory
process by process while ids change hands; an answer is any list of the
processes with junk in between. `Harness` is a test that creates, closes, adds
cleanups and stops anywhere, and the Close that is registered with `testing`.

`MCParts` starts one of its seven parts and parks the rest. The parts have no
common variable, so nothing that one does can be seen by another.

## 3. Runs

| Run | Asks |
|---|---|
| `pool_health` | orphans, size from above and below, and life cycle with two callers, a replacement goroutine and the health checker |
| `pool_live` | the same goroutines on fewer pages, one operation may be abandoned: counting; under fairness `Close` returns, a dead page leaves |
| `pool_reaper` | the reaper's and the callers' arithmetic of ages, by old looks at the clock, the floor of the pool; an expired page leaves, by force if need be |
| `session` | one consistent context, none leaked, one rebuild at a time; calls come back, the rebuild flag comes down |
| `manager` | sessions stay findable, go before the browser, and `Close` runs once and returns |
| `startup` | the singleton with every step of `New`: nothing gets out of reach, one manager is made, an Installer has one answer, `Global` comes back |
| `locks_order` | no circle of waiting among the operations of a session, `Stats` excepted |
| `drain` | a drain overlooks nothing and ends |
| `parts` | configuration, scheduler, errors, waiting time, loggers, process list, test harness |
| `session_closed`, `session_nil_pool`, `locks_stats` | findings, section 6 |

Bounds. `Page` and `Context` bound how many are ever created; three of them
give an original, its replacement, and the page or context that a second actor
makes in a race, and once they are used up every creation fails, which the code
must survive anyway. TTL = 3 and GracePeriod = 2 put TTL - GracePeriod, TTL and
TTL + GracePeriod at different ages, with an age on each side of every
comparison; ages saturate at their sum, beyond which none distinguishes.
`pool_live` has two pages and MaxPages 1: a page and what replaces it.
`MaxMissed` and `MaxLost` only saturate the two history counters: a property
that counts them claims nothing at the bound. `MaxAbandoned` says how many
operations may go unreleased: one in `pool_live` and `pool_reaper`, where a
count that stays up could hold up `Close` and the reaper, none in `pool_health`,
whose properties do not look at counts; `drain` has no bound for it but that of
all operations, `MaxUse`. Two callers are the smallest race
on a page. `session` has one caller of each kind and a Close, which makes every
pair of roles in the race for the lock and for the flag, and uses one retry
instead of two, which keeps a first and a last attempt; the two session
findings use two.

`manager` has two of everything that can race with its like: names, sessions,
creators, removers, closers. In `startup` one of two users runs the body, with
one option setter, one Shutdown, which may come again and again, and two
goroutines at a shared Installer. `locks_order` has three goroutines in any of
the operations and one in the background: a circle through two locks and the
wait for the background needs no more. `drain` has three callers, for the sum
must be wrong on two pages at once to be zero, and three pages for two places,
so that one is made and appended while others are removed. In `parts`, values for options
are -1, 0, 11 and 1800, which lie at and beyond the limits that `Validate`
draws around the defaults, two options at a time, for one session, since a
session's options reach no other; the counter of the scheduler
wraps at 4 with three pages, so that the overflow hits every position of a turn;
deadlines lie before, at and after those of one, two and three attempts.

Symmetry is used in `pool_health` and in the runs of `Locks`, which check no
liveness. What the bounds exclude: more than one replacement goroutine at a
time, callers together with a reaper and a replacement goroutine, three losers
of a rebuild, a fourth goroutine at the locks. The theorems of section 5 have no
such bounds.

The run of `parts` has no deadlock check: a call that has returned, a list
that is complete and a configuration that is refused are the end of their
behaviours. All other runs have it.

Properties worth a word:

- `CapacityAccounting`: MaxPages is not a bound (section 6), so what is? k
  goroutines exceed it by at most k - 1, plus one for every replacement whose
  page had already been removed by somebody else.
- `FloorAccounting`: from below, MinPages is missed by no more than the
  replacements under way and those that failed.
- `ReapedIsExpired`: although the reaper works on ages and pages of a snapshot,
  what it removes from the slice is past its TTL now and was withdrawn before.
- `ActiveOpsExact`: the count of a page is the number of operations running on
  it and of those that were abandoned; nothing else, no growth, replacement or
  removal under an operation, makes it wrong. An abandoned one counts for ever,
  so it matters that `Close` (`CloseTerminates`, `DrainEnds`) and the reaper
  (`ExpiredPageLeaves`) do without a zero.
- `GraceTakesNoCaller`: from the moment a page enters its grace window, the
  circle of those who have it or may get it only shrinks. In it are callers that
  looked at the clock before that moment and still wait for the lock, and the
  caller that made the page itself. That nobody is given it is false
  (section 6); this is what is left, and it needs the two places that compute
  the window to agree.
- `ConsistentWhenUnlocked`: no error path leaves a context without a pool, a
  closed pool in `s.pool`, or a context in a session that says it is degraded.
- `NoLeakedContext`: every context alive or crashed but not closed is in
  `s.bCtx`, or in the hands of a `Close`. It holds even in runs where a closed
  session is revived: the revived context belongs to the session again (that
  nobody closes it then is the finding).
- `OpenIsListed`, `SessionsBeforeBrowser`: what is true of the manager's map
  although creations, removals and the walk of `Close` overlap. The second says
  "registered when Close began" and excepts what another goroutine has in
  hand; without either restriction it is false (section 6).
- `NoProcessLost`: whatever a user's `New` has started belongs to a `New` under
  way, to the manager about to be stored, or to the one that `Shutdown` finds.
  It relates the error paths of `init` to the unlocked store of the pointer.
- `DrainWaits`: adding up counters that go up and down can give zero only if
  none of the operations that ran at the beginning is left, although the sum
  may never have been the number of operations at any one moment.
- `Even`, `EveryPageServed`: round robin is fair as long as what is available
  does not change, across interleaved callers and overflows; it is not when
  that changes (section 6).
- `OneAnswer`: what an Installer remembers, failure included, is what every call
  of it is told, at whatever time it comes; and it is told of success only if
  driver and browser are there.
- `PoolsCanServe`: `Validate` accepts nothing with which no page could ever be
  offered: some time is left for `Init`, if not `InitTimeout`. With TTL = 11,
  GracePeriod = 10 and an `Init` of two seconds every page arrives too old
  (section 6).

## 4. Fairness

`PagePool!Fairness`: creating a page ends, with a page or an error
(`InitTimeout` bounds it); the background goroutines are scheduled; a drain
ends because it has a deadline; time passes. `Exit` is strongly fair: when both
the context of the pool is done and a tick is pending, `select` chooses at
random, so the exit is taken after finitely many runs. Nothing is assumed about
callers: an operation may hang for ever.

`Session!Fairness`: every goroutine inside the session's own code goes on, and
`s.mu` starves nobody (`sync.RWMutex` keeps new readers out while a writer
waits and lets the waiting readers in when it is done), hence strong fairness.
Operations may hang, and `Close` may never be called.

`Manager!FairSpec`: a call of the manager's `Close` is scheduled, each drain in
it ends at its deadline, the browser answers. Creators, removers and operations
may stop anywhere.

`Startup!StartupFairSpec`: the steps of `Global` are strongly fair, for they
need `globalMu`, which Shutdowns may take again and again and which a
`sync.Mutex` hands to a goroutine that has waited for a millisecond. Downloads,
commands and the browser answer or fail (weak fairness of the steps of `New`),
and so does `Close` inside `Shutdown`. Nobody has to call anything.

`PoolDrain!FairSpec`: the goroutine of `Close` is scheduled, and the clock
reaches the deadline: strong fairness of `Expire`, for between two sleeps the
goroutine is awake. Callers may hang.

`MCParts!PartsSpec`: the callers of the scheduler are scheduled. That pages are
left alone from some time on is a premise of `EveryPageServed`, not an
assumption.

## 5. Proofs

All proofs are about the specifications that TLC checks. Every invariant and
every action property that a passing run checks is the statement of a theorem,
for all values of the constants; so are the refinements. The assumptions are
the named ones of the modules: `ActorAssumption` (finitely many distinct
goroutines, at least one caller), `ConfigAssumption` (what
`PoolConfig.Validate` accepts) and `BoundAssumption` for the pool;
`SessionAssumption` (the kinds of goroutines are disjoint, nil is no context)
for the session, `ManagerAssumption`, `GlobalAssumption`, `StartupAssumption`
and `LocksAssumption` (likewise), where sets may be infinite;
`PoolDrainAssumption` (finitely many pages and callers); the
`ConfigAssumption` of `Config`, that options are given integers; and
`PartsAssumption`, the assumptions of the other parts: numbers are numbers, nil
is no page, logger or error, and the slice of the scheduler is finite.

The pool.

- `TypeAndCount` (`PagePoolProofs`): `TypeInv` is inductive. Beside the types
  it says which labels each kind of goroutine can be at (`Roles`), that whoever
  works on a page holds one (`HoldsPage`), and that `activeOps` is the number
  of callers operating on the page and of operations that were abandoned on it
  (`ActiveOpsExact`). The count needs finite
  sets of callers: a step adds or removes one element of one of them.
- `NoOrphans` (`PagePoolProofs`): `LifeInv` says who can know a page at each
  stage of its life: a page that was never created is known to nobody
  (`Unborn`), one that is about to be appended to its creator only
  (`KnownToCreator`). That is what makes a stale `setState` harmless: it comes
  from a goroutine that knows the page, so it can hit neither.
- `ReapsOnlyExpired`, `GraceHolds` (`PagePoolProofs`): `AgeInv` says that the
  ages of the reaper's snapshot are never above the real ones, and that a page
  which the reaper has found expired is closed to new callers until the reaper
  looks at it again, whatever the health checker and the callers do with it in
  between. `GraceHolds` needs of a step that a caller's `now` never goes back
  (`AgeHolds`, `NewLooker`) and that a page which is just being made is too young
  to be in its grace period (`NewMaker`): so nobody enters the circle.
- `BoundedOvershoot`, `BoundedShortage` (`PagePoolProofs`): `SizeInv` is
  `CapacityAccounting` itself, which counts goroutines at "create" or "append"
  together with pages, and the fact that nobody uses the pool while it warms
  up. Growing needs room when it starts, and a replacement first makes the room
  it fills unless its page had left, which `missed` counts. From below, the
  same count without the callers: who removes a page becomes its maker in the
  same step, and stays it until the page is there or `lost` counts it.
- `PoolImplementsLifecycle` (`PagePoolRefinement`): each action is shown to be
  one action of `PageLifecycle` or a stutter, from `LifeInv`.
- `NoneOverlooked` (`DrainProofs`): `DrainInv` says that `activeOps` counts all
  users of each page (and the abandoned operations on it), that those the drain waits for still operate on
  pages of the slice, and (`Waiting`) that each of them is on a page not yet
  read or the sum is positive already. The last is the whole argument: a counter
  that is read while its user operates is not zero, and the slice cannot lose
  the page while the read lock is held.

The session.

- `SessionConsistent`, `NothingLeaks`, `OneRebuilder`, `SessionTypes` (`SessionProofs`):
  `SessionInv` is inductive. `LockInv` says that the locked sections exclude
  each other, `HolderInv` what their holder finds at every step, `TakenInv`
  that a context in the hands of a `Close` is never the session's again: without
  it the close of an old pool might be the close of the current one. Of the
  31 actions of a caller, 22 are shown to be "quiet" (they only move their
  caller on), and one proof covers them.
- `LocksAreOrdered` (`LocksProofs`): no circle of waiting, for any number of
  goroutines, any of them in any of the operations `OrderedCalls`. These are all
  operations but `Stats`, for which it is false (section 6), and `DoThatAsks`.
  `Goes` says what a goroutine may do while it holds which locks: who has p
  takes nothing and waits for nothing, and nobody takes a lock that he has.
  `Ordered` says that a sequence of instructions keeps to that. It is shown of
  the sequences once and for all: of one instruction, of one sequence after the
  other, of a body between two instructions; then of every operation as the
  code nests it, from what it calls. The invariant `LocksInv` says that what
  each goroutine has still to do is `Ordered` from the locks it has. In a
  circle nobody then waits at p, for its holder would wait under p; so nobody
  waits for the background, which waits at p only; so nobody waits at s, for its
  holder would have to wait at one of the other two.

The manager and the singleton.

- `OpenSessionsListed`, `SessionsFirst`, `CloseIsOnce` (`ManagerProofs`):
  `ManagerInv` has the types and roles, that a creator about to register has a
  session of its own (`New`), that a drain is somebody's (`Drains`), one walk at
  a time (`OneWalk`), and `Doomed`: what was registered when `Close` began is
  closed, in somebody's hands, or at a name still to be reached. `LoadOrStore`
  is what keeps a name from being given away under its session. `CloseIsOnce`
  maps each step to one of `RunsOnce` or a stutter.
- `ManagerHeld`, `OptionsCount`, `InitIsOnce` (`StartupProofs`): `GlobalInv` says
  that one goroutine is in the body of the Once and only while it runs, that
  there is no manager and no pointer before it gets there (`NotYet`), and that
  one Shutdown has the mutex and, with it, the pointer (`OneStopper`): without
  the last, a second Shutdown could forget a manager that the first has not
  closed.
- `StartupIsGlobal` (`StartupProofs`): every step of the composition with
  `Launch` is a step of `Global` or a stutter, so that the three theorems before,
  which are about `Global`, hold of it as well.
- `ProcessesAreKept`, `AnswersAgree` (`StartupProofs`): `ProcessInv` says at
  which stages of a `New` its driver and its browser can be up, and that none is
  up once the manager has been closed; with `GlobalInv` that leaves no step
  at which a process is nobody's. `InstallInv` says that one of those who call
  an Installer makes the attempt, and only while its Once runs, and (`Remembers`)
  that the Installer has no result and has answered nobody before the end of the
  attempt, and afterwards one result, which is all it has ever answered.

The parts. `PartSteps` says that a step of `MCParts` is a step of the part that
is not parked; each part has its invariant.

- `ValidationSuffices`: a session that exists has a draft that was validated and
  does not change any more, for any values and any number of options
  (`ConfigInv`); a grace period shorter than the TTL leaves `Init` a second
  (`QuickIsOffered`).
- `CauseReachesCaller`, `LossIsRecognised`: an error in hand contains its cause
  under all the codes that were put around it, and nothing judges an empty one
  (`ErrorsInv`). The chain has any length.
- `WaitsWithinBudget`, `WaitsUntilDeadline`: an attempt begins within the budget
  of those before it, or within a tick for each of them after the context's
  deadline (`TimeInv`), for any timeout and any number of retries.
- `SessionLogsAsManager`: a logger agrees with its source until the level of one
  of them is set, and is nobody's source before it is made (`LoggerInv`).
- `CleanupsFindSessions`: no cleanup is added twice, and one for a session only
  when the session is made; until its turn in the first `Close` all is as the
  test has left it (`HarnessInv`).
- `RoundRobinIsEven`: `EvenInv` says that the slice has every page once, and
  that of the pages on offer those that the counter has passed in the present
  turn have been picked once more than the others, or all equally often
  (`Fair`). Picking the next one keeps that, over the end of the list, too
  (`TurnPasses`); everything else that happens to the list begins a new count.
- `ListIsComplete`: what is left to parse is the end of the answer, and what is
  before it is in the result, in its order (`ProcessesInv`).

`Filtered`, the loop of `selectAvailable`, is a recursive function. That it has
a value at all, and that the value has exactly the available pages, each once,
is an induction over the slice. The theorems of the library that take a
predicate cannot be used for it, so `NumbersFromZero` states induction for sets
of numbers: it follows from the well-foundedness of the natural numbers, which
gives every non-empty set of them a least one (`LeastNumber`).

Only model-checked: liveness (`CloseTerminates`, `DeadPageLeaves`,
`ExpiredPageLeaves`, `CallComesBack`, `RebuildEnds`, `CloseReturns`,
`GlobalComesBack`, `DrainEnds`, `EveryPageServed`). It rests on fairness and on
which actions are enabled, which the prover does not reason about.

## 6. Findings, and what else the models show

Each finding is a run whose property, quoted from the code, TLC refutes.

- `session_closed`: `Close` is undone by a call that had passed the closed
  check (`session.go:411`). The new context is closed by nobody.
- `session_nil_pool`: `DoShare` panics on a nil pool when `Close` or a rebuild
  comes between `ensureContext` and the read of `s.pool` (`session.go:138`, and
  the same at 169).
- `locks_stats`: `PagePool.Stats` holds the read lock and takes it again in
  `ActiveOps` (`pool.go:355`); with a writer waiting in between, the pool stands
  still for ever.

The modules define more statements of the documentation that the code does not
keep. They are not among the runs; each is the last definitions of its module
and false in it, as TLC finds when a configuration names it.

| Statement | Module, definition | What the code does |
|---|---|---|
| `config.go:29` "MaxPages is the maximum number of pages allowed." | `PagePool!WithinMaxPages` | growth checks before it creates and appends without looking again, replacement never looks (`pool.go:146`) |
| `pool.go:283` "Close shuts down background goroutines and closes all pages." | `PagePool!CloseEmptiesPool` | a page whose creation is under way is appended afterwards (`pool.go:154`, `pool.go:274`) |
| `health.go:58` "waits for active ops to drain" | `PagePool!DrainedMeansUnused` | a caller that has chosen the page but not yet counted its operation is not seen (`pool.go:192`) |
| `session.go:68` "including context rebuild if necessary" | `Session!RebuildIsNecessary` | the answer about a context that is gone tears down the one another call has made (`session.go:325`) |
| `manager.go:167` "Close shuts down the entire manager: all sessions" | `Manager!NothingOutlivesClose` | a session is registered after the walk (`manager.go:127`) |
| `manager.go:138` "GetSession returns an existing session by name." | `Manager!NoOpenSessionUnlisted` | the walk deletes a name that by then is another session's (`manager.go:181`) |
| `README.en.md:365` "`Close()` drains active ops, closes pages, contexts, browser" | `Manager!NoDoCutShort`, `NoDrainCutShort` | `BrowserManager.Do` is waited for by nobody, and so is a drain that another goroutine has begun (`manager.go:178`, `manager.go:192`) |
| `pool.go:136` "The caller MUST call Release when done." | `PagePool!ReleasedWhenDone` | `DoShare` calls it without a `defer`: not if the operation panics (`session.go:152`) |
| `config.go:33` "the window before TTL expiry during which a page stops accepting new operations" | `PagePool!GraceTakesNobody` | the age is judged by a clock read before the wait for the lock (`pool.go:186`), and who makes a page gets it at any age (`pool.go:157`) |
| `config.go:182` "Validate checks pool configuration for invalid or inconsistent values." | `Config!InTimeIsOffered` | `InitTimeout` is not compared with TTL - GracePeriod: a page may arrive too old to be offered (`pool.go:121`) |
| `installer.go:33` "Install executes the installation process (idempotent, thread-safe)" | `Launch!OneInstallation` | the Once is per Installer, the path is common (`installer.go:36`) |
| `global.go:95` "Global() will return the cached error" | `Global!ManagerOrError` | after a Shutdown it returns nil and no error, on which every G function panics (`global.go:35`) |
| `pool.go:298` "Drain waits for all active operations to complete" | `PoolDrain!DrainedIsQuiet` | operations on pages that have left the slice, or that are counted late, are not waited for |
| `pool.go:331` "cumulative use count across all pages" | `PoolDrain!TotalUseIsCumulative` | the use by the call that made the page is not counted (`pool.go:151`), nor are pages that are gone |
| `scheduler.go:12` "distributes requests evenly across pages" | `Scheduler!NoPageStarves` | when the number of available pages alternates with the counter, one that is always available is never picked |
| `README.en.md:285` "`ErrTimeout` \| Operation timed out" | `Errors!TimeoutMeansDeadline` | a cancelled context gives it, too (`pool.go:171`) |
| `README.en.md:284` "`ErrPageUnavailable` \| Failed to create/access page" | `Errors!NoPageIsPageUnavailable` | the pool says ErrInternal (`pool.go:115`) |
| `process.go:5` "for all Chromium sub-processes" | `ProcessInfo!OnlyChromium` | an id may have gone to another program before its memory is read (`process.go:51`) |
| `config.go:37` "for a single Do/DoShare call including retries" | `CallTime!TimeoutIncludesRetries` | each attempt waits anew (`pool.go:163`) |

`Locks` has one more operation, `DoThatAsks`: a `Setup` that asks its session
for its Status waits for itself, since `buildContextLocked` calls it with `s.mu`
held (`session.go:394`). No document says that it may; with it among `Calls`,
`NoCircularWait` is false. Read from the code without a model: a session's
`Stats` is nil before its first operation; `RetryConfig.Timeout`
of `test_scenarios/helpers/setup.go` is read by nothing; `NewZapLoggerWithConfig(true)` filters debug messages by its own level
until `SetLevel` is called.

## 7. Not modelled, and the plan

- `RebuildAll` (`pool.go:309`): nothing in the repository calls it, and callers
  that come between its emptying and its warm-up make another pool out of every
  bound above. The page pool is "partly" modelled for it.
- Providers, public types, stealth, version, `getEnvOrDefault`, `generateID`:
  interfaces, constants and conversions without state. What a provider may
  answer is a choice in `PagePool` and `Session`.
- The simulators of the tests (`mock/`) stand in for the browser, which the
  models leave free to do anything; the examples are demonstrations. Of the
  test helpers, `TestManager` is modelled and `AssertErrorCode` is in `Errors`;
  the other assertions compare two values or poll one, and the fault scenarios
  are straight-line calls.
- In every module: formatting, log messages, fields of errors, metrics other
  than those named, the contents of pages.

The modelling plan is done but for `RebuildAll`, and the proofs but for
liveness. What could still be proved is the composition of `Session` with
`PagePool` and `PoolDrain`, which meet only in prose (section 2), and that the
locks of `Locks` exclude each other, which `Session` and `PagePool` take for
granted when they make a locked section one step.
