------------------------------ MODULE Session ------------------------------
(***************************************************************************)
(* One Session (session.go): the browser context and page pool it builds   *)
(* lazily, Do and DoShare with their retries, the rebuild of a context,    *)
(* and Close, for any number of goroutines that share the session.         *)
(*                                                                         *)
(* A section under s.mu.RLock is one step that needs s.mu to be free of    *)
(* writers; a section under s.mu.Lock that waits for the browser keeps     *)
(* `writer' for as long as it lasts.  DoShare reads s.pool without the     *)
(* lock, and so do the steps that model it.                                *)
(*                                                                         *)
(* Abstractions: what happens inside the pool is PagePool's, so Acquire    *)
(* and an operation may end in any way; a context and the pool built on it *)
(* have one name, and building both is one step of the lock's holder, who  *)
(* closes the context again when Setup or Start fails.                     *)
(***************************************************************************)
EXTENDS Naturals, FiniteSets

CONSTANTS
    Context,      \* the browser contexts that may ever be built: a bound
    DoCaller,     \* goroutines that call Do
    ShareCaller,  \* goroutines that call DoShare
    Closer,       \* goroutines that call Close
    NoContext,    \* nil
    Nobody,       \* s.mu has no writer
    MaxRetries    \* maxRetries

Caller == DoCaller \cup ShareCaller
Actor == Caller \cup Closer

ASSUME SessionAssumption ==
    /\ MaxRetries \in Nat
    /\ NoContext \notin Context
    /\ Nobody \notin Actor
    /\ DoCaller \cap ShareCaller = {}
    /\ Caller \cap Closer = {}

VARIABLES
    state,       \* s.state
    bCtx,        \* s.bCtx
    pool,        \* s.pool
    contexts,    \* the browser contexts
    pools,       \* their page pools
    writer,      \* who holds s.mu for writing
    rebuilding,  \* s.rebuilding
    pc,          \* where each goroutine is
    copy,        \* the *BrowserContext it has copied from s
    attempt      \* its attempts so far

resources == <<bCtx, pool, contexts, pools>>
vars == <<state, resources, writer, rebuilding, pc, copy, attempt>>

At(a, label) == pc[a] = label
Goto(a, label) == pc' = [pc EXCEPT ![a] = label]
Copy(a, x) == copy' = [copy EXCEPT ![a] = x]

\* s.mu can be taken, for reading or for writing.
Unlocked == writer = Nobody

HasBoth == bCtx # NoContext /\ pool # NoContext

\* A step of `a' that only moves it on.
Moves(a, from, to) ==
    /\ At(a, from)
    /\ Goto(a, to)
    /\ UNCHANGED <<state, resources, writer, rebuilding, copy, attempt>>

-----------------------------------------------------------------------------
\* CreateSession: active, with nothing built yet.
Init ==
    /\ state = "active"
    /\ bCtx = NoContext /\ pool = NoContext
    /\ contexts = [x \in Context |-> "none"]
    /\ pools = [x \in Context |-> "none"]
    /\ writer = Nobody
    /\ rebuilding = FALSE
    /\ pc = [a \in Actor |-> "out"]
    /\ copy = [a \in Actor |-> NoContext]
    /\ attempt = [c \in Caller |-> 0]

-----------------------------------------------------------------------------
(* The loop of Do and DoShare, and ensureContext.                          *)

\* A closed session refuses the call: no step.
Call(c) ==
    /\ At(c, "out") /\ Unlocked
    /\ state # "closed"
    /\ Goto(c, "ensure")
    /\ attempt' = [attempt EXCEPT ![c] = 0]
    /\ UNCHANGED <<state, resources, writer, rebuilding, copy>>

FindsContext(c) == Unlocked /\ HasBoth /\ Moves(c, "ensure", "use")
MissesContext(c) == Unlocked /\ ~HasBoth /\ Moves(c, "ensure", "lock")

\* Somebody has built it in the meantime.
FindsContextLate(c) == Unlocked /\ HasBoth /\ Moves(c, "lock", "use")

\* Mutant of LockToBuild: without the second look.
LockToBuild_NoDoubleCheck(c) ==
    /\ At(c, "lock") /\ Unlocked
    /\ writer' = c
    /\ Goto(c, "build")
    /\ UNCHANGED <<state, resources, rebuilding, copy, attempt>>

LockToBuild(c) ==
    /\ At(c, "lock") /\ Unlocked
    /\ ~HasBoth
    /\ writer' = c
    /\ Goto(c, "build")
    /\ UNCHANGED <<state, resources, rebuilding, copy, attempt>>

\* What NewContext makes.  Which of the unused contexts stands for it makes no
\* difference, so it is a certain one.
Fresh(x) ==
    /\ contexts[x] = "none"
    /\ x = CHOOSE y \in Context : contexts[y] = "none"

\* buildContextLocked, for ensureContext and for rebuildContext; the write
\* lock is released as it returns.  Nothing here looks at s.state.
Built(c, x) ==
    /\ pc[c] \in {"build", "remake"}
    /\ Fresh(x)
    /\ contexts' = [contexts EXCEPT ![x] = "alive"]
    /\ pools' = [pools EXCEPT ![x] = "open"]
    /\ bCtx' = x /\ pool' = x
    /\ state' = "active"
    /\ writer' = Nobody
    /\ Goto(c, IF At(c, "build") THEN "use" ELSE "remade")
    /\ UNCHANGED <<rebuilding, copy, attempt>>

\* NewContext failed.
NotBuilt(c) ==
    /\ pc[c] \in {"build", "remake"}
    /\ state' = "degraded"
    /\ writer' = Nobody
    /\ Goto(c, IF At(c, "build") THEN "retry" ELSE "unmade")
    /\ UNCHANGED <<resources, rebuilding, copy, attempt>>

\* Setup failed, or Start of the pool: the new context is closed again.
Discards(c, x) ==
    /\ pc[c] \in {"build", "remake"}
    /\ Fresh(x)
    /\ contexts' = [contexts EXCEPT ![x] = "closed"]
    /\ state' = "degraded"
    /\ writer' = Nobody
    /\ Goto(c, IF At(c, "build") THEN "retry" ELSE "unmade")
    /\ UNCHANGED <<bCtx, pool, pools, rebuilding, copy, attempt>>

\* Mutants of Retry: one attempt too many; the attempt is not counted.
Retry_OneMore(c) ==
    /\ At(c, "retry")
    /\ attempt[c] <= MaxRetries
    /\ attempt' = [attempt EXCEPT ![c] = @ + 1]
    /\ Goto(c, "ensure")
    /\ UNCHANGED <<state, resources, writer, rebuilding, copy>>
Retry_Uncounted(c) ==
    /\ attempt[c] < MaxRetries
    /\ Moves(c, "retry", "ensure")

Retry(c) ==
    /\ At(c, "retry")
    /\ attempt[c] < MaxRetries
    /\ attempt' = [attempt EXCEPT ![c] = @ + 1]
    /\ Goto(c, "ensure")
    /\ UNCHANGED <<state, resources, writer, rebuilding, copy>>

\* The last error is returned.
Exhausted(c) == attempt[c] = MaxRetries /\ Moves(c, "retry", "out")

-----------------------------------------------------------------------------
(* The operation.  Do copies s.bCtx under the read lock and has a page of  *)
(* its own; DoShare acquires a page of s.pool, which it reads unlocked.    *)

TakeContext(c) ==
    /\ c \in DoCaller
    /\ At(c, "use") /\ Unlocked
    /\ Copy(c, bCtx)
    /\ Goto(c, IF bCtx = NoContext THEN "suspect" ELSE "operate")
    /\ UNCHANGED <<state, resources, writer, rebuilding, attempt>>

TakePool(c) == c \in ShareCaller /\ pool # NoContext /\ Moves(c, "use", "acquire")
TakeNilPool(c) == c \in ShareCaller /\ pool = NoContext /\ Moves(c, "use", "panicked")

Acquires(c) == Moves(c, "acquire", "operate")

\* With a connection error, or with any other.
FailsToAcquire(c) ==
    Moves(c, "acquire", "rebuild") \/ Moves(c, "acquire", "suspect")

\* The call returns and forgets what it has copied.
Leaves(c, from) ==
    /\ At(c, from)
    /\ Goto(c, "out") /\ Copy(c, NoContext)
    /\ UNCHANGED <<state, resources, writer, rebuilding, attempt>>

Succeeds(c) == Leaves(c, "operate")

\* isConnectionError(err), or for DoShare a closed page.
LosesConnection(c) ==
    Moves(c, "operate", IF c \in DoCaller THEN "rebuild" ELSE "recover")

\* Any other error, also of NewPage and of Init in doExclusive.
FailsOtherwise(c) ==
    Moves(c, "operate", IF c \in DoCaller THEN "suspect" ELSE "judge")

-----------------------------------------------------------------------------
(* isContextDead: copies s.bCtx under the read lock and probes the copy.   *)

\* `judge' is the probe that tells a business error of DoShare, `recover'
\* the one that chooses between rebuilding and replacing the page, `suspect'
\* the one of Do and of a failed Acquire.
Asked == [judge |-> "judged", recover |-> "recovered", suspect |-> "suspected"]
Answered == {"judged", "recovered", "suspected"}

Probe(c) ==
    /\ pc[c] \in DOMAIN Asked /\ Unlocked
    /\ Copy(c, bCtx)
    /\ Goto(c, Asked[pc[c]])
    /\ UNCHANGED <<state, resources, writer, rebuilding, attempt>>

IsAlive(x) == x \in Context /\ contexts[x] = "alive"

FindsDead(c) ==
    /\ pc[c] \in Answered
    /\ ~IsAlive(copy[c])
    /\ Goto(c, IF At(c, "judged") THEN "recover" ELSE "rebuild")
    /\ Copy(c, NoContext)
    /\ UNCHANGED <<state, resources, writer, rebuilding, attempt>>

FindsAlive(c) ==
    /\ pc[c] \in Answered
    /\ IsAlive(copy[c])
    /\ Goto(c, CASE At(c, "judged")    -> "out"
                 [] At(c, "recovered") -> "replace"
                 [] At(c, "suspected") -> "retry")
    /\ Copy(c, NoContext)
    /\ UNCHANGED <<state, resources, writer, rebuilding, attempt>>

\* go s.pool.replacePage(pp), and on to the next attempt.  A nil pool panics
\* in the new goroutine.
ReplacesPage(c) == pool # NoContext /\ Moves(c, "replace", "retry")
ReplacesOnNil(c) == pool = NoContext /\ Moves(c, "replace", "panicked")

-----------------------------------------------------------------------------
(* rebuildContext.                                                         *)

\* s.rebuilding.Swap(true).
\* Mutant of SwapWins: the flag is raised, but was not looked at.
SwapWins_Blindly(c) ==
    /\ At(c, "rebuild")
    /\ rebuilding' = TRUE
    /\ Goto(c, "relock") /\ Copy(c, NoContext)
    /\ UNCHANGED <<state, resources, writer, attempt>>

SwapWins(c) ==
    /\ At(c, "rebuild")
    /\ ~rebuilding
    /\ rebuilding' = TRUE
    /\ Goto(c, "relock") /\ Copy(c, NoContext)
    /\ UNCHANGED <<state, resources, writer, attempt>>

SwapLoses(c) ==
    /\ At(c, "rebuild")
    /\ rebuilding
    /\ Goto(c, "await") /\ Copy(c, NoContext)
    /\ UNCHANGED <<state, resources, writer, rebuilding, attempt>>

\* A load of the flag finds it down; the 100th load finds it still up.
StopsWaiting(c) == ~rebuilding /\ Moves(c, "await", "retry")
TiresOfWaiting(c) == rebuilding /\ Moves(c, "await", "out")

LockToRebuild(c) ==
    /\ At(c, "relock") /\ Unlocked
    /\ writer' = c
    /\ Goto(c, "dismantle")
    /\ UNCHANGED <<state, resources, rebuilding, copy, attempt>>

ClosedIn(life, x) == [y \in Context |-> IF y = x THEN "closed" ELSE life[y]]

\* Mutant of ClosePool: s.pool keeps the closed pool.
ClosePool_KeepsPointer(c) ==
    /\ At(c, "dismantle")
    /\ pools' = ClosedIn(pools, pool)
    /\ Goto(c, "disconnect")
    /\ UNCHANGED <<state, bCtx, pool, contexts, writer, rebuilding, copy, attempt>>

\* Closed without a Drain: operations of other callers go on inside it.
ClosePool(c) ==
    /\ At(c, "dismantle")
    /\ pools' = ClosedIn(pools, pool)
    /\ pool' = NoContext
    /\ Goto(c, "disconnect")
    /\ UNCHANGED <<state, bCtx, contexts, writer, rebuilding, copy, attempt>>

CloseContext(c) ==
    /\ At(c, "disconnect")
    /\ contexts' = ClosedIn(contexts, bCtx)
    /\ bCtx' = NoContext
    /\ Goto(c, "remake")
    /\ UNCHANGED <<state, pool, pools, writer, rebuilding, copy, attempt>>

\* Mutant of Unflag: the flag stays up when the rebuild failed.
Unflag_OnSuccess(c) ==
    /\ pc[c] \in {"remade", "unmade"}
    /\ rebuilding' = (IF At(c, "remade") THEN FALSE ELSE rebuilding)
    /\ Goto(c, IF At(c, "remade") THEN "retry" ELSE "out")
    /\ UNCHANGED <<state, resources, writer, copy, attempt>>

\* Deferred first, so it runs after the lock has been released.
Unflag(c) ==
    /\ pc[c] \in {"remade", "unmade"}
    /\ rebuilding' = FALSE
    /\ Goto(c, IF At(c, "remade") THEN "retry" ELSE "out")
    /\ UNCHANGED <<state, resources, writer, copy, attempt>>

-----------------------------------------------------------------------------
(* Close.  A second call on a closed session does nothing.                 *)

Close(k) ==
    /\ At(k, "out") /\ Unlocked
    /\ state # "closed"
    /\ state' = "closed"
    /\ Copy(k, bCtx)
    /\ bCtx' = NoContext /\ pool' = NoContext
    /\ Goto(k, "drain")
    /\ UNCHANGED <<contexts, pools, writer, rebuilding, attempt>>

\* Drain gives up after GracePeriod: the pool is closed in any case.
DrainAndClosePool(k) ==
    /\ At(k, "drain")
    /\ pools' = ClosedIn(pools, copy[k])
    /\ Goto(k, "drained")
    /\ UNCHANGED <<state, bCtx, pool, contexts, writer, rebuilding, copy, attempt>>

FinishClose(k) ==
    /\ At(k, "drained")
    /\ contexts' = ClosedIn(contexts, copy[k])
    /\ Goto(k, "out") /\ Copy(k, NoContext)
    /\ UNCHANGED <<state, bCtx, pool, pools, writer, rebuilding, attempt>>

-----------------------------------------------------------------------------
\* The browser crashes or drops a context.
ContextDies(x) ==
    /\ contexts[x] = "alive"
    /\ contexts' = [contexts EXCEPT ![x] = "dead"]
    /\ UNCHANGED <<state, bCtx, pool, pools, writer, rebuilding, pc, copy, attempt>>

\* The session is closed and its callers have left: not a deadlock.
AtRest ==
    /\ state = "closed"
    /\ \A a \in Actor : pc[a] \in {"out", "panicked"}
    /\ UNCHANGED vars

-----------------------------------------------------------------------------
EnsureStep(c) ==
    \/ FindsContext(c) \/ MissesContext(c)
    \/ FindsContextLate(c) \/ LockToBuild(c)

BuildStep(c) == (\E x \in Context : Built(c, x) \/ Discards(c, x)) \/ NotBuilt(c)

LoopStep(c) == Retry(c) \/ Exhausted(c)

UseStep(c) == TakeContext(c) \/ TakePool(c) \/ TakeNilPool(c)

AcquireStep(c) == Acquires(c) \/ FailsToAcquire(c)

OperationEnds(c) == Succeeds(c) \/ LosesConnection(c) \/ FailsOtherwise(c)

ProbeStep(c) ==
    \/ Probe(c) \/ FindsDead(c) \/ FindsAlive(c)
    \/ ReplacesPage(c) \/ ReplacesOnNil(c)

RebuildStep(c) ==
    \/ SwapWins(c) \/ SwapLoses(c) \/ StopsWaiting(c) \/ TiresOfWaiting(c)
    \/ LockToRebuild(c) \/ ClosePool(c) \/ CloseContext(c) \/ Unflag(c)

\* What the session itself does on behalf of a call.
Working(c) == \/ EnsureStep(c) \/ BuildStep(c) \/ LoopStep(c) \/ UseStep(c)
              \/ AcquireStep(c) \/ ProbeStep(c) \/ RebuildStep(c)

Closing(k) == DrainAndClosePool(k) \/ FinishClose(k)

Next ==
    \/ \E c \in Caller : Call(c) \/ Working(c) \/ OperationEnds(c)
    \/ \E k \in Closer : Close(k) \/ Closing(k)
    \/ \E x \in Context : ContextDies(x)
    \/ AtRest

Spec == Init /\ [][Next]_vars

\* Goroutines are scheduled, calls to the browser return, and s.mu starves
\* neither readers nor writers (sync.RWMutex blocks new readers while a
\* writer waits and lets them in when it is done), hence strong fairness.  An
\* operation of a caller may hang for ever.
Fairness ==
    /\ \A c \in Caller : SF_vars(Working(c))
    /\ \A k \in Closer : WF_vars(Closing(k))

FairSpec == Spec /\ Fairness

-----------------------------------------------------------------------------
(* Invariants.                                                             *)

TypeOK ==
    /\ state \in {"active", "degraded", "closed"}
    /\ bCtx \in Context \cup {NoContext}
    /\ pool \in Context \cup {NoContext}
    /\ contexts \in [Context -> {"none", "alive", "dead", "closed"}]
    /\ pools \in [Context -> {"none", "open", "closed"}]
    /\ writer \in Actor \cup {Nobody}
    /\ rebuilding \in BOOLEAN
    /\ pc \in [Actor ->
                 {"out", "ensure", "lock", "build", "retry", "use", "acquire",
                  "operate", "judge", "recover", "suspect", "judged",
                  "recovered", "suspected", "replace", "panicked", "rebuild",
                  "await", "relock", "dismantle", "disconnect", "remake",
                  "remade", "unmade", "drain", "drained"}]
    /\ copy \in [Actor -> Context \cup {NoContext}]
    /\ attempt \in [Caller -> 0 .. MaxRetries]

\* Whoever takes s.mu finds the context and the pool together or neither, an
\* open pool, and a state that says so: no error path of rebuildContext or of
\* buildContextLocked leaves one without the other.
ConsistentWhenUnlocked ==
    Unlocked =>
        /\ pool = bCtx
        /\ bCtx # NoContext => state = "active" /\ pools[bCtx] = "open"

\* Close, or a rebuild that has taken it out of s, is about to close it.
InHand(x) == \E k \in Closer : pc[k] \in {"drain", "drained"} /\ copy[k] = x

\* No context leaks: one that was built and not closed is the session's, or a
\* Close is about to close it, however many callers find it missing or dead.
NoLeakedContext ==
    \A x \in Context : contexts[x] \in {"alive", "dead"} => bCtx = x \/ InHand(x)

Rebuilder(c) ==
    pc[c] \in {"relock", "dismantle", "disconnect", "remake", "remade", "unmade"}

\* s.rebuilding is up exactly while one caller rebuilds: no rebuild is
\* concurrent with another, and no exit leaves the flag behind.
FlagMeansRebuilder ==
    /\ rebuilding = (\E c \in Caller : Rebuilder(c))
    /\ \A c, d \in Caller : Rebuilder(c) /\ Rebuilder(d) => c = d

-----------------------------------------------------------------------------
(* Liveness, under FairSpec.                                               *)

\* A call does not stay in the session's own code for ever, whatever fails:
\* it returns, or runs (and may hang in) the caller's operation.
CallComesBack ==
    \A c \in Caller : []<>(pc[c] \in {"out", "operate", "panicked"})

\* The flag does not stay up: no rebuild is held up for ever by the callers
\* that keep taking the lock, and no failure leaves it raised.
RebuildEnds == rebuilding ~> ~rebuilding

-----------------------------------------------------------------------------
(* What the comments of the code say and the code does not do.             *)

\* session.go: "SessionClosed // session is shut down".
ClosedStaysClosed == [][state = "closed" => state' = "closed"]_vars

\* session.go: "context rebuild if necessary".  The answer of isContextDead,
\* and an error that was caused by a context that is gone, may be old when the
\* rebuild begins.
RebuildIsNecessary == \A c \in Caller : At(c, "disconnect") => ~IsAlive(bCtx)

\* session.go: "All exported methods are safe for concurrent use."
NoNilPool == \A c \in Caller : ~At(c, "panicked")
=============================================================================
