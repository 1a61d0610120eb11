------------------------------ MODULE CallTime ------------------------------
(***************************************************************************)
(* How long a DoShare waits for a page (session.go, Acquire in pool.go),   *)
(* on a pool that is full and stays so or not, with a deadline in the      *)
(* caller's context or without.  Time is counted in ticks of Acquire's     *)
(* ticker and passes while it waits; what an operation, a new page or a    *)
(* rebuild takes is not limited by these timeouts and takes no time here.  *)
(***************************************************************************)
EXTENDS Naturals

CONSTANTS
    MaxRetries,         \* maxRetries
    OperationTimeout,   \* PoolConfig.OperationTimeout
    Deadline,           \* the deadlines that callers use
    Never               \* a context without a deadline

\* What an instance has to assume.
CallTimeAssumption ==
    /\ MaxRetries \in Nat /\ OperationTimeout \in Nat \ {0}
    /\ Deadline \subseteq Nat /\ Never \notin Nat

VARIABLES
    at,         \* where the call is
    attempt,
    now,        \* ticks since the call
    ctx,        \* the context's deadline
    cancelled,  \* the context was cancelled
    deadline    \* Acquire's own

vars == <<at, attempt, now, ctx, cancelled, deadline>>

Done == cancelled \/ (ctx # Never /\ now >= ctx)

Init ==
    /\ at = "acquire" /\ attempt = 0
    /\ now = 0 /\ deadline = 0
    /\ ctx \in Deadline \cup {Never} /\ cancelled = FALSE

-----------------------------------------------------------------------------
(* Acquire.                                                                *)

\* A page is available, or the pool grows: the context is not looked at.
AcquiresAtOnce ==
    /\ at = "acquire"
    /\ at' = "operate"
    /\ UNCHANGED <<attempt, now, ctx, cancelled, deadline>>

\* Mutant of Waits: the context's deadline is not taken.
Waits_OwnDeadline ==
    /\ at = "acquire"
    /\ at' = "wait"
    /\ deadline' = now + OperationTimeout
    /\ UNCHANGED <<attempt, now, ctx, cancelled>>

\* All pages are busy and the pool is full.
Waits ==
    /\ at = "acquire"
    /\ at' = "wait"
    /\ deadline' = (IF ctx = Never THEN now + OperationTimeout ELSE ctx)
    /\ UNCHANGED <<attempt, now, ctx, cancelled>>

\* A tick: past the deadline the pool is exhausted, otherwise one more look.
\* When the context is done as well, select may take either.
Ticks ==
    /\ at = "wait"
    /\ now' = now + 1
    /\ IF now' > deadline THEN at' = "failed" ELSE at' \in {"wait", "operate"}
    /\ UNCHANGED <<attempt, ctx, cancelled, deadline>>

FindsContextDone ==
    /\ at = "wait" /\ Done
    /\ at' = "failed"
    /\ UNCHANGED <<attempt, now, ctx, cancelled, deadline>>

Cancel ==
    /\ at # "returned" /\ ~cancelled
    /\ cancelled' = TRUE
    /\ UNCHANGED <<at, attempt, now, ctx, deadline>>

-----------------------------------------------------------------------------
(* The loop of DoShare.                                                    *)

Returns == at' = "returned"

\* It succeeds, fails with an error of its own, or loses its connection or
\* its page.
Operates ==
    /\ at = "operate"
    /\ at' \in {"returned", "failed"}
    /\ UNCHANGED <<attempt, now, ctx, cancelled, deadline>>

\* A rebuild that Acquire's error or the loss asks for fails.
RebuildFails ==
    /\ at = "failed"
    /\ Returns
    /\ UNCHANGED <<attempt, now, ctx, cancelled, deadline>>

\* Mutant of Retry: one more.
Retry_OneMore ==
    /\ at = "failed" /\ attempt <= MaxRetries
    /\ at' = "acquire" /\ attempt' = attempt + 1
    /\ UNCHANGED <<now, ctx, cancelled, deadline>>

\* The context is not looked at.
Retry ==
    /\ at = "failed" /\ attempt < MaxRetries
    /\ at' = "acquire" /\ attempt' = attempt + 1
    /\ UNCHANGED <<now, ctx, cancelled, deadline>>

Exhausted ==
    /\ at = "failed" /\ attempt = MaxRetries
    /\ Returns
    /\ UNCHANGED <<attempt, now, ctx, cancelled, deadline>>

AtRest == at = "returned" /\ UNCHANGED vars

Next ==
    \/ AcquiresAtOnce \/ Waits \/ Ticks \/ FindsContextDone \/ Cancel
    \/ Operates \/ RebuildFails \/ Retry \/ Exhausted \/ AtRest

Spec == Init /\ [][Next]_vars

-----------------------------------------------------------------------------
(* Properties.                                                             *)

\* Without a deadline a call waits for pages no longer than OperationTimeout,
\* and the tick that notices, in each of its attempts.
WaitIsBounded ==
    ctx = Never => now <= (MaxRetries + 1) * (OperationTimeout + 1)

\* With a deadline no attempt starts the time anew: each adds at most the tick
\* that notices that it has passed.
DeadlineIsShared == ctx # Never => now <= ctx + MaxRetries + 1

-----------------------------------------------------------------------------
(* What the comments of the code say and the code does not do.             *)

\* config.go: "OperationTimeout is the timeout for a single Do/DoShare call
\* including retries."
TimeoutIncludesRetries == now <= OperationTimeout + 1
=============================================================================
