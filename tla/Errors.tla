------------------------------- MODULE Errors -------------------------------
(***************************************************************************)
(* Errors (errors.go) on their way through a call of Do or DoShare: where  *)
(* each arises, which function wraps it with which code (pool.go,          *)
(* session.go), what the retry loop makes of it and what the caller of the *)
(* session can tell from it (errors.Is, and the assertions of the test     *)
(* helpers).  An error is the chain of the codes it was wrapped with,      *)
(* outermost first, and the error at its bottom.                           *)
(***************************************************************************)
EXTENDS Naturals, Sequences

CONSTANT MaxRetries   \* maxRetries

\* What an instance has to assume.
ErrorsAssumption == MaxRetries \in Nat

\* The codes that calls use, and what comes from below or from outside: a
\* connection that is lost, a context that is cancelled or past its deadline,
\* any other failure of the browser or of a provider, an operation's own.
Code == {"PoolExhausted", "ContextDead", "PageUnavailable", "Timeout",
         "InvalidState", "Internal"}
Cause == {"lost", "cancelled", "deadline", "failure", "business"}

\* The empty chain is nil.
Nil == <<>>

NewError(code) == <<code>>

\* Mutant of WrapError: the cause is dropped, as by NewError.
WrapError_NoCause(err, code) == <<code>>

WrapError(err, code) == <<code>> \o err

\* errors.Is, which unwraps, and BpmError.Is, which compares the codes.
Is(err, target) == \E i \in 1 .. Len(err) : err[i] = target

\* Mutant of IsConnectionError: only the outermost text is looked at.
IsConnectionError_Shallow(err) == err # Nil /\ err[1] = "lost"

\* IsConnectionError looks for its patterns in the text, which contains the
\* text of every cause; no message of the package's own matches one.
IsConnectionError(err) == Is(err, "lost")

\* errors.As finds the outermost BpmError: what AssertErrorCode compares.
OutermostCode(err) == IF err # Nil /\ err[1] \in Code THEN err[1] ELSE "none"

-----------------------------------------------------------------------------
VARIABLES
    call,     \* "Do" or "DoShare"
    at,       \* where the call is
    err,      \* the error in hand
    origin,   \* history: what failed
    cause,    \* history: the error at the bottom, if there is one
    attempt

vars == <<call, at, err, origin, cause, attempt>>

Init ==
    /\ call \in {"Do", "DoShare"}
    /\ at = "ensure" /\ err = Nil
    /\ origin = "none" /\ cause = "none"
    /\ attempt = 0

\* An error arises and is returned to the loop.
Raise(to, what, c, e) ==
    /\ origin' = what /\ cause' = c
    /\ err' = e /\ at' = to
    /\ UNCHANGED <<call, attempt>>

\* The call goes on.
Proceed(to, e) ==
    /\ at' = to /\ err' = e
    /\ UNCHANGED <<call, origin, cause, attempt>>

-----------------------------------------------------------------------------
(* ensureContext and rebuildContext, which end in buildContextLocked.      *)

Building == at \in {"ensure", "rebuild"}
BuildFails == IF at = "ensure" THEN "retry" ELSE "rebuild failed"
External == {"lost", "failure", "deadline"}

\* NewContext or Setup fails.
ContextFails ==
    /\ Building
    /\ \E c \in External :
          Raise(BuildFails, "context", c, WrapError(<<c>>, "ContextDead"))

\* NewPage or Init fails: createAndInitPage and warmUp wrap it.
WarmUpFails ==
    /\ Building
    /\ \E c \in External :
          Raise(BuildFails, "page", c,
                WrapError(WrapError(<<c>>, "Internal"), "Internal"))

\* A rebuild of another caller takes more than ten seconds.
RebuildTimesOut ==
    /\ at = "rebuild"
    /\ Raise("rebuild failed", "rebuild", "none", NewError("InvalidState"))

RebuildFails == at = "rebuild failed" /\ Proceed("returned", WrapError(err, "ContextDead"))

\* The error of the attempt is kept as lastErr.
Built == Building /\ Proceed(IF at = "ensure" THEN "use" ELSE "retry", err)

-----------------------------------------------------------------------------
(* doExclusive; Acquire and the operation of DoShare.                      *)

Uses(f) == at = "use" /\ call = f

\* Another caller's rebuild has just taken the context away.
ContextIsNil == Uses("Do") /\ Raise("judge", "context", "none", NewError("ContextDead"))

ExclusivePageFails ==
    /\ Uses("Do")
    /\ \E c \in External :
          Raise("judge", "page", c, WrapError(<<c>>, "PageUnavailable"))

\* Acquire cannot grow the pool.
SharedPageFails ==
    /\ Uses("DoShare")
    /\ \E c \in External :
          Raise("judge acquire", "page", c, WrapError(<<c>>, "Internal"))

\* ctx.Done() in Acquire, and its deadline when ctx has none.
ContextIsDone ==
    /\ Uses("DoShare")
    /\ \E c \in {"cancelled", "deadline"} :
          Raise("judge acquire", "wait", c, WrapError(<<c>>, "Timeout"))
PoolIsExhausted ==
    /\ Uses("DoShare")
    /\ Raise("judge acquire", "wait", "none", NewError("PoolExhausted"))

OperationFails ==
    /\ at = "use"
    /\ \E c \in {"lost", "business"} : Raise("judge", "operation", c, <<c>>)

Succeeds == at = "use" /\ Proceed("returned", Nil)

-----------------------------------------------------------------------------
(* The retry loop.                                                         *)

Judges == at \in {"judge", "judge acquire"}
Shared == call = "DoShare" /\ at = "judge"

\* isConnectionError(err) || isContextDead(); with a shared page in hand it
\* is the second that decides.
Rebuilds == Judges /\ Proceed("rebuild", err)

\* The context is alive; DoShare has the page replaced.
Retries ==
    /\ Judges
    /\ Shared \/ ~IsConnectionError(err)
    /\ Proceed("retry", err)

\* A business error of a shared operation is returned at once.
Returns == Shared /\ ~IsConnectionError(err) /\ Proceed("returned", err)

Retry ==
    /\ at = "retry" /\ attempt < MaxRetries
    /\ at' = "ensure" /\ attempt' = attempt + 1
    /\ UNCHANGED <<call, err, origin, cause>>

Exhausted == at = "retry" /\ attempt = MaxRetries /\ Proceed("returned", err)

Next ==
    \/ ContextFails \/ WarmUpFails \/ RebuildTimesOut \/ RebuildFails \/ Built
    \/ ContextIsNil \/ ExclusivePageFails \/ SharedPageFails
    \/ ContextIsDone \/ PoolIsExhausted \/ OperationFails \/ Succeeds
    \/ Rebuilds \/ Retries \/ Returns \/ Retry \/ Exhausted

Spec == Init /\ [][Next]_vars

-----------------------------------------------------------------------------
(* Properties.                                                             *)

\* The error at the bottom reaches the caller through every function that
\* wraps it: errors.Is finds it, so a caller can tell its own cancellation
\* or its operation's error from a failure of the browser.
CauseIsReported ==
    at = "returned" /\ err # Nil /\ cause # "none" => Is(err, cause)

\* A connection that is lost while a call makes a page is recognised under the
\* codes it was wrapped with: the context is rebuilt, whatever the probe says.
\* (One that is lost when ensureContext warms up a pool is no case of this: Do
\* and DoShare do not judge such an error, the next attempt builds anew.)
LossLeadsToRebuild ==
    [][Judges /\ origin = "page" /\ cause = "lost" => at' = "rebuild"]_vars

-----------------------------------------------------------------------------
(* What the documentation says and the code does not do.                   *)

\* README.en.md: "ErrTimeout | Operation timed out".
TimeoutMeansDeadline == OutermostCode(err) = "Timeout" => cause # "cancelled"

\* README.en.md: "ErrPageUnavailable | Failed to create/access page".
NoPageIsPageUnavailable ==
    at = "returned" /\ err # Nil /\ origin = "page" => Is(err, "PageUnavailable")
=============================================================================
