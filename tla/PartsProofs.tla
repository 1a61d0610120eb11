----------------------------- MODULE PartsProofs -----------------------------
(***************************************************************************)
(* What the parts of MCParts promise for all constants: the configuration, *)
(* the errors of a call, the time it waits, the loggers, the harness, the  *)
(* scheduler and the list of processes.                                    *)
(* Each is proved of its own steps, and then of the instance, where the    *)
(* other parts are parked.                                                 *)
(***************************************************************************)
EXTENDS MCParts, Integers, Sequences, FiniteSetTheorems, TLAPS

-----------------------------------------------------------------------------
(* Configuration (config.go): what validation promises, for any options,   *)
(* any values and any number of sessions.                                  *)

\* The drafts are pool configurations, and every session that was created
\* still has one that Validate accepted.
ConfigInv ==
    /\ config \in [Field -> Int]
    /\ draft \in [Drafts -> [PoolField -> Int]]
    /\ created \subseteq Drafts
    /\ \A s \in created : ValidPool(draft[s])

\* The defaults are numbers, and the pool's part of a Config is one.
LEMMA PoolTyped ==
    ASSUME NEW c \in [Field -> Int]
    PROVE  Pool(c) \in [PoolField -> Int]
BY DEF Pool, Field

\* NewConfig's defaults, and no session yet.
LEMMA InitConfig == Init => ConfigInv
<1> SUFFICES ASSUME Init PROVE ConfigInv
    OBVIOUS
<1>1. \A f \in Field : DefaultConfig[f] \in Int
    BY DEF DefaultConfig, Field, PoolField
<1>2. config \in [Field -> Int]
    BY <1>1 DEF Init
<1>3. Drafts = {} /\ draft \in [Drafts -> [PoolField -> Int]]
    BY DEF Init, Drafts
<1> QED BY <1>2, <1>3 DEF Init, ConfigInv

\* A session's draft no longer changes once the session exists.
LEMMA NextConfig == ConfigInv /\ [Next]_vars => ConfigInv'
<1> SUFFICES ASSUME ConfigInv, [Next]_vars PROVE ConfigInv'
    OBVIOUS
<1> USE DEF ConfigInv, Drafts
<1>0. \A v \in Value : v \in Int
    BY ConfigAssumption
<1>1. ASSUME NEW f \in Field, NEW v \in Value, Apply(f, v) PROVE ConfigInv'
    BY <1>0, <1>1 DEF Apply
<1>2. CASE NewConfig
    BY <1>2 DEF NewConfig
<1>3. ASSUME NEW s \in Session, Copy(s) PROVE ConfigInv'
    <2>1. Pool(config) \in [PoolField -> Int]
        BY PoolTyped
    <2>2. /\ DOMAIN draft' = DOMAIN draft \cup {s}
          /\ draft' \in [DOMAIN draft' -> [PoolField -> Int]]
        BY <1>3, <2>1 DEF Copy
    <2>3. \A t \in created : draft'[t] = draft[t]
        BY <1>3 DEF Copy
    <2> QED BY <1>3, <2>2, <2>3 DEF Copy
<1>4. ASSUME NEW s \in Session, Create(s) PROVE ConfigInv'
    BY <1>4 DEF Create
<1>5. ASSUME NEW s \in Session, Refuse(s) PROVE ConfigInv'
    <2>1. /\ DOMAIN draft' = DOMAIN draft \ {s}
          /\ draft' \in [DOMAIN draft' -> [PoolField -> Int]]
        BY <1>5 DEF Refuse
    <2>2. \A t \in created : draft'[t] = draft[t]
        BY <1>5 DEF Refuse
    <2> QED BY <1>5, <2>1, <2>2 DEF Refuse
<1>6. ASSUME NEW s \in Session, NEW f \in PoolField, NEW v \in Value, Override(s, f, v)
      PROVE  ConfigInv'
    <2>1. [draft[s] EXCEPT ![f] = v] \in [PoolField -> Int]
        BY <1>0, <1>6 DEF Override
    <2>2. /\ DOMAIN draft' = DOMAIN draft
          /\ draft' \in [DOMAIN draft' -> [PoolField -> Int]]
        BY <1>6, <2>1 DEF Override
    <2>3. \A t \in created : draft'[t] = draft[t]
        BY <1>6 DEF Override
    <2> QED BY <1>6, <2>2, <2>3 DEF Override
<1>7. CASE UNCHANGED vars
    BY <1>7 DEF vars
<1> QED BY <1>1, <1>2, <1>3, <1>4, <1>5, <1>6, <1>7 DEF Next

\* A page whose Init has taken a tick or less is offered when it arrives: the
\* grace period is shorter than the TTL.
LEMMA QuickIsOffered ==
    ASSUME NEW p \in [PoolField -> Int], ValidPool(p)
    PROVE  \E limit \in 1 .. p["InitTimeout"] :
              \A took \in 0 .. limit : Offered(p, took)
<1>1. /\ p["InitTimeout"] \in Int
      /\ p["TTL"] \in Int /\ p["GracePeriod"] \in Int
    BY DEF PoolField
<1>2. 1 \in 1 .. p["InitTimeout"]
    BY <1>1 DEF ValidPool
<1>3. \A took \in 0 .. 1 : Offered(p, took)
    BY <1>1 DEF ValidPool, Offered
<1> QED BY <1>2, <1>3

\* What ValidPool accepts can serve: the warm-up fits, there is a page or one
\* can be made, and calls are given time.
LEMMA ValidPoolsServe ==
    ASSUME NEW p \in [PoolField -> Int], ValidPool(p)
    PROVE  /\ WarmUp(p) <= p["MaxPages"]
           /\ WarmUp(p) > 0 \/ CanGrow(p, WarmUp(p))
           /\ p["OperationTimeout"] > 0
<1>1. p["MinPages"] \in Int /\ p["MaxPages"] \in Int
    BY DEF PoolField
<1> QED BY <1>1 DEF ValidPool, WarmUp, CanGrow

\* Whatever options manager and sessions were given, the pool of a session
\* that exists can serve a call, as long as Init is quick enough.
THEOREM ValidationSuffices == Spec => []PoolsCanServe
<1>1. ConfigInv => PoolsCanServe
    <2> SUFFICES ASSUME ConfigInv, NEW s \in created
                 PROVE  LET p == draft[s] IN
                        /\ WarmUp(p) <= p["MaxPages"]
                        /\ WarmUp(p) > 0 \/ CanGrow(p, WarmUp(p))
                        /\ p["OperationTimeout"] > 0
                        /\ \E limit \in 1 .. p["InitTimeout"] :
                              \A took \in 0 .. limit : Offered(p, took)
        BY DEF PoolsCanServe
    <2>1. draft[s] \in [PoolField -> Int] /\ ValidPool(draft[s])
        BY DEF ConfigInv
    <2> QED BY <2>1, ValidPoolsServe, QuickIsOffered
<1> QED BY InitConfig, NextConfig, <1>1, PTL DEF Spec

-----------------------------------------------------------------------------
(* One part moves at a time.                                               *)

\* A step of the instance is a step of the part that is not parked.
LEMMA PartSteps ==
    ASSUME [PartsNext]_system
    PROVE  /\ UNCHANGED part
           /\ part = "config" => [Next]_vars
           /\ part = "errors" => [E!Next]_(E!vars)
           /\ part = "time" => [T!Next]_(T!vars)
           /\ part = "scheduler" => [S!Next]_(S!vars)
           /\ part = "process" => [P!Next]_(P!vars)
           /\ part = "logger" => [L!Next]_(L!vars)
           /\ part = "harness" => [H!Next]_(H!vars)
BY DEF PartsNext, Others, system, configVars, errorsVars, timeVars, loggerVars,
       harnessVars, schedulerVars, processVars, vars, E!vars, T!vars, L!vars,
       H!vars, S!vars, P!vars

\* The parked parts do not move.
LEMMA ParkedStays ==
    ASSUME [PartsNext]_system
    PROVE  /\ part # "config" => UNCHANGED vars
           /\ part # "errors" => UNCHANGED E!vars
BY DEF PartsNext, Others, system, configVars, errorsVars, vars, E!vars

-----------------------------------------------------------------------------
(* Errors (errors.go).                                                     *)

\* What an error's chain is made of.
Link == E!Code \cup E!Cause

\* An error that a call has in hand contains its cause under all its codes;
\* what the loop judges is an error, and with a shared page in hand it is the
\* operation's.
ErrorsInv ==
    /\ err \in Seq(Link)
    /\ cause # "none" /\ err # E!Nil => E!Is(err, cause)
    /\ at \in {"judge", "judge acquire", "rebuild failed"} => err # E!Nil
    /\ at = "judge" /\ call = "DoShare" => origin = "operation"

\* What NewError makes: a chain of one link.
LEMMA BareError ==
    ASSUME NEW Set, NEW c \in Set
    PROVE  <<c>> \in Seq(Set) /\ <<c>> # E!Nil /\ E!Is(<<c>>, c)
<1>1. <<c>> \in Seq(Set) /\ Len(<<c>>) = 1 /\ <<c>>[1] = c
    OBVIOUS
<1>2. <<c>> # << >>
    BY <1>1
<1>3. 1 \in 1 .. Len(<<c>>)
    BY <1>1
<1> QED BY <1>1, <1>2, <1>3 DEF E!Is, E!Nil

\* Wrapping keeps what errors.Is finds, and adds a code.
LEMMA WrapKeeps ==
    ASSUME NEW Set, NEW e \in Seq(Set), NEW code \in Set
    PROVE  /\ E!WrapError(e, code) \in Seq(Set)
           /\ E!WrapError(e, code) # E!Nil
           /\ \A t : E!Is(e, t) => E!Is(E!WrapError(e, code), t)
<1> DEFINE w == <<code>> \o e
<1>1. w \in Seq(Set)
    OBVIOUS
<1>2. Len(w) = Len(e) + 1 /\ Len(e) \in Nat
    OBVIOUS
<1>3. ASSUME NEW i \in 1 .. Len(e) PROVE w[i + 1] = e[i]
    OBVIOUS
<1>4. w # << >>
    BY <1>2
<1>5. ASSUME NEW t, E!Is(e, t) PROVE E!Is(w, t)
    <2>1. PICK i \in 1 .. Len(e) : e[i] = t
        BY <1>5 DEF E!Is
    <2>2. w[i + 1] = t
        BY <1>3, <2>1
    <2>3. i + 1 \in 1 .. Len(w)
        BY <1>2
    <2> HIDE DEF w
    <2> QED BY <2>2, <2>3 DEF E!Is
<1> QED BY <1>1, <1>4, <1>5 DEF E!WrapError, E!Nil

\* An error that arises, bare or wrapped once or twice, contains its cause.
LEMMA CauseIsIn ==
    ASSUME NEW c \in Link, NEW k \in Link, NEW l \in Link
    PROVE  LET once  == E!WrapError(<<c>>, k)
               twice == E!WrapError(once, l)
           IN  /\ <<c>> \in Seq(Link) /\ <<c>> # E!Nil /\ E!Is(<<c>>, c)
               /\ once \in Seq(Link) /\ once # E!Nil /\ E!Is(once, c)
               /\ twice \in Seq(Link) /\ twice # E!Nil /\ E!Is(twice, c)
<1> DEFINE once == E!WrapError(<<c>>, k)
<1>1. <<c>> \in Seq(Link) /\ <<c>> # E!Nil /\ E!Is(<<c>>, c)
    BY BareError
<1>2. once \in Seq(Link) /\ once # E!Nil /\ E!Is(once, c)
    BY <1>1, WrapKeeps
<1>3. E!WrapError(once, l) \in Seq(Link) /\ E!WrapError(once, l) # E!Nil
         /\ E!Is(E!WrapError(once, l), c)
    <2> HIDE DEF once
    <2> QED BY <1>2, WrapKeeps
<1> QED BY <1>1, <1>2, <1>3

\* An error that arises satisfies the invariant where it is returned to.
LEMMA Raised ==
    ASSUME NEW to, NEW what, NEW c, NEW e \in Seq(Link), e # E!Nil,
           c # "none" => E!Is(e, c),
           to = "judge" /\ call = "DoShare" => what = "operation",
           E!Raise(to, what, c, e)
    PROVE  ErrorsInv'
BY DEF ErrorsInv, E!Raise, E!Is, E!Nil

\* So does the error in hand when the call goes on with it, anywhere but to
\* the judgement.
LEMMA Proceeded ==
    ASSUME NEW to, to \notin {"judge", "judge acquire", "rebuild failed"},
           ErrorsInv, E!Proceed(to, err)
    PROVE  ErrorsInv'
BY DEF ErrorsInv, E!Proceed, E!Is, E!Nil

\* All that raises an error on the way to a context.
LEMMA BuildErrors ==
    ASSUME ErrorsInv, E!ContextFails \/ E!WarmUpFails \/ E!RebuildTimesOut
    PROVE  ErrorsInv'
<1>0. E!Code \subseteq Link /\ E!External \subseteq Link /\ E!BuildFails # "judge"
    BY DEF Link, E!Cause, E!External, E!BuildFails
<1>1. CASE E!ContextFails
    <2>1. PICK c \in E!External :
              E!Raise(E!BuildFails, "context", c, E!WrapError(<<c>>, "ContextDead"))
        BY <1>1 DEF E!ContextFails
    <2>2. "ContextDead" \in Link
        BY <1>0 DEF E!Code
    <2> QED BY <1>0, <2>1, <2>2, CauseIsIn, Raised
<1>2. CASE E!WarmUpFails
    <2>1. PICK c \in E!External :
              E!Raise(E!BuildFails, "page", c,
                      E!WrapError(E!WrapError(<<c>>, "Internal"), "Internal"))
        BY <1>2 DEF E!WarmUpFails
    <2>2. "Internal" \in Link
        BY <1>0 DEF E!Code
    <2> QED BY <1>0, <2>1, <2>2, CauseIsIn, Raised
<1>3. CASE E!RebuildTimesOut
    <2>1. E!Raise("rebuild failed", "rebuild", "none", <<"InvalidState">>)
        BY <1>3 DEF E!RebuildTimesOut, E!NewError
    <2>2. "InvalidState" \in Link
        BY <1>0 DEF E!Code
    <2> QED BY <2>1, <2>2, BareError, Raised
<1> QED BY <1>1, <1>2, <1>3

\* All that raises one while the call uses a page or waits for one.
LEMMA UseErrors ==
    ASSUME ErrorsInv,
           \/ E!ContextIsNil \/ E!ExclusivePageFails \/ E!SharedPageFails
           \/ E!ContextIsDone \/ E!PoolIsExhausted \/ E!OperationFails
    PROVE  ErrorsInv'
<1>0. E!Code \subseteq Link /\ E!External \subseteq Link /\ E!Cause \subseteq Link
    BY DEF Link, E!Cause, E!External
<1>1. CASE E!ContextIsNil
    <2>1. E!Raise("judge", "context", "none", <<"ContextDead">>) /\ call # "DoShare"
        BY <1>1 DEF E!ContextIsNil, E!NewError, E!Uses
    <2>2. "ContextDead" \in Link
        BY <1>0 DEF E!Code
    <2> QED BY <2>1, <2>2, BareError, Raised
<1>2. CASE E!ExclusivePageFails
    <2>1. /\ call # "DoShare"
          /\ \E c \in E!External :
              E!Raise("judge", "page", c, E!WrapError(<<c>>, "PageUnavailable"))
        BY <1>2 DEF E!ExclusivePageFails, E!Uses
    <2>2. "PageUnavailable" \in Link
        BY <1>0 DEF E!Code
    <2> QED BY <1>0, <2>1, <2>2, CauseIsIn, Raised
<1>3. CASE E!SharedPageFails
    <2>1. PICK c \in E!External :
              E!Raise("judge acquire", "page", c, E!WrapError(<<c>>, "Internal"))
        BY <1>3 DEF E!SharedPageFails
    <2>2. "Internal" \in Link
        BY <1>0 DEF E!Code
    <2> QED BY <1>0, <2>1, <2>2, CauseIsIn, Raised
<1>4. CASE E!ContextIsDone
    <2>1. PICK c \in {"cancelled", "deadline"} :
              E!Raise("judge acquire", "wait", c, E!WrapError(<<c>>, "Timeout"))
        BY <1>4 DEF E!ContextIsDone
    <2>2. c \in Link /\ "Timeout" \in Link
        BY <1>0 DEF E!Code, E!Cause
    <2> QED BY <2>1, <2>2, CauseIsIn, Raised
<1>5. CASE E!PoolIsExhausted
    <2>1. E!Raise("judge acquire", "wait", "none", <<"PoolExhausted">>)
        BY <1>5 DEF E!PoolIsExhausted, E!NewError
    <2>2. "PoolExhausted" \in Link
        BY <1>0 DEF E!Code
    <2> QED BY <2>1, <2>2, BareError, Raised
<1>6. CASE E!OperationFails
    <2>1. PICK c \in {"lost", "business"} : E!Raise("judge", "operation", c, <<c>>)
        BY <1>6 DEF E!OperationFails
    <2>2. c \in Link
        BY <1>0 DEF E!Cause
    <2> QED BY <2>1, <2>2, BareError, Raised
<1> QED BY <1>1, <1>2, <1>3, <1>4, <1>5, <1>6

\* A failed rebuild wraps the error of the attempt once more.
LEMMA RebuildErrors ==
    ASSUME ErrorsInv, E!RebuildFails
    PROVE  ErrorsInv'
<1> DEFINE w == E!WrapError(err, "ContextDead")
<1>1. at = "rebuild failed" /\ E!Proceed("returned", w)
    BY DEF E!RebuildFails
<1>2. err \in Seq(Link) /\ "ContextDead" \in Link
    BY DEF ErrorsInv, Link, E!Code
<1>3. w \in Seq(Link) /\ w # E!Nil /\ \A t : E!Is(err, t) => E!Is(w, t)
    BY <1>2, WrapKeeps
<1>4. cause # "none" => E!Is(w, cause)
    BY <1>1, <1>3 DEF ErrorsInv
<1> HIDE DEF w
<1> QED BY <1>1, <1>3, <1>4 DEF ErrorsInv, E!Proceed, E!Is, E!Nil

\* The invariant is inductive for the error of a call.
LEMMA NextErrors == ErrorsInv /\ [E!Next]_(E!vars) => ErrorsInv'
<1> SUFFICES ASSUME ErrorsInv, [E!Next]_(E!vars) PROVE ErrorsInv'
    OBVIOUS
<1>1. CASE E!Built
    <2>1. E!Proceed(IF at = "ensure" THEN "use" ELSE "retry", err)
        BY <1>1 DEF E!Built
    <2> QED BY <2>1, Proceeded
<1>2. CASE E!Rebuilds \/ E!Retries \/ E!Returns \/ E!Exhausted
    <2>1. \E to \in {"rebuild", "retry", "returned"} : E!Proceed(to, err)
        BY <1>2 DEF E!Rebuilds, E!Retries, E!Returns, E!Exhausted
    <2> QED BY <2>1, Proceeded
<1>3. CASE E!Succeeds
    <2>1. << >> \in Seq(Link)
        OBVIOUS
    <2> QED BY <1>3, <2>1 DEF ErrorsInv, E!Succeeds, E!Proceed, E!Nil
<1>4. CASE E!Retry
    BY <1>4 DEF ErrorsInv, E!Retry, E!Is, E!Nil
<1>5. CASE UNCHANGED E!vars
    BY <1>5 DEF ErrorsInv, E!vars, E!Is, E!Nil
<1> QED BY <1>1, <1>2, <1>3, <1>4, <1>5, BuildErrors, UseErrors, RebuildErrors DEF E!Next

\* A connection that was lost while a page was made is found in the error
\* that is judged, so neither Retries nor Returns is possible.
LEMMA LossRebuilds ==
    ASSUME ErrorsInv, E!Next, E!Judges, origin = "page", cause = "lost"
    PROVE  at' = "rebuild"
<1>1. E!IsConnectionError(err) /\ ~E!Shared
    BY DEF ErrorsInv, E!Judges, E!IsConnectionError, E!Shared
<1>2. E!Rebuilds
    BY <1>1 DEF E!Next, E!Judges, E!Building, E!Uses, E!Retries, E!Returns, E!ContextFails,
        E!WarmUpFails, E!RebuildTimesOut, E!RebuildFails, E!Built, E!ContextIsNil,
        E!ExclusivePageFails, E!SharedPageFails, E!ContextIsDone, E!PoolIsExhausted,
        E!OperationFails, E!Succeeds, E!Retry, E!Exhausted
<1> QED BY <1>2 DEF E!Rebuilds, E!Proceed

\* The invariant of the instance.
LEMMA ErrorsHold == PartsSpec => [](part = "errors" => ErrorsInv)
<1>1. PartsInit => (part = "errors" => ErrorsInv)
    <2> SUFFICES ASSUME PartsInit, part = "errors" PROVE ErrorsInv
        OBVIOUS
    <2>1. << >> \in Seq(Link)
        OBVIOUS
    <2> QED BY <2>1 DEF PartsInit, E!Init, ErrorsInv, E!Nil
<1>2. (part = "errors" => ErrorsInv) /\ [PartsNext]_system => (part = "errors" => ErrorsInv)'
    BY PartSteps, NextErrors
<1> QED BY <1>1, <1>2, PTL DEF PartsSpec

\* errors.Is finds the cause of a failed call, whichever functions wrapped it
\* and however often the call was tried.
THEOREM CauseReachesCaller == PartsSpec => []CauseIsReported
<1>1. (part = "errors" => ErrorsInv) => CauseIsReported
    BY DEF ErrorsInv, CauseIsReported, E!CauseIsReported
<1> QED BY <1>1, ErrorsHold, PTL

\* A connection that is lost while a page is made always ends in a rebuild.
THEOREM LossIsRecognised == PartsSpec => LossLeadsToRebuild
<1>1. (part = "errors" => ErrorsInv) /\ [PartsNext]_system
        => [E!Judges /\ origin = "page" /\ cause = "lost" => at' = "rebuild"]_(E!vars)
    BY PartSteps, ParkedStays, LossRebuilds
<1> QED BY <1>1, ErrorsHold, PTL DEF PartsSpec, LossLeadsToRebuild, E!LossLeadsToRebuild

-----------------------------------------------------------------------------
(* CallTime (Acquire and the loop of DoShare): how long a call waits.      *)

\* The ticks that n attempts may take when the context has no deadline.
Budget(n) == n * (OperationTimeout + 1)

\* What the attempts until now have taken, and what Acquire's deadline may be:
\* an attempt begins within the budget of those before it, or within the
\* context's deadline and a tick for each of them.
TimeInv ==
    /\ tries \in 0 .. MaxRetries
    /\ now \in Nat /\ deadline \in Nat
    /\ ctx \in Deadline \cup {Never}
    /\ ctx = Never =>
         /\ waitsAt = "acquire" => now <= Budget(tries)
         /\ waitsAt = "wait" => now <= deadline /\ deadline <= Budget(tries) + OperationTimeout
         /\ waitsAt \notin {"acquire", "wait"} => now <= Budget(tries + 1)
    /\ ctx # Never =>
         /\ waitsAt \in {"acquire", "wait"} => now <= ctx + tries
         /\ waitsAt = "wait" => deadline = ctx
         /\ now <= ctx + tries + 1

\* One more attempt has one more timeout, and the tick that notices.
LEMMA BudgetGrows ==
    ASSUME NEW m \in Nat, NEW n \in Nat, m <= n
    PROVE  /\ Budget(n) \in Nat
           /\ Budget(n + 1) = Budget(n) + OperationTimeout + 1
           /\ Budget(m) <= Budget(n)
<1> DEFINE k == OperationTimeout + 1
<1>1. OperationTimeout \in Nat /\ k \in Nat
    BY PartsAssumption DEF T!CallTimeAssumption
<1> HIDE DEF k
<1>2. n * k \in Nat /\ (n + 1) * k = n * k + k
    BY <1>1
<1>3. PICK d \in Nat : n = m + d
    <2> WITNESS n - m \in Nat
    <2> QED OBVIOUS
<1>4. n * k = m * k + d * k /\ m * k \in Nat /\ d * k \in Nat
    BY <1>1, <1>3
<1>5. m * k <= n * k
    BY <1>4
<1> QED BY <1>1, <1>2, <1>5 DEF Budget, k

\* A call begins with nothing spent.
LEMMA InitTime == T!Init => TimeInv
<1> SUFFICES ASSUME T!Init PROVE TimeInv
    OBVIOUS
<1>1. MaxRetries \in Nat /\ Deadline \subseteq Nat
    BY PartsAssumption DEF T!CallTimeAssumption
<1>2. Budget(0) \in Nat
    BY BudgetGrows
<1> QED BY <1>1, <1>2 DEF T!Init, TimeInv

\* Each step keeps within the budget of its attempt.
LEMMA NextTime == TimeInv /\ [T!Next]_(T!vars) => TimeInv'
<1> SUFFICES ASSUME TimeInv, [T!Next]_(T!vars) PROVE TimeInv'
    OBVIOUS
<1>0. /\ MaxRetries \in Nat /\ OperationTimeout \in Nat
      /\ Deadline \subseteq Nat /\ Never \notin Nat
    BY PartsAssumption DEF T!CallTimeAssumption
<1>t. /\ tries \in Nat /\ tries <= MaxRetries /\ now \in Nat /\ deadline \in Nat
      /\ ctx # Never => ctx \in Nat
    BY <1>0 DEF TimeInv
<1>b. /\ Budget(tries) \in Nat /\ Budget(tries + 1) \in Nat
      /\ Budget(tries + 1) = Budget(tries) + OperationTimeout + 1
    BY <1>t, BudgetGrows
<1>1. CASE T!AcquiresAtOnce
    BY <1>0, <1>1, <1>t, <1>b DEF T!AcquiresAtOnce, TimeInv
<1>2. CASE T!Waits
    BY <1>0, <1>2, <1>t, <1>b DEF T!Waits, TimeInv
<1>3. CASE T!Ticks
    <2>1. now' = now + 1 /\ waitsAt = "wait" /\ UNCHANGED <<tries, ctx, cancelled, deadline>>
        BY <1>3 DEF T!Ticks
    <2>2. CASE now + 1 > deadline
        <3>1. waitsAt' = "failed"
            BY <1>3, <2>2 DEF T!Ticks
        <3> QED BY <1>0, <1>t, <1>b, <2>1, <2>2, <3>1 DEF TimeInv
    <2>3. CASE ~(now + 1 > deadline)
        <3>1. waitsAt' \in {"wait", "operate"}
            BY <1>3, <2>1, <2>3 DEF T!Ticks
        <3> QED BY <1>0, <1>t, <1>b, <2>1, <2>3, <3>1 DEF TimeInv
    <2> QED BY <2>2, <2>3
<1>4. CASE T!FindsContextDone
    BY <1>0, <1>4, <1>t, <1>b DEF T!FindsContextDone, TimeInv
<1>5. CASE T!Cancel
    BY <1>5 DEF T!Cancel, TimeInv
<1>6. CASE T!Operates \/ T!RebuildFails \/ T!Exhausted
    BY <1>6 DEF T!Operates, T!RebuildFails, T!Exhausted, T!Returns, TimeInv
<1>7. CASE T!Retry
    BY <1>0, <1>7, <1>t, <1>b DEF T!Retry, TimeInv
<1>8. CASE UNCHANGED T!vars
    BY <1>8 DEF T!vars, TimeInv
<1> QED BY <1>1, <1>2, <1>3, <1>4, <1>5, <1>6, <1>7, <1>8 DEF T!Next, T!AtRest

\* The invariant of the instance.
LEMMA TimeHolds == PartsSpec => [](part = "time" => TimeInv)
<1>1. PartsInit => (part = "time" => TimeInv)
    BY InitTime DEF PartsInit
<1>2. (part = "time" => TimeInv) /\ [PartsNext]_system => (part = "time" => TimeInv)'
    BY PartSteps, NextTime
<1> QED BY <1>1, <1>2, PTL DEF PartsSpec

\* A call whose context has no deadline waits at most OperationTimeout and a
\* tick in each of its attempts, however many attempts there may be.
THEOREM WaitsWithinBudget == PartsSpec => []WaitIsBounded
<1>1. ASSUME TimeInv PROVE T!WaitIsBounded
    <2> SUFFICES ASSUME ctx = Never PROVE now <= Budget(MaxRetries + 1)
        BY DEF T!WaitIsBounded, Budget
    <2>0. MaxRetries \in Nat /\ OperationTimeout \in Nat
        BY PartsAssumption DEF T!CallTimeAssumption
    <2>1. tries \in Nat /\ tries + 1 <= MaxRetries + 1 /\ now \in Nat /\ deadline \in Nat
        BY <1>1, <2>0 DEF TimeInv
    <2>2. /\ Budget(tries) \in Nat
          /\ Budget(tries + 1) = Budget(tries) + OperationTimeout + 1
        BY <2>1, BudgetGrows
    <2>3. tries + 1 \in Nat /\ MaxRetries + 1 \in Nat
        BY <2>0, <2>1
    <2>4. /\ Budget(tries + 1) <= Budget(MaxRetries + 1)
          /\ Budget(tries + 1) \in Nat /\ Budget(MaxRetries + 1) \in Nat
        BY <2>1, <2>3, BudgetGrows
    <2>5. now <= Budget(tries + 1)
        BY <1>1, <2>0, <2>1, <2>2 DEF TimeInv
    <2> QED BY <2>1, <2>4, <2>5
<1>2. (part = "time" => TimeInv) => WaitIsBounded
    BY <1>1 DEF WaitIsBounded
<1> QED BY <1>2, TimeHolds, PTL

\* A call whose context has a deadline waits until then and no longer, but for
\* the tick of each attempt that notices.
THEOREM WaitsUntilDeadline == PartsSpec => []DeadlineIsShared
<1>1. ASSUME TimeInv PROVE T!DeadlineIsShared
    <2> SUFFICES ASSUME ctx # Never PROVE now <= ctx + MaxRetries + 1
        BY DEF T!DeadlineIsShared
    <2>1. MaxRetries \in Nat /\ ctx \in Nat
        BY <1>1, PartsAssumption DEF T!CallTimeAssumption, TimeInv
    <2> QED BY <1>1, <2>1 DEF TimeInv
<1>2. (part = "time" => TimeInv) => DeadlineIsShared
    BY <1>1 DEF DeadlineIsShared
<1> QED BY <1>2, TimeHolds, PTL

-----------------------------------------------------------------------------
(* Loggers (logger.go).                                                    *)

Kind == {"none", "nop", "production", "development"}

\* A logger has a source only once it is made, is nobody's source before, and
\* agrees with its source until the level of one of the two is set.
LoggerInv ==
    /\ core \in [Adapter -> Kind]
    /\ level \in [Adapter -> Nat]
    /\ source \in [Adapter -> Adapter \cup {NoAdapter}]
    /\ \A l \in Adapter : core[l] = "none" =>
          source[l] = NoAdapter /\ \A m \in Adapter : source[m] # l
    /\ \A l \in Adapter \ changed : source[l] # NoAdapter =>
          core[l] = core[source[l]] /\ level[l] = level[source[l]]

\* At first there is no logger, hence no source.
LEMMA InitLogger == L!Init => LoggerInv
<1>1. NoAdapter \notin Adapter
    BY PartsAssumption DEF L!LoggerAssumption
<1> QED BY <1>1 DEF L!Init, L!InfoLevel, LoggerInv, Kind

\* A logger that is made has no source and is nobody's source.
LEMMA NewLogger ==
    ASSUME LoggerInv, NEW l \in Adapter, NEW kind \in Kind \ {"none"}, L!New(l, kind)
    PROVE  LoggerInv'
<1>1. core' \in [Adapter -> Kind] /\ level' \in [Adapter -> Nat]
    BY DEF LoggerInv, L!New, L!InfoLevel
<1>2. /\ source[l] = NoAdapter
      /\ \A m \in Adapter : source[m] # l
    BY DEF LoggerInv, L!New
<1>3. \A m \in Adapter \ {l} : core'[m] = core[m] /\ level'[m] = level[m]
    BY DEF LoggerInv, L!New
<1>4. core'[l] # "none"
    BY DEF LoggerInv, L!New
<1>5. ASSUME NEW m \in Adapter, core'[m] = "none"
      PROVE  source[m] = NoAdapter /\ \A n \in Adapter : source[n] # m
    BY <1>3, <1>4, <1>5 DEF LoggerInv
<1>6. ASSUME NEW m \in Adapter \ changed, source[m] # NoAdapter
      PROVE  core'[m] = core'[source[m]] /\ level'[m] = level'[source[m]]
    <2>1. m # l /\ source[m] # l /\ source[m] \in Adapter
        BY <1>2, <1>6 DEF LoggerInv
    <2> QED BY <1>3, <1>6, <2>1 DEF LoggerInv
<1>7. source' = source /\ changed' = changed
    BY DEF L!New
<1> QED BY <1>1, <1>5, <1>6, <1>7 DEF LoggerInv

\* With copies the core and the level of the logger that it is called on.
LEMMA DerivedLogger ==
    ASSUME LoggerInv, NEW l \in Adapter, NEW m \in Adapter, L!With(l, m)
    PROVE  LoggerInv'
<1>1. l # m /\ m # NoAdapter
    BY PartsAssumption DEF L!With, L!LoggerAssumption
<1>2. /\ core' \in [Adapter -> Kind] /\ level' \in [Adapter -> Nat]
      /\ source' \in [Adapter -> Adapter \cup {NoAdapter}]
      /\ core'[l] = core[m] /\ level'[l] = level[m] /\ source'[l] = m
      /\ \A n \in Adapter \ {l} :
            core'[n] = core[n] /\ level'[n] = level[n] /\ source'[n] = source[n]
      /\ changed' = changed /\ core[m] # "none"
    BY DEF LoggerInv, L!With
<1>3. \A n \in Adapter : source[n] # l
    BY DEF LoggerInv, L!With
<1>4. ASSUME NEW n \in Adapter, core'[n] = "none"
      PROVE  source'[n] = NoAdapter /\ \A o \in Adapter : source'[o] # n
    <2>1. n # l /\ n # m /\ core[n] = "none"
        BY <1>1, <1>2, <1>4
    <2>2. source[n] = NoAdapter /\ \A o \in Adapter : source[o] # n
        BY <2>1 DEF LoggerInv
    <2> QED BY <1>2, <2>1, <2>2
<1>5. ASSUME NEW n \in Adapter \ changed, source'[n] # NoAdapter
      PROVE  core'[n] = core'[source'[n]] /\ level'[n] = level'[source'[n]]
    <2>1. CASE n = l
        BY <1>1, <1>2, <2>1
    <2>2. CASE n # l
        <3>1. source'[n] = source[n] /\ source[n] \in Adapter /\ source[n] # l
            BY <1>2, <1>3, <1>5, <2>2 DEF LoggerInv
        <3>2. core[n] = core[source[n]] /\ level[n] = level[source[n]]
            BY <1>5, <3>1 DEF LoggerInv
        <3> QED BY <1>2, <2>2, <3>1, <3>2
    <2> QED BY <2>1, <2>2
<1> QED BY <1>2, <1>4, <1>5 DEF LoggerInv

\* SetLevel moves the level of one logger, and the history notes all that it
\* sets apart.
LEMMA LevelledLogger ==
    ASSUME LoggerInv, NEW l \in Adapter, NEW v \in Nat, L!SetLevel(l, v)
    PROVE  LoggerInv'
<1>1. /\ level' \in [Adapter -> Nat] /\ core' = core /\ source' = source
      /\ \A n \in Adapter \ {l} : level'[n] = level[n]
    BY DEF LoggerInv, L!SetLevel
<1>2. ASSUME NEW n \in Adapter \ changed', source[n] # NoAdapter
      PROVE  core[n] = core[source[n]] /\ level'[n] = level'[source[n]]
    <2>1. n \in Adapter \ changed /\ n # l /\ source[n] # l /\ source[n] \in Adapter
        BY <1>2 DEF LoggerInv, L!SetLevel
    <2> QED BY <1>1, <1>2, <2>1 DEF LoggerInv
<1> QED BY <1>1, <1>2 DEF LoggerInv

\* The invariant is inductive for the loggers.
LEMMA NextLogger == LoggerInv /\ [L!Next]_(L!vars) => LoggerInv'
<1> SUFFICES ASSUME LoggerInv, [L!Next]_(L!vars) PROVE LoggerInv'
    OBVIOUS
<1>1. ASSUME NEW l \in Adapter, L!New(l, "nop") \/ L!New(l, "production") \/ L!New(l, "development")
      PROVE  LoggerInv'
    BY <1>1, NewLogger DEF Kind
<1>2. ASSUME NEW l \in Adapter, NEW m \in Adapter, L!With(l, m) PROVE LoggerInv'
    BY <1>2, DerivedLogger
<1>3. ASSUME NEW l \in Adapter, NEW v \in L!DebugLevel .. L!ErrorLevel, L!SetLevel(l, v)
      PROVE  LoggerInv'
    <2>1. v \in Nat
        BY DEF L!DebugLevel, L!ErrorLevel
    <2> QED BY <1>3, <2>1, LevelledLogger
<1>4. ASSUME NEW l \in Adapter, NEW severity \in L!Severity, L!Log(l, severity)
      PROVE  LoggerInv'
    BY <1>4 DEF L!Log, LoggerInv
<1>5. CASE UNCHANGED L!vars
    BY <1>5 DEF L!vars, LoggerInv
<1> QED BY <1>1, <1>2, <1>3, <1>4, <1>5 DEF L!Next

\* The invariant of the instance.
LEMMA LoggerHolds == PartsSpec => [](part = "logger" => LoggerInv)
<1>1. PartsInit => (part = "logger" => LoggerInv)
    BY InitLogger DEF PartsInit
<1>2. (part = "logger" => LoggerInv) /\ [PartsNext]_system => (part = "logger" => LoggerInv)'
    BY PartSteps, NextLogger
<1> QED BY <1>1, <1>2, PTL DEF PartsSpec

\* A session's logger writes what its manager's does until the level of one of
\* the two is set, whatever other loggers are derived from either.
THEOREM SessionLogsAsManager == PartsSpec => []DerivedLogsAlike
<1>1. ASSUME LoggerInv PROVE L!DerivedLogsAlike
    BY <1>1 DEF LoggerInv, L!DerivedLogsAlike, L!Writes, L!CoreWrites
<1>2. (part = "logger" => LoggerInv) => DerivedLogsAlike
    BY <1>1 DEF DerivedLogsAlike
<1> QED BY <1>2, LoggerHolds, PTL

-----------------------------------------------------------------------------
(* Harness (test_scenarios/helpers/setup.go).                              *)

Entry == Tested \cup Function

\* Of the first n cleanups, those for sessions that the test has not closed
\* itself find them open.
FindsOpen(n) ==
    \A i \in 1 .. n : cleanup[i] \in Tested \ dropped => session[cleanup[i]] = "open"

\* No cleanup is added twice, and one for a session only when the session is
\* made; until its turn in the first Close all is as the test has left it.
HarnessInv ==
    /\ cleanup \in Seq(Entry)
    /\ session \in [Tested -> {"none", "open", "closed"}]
    /\ next \in 0 .. Len(cleanup)
    /\ passes \in Nat
    /\ \A i, j \in 1 .. Len(cleanup) : cleanup[i] = cleanup[j] => i = j
    /\ \A i \in 1 .. Len(cleanup) : cleanup[i] \in Tested => session[cleanup[i]] # "none"
    /\ test = "new" => passes = 0 /\ cleanup = << >> /\ next = 0
    /\ test = "running" /\ passes = 0 => manager = "open" /\ FindsOpen(Len(cleanup))
    /\ H!InClose => passes > 0
    /\ H!InClose /\ passes = 1 => manager = "open" /\ FindsOpen(next)

\* What CreateSession and AddCleanup do to the list.
LEMMA EntryAdded ==
    ASSUME NEW e \in Entry, cleanup \in Seq(Entry)
    PROVE  /\ Append(cleanup, e) \in Seq(Entry)
           /\ Len(cleanup) \in Nat /\ Len(Append(cleanup, e)) = Len(cleanup) + 1
           /\ \A i \in 1 .. Len(cleanup) : Append(cleanup, e)[i] = cleanup[i]
           /\ Append(cleanup, e)[Len(cleanup) + 1] = e
OBVIOUS

\* A test begins with no cleanup and no session.
LEMMA InitHarness == H!Init => HarnessInv
<1> SUFFICES ASSUME H!Init PROVE HarnessInv
    OBVIOUS
<1>1. << >> \in Seq(Entry) /\ Len(<< >>) = 0
    OBVIOUS
<1> QED BY <1>1 DEF H!Init, H!InClose, HarnessInv, FindsOpen

\* A session that is made is not in the list yet.
LEMMA CreatesKeeps ==
    ASSUME HarnessInv, NEW s \in Tested,
           H!CreateSession(s) \/ H!CreateWithFaultInjection(s)
    PROVE  HarnessInv'
<1>1. /\ test = "running" /\ test' = "running" /\ session[s] = "none"
      /\ session' = [session EXCEPT ![s] = "open"]
      /\ UNCHANGED <<manager, next, passes, dropped>>
    BY DEF H!CreateSession, H!CreateWithFaultInjection, H!Creates
<1>2. /\ session' \in [Tested -> {"none", "open", "closed"}] /\ session'[s] = "open"
      /\ \A t \in Tested \ {s} : session'[t] = session[t]
    BY <1>1 DEF HarnessInv
<1>3. cleanup \in Seq(Entry) /\ \A i \in 1 .. Len(cleanup) : cleanup[i] # s
    BY <1>1 DEF HarnessInv
<1>4. CASE cleanup' = cleanup
    <2>1. \A i \in 1 .. Len(cleanup) : cleanup[i] \in Tested => session'[cleanup[i]] # "none"
        BY <1>2, <1>3 DEF HarnessInv
    <2>2. passes = 0 => manager = "open"
            /\ \A i \in 1 .. Len(cleanup) :
                  cleanup[i] \in Tested \ dropped => session'[cleanup[i]] = "open"
        BY <1>1, <1>2, <1>3 DEF HarnessInv, FindsOpen
    <2> QED BY <1>1, <1>2, <1>4, <2>1, <2>2 DEF HarnessInv, FindsOpen, H!InClose
<1>5. CASE cleanup' = Append(cleanup, s)
    <2> DEFINE n == Len(cleanup)
    <2>0. s \in Entry
        BY DEF Entry
    <2>1. /\ cleanup' \in Seq(Entry) /\ n \in Nat /\ Len(cleanup') = n + 1
          /\ \A i \in 1 .. n : cleanup'[i] = cleanup[i]
          /\ cleanup'[n + 1] = s
        BY <1>3, <1>5, <2>0, EntryAdded
    <2>2. next \in 0 .. n /\ \A i, j \in 1 .. n : cleanup[i] = cleanup[j] => i = j
        BY DEF HarnessInv
    <2>3. \A i \in 1 .. n : cleanup[i] \in Tested => session'[cleanup[i]] # "none"
        BY <1>2, <1>3 DEF HarnessInv
    <2>4. passes = 0 => manager = "open"
            /\ \A i \in 1 .. n :
                  cleanup[i] \in Tested \ dropped => session'[cleanup[i]] = "open"
        BY <1>1, <1>2, <1>3 DEF HarnessInv, FindsOpen
    <2> HIDE DEF n
    <2>n. n = Len(cleanup)
        BY DEF n
    <2>5. \A i \in 1 .. n + 1 : i \in 1 .. n \/ i = n + 1
        BY <2>1
    <2>6. \A i, j \in 1 .. n + 1 : cleanup'[i] = cleanup'[j] => i = j
        BY <1>3, <2>1, <2>2, <2>5, <2>n
    <2>7. \A i \in 1 .. n + 1 : cleanup'[i] \in Tested => session'[cleanup'[i]] # "none"
        BY <1>2, <2>1, <2>3, <2>5
    <2>8. passes = 0 => manager = "open"
            /\ \A i \in 1 .. n + 1 :
                  cleanup'[i] \in Tested \ dropped => session'[cleanup'[i]] = "open"
        BY <1>2, <2>1, <2>4, <2>5
    <2>9. next \in 0 .. n + 1 /\ passes \in Nat
        BY <2>1, <2>2 DEF HarnessInv
    <2> QED BY <1>1, <1>2, <2>1, <2>6, <2>7, <2>8, <2>9 DEF HarnessInv, FindsOpen, H!InClose
<1> QED BY <1>4, <1>5 DEF H!CreateSession, H!CreateWithFaultInjection

\* A cleanup of the test's own is added once, and closes no session.
LEMMA AddsKeeps ==
    ASSUME HarnessInv, NEW f \in Function, H!AddCleanup(f)
    PROVE  HarnessInv'
<1> DEFINE n == Len(cleanup)
<1>0. f \in Entry /\ f \notin Tested
    BY PartsAssumption DEF H!HarnessAssumption, Entry
<1>1. /\ test = "running" /\ cleanup' = Append(cleanup, f)
      /\ \A i \in 1 .. n : cleanup[i] # f
      /\ UNCHANGED <<test, manager, session, next, passes, dropped>>
    BY DEF H!AddCleanup
<1>2. /\ cleanup' \in Seq(Entry) /\ n \in Nat /\ Len(cleanup') = n + 1
      /\ \A i \in 1 .. n : cleanup'[i] = cleanup[i]
      /\ cleanup'[n + 1] = f
    BY <1>0, <1>1, EntryAdded DEF HarnessInv
<1>3. /\ next \in 0 .. n /\ \A i, j \in 1 .. n : cleanup[i] = cleanup[j] => i = j
      /\ \A i \in 1 .. n : cleanup[i] \in Tested => session[cleanup[i]] # "none"
      /\ passes = 0 => manager = "open"
            /\ \A i \in 1 .. n :
                  cleanup[i] \in Tested \ dropped => session[cleanup[i]] = "open"
    BY <1>1 DEF HarnessInv, FindsOpen
<1> HIDE DEF n
<1>4. \A i \in 1 .. n + 1 : i \in 1 .. n \/ i = n + 1
    BY <1>2
<1>5. \A i, j \in 1 .. n + 1 : cleanup'[i] = cleanup'[j] => i = j
    BY <1>1, <1>2, <1>3, <1>4
<1>6. \A i \in 1 .. n + 1 : cleanup'[i] \in Tested => session[cleanup'[i]] # "none"
    BY <1>0, <1>2, <1>3, <1>4
<1>7. passes = 0 => manager = "open"
        /\ \A i \in 1 .. n + 1 :
              cleanup'[i] \in Tested \ dropped => session[cleanup'[i]] = "open"
    BY <1>0, <1>2, <1>3, <1>4
<1>8. next \in 0 .. n + 1 /\ passes \in Nat /\ session \in [Tested -> {"none", "open", "closed"}]
    BY <1>2, <1>3 DEF HarnessInv
<1> QED BY <1>1, <1>2, <1>5, <1>6, <1>7, <1>8 DEF HarnessInv, FindsOpen, H!InClose

\* A cleanup for a session runs once, after all that were added later.
LEMMA RunsKeeps ==
    ASSUME HarnessInv, H!RunCleanup
    PROVE  HarnessInv'
<1> DEFINE c == cleanup[next]
<1>1. /\ H!InClose /\ next > 0 /\ next' = next - 1
      /\ session' = (IF c \in Tested THEN [session EXCEPT ![c] = "closed"] ELSE session)
      /\ UNCHANGED <<test, manager, cleanup, passes, dropped>>
    BY DEF H!RunCleanup, H!Current
<1>2. /\ cleanup \in Seq(Entry) /\ Len(cleanup) \in Nat /\ next \in 1 .. Len(cleanup)
      /\ next - 1 \in 0 .. Len(cleanup)
    BY <1>1 DEF HarnessInv
<1>3. \A i \in 1 .. next - 1 : i \in 1 .. Len(cleanup) /\ i # next /\ cleanup[i] # c
    BY <1>2 DEF HarnessInv
<1> HIDE DEF c
<1>4. /\ session' \in [Tested -> {"none", "open", "closed"}]
      /\ \A t \in Tested : session[t] # "none" => session'[t] # "none"
      /\ \A t \in Tested : t # c => session'[t] = session[t]
    BY <1>1 DEF HarnessInv
<1>5. passes = 1 => manager = "open"
        /\ \A i \in 1 .. next - 1 :
              cleanup[i] \in Tested \ dropped => session'[cleanup[i]] = "open"
    <2> SUFFICES ASSUME passes = 1
                 PROVE  /\ manager = "open"
                        /\ \A i \in 1 .. next - 1 :
                              cleanup[i] \in Tested \ dropped => session'[cleanup[i]] = "open"
        OBVIOUS
    <2>1. manager = "open" /\ FindsOpen(next)
        BY <1>1 DEF HarnessInv
    <2>2. \A i \in 1 .. next - 1 : i \in 1 .. next
        BY <1>2
    <2> QED BY <1>3, <1>4, <2>1, <2>2 DEF FindsOpen
<1>6. \A i \in 1 .. Len(cleanup) : cleanup[i] \in Tested => session'[cleanup[i]] # "none"
    BY <1>4 DEF HarnessInv
<1>7. test \in {"closing", "cleanup"}
    BY <1>1 DEF H!InClose
<1> QED BY <1>1, <1>2, <1>4, <1>5, <1>6, <1>7 DEF HarnessInv, FindsOpen, H!InClose

\* The invariant is inductive for the harness.
LEMMA NextHarness == HarnessInv /\ [H!Next]_(H!vars) => HarnessInv'
<1> SUFFICES ASSUME HarnessInv, [H!Next]_(H!vars) PROVE HarnessInv'
    OBVIOUS
<1>1. CASE H!NewTestManager
    BY <1>1 DEF H!NewTestManager, H!InClose, HarnessInv, FindsOpen
<1>2. CASE H!NoTestManager
    BY <1>2 DEF H!NoTestManager, H!InClose, HarnessInv, FindsOpen
<1>3. ASSUME NEW s \in Tested, H!CloseSession(s) PROVE HarnessInv'
    <2>1. /\ session' \in [Tested -> {"none", "open", "closed"}]
          /\ \A t \in Tested : session[t] # "none" => session'[t] # "none"
          /\ \A t \in Tested \ {s} : session'[t] = session[t]
        BY <1>3 DEF H!CloseSession, HarnessInv
    <2>2. \A i \in 1 .. Len(cleanup) : cleanup[i] \in Tested => session'[cleanup[i]] # "none"
        BY <2>1 DEF HarnessInv
    <2>3. passes = 0 => manager = "open" /\ FindsOpen(Len(cleanup))'
        BY <1>3, <2>1 DEF H!CloseSession, HarnessInv, FindsOpen
    <2> QED BY <1>3, <2>1, <2>2, <2>3 DEF H!CloseSession, H!InClose, HarnessInv
<1>4. CASE H!CloseByTest \/ H!TestEnds
    <2>1. /\ test = "running" /\ test' \in {"closing", "cleanup", "over"}
          /\ next' = Len(cleanup) /\ passes' = passes + 1
          /\ UNCHANGED <<manager, session, cleanup, dropped>>
        BY <1>4 DEF H!CloseByTest, H!TestEnds, H!BeginsClose
    <2>2. passes' \in Nat /\ (passes' = 1 => passes = 0)
        BY <2>1 DEF HarnessInv
    <2>3. Len(cleanup) \in 0 .. Len(cleanup)
        BY DEF HarnessInv
    <2> QED BY <2>1, <2>2, <2>3 DEF HarnessInv, FindsOpen, H!InClose
<1>5. CASE H!CloseManager
    <2>1. /\ passes # 0
          /\ test' \in {"running", "over"}
          /\ UNCHANGED <<cleanup, next, passes, dropped>>
        BY <1>5 DEF H!CloseManager, H!InClose, HarnessInv
    <2>2. /\ session' \in [Tested -> {"none", "open", "closed"}]
          /\ \A t \in Tested : session[t] # "none" => session'[t] # "none"
        BY <1>5 DEF H!CloseManager, HarnessInv
    <2> QED BY <2>1, <2>2 DEF HarnessInv, H!InClose
<1>6. CASE UNCHANGED H!vars
    BY <1>6 DEF H!vars, HarnessInv, FindsOpen, H!InClose
<1> QED BY <1>1, <1>2, <1>3, <1>4, <1>5, <1>6, CreatesKeeps, AddsKeeps, RunsKeeps
        DEF H!Next, H!AtRest

\* The invariant of the instance.
LEMMA HarnessHolds == PartsSpec => [](part = "harness" => HarnessInv)
<1>1. PartsInit => (part = "harness" => HarnessInv)
    BY InitHarness DEF PartsInit
<1>2. (part = "harness" => HarnessInv) /\ [PartsNext]_system
        => (part = "harness" => HarnessInv)'
    BY PartSteps, NextHarness
<1> QED BY <1>1, <1>2, PTL DEF PartsSpec

\* A cleanup of the test finds the manager and the sessions that were made
\* before it as the test has left them, whatever the test did and wherever it
\* stopped.
THEOREM CleanupsFindSessions == PartsSpec => []CleanupFindsItsSessions
<1>1. ASSUME HarnessInv PROVE H!CleanupFindsItsSessions
    <2> SUFFICES ASSUME H!InClose, next > 0, passes = 1, H!Current \in Function
                 PROVE  /\ manager = "open"
                        /\ \A i \in 1 .. Len(cleanup) :
                              cleanup[i] \in Tested \ dropped
                                  /\ (\E j \in i + 1 .. Len(cleanup) : cleanup[j] = H!Current)
                                  => session[cleanup[i]] = "open"
        BY DEF H!CleanupFindsItsSessions
    <2>1. manager = "open" /\ FindsOpen(next)
        BY <1>1 DEF HarnessInv
    <2>2. Len(cleanup) \in Nat /\ next \in 1 .. Len(cleanup)
        BY <1>1 DEF HarnessInv
    <2>3. ASSUME NEW i \in 1 .. Len(cleanup), NEW j \in i + 1 .. Len(cleanup),
                 cleanup[j] = H!Current
          PROVE  i \in 1 .. next
        <3>1. j \in 1 .. Len(cleanup)
            BY <2>2
        <3>2. j = next
            BY <1>1, <2>2, <2>3, <3>1 DEF HarnessInv, H!Current
        <3> QED BY <2>2, <3>2
    <2> QED BY <2>1, <2>3 DEF FindsOpen
<1>2. (part = "harness" => HarnessInv) => CleanupFindsItsSessions
    BY <1>1 DEF CleanupFindsItsSessions
<1> QED BY <1>2, HarnessHolds, PTL

-----------------------------------------------------------------------------
(* Induction.  The theorems of the library take a predicate as parameter,  *)
(* which no prover here can instantiate; these take a set.                 *)

\* Every set of naturals that is not empty has a least element.
LEMMA LeastNumber ==
    ASSUME NEW Nums, Nums \subseteq Nat, Nums # {}
    PROVE  \E n \in Nums : \A m \in Nums : n <= m
<1> DEFINE less == OpToRel(<, Nat)
<1>1. IsWellFoundedOn(less, Nat)
    BY NatLessThanWellFounded
<1>2. \A x, y \in Nat : <<y, x>> \in less <=> y < x
    BY DEF OpToRel
<1> HIDE DEF less
<1>3. PICK n \in Nums : \A m \in Nums : ~(<<m, n>> \in less)
    BY <1>1, WFMin
<1>4. ASSUME NEW m \in Nums PROVE n <= m
    <2>1. ~(m < n)
        BY <1>2, <1>3
    <2> QED BY <2>1
<1> QED BY <1>4

\* What contains 0, and with every number the next one, contains all.
LEMMA NumbersFromZero ==
    ASSUME NEW Good, 0 \in Good, \A n \in Nat : n \in Good => n + 1 \in Good
    PROVE  \A n \in Nat : n \in Good
<1> SUFFICES ASSUME Nat \ Good # {} PROVE FALSE
    OBVIOUS
<1>1. PICK n \in Nat \ Good : \A m \in Nat \ Good : n <= m
    BY LeastNumber
<1>2. n - 1 \in Nat /\ n - 1 \in Good
    BY <1>1
<1> QED BY <1>1, <1>2

-----------------------------------------------------------------------------
(* Scheduler (scheduler.go, and selectAvailable in pool.go).               *)

\* What one iteration of the loop of selectAvailable makes of the list.
Iteration(pps, f, i) ==
    IF i = 0 THEN << >>
    ELSE IF pps[i] \in idle THEN Append(f[i - 1], pps[i])
    ELSE f[i - 1]

Loop(pps, n, f) == f = [i \in 0 .. n |-> Iteration(pps, f, i)]

\* The loop runs to its end: the recursion of Filtered has a solution.
LEMMA LoopRuns ==
    ASSUME NEW pps, NEW n \in Nat
    PROVE  \E f : Loop(pps, n, f)
<1> DEFINE Good == {m \in Nat : \E f : Loop(pps, m, f)}
<1>1. 0 \in Good
    <2>1. Loop(pps, 0, [i \in 0 .. 0 |-> << >>])
        BY DEF Loop, Iteration
    <2> QED BY <2>1
<1>2. ASSUME NEW m \in Nat, m \in Good PROVE m + 1 \in Good
    <2>1. PICK f : Loop(pps, m, f)
        BY <1>2
    <2> DEFINE g == [i \in 0 .. m + 1 |-> IF i <= m THEN f[i] ELSE Iteration(pps, f, i)]
    <2>2. ASSUME NEW i \in 0 .. m + 1 PROVE g[i] = Iteration(pps, g, i)
        <3>1. g[i] = Iteration(pps, f, i)
            BY <2>1 DEF Loop
        <3>2. i # 0 => i - 1 \in 0 .. m + 1 /\ i - 1 <= m /\ g[i - 1] = f[i - 1]
            OBVIOUS
        <3> HIDE DEF g
        <3> QED BY <3>1, <3>2 DEF Iteration
    <2>3. g = [i \in 0 .. m + 1 |-> g[i]]
        OBVIOUS
    <2>4. Loop(pps, m + 1, g)
        <3> HIDE DEF g
        <3> QED BY <2>2, <2>3 DEF Loop
    <2> QED BY <2>4
<1>3. \A m \in Nat : m \in Good
    <2> HIDE DEF Good
    <2> QED BY <1>1, <1>2, NumbersFromZero
<1> QED BY <1>3

\* Filtered is what the loop ends with.
LEMMA FilteredIsLoop ==
    ASSUME NEW pps, Len(pps) \in Nat
    PROVE  \E f : Loop(pps, Len(pps), f) /\ S!Filtered(pps) = f[Len(pps)]
<1> DEFINE f == CHOOSE g : Loop(pps, Len(pps), g)
<1>1. Loop(pps, Len(pps), f)
    BY LoopRuns
<1>2. S!Filtered(pps) = f[Len(pps)]
    BY DEF S!Filtered, Loop, Iteration
<1> QED BY <1>1, <1>2

\* A list without repetitions.
Distinct(list) == \A i, j \in 1 .. Len(list) : list[i] = list[j] => i = j

\* The available ones among the first n pages, each once.
Keeps(pps, n, list) ==
    /\ list \in Seq(Page) /\ Distinct(list)
    /\ \A p : (\E i \in 1 .. Len(list) : list[i] = p)
                <=> p \in idle /\ \E i \in 1 .. n : pps[i] = p

\* The loop keeps the pages that are available, and no other.
LEMMA LoopKeeps ==
    ASSUME NEW pps \in Seq(Page), Distinct(pps), NEW f, Loop(pps, Len(pps), f)
    PROVE  Keeps(pps, Len(pps), f[Len(pps)])
<1> DEFINE Good == {n \in Nat : n <= Len(pps) => Keeps(pps, n, f[n])}
<1>0. Len(pps) \in Nat
    OBVIOUS
<1>1. 0 \in Good
    <2>1. f[0] = << >>
        BY <1>0 DEF Loop, Iteration
    <2>2. << >> \in Seq(Page) /\ Len(<< >>) = 0
        OBVIOUS
    <2>3. Keeps(pps, 0, << >>)
        BY <2>2 DEF Keeps, Distinct
    <2> QED BY <2>1, <2>3
<1>2. ASSUME NEW n \in Nat, n \in Good PROVE n + 1 \in Good
    <2> SUFFICES ASSUME n + 1 <= Len(pps) PROVE Keeps(pps, n + 1, f[n + 1])
        OBVIOUS
    <2> DEFINE p == pps[n + 1]
    <2>1. Keeps(pps, n, f[n])
        BY <1>0, <1>2
    <2>2. n + 1 \in 1 .. Len(pps) /\ p \in Page
        BY <1>0
    <2>3. f[n + 1] = IF p \in idle THEN Append(f[n], p) ELSE f[n]
        <3>1. n + 1 \in 0 .. Len(pps) /\ n + 1 # 0 /\ (n + 1) - 1 = n
            BY <1>0, <2>2
        <3>2. f[n + 1] = Iteration(pps, f, n + 1)
            BY <3>1 DEF Loop
        <3> QED BY <3>1, <3>2 DEF Iteration
    <2>4. \A i \in 1 .. n : pps[i] # p
        BY <1>0, <2>2 DEF Distinct
    <2>5. \A q : (\E i \in 1 .. n + 1 : pps[i] = q) <=> q = p \/ \E i \in 1 .. n : pps[i] = q
        <3>1. \A i \in 1 .. n + 1 : i = n + 1 \/ i \in 1 .. n
            OBVIOUS
        <3>2. n + 1 \in 1 .. n + 1 /\ \A i \in 1 .. n : i \in 1 .. n + 1
            OBVIOUS
        <3> QED BY <3>1, <3>2
    <2> DEFINE r == f[n]
    <2>6. CASE p \notin idle
        <3> HIDE DEF p
        <3> QED BY <2>1, <2>3, <2>5, <2>6 DEF Keeps
    <2>7. CASE p \in idle
        <3>1. r \in Seq(Page) /\ Distinct(r) /\ \A i \in 1 .. Len(r) : r[i] # p
            BY <2>1, <2>4 DEF Keeps
        <3> HIDE DEF r, p
        <3>2. /\ Append(r, p) \in Seq(Page) /\ Len(r) \in Nat
              /\ Len(Append(r, p)) = Len(r) + 1
              /\ \A i \in 1 .. Len(r) : Append(r, p)[i] = r[i]
              /\ Append(r, p)[Len(r) + 1] = p
            BY <2>2, <3>1
        <3>3. \A i \in 1 .. Len(r) + 1 : i = Len(r) + 1 \/ i \in 1 .. Len(r)
            BY <3>2
        <3>4. Distinct(Append(r, p))
            BY <3>1, <3>2, <3>3 DEF Distinct
        <3>5. \A q : (\E i \in 1 .. Len(Append(r, p)) : Append(r, p)[i] = q)
                        <=> q = p \/ \E i \in 1 .. Len(r) : r[i] = q
            <4>1. Len(r) + 1 \in 1 .. Len(Append(r, p))
                    /\ \A i \in 1 .. Len(r) : i \in 1 .. Len(Append(r, p))
                BY <3>2
            <4> QED BY <3>2, <3>3, <4>1
        <3>6. \A q : (\E i \in 1 .. Len(r) : r[i] = q) <=> q \in idle /\ \E i \in 1 .. n : pps[i] = q
            BY <2>1 DEF Keeps, r
        <3>7. Keeps(pps, n + 1, Append(r, p))
            BY <2>5, <2>7, <3>2, <3>4, <3>5, <3>6 DEF Keeps
        <3> QED BY <2>3, <2>7, <3>7 DEF r
    <2> QED BY <2>6, <2>7
<1>3. \A n \in Nat : n \in Good
    <2> HIDE DEF Good
    <2> QED BY <1>1, <1>2, NumbersFromZero
<1> QED BY <1>0, <1>3

\* The slice holds every page once.
SliceInv ==
    /\ slice \in Seq(Page) /\ Distinct(slice)
    /\ \A p \in Page : \E i \in 1 .. Len(slice) : slice[i] = p
    /\ idle \subseteq Page

\* What Select is given when nobody has changed the pages meanwhile.
Offer == S!Filtered(slice)

\* Select is given every available page once.
LEMMA OfferIsIdle ==
    ASSUME SliceInv
    PROVE  /\ Offer \in Seq(Page) /\ Distinct(Offer)
           /\ \A p : p \in idle <=> \E i \in 1 .. Len(Offer) : Offer[i] = p
<1>1. slice \in Seq(Page) /\ Len(slice) \in Nat /\ Distinct(slice)
    BY DEF SliceInv
<1>2. PICK f : Loop(slice, Len(slice), f) /\ Offer = f[Len(slice)]
    BY <1>1, FilteredIsLoop DEF Offer
<1>3. Keeps(slice, Len(slice), Offer)
    BY <1>1, <1>2, LoopKeeps
<1> QED BY <1>3 DEF Keeps, SliceInv

\* Division with remainder.
Divides(k, n, q, r) == q \in Nat /\ r \in 0 .. n - 1 /\ k = n * q + r

\* What the next number leaves.
LEMMA DivideNext ==
    ASSUME NEW n \in Nat \ {0}, NEW k \in Nat, NEW q, NEW r, Divides(k, n, q, r)
    PROVE  \E p : Divides(k + 1, n, p, IF r = n - 1 THEN 0 ELSE r + 1)
<1>0. q \in Nat /\ r \in 0 .. n - 1 /\ k = n * q + r
    BY DEF Divides
<1>1. CASE r = n - 1
    <2>1. n * (q + 1) = n * q + n /\ n * q \in Nat
        BY <1>0
    <2>2. k + 1 = n * (q + 1) + 0
        BY <1>0, <1>1, <2>1
    <2>3. q + 1 \in Nat /\ 0 \in 0 .. n - 1
        BY <1>0
    <2>4. Divides(k + 1, n, q + 1, 0)
        BY <2>2, <2>3 DEF Divides
    <2> QED BY <1>1, <2>4
<1>2. CASE r # n - 1
    <2>1. n * q \in Nat
        BY <1>0
    <2>2. k + 1 = n * q + (r + 1) /\ r + 1 \in 0 .. n - 1
        BY <1>0, <1>2, <2>1
    <2>3. Divides(k + 1, n, q, r + 1)
        BY <1>0, <2>2 DEF Divides
    <2> QED BY <1>2, <2>3
<1> QED BY <1>1, <1>2

\* Every number can be divided.
LEMMA Division ==
    ASSUME NEW n \in Nat \ {0}
    PROVE  \A k \in Nat : \E q, r : Divides(k, n, q, r)
<1> DEFINE Good == {k \in Nat : \E q, r : Divides(k, n, q, r)}
<1>1. 0 \in Good
    <2>1. Divides(0, n, 0, 0)
        BY DEF Divides
    <2> QED BY <2>1
<1>2. ASSUME NEW k \in Nat, k \in Good PROVE k + 1 \in Good
    BY <1>2, DivideNext
<1>3. \A k \in Nat : k \in Good
    <2> HIDE DEF Good
    <2> QED BY <1>1, <1>2, NumbersFromZero
<1> QED BY <1>3

\* The remainder is what the division leaves.
LEMMA Remainder ==
    ASSUME NEW n \in Nat \ {0}, NEW k \in Nat, NEW q, NEW r, Divides(k, n, q, r)
    PROVE  k % n = r
<1>1. q \in Nat /\ r \in 0 .. n - 1 /\ k = n * q + r
    BY DEF Divides
<1> QED BY <1>1

\* The next value of the counter is the next position of the turn.
LEMMA NextPosition ==
    ASSUME NEW k \in Nat, NEW n \in Nat \ {0}
    PROVE  /\ k % n \in 0 .. n - 1
           /\ (k + 1) % n = IF k % n = n - 1 THEN 0 ELSE (k % n) + 1
<1>1. PICK q, r : Divides(k, n, q, r)
    BY Division
<1>2. k % n = r /\ r \in 0 .. n - 1
    BY <1>1, Remainder DEF Divides
<1>3. PICK p : Divides(k + 1, n, p, IF r = n - 1 THEN 0 ELSE r + 1)
    BY <1>1, DivideNext
<1>4. (k + 1) % n = IF r = n - 1 THEN 0 ELSE r + 1
    <2>1. k + 1 \in Nat
        OBVIOUS
    <2> QED BY <1>3, <2>1, Remainder
<1> QED BY <1>2, <1>4

\* i comes before j in the turn that goes on at position r + 1.
Sooner(i, j, r) ==
    \/ i > r /\ j <= r
    \/ i < j /\ (i > r <=> j > r)

\* The picks t of n pages are even, and who is sooner has not had more.
Fair(n, r, t) ==
    \A i, j \in 1 .. n : t[i] <= t[j] + 1 /\ (Sooner(i, j, r) => t[i] <= t[j])

\* A pick of the page whose turn it is keeps the picks fair.
LEMMA TurnPasses ==
    ASSUME NEW n \in Nat \ {0}, NEW r \in 0 .. n - 1, NEW t \in [1 .. n -> Nat],
           Fair(n, r, t), NEW u \in [1 .. n -> Nat], u[r + 1] = t[r + 1] + 1,
           \A i \in 1 .. n : i # r + 1 => u[i] = t[i]
    PROVE  Fair(n, IF r = n - 1 THEN 0 ELSE r + 1, u)
<1> DEFINE s == IF r = n - 1 THEN 0 ELSE r + 1
<1>0. /\ r + 1 \in 1 .. n /\ r \in Nat /\ r < n
      /\ \A i \in 1 .. n : i \in Nat /\ t[i] \in Nat /\ u[i] \in Nat
    OBVIOUS
<1>1. ASSUME NEW i \in 1 .. n PROVE t[r + 1] <= t[i] /\ t[i] <= t[r + 1] + 1
    <2>1. i = r + 1 \/ Sooner(r + 1, i, r)
        BY <1>0 DEF Sooner
    <2>2. i # r + 1 => t[r + 1] <= t[i]
        BY <1>0, <2>1 DEF Fair
    <2>3. t[i] <= t[r + 1] + 1
        BY <1>0 DEF Fair
    <2> QED BY <1>0, <2>2, <2>3
<1>2. ASSUME NEW i \in 1 .. n, NEW j \in 1 .. n PROVE u[i] <= u[j] + 1
    <2>1. t[i] <= t[j] + 1
        BY DEF Fair
    <2>2. t[i] <= t[r + 1] + 1 /\ t[r + 1] <= t[j]
        BY <1>1
    <2>3. /\ u[i] = IF i = r + 1 THEN t[r + 1] + 1 ELSE t[i]
          /\ u[j] = IF j = r + 1 THEN t[r + 1] + 1 ELSE t[j]
        OBVIOUS
    <2> QED BY <1>0, <2>1, <2>2, <2>3
<1>3. ASSUME NEW i \in 1 .. n, NEW j \in 1 .. n, Sooner(i, j, s) PROVE u[i] <= u[j]
    <2>1. CASE j = r + 1 /\ i # r + 1
        <3>1. u[j] = t[r + 1] + 1 /\ u[i] = t[i]
            BY <2>1
        <3>2. t[i] <= t[r + 1] + 1
            BY <1>1
        <3> QED BY <3>1, <3>2
    <2>2. CASE i = r + 1
        BY <1>0, <1>3, <2>2 DEF Sooner
    <2>3. CASE j # r + 1 /\ i # r + 1
        <3>1. Sooner(i, j, r)
            BY <1>0, <1>3, <2>3 DEF Sooner
        <3>2. t[i] <= t[j]
            BY <3>1 DEF Fair
        <3> QED BY <2>3, <3>2
    <2> QED BY <2>1, <2>2, <2>3
<1> HIDE DEF s
<1>4. Fair(n, s, u)
    BY <1>2, <1>3 DEF Fair
<1> QED BY <1>4 DEF s

\* How often the pages on offer were picked.
Picks == [i \in 1 .. Len(Offer) |-> turns[Offer[i]]]

EvenInv ==
    /\ SliceInv
    /\ turns \in [Page -> Nat]
    /\ counter \in Nat
    /\ Offer # << >> => Fair(Len(Offer), counter % Len(Offer), Picks)

\* Picks are numbers.
LEMMA PicksTyped ==
    SliceInv /\ turns \in [Page -> Nat]
        => Offer \in Seq(Page) /\ Len(Offer) \in Nat /\ Picks \in [1 .. Len(Offer) -> Nat]
<1> SUFFICES ASSUME SliceInv, turns \in [Page -> Nat]
             PROVE  Offer \in Seq(Page) /\ Len(Offer) \in Nat /\ Picks \in [1 .. Len(Offer) -> Nat]
    OBVIOUS
<1>1. Offer \in Seq(Page) /\ Len(Offer) \in Nat
    BY OfferIsIdle
<1>2. \A i \in 1 .. Len(Offer) : Offer[i] \in Page
    BY <1>1
<1> QED BY <1>1, <1>2 DEF Picks

\* Where no page was picked yet, all is even.
LEMMA NonePicked ==
    SliceInv /\ turns = [p \in Page |-> 0] /\ counter \in Nat => EvenInv
<1> SUFFICES ASSUME SliceInv, turns = [p \in Page |-> 0], counter \in Nat PROVE EvenInv
    OBVIOUS
<1>1. turns \in [Page -> Nat]
    OBVIOUS
<1>2. Offer \in Seq(Page) /\ \A i \in 1 .. Len(Offer) : Offer[i] \in Page
    BY <1>1, PicksTyped
<1>3. \A i \in 1 .. Len(Offer) : Picks[i] = 0
    BY <1>2 DEF Picks
<1>4. Fair(Len(Offer), counter % Len(Offer), Picks)
    BY <1>3 DEF Fair
<1> QED BY <1>1, <1>4 DEF EvenInv

\* The same in the next state.
LEMMA NonePickedNext ==
    SliceInv' /\ turns' = [p \in Page |-> 0] /\ counter' \in Nat => EvenInv'
<1>1. (SliceInv /\ turns = [p \in Page |-> 0] /\ counter \in Nat => EvenInv)'
    BY NonePicked, PTL
<1> QED BY <1>1

\* Nothing is on offer anew while pages stay as they are.
LEMMA OfferStays == UNCHANGED <<slice, idle>> => Offer' = Offer /\ (SliceInv => SliceInv')
BY DEF Offer, S!Filtered, SliceInv, Distinct

\* What a pick from the current offer does.
LEMMA RegularPick ==
    ASSUME EvenInv, NEW c \in Caller, S!Select(c), S!Regular(c)
    PROVE  EvenInv'
<1> DEFINE n == Len(Offer)  r == counter % n
<1>1. /\ pages[c] = Offer /\ Offer # << >> /\ counter + 1 < Modulus
      /\ picked' = Offer[1 + r] /\ counter' = (counter + 1) % Modulus
      /\ turns' = [turns EXCEPT ![picked'] = @ + 1] \/ turns' = [p \in Page |-> 0]
      /\ UNCHANGED <<slice, idle>>
    BY DEF S!Select, S!Regular, S!Choice, S!Disturbed, Offer
<1>2. SliceInv' /\ Offer' = Offer
    BY <1>1, OfferStays DEF EvenInv
<1>3. counter \in Nat /\ Modulus \in Nat \ {0} /\ counter' = counter + 1
    <2>1. counter \in Nat /\ Modulus \in Nat \ {0}
        BY PartsAssumption DEF EvenInv, S!SchedulerAssumption
    <2>2. Divides(counter + 1, Modulus, 0, counter + 1)
        BY <1>1, <2>1 DEF Divides
    <2>3. counter + 1 \in Nat
        BY <2>1
    <2> QED BY <1>1, <2>1, <2>2, <2>3, Remainder
<1>4. CASE turns' = [p \in Page |-> 0]
    <2>1. counter' \in Nat
        BY <1>3
    <2> QED BY <1>2, <1>4, <2>1, NonePickedNext
<1>5. CASE turns' = [turns EXCEPT ![picked'] = @ + 1]
    <2>1. /\ Offer \in Seq(Page) /\ n \in Nat \ {0} /\ Distinct(Offer)
          /\ turns \in [Page -> Nat] /\ Picks \in [1 .. n -> Nat]
        BY <1>1, PicksTyped, OfferIsIdle DEF EvenInv
    <2>2. r \in 0 .. n - 1 /\ counter' % n = IF r = n - 1 THEN 0 ELSE r + 1
        BY <1>3, <2>1, NextPosition
    <2> HIDE DEF n, r
    <2>3. r + 1 \in 1 .. n /\ 1 + r = r + 1
        BY <2>1, <2>2
    <2>4. picked' \in Page /\ turns' \in [Page -> Nat]
            /\ turns'[picked'] = turns[picked'] + 1
            /\ \A p \in Page : p # picked' => turns'[p] = turns[p]
        BY <1>1, <1>5, <2>1, <2>3 DEF n
    <2>5. \A i \in 1 .. n : Offer[i] \in Page /\ (i # r + 1 => Offer[i] # picked')
        BY <1>1, <2>1, <2>3 DEF Distinct, n
    <2>6. Picks' = [i \in 1 .. n |-> turns'[Offer[i]]]
        BY <1>2 DEF Picks, n
    <2>7. /\ Picks' \in [1 .. n -> Nat]
          /\ Picks'[r + 1] = Picks[r + 1] + 1
          /\ \A i \in 1 .. n : i # r + 1 => Picks'[i] = Picks[i]
        <3>1. \A i \in 1 .. n : Picks[i] = turns[Offer[i]] /\ Picks'[i] = turns'[Offer[i]]
            BY <2>6 DEF Picks, n
        <3>2. \A i \in 1 .. n : turns'[Offer[i]] \in Nat
            BY <2>4, <2>5
        <3>3. Offer[r + 1] = picked'
            BY <1>1, <2>3 DEF r
        <3>4. Picks' \in [1 .. n -> Nat]
            BY <2>6, <3>2
        <3> QED BY <2>3, <2>4, <2>5, <3>1, <3>3, <3>4
    <2>8. Fair(n, r, Picks)
        BY <1>1 DEF EvenInv, n, r
    <2>9. Fair(n, counter' % n, Picks')
        BY <2>1, <2>2, <2>7, <2>8, TurnPasses
    <2> QED BY <1>2, <1>3, <2>4, <2>9 DEF EvenInv, n
<1> QED BY <1>1, <1>4, <1>5

\* Replace moves a page to the end.
Moved(s, i) == Append(S!RemoveAt(s, i), s[i])

\* The pages behind it move up, and none is lost.
LEMMA ReplaceMoves ==
    ASSUME NEW s \in Seq(Page), NEW i \in 1 .. Len(s)
    PROVE  /\ Moved(s, i) \in Seq(Page) /\ Len(Moved(s, i)) = Len(s)
           /\ \A j \in 1 .. Len(s) :
                 Moved(s, i)[j] = IF j < i THEN s[j]
                                  ELSE IF j < Len(s) THEN s[j + 1] ELSE s[i]
<1> DEFINE p == s[i]
<1> DEFINE low == SubSeq(s, 1, i - 1)  high == SubSeq(s, i + 1, Len(s))
           rest == low \o high  new == Append(rest, p)
<1>0. Len(s) \in Nat /\ i \in Nat /\ 1 <= i /\ i <= Len(s) /\ p \in Page
    OBVIOUS
<1>1. low \in Seq(Page) /\ Len(low) = i - 1 /\ \A j \in 1 .. i - 1 : low[j] = s[j]
    BY <1>0
<1>2. /\ high \in Seq(Page) /\ Len(high) = Len(s) - i
      /\ \A j \in 1 .. Len(s) - i : high[j] = s[i + j]
    BY <1>0
<1> HIDE DEF low, high
<1>3. /\ rest \in Seq(Page) /\ Len(rest) = Len(s) - 1
      /\ \A j \in 1 .. Len(s) - 1 :
            rest[j] = IF j < i THEN low[j] ELSE high[j - (i - 1)]
    <2>1. rest \in Seq(Page) /\ Len(rest) = Len(s) - 1
        BY <1>0, <1>1, <1>2
    <2>2. \A j \in 1 .. i - 1 : rest[j] = low[j]
        BY <1>0, <1>1, <1>2
    <2>3. \A j \in i .. Len(s) - 1 : rest[j] = high[j - (i - 1)]
        BY <1>0, <1>1, <1>2
    <2> HIDE DEF rest
    <2> QED BY <1>0, <2>1, <2>2, <2>3
<1> HIDE DEF rest
<1>4. /\ new \in Seq(Page) /\ Len(new) = Len(s)
      /\ \A j \in 1 .. Len(s) - 1 : new[j] = rest[j]
      /\ new[Len(s)] = p
    BY <1>0, <1>3
<1> HIDE DEF new
<1>5. ASSUME NEW j \in 1 .. Len(s)
      PROVE  new[j] = IF j < i THEN s[j] ELSE IF j < Len(s) THEN s[j + 1] ELSE p
    <2>1. CASE j < i
        <3>1. j \in 1 .. Len(s) - 1 /\ j \in 1 .. i - 1
            BY <1>0, <2>1
        <3> QED BY <1>1, <1>3, <1>4, <2>1, <3>1
    <2>2. CASE j >= i /\ j < Len(s)
        <3>1. /\ j \in 1 .. Len(s) - 1 /\ ~(j < i)
              /\ j - (i - 1) \in 1 .. Len(s) - i /\ i + (j - (i - 1)) = j + 1
            BY <1>0, <2>2
        <3> QED BY <1>2, <1>3, <1>4, <2>2, <3>1
    <2>3. CASE j >= i /\ j = Len(s)
        BY <1>0, <1>4, <2>3
    <2> QED BY <1>0, <2>1, <2>2, <2>3
<1>6. new = Moved(s, i)
    BY DEF S!RemoveAt, Moved, new, rest, low, high
<1> QED BY <1>4, <1>5, <1>6

\* So a replacement keeps the slice in order.
LEMMA ReplaceKeeps ==
    ASSUME SliceInv, NEW p \in Page, S!Replace(p)
    PROVE  SliceInv'
<1>1. PICK i \in 1 .. Len(slice) :
          slice[i] = p /\ slice' = Append(S!RemoveAt(slice, i), p)
    BY DEF S!Replace
<1> DEFINE n == Len(slice)
<1>2. slice \in Seq(Page) /\ n \in Nat /\ Distinct(slice) /\ i \in 1 .. n
    BY DEF SliceInv
<1>2a. slice' = Moved(slice, i)
    BY <1>1 DEF Moved
<1>3. /\ slice' \in Seq(Page) /\ Len(slice') = n
      /\ \A j \in 1 .. n :
            slice'[j] = IF j < i THEN slice[j] ELSE IF j < n THEN slice[j + 1] ELSE p
    BY <1>1, <1>2, <1>2a, ReplaceMoves
<1> HIDE DEF n
<1>4. \A j, k \in 1 .. n : slice[j] = slice[k] => j = k
    BY <1>2 DEF Distinct, n
<1> DEFINE old == [j \in 1 .. n |-> IF j < i THEN j ELSE IF j < n THEN j + 1 ELSE i]
<1>5. \A j \in 1 .. n : old[j] \in 1 .. n /\ slice'[j] = slice[old[j]]
    BY <1>1, <1>2, <1>3
<1>6. \A j, k \in 1 .. n : old[j] = old[k] => j = k
    BY <1>2
<1>7. \A k \in 1 .. n : \E j \in 1 .. n : old[j] = k
    <2> SUFFICES ASSUME NEW k \in 1 .. n PROVE \E j \in 1 .. n : old[j] = k
        OBVIOUS
    <2>1. CASE k < i
        BY <1>2, <2>1
    <2>2. CASE k = i
        <3>1. n \in 1 .. n /\ old[n] = i
            BY <1>2
        <3> QED BY <2>2, <3>1
    <2>3. CASE k > i
        <3>1. k - 1 \in 1 .. n /\ old[k - 1] = k
            BY <1>2, <2>3
        <3> QED BY <3>1
    <2> QED BY <1>2, <2>1, <2>2, <2>3
<1> HIDE DEF old
<1>8. \A j, k \in 1 .. n : slice'[j] = slice'[k] => j = k
    BY <1>4, <1>5, <1>6
<1>9. \A q \in Page : \E j \in 1 .. n : slice'[j] = q
    <2> SUFFICES ASSUME NEW q \in Page PROVE \E j \in 1 .. n : slice'[j] = q
        OBVIOUS
    <2>1. PICK k \in 1 .. n : slice[k] = q
        BY DEF SliceInv, n
    <2>2. PICK j \in 1 .. n : old[j] = k
        BY <1>7
    <2> QED BY <1>5, <2>1, <2>2
<1>10. idle' \subseteq Page
    BY DEF S!Replace, SliceInv
<1> QED BY <1>3, <1>8, <1>9, <1>10 DEF SliceInv, Distinct

\* The slice begins with every page once.
LEMMA InitScheduler == S!Init => EvenInv
<1> SUFFICES ASSUME S!Init PROVE EvenInv
    OBVIOUS
<1> DEFINE d == 1 .. Cardinality(Page)
<1>1. IsFiniteSet(Page)
    BY PartsAssumption DEF S!SchedulerAssumption, S!IsFiniteSet, IsFiniteSet
<1>2. Cardinality(Page) \in Nat
    BY <1>1, FS_CardinalityType
<1>3. slice \in [d -> Page] /\ \A i, j \in d : i # j => slice[i] # slice[j]
    <2>1. S!Cardinality(Page) = Cardinality(Page)
        BY DEF S!Cardinality, Cardinality
    <2> QED BY <2>1 DEF S!Init, S!SetToSeqs
<1>4. slice \in Seq(Page) /\ Len(slice) = Cardinality(Page)
    BY <1>2, <1>3
<1>5. Distinct(slice)
    BY <1>3, <1>4 DEF Distinct
<1>6. \A p \in Page : \E i \in d : slice[i] = p
    <2>1. slice \in Injection(d, Page)
        BY <1>3 DEF Injection, IsInjective
    <2>2. Cardinality(d) = Cardinality(Page)
        BY <1>2, FS_Interval
    <2>3. slice \in Surjection(d, Page)
        BY <1>1, <2>1, <2>2, FS_Injection
    <2> QED BY <2>3 DEF Surjection
<1>7. SliceInv
    BY <1>4, <1>5, <1>6 DEF S!Init, SliceInv
<1> QED BY <1>7, NonePicked DEF S!Init

\* The invariant is inductive for the scheduler.
LEMMA NextScheduler == EvenInv /\ [S!Next]_(S!vars) => EvenInv'
<1> SUFFICES ASSUME EvenInv, [S!Next]_(S!vars) PROVE EvenInv'
    OBVIOUS
<1>0. SliceInv /\ counter \in Nat
    BY DEF EvenInv
<1>1. ASSUME UNCHANGED <<slice, idle, counter, turns>> PROVE EvenInv'
    BY <1>1, OfferStays DEF EvenInv, Picks
<1>2. ASSUME NEW c \in Caller, S!Filter(c) \/ S!SelectNone(c) PROVE EvenInv'
    BY <1>1, <1>2 DEF S!Filter, S!SelectNone, S!Undisturbed
<1>3. ASSUME NEW c \in Caller, S!Select(c) PROVE EvenInv'
    <2>1. CASE S!Regular(c)
        BY <1>3, <2>1, RegularPick
    <2>2. CASE ~S!Regular(c)
        <3>1. turns' = [p \in Page |-> 0] /\ UNCHANGED <<slice, idle>>
            BY <1>3, <2>2 DEF S!Select, S!Disturbed
        <3>2. counter' \in Nat
            <4>1. counter + 1 \in Nat /\ Modulus \in Nat \ {0}
                BY <1>0, PartsAssumption DEF S!SchedulerAssumption
            <4>2. (counter + 1) % Modulus \in 0 .. Modulus - 1
                BY <4>1, NextPosition
            <4> QED BY <1>3, <4>1, <4>2 DEF S!Select
        <3> QED BY <1>0, <3>1, <3>2, OfferStays, NonePickedNext
    <2> QED BY <2>1, <2>2
<1>4. ASSUME NEW p \in Page, S!Flip(p) PROVE EvenInv'
    <2>1. SliceInv'
        BY <1>0, <1>4 DEF S!Flip, SliceInv, Distinct
    <2> QED BY <1>0, <1>4, <2>1, NonePickedNext DEF S!Flip, S!Disturbed
<1>5. ASSUME NEW p \in Page, S!Replace(p) PROVE EvenInv'
    <2>1. SliceInv'
        BY <1>0, <1>5, ReplaceKeeps
    <2> QED BY <1>0, <1>5, <2>1, NonePickedNext DEF S!Replace, S!Disturbed
<1>6. CASE S!Reset
    <2>1. SliceInv'
        BY <1>0, <1>6, OfferStays DEF S!Reset
    <2> QED BY <1>6, <2>1, NonePickedNext DEF S!Reset, S!Disturbed
<1>7. CASE UNCHANGED S!vars
    BY <1>1, <1>7 DEF S!vars
<1> QED BY <1>2, <1>3, <1>4, <1>5, <1>6, <1>7 DEF S!Next

\* The invariant of the instance.
LEMMA SchedulerHolds == PartsSpec => [](part = "scheduler" => EvenInv)
<1>1. PartsInit => (part = "scheduler" => EvenInv)
    BY InitScheduler DEF PartsInit
<1>2. (part = "scheduler" => EvenInv) /\ [PartsNext]_system
        => (part = "scheduler" => EvenInv)'
    BY PartSteps, NextScheduler
<1> QED BY <1>1, <1>2, PTL DEF PartsSpec

\* Between two disturbances no available page gets two picks more than
\* another, for any number of pages, callers and values of the counter.
THEOREM RoundRobinIsEven == PartsSpec => []Even
<1>1. ASSUME EvenInv PROVE S!Even
    <2> SUFFICES ASSUME NEW p \in idle, NEW q \in idle PROVE turns[p] <= turns[q] + 1
        BY DEF S!Even
    <2>1. Offer \in Seq(Page) /\ \E i \in 1 .. Len(Offer) : Offer[i] = p
        BY <1>1, OfferIsIdle DEF EvenInv
    <2>2. PICK i, j \in 1 .. Len(Offer) : Offer[i] = p /\ Offer[j] = q
        BY <1>1, OfferIsIdle DEF EvenInv
    <2>3. Offer # << >>
        BY <2>2
    <2>4. Picks[i] <= Picks[j] + 1
        BY <1>1, <2>3 DEF EvenInv, Fair
    <2> QED BY <2>2, <2>4 DEF Picks
<1>2. (part = "scheduler" => EvenInv) => Even
    BY <1>1 DEF Even
<1> QED BY <1>2, SchedulerHolds, PTL

-----------------------------------------------------------------------------
(* Process monitor (process.go).                                           *)

Measure == [rss : Nat, exclusive : Nat, of : {"chromium", "other", "nothing"},
            refused : BOOLEAN]
Info == [id : Pid, memory : Measure]
Listing == Seq(Pid \cup {Junk})

\* Where GetProcessInfos is in the answer: what is left is its end.
Dealt == Len(answer) - Len(entries)

AnswerInv ==
    /\ answer \in Listing /\ entries \in Listing
    /\ Len(entries) <= Len(answer)
    /\ \A i \in 1 .. Len(entries) : entries[i] = answer[Dealt + i]
    /\ \A k, l \in 1 .. Len(answer) : answer[k] = answer[l] => k = l \/ answer[k] = Junk
    /\ asked \in {"memory", "maps", "append"} => entries # << >> /\ Head(entries) # Junk
    /\ asked = "returned" => entries = << >>

\* What has been dealt with is in the result, in the order of the answer.
ListedInv ==
    /\ \A i \in 1 .. Len(infos) : \E k \in 1 .. Dealt : answer[k] = infos[i].id
    /\ \A k \in 1 .. Dealt :
          answer[k] # Junk => \E i \in 1 .. Len(infos) : infos[i].id = answer[k]
    /\ \A i, j \in 1 .. Len(infos), k, l \in 1 .. Len(answer) :
          i < j /\ infos[i].id = answer[k] /\ infos[j].id = answer[l] => k < l

ProcessesInv ==
    /\ runs \in [Pid -> {"chromium", "other", "nothing"}]
    /\ memory \in Measure
    /\ infos \in Seq(Info)
    /\ asked = "send" => answer = << >> /\ infos = << >>
    /\ AnswerInv /\ ListedInv

\* Nothing has been asked for.
LEMMA InitProcesses == P!Init => ProcessesInv
<1> SUFFICES ASSUME P!Init PROVE ProcessesInv
    OBVIOUS
<1>1. memory \in Measure
    BY DEF P!Init, P!Unread, Measure
<1>2. /\ answer = << >> /\ entries = << >> /\ infos = << >> /\ asked = "send"
      /\ runs \in [Pid -> {"chromium", "other", "nothing"}]
    BY DEF P!Init
<1>3. Dealt = 0
    BY <1>2 DEF Dealt
<1>4. AnswerInv
    BY <1>2, <1>3 DEF AnswerInv, Listing
<1>5. ListedInv
    BY <1>2, <1>3 DEF ListedInv
<1> QED BY <1>1, <1>2, <1>4, <1>5 DEF ProcessesInv

\* An answer has every process once.
LEMMA AnswersKeeps ==
    ASSUME ProcessesInv, P!Answers
    PROVE  ProcessesInv'
<1>1. PICK list \in P!SeqOf(P!Chromium \cup {Junk}, MaxEntries) :
          /\ \A i, j \in 1 .. Len(list) : list[i] = list[j] => i = j \/ list[i] = Junk
          /\ entries' = list /\ answer' = list
    BY DEF P!Answers
<1>2. MaxEntries \in Nat
    BY PartsAssumption DEF P!ProcessInfoAssumption
<1>3. PICK m \in 0 .. MaxEntries : list \in [1 .. m -> P!Chromium \cup {Junk}]
    BY <1>1 DEF P!SeqOf
<1>4. list \in Listing
    BY <1>2, <1>3 DEF P!Chromium, Listing
<1>5. Len(list) \in Nat /\ Dealt' = 0
    BY <1>1, <1>4 DEF Dealt, Listing
<1>6. infos' = << >> /\ asked' = "parse" /\ UNCHANGED <<runs, memory>>
    BY DEF P!Answers, ProcessesInv
<1>7. AnswerInv'
    BY <1>1, <1>4, <1>5, <1>6 DEF AnswerInv
<1>8. ListedInv'
    BY <1>5, <1>6 DEF ListedInv
<1> QED BY <1>6, <1>7, <1>8 DEF ProcessesInv

\* The next entry is the first that has not been dealt with.
LEMMA NextEntry ==
    ASSUME AnswerInv, entries # << >>, entries' = Tail(entries), UNCHANGED answer,
           asked' = "parse"
    PROVE  /\ AnswerInv' /\ Dealt \in Nat /\ Dealt' = Dealt + 1
           /\ Dealt + 1 \in 1 .. Len(answer) /\ answer[Dealt + 1] = Head(entries)
<1>1. /\ Len(answer) \in Nat /\ Len(entries) \in Nat /\ 1 \in 1 .. Len(entries)
      /\ Len(entries) <= Len(answer)
    BY DEF AnswerInv, Listing
<1>2. /\ entries' \in Listing /\ Len(entries') = Len(entries) - 1
      /\ \A i \in 1 .. Len(entries) - 1 : entries'[i] = entries[i + 1]
    BY <1>1 DEF AnswerInv, Listing
<1>3. Dealt \in Nat /\ Dealt' = Dealt + 1 /\ Dealt + 1 \in 1 .. Len(answer)
    BY <1>1, <1>2 DEF Dealt
<1>4. answer[Dealt + 1] = Head(entries)
    BY <1>1 DEF AnswerInv, Listing
<1>5. ASSUME NEW i \in 1 .. Len(entries') PROVE entries'[i] = answer[Dealt' + i]
    <2>1. i \in 1 .. Len(entries) - 1 /\ i + 1 \in 1 .. Len(entries)
        BY <1>1, <1>2
    <2>2. entries[i + 1] = answer[Dealt + (i + 1)]
        BY <2>1 DEF AnswerInv
    <2>3. Dealt' + i = Dealt + (i + 1)
        BY <1>1, <1>3, <2>1
    <2> QED BY <1>2, <2>1, <2>2, <2>3
<1>6. AnswerInv'
    BY <1>1, <1>2, <1>5 DEF AnswerInv
<1> QED BY <1>3, <1>4, <1>6

\* An entry that makes no sense adds nothing.
LEMMA SkipsKeeps ==
    ASSUME ProcessesInv, P!Skips
    PROVE  ProcessesInv'
<1>1. /\ entries # << >> /\ Head(entries) = Junk /\ entries' = Tail(entries)
      /\ asked' = "parse" /\ UNCHANGED <<runs, answer, memory, infos>>
    BY DEF P!Skips
<1>2. /\ AnswerInv' /\ Dealt \in Nat /\ Dealt' = Dealt + 1
      /\ answer[Dealt + 1] = Junk
    BY <1>1, NextEntry DEF ProcessesInv
<1>3. ListedInv'
    <2>1. \A k \in 1 .. Dealt' : k \in 1 .. Dealt \/ answer[k] = Junk
        BY <1>2
    <2>2. 1 .. Dealt \subseteq 1 .. Dealt'
        BY <1>2
    <2>3. ListedInv
        BY DEF ProcessesInv
    <2> QED BY <1>1, <2>1, <2>2, <2>3 DEF ListedInv
<1> QED BY <1>1, <1>2, <1>3 DEF ProcessesInv

\* An entry that was read takes the next place, whatever its memory.
LEMMA AppendsKeeps ==
    ASSUME ProcessesInv, P!Appends
    PROVE  ProcessesInv'
<1> DEFINE this == Head(entries)  n == Len(infos)
           info == [id |-> this, memory |-> memory]
<1>1. /\ entries # << >> /\ this # Junk /\ entries' = Tail(entries)
      /\ infos' = Append(infos, info)
      /\ asked' = "parse" /\ UNCHANGED <<runs, answer, memory>>
    BY DEF P!Appends, P!Current, ProcessesInv, AnswerInv
<1>2. /\ AnswerInv' /\ Dealt \in Nat /\ Dealt' = Dealt + 1
      /\ Dealt + 1 \in 1 .. Len(answer) /\ answer[Dealt + 1] = this
    BY <1>1, NextEntry DEF ProcessesInv
<1>3. this \in Pid
    BY <1>1 DEF ProcessesInv, AnswerInv, Listing
<1>4. info \in Info /\ info.id = this
    BY <1>3 DEF ProcessesInv, Info
<1>5. infos \in Seq(Info) /\ n \in Nat
    BY DEF ProcessesInv
<1> HIDE DEF info, this
<1>6. /\ infos' \in Seq(Info) /\ Len(infos') = n + 1
      /\ infos'[n + 1] = info
      /\ \A i \in 1 .. n : infos'[i] = infos[i]
    BY <1>1, <1>4, <1>5
<1> HIDE DEF n
<1>7. Len(answer) \in Nat /\ Len(answer)' = Len(answer)
    BY <1>1 DEF ProcessesInv, AnswerInv, Listing
<1>8. ASSUME NEW k \in 1 .. Len(answer), answer[k] = this PROVE k = Dealt + 1
    BY <1>1, <1>2, <1>8 DEF ProcessesInv, AnswerInv
<1>9. \A i \in 1 .. n + 1 : i \in 1 .. n \/ i = n + 1
    BY <1>5
<1>10. \A k \in 1 .. Dealt' : k \in 1 .. Dealt \/ k = Dealt + 1
    BY <1>2
<1>11. ASSUME NEW i \in 1 .. n, NEW k \in 1 .. Len(answer), infos[i].id = answer[k]
       PROVE  k < Dealt + 1
    <2>1. PICK l \in 1 .. Dealt : answer[l] = infos[i].id
        BY DEF n, ProcessesInv, ListedInv
    <2>2. infos[i].id \in Pid /\ l \in 1 .. Len(answer)
        <3>1. infos[i] \in Info
            BY <1>5 DEF n
        <3> QED BY <1>2, <1>7, <3>1 DEF Info
    <2>3. Junk \notin Pid
        BY PartsAssumption DEF P!ProcessInfoAssumption
    <2>4. k = l
        BY <1>11, <2>1, <2>2, <2>3 DEF ProcessesInv, AnswerInv
    <2> QED BY <1>2, <2>4
<1>12. ASSUME NEW i \in 1 .. n + 1 PROVE \E k \in 1 .. Dealt' : answer'[k] = infos'[i].id
    <2>1. CASE i = n + 1
        <3>1. Dealt + 1 \in 1 .. Dealt'
            BY <1>2
        <3> QED BY <1>1, <1>2, <1>4, <1>6, <2>1, <3>1
    <2>2. CASE i \in 1 .. n
        <3>1. PICK k \in 1 .. Dealt : answer[k] = infos[i].id
            BY <2>2 DEF n, ProcessesInv, ListedInv
        <3>2. k \in 1 .. Dealt'
            BY <1>2
        <3> QED BY <1>1, <1>6, <2>2, <3>1, <3>2
    <2> QED BY <1>9, <2>1, <2>2
<1>13. ASSUME NEW k \in 1 .. Dealt', answer'[k] # Junk
       PROVE  \E i \in 1 .. n + 1 : infos'[i].id = answer'[k]
    <2>1. CASE k = Dealt + 1
        <3>1. n + 1 \in 1 .. n + 1
            BY <1>5
        <3> QED BY <1>1, <1>2, <1>4, <1>6, <2>1, <3>1
    <2>2. CASE k \in 1 .. Dealt
        <3>1. PICK i \in 1 .. n : infos[i].id = answer[k]
            BY <1>1, <1>13, <2>2 DEF n, ProcessesInv, ListedInv
        <3>2. i \in 1 .. n + 1
            BY <1>5
        <3> QED BY <1>1, <1>6, <3>1, <3>2
    <2> QED BY <1>10, <2>1, <2>2
<1>14. ASSUME NEW i \in 1 .. n + 1, NEW j \in 1 .. n + 1,
              NEW k \in 1 .. Len(answer), NEW l \in 1 .. Len(answer),
              i < j, infos'[i].id = answer[k], infos'[j].id = answer[l]
       PROVE  k < l
    <2>1. i \in 1 .. n
        BY <1>5, <1>14
    <2>2. CASE j = n + 1
        <3>1. l = Dealt + 1
            BY <1>4, <1>6, <1>8, <1>14, <2>2
        <3> QED BY <1>6, <1>11, <1>14, <2>1, <3>1
    <2>3. CASE j \in 1 .. n
        BY <1>6, <1>14, <2>1, <2>3 DEF n, ProcessesInv, ListedInv
    <2> QED BY <1>9, <2>2, <2>3
<1>15. ListedInv'
    BY <1>1, <1>6, <1>7, <1>12, <1>13, <1>14 DEF ListedInv
<1> QED BY <1>1, <1>2, <1>6, <1>15 DEF ProcessesInv

\* The steps between leave the lists alone.
LEMMA ListsStay ==
    ASSUME ProcessesInv, UNCHANGED <<entries, answer, infos>>,
           asked' # "send" \/ asked = "send",
           asked' \in {"memory", "maps", "append"}
               => entries # << >> /\ Head(entries) # Junk,
           asked' = "returned" => entries = << >>
    PROVE  /\ AnswerInv' /\ ListedInv'
           /\ infos' \in Seq(Info)
           /\ asked' = "send" => answer' = << >> /\ infos' = << >>
<1>1. Dealt' = Dealt
    BY DEF Dealt
<1> QED BY <1>1 DEF ProcessesInv, AnswerInv, ListedInv

\* The invariant is inductive for the process monitor.
LEMMA NextProcesses == ProcessesInv /\ [P!Next]_(P!vars) => ProcessesInv'
<1> SUFFICES ASSUME ProcessesInv, [P!Next]_(P!vars) PROVE ProcessesInv'
    OBVIOUS
<1>1. CASE P!Fails
    BY <1>1, ListsStay DEF P!Fails, ProcessesInv
<1>2. CASE P!Parses
    <2>1. memory' \in Measure
        BY <1>2 DEF P!Parses, P!Unread, Measure
    <2> QED BY <1>2, <2>1, ListsStay DEF P!Parses, ProcessesInv
<1>3. CASE P!ReadsBasic
    <2>1. P!Current \in Pid
        BY <1>3 DEF P!ReadsBasic, P!Current, ProcessesInv, AnswerInv, Listing
    <2>2. P!Refused \in Measure
        BY DEF P!Refused, P!Unread, Measure
    <2>3. ASSUME runs[P!Current] # "nothing"
          PROVE  [rss |-> P!RSS, exclusive |-> P!RSS, of |-> runs[P!Current],
                  refused |-> FALSE] \in Measure
        <3>1. runs[P!Current] \in {"chromium", "other", "nothing"}
            BY <2>1 DEF ProcessesInv
        <3> QED BY <3>1 DEF P!RSS, Measure
    <2>4. memory' \in Measure
        BY <1>3, <2>2, <2>3 DEF P!ReadsBasic
    <2> QED BY <1>3, <2>4, ListsStay DEF P!ReadsBasic, ProcessesInv, AnswerInv
<1>4. CASE P!ReadsMaps
    <2>1. memory' \in Measure
        BY <1>4 DEF P!ReadsMaps, P!PSS, Measure, ProcessesInv
    <2> QED BY <1>4, <2>1, ListsStay DEF P!ReadsMaps, ProcessesInv, AnswerInv
<1>5. CASE P!Returns
    BY <1>5, ListsStay DEF P!Returns, ProcessesInv
<1>6. ASSUME NEW p \in Pid, P!Changes(p) PROVE ProcessesInv'
    BY <1>6, ListsStay DEF P!Changes, ProcessesInv, AnswerInv
<1>7. CASE UNCHANGED P!vars
    BY <1>7, ListsStay DEF P!vars, ProcessesInv, AnswerInv
<1> QED BY <1>1, <1>2, <1>3, <1>4, <1>5, <1>6, <1>7, AnswersKeeps, SkipsKeeps,
           AppendsKeeps DEF P!Next

\* The invariant of the instance.
LEMMA ProcessesHold == PartsSpec => [](part = "process" => ProcessesInv)
<1>1. PartsInit => (part = "process" => ProcessesInv)
    BY InitProcesses DEF PartsInit
<1>2. (part = "process" => ProcessesInv) /\ [PartsNext]_system
        => (part = "process" => ProcessesInv)'
    BY PartSteps, NextProcesses
<1> QED BY <1>1, <1>2, PTL DEF PartsSpec

\* The list has every process of the browser's answer, and nothing else, in
\* its order, whatever runs under the ids meanwhile and whatever can be read,
\* for answers of any length.
THEOREM ListIsComplete == PartsSpec => []EveryProcessListed
<1>1. ASSUME ProcessesInv PROVE P!EveryProcessListed
    <2> SUFFICES ASSUME asked = "returned"
                 PROVE  /\ {infos[i].id : i \in 1 .. Len(infos)} = P!ToSet(answer) \ {Junk}
                        /\ \A i, j \in 1 .. Len(infos), k, l \in 1 .. Len(answer) :
                              infos[i].id = answer[k] /\ infos[j].id = answer[l]
                                  => (i < j <=> k < l)
        BY DEF P!EveryProcessListed
    <2>1. /\ answer \in Listing /\ Len(answer) \in Nat /\ DOMAIN answer = 1 .. Len(answer)
          /\ Dealt = Len(answer)
        BY <1>1 DEF ProcessesInv, AnswerInv, Listing, Dealt
    <2>2. Len(infos) \in Nat /\ \A i \in 1 .. Len(infos) : infos[i].id \in Pid
        <3>1. /\ Len(infos) \in Nat
              /\ \A i \in 1 .. Len(infos) : infos[i] \in Info
            BY <1>1 DEF ProcessesInv
        <3> QED BY <3>1 DEF Info
    <2>3. Junk \notin Pid
        BY PartsAssumption DEF P!ProcessInfoAssumption
    <2>4. \A i \in 1 .. Len(infos) : infos[i].id \in P!ToSet(answer) \ {Junk}
        BY <1>1, <2>1, <2>2, <2>3 DEF ProcessesInv, ListedInv, P!ToSet
    <2>5. ASSUME NEW p \in P!ToSet(answer) \ {Junk}
          PROVE  \E i \in 1 .. Len(infos) : infos[i].id = p
        <3>1. PICK k \in 1 .. Len(answer) : answer[k] = p
            BY <2>1 DEF P!ToSet
        <3> QED BY <1>1, <2>1, <3>1 DEF ProcessesInv, ListedInv
    <2>6. ASSUME NEW i \in 1 .. Len(infos), NEW j \in 1 .. Len(infos),
                 NEW k \in 1 .. Len(answer), NEW l \in 1 .. Len(answer),
                 infos[i].id = answer[k], infos[j].id = answer[l]
          PROVE  i < j <=> k < l
        <3>1. answer[k] # Junk /\ answer[l] # Junk
            BY <2>2, <2>3, <2>6
        <3>2. CASE i < j
            BY <1>1, <2>6, <3>2 DEF ProcessesInv, ListedInv
        <3>3. CASE j < i
            <4>1. l < k
                BY <1>1, <2>6, <3>3 DEF ProcessesInv, ListedInv
            <4> QED BY <3>3, <4>1
        <3>4. CASE i = j
            <4>1. k = l
                BY <1>1, <2>6, <3>1, <3>4 DEF ProcessesInv, AnswerInv
            <4> QED BY <3>4, <4>1
        <3> QED BY <3>2, <3>3, <3>4
    <2> QED BY <2>4, <2>5, <2>6
<1>2. (part = "process" => ProcessesInv) => EveryProcessListed
    BY <1>1 DEF EveryProcessListed
<1> QED BY <1>2, ProcessesHold, PTL
=============================================================================
