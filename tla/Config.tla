------------------------------- MODULE Config -------------------------------
(***************************************************************************)
(* The configuration (config.go): New applies the options of its caller to *)
(* the defaults and validates the result; every CreateSession copies the   *)
(* pool's part, applies the session's own options to the copy and          *)
(* validates that (manager.go).  Only numbers are modelled, durations in   *)
(* seconds; headless, arguments, installation, logger and the strategy,    *)
(* which falls back to round-robin, are not looked at by any check.        *)
(***************************************************************************)
EXTENDS Integers, FiniteSets

CONSTANTS
    Session,    \* the names of sessions
    Value,      \* what options are given
    MaxOptions  \* per call: a bound

ASSUME ConfigAssumption == Value \subseteq Int /\ MaxOptions \in Nat

VARIABLES
    config,     \* the Config of the manager
    stage,      \* "options": NewConfig applies them; "running", "refused"
    left,       \* how many options may still come
    draft,      \* per session: poolCfg of its CreateSession
    created     \* the sessions that have been created

vars == <<config, stage, left, draft, created>>

PoolField == {"MinPages", "MaxPages", "TTL", "GracePeriod",
              "OperationTimeout", "InitTimeout", "HealthCheckInterval"}
Field == PoolField \cup {"BrowserTimeout"}

DefaultConfig == [
    MinPages |-> 1, MaxPages |-> 10, TTL |-> 1800, GracePeriod |-> 10,
    OperationTimeout |-> 30, InitTimeout |-> 30, HealthCheckInterval |-> 30,
    BrowserTimeout |-> 60]

\* Mutant of ValidPool: a grace period as long as the TTL is accepted.
ValidPool_Grace(p) ==
    /\ p["MinPages"] >= 0 /\ p["MaxPages"] >= 1
    /\ p["MinPages"] <= p["MaxPages"]
    /\ p["TTL"] >= 0 /\ p["GracePeriod"] >= 0
    /\ p["OperationTimeout"] > 0 /\ p["InitTimeout"] > 0
    /\ p["HealthCheckInterval"] >= 0

\* PoolConfig.Validate.
ValidPool(p) ==
    /\ p["MinPages"] >= 0 /\ p["MaxPages"] >= 1
    /\ p["MinPages"] <= p["MaxPages"]
    /\ p["TTL"] >= 0 /\ p["GracePeriod"] >= 0
    /\ p["TTL"] > 0 => p["GracePeriod"] < p["TTL"]
    /\ p["OperationTimeout"] > 0 /\ p["InitTimeout"] > 0
    /\ p["HealthCheckInterval"] >= 0

\* Config.Validate.
Valid(c) == ValidPool(c) /\ c["BrowserTimeout"] > 0

\* Config.Pool: the part of a Config that a session copies.
Pool(c) == [f \in PoolField |-> c[f]]

Init ==
    /\ config = [f \in Field |-> DefaultConfig[f]]
    /\ stage = "options" /\ left = MaxOptions
    /\ draft = [s \in {} |-> 0] /\ created = {}

-----------------------------------------------------------------------------
(* New.                                                                    *)

\* An Option: each sets one field.
Apply(f, v) ==
    /\ stage = "options" /\ left > 0
    /\ config' = [config EXCEPT ![f] = v]
    /\ left' = left - 1
    /\ UNCHANGED <<stage, draft, created>>

NewConfig ==
    /\ stage = "options"
    /\ stage' = (IF Valid(config) THEN "running" ELSE "refused")
    /\ left' = MaxOptions
    /\ UNCHANGED <<config, draft, created>>

-----------------------------------------------------------------------------
(* CreateSession.                                                          *)

Drafts == DOMAIN draft

Copy(s) ==
    /\ stage = "running" /\ s \notin Drafts
    /\ \A t \in Drafts : t \in created
    /\ draft' = [t \in Drafts \cup {s} |->
                    IF t = s THEN Pool(config) ELSE draft[t]]
    /\ left' = MaxOptions
    /\ UNCHANGED <<config, stage, created>>

\* A SessionOption.
Override(s, f, v) ==
    /\ s \in Drafts \ created /\ left > 0
    /\ draft' = [draft EXCEPT ![s][f] = v]
    /\ left' = left - 1
    /\ UNCHANGED <<config, stage, created>>

Create(s) ==
    /\ s \in Drafts \ created /\ ValidPool(draft[s])
    /\ created' = created \cup {s}
    /\ UNCHANGED <<config, stage, left, draft>>

\* The error is returned, and the copy is gone.
Refuse(s) ==
    /\ s \in Drafts \ created /\ ~ValidPool(draft[s])
    /\ draft' = [t \in Drafts \ {s} |-> draft[t]]
    /\ UNCHANGED <<config, stage, left, created>>

Next ==
    \/ \E f \in Field, v \in Value : Apply(f, v)
    \/ NewConfig
    \/ \E s \in Session :
        \/ Copy(s) \/ Create(s) \/ Refuse(s)
        \/ \E f \in PoolField, v \in Value : Override(s, f, v)

Spec == Init /\ [][Next]_vars

-----------------------------------------------------------------------------
(* What the pool does with it.                                             *)

\* isAvailable, for an idle page of a certain age.  createAndInitPage looks at
\* the clock before it calls Init, so a page has an age when it arrives.
Offered(p, age) ==
    ~(p["TTL"] > 0 /\ p["GracePeriod"] > 0 /\ age > p["TTL"] - p["GracePeriod"])

\* Start: what warmUp makes.  Acquire grows a pool below MaxPages.
WarmUp(p) == p["MinPages"]
CanGrow(p, size) == size < p["MaxPages"]

-----------------------------------------------------------------------------
(* Properties.                                                             *)

\* Whatever options the manager and the session were given, in whatever
\* order: the pool of a session that exists can serve a call.  The warm-up
\* does not go beyond MaxPages, there is a page then or one can be made, calls
\* and Init are given some time, and there is a time that Init may take, more
\* than none, so that a page that takes no longer is offered on arrival.
PoolsCanServe ==
    \A s \in created :
        LET p == draft[s] IN
        /\ WarmUp(p) <= p["MaxPages"]
        /\ WarmUp(p) > 0 \/ CanGrow(p, WarmUp(p))
        /\ p["OperationTimeout"] > 0
        /\ \E limit \in 1 .. p["InitTimeout"] :
              \A took \in 0 .. limit : Offered(p, took)

-----------------------------------------------------------------------------
(* What the comments of the code say and the code does not do.             *)

\* config.go: "Validate checks pool configuration for invalid or inconsistent
\* values": no page comes too late for callers from an Init that is in time.
InTimeIsOffered ==
    \A s \in created : \A took \in 0 .. draft[s]["InitTimeout"] :
        Offered(draft[s], took)
=============================================================================
