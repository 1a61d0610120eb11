------------------------------- MODULE Logger -------------------------------
(***************************************************************************)
(* The loggers (logger.go).  A ZapAdapter has a level of its own before    *)
(* the level of the zap logger under it; the manager's logger is created   *)
(* once and every session derives one with With when it is created, so a   *)
(* later SetLevel on either meets loggers that were made before.  Fields   *)
(* and their conversion are left out.                                      *)
(***************************************************************************)
EXTENDS Naturals

CONSTANTS Adapter, NoAdapter

\* What an instance has to assume.
LoggerAssumption == NoAdapter \notin Adapter

VARIABLES
    core,       \* the zap logger under each: "none", "production",
                \* "development", or "nop" for a NopLogger
    level,      \* ZapAdapter.level
    source,     \* the logger it was derived from
    changed,    \* history: SetLevel was called on it or on its source since
    last        \* the last message: who logged it, how severe, was it written

vars == <<core, level, source, changed, last>>

DebugLevel == 0
InfoLevel == 1
ErrorLevel == 2
Severity == {"debug", "info", "warn", "error"}

Init ==
    /\ core = [l \in Adapter |-> "none"]
    /\ level = [l \in Adapter |-> InfoLevel]
    /\ source = [l \in Adapter |-> NoAdapter]
    /\ changed = {}
    /\ last = [by |-> NoAdapter, severity |-> "info", written |-> FALSE]

\* NewZapLogger and NewZapLoggerWithConfig(false), NewZapLoggerWithConfig(true),
\* NewZapLoggerFromZap of either, NewNopLogger.
New(l, kind) ==
    /\ core[l] = "none"
    /\ core' = [core EXCEPT ![l] = kind]
    /\ level' = [level EXCEPT ![l] = InfoLevel]
    /\ UNCHANGED <<source, changed, last>>

\* Mutant of With: the derived logger starts at the default level.
With_DefaultLevel(l, m) ==
    /\ core[l] = "none" /\ core[m] # "none"
    /\ core' = [core EXCEPT ![l] = core[m]]
    /\ level' = [level EXCEPT ![l] = InfoLevel]
    /\ source' = [source EXCEPT ![l] = m]
    /\ UNCHANGED <<changed, last>>

With(l, m) ==
    /\ core[l] = "none" /\ core[m] # "none"
    /\ core' = [core EXCEPT ![l] = core[m]]
    /\ level' = [level EXCEPT ![l] = level[m]]
    /\ source' = [source EXCEPT ![l] = m]
    /\ UNCHANGED <<changed, last>>

SetLevel(l, v) ==
    /\ core[l] # "none"
    /\ level' = (IF core[l] = "nop" THEN level ELSE [level EXCEPT ![l] = v])
    /\ changed' = changed \cup {l} \cup {m \in Adapter : source[m] = l}
    /\ UNCHANGED <<core, source, last>>

\* zap's own level.
CoreWrites(l, severity) ==
    \/ core[l] = "development"
    \/ core[l] = "production" /\ severity # "debug"

Writes(l, severity) ==
    /\ CoreWrites(l, severity)
    /\ severity = "debug" => level[l] <= DebugLevel
    /\ severity = "info" => level[l] <= InfoLevel

Log(l, severity) ==
    /\ core[l] # "none"
    /\ last' = [by |-> l, severity |-> severity, written |-> Writes(l, severity)]
    /\ UNCHANGED <<core, level, source, changed>>

Next ==
    \E l \in Adapter :
        \/ New(l, "nop") \/ New(l, "production") \/ New(l, "development")
        \/ \E m \in Adapter : With(l, m)
        \/ \E v \in DebugLevel .. ErrorLevel : SetLevel(l, v)
        \/ \E severity \in Severity : Log(l, severity)

Spec == Init /\ [][Next]_vars

-----------------------------------------------------------------------------
(* Properties.                                                             *)

\* A session logs what its manager logs until somebody sets the level of one
\* of the two, however the manager's level was set before.
DerivedLogsAlike ==
    \A l \in Adapter \ changed : source[l] # NoAdapter =>
        \A severity \in Severity :
            Writes(l, severity) = Writes(source[l], severity)
=============================================================================
