------------------------------- MODULE Global -------------------------------
(***************************************************************************)
(* The global singleton (global.go): Global and all that call it,          *)
(* SetGlobalOptions and Shutdown, for goroutines that use them at the same *)
(* time.  A section under globalMu is one step where nothing in it takes   *)
(* time; Shutdown holds the mutex while it closes the manager.  Global     *)
(* reads and writes globalManager without the mutex, and so do its steps;  *)
(* a pointer is read in one piece.                                         *)
(***************************************************************************)
EXTENDS FiniteSets

CONSTANTS
    User,      \* goroutines that call Global, or a G function
    Setter,    \* goroutines that call SetGlobalOptions, each with its option
    Stopper,   \* goroutines that call Shutdown
    Nobody     \* globalMu is free

Actor == User \cup Setter \cup Stopper

ASSUME GlobalAssumption ==
    /\ Nobody \notin Actor
    /\ User \cap Setter = {} /\ User \cap Stopper = {} /\ Setter \cap Stopper = {}

VARIABLES
    globalOnce,
    globalMu,       \* who holds it
    globalManager,  \* the manager or nil
    globalInitErr,  \* whether it is an error
    globalOpts,     \* options stored
    early,          \* history: stored before the first call of Global
    manager,        \* the one manager that New has made: its life
    used,           \* and its options
    pc,             \* where each goroutine is
    answer          \* what Global has returned to each user

globals == <<globalOnce, globalMu, globalManager, globalInitErr>>
options == <<globalOpts, early, used>>
vars == <<globals, options, manager, pc, answer>>

At(a, label) == pc[a] = label
Goto(a, label) == pc' = [pc EXCEPT ![a] = label]

Free == globalMu = Nobody

Init ==
    /\ globalOnce = "idle" /\ globalMu = Nobody
    /\ globalManager = "nil" /\ globalInitErr = FALSE
    /\ globalOpts = {} /\ early = {} /\ used = {}
    /\ manager = "none"
    /\ pc = [a \in Actor |-> "out"]
    /\ answer = [u \in User |-> "none"]

-----------------------------------------------------------------------------
(* SetGlobalOptions.  Once there is a manager it does nothing: no step.    *)

SetGlobalOptions(a) ==
    /\ At(a, "out") /\ Free
    /\ globalManager = "nil"
    /\ globalOpts' = globalOpts \cup {a}
    /\ early' = (IF globalOnce = "idle" THEN early \cup {a} ELSE early)
    /\ UNCHANGED <<globals, used, manager, pc, answer>>

-----------------------------------------------------------------------------
(* Global.                                                                 *)

AtDoor(u) == pc[u] \in {"out", "returned"}

BeginInit(u) ==
    /\ AtDoor(u) /\ globalOnce = "idle"
    /\ globalOnce' = "running"
    /\ Goto(u, "read")
    /\ UNCHANGED <<globalMu, globalManager, globalInitErr, options, manager, answer>>

\* Mutant of Await: a flag in the place of the Once; nobody waits.
Await_NotAtAll(u) ==
    /\ AtDoor(u) /\ globalOnce # "idle"
    /\ answer' = [answer EXCEPT ![u] = IF globalInitErr THEN "error" ELSE globalManager]
    /\ Goto(u, "returned")
    /\ UNCHANGED <<globals, options, manager>>

Await(u) ==
    /\ AtDoor(u) /\ globalOnce # "idle"
    /\ Goto(u, "await")
    /\ UNCHANGED <<globals, options, manager, answer>>

\* Mutant of ReadOptions: New() instead of New(globalOpts...).
ReadOptions_NoOptions(u) ==
    /\ At(u, "read") /\ Free
    /\ used' = {}
    /\ Goto(u, "new")
    /\ UNCHANGED <<globals, globalOpts, early, manager, answer>>

ReadOptions(u) ==
    /\ At(u, "read") /\ Free
    /\ used' = globalOpts
    /\ Goto(u, "new")
    /\ UNCHANGED <<globals, globalOpts, early, manager, answer>>

NewSucceeds(u) ==
    /\ At(u, "new")
    /\ manager' = "up"
    /\ Goto(u, "store")
    /\ UNCHANGED <<globals, options, answer>>

\* Mutant of NewFails: the Once does not end.
NewFails_OnceOpen(u) ==
    /\ At(u, "new")
    /\ globalInitErr' = TRUE
    /\ Goto(u, "await")
    /\ UNCHANGED <<globalOnce, globalMu, globalManager, options, manager, answer>>

NewFails(u) ==
    /\ At(u, "new")
    /\ globalInitErr' = TRUE /\ globalOnce' = "done"
    /\ Goto(u, "await")
    /\ UNCHANGED <<globalMu, globalManager, options, manager, answer>>

StoreManager(u) ==
    /\ At(u, "store")
    /\ globalManager' = "manager" /\ globalOnce' = "done"
    /\ Goto(u, "await")
    /\ UNCHANGED <<globalMu, globalInitErr, options, manager, answer>>

GlobalReturns(u) ==
    /\ At(u, "await") /\ globalOnce = "done"
    /\ answer' = [answer EXCEPT ![u] = IF globalInitErr THEN "error" ELSE globalManager]
    /\ Goto(u, "returned")
    /\ UNCHANGED <<globals, options, manager>>

\* What a G function does with the answer: it returns the error or calls the
\* manager's method, which a nil manager does not survive.
GFunction(u) ==
    CASE answer[u] = "error"   -> "returns the error"
      [] answer[u] = "manager" -> "calls the manager"
      [] answer[u] = "nil"     -> "panics"
      [] OTHER                 -> "waits"

-----------------------------------------------------------------------------
(* Shutdown.                                                               *)

BeginShutdown(k) ==
    /\ pc[k] \in {"out", "returned"} /\ Free
    /\ Goto(k, IF globalManager = "nil" THEN "returned" ELSE "close")
    /\ globalMu' = (IF globalManager = "nil" THEN Nobody ELSE k)
    /\ UNCHANGED <<globalOnce, globalManager, globalInitErr, options, manager, answer>>

\* globalManager.Close(), which drains every session.
CloseManager(k) ==
    /\ At(k, "close")
    /\ manager' = "closed"
    /\ Goto(k, "forget")
    /\ UNCHANGED <<globals, options, answer>>

\* Mutant of EndShutdown: the pointer stays.
EndShutdown_Keeps(k) ==
    /\ At(k, "forget")
    /\ globalMu' = Nobody
    /\ Goto(k, "returned")
    /\ UNCHANGED <<globalOnce, globalManager, globalInitErr, options, manager, answer>>

EndShutdown(k) ==
    /\ At(k, "forget")
    /\ globalManager' = "nil" /\ globalMu' = Nobody
    /\ Goto(k, "returned")
    /\ UNCHANGED <<globalOnce, globalInitErr, options, manager, answer>>

-----------------------------------------------------------------------------
InitStep(u) ==
    \/ ReadOptions(u) \/ NewSucceeds(u) \/ NewFails(u)
    \/ StoreManager(u) \/ GlobalReturns(u)

ShutdownStep(k) == CloseManager(k) \/ EndShutdown(k)

Next ==
    \/ \E a \in Setter : SetGlobalOptions(a)
    \/ \E u \in User : BeginInit(u) \/ Await(u) \/ InitStep(u)
    \/ \E k \in Stopper : BeginShutdown(k) \/ ShutdownStep(k)

Spec == Init /\ [][Next]_vars

\* New and Close return, and whoever wants globalMu gets it, for its waiters
\* do not overtake each other for ever (a sync.Mutex is handed over to one
\* that has waited for long): strong fairness for the one who needs it.
FairSpec ==
    /\ Spec
    /\ \A u \in User : SF_vars(InitStep(u))
    /\ \A k \in Stopper : WF_vars(ShutdownStep(k))

-----------------------------------------------------------------------------
(* Properties.                                                             *)

\* Whatever is called when, at most one manager is made, and nobody is back
\* from Global before it has been made and stored, or has failed.
InitOnce == INSTANCE RunsOnce WITH
    Caller <- User,
    body <- globalOnce,
    where <- [u \in User |-> CASE At(u, "out") -> "out"
                               [] At(u, "returned") -> "back"
                               [] OTHER -> "in"]

InitRunsOnce == InitOnce!Spec

\* The running manager is never out of reach: globalManager is it, or the
\* goroutine that has made it is about to store it; and a manager that Global
\* would return is running, or a Shutdown is just about to forget it.
ManagerIsHeld ==
    /\ manager = "up" =>
          globalManager = "manager" \/ \E u \in User : At(u, "store")
    /\ globalManager = "manager" =>
          manager = "up" \/ \E k \in Stopper : At(k, "forget")

\* Options set before anybody called Global are the manager's, all of them.
EarlyOptionsCount == manager # "none" => early \subseteq used

\* Every call of Global returns, however often Shutdown is called.
GlobalComesBack ==
    \A u \in User : pc[u] \notin {"out", "returned"} ~> At(u, "returned")

-----------------------------------------------------------------------------
(* What the comment on Shutdown says and the code does not do.             *)

\* "and Global() will return the cached error": never nil without an error,
\* on which the G functions would panic.
ManagerOrError == \A u \in User : GFunction(u) # "panics"
=============================================================================
