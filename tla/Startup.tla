------------------------------ MODULE Startup -------------------------------
(***************************************************************************)
(* The singleton together with what New does: Global, whose Once runs New, *)
(* whose init runs the Once of an Installer, starts the driver process and *)
(* launches the browser; and Shutdown, which closes the manager and with   *)
(* it browser and driver (shutdown in manager.go).  Other goroutines call  *)
(* Install of an Installer they share meanwhile, on the same directory.    *)
(***************************************************************************)
EXTENDS Global

CONSTANTS
    Sharer,     \* goroutines that call Install of the same Installer
    Shared      \* that Installer

VARIABLES once, installed, installErr, answers, disk, driver, browser,
    stage       \* where each goroutine is in New or in Install

L == INSTANCE Launch WITH Starter <- User, pc <- stage

ASSUME StartupAssumption == L!LaunchAssumption

launching ==
    <<once, installed, installErr, answers, disk, driver, browser, stage>>
singleton == vars
system == <<singleton, launching>>

StartupInit == Init /\ L!Init

\* A user is inside New from ReadOptions to its return.
InNew(u) == u \in User => At(u, "new")

\* The steps of New and Install.
LaunchStep(c) ==
    /\ InNew(c)
    /\ \/ L!InstallStep(c)
       \/ c \in User /\ L!InitStep(c)
    /\ UNCHANGED singleton

Calls(c) ==
    /\ InNew(c)
    /\ L!Call(c)
    /\ UNCHANGED singleton

\* New has returned; its answer decides how the Once ends.
InitEnds(u) ==
    /\ \/ stage[u] = "ready" /\ NewSucceeds(u)
       \/ stage[u] = "failed" /\ NewFails(u)
    /\ UNCHANGED launching

\* The steps of Global and SetGlobalOptions outside of New.
GlobalStep(u) == ReadOptions(u) \/ StoreManager(u) \/ GlobalReturns(u)

\* Close of the manager ends with browser.Close() and pw.Stop().
CloseAll(k) ==
    /\ CloseManager(k)
    /\ browser' = [c \in DOMAIN browser |->
                      IF browser[c] = "up" THEN "closed" ELSE browser[c]]
    /\ driver' = [c \in DOMAIN driver |->
                      IF driver[c] = "up" THEN "stopped" ELSE driver[c]]
    /\ UNCHANGED <<once, installed, installErr, answers, disk, stage>>

StartupNext ==
    \/ \E c \in L!Caller : Calls(c) \/ LaunchStep(c)
    \/ \E u \in User : InitEnds(u)
    \/ /\ \/ \E a \in Setter : SetGlobalOptions(a)
          \/ \E u \in User : BeginInit(u) \/ Await(u) \/ GlobalStep(u)
          \/ \E k \in Stopper : BeginShutdown(k) \/ EndShutdown(k)
       /\ UNCHANGED launching
    \/ \E k \in Stopper : CloseAll(k)

StartupSpec == StartupInit /\ [][StartupNext]_system

\* As in Global, and downloads, commands and the browser answer or fail; who
\* has called New goes on.
StartupFairSpec ==
    /\ StartupSpec
    /\ \A u \in User :
          /\ SF_system(GlobalStep(u) /\ UNCHANGED launching)
          /\ WF_system(Calls(u) \/ InitEnds(u))
    /\ \A c \in L!Caller : WF_system(LaunchStep(c))
    /\ \A k \in Stopper :
          WF_system(CloseAll(k) \/ (EndShutdown(k) /\ UNCHANGED launching))

-----------------------------------------------------------------------------
(* Properties.                                                             *)

\* No process is lost: what a user's New has started belongs to a New that is
\* under way, to the manager that its maker is about to store, or to the one
\* that Shutdown will find.
NoProcessLost ==
    \A u \in User : driver[u] = "up" \/ browser[u] = "up" =>
        pc[u] \in {"new", "store"} \/ globalManager = "manager"

\* All who call one Installer are told the same, and told of success only when
\* driver and browser are on disk.
OneAnswer == L!OneAnswer
=============================================================================
