------------------------------ MODULE Harness -------------------------------
(***************************************************************************)
(* The manager of an integration test (test_scenarios/helpers/setup.go)    *)
(* and what is left of it when the test is over.  Cleanups are run last in *)
(* first out and then the manager is closed; the test may close sessions   *)
(* or the TestManager itself, and may stop at any step, by Fatalf or by    *)
(* returning, after which testing calls the Close that was registered.     *)
(***************************************************************************)
EXTENDS Naturals, Sequences

CONSTANTS
    Session,    \* the sessions a test may create, of different names
    Function    \* the test's own cleanups

\* What an instance has to assume.
HarnessAssumption == Session \cap Function = {}

VARIABLES
    test,       \* "new", "running", "closing" (in a Close of its own),
                \* "cleanup" (in testing's), "over"
    registered, \* t.Cleanup(tm.Close)
    manager,    \* "none", "open", "closed"
    session,    \* per session: the same
    cleanup,    \* tm.cleanup, by what each closes or is
    next,       \* how many of them Close has still to run
    passes,     \* history: the Close that runs, or the number of those that ran
    dropped     \* history: sessions that the test itself has closed

vars == <<test, registered, manager, session, cleanup, next, passes, dropped>>

Init ==
    /\ test = "new" /\ registered = FALSE
    /\ manager = "none"
    /\ session = [s \in Session |-> "none"]
    /\ cleanup = <<>> /\ next = 0 /\ passes = 0
    /\ dropped = {}

-----------------------------------------------------------------------------
(* Setting up.                                                             *)

NewTestManager ==
    /\ test = "new"
    /\ test' = "running" /\ manager' = "open"
    /\ registered' = TRUE
    /\ UNCHANGED <<session, cleanup, next, passes, dropped>>

\* New fails, and with it the test, before anything is registered.
NoTestManager ==
    /\ test = "new"
    /\ test' = "over"
    /\ UNCHANGED <<registered, manager, session, cleanup, next, passes, dropped>>

Creates(s) ==
    /\ test = "running" /\ manager = "open" /\ session[s] = "none"
    /\ session' = [session EXCEPT ![s] = "open"]
    /\ UNCHANGED <<test, registered, manager, next, passes, dropped>>

\* CreateSession and CreateSessionWithNavigation.
CreateSession(s) == Creates(s) /\ cleanup' = Append(cleanup, s)

\* CreateSessionWithFaultInjection leaves the session to the manager.
CreateWithFaultInjection(s) == Creates(s) /\ UNCHANGED cleanup

AddCleanup(f) ==
    /\ test = "running"
    /\ \A i \in 1 .. Len(cleanup) : cleanup[i] # f
    /\ cleanup' = Append(cleanup, f)
    /\ UNCHANGED <<test, registered, manager, session, next, passes, dropped>>

\* The test closes a session.
CloseSession(s) ==
    /\ test = "running" /\ session[s] = "open"
    /\ session' = [session EXCEPT ![s] = "closed"]
    /\ dropped' = dropped \cup {s}
    /\ UNCHANGED <<test, registered, manager, cleanup, next, passes>>

-----------------------------------------------------------------------------
(* Close, called by the test or by testing.                                *)

BeginsClose(stage) ==
    /\ test' = stage
    /\ next' = Len(cleanup)
    /\ passes' = passes + 1
    /\ UNCHANGED <<registered, manager, session, cleanup, dropped>>

CloseByTest == test = "running" /\ passes = 0 /\ BeginsClose("closing")

\* The test returns, or CreateSession calls Fatalf: its name is taken, its
\* options are refused, the manager is closed.
TestEnds ==
    /\ test = "running"
    /\ BeginsClose(IF registered THEN "cleanup" ELSE "over")

InClose == test \in {"closing", "cleanup"}

\* Mutant of Current: first in, first out.
Current_Fifo == cleanup[Len(cleanup) + 1 - next]

Current == cleanup[next]

\* A session that is closed already is not closed again.
RunCleanup ==
    /\ InClose /\ next > 0
    /\ session' = (IF Current \in Session THEN [session EXCEPT ![Current] = "closed"]
                   ELSE session)
    /\ next' = next - 1
    /\ UNCHANGED <<test, registered, manager, cleanup, passes, dropped>>

CloseManager ==
    /\ InClose /\ next = 0
    /\ manager' = "closed"
    /\ session' = [s \in Session |-> IF session[s] = "open" THEN "closed" ELSE session[s]]
    /\ test' = (IF test = "closing" THEN "running" ELSE "over")
    /\ UNCHANGED <<registered, cleanup, next, passes, dropped>>

AtRest == test = "over" /\ UNCHANGED vars

Next ==
    \/ NewTestManager \/ NoTestManager
    \/ \E s \in Session :
          CreateSession(s) \/ CreateWithFaultInjection(s) \/ CloseSession(s)
    \/ \E f \in Function : AddCleanup(f)
    \/ CloseByTest \/ TestEnds \/ RunCleanup \/ CloseManager
    \/ AtRest

Spec == Init /\ [][Next]_vars

-----------------------------------------------------------------------------
(* Properties.                                                             *)

\* A cleanup finds the sessions that were created before it was added as the
\* test has left them; at a second Close everything is closed.
CleanupFindsItsSessions ==
    InClose /\ next > 0 /\ passes = 1 /\ Current \in Function =>
        /\ manager = "open"
        /\ \A i \in 1 .. Len(cleanup) :
              cleanup[i] \in Session \ dropped
                  /\ (\E j \in i + 1 .. Len(cleanup) : cleanup[j] = Current)
                  => session[cleanup[i]] = "open"
=============================================================================
