------------------------------- MODULE Locks --------------------------------
(***************************************************************************)
(* The two read-write locks of a session, s.mu (session.go) and the p.mu   *)
(* of its pool (pool.go), and what every operation does with them, in the  *)
(* order in which it does it.  sync.RWMutex prefers writers: from the      *)
(* moment one calls Lock, no new reader gets in.                           *)
(*                                                                         *)
(* An operation is the sequence of its lock instructions, on its longest   *)
(* path; the operations it calls are spliced in.  A rebuild makes a new    *)
(* pool with a lock of its own: here both are p, which only adds waiting.  *)
(***************************************************************************)
EXTENDS Naturals, Sequences, FiniteSets

CONSTANTS
    Client,      \* goroutines that call operations of the session
    Background,  \* health checker and reaper of the pool
    Calls,       \* the names of the operations that clients call
    Nobody

Thread == Client \cup Background
Lock == {"s", "p"}

ASSUME LocksAssumption == Nobody \notin Thread /\ Client \cap Background = {}

Reading(l, body) == << <<"RLock", l>> >> \o body \o << <<"RUnlock", l>> >>
Writing(l, body) == << <<"Lock", l>> >> \o body \o << <<"Unlock", l>> >>

-----------------------------------------------------------------------------
(* pool.go and health.go.                                                  *)

Size == Reading("p", <<>>)
ActiveOps == Reading("p", <<>>)
tryAcquire == Reading("p", <<>>)
addPage == Writing("p", <<>>) \o Size
Acquire == tryAcquire \o Writing("p", <<>>) \o Size
replacePage == Writing("p", <<>>) \o Writing("p", <<>>)

\* wg.Wait() waits for the background goroutines, then the pages are closed.
PoolClose == << <<"Wait", "background">> >> \o Writing("p", <<>>)

\* One round of its polling.
Drain == ActiveOps
PoolStats == Reading("p", ActiveOps)
PoolIsHealthy == Reading("p", <<>>)
PoolHealthCheck == Reading("p", <<>>)
runHealthCheck == Reading("p", <<>>) \o replacePage
runReap == Reading("p", <<>>) \o Writing("p", <<>>) \o addPage

-----------------------------------------------------------------------------
(* session.go.                                                             *)

isClosed == Reading("s", <<>>)
isContextDead == Reading("s", <<>>)
buildContextLocked == addPage \o Size
ensureContext == Reading("s", <<>>) \o Writing("s", buildContextLocked)
rebuildContext == Writing("s", PoolClose \o buildContextLocked)
Do == isClosed \o ensureContext \o Reading("s", <<>>) \o isContextDead \o rebuildContext
DoShare == isClosed \o ensureContext \o Acquire \o isContextDead \o rebuildContext

\* Do with a ContextProvider whose Setup asks the session for its Status.
DoThatAsks ==
    isClosed \o Reading("s", <<>>) \o Writing("s", Reading("s", Size \o ActiveOps))

\* Mutant of Status: it takes its numbers from Stats of the pool.
Status_FromStats == Reading("s", PoolStats)

Status == Reading("s", Size \o ActiveOps)
IsHealthy == Reading("s", PoolIsHealthy)
HealthCheck == Reading("s", <<>>) \o PoolHealthCheck
Stats == Reading("s", <<>>) \o PoolStats
SessionClose == Writing("s", <<>>) \o Drain \o PoolClose

Program == [Do |-> Do, DoThatAsks |-> DoThatAsks,
            DoShare |-> DoShare, replacePage |-> replacePage,
            Status |-> Status, IsHealthy |-> IsHealthy, Stats |-> Stats,
            HealthCheck |-> HealthCheck, Close |-> SessionClose,
            runHealthCheck |-> runHealthCheck, runReap |-> runReap]

-----------------------------------------------------------------------------
VARIABLES
    rest,     \* the instructions that each goroutine has still to execute
    readers,  \* how many read locks of each lock each goroutine has
    pending   \* who has called Lock and not yet Unlock

vars == <<rest, readers, pending>>

Init ==
    /\ rest = [t \in Thread |-> <<>>]
    /\ readers = [l \in Lock |-> [t \in Thread |-> 0]]
    /\ pending = [l \in Lock |-> Nobody]

Instruction(t, what, l) == rest[t] # <<>> /\ Head(rest[t]) = <<what, l>>
Executed(t) == rest' = [rest EXCEPT ![t] = Tail(@)]

Begin(t) ==
    /\ rest[t] = <<>>
    /\ \E name \in IF t \in Client THEN Calls ELSE {"runHealthCheck", "runReap"} :
          rest' = [rest EXCEPT ![t] = Program[name]]
    /\ UNCHANGED <<readers, pending>>

RLock(t, l) ==
    /\ Instruction(t, "RLock", l)
    /\ pending[l] = Nobody
    /\ readers' = [readers EXCEPT ![l][t] = @ + 1]
    /\ Executed(t)
    /\ UNCHANGED pending

RUnlock(t, l) ==
    /\ Instruction(t, "RUnlock", l)
    /\ readers' = [readers EXCEPT ![l][t] = @ - 1]
    /\ Executed(t)
    /\ UNCHANGED pending

\* Lock, first half: keeps out other writers and new readers.
Announce(t, l) ==
    /\ Instruction(t, "Lock", l)
    /\ pending[l] = Nobody
    /\ pending' = [pending EXCEPT ![l] = t]
    /\ UNCHANGED <<rest, readers>>

\* Second half: the readers that were in have left.
Locked(t, l) ==
    /\ Instruction(t, "Lock", l)
    /\ pending[l] = t
    /\ \A u \in Thread : readers[l][u] = 0
    /\ Executed(t)
    /\ UNCHANGED <<readers, pending>>

Unlock(t, l) ==
    /\ Instruction(t, "Unlock", l)
    /\ pending' = [pending EXCEPT ![l] = Nobody]
    /\ Executed(t)
    /\ UNCHANGED readers

Wait(t) ==
    /\ Instruction(t, "Wait", "background")
    /\ \A b \in Background : rest[b] = <<>>
    /\ Executed(t)
    /\ UNCHANGED <<readers, pending>>

Next ==
    \E t \in Thread :
        \/ Begin(t) \/ Wait(t)
        \/ \E l \in Lock :
              RLock(t, l) \/ RUnlock(t, l) \/ Announce(t, l) \/ Locked(t, l) \/ Unlock(t, l)

Spec == Init /\ [][Next]_vars

-----------------------------------------------------------------------------
\* t cannot go on before u has.
WaitsFor(t, u) ==
    \/ \E l \in Lock :
          \/ Instruction(t, "RLock", l) /\ pending[l] = u
          \/ Instruction(t, "Lock", l) /\ pending[l] = u /\ u # t
          \/ Instruction(t, "Lock", l) /\ pending[l] = t /\ readers[l][u] > 0
    \/ Instruction(t, "Wait", "background") /\ u \in Background /\ rest[u] # <<>>

\* No goroutines wait for each other in a circle, over the two locks, over
\* the wait for the background goroutines, and over the preference of a
\* waiting writer to new readers.  session.go: "All exported methods are safe
\* for concurrent use."
NoCircularWait ==
    ~ \E S \in SUBSET Thread :
          S # {} /\ \A t \in S : \E u \in S : WaitsFor(t, u)
=============================================================================
