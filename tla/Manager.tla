------------------------------ MODULE Manager -------------------------------
(***************************************************************************)
(* A BrowserManager that New has returned (manager.go): the sync.Map of    *)
(* sessions, CreateSession, CloseSession, Close and Do, for goroutines     *)
(* that call them at the same time.                                        *)
(*                                                                         *)
(* A session is what the manager sees of it: open, draining (its Close is  *)
(* under way) or closed.  A call that is refused, for the manager is       *)
(* closed, a name is not found or a configuration is not valid, changes    *)
(* nothing and is no step.                                                 *)
(***************************************************************************)
EXTENDS FiniteSets

CONSTANTS
    Name,     \* names of sessions
    Sess,     \* the *Session objects ever made: a bound
    Creator,  \* goroutines that call CreateSession
    Remover,  \* goroutines that call CloseSession, or Close of a session
    Shutter,  \* goroutines that call Close of the manager
    Doer,     \* goroutines that call Do
    Nil       \* nil

Actor == Creator \cup Remover \cup Shutter \cup Doer

ASSUME ManagerAssumption ==
    /\ Nil \notin Name \cup Sess
    /\ Creator \cap (Remover \cup Shutter \cup Doer) = {}
    /\ Remover \cap (Shutter \cup Doer) = {}
    /\ Shutter \cap Doer = {}

VARIABLES
    sessions,  \* m.sessions
    life,      \* of each session
    closed,    \* m.closed
    closeOnce, \* m.closeOnce
    browser,   \* m.browser
    driver,    \* m.pw
    todo,      \* registered names that the Range of Close has yet to reach
    seen,      \* names it has reached
    doomed,    \* history: the sessions registered when Close began
    pc,        \* where each goroutine is
    held,      \* the session it works on
    key        \* and the name

range == <<todo, seen, doomed>>
machine == <<closed, closeOnce, browser, driver, range>>
vars == <<sessions, life, machine, pc, held, key>>

At(a, label) == pc[a] = label
Goto(a, label) == pc' = [pc EXCEPT ![a] = label]
Hold(a, n, s) == key' = [key EXCEPT ![a] = n] /\ held' = [held EXCEPT ![a] = s]

GetSession(n) == sessions[n]
Registered == {n \in Name : sessions[n] # Nil}

Init ==
    /\ sessions = [n \in Name |-> Nil]
    /\ life = [s \in Sess |-> "none"]
    /\ closed = FALSE /\ closeOnce = "idle"
    /\ browser = "up" /\ driver = "up"
    /\ todo = {} /\ seen = {} /\ doomed = {}
    /\ pc = [a \in Actor |-> "out"]
    /\ held = [a \in Actor |-> Nil]
    /\ key = [a \in Actor |-> Nil]

-----------------------------------------------------------------------------
(* CreateSession.                                                          *)

\* The check of m.closed, and a session that nobody else knows.
Create(c, n, s) ==
    /\ At(c, "out")
    /\ ~closed
    /\ life[s] = "none" /\ \A a \in Actor : held[a] # s
    /\ Goto(c, "register") /\ Hold(c, n, s)
    /\ UNCHANGED <<sessions, life, machine>>

\* Mutant of Register: Store instead of LoadOrStore.
Register_Store(c) ==
    /\ At(c, "register")
    /\ sessions' = [sessions EXCEPT ![key[c]] = held[c]]
    /\ life' = [life EXCEPT ![held[c]] = "open"]
    /\ Goto(c, "out") /\ Hold(c, Nil, Nil)
    /\ UNCHANGED machine

Register(c) ==
    /\ At(c, "register")
    /\ GetSession(key[c]) = Nil
    /\ sessions' = [sessions EXCEPT ![key[c]] = held[c]]
    /\ life' = [life EXCEPT ![held[c]] = "open"]
    /\ Goto(c, "out") /\ Hold(c, Nil, Nil)
    /\ UNCHANGED machine

\* ErrSessionExists; the new session is dropped.
FindsDuplicate(c) ==
    /\ At(c, "register")
    /\ GetSession(key[c]) # Nil
    /\ Goto(c, "out") /\ Hold(c, Nil, Nil)
    /\ UNCHANGED <<sessions, life, machine>>

-----------------------------------------------------------------------------
(* CloseSession, and Close of a session that its user has kept.            *)

LoadAndDelete(r, n) ==
    /\ At(r, "out")
    /\ GetSession(n) # Nil
    /\ Hold(r, n, GetSession(n))
    /\ sessions' = [sessions EXCEPT ![n] = Nil]
    /\ todo' = todo \ {n}
    /\ Goto(r, "close")
    /\ UNCHANGED <<life, closed, closeOnce, browser, driver, seen, doomed>>

\* It stays registered.
KeepsAndCloses(r, n) ==
    /\ At(r, "out")
    /\ GetSession(n) # Nil
    /\ Hold(r, n, GetSession(n))
    /\ Goto(r, "close")
    /\ UNCHANGED <<sessions, life, machine>>

\* Where a caller of Session.Close goes when it returns.
AfterClose(a) == IF a \in Shutter THEN "forget" ELSE "out"

\* Session.Close: the first call drains and closes, any other does nothing.
BeginClose(a) ==
    /\ At(a, "close")
    /\ life[held[a]] = "open"
    /\ life' = [life EXCEPT ![held[a]] = "draining"]
    /\ Goto(a, "drain")
    /\ UNCHANGED <<sessions, machine, held, key>>

FindsClosing(a) ==
    /\ At(a, "close")
    /\ life[held[a]] # "open"
    /\ Goto(a, AfterClose(a))
    /\ held' = [held EXCEPT ![a] = Nil]
    /\ UNCHANGED <<sessions, life, machine, key>>

EndClose(a) ==
    /\ At(a, "drain")
    /\ life' = [life EXCEPT ![held[a]] = "closed"]
    /\ Goto(a, AfterClose(a))
    /\ held' = [held EXCEPT ![a] = Nil]
    /\ UNCHANGED <<sessions, machine, key>>

-----------------------------------------------------------------------------
(* Close of the manager.                                                   *)

AtDoor(k) == pc[k] \in {"out", "returned"}

\* Mutant of Await: it does not wait for the Close that is under way.
Await_NotAtAll(k) ==
    /\ AtDoor(k) /\ closeOnce # "idle"
    /\ Goto(k, "returned")
    /\ UNCHANGED <<sessions, life, machine, held, key>>

\* closeOnce has been taken by another call.
Await(k) ==
    /\ AtDoor(k) /\ closeOnce # "idle"
    /\ Goto(k, "await")
    /\ UNCHANGED <<sessions, life, machine, held, key>>

Awaited(k) ==
    /\ At(k, "await") /\ closeOnce = "done"
    /\ Goto(k, "returned")
    /\ UNCHANGED <<sessions, life, machine, held, key>>

\* m.closed.Store(true), and the Range begins.
BeginShutdown(k) ==
    /\ AtDoor(k) /\ closeOnce = "idle"
    /\ closeOnce' = "running"
    /\ closed' = TRUE
    /\ todo' = Registered
    /\ doomed' = {sessions[n] : n \in Registered}
    /\ Goto(k, "range")
    /\ UNCHANGED <<sessions, life, browser, driver, seen, held, key>>

\* sync.Map.Range reaches what is there all the time, and may or may not
\* reach what is stored meanwhile.
Visit(k, n) ==
    /\ At(k, "range")
    /\ n \notin seen /\ GetSession(n) # Nil
    /\ Hold(k, n, GetSession(n))
    /\ seen' = seen \cup {n} /\ todo' = todo \ {n}
    /\ Goto(k, "close")
    /\ UNCHANGED <<sessions, life, closed, closeOnce, browser, driver, doomed>>

\* m.sessions.Delete(key), whatever is registered there by now.
Forget(k) ==
    /\ At(k, "forget")
    /\ sessions' = [sessions EXCEPT ![key[k]] = Nil]
    /\ Goto(k, "range")
    /\ key' = [key EXCEPT ![k] = Nil]
    /\ UNCHANGED <<life, machine, held>>

\* Mutants of RangeEnds: the walk stops after one session (false instead of
\* true); the walk goes on as long as anything is registered.
RangeEnds_AtFirst(k) ==
    /\ At(k, "range")
    /\ todo = {} \/ seen # {}
    /\ Goto(k, "detaching")
    /\ UNCHANGED <<sessions, life, machine, held, key>>
RangeEnds_WhenEmpty(k) ==
    /\ At(k, "range")
    /\ Registered = {}
    /\ Goto(k, "detaching")
    /\ UNCHANGED <<sessions, life, machine, held, key>>

RangeEnds(k) ==
    /\ At(k, "range")
    /\ todo = {}
    /\ Goto(k, "detaching")
    /\ UNCHANGED <<sessions, life, machine, held, key>>

\* The CDP session is detached and the browser closed.  Their errors change
\* what is returned and nothing else.
CloseBrowser(k) ==
    /\ At(k, "detaching")
    /\ browser' = "closed"
    /\ Goto(k, "stopping")
    /\ UNCHANGED <<sessions, life, closed, closeOnce, driver, range, held, key>>

StopDriver(k) ==
    /\ At(k, "stopping")
    /\ driver' = "stopped" /\ closeOnce' = "done"
    /\ Goto(k, "await")
    /\ UNCHANGED <<sessions, life, closed, browser, range, held, key>>

-----------------------------------------------------------------------------
(* Do: a context and a page of its own, closed when the call returns.      *)

DoMoves(d, from, to) ==
    /\ At(d, from)
    /\ Goto(d, to)
    /\ UNCHANGED <<sessions, life, machine, held, key>>

Do(d) == ~closed /\ DoMoves(d, "out", "opening")

\* NewContext and NewPage of a closed browser fail.
DoRuns(d) == browser = "up" /\ DoMoves(d, "opening", "operate")
DoFails(d) == DoMoves(d, "opening", "out")
DoEnds(d) == DoMoves(d, "operate", "out")

-----------------------------------------------------------------------------
CreateStep(c) ==
    \/ \E n \in Name, s \in Sess : Create(c, n, s)
    \/ Register(c) \/ FindsDuplicate(c)

Closing(a) == BeginClose(a) \/ FindsClosing(a) \/ EndClose(a)

RemoveStep(r) ==
    \/ \E n \in Name : LoadAndDelete(r, n) \/ KeepsAndCloses(r, n)
    \/ Closing(r)

\* What Close does, once it has been called.
ShutdownStep(k) ==
    \/ Awaited(k) \/ (\E n \in Name : Visit(k, n)) \/ Closing(k) \/ Forget(k)
    \/ RangeEnds(k) \/ CloseBrowser(k) \/ StopDriver(k)

DoStep(d) == Do(d) \/ DoRuns(d) \/ DoFails(d) \/ DoEnds(d)

Next ==
    \/ \E c \in Creator : CreateStep(c)
    \/ \E r \in Remover : RemoveStep(r)
    \/ \E k \in Shutter : Await(k) \/ BeginShutdown(k) \/ ShutdownStep(k)
    \/ \E d \in Doer : DoStep(d)

Spec == Init /\ [][Next]_vars

\* A drain ends at its deadline, the browser answers, and a call of Close is
\* scheduled.  Nothing is assumed of the other callers.
FairSpec == Spec /\ \A k \in Shutter : WF_vars(ShutdownStep(k))

-----------------------------------------------------------------------------
(* Properties.                                                             *)

TypeOK ==
    /\ sessions \in [Name -> Sess \cup {Nil}]
    /\ life \in [Sess -> {"none", "open", "draining", "closed"}]
    /\ closed \in BOOLEAN
    /\ closeOnce \in {"idle", "running", "done"}
    /\ browser \in {"up", "closed"} /\ driver \in {"up", "stopped"}
    /\ todo \subseteq Name /\ seen \subseteq Name /\ doomed \subseteq Sess
    /\ pc \in [Actor -> {"out", "register", "close", "drain", "forget", "range",
                         "detaching", "stopping", "await", "returned",
                         "opening", "operate"}]
    /\ held \in [Actor -> Sess \cup {Nil}]
    /\ key \in [Actor -> Name \cup {Nil}]

\* Somebody is about to call Close of the session, or is inside it.
InHand(s) == \E a \in Remover \cup Shutter : pc[a] \in {"close", "drain"} /\ held[a] = s

Listed(s) == \E n \in Name : sessions[n] = s

\* As long as the manager is not being closed, a session that CreateSession
\* has returned can be found by its name until somebody closes it: no
\* creation replaces another, and no removal takes one that it does not close.
OpenIsListed ==
    ~closed => \A s \in Sess : life[s] = "open" => Listed(s) \/ InHand(s)

\* The browser is closed only after every session that was registered when
\* Close began has been closed, except what another goroutine is closing.
SessionsBeforeBrowser ==
    browser = "closed" =>
        \A s \in doomed :
            \/ life[s] = "closed"
            \/ \E r \in Remover : pc[r] \in {"close", "drain"} /\ held[r] = s

\* Where a call of Close is, for the Once.
Place(k) == CASE At(k, "out") -> "out"
              [] At(k, "returned") -> "back"
              [] OTHER -> "in"

\* Close runs once, and no call of it is back before everything is down.
CloseOnce == INSTANCE RunsOnce WITH
    Caller <- Shutter,
    body <- closeOnce,
    where <- [k \in Shutter |-> Place(k)]

CloseRunsOnce == CloseOnce!Spec

\* Every call of Close returns, whatever is created and closed meanwhile.
CloseReturns ==
    \A k \in Shutter : pc[k] \notin {"out", "returned"} ~> At(k, "returned")

-----------------------------------------------------------------------------
(* What the documents say and the code does not do.                        *)

\* manager.go: "Close shuts down the entire manager: all sessions, the
\* browser, and the Playwright process."
NothingOutlivesClose ==
    closeOnce = "done" => \A s \in Sess : life[s] = "open" => InHand(s)

\* manager.go: "GetSession returns an existing session by name."
NoOpenSessionUnlisted ==
    \A s \in Sess : life[s] = "open" => Listed(s) \/ InHand(s)

\* README.en.md: "Close() drains active ops, closes pages, contexts, browser".
NoDoCutShort == browser = "closed" => \A d \in Doer : ~At(d, "operate")
NoDrainCutShort == browser = "closed" => \A s \in Sess : life[s] # "draining"
=============================================================================
