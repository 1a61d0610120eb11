--------------------------- MODULE StartupProofs ---------------------------
(***************************************************************************)
(* What Global promises for any number of goroutines: the manager it has   *)
(* made is never out of Shutdown's reach, it is made once, and with the    *)
(* options set before; and, of the whole start, that no process is lost    *)
(* and that all callers of an Installer are told the same.                 *)
(***************************************************************************)
EXTENDS Startup, TLAPS

\* The steps of the body of the Once, and of a Shutdown that has a manager.
Inside == {"read", "new", "store"}
Closing == {"close", "forget"}

TypeOK ==
    /\ globalOnce \in {"idle", "running", "done"}
    /\ globalMu \in Actor \cup {Nobody}
    /\ globalManager \in {"nil", "manager"}
    /\ globalInitErr \in BOOLEAN
    /\ manager \in {"none", "up", "closed"}
    /\ DOMAIN pc = Actor
    /\ DOMAIN answer = User

\* Which labels each kind of goroutine comes to.
Roles ==
    /\ \A u \in User : pc[u] \in {"out", "await", "returned"} \cup Inside
    /\ \A k \in Stopper : pc[k] \in {"out", "returned"} \cup Closing

\* One goroutine is in the body of the Once, and only while it runs.
OneMaker ==
    /\ \A u \in User : pc[u] \in Inside => globalOnce = "running"
    /\ \A u, v \in User : pc[u] \in Inside /\ pc[v] \in Inside => u = v

\* There is no manager before New has made it, and no pointer to it before
\* it is stored.
NotYet ==
    /\ globalOnce = "idle" => manager = "none"
    /\ \A u \in User : pc[u] \in {"read", "new"} => manager = "none"
    /\ \A u \in User : pc[u] = "store" => manager = "up"
    /\ globalManager = "manager" => manager # "none"
    /\ \A u \in User : pc[u] \in Inside => globalManager = "nil"

\* One Shutdown has the mutex and the manager.
OneStopper ==
    /\ \A k \in Stopper : pc[k] \in Closing => globalMu = k
    /\ \A k \in Stopper : pc[k] \in Closing => globalManager = "manager"
    /\ \A k \in Stopper : pc[k] = "forget" => manager = "closed"

\* What was stored before the Once began is there when the options are read.
OptionsKept ==
    /\ \A o \in early : o \in globalOpts
    /\ \A u \in User : pc[u] \in {"new", "store"} => \A o \in early : o \in used

GlobalInv ==
    /\ TypeOK /\ Roles /\ OneMaker /\ NotYet /\ OneStopper /\ OptionsKept
    /\ ManagerIsHeld /\ EarlyOptionsCount

\* One goroutine moves.
Only(a) == \A b \in Actor \ {a} : pc'[b] = pc[b]

\* Goroutines are of one kind each.
LEMMA Kinds ==
    /\ \A u \in User : u \in Actor /\ u \notin Setter /\ u \notin Stopper
    /\ \A k \in Stopper : k \in Actor /\ k \notin User /\ k \notin Setter
    /\ \A a \in Setter : a \in Actor /\ a \notin User /\ a \notin Stopper
    /\ \A a \in Actor : a # Nobody
BY GlobalAssumption DEF Actor

\* BeginInit keeps the invariant.
LEMMA BeginInitKeeps ==
    ASSUME GlobalInv, NEW u \in User, BeginInit(u)
    PROVE  GlobalInv'
<1>0. /\ TypeOK /\ Roles /\ OneMaker /\ NotYet /\ OneStopper /\ OptionsKept
     /\ ManagerIsHeld /\ EarlyOptionsCount
    BY DEF GlobalInv
<1>1. u \in Actor /\ Only(u)
    BY <1>0, Kinds DEF Only, TypeOK, BeginInit, Goto
<1>2. /\ pc[u] \in {"out", "returned"} /\ pc'[u] = "read"
      /\ globalOnce = "idle" /\ globalOnce' = "running"
      /\ UNCHANGED <<globalMu, globalManager, manager, globalOpts, early, used>>
    BY <1>0, <1>1 DEF TypeOK, BeginInit, At, Goto, globals, options, AtDoor
<1>3. TypeOK'
    BY <1>0, <1>1, Kinds DEF TypeOK, BeginInit, At, Goto, globals, options, AtDoor
<1>4. Roles'
    BY <1>0, <1>1, <1>2, Kinds DEF Only, Roles, Inside, Closing, TypeOK
<1>5. OneMaker'
    BY <1>0, <1>1, <1>2, Kinds DEF Only, OneMaker, Roles, Inside
<1>6. NotYet'
    BY <1>0, <1>1, <1>2, Kinds
       DEF Only, NotYet, OneMaker, OneStopper, Closing, Inside, TypeOK
<1>7. OneStopper'
    BY <1>0, <1>1, <1>2, Kinds
       DEF Only, OneStopper, Roles, NotYet, ManagerIsHeld, At, Closing, TypeOK
<1>8. OptionsKept'
    BY <1>0, <1>1, <1>2, Kinds DEF Only, OptionsKept, OneMaker, Inside
<1>9. ManagerIsHeld'
    BY <1>0, <1>1, <1>2, Kinds
       DEF Only, ManagerIsHeld, OneStopper, OneMaker, NotYet, Closing, Inside, Roles,
           At
<1>10. EarlyOptionsCount'
    BY <1>0, <1>1, <1>2, Kinds
       DEF Only, EarlyOptionsCount, OptionsKept, NotYet, OneStopper, Closing
<1> QED BY <1>3, <1>4, <1>5, <1>6, <1>7, <1>8, <1>9, <1>10 DEF GlobalInv

\* Await keeps the invariant.
LEMMA AwaitKeeps ==
    ASSUME GlobalInv, NEW u \in User, Await(u)
    PROVE  GlobalInv'
<1>0. /\ TypeOK /\ Roles /\ OneMaker /\ NotYet /\ OneStopper /\ OptionsKept
     /\ ManagerIsHeld /\ EarlyOptionsCount
    BY DEF GlobalInv
<1>1. u \in Actor /\ Only(u)
    BY <1>0, Kinds DEF Only, TypeOK, Await, Goto
<1>2. /\ pc[u] \in {"out", "returned"} /\ pc'[u] = "await"
      /\ UNCHANGED <<globalOnce, globalMu, globalManager, manager, globalOpts, early, used>>
    BY <1>0, <1>1 DEF TypeOK, Await, At, Goto, globals, options, AtDoor
<1>3. TypeOK'
    BY <1>0, <1>1, Kinds DEF TypeOK, Await, At, Goto, globals, options, AtDoor
<1>4. Roles'
    BY <1>0, <1>1, <1>2, Kinds DEF Only, Roles, Inside, Closing, TypeOK
<1>5. OneMaker'
    BY <1>0, <1>1, <1>2, Kinds DEF Only, OneMaker, Roles, Inside
<1>6. NotYet'
    BY <1>0, <1>1, <1>2, Kinds
       DEF Only, NotYet, OneMaker, OneStopper, Closing, Inside, TypeOK
<1>7. OneStopper'
    BY <1>0, <1>1, <1>2, Kinds
       DEF Only, OneStopper, Roles, NotYet, ManagerIsHeld, At, Closing, TypeOK
<1>8. OptionsKept'
    BY <1>0, <1>1, <1>2, Kinds DEF Only, OptionsKept, OneMaker, Inside
<1>9. ManagerIsHeld'
    BY <1>0, <1>1, <1>2, Kinds
       DEF Only, ManagerIsHeld, OneStopper, OneMaker, NotYet, Closing, Inside, Roles,
           At
<1>10. EarlyOptionsCount'
    BY <1>0, <1>1, <1>2, Kinds
       DEF Only, EarlyOptionsCount, OptionsKept, NotYet, OneStopper, Closing
<1> QED BY <1>3, <1>4, <1>5, <1>6, <1>7, <1>8, <1>9, <1>10 DEF GlobalInv

\* ReadOptions keeps the invariant.
LEMMA ReadOptionsKeeps ==
    ASSUME GlobalInv, NEW u \in User, ReadOptions(u)
    PROVE  GlobalInv'
<1>0. /\ TypeOK /\ Roles /\ OneMaker /\ NotYet /\ OneStopper /\ OptionsKept
     /\ ManagerIsHeld /\ EarlyOptionsCount
    BY DEF GlobalInv
<1>1. u \in Actor /\ Only(u)
    BY <1>0, Kinds DEF Only, TypeOK, ReadOptions, Goto
<1>2. /\ pc[u] = "read" /\ pc'[u] = "new"
      /\ used' = globalOpts
      /\ UNCHANGED <<globalOnce, globalMu, globalManager, manager, globalOpts, early>>
    BY <1>0, <1>1 DEF TypeOK, ReadOptions, At, Goto, globals, options, Free
<1>3. TypeOK'
    BY <1>0, <1>1, Kinds DEF TypeOK, ReadOptions, At, Goto, globals, options, Free
<1>4. Roles'
    BY <1>0, <1>1, <1>2, Kinds DEF Only, Roles, Inside, Closing, TypeOK
<1>5. OneMaker'
    BY <1>0, <1>1, <1>2, Kinds DEF Only, OneMaker, Roles, Inside
<1>6. NotYet'
    BY <1>0, <1>1, <1>2, Kinds
       DEF Only, NotYet, OneMaker, OneStopper, Closing, Inside, TypeOK
<1>7. OneStopper'
    BY <1>0, <1>1, <1>2, Kinds
       DEF Only, OneStopper, Roles, NotYet, ManagerIsHeld, At, Closing, TypeOK
<1>8. OptionsKept'
    BY <1>0, <1>1, <1>2, Kinds DEF Only, OptionsKept, OneMaker, Inside
<1>9. ManagerIsHeld'
    BY <1>0, <1>1, <1>2, Kinds
       DEF Only, ManagerIsHeld, OneStopper, OneMaker, NotYet, Closing, Inside, Roles,
           At
<1>10. EarlyOptionsCount'
    BY <1>0, <1>1, <1>2, Kinds
       DEF Only, EarlyOptionsCount, OptionsKept, NotYet, OneStopper, Closing
<1> QED BY <1>3, <1>4, <1>5, <1>6, <1>7, <1>8, <1>9, <1>10 DEF GlobalInv

\* NewSucceeds keeps the invariant.
LEMMA NewSucceedsKeeps ==
    ASSUME GlobalInv, NEW u \in User, NewSucceeds(u)
    PROVE  GlobalInv'
<1>0. /\ TypeOK /\ Roles /\ OneMaker /\ NotYet /\ OneStopper /\ OptionsKept
     /\ ManagerIsHeld /\ EarlyOptionsCount
    BY DEF GlobalInv
<1>1. u \in Actor /\ Only(u)
    BY <1>0, Kinds DEF Only, TypeOK, NewSucceeds, Goto
<1>2. /\ pc[u] = "new" /\ pc'[u] = "store"
      /\ manager' = "up"
      /\ UNCHANGED <<globalOnce, globalMu, globalManager, globalOpts, early, used>>
    BY <1>0, <1>1 DEF TypeOK, NewSucceeds, At, Goto, globals, options
<1>3. TypeOK'
    BY <1>0, <1>1, Kinds DEF TypeOK, NewSucceeds, At, Goto, globals, options
<1>4. Roles'
    BY <1>0, <1>1, <1>2, Kinds DEF Only, Roles, Inside, Closing, TypeOK
<1>5. OneMaker'
    BY <1>0, <1>1, <1>2, Kinds DEF Only, OneMaker, Roles, Inside
<1>6. NotYet'
    BY <1>0, <1>1, <1>2, Kinds
       DEF Only, NotYet, OneMaker, OneStopper, Closing, Inside, TypeOK
<1>7. OneStopper'
    BY <1>0, <1>1, <1>2, Kinds
       DEF Only, OneStopper, Roles, NotYet, ManagerIsHeld, At, Closing, TypeOK
<1>8. OptionsKept'
    BY <1>0, <1>1, <1>2, Kinds DEF Only, OptionsKept, OneMaker, Inside
<1>9. ManagerIsHeld'
    BY <1>0, <1>1, <1>2, Kinds
       DEF Only, ManagerIsHeld, OneStopper, OneMaker, NotYet, Closing, Inside, Roles,
           At
<1>10. EarlyOptionsCount'
    BY <1>0, <1>1, <1>2, Kinds
       DEF Only, EarlyOptionsCount, OptionsKept, NotYet, OneStopper, Closing
<1> QED BY <1>3, <1>4, <1>5, <1>6, <1>7, <1>8, <1>9, <1>10 DEF GlobalInv

\* NewFails keeps the invariant.
LEMMA NewFailsKeeps ==
    ASSUME GlobalInv, NEW u \in User, NewFails(u)
    PROVE  GlobalInv'
<1>0. /\ TypeOK /\ Roles /\ OneMaker /\ NotYet /\ OneStopper /\ OptionsKept
     /\ ManagerIsHeld /\ EarlyOptionsCount
    BY DEF GlobalInv
<1>1. u \in Actor /\ Only(u)
    BY <1>0, Kinds DEF Only, TypeOK, NewFails, Goto
<1>2. /\ pc[u] = "new" /\ pc'[u] = "await"
      /\ globalOnce' = "done"
      /\ UNCHANGED <<globalMu, globalManager, manager, globalOpts, early, used>>
    BY <1>0, <1>1 DEF TypeOK, NewFails, At, Goto, globals, options
<1>3. TypeOK'
    BY <1>0, <1>1, Kinds DEF TypeOK, NewFails, At, Goto, globals, options
<1>4. Roles'
    BY <1>0, <1>1, <1>2, Kinds DEF Only, Roles, Inside, Closing, TypeOK
<1>5. OneMaker'
    BY <1>0, <1>1, <1>2, Kinds DEF Only, OneMaker, Roles, Inside
<1>6. NotYet'
    BY <1>0, <1>1, <1>2, Kinds
       DEF Only, NotYet, OneMaker, OneStopper, Closing, Inside, TypeOK
<1>7. OneStopper'
    BY <1>0, <1>1, <1>2, Kinds
       DEF Only, OneStopper, Roles, NotYet, ManagerIsHeld, At, Closing, TypeOK
<1>8. OptionsKept'
    BY <1>0, <1>1, <1>2, Kinds DEF Only, OptionsKept, OneMaker, Inside
<1>9. ManagerIsHeld'
    BY <1>0, <1>1, <1>2, Kinds
       DEF Only, ManagerIsHeld, OneStopper, OneMaker, NotYet, Closing, Inside, Roles,
           At
<1>10. EarlyOptionsCount'
    BY <1>0, <1>1, <1>2, Kinds
       DEF Only, EarlyOptionsCount, OptionsKept, NotYet, OneStopper, Closing
<1> QED BY <1>3, <1>4, <1>5, <1>6, <1>7, <1>8, <1>9, <1>10 DEF GlobalInv

\* StoreManager keeps the invariant.
LEMMA StoreManagerKeeps ==
    ASSUME GlobalInv, NEW u \in User, StoreManager(u)
    PROVE  GlobalInv'
<1>0. /\ TypeOK /\ Roles /\ OneMaker /\ NotYet /\ OneStopper /\ OptionsKept
     /\ ManagerIsHeld /\ EarlyOptionsCount
    BY DEF GlobalInv
<1>1. u \in Actor /\ Only(u)
    BY <1>0, Kinds DEF Only, TypeOK, StoreManager, Goto
<1>2. /\ pc[u] = "store" /\ pc'[u] = "await"
      /\ globalManager' = "manager" /\ globalOnce' = "done"
      /\ UNCHANGED <<globalMu, manager, globalOpts, early, used>>
    BY <1>0, <1>1 DEF TypeOK, StoreManager, At, Goto, globals, options
<1>3. TypeOK'
    BY <1>0, <1>1, Kinds DEF TypeOK, StoreManager, At, Goto, globals, options
<1>4. Roles'
    BY <1>0, <1>1, <1>2, Kinds DEF Only, Roles, Inside, Closing, TypeOK
<1>5. OneMaker'
    BY <1>0, <1>1, <1>2, Kinds DEF Only, OneMaker, Roles, Inside
<1>6. NotYet'
    BY <1>0, <1>1, <1>2, Kinds
       DEF Only, NotYet, OneMaker, OneStopper, Closing, Inside, TypeOK
<1>7. OneStopper'
    BY <1>0, <1>1, <1>2, Kinds
       DEF Only, OneStopper, Roles, NotYet, ManagerIsHeld, At, Closing, TypeOK
<1>8. OptionsKept'
    BY <1>0, <1>1, <1>2, Kinds DEF Only, OptionsKept, OneMaker, Inside
<1>9. ManagerIsHeld'
    BY <1>0, <1>1, <1>2, Kinds
       DEF Only, ManagerIsHeld, OneStopper, OneMaker, NotYet, Closing, Inside, Roles,
           At
<1>10. EarlyOptionsCount'
    BY <1>0, <1>1, <1>2, Kinds
       DEF Only, EarlyOptionsCount, OptionsKept, NotYet, OneStopper, Closing
<1> QED BY <1>3, <1>4, <1>5, <1>6, <1>7, <1>8, <1>9, <1>10 DEF GlobalInv

\* GlobalReturns keeps the invariant.
LEMMA GlobalReturnsKeeps ==
    ASSUME GlobalInv, NEW u \in User, GlobalReturns(u)
    PROVE  GlobalInv'
<1>0. /\ TypeOK /\ Roles /\ OneMaker /\ NotYet /\ OneStopper /\ OptionsKept
     /\ ManagerIsHeld /\ EarlyOptionsCount
    BY DEF GlobalInv
<1>1. u \in Actor /\ Only(u)
    BY <1>0, Kinds DEF Only, TypeOK, GlobalReturns, Goto
<1>2. /\ pc[u] = "await" /\ pc'[u] = "returned"
      /\ UNCHANGED <<globalOnce, globalMu, globalManager, manager, globalOpts, early, used>>
    BY <1>0, <1>1 DEF TypeOK, GlobalReturns, At, Goto, globals, options
<1>3. TypeOK'
    BY <1>0, <1>1, Kinds DEF TypeOK, GlobalReturns, At, Goto, globals, options
<1>4. Roles'
    BY <1>0, <1>1, <1>2, Kinds DEF Only, Roles, Inside, Closing, TypeOK
<1>5. OneMaker'
    BY <1>0, <1>1, <1>2, Kinds DEF Only, OneMaker, Roles, Inside
<1>6. NotYet'
    BY <1>0, <1>1, <1>2, Kinds
       DEF Only, NotYet, OneMaker, OneStopper, Closing, Inside, TypeOK
<1>7. OneStopper'
    BY <1>0, <1>1, <1>2, Kinds
       DEF Only, OneStopper, Roles, NotYet, ManagerIsHeld, At, Closing, TypeOK
<1>8. OptionsKept'
    BY <1>0, <1>1, <1>2, Kinds DEF Only, OptionsKept, OneMaker, Inside
<1>9. ManagerIsHeld'
    BY <1>0, <1>1, <1>2, Kinds
       DEF Only, ManagerIsHeld, OneStopper, OneMaker, NotYet, Closing, Inside, Roles,
           At
<1>10. EarlyOptionsCount'
    BY <1>0, <1>1, <1>2, Kinds
       DEF Only, EarlyOptionsCount, OptionsKept, NotYet, OneStopper, Closing
<1> QED BY <1>3, <1>4, <1>5, <1>6, <1>7, <1>8, <1>9, <1>10 DEF GlobalInv

\* BeginShutdown keeps the invariant.
LEMMA BeginShutdownKeeps ==
    ASSUME GlobalInv, NEW k \in Stopper, BeginShutdown(k)
    PROVE  GlobalInv'
<1>0. /\ TypeOK /\ Roles /\ OneMaker /\ NotYet /\ OneStopper /\ OptionsKept
     /\ ManagerIsHeld /\ EarlyOptionsCount
    BY DEF GlobalInv
<1>1. k \in Actor /\ Only(k)
    BY <1>0, Kinds DEF Only, TypeOK, BeginShutdown, Goto
<1>2. /\ pc[k] \in {"out", "returned"}
      /\ globalMu = Nobody
      /\ globalManager = "nil" => pc'[k] = "returned" /\ globalMu' = Nobody
      /\ globalManager = "manager" => pc'[k] = "close" /\ globalMu' = k
      /\ UNCHANGED <<globalOnce, globalManager, manager, globalOpts, early, used>>
    BY <1>0, <1>1 DEF TypeOK, BeginShutdown, At, Goto, globals, options, Free
<1>3. TypeOK'
    BY <1>0, <1>1, Kinds DEF TypeOK, BeginShutdown, At, Goto, globals, options, Free
<1>4. Roles'
    BY <1>0, <1>1, <1>2, Kinds DEF Only, Roles, Inside, Closing, TypeOK
<1>5. OneMaker'
    BY <1>0, <1>1, <1>2, Kinds DEF Only, OneMaker, Roles, Inside
<1>6. NotYet'
    BY <1>0, <1>1, <1>2, Kinds
       DEF Only, NotYet, OneMaker, OneStopper, Closing, Inside, TypeOK
<1>7. OneStopper'
    BY <1>0, <1>1, <1>2, Kinds
       DEF Only, OneStopper, Roles, NotYet, ManagerIsHeld, At, Closing, TypeOK
<1>8. OptionsKept'
    BY <1>0, <1>1, <1>2, Kinds DEF Only, OptionsKept, OneMaker, Inside
<1>9. ManagerIsHeld'
    BY <1>0, <1>1, <1>2, Kinds
       DEF Only, ManagerIsHeld, OneStopper, OneMaker, NotYet, Closing, Inside, Roles,
           At
<1>10. EarlyOptionsCount'
    BY <1>0, <1>1, <1>2, Kinds
       DEF Only, EarlyOptionsCount, OptionsKept, NotYet, OneStopper, Closing
<1> QED BY <1>3, <1>4, <1>5, <1>6, <1>7, <1>8, <1>9, <1>10 DEF GlobalInv

\* CloseManager keeps the invariant.
LEMMA CloseManagerKeeps ==
    ASSUME GlobalInv, NEW k \in Stopper, CloseManager(k)
    PROVE  GlobalInv'
<1>0. /\ TypeOK /\ Roles /\ OneMaker /\ NotYet /\ OneStopper /\ OptionsKept
     /\ ManagerIsHeld /\ EarlyOptionsCount
    BY DEF GlobalInv
<1>1. k \in Actor /\ Only(k)
    BY <1>0, Kinds DEF Only, TypeOK, CloseManager, Goto
<1>2. /\ pc[k] = "close" /\ pc'[k] = "forget"
      /\ manager' = "closed"
      /\ UNCHANGED <<globalOnce, globalMu, globalManager, globalOpts, early, used>>
    BY <1>0, <1>1 DEF TypeOK, CloseManager, At, Goto, globals, options
<1>3. TypeOK'
    BY <1>0, <1>1, Kinds DEF TypeOK, CloseManager, At, Goto, globals, options
<1>4. Roles'
    BY <1>0, <1>1, <1>2, Kinds DEF Only, Roles, Inside, Closing, TypeOK
<1>5. OneMaker'
    BY <1>0, <1>1, <1>2, Kinds DEF Only, OneMaker, Roles, Inside
<1>6. NotYet'
    BY <1>0, <1>1, <1>2, Kinds
       DEF Only, NotYet, OneMaker, OneStopper, Closing, Inside, TypeOK
<1>7. OneStopper'
    BY <1>0, <1>1, <1>2, Kinds
       DEF Only, OneStopper, Roles, NotYet, ManagerIsHeld, At, Closing, TypeOK
<1>8. OptionsKept'
    BY <1>0, <1>1, <1>2, Kinds DEF Only, OptionsKept, OneMaker, Inside
<1>9. ManagerIsHeld'
    BY <1>0, <1>1, <1>2, Kinds
       DEF Only, ManagerIsHeld, OneStopper, OneMaker, NotYet, Closing, Inside, Roles,
           At
<1>10. EarlyOptionsCount'
    BY <1>0, <1>1, <1>2, Kinds
       DEF Only, EarlyOptionsCount, OptionsKept, NotYet, OneStopper, Closing
<1> QED BY <1>3, <1>4, <1>5, <1>6, <1>7, <1>8, <1>9, <1>10 DEF GlobalInv

\* EndShutdown keeps the invariant.
LEMMA EndShutdownKeeps ==
    ASSUME GlobalInv, NEW k \in Stopper, EndShutdown(k)
    PROVE  GlobalInv'
<1>0. /\ TypeOK /\ Roles /\ OneMaker /\ NotYet /\ OneStopper /\ OptionsKept
     /\ ManagerIsHeld /\ EarlyOptionsCount
    BY DEF GlobalInv
<1>1. k \in Actor /\ Only(k)
    BY <1>0, Kinds DEF Only, TypeOK, EndShutdown, Goto
<1>2. /\ pc[k] = "forget" /\ pc'[k] = "returned"
      /\ globalManager' = "nil" /\ globalMu' = Nobody
      /\ UNCHANGED <<globalOnce, manager, globalOpts, early, used>>
    BY <1>0, <1>1 DEF TypeOK, EndShutdown, At, Goto, globals, options
<1>3. TypeOK'
    BY <1>0, <1>1, Kinds DEF TypeOK, EndShutdown, At, Goto, globals, options
<1>4. Roles'
    BY <1>0, <1>1, <1>2, Kinds DEF Only, Roles, Inside, Closing, TypeOK
<1>5. OneMaker'
    BY <1>0, <1>1, <1>2, Kinds DEF Only, OneMaker, Roles, Inside
<1>6. NotYet'
    BY <1>0, <1>1, <1>2, Kinds
       DEF Only, NotYet, OneMaker, OneStopper, Closing, Inside, TypeOK
<1>7. OneStopper'
    BY <1>0, <1>1, <1>2, Kinds
       DEF Only, OneStopper, Roles, NotYet, ManagerIsHeld, At, Closing, TypeOK
<1>8. OptionsKept'
    BY <1>0, <1>1, <1>2, Kinds DEF Only, OptionsKept, OneMaker, Inside
<1>9. ManagerIsHeld'
    BY <1>0, <1>1, <1>2, Kinds
       DEF Only, ManagerIsHeld, OneStopper, OneMaker, NotYet, Closing, Inside, Roles,
           At
<1>10. EarlyOptionsCount'
    BY <1>0, <1>1, <1>2, Kinds
       DEF Only, EarlyOptionsCount, OptionsKept, NotYet, OneStopper, Closing
<1> QED BY <1>3, <1>4, <1>5, <1>6, <1>7, <1>8, <1>9, <1>10 DEF GlobalInv

\* SetGlobalOptions keeps the invariant: a late option is not an early one.
LEMMA SetGlobalOptionsKeeps ==
    ASSUME GlobalInv, NEW a \in Setter, SetGlobalOptions(a)
    PROVE  GlobalInv'
<1>0. /\ TypeOK /\ Roles /\ OneMaker /\ NotYet /\ OneStopper /\ OptionsKept
     /\ ManagerIsHeld /\ EarlyOptionsCount
    BY DEF GlobalInv
<1>1. /\ UNCHANGED <<globalOnce, globalMu, globalManager, globalInitErr>>
      /\ UNCHANGED <<used, manager, pc, answer>>
      /\ globalOpts' = globalOpts \cup {a}
      /\ early' = IF globalOnce = "idle" THEN early \cup {a} ELSE early
    BY DEF SetGlobalOptions, globals
<1>2. TypeOK' /\ Roles' /\ OneMaker' /\ NotYet'
    BY <1>0, <1>1 DEF TypeOK, Roles, OneMaker, NotYet, Inside
<1>3. OneStopper' /\ ManagerIsHeld'
    BY <1>0, <1>1 DEF OneStopper, ManagerIsHeld, At
<1>4. OptionsKept'
    BY <1>0, <1>1 DEF OptionsKept, OneMaker, Inside
<1>5. EarlyOptionsCount'
    BY <1>0, <1>1 DEF EarlyOptionsCount, NotYet
<1> QED BY <1>2, <1>3, <1>4, <1>5 DEF GlobalInv

\* The invariant holds at the start.
LEMMA InitGlobal == Init => GlobalInv
<1> SUFFICES ASSUME Init PROVE GlobalInv
    OBVIOUS
<1>1. TypeOK
    BY DEF Init, TypeOK
<1>2. /\ \A a \in Actor : pc[a] = "out"
      /\ globalOnce = "idle" /\ globalManager = "nil" /\ manager = "none" /\ early = {}
    BY DEF Init
<1>3. Roles /\ OneMaker /\ NotYet /\ OneStopper
    BY <1>2, Kinds DEF Roles, OneMaker, NotYet, OneStopper, Inside, Closing
<1>4. OptionsKept /\ ManagerIsHeld /\ EarlyOptionsCount
    BY <1>2, Kinds DEF OptionsKept, ManagerIsHeld, EarlyOptionsCount
<1> QED BY <1>1, <1>3, <1>4 DEF GlobalInv

\* Nothing has changed, nor has the invariant.
LEMMA StutterKeeps == GlobalInv /\ UNCHANGED vars => GlobalInv'
<1> SUFFICES ASSUME GlobalInv, UNCHANGED vars PROVE GlobalInv'
    OBVIOUS
<1>0. /\ TypeOK /\ Roles /\ OneMaker /\ NotYet /\ OneStopper /\ OptionsKept
     /\ ManagerIsHeld /\ EarlyOptionsCount
    BY DEF GlobalInv
<1>1. /\ UNCHANGED <<globalOnce, globalMu, globalManager, globalInitErr>>
      /\ UNCHANGED <<globalOpts, early, used, manager, pc, answer>>
    BY DEF vars, globals, options
<1>2. TypeOK' /\ Roles' /\ OneMaker' /\ NotYet'
    BY <1>0, <1>1 DEF TypeOK, Roles, OneMaker, NotYet, Inside
<1>3. OneStopper' /\ OptionsKept'
    BY <1>0, <1>1 DEF OneStopper, OptionsKept
<1>4. ManagerIsHeld' /\ EarlyOptionsCount'
    BY <1>0, <1>1 DEF ManagerIsHeld, EarlyOptionsCount, At
<1> QED BY <1>2, <1>3, <1>4 DEF GlobalInv

\* Every step keeps the invariant.
LEMMA NextGlobal == GlobalInv /\ [Next]_vars => GlobalInv'
BY SetGlobalOptionsKeeps, StutterKeeps, BeginInitKeeps, AwaitKeeps,
   ReadOptionsKeeps, NewSucceedsKeeps, NewFailsKeeps, StoreManagerKeeps,
   GlobalReturnsKeeps, BeginShutdownKeeps, CloseManagerKeeps, EndShutdownKeeps
   DEF Next, InitStep, ShutdownStep

\* The invariant holds all the time.
LEMMA GlobalInvariant == Spec => []GlobalInv
BY InitGlobal, NextGlobal, PTL DEF Spec

\* A running manager can be reached by Shutdown now or as soon as its maker
\* has stored it, and what Global returns is running or about to be forgotten.
THEOREM ManagerHeld == Spec => []ManagerIsHeld
<1>1. GlobalInv => ManagerIsHeld
    BY DEF GlobalInv
<1> QED BY GlobalInvariant, <1>1, PTL

\* Every option set before the first call of Global is one of the manager's.
THEOREM OptionsCount == Spec => []EarlyOptionsCount
<1>1. GlobalInv => EarlyOptionsCount
    BY DEF GlobalInv
<1> QED BY GlobalInvariant, <1>1, PTL

-----------------------------------------------------------------------------
(* Global is what sync.Once promises.                                      *)

Place(u) ==
    CASE At(u, "out") -> "out"
      [] At(u, "returned") -> "back"
      [] OTHER -> "in"
Places == [u \in User |-> Place(u)]

\* A step that moves no user over the threshold of the Once leaves it alone.
LEMMA Elsewhere ==
    ASSUME UNCHANGED globalOnce, \A u \in User : Place(u)' = Place(u)
    PROVE  UNCHANGED InitOnce!vars
<1>1. Places' = Places
    BY DEF Places
<1> QED BY <1>1 DEF InitOnce!vars, Places, Place

\* Every step of the singleton is a step of the Once, or none of its business.
LEMMA OnceStep ==
    ASSUME GlobalInv, [Next]_vars
    PROVE  [InitOnce!Next]_(InitOnce!vars)
<1>0. TypeOK /\ Roles /\ OneMaker
    BY DEF GlobalInv
<1>1. ASSUME NEW u \in User, BeginInit(u) PROVE InitOnce!Start(u)
    <2>1. /\ globalOnce = "idle" /\ globalOnce' = "running"
          /\ Place(u) \in {"out", "back"}
          /\ Places' = [Places EXCEPT ![u] = "in"]
        BY <1>0, <1>1, Kinds DEF BeginInit, AtDoor, Goto, At, Place, Places, TypeOK
    <2> QED BY <2>1 DEF InitOnce!Start, Places, Place
<1>2. ASSUME NEW u \in User, Await(u) PROVE InitOnce!Enter(u)
    <2>1. /\ globalOnce # "idle" /\ UNCHANGED globalOnce
          /\ Place(u) \in {"out", "back"}
          /\ Places' = [Places EXCEPT ![u] = "in"]
        BY <1>0, <1>2, Kinds DEF Await, AtDoor, globals, Goto, At, Place, Places, TypeOK
    <2> QED BY <2>1 DEF InitOnce!Enter, Places, Place
<1>3. ASSUME NEW u \in User, ReadOptions(u) \/ NewSucceeds(u)
      PROVE  UNCHANGED InitOnce!vars
    <2>1. /\ UNCHANGED globalOnce
          /\ pc[u] \in {"read", "new"} /\ pc'[u] \in {"new", "store"}
          /\ \A b \in Actor \ {u} : pc'[b] = pc[b]
        BY <1>0, <1>3, Kinds DEF ReadOptions, NewSucceeds, globals, Goto, At, TypeOK
    <2>2. \A v \in User : Place(v)' = Place(v)
        BY <2>1, Kinds DEF Place, At
    <2> QED BY <2>1, <2>2, Elsewhere
<1>4. ASSUME NEW u \in User, NewFails(u) \/ StoreManager(u)
      PROVE  InitOnce!End
    <2>1. /\ globalOnce' = "done"
          /\ pc[u] \in Inside /\ pc'[u] = "await"
          /\ \A b \in Actor \ {u} : pc'[b] = pc[b]
        BY <1>0, <1>4, Kinds DEF NewFails, StoreManager, Goto, At, TypeOK, Inside
    <2>2. globalOnce = "running"
        BY <1>0, <2>1 DEF OneMaker
    <2>3. \A v \in User : Place(v)' = Place(v)
        BY <2>1, Kinds DEF Place, At, Inside
    <2>4. Places' = Places
        BY <2>3 DEF Places
    <2> QED BY <2>1, <2>2, <2>4 DEF InitOnce!End, Places, Place
<1>5. ASSUME NEW u \in User, GlobalReturns(u) PROVE InitOnce!Leave(u)
    <2>1. /\ globalOnce = "done" /\ UNCHANGED globalOnce
          /\ Place(u) = "in"
          /\ Places' = [Places EXCEPT ![u] = "back"]
        BY <1>0, <1>5, Kinds DEF GlobalReturns, globals, Goto, At, Place, Places, TypeOK
    <2> QED BY <2>1 DEF InitOnce!Leave, Places, Place
<1>6. ASSUME NEW k \in Stopper, BeginShutdown(k) \/ ShutdownStep(k)
      PROVE  UNCHANGED InitOnce!vars
    <2>1. UNCHANGED globalOnce /\ \A u \in User : pc'[u] = pc[u]
        BY <1>0, <1>6, Kinds
           DEF BeginShutdown, ShutdownStep, CloseManager, EndShutdown, globals, Goto, TypeOK
    <2> QED BY <2>1, Elsewhere DEF Place, At
<1>7. ASSUME NEW a \in Setter, SetGlobalOptions(a) PROVE UNCHANGED InitOnce!vars
    BY <1>7, Elsewhere DEF SetGlobalOptions, globals, Place, At
<1>8. ASSUME UNCHANGED vars PROVE UNCHANGED InitOnce!vars
    BY <1>8, Elsewhere DEF vars, globals, Place, At
<1> QED BY <1>1, <1>2, <1>3, <1>4, <1>5, <1>6, <1>7, <1>8
           DEF Next, InitStep, InitOnce!Next

\* Global implements sync.Once: the manager is made once, whoever calls when,
\* and nobody is back before that has ended well or badly.
THEOREM InitIsOnce == Spec => InitRunsOnce
<1>1. Init => InitOnce!Init
    <2> SUFFICES ASSUME Init PROVE InitOnce!Init
        OBVIOUS
    <2>1. \A u \in User : Place(u) = "out"
        BY Kinds DEF Init, Place, At
    <2>2. Places = [u \in User |-> "out"]
        BY <2>1 DEF Places
    <2> QED BY <2>2 DEF Init, InitOnce!Init, Places, Place
<1> QED BY <1>1, GlobalInvariant, OnceStep, PTL DEF Spec, InitRunsOnce, InitOnce!Spec

-----------------------------------------------------------------------------
(* The start as a whole.  Its steps are those of the singleton, those of   *)
(* New and the installers, and those of both.                              *)

\* What New and the installers do is none of the singleton's business, and
\* what they do together the singleton does as well.
LEMMA SingletonStep == [StartupNext]_system => [Next]_vars
BY DEF StartupNext, system, singleton, Calls, LaunchStep, InitEnds, GlobalStep,
       CloseAll, Next, InitStep, ShutdownStep

\* The singleton is not disturbed by what New really does: what is proved of
\* Global holds of the whole start.
THEOREM StartupIsGlobal == StartupSpec => Spec
<1>1. StartupInit => Init
    BY DEF StartupInit
<1> QED BY <1>1, SingletonStep, PTL DEF StartupSpec, Spec

\* A process is up only while its New is past the start, and none is up once
\* the manager has been closed.
ProcessInv ==
    /\ DOMAIN stage = L!Caller /\ DOMAIN driver = User /\ DOMAIN browser = User
    /\ \A u \in User : driver[u] = "up" => stage[u] \in {"launch", "cdp", "ready"}
    /\ \A u \in User : browser[u] = "up" => stage[u] \in {"cdp", "ready"}
    /\ manager = "closed" => \A u \in User : driver[u] # "up" /\ browser[u] # "up"
    /\ NoProcessLost

\* The goroutines that install are users or sharers of the Installer.
LEMMA Callers ==
    /\ L!Caller = User \cup Sharer
    /\ User \cap Sharer = {}
    /\ L!Installer = User \cup {Shared}
    /\ Shared \notin User
BY StartupAssumption DEF L!LaunchAssumption, L!Caller, L!Installer

\* A step of one goroutine in New or Install that starts or stops nothing.
LEMMA QuietLaunch ==
    ASSUME ProcessInv, NEW c \in L!Caller,
           c \in User => stage[c] \notin {"launch", "cdp", "ready"},
           DOMAIN stage' = DOMAIN stage,
           \A d \in L!Caller \ {c} : stage'[d] = stage[d],
           UNCHANGED <<driver, browser, manager, pc, globalManager>>
    PROVE  ProcessInv'
<1>1. \A u \in User : u \in L!Caller
    BY Callers
<1> QED BY <1>1 DEF ProcessInv, NoProcessLost

\* Calls of New and Install, and the installation itself.
LEMMA InstallKeepsProcesses ==
    ASSUME ProcessInv, NEW c \in L!Caller, Calls(c) \/ (LaunchStep(c) /\ L!InstallStep(c))
    PROVE  ProcessInv'
<1>1. UNCHANGED <<driver, browser, manager, pc, globalManager>>
    BY DEF Calls, LaunchStep, singleton, vars, globals, L!Call, L!BeginInstall,
           L!Await, L!SkipInstall, L!Moves, L!InstallStep, L!CreatesDriver,
           L!DownloadsDriver, L!InstallFails, L!InstallSucceeds, L!InstallReturns
<1>2. /\ stage[c] \notin {"launch", "cdp", "ready"}
      /\ DOMAIN stage' = DOMAIN stage
      /\ \A d \in L!Caller \ {c} : stage'[d] = stage[d]
    BY DEF ProcessInv, Calls, LaunchStep, L!At, L!Goto, L!Call, L!BeginInstall,
           L!Await, L!SkipInstall, L!Moves, L!InstallStep, L!CreatesDriver,
           L!DownloadsDriver, L!InstallFails, L!InstallSucceeds, L!InstallReturns
<1> QED BY <1>1, <1>2, QuietLaunch

\* The driver is started and the browser launched by a New that is under way,
\* and a New that fails at the launch stops the driver it has started.
LEMMA InitKeepsProcesses ==
    ASSUME GlobalInv, ProcessInv, NEW u \in User, LaunchStep(u), L!InitStep(u)
    PROVE  ProcessInv'
<1>a. u \in L!Caller /\ \A v \in User : v \in L!Caller
    BY Callers
<1>b. /\ pc[u] = "new" /\ manager = "none"
      /\ UNCHANGED <<manager, pc, globalManager>>
    BY DEF LaunchStep, InNew, At, GlobalInv, NotYet, singleton, vars, globals
<1>1. CASE L!StartDriver(u)
    <2>1. /\ driver' = [driver EXCEPT ![u] = "up"] /\ browser' = browser
          /\ stage' = [stage EXCEPT ![u] = "launch"]
          /\ stage[u] = "start driver"
        BY <1>1 DEF L!StartDriver, L!At, L!Goto
    <2> QED BY <1>a, <1>b, <2>1 DEF ProcessInv, NoProcessLost
<1>2. CASE L!StartFails(u)
    <2>1. /\ UNCHANGED <<driver, browser>>
          /\ stage' = [stage EXCEPT ![u] = "failed"]
          /\ stage[u] = "start driver"
        BY <1>2 DEF L!StartFails, L!Moves, L!At, L!Goto
    <2> QED BY <1>a, <1>b, <2>1 DEF ProcessInv, NoProcessLost
<1>3. CASE L!Launches(u)
    <2>1. /\ browser' = [browser EXCEPT ![u] = "up"] /\ driver' = driver
          /\ stage' = [stage EXCEPT ![u] = "cdp"]
          /\ stage[u] = "launch"
        BY <1>3 DEF L!Launches, L!At, L!Goto
    <2> QED BY <1>a, <1>b, <2>1 DEF ProcessInv, NoProcessLost
<1>4. CASE L!LaunchFails(u)
    <2>1. /\ driver' = [driver EXCEPT ![u] = "stopped"] /\ browser' = browser
          /\ stage' = [stage EXCEPT ![u] = "failed"]
          /\ stage[u] = "launch"
        BY <1>4 DEF L!LaunchFails, L!At, L!Goto
    <2> QED BY <1>a, <1>b, <2>1 DEF ProcessInv, NoProcessLost
<1>5. CASE L!EndInit(u)
    <2>1. /\ UNCHANGED <<driver, browser>>
          /\ stage' = [stage EXCEPT ![u] = "ready"]
          /\ stage[u] = "cdp"
        BY <1>5 DEF L!EndInit, L!Moves, L!At, L!Goto
    <2> QED BY <1>a, <1>b, <2>1 DEF ProcessInv, NoProcessLost
<1> QED BY <1>1, <1>2, <1>3, <1>4, <1>5 DEF L!InitStep

\* New ends: with its processes handed over to the manager, or with none.
LEMMA EndKeepsProcesses ==
    ASSUME GlobalInv, ProcessInv, NEW u \in User, InitEnds(u)
    PROVE  ProcessInv'
<1>a. DOMAIN pc = Actor /\ (\A v \in User : v \in Actor) /\ manager # "closed"
    BY Kinds DEF GlobalInv, TypeOK, NotYet, InitEnds, NewSucceeds, NewFails, At
<1>1. CASE stage[u] = "ready" /\ NewSucceeds(u)
    BY <1>a, <1>1 DEF InitEnds, NewSucceeds, ProcessInv, NoProcessLost, launching,
                      Goto, At, globals
<1>2. CASE stage[u] = "failed" /\ NewFails(u)
    BY <1>a, <1>2 DEF InitEnds, NewFails, ProcessInv, NoProcessLost, launching,
                      Goto, At
<1> QED BY <1>1, <1>2 DEF InitEnds

\* The singleton alone: the manager is stored before its maker is back, and
\* forgotten only after Close.
LEMMA SingletonKeepsProcesses ==
    ASSUME GlobalInv, ProcessInv, UNCHANGED launching,
           \/ \E a \in Setter : SetGlobalOptions(a)
           \/ \E u \in User : BeginInit(u) \/ Await(u) \/ GlobalStep(u)
           \/ \E k \in Stopper : BeginShutdown(k) \/ EndShutdown(k)
    PROVE  ProcessInv'
<1>a. /\ DOMAIN pc = Actor /\ \A v \in User : v \in Actor /\ v \notin Stopper
      /\ UNCHANGED <<stage, driver, browser>>
    BY Kinds DEF GlobalInv, TypeOK, launching
<1>1. ASSUME NEW a \in Setter, SetGlobalOptions(a) PROVE ProcessInv'
    BY <1>a, <1>1 DEF SetGlobalOptions, ProcessInv, NoProcessLost, globals
<1>2. ASSUME NEW u \in User, BeginInit(u) \/ Await(u) \/ ReadOptions(u) \/ GlobalReturns(u)
      PROVE  ProcessInv'
    BY <1>a, <1>2 DEF BeginInit, Await, ReadOptions, GlobalReturns, AtDoor, At, Goto,
                      ProcessInv, NoProcessLost, globals
<1>3. ASSUME NEW u \in User, StoreManager(u) PROVE ProcessInv'
    BY <1>a, <1>3 DEF StoreManager, ProcessInv, NoProcessLost
<1>4. ASSUME NEW k \in Stopper, BeginShutdown(k) PROVE ProcessInv'
    BY <1>a, <1>4 DEF BeginShutdown, Goto, ProcessInv, NoProcessLost
<1>5. ASSUME NEW k \in Stopper, EndShutdown(k) PROVE ProcessInv'
    <2>1. manager = "closed"
        BY <1>5 DEF EndShutdown, At, GlobalInv, OneStopper
    <2> QED BY <1>a, <1>5, <2>1 DEF EndShutdown, ProcessInv, NoProcessLost
<1> QED BY <1>1, <1>2, <1>3, <1>4, <1>5 DEF GlobalStep

\* Close of the manager ends every process.
LEMMA CloseKeepsProcesses ==
    ASSUME ProcessInv, NEW k \in Stopper, CloseAll(k)
    PROVE  ProcessInv'
BY DEF CloseAll, ProcessInv, NoProcessLost

\* No driver or browser process that a user's New has started is lost: its
\* New is under way, its manager is about to be stored, or Shutdown finds it.
THEOREM ProcessesAreKept == StartupSpec => []NoProcessLost
<1>1. StartupInit => GlobalInv /\ ProcessInv
    <2> SUFFICES ASSUME StartupInit PROVE ProcessInv
        BY InitGlobal DEF StartupInit
    <2>1. /\ stage = [c \in L!Caller |-> "out"] /\ driver = [c \in User |-> "none"]
          /\ browser = [c \in User |-> "none"] /\ manager = "none"
        BY DEF StartupInit, Init, L!Init
    <2> QED BY <2>1, Callers DEF ProcessInv, NoProcessLost
<1>2. ASSUME GlobalInv, ProcessInv, [StartupNext]_system PROVE ProcessInv'
    <2>1. CASE UNCHANGED system
        BY <1>2, <2>1 DEF system, singleton, launching, vars, globals, ProcessInv,
                          NoProcessLost
    <2>2. ASSUME NEW u \in User, LaunchStep(u), L!InitStep(u) PROVE ProcessInv'
        BY <1>2, <2>2, InitKeepsProcesses
    <2>3. ASSUME NEW c \in L!Caller, Calls(c) \/ LaunchStep(c) PROVE ProcessInv'
        BY <1>2, <2>2, <2>3, InstallKeepsProcesses DEF LaunchStep
    <2> QED BY <1>2, <2>1, <2>3, EndKeepsProcesses, SingletonKeepsProcesses,
               CloseKeepsProcesses DEF StartupNext
<1>3. GlobalInv /\ ProcessInv /\ [StartupNext]_system => (GlobalInv /\ ProcessInv)'
    BY <1>2, SingletonStep, NextGlobal
<1>4. ProcessInv => NoProcessLost
    BY DEF ProcessInv
<1> QED BY <1>1, <1>3, <1>4, PTL DEF StartupSpec

-----------------------------------------------------------------------------
(* What Install answers, to the callers of a shared Installer and to New.  *)

Working == {"create driver", "download", "install browser"}

\* Before the one attempt has ended an Installer has no result and has answered
\* nobody; then it has one of the two results, and its answers are that one.
Remembers(i) ==
    /\ once[i] # "done" => ~installed[i] /\ ~installErr[i] /\ answers[i] = {}
    /\ once[i] = "done" => \/ installed[i] /\ ~installErr[i]
                           \/ installErr[i] /\ ~installed[i]
    /\ installed[i] => disk
    /\ answers[i] \subseteq {L!Answer(i)}

\* One of those who call an Installer makes the attempt, while its Once runs.
InstallInv ==
    /\ DOMAIN stage = L!Caller
    /\ \A f \in {once, installed, installErr, answers} : DOMAIN f = L!Installer
    /\ \A c \in L!Caller : stage[c] \in Working => once[L!InstallerOf(c)] = "running"
    /\ \A c, d \in L!Caller :
          /\ stage[c] \in Working /\ stage[d] \in Working
          /\ L!InstallerOf(c) = L!InstallerOf(d)
          => c = d
    /\ \A i \in L!Installer : Remembers(i)

LEMMA ItsInstaller ==
    ASSUME NEW c \in L!Caller
    PROVE  L!InstallerOf(c) \in L!Installer
BY Callers DEF L!InstallerOf

\* A step that leaves the installers alone and does not begin to install.
LEMMA InstallersStay ==
    ASSUME InstallInv, UNCHANGED <<once, installed, installErr, answers, disk>>,
           DOMAIN stage' = DOMAIN stage,
           \A c \in L!Caller : stage'[c] \in Working => stage[c] \in Working
    PROVE  InstallInv'
BY DEF InstallInv, Remembers, L!Answer

\* Steps of New and Install.
LEMMA InstallSteps ==
    ASSUME InstallInv, NEW c \in L!Caller,
           L!Call(c) \/ L!InstallStep(c) \/ L!InitStep(c)
    PROVE  InstallInv'
<1> DEFINE i == L!InstallerOf(c)
<1>a. i \in L!Installer
    BY ItsInstaller
<1>b. \A d \in L!Caller : L!InstallerOf(d) \in L!Installer
    BY ItsInstaller
<1> HIDE DEF i
<1>1. CASE L!BeginInstall(c)
    <2>1. /\ stage[c] \notin Working /\ once[i] = "idle"
          /\ once' = [once EXCEPT ![i] = "running"]
          /\ stage' = [stage EXCEPT ![c] = "create driver"]
          /\ UNCHANGED <<installed, installErr, answers, disk>>
        BY <1>1 DEF L!BeginInstall, L!Goto, Working, i
    <2>2. \A j \in L!Installer : Remembers(j)'
        BY <1>a, <2>1 DEF InstallInv, Remembers, L!Answer
    <2>3. \A d \in L!Caller \ {c} : stage[d] \in Working => L!InstallerOf(d) # i
        BY <2>1 DEF InstallInv
    <2>4. \A d \in L!Caller \ {c} : stage'[d] = stage[d]
        BY <2>1 DEF InstallInv
    <2>5. \A d \in L!Caller \ {c} : stage'[d] \in Working =>
              L!InstallerOf(d) # i /\ once'[L!InstallerOf(d)] = "running"
        BY <1>b, <2>1, <2>3, <2>4 DEF InstallInv
    <2>6. once'[i] = "running"
        BY <1>a, <2>1 DEF InstallInv
    <2>7. /\ DOMAIN stage' = DOMAIN stage
          /\ \A f \in {once, installed, installErr, answers}' : DOMAIN f = L!Installer
        BY <2>1 DEF InstallInv
    <2>8. \A d \in L!Caller : stage'[d] \in Working =>
              once'[L!InstallerOf(d)] = "running"
        BY <2>5, <2>6 DEF i
    <2>9. ASSUME NEW d \in L!Caller, NEW e \in L!Caller,
                 stage'[d] \in Working, stage'[e] \in Working,
                 L!InstallerOf(d) = L!InstallerOf(e)
          PROVE  d = e
        <3>1. CASE d = c \/ e = c
            BY <2>5, <2>9, <3>1 DEF i
        <3>2. CASE d # c /\ e # c
            BY <2>4, <2>9, <3>2 DEF InstallInv
        <3> QED BY <3>1, <3>2
    <2> QED BY <2>2, <2>7, <2>8, <2>9 DEF InstallInv
<1>2. CASE L!CreatesDriver(c) \/ L!DownloadsDriver(c)
    <2>1. /\ UNCHANGED <<once, installed, installErr, answers, disk>>
          /\ stage[c] \in Working
          /\ \E l : stage' = [stage EXCEPT ![c] = l]
        BY <1>2 DEF L!CreatesDriver, L!DownloadsDriver, L!Moves, L!At, L!Goto,
                    L!installers, Working
    <2>2. /\ DOMAIN stage' = DOMAIN stage
          /\ \A d \in L!Caller : stage'[d] \in Working => stage[d] \in Working
        BY <2>1 DEF InstallInv
    <2> QED BY <2>1, <2>2, InstallersStay
<1>3. CASE L!InstallFails(c)
    <2>1. /\ stage[c] \in Working /\ stage' = [stage EXCEPT ![c] = "await"]
          /\ once' = [once EXCEPT ![i] = "done"]
          /\ installErr' = [installErr EXCEPT ![i] = TRUE]
          /\ UNCHANGED <<installed, answers, disk>>
        BY <1>3 DEF L!InstallFails, L!Goto, Working, i
    <2>2. once[i] = "running"
        BY <2>1 DEF InstallInv, i
    <2>3. \A j \in L!Installer : Remembers(j)'
        BY <1>a, <2>1, <2>2 DEF InstallInv, Remembers, L!Answer
    <2>4. \A d \in L!Caller \ {c} : stage[d] \in Working => L!InstallerOf(d) # i
        BY <2>1 DEF InstallInv, i
    <2> QED BY <1>a, <1>b, <2>1, <2>3, <2>4 DEF InstallInv, Working
<1>4. CASE L!InstallSucceeds(c)
    <2>1. /\ stage[c] \in Working /\ stage' = [stage EXCEPT ![c] = "await"]
          /\ once' = [once EXCEPT ![i] = "done"]
          /\ installed' = [installed EXCEPT ![i] = TRUE] /\ disk' = TRUE
          /\ UNCHANGED <<installErr, answers>>
        BY <1>4 DEF L!InstallSucceeds, L!At, L!Goto, Working, i
    <2>2. once[i] = "running"
        BY <2>1 DEF InstallInv, i
    <2>3. \A j \in L!Installer : Remembers(j)'
        BY <1>a, <2>1, <2>2 DEF InstallInv, Remembers, L!Answer
    <2>4. \A d \in L!Caller \ {c} : stage[d] \in Working => L!InstallerOf(d) # i
        BY <2>1 DEF InstallInv, i
    <2> QED BY <1>a, <1>b, <2>1, <2>3, <2>4 DEF InstallInv, Working
<1>5. CASE L!InstallReturns(c)
    <2>1. /\ once[i] = "done"
          /\ answers' = [answers EXCEPT ![i] = @ \cup {L!Answer(i)}]
          /\ \/ L!Goto(c, "returned")
             \/ L!Goto(c, "failed")
             \/ L!Goto(c, "start driver")
          /\ UNCHANGED <<once, installed, installErr, disk>>
        BY <1>5 DEF L!InstallReturns, i
    <2>2. \A j \in L!Installer : Remembers(j)'
        BY <1>a, <2>1 DEF InstallInv, Remembers, L!Answer
    <2>3. /\ DOMAIN stage' = DOMAIN stage
          /\ \A d \in L!Caller : stage'[d] \in Working => stage[d] \in Working
        BY <2>1 DEF InstallInv, L!Goto, Working
    <2> QED BY <2>1, <2>2, <2>3 DEF InstallInv
<1>6. CASE \/ L!Await(c) \/ L!SkipInstall(c)
           \/ L!StartDriver(c) \/ L!StartFails(c)
           \/ L!Launches(c) \/ L!LaunchFails(c) \/ L!EndInit(c)
    <2>1. UNCHANGED <<once, installed, installErr, answers, disk>>
        BY <1>6 DEF L!Await, L!SkipInstall, L!StartDriver, L!StartFails, L!Launches,
                    L!LaunchFails, L!EndInit, L!Moves, L!installers
    <2>2. \/ L!Goto(c, "await") \/ L!Goto(c, "start driver")
          \/ L!Goto(c, "launch") \/ L!Goto(c, "failed")
          \/ L!Goto(c, "cdp") \/ L!Goto(c, "ready")
        BY <1>6 DEF L!Await, L!SkipInstall, L!StartDriver, L!StartFails, L!Launches,
                    L!LaunchFails, L!EndInit, L!Moves
    <2>3. /\ DOMAIN stage' = DOMAIN stage
          /\ \A d \in L!Caller : stage'[d] \in Working => stage[d] \in Working
        BY <2>2 DEF InstallInv, L!Goto, Working
    <2> QED BY <2>1, <2>3, InstallersStay
<1> QED BY <1>1, <1>2, <1>3, <1>4, <1>5, <1>6 DEF L!Call, L!InstallStep, L!InitStep

\* The calls of an Installer, however many share it and whenever they come, are
\* told the same; and success is what driver and browser on disk are.
THEOREM AnswersAgree == StartupSpec => []OneAnswer
<1>1. StartupInit => InstallInv
    <2> SUFFICES ASSUME StartupInit PROVE InstallInv
        OBVIOUS
    <2>1. /\ stage = [c \in L!Caller |-> "out"]
          /\ once = [i \in L!Installer |-> "idle"]
          /\ installed = [i \in L!Installer |-> FALSE]
          /\ installErr = [i \in L!Installer |-> FALSE]
          /\ answers = [i \in L!Installer |-> {}]
        BY DEF StartupInit, L!Init
    <2> QED BY <2>1 DEF InstallInv, Remembers, Working
<1>2. ASSUME InstallInv, [StartupNext]_system PROVE InstallInv'
    <2>1. CASE UNCHANGED launching
        BY <1>2, <2>1, InstallersStay DEF launching
    <2>2. ASSUME NEW c \in L!Caller, Calls(c) \/ LaunchStep(c) PROVE InstallInv'
        BY <1>2, <2>2, InstallSteps DEF Calls, LaunchStep
    <2>3. ASSUME NEW k \in Stopper, CloseAll(k) PROVE InstallInv'
        BY <1>2, <2>3, InstallersStay DEF CloseAll
    <2> QED BY <1>2, <2>1, <2>2, <2>3 DEF StartupNext, InitEnds, system
<1>3. InstallInv => OneAnswer
    <2> SUFFICES ASSUME InstallInv, NEW i \in L!Installer
                 PROVE  /\ answers[i] # {"nil", "error"}
                        /\ "nil" \in answers[i] => disk /\ installed[i]
                        /\ "error" \in answers[i] => ~installed[i]
        BY DEF OneAnswer, L!OneAnswer, L!IsInstalled
    <2>1. /\ answers[i] \subseteq {L!Answer(i)}
          /\ answers[i] # {} => once[i] = "done"
          /\ installed[i] => disk
        BY DEF InstallInv, Remembers
    <2>2. answers[i] # {} => \/ installed[i] /\ ~installErr[i]
                             \/ installErr[i] /\ ~installed[i]
        BY <2>1 DEF InstallInv, Remembers
    <2> QED BY <2>1, <2>2 DEF L!Answer
<1> QED BY <1>1, <1>2, <1>3, PTL DEF StartupSpec
=============================================================================
