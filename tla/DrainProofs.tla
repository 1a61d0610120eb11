---------------------------- MODULE DrainProofs -----------------------------
(***************************************************************************)
(* A Drain that ends in time has waited for every operation that ran in    *)
(* the pool when it began, for any pages and any finite number of callers. *)
(***************************************************************************)
EXTENDS PoolDrain, FiniteSetTheorems, TLAPS

\* The callers that are counted in activeOps[p].
Users(p) == {c \in Caller : pc[c] \in {"append", "operate"} /\ held[c] = p}

TypeOK ==
    /\ pages \subseteq Page
    /\ activeOps \in [Page -> Nat]
    /\ pc \in [Caller -> {"out", "acquire", "selected", "append", "operate"}]
    /\ held \in [Caller -> Page \cup {NoPage}]
    /\ drain \in {"open", "summing", "asleep", "drained", "expired", "closed"}
    /\ unread \subseteq Page /\ sum \in Nat
    /\ watched \subseteq Caller

\* Whoever is past the choice of a page has one.
HoldsPage ==
    \A c \in Caller : pc[c] \in {"selected", "append", "operate"} => held[c] \in Page

\* Whoever uses the page is counted.  So are those whose operation panicked,
\* hence no equality.
CountCovers == \A p \in Page : activeOps[p] >= Cardinality(Users(p))

\* Whom the drain waits for operates on a page of the slice; as long as that
\* page has been read, the sum is not zero.
Waiting ==
    /\ drain \in {"summing", "asleep"} =>
          \A c \in watched : pc[c] = "operate" /\ held[c] \in pages
    /\ drain = "summing" =>
          \A c \in watched : held[c] \in unread \/ sum > 0

DrainInv == TypeOK /\ HoldsPage /\ CountCovers /\ Waiting /\ DrainWaits

\* One caller moves.
Only(c) == \A d \in Caller \ {c} : pc'[d] = pc[d] /\ held'[d] = held[d]

\* Finitely many callers use a page: they can be counted.
LEMMA UsersFinite ==
    \A p \in Page : IsFiniteSet(Users(p)) /\ Cardinality(Users(p)) \in Nat
<1> SUFFICES ASSUME NEW p \in Page
             PROVE  IsFiniteSet(Users(p)) /\ Cardinality(Users(p)) \in Nat
    OBVIOUS
<1>1. Users(p) \subseteq Caller
    BY DEF Users
<1>2. IsFiniteSet(Users(p))
    BY <1>1, PoolDrainAssumption, FS_Subset
<1> QED BY <1>2, FS_CardinalityType

\* A page with a user has a count that is not zero.
LEMMA UsedIsCounted ==
    ASSUME TypeOK, CountCovers, NEW c \in Caller, NEW p \in Page,
           pc[c] = "operate", held[c] = p
    PROVE  activeOps[p] > 0
<1>1. c \in Users(p)
    BY DEF Users
<1>2. Cardinality(Users(p)) # 0
    BY <1>1, UsersFinite, FS_EmptySet
<1> QED BY <1>2, UsersFinite DEF CountCovers, TypeOK

\* A caller that begins or stops no use changes no count.
LEMMA CountKept ==
    ASSUME CountCovers, activeOps' = activeOps,
           \A d \in Caller :
              (pc[d] \in {"append", "operate"} \/ pc'[d] \in {"append", "operate"}) =>
                 /\ pc[d] \in {"append", "operate"} /\ pc'[d] \in {"append", "operate"}
                 /\ held'[d] = held[d]
    PROVE  CountCovers'
<1>1. \A p \in Page : Users(p)' = Users(p)
    BY DEF Users
<1> QED BY <1>1 DEF CountCovers

\* One more caller uses page q, and is counted.
LEMMA CountUp ==
    ASSUME CountCovers, activeOps \in [Page -> Nat],
           NEW c \in Caller, NEW q \in Page, Only(c),
           pc[c] \notin {"append", "operate"}, pc'[c] \in {"append", "operate"},
           held'[c] = q, activeOps' = [activeOps EXCEPT ![q] = @ + 1]
    PROVE  CountCovers'
<1>1. Users(q)' = Users(q) \cup {c} /\ c \notin Users(q)
    BY DEF Users, Only
<1>2. Cardinality(Users(q)') = Cardinality(Users(q)) + 1
    BY <1>1, UsersFinite, FS_AddElement
<1>3. \A p \in Page \ {q} : Users(p)' = Users(p)
    BY DEF Users, Only
<1> QED BY <1>2, <1>3, UsersFinite DEF CountCovers

\* One caller less uses page q; it was counted.
LEMMA CountDown ==
    ASSUME CountCovers, activeOps \in [Page -> Nat],
           NEW c \in Caller, NEW q \in Page, Only(c),
           pc[c] \in {"append", "operate"}, pc'[c] \notin {"append", "operate"},
           held[c] = q, activeOps' = [activeOps EXCEPT ![q] = @ - 1]
    PROVE  CountCovers' /\ activeOps' \in [Page -> Nat]
<1>1. Users(q)' = Users(q) \ {c} /\ c \in Users(q)
    BY DEF Users, Only
<1>2. Cardinality(Users(q)') = Cardinality(Users(q)) - 1
    BY <1>1, UsersFinite, FS_RemoveElement
<1>3. \A p \in Page \ {q} : Users(p)' = Users(p)
    BY DEF Users, Only
<1>4. Cardinality(Users(q)) > 0
    <2>1. Cardinality(Users(q)) # 0
        BY <1>1, UsersFinite, FS_EmptySet
    <2> QED BY <2>1, UsersFinite
<1>5. CountCovers'
    BY <1>2, <1>3, UsersFinite DEF CountCovers
<1>6. activeOps' \in [Page -> Nat]
    BY <1>4, UsersFinite DEF CountCovers
<1> QED BY <1>5, <1>6

-----------------------------------------------------------------------------
(* The callers.                                                            *)

\* Come keeps the invariant.
LEMMA ComeKeeps ==
    ASSUME DrainInv, NEW c \in Caller, Come(c)
    PROVE  DrainInv'
<1>0. TypeOK /\ HoldsPage /\ CountCovers /\ Waiting /\ DrainWaits
    BY DEF DrainInv
<1>1. Only(c)
    BY <1>0 DEF Only, TypeOK, Come, At, Goto, counters, slice, draining
<1>2. /\ pc[c] = "out" /\ pc'[c] = "acquire" /\ held'[c] = held[c]
      /\ UNCHANGED <<pages, activeOps, watched, drain, unread, sum>>
    BY <1>0 DEF TypeOK, Come, At, Goto, counters, slice, draining
<1>4. CountCovers'
    BY <1>0, <1>1, <1>2, CountKept DEF Only
<1>5. TypeOK'
    BY <1>0, <1>2 DEF TypeOK, Come, At, Goto, counters, slice, draining
<1>6. HoldsPage'
    BY <1>0, <1>1, <1>2 DEF HoldsPage, Only
<1>7. Waiting'
    BY <1>0, <1>1, <1>2 DEF Waiting, Only, TypeOK
<1>8. DrainWaits'
    BY <1>0, <1>2 DEF DrainWaits
<1> QED BY <1>4, <1>5, <1>6, <1>7, <1>8 DEF DrainInv

\* Select keeps the invariant.
LEMMA SelectKeeps ==
    ASSUME DrainInv, NEW c \in Caller, NEW p \in Page, Select(c, p)
    PROVE  DrainInv'
<1>0. TypeOK /\ HoldsPage /\ CountCovers /\ Waiting /\ DrainWaits
    BY DEF DrainInv
<1>1. Only(c)
    BY <1>0 DEF Only, TypeOK, Select, At, Goto, counters, slice, draining
<1>2. /\ pc[c] = "acquire" /\ pc'[c] = "selected" /\ held'[c] = p
      /\ UNCHANGED <<pages, activeOps, watched, drain, unread, sum>>
    BY <1>0 DEF TypeOK, Select, At, Goto, counters, slice, draining
<1>4. CountCovers'
    BY <1>0, <1>1, <1>2, CountKept DEF Only
<1>5. TypeOK'
    BY <1>0, <1>2 DEF TypeOK, Select, At, Goto, counters, slice, draining
<1>6. HoldsPage'
    BY <1>0, <1>1, <1>2 DEF HoldsPage, Only
<1>7. Waiting'
    BY <1>0, <1>1, <1>2 DEF Waiting, Only, TypeOK
<1>8. DrainWaits'
    BY <1>0, <1>2 DEF DrainWaits
<1> QED BY <1>4, <1>5, <1>6, <1>7, <1>8 DEF DrainInv

\* Bump keeps the invariant.
LEMMA BumpKeeps ==
    ASSUME DrainInv, NEW c \in Caller, Bump(c)
    PROVE  DrainInv'
<1>0. TypeOK /\ HoldsPage /\ CountCovers /\ Waiting /\ DrainWaits
    BY DEF DrainInv
<1>1. Only(c)
    BY <1>0 DEF Only, TypeOK, Bump, At, Goto, counters, slice, draining
<1>2. /\ pc[c] = "selected" /\ pc'[c] = "operate" /\ held'[c] = held[c]
      /\ activeOps' = [activeOps EXCEPT ![held[c]] = @ + 1]
      /\ UNCHANGED <<pages, watched, drain, unread, sum>>
    BY <1>0 DEF TypeOK, Bump, At, Goto, counters, slice, draining
<1>3. held[c] \in Page
    BY <1>0, <1>2 DEF HoldsPage
<1>4. CountCovers'
    BY <1>0, <1>1, <1>2, <1>3, CountUp DEF TypeOK
<1>5. TypeOK'
    BY <1>0, <1>2, <1>3 DEF TypeOK, Bump, At, Goto, counters, slice, draining
<1>6. HoldsPage'
    BY <1>0, <1>1, <1>2, <1>3 DEF HoldsPage, Only
<1>7. Waiting'
    BY <1>0, <1>1, <1>2 DEF Waiting, Only, TypeOK
<1>8. DrainWaits'
    BY <1>0, <1>2 DEF DrainWaits
<1> QED BY <1>4, <1>5, <1>6, <1>7, <1>8 DEF DrainInv

\* Grow keeps the invariant.
LEMMA GrowKeeps ==
    ASSUME DrainInv, NEW c \in Caller, NEW p \in Page, Grow(c, p)
    PROVE  DrainInv'
<1>0. TypeOK /\ HoldsPage /\ CountCovers /\ Waiting /\ DrainWaits
    BY DEF DrainInv
<1>1. Only(c)
    BY <1>0 DEF Only, TypeOK, Grow, At, Goto, counters, slice, draining
<1>2. /\ pc[c] = "acquire" /\ pc'[c] = "append" /\ held'[c] = p
      /\ activeOps' = [activeOps EXCEPT ![p] = @ + 1]
      /\ UNCHANGED <<pages, watched, drain, unread, sum>>
    BY <1>0 DEF TypeOK, Grow, At, Goto, counters, slice, draining
<1>4. CountCovers'
    BY <1>0, <1>1, <1>2, CountUp DEF TypeOK
<1>5. TypeOK'
    BY <1>0, <1>2 DEF TypeOK, Grow, At, Goto, counters, slice, draining
<1>6. HoldsPage'
    BY <1>0, <1>1, <1>2 DEF HoldsPage, Only
<1>7. Waiting'
    BY <1>0, <1>1, <1>2 DEF Waiting, Only, TypeOK
<1>8. DrainWaits'
    BY <1>0, <1>2 DEF DrainWaits
<1> QED BY <1>4, <1>5, <1>6, <1>7, <1>8 DEF DrainInv

\* AppendPage keeps the invariant.
LEMMA AppendPageKeeps ==
    ASSUME DrainInv, NEW c \in Caller, AppendPage(c)
    PROVE  DrainInv'
<1>0. TypeOK /\ HoldsPage /\ CountCovers /\ Waiting /\ DrainWaits
    BY DEF DrainInv
<1>1. Only(c)
    BY <1>0 DEF Only, TypeOK, AppendPage, At, Goto, counters, slice, draining, Unlocked
<1>2. /\ pc[c] = "append" /\ pc'[c] = "operate" /\ held'[c] = held[c]
      /\ \A p \in pages : p \in pages'
      /\ UNCHANGED <<activeOps, watched, drain, unread, sum>>
    BY <1>0 DEF TypeOK, AppendPage, At, Goto, counters, slice, draining, Unlocked
<1>3. held[c] \in Page
    BY <1>0, <1>2 DEF HoldsPage
<1>4. CountCovers'
    BY <1>0, <1>1, <1>2, CountKept DEF Only
<1>5. TypeOK'
    BY <1>0, <1>2, <1>3 DEF TypeOK, AppendPage, At, Goto, counters, slice, draining, Unlocked
<1>6. HoldsPage'
    BY <1>0, <1>1, <1>2, <1>3 DEF HoldsPage, Only
<1>7. Waiting'
    BY <1>0, <1>1, <1>2 DEF Waiting, Only, TypeOK
<1>8. DrainWaits'
    BY <1>0, <1>2 DEF DrainWaits
<1> QED BY <1>4, <1>5, <1>6, <1>7, <1>8 DEF DrainInv

\* Release keeps the invariant.
LEMMA ReleaseKeeps ==
    ASSUME DrainInv, NEW c \in Caller, Release(c)
    PROVE  DrainInv'
<1>0. TypeOK /\ HoldsPage /\ CountCovers /\ Waiting /\ DrainWaits
    BY DEF DrainInv
<1>1. Only(c)
    BY <1>0 DEF Only, TypeOK, Release, At, Goto, counters, slice, draining
<1>2. /\ pc[c] = "operate" /\ pc'[c] = "out" /\ held'[c] = NoPage
      /\ activeOps' = [activeOps EXCEPT ![held[c]] = @ - 1]
      /\ \A d \in watched' : d \in watched /\ d # c
      /\ UNCHANGED <<pages, drain, unread, sum>>
    BY <1>0 DEF TypeOK, Release, At, Goto, counters, slice, draining
<1>3. held[c] \in Page
    BY <1>0, <1>2 DEF HoldsPage
<1>4. CountCovers' /\ activeOps' \in [Page -> Nat]
    BY <1>0, <1>1, <1>2, <1>3, CountDown DEF TypeOK
<1>5. TypeOK'
    BY <1>0, <1>2, <1>3, <1>4 DEF TypeOK, Release, At, Goto, counters, slice, draining
<1>6. HoldsPage'
    BY <1>0, <1>1, <1>2, <1>3 DEF HoldsPage, Only
<1>7. Waiting'
    BY <1>0, <1>1, <1>2 DEF Waiting, Only, TypeOK
<1>8. DrainWaits'
    BY <1>0, <1>2 DEF DrainWaits
<1> QED BY <1>4, <1>5, <1>6, <1>7, <1>8 DEF DrainInv

\* Abandon keeps the invariant: the page stays counted.
LEMMA AbandonKeeps ==
    ASSUME DrainInv, NEW c \in Caller, Abandon(c)
    PROVE  DrainInv'
<1>0. TypeOK /\ HoldsPage /\ CountCovers /\ Waiting /\ DrainWaits
    BY DEF DrainInv
<1>1. Only(c)
    BY <1>0 DEF Only, TypeOK, Abandon, At, Goto, counters, slice, draining
<1>2. /\ pc[c] = "operate" /\ pc'[c] = "out" /\ held'[c] = NoPage
      /\ \A d \in watched' : d \in watched /\ d # c
      /\ UNCHANGED <<pages, activeOps, drain, unread, sum>>
    BY <1>0 DEF TypeOK, Abandon, At, Goto, counters, slice, draining
<1>3. held[c] \in Page
    BY <1>0, <1>2 DEF HoldsPage
<1>4. CountCovers'
    <2>1. \A p \in Page : Cardinality(Users(p)') <= Cardinality(Users(p))
        <3> SUFFICES ASSUME NEW p \in Page
                     PROVE  Cardinality(Users(p)') <= Cardinality(Users(p))
            OBVIOUS
        <3>1. Users(p)' \subseteq Users(p)
            BY <1>1, <1>2 DEF Users, Only
        <3> QED BY <3>1, UsersFinite, FS_Subset
    <2>2. \A p \in Page : Cardinality(Users(p)') \in Nat
        <3> SUFFICES ASSUME NEW p \in Page PROVE Cardinality(Users(p)') \in Nat
            OBVIOUS
        <3>1. Users(p)' \subseteq Caller
            BY DEF Users
        <3> QED BY <3>1, PoolDrainAssumption, FS_Subset, FS_CardinalityType
    <2> QED BY <1>0, <1>2, <2>1, <2>2, UsersFinite DEF CountCovers, TypeOK
<1>5. TypeOK'
    BY <1>0, <1>2, <1>3, <1>4 DEF TypeOK, Abandon, At, Goto, counters, slice, draining
<1>6. HoldsPage'
    BY <1>0, <1>1, <1>2, <1>3 DEF HoldsPage, Only
<1>7. Waiting'
    BY <1>0, <1>1, <1>2 DEF Waiting, Only, TypeOK
<1>8. DrainWaits'
    BY <1>0, <1>2 DEF DrainWaits
<1> QED BY <1>4, <1>5, <1>6, <1>7, <1>8 DEF DrainInv

-----------------------------------------------------------------------------
(* The pages and the drain: no caller moves.                               *)

Still == UNCHANGED <<pc, held, activeOps>>

\* A step that moves no caller disturbs only what is said of the drain.
LEMMA StillKeeps ==
    ASSUME DrainInv, Still, TypeOK', Waiting', DrainWaits'
    PROVE  DrainInv'
<1>1. HoldsPage /\ CountCovers
    BY DEF DrainInv
<1>2. HoldsPage'
    BY <1>1 DEF HoldsPage, Still
<1>3. CountCovers'
    BY <1>1, CountKept DEF Still
<1> QED BY <1>2, <1>3 DEF DrainInv

\* The removal of a page: the drain no longer waits for its operations.
LEMMA RemovePageKeeps ==
    ASSUME DrainInv, NEW p \in Page, RemovePage(p)
    PROVE  DrainInv'
<1>0. TypeOK /\ Waiting /\ DrainWaits
    BY DEF DrainInv
<1>1. /\ Still /\ UNCHANGED <<drain, unread, sum>> /\ drain # "summing"
      /\ pages' = pages \ {p}
      /\ watched' = {c \in watched : held[c] # p}
    BY DEF RemovePage, Still, counters, draining, Unlocked
<1>2. TypeOK'
    BY <1>0, <1>1 DEF TypeOK, Still
<1>3. Waiting' /\ DrainWaits'
    BY <1>0, <1>1 DEF Waiting, DrainWaits, Still
<1> QED BY <1>1, <1>2, <1>3, StillKeeps

\* The drain begins: all whom it has to wait for are still to be counted.
LEMMA BeginDrainKeeps ==
    ASSUME DrainInv, BeginDrain
    PROVE  DrainInv'
<1>0. TypeOK /\ Waiting /\ DrainWaits
    BY DEF DrainInv
<1>1. /\ Still /\ pages' = pages
      /\ drain' = "summing" /\ unread' = pages /\ sum' = 0
      /\ watched' = {c \in Caller : pc[c] = "operate" /\ held[c] \in pages}
    BY DEF BeginDrain, Still, counters, slice, Counted
<1>2. TypeOK'
    BY <1>0, <1>1 DEF TypeOK, Still
<1>3. Waiting' /\ DrainWaits'
    BY <1>0, <1>1 DEF Waiting, DrainWaits, Still
<1> QED BY <1>1, <1>2, <1>3, StillKeeps

\* A counter is read: if it was the page of somebody whom the drain waits
\* for, the sum is not zero from now on.
LEMMA ReadCounterKeeps ==
    ASSUME DrainInv, NEW p \in Page, ReadCounter(p)
    PROVE  DrainInv'
<1>0. TypeOK /\ Waiting /\ DrainWaits /\ CountCovers
    BY DEF DrainInv
<1>1. /\ Still /\ UNCHANGED <<pages, drain, watched>>
      /\ drain = "summing" /\ p \in unread
      /\ sum' = sum + activeOps[p] /\ unread' = unread \ {p}
    BY DEF ReadCounter, Still, counters, slice
<1>2. activeOps[p] \in Nat /\ sum \in Nat
    BY <1>0 DEF TypeOK
<1>3. TypeOK'
    BY <1>0, <1>1, <1>2 DEF TypeOK, Still
<1>4. \A c \in watched : held[c] \in unread \ {p} \/ sum + activeOps[p] > 0
    <2> SUFFICES ASSUME NEW c \in watched
                 PROVE  held[c] \in unread \ {p} \/ sum + activeOps[p] > 0
        OBVIOUS
    <2>1. c \in Caller /\ pc[c] = "operate" /\ (held[c] \in unread \/ sum > 0)
        BY <1>0, <1>1 DEF Waiting, TypeOK
    <2>2. CASE held[c] = p
        <3>1. activeOps[p] > 0
            BY <1>0, <2>1, <2>2, UsedIsCounted
        <3> QED BY <3>1, <1>2
    <2>3. CASE held[c] # p
        BY <2>1, <2>3, <1>2
    <2> QED BY <2>2, <2>3
<1>5. Waiting'
    BY <1>0, <1>1, <1>4 DEF Waiting, Still
<1>6. DrainWaits'
    BY <1>1 DEF DrainWaits
<1> QED BY <1>1, <1>3, <1>5, <1>6, StillKeeps

\* The sum is zero only if there is nobody to wait for.
LEMMA JudgeKeeps ==
    ASSUME DrainInv, Judge
    PROVE  DrainInv'
<1>0. TypeOK /\ Waiting /\ DrainWaits
    BY DEF DrainInv
<1>1. /\ Still /\ UNCHANGED <<pages, unread, sum, watched>>
      /\ drain = "summing" /\ unread = {}
      /\ drain' = IF sum = 0 THEN "drained" ELSE "asleep"
    BY DEF Judge, Still, counters, slice
<1>2. TypeOK'
    BY <1>0, <1>1 DEF TypeOK, Still
<1>3. Waiting'
    BY <1>0, <1>1 DEF Waiting, Still
<1>4. DrainWaits'
    BY <1>0, <1>1 DEF Waiting, DrainWaits
<1> QED BY <1>1, <1>2, <1>3, <1>4, StillKeeps

\* The rest of the drain, and rest.
LEMMA DrainGoesOn ==
    ASSUME DrainInv, LookAgain \/ Expire \/ ClosePool \/ UNCHANGED vars
    PROVE  DrainInv'
<1>0. TypeOK /\ Waiting /\ DrainWaits
    BY DEF DrainInv
<1>1. ASSUME LookAgain PROVE DrainInv'
    <2>1. /\ Still /\ UNCHANGED <<pages, watched>>
          /\ drain = "asleep" /\ drain' = "summing" /\ unread' = pages /\ sum' = 0
        BY <1>1 DEF LookAgain, Still, counters, slice
    <2>2. TypeOK'
        BY <1>0, <2>1 DEF TypeOK, Still
    <2>3. Waiting' /\ DrainWaits'
        BY <1>0, <2>1 DEF Waiting, DrainWaits, Still
    <2> QED BY <2>1, <2>2, <2>3, StillKeeps
<1>2. ASSUME Expire \/ ClosePool PROVE DrainInv'
    <2>1. /\ Still /\ UNCHANGED <<unread, sum, watched>>
          /\ drain' \in {"expired", "closed"} /\ pages' \in {pages, {}}
        BY <1>2 DEF Expire, ClosePool, Still, counters, slice
    <2>2. TypeOK'
        BY <1>0, <2>1 DEF TypeOK, Still
    <2>3. Waiting' /\ DrainWaits'
        BY <2>1 DEF Waiting, DrainWaits
    <2> QED BY <2>1, <2>2, <2>3, StillKeeps
<1>3. ASSUME UNCHANGED vars PROVE DrainInv'
    <2>1. Still /\ UNCHANGED <<pages, drain, unread, sum, watched>>
        BY <1>3 DEF vars, Still, counters, slice, draining
    <2>2. TypeOK'
        BY <1>0, <2>1 DEF TypeOK, Still
    <2>3. Waiting' /\ DrainWaits'
        BY <1>0, <2>1 DEF Waiting, DrainWaits, Still
    <2> QED BY <2>1, <2>2, <2>3, StillKeeps
<1> QED BY <1>1, <1>2, <1>3

-----------------------------------------------------------------------------
\* A pool that nobody uses yet satisfies the invariant.
LEMMA InitDrain == Init => DrainInv
<1> SUFFICES ASSUME Init PROVE DrainInv
    OBVIOUS
<1>1. TypeOK
    BY DEF Init, TypeOK
<1>2. HoldsPage /\ Waiting /\ DrainWaits
    BY DEF Init, HoldsPage, Waiting, DrainWaits
<1>3. \A p \in Page : Users(p) = {}
    BY DEF Init, Users
<1>4. CountCovers
    BY <1>3, FS_EmptySet DEF Init, CountCovers
<1> QED BY <1>1, <1>2, <1>4 DEF DrainInv

\* Every step keeps the invariant.
LEMMA NextDrain == DrainInv /\ [Next]_vars => DrainInv'
BY ComeKeeps, SelectKeeps, BumpKeeps, GrowKeeps, AppendPageKeeps, ReleaseKeeps,
   AbandonKeeps, RemovePageKeeps, BeginDrainKeeps, ReadCounterKeeps, JudgeKeeps, DrainGoesOn
   DEF Next, CallerStep, DrainStep, AtRest

\* When Drain says that the pool is drained, every operation that ran in it
\* when it began has ended or lost its page: adding up counters that others
\* change meanwhile overlooks none of them.
THEOREM NoneOverlooked == Spec => []DrainWaits
<1>1. DrainInv => DrainWaits
    BY DEF DrainInv
<1> QED BY InitDrain, NextDrain, <1>1, PTL DEF Spec
=============================================================================
