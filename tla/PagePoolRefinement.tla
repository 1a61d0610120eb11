------------------------- MODULE PagePoolRefinement -------------------------
(* PagePool implements PageLifecycle, for every configuration.             *)
EXTENDS PagePoolProofs

-----------------------------------------------------------------------------
(* The refinement.  Every step of the pool is described by what it does to *)
(* the abstract status and users of the pages: at most one page, or all    *)
(* the pages of the slice, changes.                                        *)

\* The abstract status and users of every page stay as they are.
Stutter == \A p \in Page : StatusOf(p)' = StatusOf(p) /\ Users(p)' = Users(p)

\* The abstract step changes the status of q to s and its users to u.
Changes(q, s, u) ==
    /\ \A p \in Page : StatusOf(p)' = IF p = q THEN s ELSE StatusOf(p)
    /\ \A p \in Page : Users(p)' = IF p = q THEN u ELSE Users(p)

\* A step that keeps every status and every set of users stutters.
LEMMA StutterMaps == Stutter => UNCHANGED Lifecycle!vars
  BY DEF Stutter, Lifecycle!vars

\* What has to be shown of a step that concerns page q.
AbstractStep(q) ==
    \/ StatusOf(q) = "unborn" /\ Changes(q, "offered", Users(q))
    \/ StatusOf(q) = "offered" /\ Changes(q, "withdrawn", Users(q))
    \/ /\ StatusOf(q) \in {"offered", "withdrawn"}
       /\ Changes(q, "retired", Users(q))
    \/ \E c \in Client : c \in Users(q) /\ Changes(q, StatusOf(q), Users(q) \ {c})
    \/ \E c \in Client :
          /\ \A p \in Page : c \notin Users(p)
          /\ StatusOf(q) \in {"unborn", "offered"}
          /\ Changes(q, "offered", Users(q) \cup {c})

\* A step that concerns one page is an action of PageLifecycle.
LEMMA AbstractStepMaps ==
    ASSUME NEW q \in Page, AbstractStep(q)
    PROVE  Lifecycle!Next
<1> DEFINE S == [p \in Page |-> StatusOf(p)]
           U == [p \in Page |-> Users(p)]
<1>1. CASE StatusOf(q) = "unborn" /\ Changes(q, "offered", Users(q))
  <2>1. S' = [S EXCEPT ![q] = "offered"] /\ U' = U
    BY <1>1 DEF Changes
  <2>2. Lifecycle!Offer(q)
    BY <1>1, <2>1 DEF Lifecycle!Offer
  <2> QED
    BY <2>2 DEF Lifecycle!Next
<1>2. CASE StatusOf(q) = "offered" /\ Changes(q, "withdrawn", Users(q))
  <2>1. S' = [S EXCEPT ![q] = "withdrawn"] /\ U' = U
    BY <1>2 DEF Changes
  <2>2. Lifecycle!Withdraw(q)
    BY <1>2, <2>1 DEF Lifecycle!Withdraw
  <2> QED
    BY <2>2 DEF Lifecycle!Next
<1>3. CASE /\ StatusOf(q) \in {"offered", "withdrawn"}
           /\ Changes(q, "retired", Users(q))
  <2>1. S' = [p \in Page |-> IF p \in {q} THEN "retired" ELSE S[p]] /\ U' = U
    BY <1>3 DEF Changes
  <2>2. Lifecycle!Retire({q})
    BY <1>3, <2>1 DEF Lifecycle!Retire
  <2> QED
    BY <2>2 DEF Lifecycle!Next
<1>4. ASSUME NEW c \in Client, c \in Users(q),
             Changes(q, StatusOf(q), Users(q) \ {c})
      PROVE  Lifecycle!Next
  <2>1. S' = S /\ U' = [U EXCEPT ![q] = @ \ {c}]
    BY <1>4 DEF Changes
  <2>2. Lifecycle!Leave(c, q)
    BY <1>4, <2>1 DEF Lifecycle!Leave
  <2> QED
    BY <2>2 DEF Lifecycle!Next
<1>5. ASSUME NEW c \in Client,
             \A p \in Page : c \notin Users(p),
             StatusOf(q) \in {"unborn", "offered"},
             Changes(q, "offered", Users(q) \cup {c})
      PROVE  Lifecycle!Next
  <2>1. S' = [S EXCEPT ![q] = "offered"] /\ U' = [U EXCEPT ![q] = @ \cup {c}]
    BY <1>5 DEF Changes
  <2>2. Lifecycle!Idle(c)
    BY <1>5 DEF Lifecycle!Idle
  <2>3. CASE StatusOf(q) = "unborn"
    <3>1. Lifecycle!OfferTo(c, q)
      BY <2>1, <2>2, <2>3 DEF Lifecycle!OfferTo
    <3> QED
      BY <3>1 DEF Lifecycle!Next
  <2>4. CASE StatusOf(q) = "offered"
    <3>1. S' = S
      BY <2>1, <2>4
    <3>2. Lifecycle!Use(c, q)
      BY <2>1, <2>2, <2>4, <3>1 DEF Lifecycle!Use
    <3> QED
      BY <3>2 DEF Lifecycle!Next
  <2> QED
    BY <1>5, <2>3, <2>4
<1> QED
  BY <1>1, <1>2, <1>3, <1>4, <1>5 DEF AbstractStep

-----------------------------------------------------------------------------
(* When the abstract variables do not change.                              *)

\* Users are callers that have selected a page and not released it.
LEMMA UsersSame ==
    ASSUME \A c \in Client :
              /\ (pc[c] \in {"selected", "operating"})'
                     <=> pc[c] \in {"selected", "operating"}
              /\ pc[c] \in {"selected", "operating"} => held'[c] = held[c]
    PROVE  \A p \in Page : Users(p)' = Users(p)
  BY DEF Users, HasPage

\* A page is private while its creator is about to append it.
LEMMA PrivateSame ==
    ASSUME \A a \in Actor :
              /\ (pc[a] = "append")' <=> pc[a] = "append"
              /\ pc[a] = "append" => held'[a] = held[a]
    PROVE  \A p \in Page : Private(p)' <=> Private(p)
  BY DEF Private, At

\* The status depends on the slice, the states and who is private.
LEMMA StatusSame ==
    ASSUME pages' = pages,
           \A p \in pages : (state[p] = "idle")' <=> state[p] = "idle",
           \A p \in Page : (raw[p] = "none" \/ Private(p))'
                               <=> (raw[p] = "none" \/ Private(p))
    PROVE  \A p \in Page : StatusOf(p)' = StatusOf(p)
<1> SUFFICES ASSUME NEW p \in Page PROVE StatusOf(p)' = StatusOf(p)
  OBVIOUS
<1>1. CASE p \in pages
  BY <1>1 DEF StatusOf
<1>2. CASE p \notin pages
  BY <1>2 DEF StatusOf
<1> QED
  BY <1>1, <1>2

\* A goroutine that is neither a user of a page nor about to append one
\* before and after the step, and no other step of the pool.
LEMMA QuietStep ==
    ASSUME TypeInv, NEW a \in Actor,
           pc[a] \notin {"selected", "operating", "append"},
           pc'[a] \notin {"selected", "operating", "append"},
           \A b \in Actor \ {a} : pc'[b] = pc[b] /\ held'[b] = held[b],
           UNCHANGED <<pages, state, raw>>
    PROVE  Stutter
<1>1. \A p \in Page : Users(p)' = Users(p)
  BY UsersSame, ActorFacts
<1>2. \A p \in Page : Private(p)' <=> Private(p)
  BY PrivateSame
<1>3. \A p \in Page : StatusOf(p)' = StatusOf(p)
  BY <1>2, StatusSame
<1> QED
  BY <1>1, <1>3 DEF Stutter

\* The steps that only move a goroutine on stutter.
LEMMA GoroutineMoves ==
    ASSUME TypeInv, LifeInv,
           \/ \E c \in Client, l \in {"create", "waiting"} : NoneAvailable(c, l)
           \/ \E c \in Client : GiveUp(c) \/ TakeNow(c)
           \/ \E a \in Actor : CreateFails(a)
           \/ BackgroundNext
           \/ \E b \in Background, p \in Page, l \in {"mark", "expired"} :
                 Skip(b, p) \/ Choose(b, p, l)
           \/ HealthChecker \in Background /\ (Drained \/ DrainTimesOut)
           \/ Reaper \in Background
              /\ (ReaperTakesNow \/ ReaperSpares \/ ReaperCondemns)
    PROVE  Stutter
<1> USE DEF TypeInv, TypeOK, At, Goto, Hold
<1>1. ASSUME NEW c \in Client, NEW l \in {"create", "waiting"},
             NoneAvailable(c, l)
      PROVE  Stutter
  BY <1>1, ActorFacts, QuietStep DEF NoneAvailable
<1>2. ASSUME NEW c \in Client, GiveUp(c) \/ TakeNow(c) PROVE Stutter
  BY <1>2, ActorFacts, QuietStep DEF GiveUp, TakeNow
<1>3. ASSUME NEW a \in Actor, CreateFails(a) PROVE Stutter
  BY <1>3, ActorFacts, QuietStep DEF CreateFails, AfterCreate
<1>4. ASSUME NEW b \in Background, TakeSnapshot(b) \/ RunEnds(b) \/ Exit(b)
      PROVE  Stutter
  BY <1>4, ActorFacts, QuietStep DEF TakeSnapshot, RunEnds, Exit
<1>5. ASSUME NEW b \in Background, NEW p \in Page, NEW l \in {"mark", "expired"},
             Skip(b, p) \/ Choose(b, p, l)
      PROVE  Stutter
  <2>1. ASSUME Skip(b, p) PROVE Stutter
    BY <1>5, <2>1, ActorFacts, QuietStep DEF Skip
  <2>2. ASSUME Choose(b, p, l) PROVE Stutter
    BY <1>5, <2>2, ActorFacts, QuietStep DEF Choose
  <2> QED
    BY <1>5, <2>1, <2>2
<1>6. ASSUME HealthChecker \in Background, Drained \/ DrainTimesOut
      PROVE  Stutter
  BY <1>6, ActorFacts, QuietStep DEF Drained, DrainTimesOut, DrainEnds
<1>7. ASSUME Reaper \in Background,
             ReaperTakesNow \/ ReaperSpares \/ ReaperCondemns
      PROVE  Stutter
  BY <1>7, ActorFacts, QuietStep
     DEF ReaperTakesNow, ReaperSpares, ReaperCondemns, ReaperDecides
<1> QED
  BY <1>1, <1>2, <1>3, <1>4, <1>5, <1>6, <1>7 DEF BackgroundNext

\* So do the remaining steps that no caller can notice.
LEMMA OtherStutters ==
    ASSUME TypeInv, LifeInv,
           \/ \E c \in Client : Bump(c)
           \/ \E a \in Actor, p \in Page : CreatePage(a, p)
           \/ \E p \in Page : CloseRaw(p) \/ PageDies(p)
           \/ WarmUpFails \/ Started \/ Cancel \/ Tick \/ UNCHANGED vars
    PROVE  Stutter
<1> USE DEF TypeInv, TypeOK, At, Goto, Hold
<1>1. ASSUME NEW c \in Client, Bump(c) PROVE Stutter
  <2>1. \A p \in Page : Users(p)' = Users(p)
    BY <1>1, ActorFacts, UsersSame DEF Bump
  <2>2. \A p \in Page : Private(p)' <=> Private(p)
    BY <1>1, ActorFacts, PrivateSame DEF Bump
  <2>3. \A p \in Page : StatusOf(p)' = StatusOf(p)
    BY <1>1, <2>2, StatusSame DEF Bump
  <2> QED
    BY <2>1, <2>3 DEF Stutter
<1>2. ASSUME NEW a \in Actor, NEW p \in Page, CreatePage(a, p) PROVE Stutter
  <2>1. \A q \in Page : Users(q)' = Users(q)
    BY <1>2, ActorFacts, UsersSame DEF CreatePage
  <2>2. \A q \in Page : Private(q)' <=> q = p \/ Private(q)
    BY <1>2, ActorAssumption
       DEF CreatePage, Private, LifeInv, Unborn, HoldsPage, HoldingPC
  <2>3. \A q \in Page : (raw[q] = "none" \/ Private(q))'
                            <=> (raw[q] = "none" \/ Private(q))
    BY <1>2, <2>2 DEF CreatePage
  <2>4. \A q \in Page : StatusOf(q)' = StatusOf(q)
    BY <1>2, <2>3, StatusSame DEF CreatePage
  <2> QED
    BY <2>1, <2>4 DEF Stutter
<1>3. ASSUME NEW p \in Page, CloseRaw(p) \/ PageDies(p) PROVE Stutter
  <2>1. \A q \in Page : Users(q)' = Users(q)
    BY <1>3, UsersSame DEF CloseRaw, PageDies
  <2>2. \A q \in Page : Private(q)' <=> Private(q)
    BY <1>3, PrivateSame DEF CloseRaw, PageDies
  <2>3. \A q \in Page : StatusOf(q)' = StatusOf(q)
    BY <1>3, <2>2, StatusSame DEF CloseRaw, PageDies
  <2> QED
    BY <2>1, <2>3 DEF Stutter
<1>4. ASSUME WarmUpFails \/ Cancel \/ Tick \/ UNCHANGED vars PROVE Stutter
  <2>1. \A q \in Page : Users(q)' = Users(q)
    BY <1>4, UsersSame DEF WarmUpFails, Cancel, Tick, vars
  <2>2. \A q \in Page : Private(q)' <=> Private(q)
    BY <1>4, PrivateSame DEF WarmUpFails, Cancel, Tick, vars
  <2>3. \A q \in Page : StatusOf(q)' = StatusOf(q)
    BY <1>4, <2>2, StatusSame DEF WarmUpFails, Cancel, Tick, vars
  <2> QED
    BY <2>1, <2>3 DEF Stutter
<1>5. ASSUME Started PROVE Stutter
  <2>1. \A q \in Page : Users(q)' = Users(q)
    BY <1>5, ActorFacts, UsersSame DEF Started
  <2>2. \A q \in Page : Private(q)' <=> Private(q)
    BY <1>5, ActorFacts, PrivateSame DEF Started, Roles
  <2>3. \A q \in Page : StatusOf(q)' = StatusOf(q)
    BY <1>5, <2>2, StatusSame DEF Started
  <2> QED
    BY <2>1, <2>3 DEF Stutter
<1> QED
  BY <1>1, <1>2, <1>3, <1>4, <1>5

-----------------------------------------------------------------------------
(* The steps that do change them.                                          *)

\* tryAcquire gives a caller a page that is on offer.
LEMMA SelectMaps ==
    ASSUME TypeInv, LifeInv, NEW c \in Client, NEW q \in Page, Select(c, q)
    PROVE  AbstractStep(q)
<1> USE DEF TypeInv, TypeOK, At, Goto, Hold
<1>1. \A p \in Page : c \notin Users(p)
  BY DEF Select, Users, HasPage
<1>2. StatusOf(q) = "offered"
  BY DEF Select, Available, StatusOf
<1>3. \A p \in Page : Users(p)' = IF p = q THEN Users(q) \cup {c} ELSE Users(p)
  BY ActorFacts DEF Select, Users, HasPage
<1>4. \A p \in Page : Private(p)' <=> Private(p)
  BY ActorFacts, PrivateSame DEF Select
<1>5. \A p \in Page : StatusOf(p)' = StatusOf(p)
  BY <1>4, StatusSame DEF Select
<1> QED
  BY <1>1, <1>2, <1>3, <1>5 DEF AbstractStep, Changes

\* Release is the caller's leaving, and so is an operation that panics.
LEMMA ReleaseMaps ==
    ASSUME TypeInv, LifeInv, NEW c \in Client,
           \/ Release(c) \/ Abandon(c)
           \/ \E r \in Replacer : ReleaseAndReplace(c, r)
    PROVE  held[c] \in Page /\ AbstractStep(held[c])
<1> USE DEF TypeInv, TypeOK, At, Goto, Hold
<1> DEFINE q == held[c]
<1>1. q \in Page /\ c \in Users(q)
  BY ActorFacts DEF Release, ReleaseAndReplace, ReleaseOf, Abandon, HoldsPage,
                    HoldingPC, Users, HasPage
<1>2. \A p \in Page : Users(p)' = IF p = q THEN Users(q) \ {c} ELSE Users(p)
  <2>1. CASE Release(c) \/ Abandon(c)
    BY <1>1, <2>1, ActorFacts DEF Release, ReleaseOf, Abandon, Users, HasPage
  <2>2. ASSUME NEW r \in Replacer, ReleaseAndReplace(c, r)
        PROVE  \A p \in Page : Users(p)' = IF p = q THEN Users(q) \ {c} ELSE Users(p)
    <3>1. /\ pc'[c] = "ready"
          /\ \A d \in Client \ {c} : pc'[d] = pc[d] /\ held'[d] = held[d]
      BY <2>2, ActorFacts DEF ReleaseAndReplace
    <3> QED
      BY <1>1, <3>1 DEF Users, HasPage
  <2> QED
    BY <2>1, <2>2
<1>3. \A p \in Page : Private(p)' <=> Private(p)
  <2>1. \A a \in Actor : /\ (pc[a] = "append")' <=> pc[a] = "append"
                         /\ pc[a] = "append" => held'[a] = held[a]
    BY ActorFacts DEF Release, ReleaseAndReplace, ReleaseOf, Abandon
  <2> QED
    BY <2>1, PrivateSame
<1>4. \A p \in Page : StatusOf(p)' = StatusOf(p)
  BY <1>3, StatusSame DEF Release, ReleaseAndReplace, Abandon
<1> QED
  BY <1>1, <1>2, <1>4 DEF AbstractStep, Changes

\* The pages that the other creators are about to append stay private.
LEMMA OnePrivateLess ==
    ASSUME TypeInv, LifeInv, NEW a \in Actor, pc[a] = "append",
           pc'[a] # "append",
           \A b \in Actor \ {a} : pc'[b] = pc[b] /\ held'[b] = held[b]
    PROVE  /\ held[a] \in Page /\ Private(held[a])
           /\ \A p \in Page : Private(p)' <=> Private(p) /\ p # held[a]
<1>1. held[a] \in Page /\ Private(held[a])
  BY DEF TypeInv, HoldsPage, HoldingPC, Private, At
<1>2. \A b \in Actor \ {a} : held[b] # held[a]
  BY DEF LifeInv, KnownToCreator
<1>3. \A p \in Page : Private(p)' <=> Private(p) /\ p # held[a]
  BY <1>2 DEF Private, At
<1> QED
  BY <1>1, <1>3

\* An append offers the page, in Acquire with its first caller on it.
LEMMA AppendMaps ==
    ASSUME TypeInv, LifeInv, NEW a \in Actor,
           AppendPage(a) \/ (a \in Client /\ AppendAndUse(a))
    PROVE  held[a] \in Page /\ AbstractStep(held[a])
<1> USE DEF TypeInv, TypeOK, At, Goto, Hold
<1> DEFINE q == held[a]
<1>1. /\ pc[a] = "append" /\ pc'[a] # "append"
      /\ \A b \in Actor \ {a} : pc'[b] = pc[b] /\ held'[b] = held[b]
      /\ pages' = pages \cup {q} /\ UNCHANGED <<state, raw>>
  BY ActorFacts DEF AppendPage, AppendAndUse, AfterCreate
<1>2. /\ q \in Page /\ Private(q)
      /\ \A p \in Page : Private(p)' <=> Private(p) /\ p # q
  BY <1>1, OnePrivateLess
<1>3. q \notin pages /\ state[q] = "idle" /\ raw[q] # "none"
  BY <1>1 DEF LifeInv, KnownToCreator
<1>4. StatusOf(q) = "unborn"
  BY <1>2, <1>3 DEF StatusOf
<1>5. \A p \in Page : StatusOf(p)' = IF p = q THEN "offered" ELSE StatusOf(p)
  BY <1>1, <1>2, <1>3 DEF StatusOf
<1>6. CASE AppendPage(a)
  <2>1. \A p \in Page : Users(p)' = Users(p)
    BY <1>6, ActorFacts, UsersSame DEF AppendPage
  <2> QED
    BY <1>2, <1>4, <1>5, <2>1 DEF AbstractStep, Changes
<1>7. CASE a \in Client /\ AppendAndUse(a)
  <2>1. \A p \in Page : a \notin Users(p)
    BY <1>7 DEF AppendAndUse, Users, HasPage
  <2>2. \A p \in Page : Users(p)' = IF p = q THEN Users(q) \cup {a} ELSE Users(p)
    BY <1>7, ActorFacts DEF AppendAndUse, Users, HasPage
  <2> QED
    BY <1>2, <1>4, <1>5, <1>7, <2>1, <2>2 DEF AbstractStep, Changes
<1> QED
  BY <1>6, <1>7

\* removePageLocked on a page that somebody has: it is not a private one.
LEMMA RemoveMaps ==
    ASSUME TypeInv, LifeInv, NEW a \in Actor, NEW q \in Page,
           held[a] = q, pc[a] \in {"replace", "drained", "overdue", "reap"},
           pc'[a] \in {"create", "next"},
           \A b \in Actor \ {a} : pc'[b] = pc[b] /\ held'[b] = held[b],
           RemovePageLocked(q)
    PROVE  Stutter \/ AbstractStep(q)
<1> USE DEF TypeInv, TypeOK, At
<1>1. \A p \in Page : Users(p)' = Users(p)
  BY ActorFacts, UsersSame
<1>2. \A p \in Page : Private(p)' <=> Private(p)
  BY PrivateSame
<1>3. ~Private(q) /\ raw[q] # "none"
  BY ActorAssumption DEF LifeInv, KnownToCreator, Unborn, Private
<1>4. /\ \A p \in Page : p \in pages' <=> p \in pages /\ p # q
      /\ \A p \in Page \ {q} : state'[p] = state[p] /\ raw'[p] = raw[p]
      /\ raw'[q] # "none"
  BY <1>3 DEF RemovePageLocked
<1>5. StatusOf(q)' = "retired" /\ \A p \in Page \ {q} : StatusOf(p)' = StatusOf(p)
  BY <1>2, <1>3, <1>4 DEF StatusOf
<1>6. CASE q \in pages
  <2>1. StatusOf(q) \in {"offered", "withdrawn"}
    BY <1>6 DEF StatusOf
  <2> QED
    BY <1>1, <1>5, <2>1 DEF AbstractStep, Changes
<1>7. CASE q \notin pages
  <2>1. StatusOf(q) = "retired"
    BY <1>3, <1>7 DEF StatusOf
  <2> QED
    BY <1>1, <1>5, <2>1 DEF Stutter
<1> QED
  BY <1>6, <1>7

\* setState(pageClosing) on whatever the background goroutine has picked.
LEMMA MarkMaps ==
    ASSUME TypeInv, LifeInv, NEW b \in Background, NEW l \in {"drain", "next"},
           NEW h, MarkClosing(b, l, h)
    PROVE  held[b] \in Page /\ (Stutter \/ AbstractStep(held[b]))
<1> USE DEF TypeInv, TypeOK, At, Goto, Hold
<1> DEFINE q == held[b]
<1>1. /\ q \in Page /\ UNCHANGED <<pages, raw>>
      /\ state' = [state EXCEPT ![q] = "closing"]
  BY ActorFacts DEF MarkClosing, HoldsPage, HoldingPC
<1>2. \A p \in Page : Users(p)' = Users(p)
  BY ActorFacts, UsersSame DEF MarkClosing
<1>3. \A p \in Page : Private(p)' <=> Private(p)
  BY ActorFacts, PrivateSame DEF MarkClosing
<1>4. CASE q \in pages /\ state[q] = "idle"
  <2>1. StatusOf(q) = "offered"
    BY <1>1, <1>4 DEF StatusOf
  <2>2. \A p \in Page : StatusOf(p)' = IF p = q THEN "withdrawn" ELSE StatusOf(p)
    BY <1>1, <1>3, <1>4 DEF StatusOf
  <2> QED
    BY <1>1, <1>2, <2>1, <2>2 DEF AbstractStep, Changes
<1>5. CASE ~(q \in pages /\ state[q] = "idle")
  <2>1. \A p \in Page : StatusOf(p)' = StatusOf(p)
    BY <1>1, <1>3, <1>5, StatusSame
  <2> QED
    BY <1>1, <1>2, <2>1 DEF Stutter
<1> QED
  BY <1>4, <1>5

\* A page of the warm-up is offered.
LEMMA WarmUpMaps ==
    ASSUME TypeInv, LifeInv, NEW q \in Page, WarmUp(q)
    PROVE  AbstractStep(q)
<1> USE DEF TypeInv, TypeOK
<1>1. \A p \in Page : Users(p)' = Users(p)
  BY UsersSame DEF WarmUp
<1>2. \A p \in Page : Private(p)' <=> Private(p)
  BY PrivateSame DEF WarmUp
<1>3. q \notin pages /\ state[q] = "idle" /\ StatusOf(q) = "unborn"
  BY DEF WarmUp, LifeInv, Unborn, StatusOf
<1>4. \A p \in Page : StatusOf(p)' = IF p = q THEN "offered" ELSE StatusOf(p)
  BY <1>2, <1>3 DEF WarmUp, StatusOf
<1> QED
  BY <1>1, <1>3, <1>4 DEF AbstractStep, Changes

\* Close retires all the pages that are left.
LEMMA CloseMaps ==
    ASSUME TypeInv, LifeInv, CloseAll
    PROVE  Lifecycle!Next
<1> USE DEF TypeInv, TypeOK
<1>1. \A p \in Page : Users(p)' = Users(p)
  BY UsersSame DEF CloseAll
<1>2. \A p \in Page : Private(p)' <=> Private(p)
  BY PrivateSame DEF CloseAll
<1>3. \A p \in pages : ~Private(p) /\ raw[p] # "none"
  BY DEF LifeInv, Unborn, KnownToCreator, Private, At
<1>4. \A p \in pages : StatusOf(p) \in {"offered", "withdrawn"}
  BY DEF StatusOf
<1>5. \A p \in Page : StatusOf(p)' = IF p \in pages THEN "retired" ELSE StatusOf(p)
  BY <1>2, <1>3 DEF CloseAll, StatusOf
<1>6. Lifecycle!Retire(pages)
  BY <1>1, <1>4, <1>5 DEF Lifecycle!Retire
<1> QED
  BY <1>6 DEF Lifecycle!Next

-----------------------------------------------------------------------------
\* Every step of the pool is a step of PageLifecycle or a stutter.
LEMMA StepMaps ==
    ASSUME TypeInv, LifeInv, [Next]_vars
    PROVE  [Lifecycle!Next]_(Lifecycle!vars)
<1> SUFFICES Stutter \/ Lifecycle!Next \/ \E q \in Page : AbstractStep(q)
  BY StutterMaps, AbstractStepMaps
<1> USE DEF TypeInv, TypeOK, At, Goto, Hold
<1>1. CASE ClientNext
  BY <1>1, SelectMaps, ReleaseMaps, AppendMaps, GoroutineMoves, OtherStutters,
     ActorFacts DEF ClientNext, GrowOnDemand, AwaitPage
<1>2. ASSUME NEW a \in Actor, ReplacePage(a)
      PROVE  Stutter \/ \E q \in Page : AbstractStep(q)
  <2>1. /\ held[a] \in Page /\ pc[a] \in {"replace", "drained", "overdue"}
        /\ pc'[a] = "create" /\ RemovePageLocked(held[a])
        /\ \A b \in Actor \ {a} : pc'[b] = pc[b] /\ held'[b] = held[b]
    BY <1>2 DEF ReplacePage, HoldsPage, HoldingPC
  <2> HIDE DEF TypeInv
  <2> QED
    BY <2>1, RemoveMaps
<1>3. ASSUME NEW a \in Actor,
             \/ \E p \in Page : CreatePage(a, p)
             \/ CreateFails(a) \/ AppendPage(a) \/ ReplacePage(a)
      PROVE  Stutter \/ \E q \in Page : AbstractStep(q)
  <2> HIDE DEF TypeInv, TypeOK, At, Goto, Hold
  <2>1. CASE \E p \in Page : CreatePage(a, p)
    BY <2>1, OtherStutters
  <2>2. CASE CreateFails(a)
    BY <2>2, GoroutineMoves
  <2>3. CASE AppendPage(a)
    <3>1. held[a] \in Page /\ AbstractStep(held[a])
      BY <2>3, AppendMaps
    <3> QED
      BY <3>1
  <2> QED
    BY <1>2, <1>3, <2>1, <2>2, <2>3
<1>4. CASE BackgroundNext
  BY <1>4, GoroutineMoves
<1>5. CASE HealthNext
  BY <1>5, GoroutineMoves, MarkMaps
     DEF HealthNext, HealthMarks, FindsHealthy, FindsUnhealthy
<1>6. ASSUME Reaper \in Background, Reap
      PROVE  Stutter \/ \E q \in Page : AbstractStep(q)
  <2>1. /\ Reaper \in Actor /\ held[Reaper] \in Page /\ pc[Reaper] = "reap"
        /\ pc'[Reaper] \in {"create", "next"}
        /\ RemovePageLocked(held[Reaper])
        /\ \A b \in Actor \ {Reaper} : pc'[b] = pc[b] /\ held'[b] = held[b]
    BY <1>6, ActorFacts DEF Reap, HoldsPage, HoldingPC
  <2> HIDE DEF TypeInv
  <2> QED
    BY <2>1, RemoveMaps
<1>7. CASE ReaperNext
  BY <1>6, <1>7, GoroutineMoves, MarkMaps
     DEF ReaperNext, ReaperMarks, ReaperSkips, ReaperPicksGrace,
         ReaperPicksExpired
<1>8. CASE PoolNext \/ EnvNext \/ AtRest \/ UNCHANGED vars
  BY <1>8, OtherStutters, WarmUpMaps, CloseMaps DEF PoolNext, EnvNext, AtRest
<1> QED
  BY <1>1, <1>3, <1>4, <1>5, <1>7, <1>8 DEF Next, CreatorNext

\* The pool implements the life of a page that PageLifecycle promises, for
\* every configuration and number of goroutines: a page is offered once,
\* takes callers only while it is offered, and never comes back.
THEOREM PoolImplementsLifecycle == Spec => LifecycleSpec
<1>1. Init => Lifecycle!Init
  BY ActorFacts DEF Init, Lifecycle!Init, StatusOf, Users, HasPage, Private, At
<1>2. TypeInv /\ LifeInv /\ [Next]_vars => [Lifecycle!Next]_(Lifecycle!vars)
  BY StepMaps
<1> QED
  BY <1>1, <1>2, Invariants, PTL DEF Spec, LifecycleSpec, Lifecycle!Spec
=============================================================================
