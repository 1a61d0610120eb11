--------------------------- MODULE PagePoolProofs ---------------------------
(* Theorems about PagePool, for every configuration and any finite number  *)
(* of pages, callers and replacement goroutines.                           *)
EXTENDS PagePool, FiniteSetTheorems, TLAPS

-----------------------------------------------------------------------------
(* Types, and what each kind of goroutine can be doing.                    *)

ClientPC == {"ready", "selected", "operating", "waiting", "create", "append"}
ReplacerPC == {"off", "replace", "create", "append"}
BackgroundPC == {"off", "wait", "awake", "next", "mark", "drain", "drained", "overdue",
                 "expired", "reap", "create", "append"}
HoldingPC == {"selected", "operating", "append", "replace", "mark", "drain",
              "drained", "overdue", "expired", "reap"}

Roles ==
    /\ \A c \in Client : pc[c] \in ClientPC
    /\ \A r \in Replacer : pc[r] \in ReplacerPC
    /\ \A b \in Background : pc[b] \in BackgroundPC
    /\ phase = "warming" => \A b \in Background : pc[b] = "off"

\* A goroutine has a page exactly while it works on one.
HoldsPage ==
    \A a \in Actor : IF pc[a] \in HoldingPC THEN held[a] \in Page
                                            ELSE held[a] = NoPage

\* TypeOK alone is not inductive: that a Release leaves activeOps
\* non-negative follows from the exact count.
TypeInv == TypeOK /\ Roles /\ HoldsPage /\ ActiveOpsExact

\* The kinds of goroutines are disjoint and are all there are.
LEMMA ActorFacts ==
    /\ Background \cap (Client \cup Replacer) = {}
    /\ Client \cap Replacer = {}
    /\ Background \subseteq {HealthChecker, Reaper}
    /\ Actor = Client \cup Replacer \cup Background
  BY ActorAssumption DEF Background, Actor

\* Numbers of the configuration.
LEMMA ConfigFacts ==
    /\ MinPages \in Nat /\ MaxPages \in Nat /\ TTL \in Nat
    /\ GracePeriod \in Nat /\ HealthCheckInterval \in Nat
    /\ MaxPages >= 1 /\ MinPages <= MaxPages
    /\ MaxMissed \in Nat /\ MaxLost \in Nat /\ MaxAbandoned \in Nat
  BY ConfigAssumption, BoundAssumption

\* Counting: a step that leaves the operating callers alone.
LEMMA CountUnchanged ==
    ASSUME ActiveOpsExact, UNCHANGED <<activeOps, abandoned>>,
           \A c \in Client :
              /\ At(c, "operating")' <=> At(c, "operating")
              /\ At(c, "operating") => held'[c] = held[c]
    PROVE  ActiveOpsExact'
<1>1. \A p \in Page : Operating(p)' = Operating(p)
  BY DEF Operating, At
<1> QED
  BY <1>1 DEF ActiveOpsExact

\* Finitely many callers operate on a page: they can be counted.
LEMMA OperatingFinite ==
    \A p \in Page : IsFiniteSet(Operating(p)) /\ Cardinality(Operating(p)) \in Nat
<1> SUFFICES ASSUME NEW p \in Page
             PROVE  IsFiniteSet(Operating(p)) /\ Cardinality(Operating(p)) \in Nat
  OBVIOUS
<1>1. Operating(p) \subseteq Client
  BY DEF Operating
<1>2. IsFiniteSet(Operating(p))
  BY <1>1, ActorAssumption, FS_Subset
<1> QED
  BY <1>2, FS_CardinalityType

\* Counting: one caller begins an operation and is counted.
LEMMA CountUp ==
    ASSUME ActiveOpsExact, activeOps \in [Page -> Nat],
           abandoned \in [Page -> Nat], abandoned' = abandoned,
           NEW c \in Client, NEW q \in Page,
           ~At(c, "operating"), At(c, "operating")', held'[c] = q,
           activeOps' = [activeOps EXCEPT ![q] = @ + 1],
           \A d \in Client \ {c} : pc'[d] = pc[d] /\ held'[d] = held[d]
    PROVE  ActiveOpsExact'
<1>1. Operating(q)' = Operating(q) \cup {c} /\ c \notin Operating(q)
  BY DEF Operating, At
<1>2. Cardinality(Operating(q)') = Cardinality(Operating(q)) + 1
  BY <1>1, OperatingFinite, FS_AddElement
<1>3. \A p \in Page \ {q} : Operating(p)' = Operating(p)
  BY DEF Operating, At
<1> QED
  BY <1>2, <1>3, OperatingFinite DEF ActiveOpsExact

\* Counting: one caller ends its operation; it was counted.
LEMMA CountDown ==
    ASSUME ActiveOpsExact, activeOps \in [Page -> Nat],
           abandoned \in [Page -> Nat], abandoned' = abandoned,
           NEW c \in Client, NEW q \in Page,
           At(c, "operating"), held[c] = q, ~At(c, "operating")',
           activeOps' = [activeOps EXCEPT ![q] = @ - 1],
           \A d \in Client \ {c} : pc'[d] = pc[d] /\ held'[d] = held[d]
    PROVE  ActiveOpsExact' /\ activeOps' \in [Page -> Nat]
<1>1. Operating(q)' = Operating(q) \ {c} /\ c \in Operating(q)
  BY DEF Operating, At
<1>2. Cardinality(Operating(q)') = Cardinality(Operating(q)) - 1
  BY <1>1, OperatingFinite, FS_RemoveElement
<1>3. \A p \in Page \ {q} : Operating(p)' = Operating(p)
  BY DEF Operating, At
<1>4. Cardinality(Operating(q)) > 0
  <2>1. Cardinality(Operating(q)) # 0
    BY <1>1, OperatingFinite, FS_EmptySet
  <2> QED
    BY <2>1, OperatingFinite
<1>5. ActiveOpsExact'
  BY <1>2, <1>3, OperatingFinite DEF ActiveOpsExact
<1>6. activeOps' \in [Page -> Nat]
  BY <1>4, OperatingFinite DEF ActiveOpsExact
<1> QED
  BY <1>5, <1>6

\* Counting: one caller never comes back from its operation, and stays counted.
LEMMA CountAbandoned ==
    ASSUME ActiveOpsExact, UNCHANGED activeOps, abandoned \in [Page -> Nat],
           NEW c \in Client, NEW q \in Page,
           At(c, "operating"), held[c] = q, ~At(c, "operating")',
           abandoned' = [abandoned EXCEPT ![q] = @ + 1],
           \A d \in Client \ {c} : pc'[d] = pc[d] /\ held'[d] = held[d]
    PROVE  ActiveOpsExact'
<1>1. Operating(q)' = Operating(q) \ {c} /\ c \in Operating(q)
  BY DEF Operating, At
<1>2. Cardinality(Operating(q)') = Cardinality(Operating(q)) - 1
  BY <1>1, OperatingFinite, FS_RemoveElement
<1>3. \A p \in Page \ {q} : Operating(p)' = Operating(p)
  BY DEF Operating, At
<1> QED
  BY <1>2, <1>3, OperatingFinite DEF ActiveOpsExact

-----------------------------------------------------------------------------
(* The callers: Acquire, the operation, Release.                           *)

\* What a caller knows of the ages is a set of pages.
LEMMA ClockType ==
    ASSUME aged \in [Client -> SUBSET Page], NEW c \in Client,
           LooksAtClock(c) \/ ForgetsClock(c)
    PROVE  aged' \in [Client -> SUBSET Page]
<1>1. {p \in Page : InGrace(p)} \in SUBSET Page /\ {} \in SUBSET Page
  OBVIOUS
<1> HIDE DEF InGrace
<1> QED
  BY <1>1 DEF LooksAtClock, ForgetsClock

\* The steps of Acquire, the operation and Release preserve the invariant.
LEMMA ClientTypeInv ==
    ASSUME TypeInv, ClientNext
    PROVE  TypeInv'
<1> USE DEF TypeInv, TypeOK, Roles, HoldsPage, At, Goto, Hold, ClientPC,
            ReplacerPC, BackgroundPC, HoldingPC
<1> SUFFICES ASSUME NEW c \in Client,
                    \/ TakeNow(c)
                    \/ \E p \in Page : Select(c, p)
                    \/ Bump(c)
                    \/ GrowOnDemand(c)
                    \/ AwaitPage(c)
                    \/ GiveUp(c)
                    \/ Release(c)
                    \/ \E r \in Replacer : ReleaseAndReplace(c, r)
                    \/ Abandon(c)
                    \/ AppendAndUse(c)
             PROVE  TypeInv'
  BY DEF ClientNext
<1>a. c \in Actor /\ c \notin Background /\ c \notin Replacer /\ NoPage \notin Page
  BY ActorFacts, ActorAssumption
<1>b. aged' \in [Client -> SUBSET Page]
  <2>1. (LooksAtClock(c) \/ ForgetsClock(c)) \/ UNCHANGED aged
    BY DEF TakeNow, Select, Bump, GrowOnDemand, AwaitPage, GiveUp, Release,
           ReleaseAndReplace, ReleaseOf, Abandon, AppendAndUse
  <2> QED
    BY <2>1, ClockType
<1>0. ASSUME TakeNow(c) PROVE TypeInv'
  <2>1. (TypeOK /\ Roles /\ HoldsPage)'
    BY <1>0, <1>a, <1>b, ActorFacts DEF TakeNow, Usable
  <2>2. ActiveOpsExact'
    BY <1>0, <1>a, CountUnchanged DEF TakeNow
  <2> QED
    BY <2>1, <2>2
<1>1. ASSUME NEW p \in Page, Select(c, p) PROVE TypeInv'
  <2>1. (TypeOK /\ Roles /\ HoldsPage)'
    BY <1>1, <1>a, <1>b, ActorFacts DEF Select, Available, Usable
  <2>2. ActiveOpsExact'
    BY <1>1, <1>a, CountUnchanged DEF Select
  <2> QED
    BY <2>1, <2>2
<1>2. ASSUME Bump(c) PROVE TypeInv'
  <2>1. (TypeOK /\ Roles /\ HoldsPage)'
    BY <1>2, <1>a, <1>b, ActorFacts DEF Bump
  <2>2. ActiveOpsExact'
    <3> DEFINE q == held[c]
    <3>1. /\ q \in Page /\ ~At(c, "operating") /\ At(c, "operating")'
          /\ held'[c] = q /\ activeOps' = [activeOps EXCEPT ![q] = @ + 1]
          /\ \A d \in Client \ {c} : pc'[d] = pc[d] /\ held'[d] = held[d]
      BY <1>2, <1>a DEF Bump
    <3>2. /\ ActiveOpsExact /\ activeOps \in [Page -> Nat]
          /\ abandoned \in [Page -> Nat]
      OBVIOUS
    <3>3. abandoned' = abandoned
      BY <1>2 DEF Bump
    <3> HIDE DEF q, TypeInv, TypeOK, Roles, HoldsPage, At
    <3> QED
      BY <3>1, <3>2, <3>3, CountUp
  <2> QED
    BY <2>1, <2>2
<1>3. ASSUME GrowOnDemand(c) \/ AwaitPage(c) PROVE TypeInv'
  <2>0. PICK l \in {"create", "waiting"} : NoneAvailable(c, l)
    BY <1>3 DEF GrowOnDemand, AwaitPage
  <2>1. (TypeOK /\ Roles /\ HoldsPage)'
    BY <2>0, <1>a, <1>b, ActorFacts DEF NoneAvailable, Usable
  <2>2. ActiveOpsExact'
    BY <2>0, <1>a, CountUnchanged DEF NoneAvailable
  <2> QED
    BY <2>1, <2>2
<1>4. ASSUME GiveUp(c) PROVE TypeInv'
  <2>1. (TypeOK /\ Roles /\ HoldsPage)'
    BY <1>4, <1>a, <1>b, ActorFacts DEF GiveUp
  <2>2. ActiveOpsExact'
    BY <1>4, <1>a, CountUnchanged DEF GiveUp
  <2> QED
    BY <2>1, <2>2
<1>5. ASSUME Release(c) PROVE TypeInv'
  <2>1. ActiveOpsExact' /\ activeOps' \in [Page -> Nat]
    <3> DEFINE q == held[c]
    <3>1. /\ q \in Page /\ At(c, "operating") /\ ~At(c, "operating")'
          /\ activeOps' = [activeOps EXCEPT ![q] = @ - 1]
          /\ \A d \in Client \ {c} : pc'[d] = pc[d] /\ held'[d] = held[d]
      BY <1>5, <1>a DEF Release, ReleaseOf
    <3>2. /\ ActiveOpsExact /\ activeOps \in [Page -> Nat] /\ held[c] = q
          /\ abandoned \in [Page -> Nat]
      OBVIOUS
    <3>3. abandoned' = abandoned
      BY <1>5 DEF Release
    <3> HIDE DEF q, TypeInv, TypeOK, Roles, HoldsPage, At
    <3> QED
      BY <3>1, <3>2, <3>3, CountDown
  <2>2. (TypeOK /\ Roles /\ HoldsPage)'
    BY <1>5, <2>1, <1>a, <1>b, ActorFacts DEF Release, ReleaseOf
  <2> QED
    BY <2>1, <2>2
<1>6. ASSUME NEW r \in Replacer, ReleaseAndReplace(c, r) PROVE TypeInv'
  <2>a. r \in Actor /\ r \notin Client /\ r \notin Background
    BY ActorFacts
  <2>1. ActiveOpsExact' /\ activeOps' \in [Page -> Nat]
    <3> DEFINE q == held[c]
    <3>1. /\ q \in Page /\ At(c, "operating") /\ ~At(c, "operating")'
          /\ activeOps' = [activeOps EXCEPT ![q] = @ - 1]
          /\ \A d \in Client \ {c} : pc'[d] = pc[d] /\ held'[d] = held[d]
      <4>1. c # r /\ pc[c] = "operating" /\ q \in Page
        BY <1>6, <1>a, <2>a DEF ReleaseAndReplace, ReleaseOf
      <4>2. /\ pc' = [pc EXCEPT ![c] = "ready", ![r] = "replace"]
            /\ held' = [held EXCEPT ![c] = NoPage, ![r] = held[c]]
            /\ activeOps' = [activeOps EXCEPT ![q] = @ - 1]
        BY <1>6 DEF ReleaseAndReplace, ReleaseOf
      <4>3. DOMAIN pc = Actor /\ DOMAIN held = Actor
        OBVIOUS
      <4>4. \A d \in Client \ {c} : d \in Actor /\ d # r
        BY <2>a, ActorFacts
      <4>5. /\ pc'[c] = "ready"
            /\ \A d \in Client \ {c} : pc'[d] = pc[d] /\ held'[d] = held[d]
        <5> HIDE DEF TypeInv, q
        <5> QED
          BY <4>1, <4>2, <4>3, <4>4, <1>a, <2>a
      <4> QED
        BY <4>1, <4>2, <4>5
    <3>2. /\ ActiveOpsExact /\ activeOps \in [Page -> Nat] /\ held[c] = q
          /\ abandoned \in [Page -> Nat]
      OBVIOUS
    <3>3. abandoned' = abandoned
      BY <1>6 DEF ReleaseAndReplace
    <3> HIDE DEF q, TypeInv, TypeOK, Roles, HoldsPage, At
    <3> QED
      BY <3>1, <3>2, <3>3, CountDown
  <2>2. (TypeOK /\ Roles /\ HoldsPage)'
    BY <1>6, <2>1, <1>a, <1>b, <2>a, ActorFacts DEF ReleaseAndReplace, ReleaseOf
  <2> QED
    BY <2>1, <2>2
<1>7. ASSUME AppendAndUse(c) PROVE TypeInv'
  <2>1. (TypeOK /\ Roles /\ HoldsPage)'
    BY <1>7, <1>a, <1>b, ActorFacts DEF AppendAndUse
  <2>2. ActiveOpsExact'
    <3> DEFINE q == held[c]
    <3>1. /\ q \in Page /\ ~At(c, "operating") /\ At(c, "operating")'
          /\ held'[c] = q /\ activeOps' = [activeOps EXCEPT ![q] = @ + 1]
          /\ \A d \in Client \ {c} : pc'[d] = pc[d] /\ held'[d] = held[d]
      BY <1>7, <1>a DEF AppendAndUse
    <3>2. /\ ActiveOpsExact /\ activeOps \in [Page -> Nat]
          /\ abandoned \in [Page -> Nat]
      OBVIOUS
    <3>3. abandoned' = abandoned
      BY <1>7 DEF AppendAndUse
    <3> HIDE DEF q, TypeInv, TypeOK, Roles, HoldsPage, At
    <3> QED
      BY <3>1, <3>2, <3>3, CountUp
  <2> QED
    BY <2>1, <2>2
<1>8. ASSUME Abandon(c) PROVE TypeInv'
  <2> DEFINE q == held[c]
  <2>1. /\ q \in Page /\ At(c, "operating") /\ ~At(c, "operating")'
        /\ UNCHANGED activeOps
        /\ abandoned' = [abandoned EXCEPT ![q] = @ + 1]
        /\ \A d \in Client \ {c} : pc'[d] = pc[d] /\ held'[d] = held[d]
    BY <1>8, <1>a DEF Abandon
  <2>2. (TypeOK /\ Roles /\ HoldsPage)'
    <3>1. abandoned' \in [Page -> Nat]
      BY <2>1
    <3> QED
      BY <1>8, <3>1, <1>a, <1>b, ActorFacts DEF Abandon
  <2>3. ActiveOpsExact'
    <3>1. ActiveOpsExact /\ abandoned \in [Page -> Nat] /\ held[c] = q
      OBVIOUS
    <3> HIDE DEF q, TypeInv, TypeOK, Roles, HoldsPage, At
    <3> QED
      BY <2>1, <3>1, CountAbandoned
  <2> QED
    BY <2>2, <2>3
<1> QED
  BY <1>0, <1>1, <1>2, <1>3, <1>4, <1>5, <1>6, <1>7, <1>8

-----------------------------------------------------------------------------
(* Everything else leaves the operating callers and the counters alone.    *)

\* So do createAndInitPage, the append and replacePage.
LEMMA CreatorTypeInv ==
    ASSUME TypeInv, CreatorNext
    PROVE  TypeInv'
<1> USE DEF TypeInv, TypeOK, Roles, HoldsPage, At, Goto, Hold, ClientPC,
            ReplacerPC, BackgroundPC, HoldingPC
<1> SUFFICES ASSUME NEW a \in Actor,
                    \/ \E p \in Page : CreatePage(a, p)
                    \/ CreateFails(a)
                    \/ AppendPage(a)
                    \/ ReplacePage(a)
             PROVE  TypeInv'
  BY DEF CreatorNext
<1>a. NoPage \notin Page /\ (\A n, k \in Nat : UpTo(n, k) \in Nat)
  BY ActorAssumption DEF UpTo
<1>b. /\ a \in Client => AfterCreate(a) = "ready"
      /\ a \in Replacer => AfterCreate(a) = "off"
      /\ a \in Background => AfterCreate(a) = "next"
  BY ActorFacts DEF AfterCreate
<1>1. ASSUME NEW p \in Page, CreatePage(a, p) PROVE TypeInv'
  <2>1. (TypeOK /\ Roles /\ HoldsPage)'
    <3>1. /\ pc[a] = "create" /\ pc' = [pc EXCEPT ![a] = "append"]
          /\ held' = [held EXCEPT ![a] = p] /\ phase' = phase
      BY <1>1 DEF CreatePage
    <3>2. TypeOK'
      BY <1>1, <3>1 DEF CreatePage
    <3>3. Roles'
      BY <3>1, ActorFacts
    <3>4. HoldsPage'
      BY <3>1
    <3> QED
      BY <3>2, <3>3, <3>4
  <2>2. ActiveOpsExact'
    BY <1>1, <1>a, ActorFacts, CountUnchanged DEF CreatePage
  <2> QED
    BY <2>1, <2>2
<1>2. ASSUME CreateFails(a) PROVE TypeInv'
  <2>0. aged' \in [Client -> SUBSET Page]
    BY <1>2, ClockType DEF CreateFails
  <2>1. (TypeOK /\ Roles /\ HoldsPage)'
    BY <1>2, <1>a, <1>b, <2>0, ActorFacts, ConfigFacts DEF CreateFails
  <2>2. ActiveOpsExact'
    BY <1>2, <1>a, <1>b, ActorFacts, CountUnchanged DEF CreateFails
  <2> QED
    BY <2>1, <2>2
<1>3. ASSUME AppendPage(a) PROVE TypeInv'
  <2>1. (TypeOK /\ Roles /\ HoldsPage)'
    <3>a. \/ a \in Replacer /\ pc' = [pc EXCEPT ![a] = "off"]
          \/ a \in Background /\ pc' = [pc EXCEPT ![a] = "next"]
      BY <1>3, <1>b, ActorFacts DEF AppendPage
    <3>b. held' = [held EXCEPT ![a] = NoPage] /\ phase' = phase /\ pc[a] = "append"
      BY <1>3 DEF AppendPage
    <3>1. TypeOK'
      BY <1>3, <3>a, <3>b, ActorFacts DEF AppendPage
    <3>2. Roles'
      BY <3>a, <3>b, ActorFacts
    <3>3. HoldsPage'
      BY <3>a, <3>b, ActorFacts
    <3> QED
      BY <3>1, <3>2, <3>3
  <2>2. ActiveOpsExact'
    BY <1>3, <1>a, <1>b, ActorFacts, CountUnchanged DEF AppendPage
  <2> QED
    BY <2>1, <2>2
<1>4. ASSUME ReplacePage(a) PROVE TypeInv'
  <2>1. (TypeOK /\ Roles /\ HoldsPage)'
    BY <1>4, <1>a, ActorFacts, ConfigFacts DEF ReplacePage, RemovePageLocked
  <2>2. ActiveOpsExact'
    BY <1>4, <1>a, ActorFacts, CountUnchanged DEF ReplacePage
  <2> QED
    BY <2>1, <2>2
<1> QED
  BY <1>1, <1>2, <1>3, <1>4

\* So do the health checker and the reaper.
LEMMA BackgroundTypeInv ==
    ASSUME TypeInv, BackgroundNext \/ HealthNext \/ ReaperNext
    PROVE  TypeInv'
<1> USE DEF TypeInv, TypeOK, Roles, HoldsPage, At, Goto, Hold, ClientPC,
            ReplacerPC, BackgroundPC, HoldingPC
<1>a. NoPage \notin Page
  BY ActorAssumption
<1>1. ASSUME NEW b \in Background, TakeSnapshot(b) \/ RunEnds(b) \/ Exit(b)
      PROVE  TypeInv'
  <2>1. (TypeOK /\ Roles /\ HoldsPage)'
    BY <1>1, <1>a, ActorFacts DEF TakeSnapshot, RunEnds, Exit
  <2>2. ActiveOpsExact'
    BY <1>1, ActorFacts, CountUnchanged DEF TakeSnapshot, RunEnds, Exit
  <2> QED
    BY <2>1, <2>2
<1>2. ASSUME NEW b \in Background, NEW p \in Page, Skip(b, p) PROVE TypeInv'
  <2>1. (TypeOK /\ Roles /\ HoldsPage)'
    BY <1>2, <1>a, ActorFacts DEF Skip
  <2>2. ActiveOpsExact'
    BY <1>2, ActorFacts, CountUnchanged DEF Skip
  <2> QED
    BY <2>1, <2>2
<1>3. ASSUME NEW b \in Background, NEW p \in Page, NEW l \in {"mark", "expired"},
             Choose(b, p, l)
      PROVE  TypeInv'
  <2>1. (TypeOK /\ Roles /\ HoldsPage)'
    BY <1>3, <1>a, ActorFacts DEF Choose
  <2>2. ActiveOpsExact'
    BY <1>3, ActorFacts, CountUnchanged DEF Choose
  <2> QED
    BY <2>1, <2>2
<1>4. ASSUME HealthChecker \in Background,
             HealthMarks \/ Drained \/ DrainTimesOut
      PROVE  TypeInv'
  <2>1. (TypeOK /\ Roles /\ HoldsPage)'
    BY <1>4, <1>a, ActorFacts
       DEF HealthMarks, MarkClosing, Drained, DrainTimesOut, DrainEnds
  <2>2. ActiveOpsExact'
    BY <1>4, ActorFacts, CountUnchanged
       DEF HealthMarks, MarkClosing, Drained, DrainTimesOut, DrainEnds
  <2> QED
    BY <2>1, <2>2
<1>5. ASSUME Reaper \in Background,
             \/ ReaperTakesNow \/ ReaperSpares \/ ReaperCondemns
             \/ ReaperMarks \/ Reap
      PROVE  TypeInv'
  <2>1. (TypeOK /\ Roles /\ HoldsPage)'
    BY <1>5, <1>a, ActorFacts
       DEF ReaperTakesNow, ReaperSpares, ReaperCondemns, ReaperDecides,
           ReaperMarks, MarkClosing, Reap, RemovePageLocked
  <2>2. ActiveOpsExact'
    BY <1>5, ActorFacts, CountUnchanged
       DEF ReaperTakesNow, ReaperSpares, ReaperCondemns, ReaperDecides,
           ReaperMarks, MarkClosing, Reap
  <2> QED
    BY <2>1, <2>2
<1> QED
  BY <1>1, <1>2, <1>3, <1>4, <1>5
     DEF BackgroundNext, HealthNext, ReaperNext, FindsHealthy, FindsUnhealthy,
         ReaperSkips, ReaperPicksGrace, ReaperPicksExpired

\* So do Start, Close, crashes of pages and the passing of time.
LEMMA PoolTypeInv ==
    ASSUME TypeInv, PoolNext \/ EnvNext \/ AtRest \/ UNCHANGED vars
    PROVE  TypeInv'
<1> USE DEF TypeInv, TypeOK, Roles, HoldsPage, At, ClientPC, ReplacerPC,
            BackgroundPC, HoldingPC
<1>1. ASSUME NEW p \in Page, WarmUp(p) \/ CloseRaw(p) \/ PageDies(p)
      PROVE  TypeInv'
  BY <1>1, CountUnchanged DEF WarmUp, CloseRaw, PageDies
<1>2. ASSUME WarmUpFails \/ Cancel \/ CloseAll PROVE TypeInv'
  BY <1>2, CountUnchanged DEF WarmUpFails, Cancel, CloseAll
<1>3. ASSUME Started PROVE TypeInv'
  <2>1. (TypeOK /\ Roles /\ HoldsPage)'
    BY <1>3, ActorFacts DEF Started
  <2>2. ActiveOpsExact'
    BY <1>3, ActorFacts, CountUnchanged DEF Started
  <2> QED
    BY <2>1, <2>2
<1>4. ASSUME Tick PROVE TypeInv'
  <2>1. \A n \in Nat : Older(n) \in Nat
    BY ConfigFacts DEF Older, AgeCap
  <2>2. (TypeOK /\ Roles /\ HoldsPage)'
    BY <1>4, <2>1 DEF Tick
  <2>3. ActiveOpsExact'
    BY <1>4, CountUnchanged DEF Tick
  <2> QED
    BY <2>2, <2>3
<1>5. ASSUME UNCHANGED vars PROVE TypeInv'
  BY <1>5, CountUnchanged DEF vars
<1> QED
  BY <1>1, <1>2, <1>3, <1>4, <1>5 DEF PoolNext, EnvNext, AtRest

\* A new pool satisfies the invariant.
LEMMA InitTypeInv == Init => TypeInv
<1> SUFFICES ASSUME Init PROVE TypeInv
  OBVIOUS
<1>1. TypeOK /\ Roles /\ HoldsPage
  BY ActorFacts DEF Init, TypeOK, Roles, HoldsPage, ClientPC, ReplacerPC,
                    BackgroundPC, HoldingPC
<1>2. \A p \in Page : Operating(p) = {}
  BY ActorFacts DEF Init, Operating, At
<1>3. ActiveOpsExact
  BY <1>2, FS_EmptySet DEF Init, ActiveOpsExact
<1> QED
  BY <1>1, <1>3 DEF TypeInv

\* The variables keep their types in every reachable state, and activeOps is
\* the number of operations running on each page and of those that panicked and
\* were never released: what the run pool_live checks, for every configuration.
THEOREM TypeAndCount == Spec => [](TypeOK /\ ActiveOpsExact)
<1>1. TypeInv /\ [Next]_vars => TypeInv'
  BY ClientTypeInv, CreatorTypeInv, BackgroundTypeInv, PoolTypeInv DEF Next
<1>2. TypeInv => TypeOK /\ ActiveOpsExact
  BY DEF TypeInv
<1> QED
  BY InitTypeInv, <1>1, <1>2, PTL DEF Spec

-----------------------------------------------------------------------------
(* The life of a page: who can know it, at each stage.                     *)

\* A page that was never created is known to nobody.
Unborn ==
    \A p \in Page : raw[p] = "none" =>
        /\ p \notin pages
        /\ state[p] = "idle"
        /\ \A a \in Actor : held[a] # p
        /\ \A b \in Background : p \notin todo[b]

\* A page that is about to be appended is known to its creator only.
KnownToCreator ==
    \A a \in Actor : pc[a] = "append" =>
        /\ held[a] \notin pages
        /\ state[held[a]] = "idle"
        /\ raw[held[a]] # "none"
        /\ \A b \in Actor \ {a} : held[b] # held[a]
        /\ \A b \in Background : held[a] \notin todo[b]

LifeInv == Unborn /\ KnownToCreator /\ NoOrphanPage

\* The steps that only move callers about.
LEMMA ClientLifeInv ==
    ASSUME TypeInv, LifeInv, ClientNext
    PROVE  LifeInv'
<1> USE DEF LifeInv, Unborn, KnownToCreator, NoOrphanPage, Private,
            TypeInv, TypeOK, HoldsPage, HoldingPC, At, Goto, Hold
<1> SUFFICES ASSUME NEW c \in Client,
                    \/ TakeNow(c)
                    \/ \E p \in Page : Select(c, p)
                    \/ Bump(c)
                    \/ GrowOnDemand(c)
                    \/ AwaitPage(c)
                    \/ GiveUp(c)
                    \/ Release(c)
                    \/ \E r \in Replacer : ReleaseAndReplace(c, r)
                    \/ Abandon(c)
                    \/ AppendAndUse(c)
             PROVE  LifeInv'
  BY DEF ClientNext
<1>a. c \in Actor /\ c \notin Background /\ c \notin Replacer /\ NoPage \notin Page
  BY ActorFacts, ActorAssumption
<1>1. ASSUME NEW p \in Page, Select(c, p) PROVE LifeInv'
  BY <1>1, <1>a DEF Select, Available
<1>2. ASSUME Bump(c) PROVE LifeInv'
  BY <1>2, <1>a DEF Bump
<1>3. ASSUME TakeNow(c) \/ GrowOnDemand(c) \/ AwaitPage(c) PROVE LifeInv'
  BY <1>3, <1>a DEF TakeNow, GrowOnDemand, AwaitPage, NoneAvailable
<1>4. ASSUME GiveUp(c) PROVE LifeInv'
  BY <1>4, <1>a DEF GiveUp
<1>5. ASSUME Release(c) PROVE LifeInv'
  BY <1>5, <1>a DEF Release, ReleaseOf
<1>6. ASSUME NEW r \in Replacer, ReleaseAndReplace(c, r) PROVE LifeInv'
  BY <1>6, <1>a, ActorFacts DEF ReleaseAndReplace, ReleaseOf
<1>7. ASSUME AppendAndUse(c) PROVE LifeInv'
  BY <1>7, <1>a DEF AppendAndUse
<1>8. ASSUME Abandon(c) PROVE LifeInv'
  BY <1>8, <1>a DEF Abandon
<1> QED
  BY <1>1, <1>2, <1>3, <1>4, <1>5, <1>6, <1>7, <1>8

\* Creating, appending and replacing pages.
LEMMA CreatorLifeInv ==
    ASSUME TypeInv, LifeInv, CreatorNext
    PROVE  LifeInv'
<1> USE DEF LifeInv, Unborn, KnownToCreator, NoOrphanPage, Private,
            TypeInv, TypeOK, HoldsPage, HoldingPC, At, Goto, Hold
<1> SUFFICES ASSUME NEW a \in Actor,
                    \/ \E p \in Page : CreatePage(a, p)
                    \/ CreateFails(a)
                    \/ AppendPage(a)
                    \/ ReplacePage(a)
             PROVE  LifeInv'
  BY DEF CreatorNext
<1>a. NoPage \notin Page
  BY ActorAssumption
<1>b. AfterCreate(a) \in {"ready", "off", "next"}
  BY ActorFacts DEF AfterCreate
<1>1. ASSUME NEW p \in Page, CreatePage(a, p) PROVE LifeInv'
  BY <1>1, <1>a DEF CreatePage
<1>2. ASSUME CreateFails(a) PROVE LifeInv'
  BY <1>2, <1>a, <1>b DEF CreateFails
<1>3. ASSUME AppendPage(a) PROVE LifeInv'
  BY <1>3, <1>a, <1>b DEF AppendPage
<1>4. ASSUME ReplacePage(a) PROVE LifeInv'
  BY <1>4, <1>a DEF ReplacePage, RemovePageLocked
<1> QED
  BY <1>1, <1>2, <1>3, <1>4

\* The health checker and the reaper, which work on snapshots.
LEMMA BackgroundLifeInv ==
    ASSUME TypeInv, LifeInv, BackgroundNext \/ HealthNext \/ ReaperNext
    PROVE  LifeInv'
<1> USE DEF LifeInv, Unborn, KnownToCreator, NoOrphanPage, Private,
            TypeInv, TypeOK, HoldsPage, HoldingPC, At, Goto, Hold
<1>a. NoPage \notin Page /\ Background \subseteq Actor
  BY ActorFacts, ActorAssumption
<1>1. ASSUME NEW b \in Background, TakeSnapshot(b) PROVE LifeInv'
  BY <1>1, <1>a DEF TakeSnapshot
<1>2. ASSUME NEW b \in Background, RunEnds(b) \/ Exit(b) PROVE LifeInv'
  BY <1>2, <1>a DEF RunEnds, Exit
<1>3. ASSUME NEW b \in Background, NEW p \in Page, Skip(b, p) PROVE LifeInv'
  BY <1>3, <1>a DEF Skip
<1>4. ASSUME NEW b \in Background, NEW p \in Page, NEW l \in {"mark", "expired"},
             p \in todo[b], Choose(b, p, l)
      PROVE  LifeInv'
  BY <1>4, <1>a DEF Choose
<1>5. ASSUME HealthChecker \in Background, Drained \/ DrainTimesOut
      PROVE  LifeInv'
  BY <1>5, <1>a DEF Drained, DrainTimesOut, DrainEnds
<1>6. ASSUME HealthChecker \in Background, HealthMarks PROVE LifeInv'
  BY <1>6, <1>a DEF HealthMarks, MarkClosing
<1>7. ASSUME Reaper \in Background,
             ReaperTakesNow \/ ReaperSpares \/ ReaperCondemns
      PROVE  LifeInv'
  BY <1>7, <1>a DEF ReaperTakesNow, ReaperSpares, ReaperCondemns, ReaperDecides
<1>8. ASSUME Reaper \in Background, ReaperMarks PROVE LifeInv'
  BY <1>8, <1>a DEF ReaperMarks, MarkClosing
<1>9. ASSUME Reaper \in Background, Reap PROVE LifeInv'
  BY <1>9, <1>a DEF Reap, RemovePageLocked
<1> QED
  BY <1>1, <1>2, <1>3, <1>4, <1>5, <1>6, <1>7, <1>8, <1>9
     DEF BackgroundNext, HealthNext, ReaperNext, FindsHealthy, FindsUnhealthy,
         ReaperSkips, ReaperPicksGrace, ReaperPicksExpired

\* Start, Close, crashes of pages and the passing of time.
LEMMA PoolLifeInv ==
    ASSUME TypeInv, LifeInv, PoolNext \/ EnvNext \/ AtRest \/ UNCHANGED vars
    PROVE  LifeInv'
<1> USE DEF LifeInv, Unborn, KnownToCreator, NoOrphanPage, Private,
            TypeInv, TypeOK, HoldsPage, HoldingPC, At
<1>1. ASSUME NEW p \in Page, WarmUp(p) PROVE LifeInv'
  BY <1>1 DEF WarmUp
<1>2. ASSUME NEW p \in Page, CloseRaw(p) \/ PageDies(p) PROVE LifeInv'
  BY <1>2 DEF CloseRaw, PageDies
<1>3. ASSUME WarmUpFails \/ Cancel \/ Tick \/ UNCHANGED vars PROVE LifeInv'
  BY <1>3 DEF WarmUpFails, Cancel, Tick, vars
<1>4. ASSUME Started PROVE LifeInv'
  BY <1>4, ActorFacts DEF Started, Roles
<1>5. ASSUME CloseAll PROVE LifeInv'
  BY <1>5 DEF CloseAll
<1> QED
  BY <1>1, <1>2, <1>3, <1>4, <1>5 DEF PoolNext, EnvNext, AtRest

\* Both inductive invariants hold in every reachable state.
LEMMA Invariants == Spec => [](TypeInv /\ LifeInv)
<1>1. Init => TypeInv /\ LifeInv
  <2> SUFFICES ASSUME Init PROVE TypeInv /\ LifeInv
    OBVIOUS
  <2>1. TypeInv
    BY InitTypeInv
  <2>2. LifeInv
    BY ActorFacts, ActorAssumption
       DEF Init, LifeInv, Unborn, KnownToCreator, NoOrphanPage
  <2> QED
    BY <2>1, <2>2
<1>2. (TypeInv /\ LifeInv) /\ [Next]_vars => (TypeInv /\ LifeInv)'
  BY ClientTypeInv, CreatorTypeInv, BackgroundTypeInv, PoolTypeInv,
     ClientLifeInv, CreatorLifeInv, BackgroundLifeInv, PoolLifeInv DEF Next
<1> QED
  BY <1>1, <1>2, PTL DEF Spec

\* A playwright page that is open is in the pool or about to be put there, in
\* every reachable state: createAndInitPage, replacePage, runReap and Close
\* lose none.
THEOREM NoOrphans == Spec => []NoOrphanPage
<1>1. LifeInv => NoOrphanPage
  BY DEF LifeInv
<1> QED
  BY <1>1, Invariants, PTL

-----------------------------------------------------------------------------
(* The ages of pages.                                                      *)

\* The reaper decides on the ages of its snapshot.  They are never above the
\* real ones, and a page it has found expired stays closed to new callers,
\* whatever the other goroutines do before the reaper looks at it again.
AgeInv ==
    /\ \A p \in Page : age[p] <= AgeCap
    /\ \A p \in Page : raw[p] = "none" => age[p] = 0 /\ seen[p] = 0
    /\ \A p \in Page : Ageing(p) => seen[p] <= age[p]
    /\ Reaper \in Background /\ pc[Reaper] \in {"expired", "reap"} =>
          LET p == held[Reaper]
          IN  seen[p] > TTL /\ (p \in pages => state[p] = "closing")

\* The steps of callers and of page creation.
LEMMA CallerAgeInv ==
    ASSUME TypeInv, LifeInv, AgeInv, ClientNext \/ CreatorNext
    PROVE  AgeInv'
<1> USE DEF AgeInv, TypeInv, TypeOK, Ageing, At, Goto, Hold
<1>a. /\ Reaper \in Background => Reaper \in Actor /\ Reaper \notin Client
                                  /\ Reaper \notin Replacer
      /\ Client \subseteq Actor /\ Replacer \subseteq Actor
      /\ TTL \in Nat
  BY ActorFacts, ConfigFacts
<1>1. ASSUME NEW c \in Client,
             \/ TakeNow(c) \/ \E p \in Page : Select(c, p)
             \/ Bump(c) \/ GrowOnDemand(c) \/ AwaitPage(c) \/ GiveUp(c)
             \/ Release(c) \/ \E r \in Replacer : ReleaseAndReplace(c, r)
             \/ Abandon(c)
      PROVE  AgeInv'
  <2>1. UNCHANGED <<age, seen, pages, state, raw>>
    BY <1>1 DEF TakeNow, Select, Bump, GrowOnDemand, AwaitPage, NoneAvailable, GiveUp,
                Release, ReleaseAndReplace, ReleaseOf, Abandon
  <2>2. \A a \in Actor : pc'[a] = "append" => pc[a] = "append" /\ held'[a] = held[a]
    BY <1>1, <1>a DEF TakeNow, Select, Bump, GrowOnDemand, AwaitPage, NoneAvailable,
                GiveUp, Release, ReleaseAndReplace, ReleaseOf, Abandon
  <2>3. Reaper \in Background => pc'[Reaper] = pc[Reaper] /\ held'[Reaper] = held[Reaper]
    BY <1>1, <1>a DEF TakeNow, Select, Bump, GrowOnDemand, AwaitPage, NoneAvailable,
                GiveUp, Release, ReleaseAndReplace, ReleaseOf, Abandon
  <2> QED
    BY <2>1, <2>2, <2>3
<1>2. ASSUME NEW a \in Actor, AppendPage(a) \/ (a \in Client /\ AppendAndUse(a))
      PROVE  AgeInv'
  <2>1. /\ pc[a] = "append" /\ pc'[a] \notin {"append", "expired", "reap"}
        /\ \A b \in Actor \ {a} : pc'[b] = pc[b] /\ held'[b] = held[b]
        /\ pages' = pages \cup {held[a]} /\ UNCHANGED <<age, seen, state, raw>>
    BY <1>2, ActorFacts DEF AppendPage, AppendAndUse, AfterCreate
  <2>2. held[a] \in Page
    BY <2>1 DEF HoldsPage, HoldingPC
  <2>3. Reaper \in Background /\ Reaper # a => held[Reaper] # held[a]
    BY <1>a, <2>1 DEF LifeInv, KnownToCreator
  <2>4. \A p \in Page : Ageing(p)' => Ageing(p)
    BY <2>1, <2>2
  <2> QED
    BY <1>a, <2>1, <2>3, <2>4
<1>3. ASSUME NEW a \in Actor, NEW p \in Page, CreatePage(a, p) PROVE AgeInv'
  <2>1. \A q \in Page : Ageing(q)' => q = p \/ Ageing(q)
    BY <1>3 DEF CreatePage
  <2> QED
    BY <1>3, <1>a, <2>1 DEF CreatePage
<1>4. ASSUME NEW a \in Actor, CreateFails(a) PROVE AgeInv'
  <2>1. /\ pc'[a] \notin {"append", "expired", "reap"}
        /\ \A b \in Actor \ {a} : pc'[b] = pc[b]
    BY <1>4, ActorFacts DEF CreateFails, AfterCreate
  <2>2. \A q \in Page : Ageing(q)' => Ageing(q)
    BY <1>4, <2>1 DEF CreateFails
  <2> QED
    BY <1>4, <1>a, <2>1, <2>2 DEF CreateFails
<1>5. ASSUME NEW a \in Actor, ReplacePage(a) PROVE AgeInv'
  <2>1. /\ pc'[a] = "create" /\ UNCHANGED <<age, seen>>
        /\ \A b \in Actor \ {a} : pc'[b] = pc[b] /\ held'[b] = held[b]
        /\ pages' \subseteq pages
        /\ \A q \in Page : (q \in pages' => state'[q] = state[q])
                           /\ (raw'[q] = "none" => raw[q] = "none")
    BY <1>5 DEF ReplacePage, RemovePageLocked
  <2>2. \A q \in Page : Ageing(q)' => Ageing(q)
    BY <2>1
  <2> QED
    BY <1>a, <2>1, <2>2
<1> QED
  BY <1>1, <1>2, <1>3, <1>4, <1>5, <1>a DEF ClientNext, CreatorNext

\* The steps of the health checker and of the reaper.
LEMMA BackgroundAgeInv ==
    ASSUME TypeInv, LifeInv, AgeInv, BackgroundNext \/ HealthNext \/ ReaperNext
    PROVE  AgeInv'
<1> USE DEF AgeInv, TypeInv, TypeOK, Ageing, At, Goto, Hold
<1>a. /\ Background \subseteq Actor /\ HealthChecker # Reaper /\ TTL \in Nat
      /\ Reaper \in Background => Reaper \in Actor
  BY ActorFacts, ConfigFacts, ActorAssumption
<1>1. ASSUME NEW b \in Background,
             \/ TakeSnapshot(b) \/ RunEnds(b)
             \/ b = Reaper /\ ReaperTakesNow
      PROVE  AgeInv'
  <2>1. /\ pc[b] \notin {"append", "expired", "reap"}
        /\ pc'[b] \notin {"append", "expired", "reap"}
        /\ \A a \in Actor \ {b} : pc'[a] = pc[a]
        /\ UNCHANGED <<age, pages, state, raw, held>>
    BY <1>1, <1>a DEF TakeSnapshot, RunEnds, ReaperTakesNow
  <2>2. \A q \in Page : Ageing(q)' => Ageing(q)
    BY <2>1
  <2>3. seen' = seen \/ (b = Reaper /\ \A q \in Page : seen'[q] \in {0, age[q]})
    BY <1>1 DEF TakeSnapshot, RunEnds, ReaperTakesNow
  <2>4. \A q \in Page : age[q] \in Nat
    OBVIOUS
  <2>5. Reaper \in Background /\ pc'[Reaper] \in {"expired", "reap"}
           => b # Reaper /\ pc'[Reaper] = pc[Reaper]
    BY <1>a, <2>1
  <2> QED
    BY <2>1, <2>2, <2>3, <2>4, <2>5
<1>2. ASSUME NEW b \in Background, Exit(b) PROVE AgeInv'
  <2>1. \A q \in Page : Ageing(q)' => Ageing(q)
    BY <1>2, <1>a DEF Exit
  <2> QED
    BY <1>2, <1>a, <2>1 DEF Exit
<1>3. ASSUME NEW b \in Background, NEW p \in Page, Skip(b, p) PROVE AgeInv'
  BY <1>3 DEF Skip
<1>4. ASSUME NEW b \in Background, NEW p \in Page, NEW l \in {"mark", "expired"},
             Choose(b, p, l), l = "expired" => b = Reaper /\ Expired(p)
      PROVE  AgeInv'
  <2>1. \A q \in Page : Ageing(q)' => Ageing(q)
    BY <1>4, <1>a DEF Choose
  <2> QED
    BY <1>4, <1>a, <2>1 DEF Choose, Expired
<1>5. ASSUME NEW b \in Background, NEW l \in {"drain", "next"}, NEW h,
             MarkClosing(b, l, h)
      PROVE  AgeInv'
  <2>1. \A q \in Page : Ageing(q)' => Ageing(q)
    BY <1>5, <1>a DEF MarkClosing
  <2>2. /\ UNCHANGED <<age, seen, pages, raw>>
        /\ pc'[b] \notin {"expired", "reap"}
        /\ \A a \in Actor \ {b} : pc'[a] = pc[a] /\ held'[a] = held[a]
        /\ \A q \in Page : state[q] = "closing" => state'[q] = "closing"
    BY <1>5, <1>a DEF MarkClosing
  <2> QED
    BY <1>a, <2>1, <2>2
<1>6. ASSUME HealthChecker \in Background, Drained \/ DrainTimesOut PROVE AgeInv'
  <2>1. \A q \in Page : Ageing(q)' => Ageing(q)
    BY <1>6, <1>a DEF Drained, DrainTimesOut, DrainEnds
  <2> QED
    BY <1>6, <1>a, <2>1 DEF Drained, DrainTimesOut, DrainEnds
<1>7. ASSUME Reaper \in Background, ReaperSpares \/ ReaperCondemns PROVE AgeInv'
  <2>1. \A q \in Page : Ageing(q)' => Ageing(q)
    BY <1>7, <1>a DEF ReaperSpares, ReaperCondemns, ReaperDecides
  <2> QED
    BY <1>7, <1>a, <2>1 DEF ReaperSpares, ReaperCondemns, ReaperDecides
<1>8. ASSUME Reaper \in Background, Reap PROVE AgeInv'
  <2>1. /\ pc'[Reaper] \in {"create", "next"} /\ UNCHANGED <<age, seen>>
        /\ \A b \in Actor \ {Reaper} : pc'[b] = pc[b] /\ held'[b] = held[b]
        /\ pages' \subseteq pages
        /\ \A q \in Page : raw'[q] = "none" => raw[q] = "none"
    BY <1>8, <1>a DEF Reap, RemovePageLocked
  <2>2. \A q \in Page : Ageing(q)' => Ageing(q)
    BY <2>1
  <2> QED
    BY <1>a, <2>1, <2>2
<1> HIDE DEF AgeInv, TypeInv, TypeOK, At, Goto, Hold
<1> QED
  BY <1>1, <1>2, <1>3, <1>4, <1>5, <1>6, <1>7, <1>8
     DEF BackgroundNext, HealthNext, ReaperNext, FindsHealthy, FindsUnhealthy,
         HealthMarks, ReaperSkips, ReaperPicksGrace, ReaperPicksExpired,
         ReaperMarks

\* Start, Close, crashes of pages and the passing of time.
LEMMA PoolAgeInv ==
    ASSUME TypeInv, LifeInv, AgeInv, PoolNext \/ EnvNext \/ AtRest \/ UNCHANGED vars
    PROVE  AgeInv'
<1> USE DEF AgeInv, TypeInv, TypeOK, Ageing, At
<1>1. ASSUME NEW p \in Page, WarmUp(p) PROVE AgeInv'
  <2>1. seen[p] = 0 /\ age[p] = 0
    BY <1>1 DEF WarmUp
  <2> QED
    BY <1>1, <2>1, ActorFacts DEF WarmUp, Roles
<1>2. ASSUME NEW p \in Page, CloseRaw(p) \/ PageDies(p) PROVE AgeInv'
  BY <1>2 DEF CloseRaw, PageDies
<1>3. ASSUME WarmUpFails \/ Cancel \/ UNCHANGED vars PROVE AgeInv'
  BY <1>3 DEF WarmUpFails, Cancel, vars
<1>4. ASSUME Started PROVE AgeInv'
  BY <1>4, ActorFacts DEF Started
<1>5. ASSUME CloseAll PROVE AgeInv'
  BY <1>5 DEF CloseAll
<1>6. ASSUME Tick PROVE AgeInv'
  <2>1. AgeCap \in Nat
    BY ConfigFacts DEF AgeCap
  <2>2. \A p \in Page : age'[p] <= AgeCap
    BY <1>6, <2>1 DEF Tick, Older
  <2>3. \A p \in Page : Ageing(p) => seen[p] <= age'[p]
    <3>1. \A p \in Page : Ageing(p) => age[p] <= age'[p]
      BY <1>6, <2>1 DEF Tick, Older
    <3>2. \A p \in Page : seen[p] \in Nat /\ age[p] \in Nat /\ age'[p] \in Nat
      BY <1>6, <2>1 DEF Tick, Older
    <3> QED
      BY <3>1, <3>2
  <2>4. \A p \in Page : raw[p] = "none" => age'[p] = 0
    <3>1. \A p \in Page : raw[p] = "none" => ~Ageing(p)
      BY DEF LifeInv, Unborn, KnownToCreator
    <3> QED
      BY <1>6, <3>1 DEF Tick
  <2>5. \A p \in Page : Ageing(p)' => Ageing(p)
    BY <1>6 DEF Tick
  <2> QED
    BY <1>6, <2>2, <2>3, <2>4, <2>5 DEF Tick
<1> QED
  BY <1>1, <1>2, <1>3, <1>4, <1>5, <1>6 DEF PoolNext, EnvNext, AtRest

\* The ages are as AgeInv says in every reachable state.
LEMMA AgeHolds == Spec => []AgeInv
<1>1. Init => AgeInv
  <2>1. AgeCap \in Nat
    BY ConfigFacts DEF AgeCap
  <2> QED
    BY <2>1, ActorFacts DEF Init, AgeInv
<1>2. (TypeInv /\ LifeInv) /\ AgeInv /\ [Next]_vars => AgeInv'
  BY CallerAgeInv, BackgroundAgeInv, PoolAgeInv DEF Next
<1> QED
  BY <1>1, <1>2, Invariants, PTL DEF Spec

\* runReap works on a snapshot that gets old while it loops, yet what it
\* removes from the pool is past its TTL and was closed to new callers before.
THEOREM ReapsOnlyExpired == Spec => []ReapedIsExpired
<1>1. TypeInv /\ AgeInv => ReapedIsExpired
  <2> SUFFICES ASSUME TypeInv, AgeInv, Reaper \in Background,
                      pc[Reaper] = "reap", held[Reaper] \in pages
               PROVE  age[held[Reaper]] > TTL /\ state[held[Reaper]] = "closing"
    BY DEF ReapedIsExpired, At
  <2>1. held[Reaper] \in Page
    BY DEF TypeInv, TypeOK
  <2>2. /\ seen[held[Reaper]] > TTL /\ state[held[Reaper]] = "closing"
        /\ seen[held[Reaper]] <= age[held[Reaper]]
    BY <2>1 DEF AgeInv, Ageing
  <2>3. seen[held[Reaper]] \in Nat /\ age[held[Reaper]] \in Nat /\ TTL \in Nat
    BY <2>1, ConfigFacts DEF TypeInv, TypeOK
  <2> QED
    BY <2>2, <2>3
<1> QED
  BY <1>1, AgeHolds, Invariants, PTL

-----------------------------------------------------------------------------
(* How a caller gets a page.                                               *)

\* A caller that has a page after a step and did not have it before has either
\* selected it or appended it.
LEMMA NewUser ==
    ASSUME TypeInv, [Next]_vars, NEW c \in Client, NEW p \in Page,
           HasPage(c, p)', ~HasPage(c, p)
    PROVE  Select(c, p) \/ (AppendAndUse(c) /\ held[c] = p)
<1> USE DEF TypeInv, TypeOK, HasPage, At, Goto, Hold
<1>a. c \in Actor /\ c \notin Background /\ c \notin Replacer
  BY ActorFacts
<1>1. CASE ClientNext
  <2> SUFFICES ASSUME NEW d \in Client,
                      \/ TakeNow(d) \/ \E q \in Page : Select(d, q)
                      \/ Bump(d) \/ GrowOnDemand(d) \/ AwaitPage(d) \/ GiveUp(d)
                      \/ Release(d) \/ \E r \in Replacer : ReleaseAndReplace(d, r)
                      \/ Abandon(d) \/ AppendAndUse(d)
               PROVE  Select(c, p) \/ (AppendAndUse(c) /\ held[c] = p)
    BY <1>1 DEF ClientNext
  <2>1. ASSUME NEW q \in Page, Select(d, q) PROVE Select(c, p)
    <3>1. c = d /\ q = p
      BY <1>a, <2>1, ActorFacts DEF Select
    <3> QED
      BY <2>1, <3>1
  <2>2. ASSUME AppendAndUse(d) PROVE AppendAndUse(c) /\ held[c] = p
    <3>1. c = d /\ held[c] = p
      BY <1>a, <2>2, ActorFacts DEF AppendAndUse
    <3> QED
      BY <2>2, <3>1
  <2>3. ASSUME \/ TakeNow(d) \/ Abandon(d) \/ Bump(d) \/ GrowOnDemand(d) \/ AwaitPage(d) \/ GiveUp(d)
               \/ Release(d) \/ \E r \in Replacer : ReleaseAndReplace(d, r)
        PROVE  FALSE
    BY <1>a, <2>3, ActorFacts DEF TakeNow, Abandon, Bump, GrowOnDemand,
       AwaitPage, NoneAvailable, GiveUp, Release, ReleaseAndReplace, ReleaseOf
  <2> QED
    BY <2>1, <2>2, <2>3
<1>2. CASE CreatorNext
  BY <1>2, <1>a DEF CreatorNext, CreatePage, CreateFails, AppendPage,
     ReplacePage, AfterCreate
<1>3. CASE BackgroundNext \/ HealthNext \/ ReaperNext
  BY <1>3, <1>a DEF BackgroundNext, TakeSnapshot, RunEnds, Exit, HealthNext,
     FindsHealthy, FindsUnhealthy, HealthMarks, MarkClosing, Drained,
     DrainTimesOut, DrainEnds, ReaperNext, ReaperTakesNow, ReaperSkips, ReaperPicksGrace,
     ReaperPicksExpired, ReaperSpares, ReaperCondemns, ReaperDecides,
     ReaperMarks, Reap, Skip, Choose
<1>4. CASE PoolNext \/ EnvNext \/ AtRest \/ UNCHANGED vars
  BY <1>4, <1>a DEF PoolNext, WarmUp, WarmUpFails, Started, Cancel, CloseAll,
     EnvNext, CloseRaw, PageDies, Tick, AtRest, vars
<1> QED
  BY <1>1, <1>2, <1>3, <1>4 DEF Next

\* A caller that looks for a page after a step has looked at the clock in this
\* step, or was looking before and remembers what it saw.
LEMMA NewLooker ==
    ASSUME TypeInv, [Next]_vars, NEW c \in Client, pc'[c] \in {"ready", "waiting"}
    PROVE  \/ aged'[c] = {p \in Page : InGrace(p)}
           \/ pc[c] \in {"ready", "waiting"} /\ aged'[c] = aged[c]
<1> USE DEF TypeInv, TypeOK, At, Goto, Hold
<1> HIDE DEF InGrace
<1>a. c \in Actor /\ c \notin Background /\ c \notin Replacer
  BY ActorFacts
<1>b. ASSUME NEW d \in Client, LooksAtClock(d)
      PROVE  /\ aged'[d] = {p \in Page : InGrace(p)}
             /\ d # c => aged'[c] = aged[c]
  BY <1>b DEF LooksAtClock
<1>c. ASSUME NEW d \in Client, ForgetsClock(d), d # c PROVE aged'[c] = aged[c]
  BY <1>c DEF ForgetsClock
<1>1. CASE ClientNext
  <2> PICK d \in Client :
        \/ TakeNow(d) \/ \E q \in Page : Select(d, q)
        \/ Bump(d) \/ GrowOnDemand(d) \/ AwaitPage(d) \/ GiveUp(d)
        \/ Release(d) \/ \E r \in Replacer : ReleaseAndReplace(d, r)
        \/ Abandon(d) \/ AppendAndUse(d)
    BY <1>1 DEF ClientNext
  <2>a. d \in Actor /\ d \notin Replacer
    BY ActorFacts
  <2>1. CASE d = c
    <3>1. LooksAtClock(c)
      BY <1>a, <2>1, <2>a DEF TakeNow, Select, Bump, GrowOnDemand, AwaitPage,
         NoneAvailable, GiveUp, Release, ReleaseAndReplace, ReleaseOf, Abandon,
         AppendAndUse
    <3> QED
      BY <1>b, <3>1
  <2>2. CASE d # c
    <3>1. pc'[c] = pc[c]
      BY <1>a, <2>2, <2>a DEF TakeNow, Select, Bump, GrowOnDemand, AwaitPage,
         NoneAvailable, GiveUp, Release, ReleaseAndReplace, ReleaseOf, Abandon,
         AppendAndUse
    <3>2. LooksAtClock(d) \/ ForgetsClock(d) \/ UNCHANGED aged
      BY DEF TakeNow, Select, Bump, GrowOnDemand, AwaitPage, GiveUp, Release,
             ReleaseAndReplace, ReleaseOf, Abandon, AppendAndUse
    <3> QED
      BY <1>b, <1>c, <2>2, <3>1, <3>2
  <2> QED
    BY <2>1, <2>2
<1>2. CASE CreatorNext
  <2> PICK a \in Actor :
        \/ \E q \in Page : CreatePage(a, q)
        \/ CreateFails(a) \/ AppendPage(a) \/ ReplacePage(a)
    BY <1>2 DEF CreatorNext
  <2>1. CASE a = c
    <3>1. LooksAtClock(c)
      BY <1>a, <2>1 DEF CreatePage, CreateFails, AppendPage, ReplacePage
    <3> QED
      BY <1>b, <3>1
  <2>2. CASE a # c
    <3>1. pc'[c] = pc[c]
      BY <1>a, <2>2 DEF CreatePage, CreateFails, AppendPage, ReplacePage
    <3>2. (a \in Client /\ LooksAtClock(a)) \/ UNCHANGED aged
      BY DEF CreatePage, CreateFails, AppendPage, ReplacePage
    <3> QED
      BY <1>b, <2>2, <3>1, <3>2
  <2> QED
    BY <2>1, <2>2
<1>3. CASE BackgroundNext \/ HealthNext \/ ReaperNext
  BY <1>3, <1>a DEF BackgroundNext, TakeSnapshot, RunEnds, Exit, HealthNext,
     FindsHealthy, FindsUnhealthy, HealthMarks, MarkClosing, Drained,
     DrainTimesOut, DrainEnds, ReaperNext, ReaperTakesNow, ReaperSkips,
     ReaperPicksGrace, ReaperPicksExpired, ReaperSpares, ReaperCondemns,
     ReaperDecides, ReaperMarks, Reap, Skip, Choose
<1>4. CASE PoolNext \/ EnvNext \/ AtRest \/ UNCHANGED vars
  BY <1>4, <1>a DEF PoolNext, WarmUp, WarmUpFails, Started, Cancel, CloseAll,
     EnvNext, CloseRaw, PageDies, Tick, AtRest, vars
<1> QED
  BY <1>1, <1>2, <1>3, <1>4 DEF Next

\* A caller that is about to append a page after a step has created it in this
\* step, unless it was about to append it before.
LEMMA NewMaker ==
    ASSUME TypeInv, [Next]_vars, NEW c \in Client, NEW p \in Page,
           pc'[c] = "append", held'[c] = p
    PROVE  (pc[c] = "append" /\ held[c] = p) \/ CreatePage(c, p)
<1> USE DEF TypeInv, TypeOK, At, Goto, Hold
<1>a. c \in Actor /\ c \notin Background /\ c \notin Replacer
  BY ActorFacts
<1>1. CASE ClientNext
  <2> PICK d \in Client :
        \/ TakeNow(d) \/ \E q \in Page : Select(d, q)
        \/ Bump(d) \/ GrowOnDemand(d) \/ AwaitPage(d) \/ GiveUp(d)
        \/ Release(d) \/ \E r \in Replacer : ReleaseAndReplace(d, r)
        \/ Abandon(d) \/ AppendAndUse(d)
    BY <1>1 DEF ClientNext
  <2> QED
    BY <1>a, ActorFacts DEF TakeNow, Select, Bump, GrowOnDemand, AwaitPage,
       NoneAvailable, GiveUp, Release, ReleaseAndReplace, ReleaseOf, Abandon,
       AppendAndUse
<1>2. CASE CreatorNext
  <2> PICK a \in Actor :
        \/ \E q \in Page : CreatePage(a, q)
        \/ CreateFails(a) \/ AppendPage(a) \/ ReplacePage(a)
    BY <1>2 DEF CreatorNext
  <2>1. ASSUME NEW q \in Page, CreatePage(a, q), a = c PROVE CreatePage(c, p)
    <3>1. q = p
      BY <1>a, <2>1 DEF CreatePage
    <3> QED
      BY <2>1, <3>1
  <2>2. ASSUME ~(a = c /\ \E q \in Page : CreatePage(a, q))
        PROVE  pc[c] = "append" /\ held[c] = p
    BY <1>a, <2>2 DEF CreatePage, CreateFails, AppendPage, ReplacePage, AfterCreate
  <2> QED
    BY <2>1, <2>2
<1>3. CASE BackgroundNext \/ HealthNext \/ ReaperNext
  BY <1>3, <1>a DEF BackgroundNext, TakeSnapshot, RunEnds, Exit, HealthNext,
     FindsHealthy, FindsUnhealthy, HealthMarks, MarkClosing, Drained,
     DrainTimesOut, DrainEnds, ReaperNext, ReaperTakesNow, ReaperSkips,
     ReaperPicksGrace, ReaperPicksExpired, ReaperSpares, ReaperCondemns,
     ReaperDecides, ReaperMarks, Reap, Skip, Choose
<1>4. CASE PoolNext \/ EnvNext \/ AtRest \/ UNCHANGED vars
  BY <1>4, <1>a DEF PoolNext, WarmUp, WarmUpFails, Started, Cancel, CloseAll,
     EnvNext, CloseRaw, PageDies, Tick, AtRest, vars
<1> QED
  BY <1>1, <1>2, <1>3, <1>4 DEF Next

\* Once a page is in the grace period before its TTL, nobody joins those who
\* have it or may still get it: a caller that begins to look from then on sees
\* the age, and a page that is being made is too young.  Who was in Acquire with
\* an older `now', or has made the page itself, may still be given it.
THEOREM GraceHolds == Spec => GraceTakesNoCaller
<1>1. ASSUME TypeInv, AgeInv, [Next]_vars, NEW p \in Page, InGrace(p)
      PROVE  Reaches(p)' \subseteq Reaches(p)
  <2> SUFFICES ASSUME NEW c \in Client, c \in Reaches(p)', c \notin Reaches(p)
               PROVE  FALSE
    BY DEF Reaches, Users
  <2>1. CASE HasPage(c, p)'
    <3>1. ~HasPage(c, p)
      BY DEF Reaches, Users
    <3>2. Select(c, p) \/ (AppendAndUse(c) /\ held[c] = p)
      BY <1>1, <2>1, <3>1, NewUser
    <3> QED
      BY <3>2 DEF Select, Available, AppendAndUse, At, Reaches
  <2>2. CASE At(c, "append")' /\ held'[c] = p
    <3>1. (At(c, "append") /\ held[c] = p) \/ CreatePage(c, p)
      BY <1>1, <2>2, NewMaker DEF At
    <3>2. ~CreatePage(c, p)
      <4>1. raw[p] # "none"
        BY <1>1, ConfigFacts, ConfigAssumption DEF AgeInv, InGrace
      <4> QED
        BY <4>1 DEF CreatePage
    <3> QED
      BY <3>1, <3>2 DEF Reaches
  <2>3. CASE pc'[c] \in {"ready", "waiting"} /\ p \notin aged'[c]
    <3>1. \/ aged'[c] = {q \in Page : InGrace(q)}
          \/ pc[c] \in {"ready", "waiting"} /\ aged'[c] = aged[c]
      BY <1>1, <2>3, NewLooker
    <3> QED
      BY <1>1, <2>3, <3>1 DEF Reaches
  <2> QED
    BY <2>1, <2>2, <2>3 DEF Reaches, Users
<1>2. (TypeInv /\ AgeInv) /\ [Next]_vars
        => [\A p \in Page : InGrace(p) => Reaches(p)' \subseteq Reaches(p)]_vars
  BY <1>1
<1> QED
  BY <1>2, Invariants, AgeHolds, PTL DEF Spec, GraceTakesNoCaller

-----------------------------------------------------------------------------
(* How far the size of the pool can be above MaxPages and below MinPages,  *)
(* for every configuration and number of goroutines.                       *)

\* Nobody uses the pool while it warms up.
QuietWarmUp == phase = "warming" => \A a \in Actor : pc[a] \in {"ready", "off"}

SizeInv == QuietWarmUp /\ CapacityAccounting

\* There are finitely many goroutines.
LEMMA ActorIsFinite == IsFiniteSet(Actor)
<1>1. IsFiniteSet({HealthChecker, Reaper})
  <2>1. IsFiniteSet({HealthChecker})
    BY FS_Singleton
  <2>2. {HealthChecker, Reaper} = {HealthChecker} \cup {Reaper}
    OBVIOUS
  <2> QED
    BY <2>1, <2>2, FS_AddElement
<1>2. IsFiniteSet(Background)
  BY <1>1, ActorFacts, FS_Subset
<1>3. IsFiniteSet(Client \cup Replacer)
  BY ActorAssumption, FS_Union
<1> QED
  BY <1>2, <1>3, FS_Union, ActorFacts

\* Pages and creators can be counted.
LEMMA FiniteSets ==
    ASSUME TypeInv
    PROVE  /\ IsFiniteSet(Actor) /\ Cardinality(Actor) \in Nat
           /\ Cardinality(Actor) >= 1
           /\ IsFiniteSet(pages) /\ Cardinality(pages) \in Nat
           /\ IsFiniteSet(Creators) /\ Cardinality(Creators) \in Nat
           /\ Cardinality(Creators) <= Cardinality(Actor)
<1>4. IsFiniteSet(Actor)
  BY ActorIsFinite
<1>5. Cardinality(Actor) # 0
  BY <1>4, FS_EmptySet, ActorAssumption, ActorFacts
<1>6. Creators \subseteq Actor /\ pages \subseteq Page
  BY DEF Creators, TypeInv, TypeOK
<1>7. IsFiniteSet(Creators) /\ Cardinality(Creators) <= Cardinality(Actor)
  BY <1>4, <1>6, FS_Subset
<1>8. IsFiniteSet(pages)
  BY <1>6, ActorAssumption, FS_Subset
<1> QED
  BY <1>4, <1>5, <1>7, <1>8, FS_CardinalityType

-----------------------------------------------------------------------------
(* What one step does to the set of creators.                              *)

\* A step after which the same goroutines are creating.
LEMMA CreatorsSame ==
    ASSUME \A a \in Actor : (pc[a] \in {"create", "append"})'
                                <=> pc[a] \in {"create", "append"}
    PROVE  Creators' = Creators
  BY DEF Creators

\* A goroutine starts a creation.
LEMMA OneMoreCreator ==
    ASSUME TypeInv, NEW a \in Actor, pc[a] \notin {"create", "append"},
           pc'[a] \in {"create", "append"},
           \A b \in Actor \ {a} : pc'[b] = pc[b]
    PROVE  Cardinality(Creators') = Cardinality(Creators) + 1
<1>1. Creators' = Creators \cup {a} /\ a \notin Creators
  BY DEF Creators
<1> QED
  BY <1>1, FiniteSets, FS_AddElement

\* A goroutine ends its creation, with or without a page.
LEMMA OneCreatorLess ==
    ASSUME TypeInv, NEW a \in Actor, pc[a] \in {"create", "append"},
           pc'[a] \notin {"create", "append"},
           \A b \in Actor \ {a} : pc'[b] = pc[b]
    PROVE  Cardinality(Creators') = Cardinality(Creators) - 1
<1>1. Creators' = Creators \ {a} /\ a \in Creators
  BY DEF Creators
<1> QED
  BY <1>1, FiniteSets, FS_RemoveElement

\* What one step does to the slice.
LEMMA SliceGrows ==
    ASSUME TypeInv, NEW p, pages' = pages \cup {p}
    PROVE  Cardinality(pages') <= Cardinality(pages) + 1
<1>1. Cardinality(pages) \in Nat /\ IsFiniteSet(pages)
  BY FiniteSets
<1>2. Cardinality(pages \cup {p})
        = IF p \in pages THEN Cardinality(pages) ELSE Cardinality(pages) + 1
  BY <1>1, FS_AddElement
<1> QED
  BY <1>1, <1>2

\* removePageLocked takes one page out of the slice, if it is there.
LEMMA SliceShrinks ==
    ASSUME TypeInv, NEW p, pages' = pages \ {p}
    PROVE  Cardinality(pages')
               = IF p \in pages THEN Cardinality(pages) - 1 ELSE Cardinality(pages)
  BY FiniteSets, FS_RemoveElement

-----------------------------------------------------------------------------
(* The three kinds of steps that can add to pages or creators, and the     *)
(* rest.  A step that starts a creation has either seen fewer than         *)
(* MaxPages pages, or removed one, or is counted as missed.                *)

\* Pages and creators can be counted after a step as well.
LEMMA NextFiniteSets ==
    ASSUME TypeInv'
    PROVE  /\ Cardinality(pages') \in Nat /\ Cardinality(Creators') \in Nat
           /\ Cardinality(Creators') <= Cardinality(Actor)
<1>1. IsFiniteSet(Actor)
  BY ActorIsFinite
<1>2. Creators' \subseteq Actor
  BY DEF Creators
<1>3. IsFiniteSet(Creators') /\ Cardinality(Creators') <= Cardinality(Actor)
  BY <1>1, <1>2, FS_Subset
<1>4. IsFiniteSet(pages')
  BY ActorAssumption, FS_Subset DEF TypeInv, TypeOK
<1> QED
  BY <1>3, <1>4, FS_CardinalityType

\* A check that has seen room bounds the sum whatever the others do.
LEMMA RoomBounds ==
    ASSUME TypeInv', Cardinality(pages') <= MaxPages - 1
    PROVE  CapacityAccounting'
<1>1. Cardinality(Actor) \in Nat
  BY ActorIsFinite, FS_CardinalityType
<1>2. missed' \in Nat
  BY DEF TypeInv, TypeOK
<1> QED
  BY <1>1, <1>2, NextFiniteSets, ConfigFacts DEF CapacityAccounting

\* A step that keeps the sum and the history.
LEMMA SumKept ==
    ASSUME TypeInv, TypeInv', CapacityAccounting, missed' = missed,
           Cardinality(pages') + Cardinality(Creators')
               <= Cardinality(pages) + Cardinality(Creators)
    PROVE  CapacityAccounting'
<1>1. missed \in Nat
  BY DEF TypeInv, TypeOK
<1> QED
  BY <1>1, FiniteSets, NextFiniteSets, ConfigFacts DEF CapacityAccounting

-----------------------------------------------------------------------------
\* Every step preserves the invariant.
LEMMA SizeInvStep ==
    ASSUME TypeInv, TypeInv', SizeInv, [Next]_vars
    PROVE  SizeInv'
<1> USE DEF At, Goto, Hold
<1>0. /\ DOMAIN pc = Actor /\ pages \subseteq Page
      /\ Cardinality(pages) \in Nat /\ Cardinality(Creators) \in Nat
      /\ Cardinality(pages') \in Nat /\ Cardinality(Creators') \in Nat
      /\ CapacityAccounting /\ missed \in Nat
  BY FiniteSets, NextFiniteSets DEF SizeInv, TypeInv, TypeOK
\* Steps that neither add a page nor start a creation.
<1>1. ASSUME missed' = missed, pages' = pages, Creators' = Creators
      PROVE  CapacityAccounting'
  BY <1>0, <1>1, SumKept
<1>2. CASE ClientNext
  <2> SUFFICES ASSUME NEW c \in Client,
                      \/ TakeNow(c)
                      \/ \E p \in Page : Select(c, p)
                      \/ Bump(c)
                      \/ GrowOnDemand(c)
                      \/ AwaitPage(c)
                      \/ GiveUp(c)
                      \/ Release(c)
                      \/ \E r \in Replacer : ReleaseAndReplace(c, r)
                      \/ Abandon(c)
                      \/ AppendAndUse(c)
               PROVE  CapacityAccounting' /\ phase' = phase /\ phase # "warming"
    BY <1>2 DEF ClientNext, SizeInv, QuietWarmUp
  <2>a. c \in Actor
    BY ActorFacts
  <2>1. phase' = phase /\ phase # "warming"
    BY <2>a DEF SizeInv, QuietWarmUp, TakeNow, Select, Bump, GrowOnDemand, AwaitPage,
                NoneAvailable, Usable, GiveUp, Release, ReleaseAndReplace,
                ReleaseOf, Abandon, AppendAndUse
  <2>2. CASE \/ TakeNow(c) \/ \E p \in Page : Select(c, p)
             \/ Bump(c) \/ AwaitPage(c) \/ GiveUp(c) \/ Abandon(c)
             \/ Release(c) \/ \E r \in Replacer : ReleaseAndReplace(c, r)
    <3>1. \A a \in Actor : (pc[a] \in {"create", "append"})'
                               <=> pc[a] \in {"create", "append"}
      BY <1>0, <2>a, <2>2 DEF TakeNow, Select, Bump, AwaitPage, NoneAvailable,
                  GiveUp, Release, ReleaseAndReplace, ReleaseOf, Abandon
    <3>2. missed' = missed /\ pages' = pages
      BY <2>2 DEF TakeNow, Select, Bump, AwaitPage, NoneAvailable, GiveUp,
                  Release, ReleaseAndReplace, Abandon
    <3> QED
      BY <3>1, <3>2, <1>1, <2>1, CreatorsSame
  <2>3. CASE GrowOnDemand(c)
    <3>1. Cardinality(pages') <= MaxPages - 1
      BY <1>0, <2>3, ConfigFacts DEF GrowOnDemand, NoneAvailable
    <3> QED
      BY <3>1, <2>1, RoomBounds
  <2>4. CASE AppendAndUse(c)
    <3>1. Cardinality(pages') <= Cardinality(pages) + 1 /\ missed' = missed
      BY <2>4, SliceGrows DEF AppendAndUse
    <3>2. Cardinality(Creators') = Cardinality(Creators) - 1
      BY <1>0, <2>a, <2>4, OneCreatorLess DEF AppendAndUse
    <3> QED
      BY <1>0, <2>1, <3>1, <3>2, SumKept
  <2> QED
    BY <2>2, <2>3, <2>4
<1>3. ASSUME NEW a \in Actor,
             \/ \E p \in Page : CreatePage(a, p)
             \/ CreateFails(a)
             \/ AppendPage(a)
             \/ ReplacePage(a)
      PROVE  CapacityAccounting' /\ phase' = phase /\ phase # "warming"
  <2>0. AfterCreate(a) \notin {"create", "append"}
    BY ActorFacts DEF AfterCreate
  <2>1. phase' = phase /\ phase # "warming"
    BY <1>3 DEF SizeInv, QuietWarmUp, CreatePage, CreateFails, AppendPage,
                ReplacePage
  <2>2. CASE \E p \in Page : CreatePage(a, p)
    <3>1. \A b \in Actor : (pc[b] \in {"create", "append"})'
                               <=> pc[b] \in {"create", "append"}
      BY <1>0, <2>2 DEF CreatePage
    <3>2. missed' = missed /\ pages' = pages
      BY <2>2 DEF CreatePage
    <3> QED
      BY <3>1, <3>2, <1>1, <2>1, CreatorsSame
  <2>3. CASE CreateFails(a)
    <3>1. Cardinality(Creators') = Cardinality(Creators) - 1
      BY <1>0, <2>0, <2>3, OneCreatorLess DEF CreateFails
    <3>2. missed' = missed /\ pages' = pages
      BY <2>3 DEF CreateFails
    <3> QED
      BY <1>0, <2>1, <3>1, <3>2, SumKept
  <2>4. CASE AppendPage(a)
    <3>1. Cardinality(pages') <= Cardinality(pages) + 1 /\ missed' = missed
      BY <2>4, SliceGrows DEF AppendPage
    <3>2. Cardinality(Creators') = Cardinality(Creators) - 1
      BY <1>0, <2>0, <2>4, OneCreatorLess DEF AppendPage
    <3> QED
      BY <1>0, <2>1, <3>1, <3>2, SumKept
  <2>5. CASE ReplacePage(a)
    <3>1. Cardinality(Creators') = Cardinality(Creators) + 1
      BY <1>0, <2>5, OneMoreCreator DEF ReplacePage
    <3>2. Cardinality(pages') = IF held[a] \in pages THEN Cardinality(pages) - 1
                                                     ELSE Cardinality(pages)
      BY <2>5, SliceShrinks DEF ReplacePage, RemovePageLocked
    <3>3. CASE held[a] \in pages
      <4>1. missed' = missed
        BY <2>5, <3>3 DEF ReplacePage
      <4> QED
        BY <1>0, <2>1, <3>1, <3>2, <3>3, <4>1, SumKept
    <3>4. CASE held[a] \notin pages
      <4>1. missed' = UpTo(missed, MaxMissed)
        BY <2>5, <3>4 DEF ReplacePage
      <4>2. missed' < MaxMissed => missed < MaxMissed /\ missed' = missed + 1
        BY <1>0, <4>1, ConfigFacts DEF UpTo
      <4>3. Cardinality(Actor) \in Nat
        BY FiniteSets
      <4> QED
        BY <1>0, <2>1, <3>1, <3>2, <3>4, <4>2, <4>3, ConfigFacts
           DEF CapacityAccounting
    <3> QED
      BY <3>3, <3>4
  <2> QED
    BY <1>3, <2>2, <2>3, <2>4, <2>5
\* The background goroutines only start a creation in Reap, when the pool has
\* fewer than MinPages pages.
<1>4. ASSUME NEW b \in Background,
             \/ (TakeSnapshot(b) \/ RunEnds(b) \/ Exit(b))
             \/ b = HealthChecker /\ HealthNext
             \/ b = Reaper /\ ReaperNext
      PROVE  CapacityAccounting' /\ phase' = phase /\ phase # "warming"
  <2>a. b \in Actor
    BY ActorFacts
  <2>1. phase' = phase /\ phase # "warming"
    BY <1>4, <2>a DEF SizeInv, QuietWarmUp, TakeSnapshot, RunEnds, Exit,
          HealthNext, FindsHealthy, FindsUnhealthy, HealthMarks, Drained,
          DrainTimesOut, DrainEnds, MarkClosing, ReaperNext, ReaperTakesNow, ReaperSkips,
          ReaperPicksGrace, ReaperPicksExpired, ReaperSpares, ReaperCondemns,
          ReaperDecides, ReaperMarks, Reap, Skip, Choose
  <2>2. CASE b = Reaper /\ Reap
    <3>1. Cardinality(pages') <= Cardinality(pages) /\ missed' = missed
      <4>1. pages' = pages \ {held[b]} /\ missed' = missed
        BY <2>2 DEF Reap, RemovePageLocked
      <4>2. Cardinality(pages') = IF held[b] \in pages
                                 THEN Cardinality(pages) - 1
                                 ELSE Cardinality(pages)
        BY <4>1, SliceShrinks
      <4> QED
        BY <1>0, <4>1, <4>2
    <3>2. CASE Cardinality(pages') < MinPages
      BY <1>0, <2>1, <3>2, ConfigFacts, RoomBounds
    <3>3. CASE ~(Cardinality(pages') < MinPages)
      <4>1. pc' = [pc EXCEPT ![b] = "next"] /\ pc[b] = "reap"
        BY <2>2, <3>3 DEF Reap
      <4>2. Creators' = Creators
        BY <1>0, <2>a, <4>1, CreatorsSame
      <4> QED
        BY <1>0, <2>1, <3>1, <4>2, SumKept
    <3> QED
      BY <3>2, <3>3
  <2>3. CASE ~(b = Reaper /\ Reap)
    <3>1. \A a \in Actor : (pc[a] \in {"create", "append"})'
                               <=> pc[a] \in {"create", "append"}
      <4>1. CASE TakeSnapshot(b) \/ RunEnds(b) \/ Exit(b)
        BY <1>0, <4>1, <2>a DEF TakeSnapshot, RunEnds, Exit
      <4>2. CASE b = HealthChecker /\ HealthNext
        BY <1>0, <4>2, <2>a DEF HealthNext, FindsHealthy, FindsUnhealthy,
            HealthMarks, Drained, DrainTimesOut, DrainEnds, MarkClosing, Skip,
            Choose
      <4>3. CASE b = Reaper /\ ReaperNext
        BY <1>0, <4>3, <2>a, <2>3 DEF ReaperNext, ReaperTakesNow, ReaperSkips,
            ReaperPicksGrace, ReaperPicksExpired, ReaperSpares, ReaperCondemns,
            ReaperDecides, ReaperMarks, MarkClosing, Skip, Choose
      <4> QED
        BY <1>4, <4>1, <4>2, <4>3
    <3>2. missed' = missed /\ pages' = pages
      BY <1>4, <2>3 DEF TakeSnapshot, RunEnds, Exit,
          HealthNext, FindsHealthy, FindsUnhealthy, HealthMarks, Drained,
          DrainTimesOut, DrainEnds, MarkClosing, ReaperNext, ReaperTakesNow, ReaperSkips,
          ReaperPicksGrace, ReaperPicksExpired, ReaperSpares, ReaperCondemns,
          ReaperDecides, ReaperMarks, Skip, Choose
    <3> QED
      BY <3>1, <3>2, <1>1, <2>1, CreatorsSame
  <2> QED
    BY <2>2, <2>3
<1>5. CASE \E p \in Page : WarmUp(p)
  <2>1. Creators = {} /\ Creators' = {} /\ pc' = pc /\ phase = "warming"
    BY <1>5 DEF WarmUp, SizeInv, QuietWarmUp, Creators
  <2>2. Cardinality(pages') <= MaxPages /\ missed' = missed
    <3>1. Cardinality(pages') <= Cardinality(pages) + 1
      BY <1>5, SliceGrows DEF WarmUp
    <3> QED
      BY <1>0, <1>5, <3>1, ConfigFacts DEF WarmUp
  <2>3. CapacityAccounting'
    BY <1>0, <2>1, <2>2, FiniteSets, FS_EmptySet, ConfigFacts
       DEF CapacityAccounting
  <2> QED
    BY <2>1, <2>3 DEF SizeInv, QuietWarmUp
<1>6. CASE Started
  <2>1. \A a \in Actor : (pc[a] \in {"create", "append"})'
                             <=> pc[a] \in {"create", "append"}
    BY <1>0, <1>6, ActorFacts DEF Started, TypeInv, Roles
  <2>2. missed' = missed /\ pages' = pages /\ phase' = "open"
    BY <1>6 DEF Started
  <2> QED
    BY <2>1, <2>2, <1>1, CreatorsSame DEF SizeInv, QuietWarmUp
<1>7. CASE CloseAll
  <2>1. Cardinality(pages') <= MaxPages - 1
    BY <1>7, FS_EmptySet, ConfigFacts DEF CloseAll
  <2> QED
    BY <1>7, <2>1, RoomBounds DEF CloseAll, SizeInv, QuietWarmUp
<1>8. CASE \/ WarmUpFails \/ Cancel \/ EnvNext \/ AtRest \/ UNCHANGED vars
  <2>1. pc' = pc /\ missed' = missed /\ pages' = pages /\ Creators' = Creators
    BY <1>8 DEF WarmUpFails, Cancel, EnvNext, CloseRaw, PageDies, Tick, AtRest,
                vars, Creators
  <2>2. phase' = "warming" => phase = "warming"
    BY <1>8 DEF WarmUpFails, Cancel, EnvNext, CloseRaw, PageDies, Tick, AtRest,
                vars
  <2> QED
    BY <2>1, <2>2, <1>1 DEF SizeInv, QuietWarmUp
<1>9. CASE CreatorNext
  BY <1>3, <1>9 DEF CreatorNext, SizeInv, QuietWarmUp
<1>10. CASE BackgroundNext \/ HealthNext \/ ReaperNext
  <2>1. CapacityAccounting' /\ phase' = phase /\ phase # "warming"
    BY <1>4, <1>10 DEF BackgroundNext, HealthNext, ReaperNext
  <2> QED
    BY <2>1 DEF SizeInv, QuietWarmUp
<1> QED
  BY <1>2, <1>5, <1>6, <1>7, <1>8, <1>9, <1>10 DEF Next, PoolNext

\* Acquire and replacePage create pages outside the lock.  However they
\* interleave, k goroutines put at most k - 1 pages above MaxPages, and one
\* more for each replacePage whose page had already left the pool.
THEOREM BoundedOvershoot == Spec => []CapacityAccounting
<1>1. Init => TypeInv /\ SizeInv
  <2> SUFFICES ASSUME Init PROVE TypeInv /\ SizeInv
    OBVIOUS
  <2>1. TypeInv
    BY InitTypeInv
  <2>2. QuietWarmUp
    BY ActorFacts DEF Init, QuietWarmUp
  <2>3. Creators = {} /\ pages = {} /\ missed = 0
    BY ActorFacts DEF Init, Creators
  <2>4. CapacityAccounting
    BY <2>1, <2>3, FiniteSets, FS_EmptySet, ConfigFacts DEF CapacityAccounting
  <2> QED
    BY <2>1, <2>2, <2>4 DEF SizeInv
<1>2. TypeInv /\ [Next]_vars => TypeInv'
  BY ClientTypeInv, CreatorTypeInv, BackgroundTypeInv, PoolTypeInv DEF Next
<1>3. (TypeInv /\ SizeInv) /\ [Next]_vars => (TypeInv /\ SizeInv)'
  BY <1>2, SizeInvStep
<1>4. SizeInv => CapacityAccounting
  BY DEF SizeInv
<1> QED
  BY <1>1, <1>3, <1>4, PTL DEF Spec

-----------------------------------------------------------------------------
(* The other side: how far the pool can fall below MinPages.  Only the     *)
(* background creators count, since a caller in Acquire makes up for       *)
(* nothing that was removed.                                               *)

Makers == Creators \ Client

\* The makers of pages before and after a step can be counted.
LEMMA MakersFinite ==
    /\ IsFiniteSet(Makers) /\ Cardinality(Makers) \in Nat
    /\ Cardinality(Makers') \in Nat
<1>1. IsFiniteSet(Actor) /\ Makers \subseteq Actor /\ Makers' \subseteq Actor
  BY ActorIsFinite DEF Makers, Creators
<1>2. IsFiniteSet(Makers) /\ IsFiniteSet(Makers')
  BY <1>1, FS_Subset
<1> QED
  BY <1>2, FS_CardinalityType

\* A step after which the same goroutines make pages.
LEMMA MakersSame ==
    ASSUME \A a \in Actor \ Client : (pc[a] \in {"create", "append"})'
                                         <=> pc[a] \in {"create", "append"}
    PROVE  Makers' = Makers
  BY DEF Makers, Creators

\* A goroutine of the background starts to make a page.
LEMMA OneMoreMaker ==
    ASSUME NEW a \in Actor \ Client, pc[a] \notin {"create", "append"},
           pc'[a] \in {"create", "append"},
           \A b \in Actor \ {a} : pc'[b] = pc[b]
    PROVE  Cardinality(Makers') = Cardinality(Makers) + 1
<1>1. Makers' = Makers \cup {a} /\ a \notin Makers
  BY DEF Makers, Creators
<1> QED
  BY <1>1, MakersFinite, FS_AddElement

\* A goroutine of the background has made a page, or failed to.
LEMMA OneMakerLess ==
    ASSUME NEW a \in Actor \ Client, pc[a] \in {"create", "append"},
           pc'[a] \notin {"create", "append"},
           \A b \in Actor \ {a} : pc'[b] = pc[b]
    PROVE  Cardinality(Makers') = Cardinality(Makers) - 1
<1>1. Makers' = Makers \ {a} /\ a \in Makers
  BY DEF Makers, Creators
<1> QED
  BY <1>1, MakersFinite, FS_RemoveElement

\* The floor, said with the makers.
LEMMA FloorOfMakers ==
    /\ FloorAccounting
         <=> (phase \in {"open", "cancelled"} /\ lost < MaxLost =>
                Cardinality(pages) + Cardinality(Makers) + lost >= MinPages)
    /\ FloorAccounting'
         <=> (phase' \in {"open", "cancelled"} /\ lost' < MaxLost =>
                Cardinality(pages') + Cardinality(Makers') + lost' >= MinPages)
  BY Zenon DEF FloorAccounting, Makers

\* A step of a running pool that keeps the sum and the history.
LEMMA FloorKept ==
    ASSUME TypeInv, TypeInv', FloorAccounting, lost' = lost,
           phase' \in {"open", "cancelled"} => phase \in {"open", "cancelled"},
           Cardinality(pages') + Cardinality(Makers')
               >= Cardinality(pages) + Cardinality(Makers)
    PROVE  FloorAccounting'
<1>1. lost \in Nat
  BY DEF TypeInv, TypeOK
<1> QED
  BY <1>1, FloorOfMakers, FiniteSets, NextFiniteSets, MakersFinite, ConfigFacts

\* A state in which the slice alone has MinPages pages.
LEMMA FloorReached ==
    ASSUME TypeInv', Cardinality(pages') >= MinPages
    PROVE  FloorAccounting'
<1>1. lost' \in Nat
  BY DEF TypeInv, TypeOK
<1> QED
  BY <1>1, FloorOfMakers, NextFiniteSets, MakersFinite, ConfigFacts

\* The steps of page creation, and replacePage.
LEMMA CreatorFloor ==
    ASSUME TypeInv, TypeInv', LifeInv, FloorAccounting, NEW a \in Actor,
           \/ \E p \in Page : CreatePage(a, p)
           \/ CreateFails(a)
           \/ AppendPage(a)
           \/ ReplacePage(a)
    PROVE  FloorAccounting'
<1> USE DEF At, Goto, Hold
<1>0. /\ DOMAIN pc = Actor
      /\ Cardinality(pages) \in Nat /\ Cardinality(pages') \in Nat
      /\ Cardinality(Makers) \in Nat /\ Cardinality(Makers') \in Nat
  BY FiniteSets, NextFiniteSets, MakersFinite DEF TypeInv, TypeOK
<1>1. AfterCreate(a) \notin {"create", "append"}
  BY ActorFacts DEF AfterCreate
<1>2. CASE \E p \in Page : CreatePage(a, p)
  <2>1. Makers' = Makers
    BY <1>0, <1>2, MakersSame DEF CreatePage
  <2>2. pages' = pages /\ lost' = lost /\ phase' = phase
    BY <1>2 DEF CreatePage
  <2> QED
    BY <1>0, <2>1, <2>2, FloorKept
<1>3. CASE CreateFails(a) /\ a \in Client
  <2>1. Makers' = Makers
    BY <1>0, <1>3, MakersSame DEF CreateFails
  <2>2. pages' = pages /\ lost' = lost /\ phase' = phase
    BY <1>3 DEF CreateFails
  <2> QED
    BY <1>0, <2>1, <2>2, FloorKept
\* A background creation that fails moves from the makers to the history.
<1>4. CASE CreateFails(a) /\ a \notin Client
  <2>1. Cardinality(Makers') = Cardinality(Makers) - 1
    BY <1>0, <1>1, <1>4, OneMakerLess DEF CreateFails
  <2>2. lost \in Nat /\ lost' = UpTo(lost, MaxLost)
    BY <1>4 DEF CreateFails, TypeInv, TypeOK
  <2>3. lost' < MaxLost => lost < MaxLost /\ lost' = lost + 1
    BY <2>2, ConfigFacts DEF UpTo
  <2>4. pages' = pages /\ phase' = phase
    BY <1>4 DEF CreateFails
  <2> QED
    BY <1>0, <2>1, <2>2, <2>3, <2>4, FloorOfMakers, ConfigFacts
\* What is appended was not in the slice before.
<1>5. CASE AppendPage(a)
  <2>1. Cardinality(Makers') = Cardinality(Makers) - 1
    BY <1>0, <1>1, <1>5, OneMakerLess DEF AppendPage
  <2>2. held[a] \notin pages
    BY <1>5 DEF AppendPage, LifeInv, KnownToCreator
  <2>3. Cardinality(pages') = Cardinality(pages) + 1
    BY <1>5, <2>2, FiniteSets, FS_AddElement DEF AppendPage
  <2>4. lost' = lost /\ phase' = phase
    BY <1>5 DEF AppendPage
  <2> QED
    BY <1>0, <2>1, <2>3, <2>4, FloorKept
<1>6. CASE ReplacePage(a)
  <2>1. a \notin Client
    BY <1>6 DEF ReplacePage, TypeInv, Roles, ClientPC
  <2>2. Cardinality(Makers') = Cardinality(Makers) + 1
    BY <1>0, <1>6, <2>1, OneMoreMaker DEF ReplacePage
  <2>3. Cardinality(pages') >= Cardinality(pages) - 1
    <3>1. pages' = pages \ {held[a]}
      BY <1>6 DEF ReplacePage, RemovePageLocked
    <3> QED
      BY <1>0, <3>1, SliceShrinks
  <2>4. lost' = lost /\ phase' = phase
    BY <1>6 DEF ReplacePage
  <2> QED
    BY <1>0, <2>2, <2>3, <2>4, FloorKept
<1> QED
  BY <1>2, <1>3, <1>4, <1>5, <1>6

\* The steps of the health checker and of the reaper.  Reap decides in the
\* critical section that removes the page whether another one is needed.
LEMMA BackgroundFloor ==
    ASSUME TypeInv, TypeInv', FloorAccounting,
           BackgroundNext \/ HealthNext \/ ReaperNext
    PROVE  FloorAccounting'
<1> USE DEF At, Goto, Hold
<1>0. /\ DOMAIN pc = Actor /\ Background \subseteq Actor
      /\ Background \cap Client = {}
      /\ Cardinality(pages) \in Nat /\ Cardinality(pages') \in Nat
      /\ Cardinality(Makers) \in Nat /\ Cardinality(Makers') \in Nat
  BY FiniteSets, NextFiniteSets, MakersFinite, ActorFacts DEF TypeInv, TypeOK
<1>1. ASSUME Reaper \in Background, Reap PROVE FloorAccounting'
  <2>1. pages' = pages \ {held[Reaper]} /\ lost' = lost /\ phase' = phase
    BY <1>1 DEF Reap, RemovePageLocked
  <2>2. Cardinality(pages') >= Cardinality(pages) - 1
    BY <1>0, <2>1, SliceShrinks
  <2>3. CASE Cardinality(pages') < MinPages
    <3>1. Cardinality(Makers') = Cardinality(Makers) + 1
      BY <1>0, <1>1, <2>3, OneMoreMaker DEF Reap
    <3> QED
      BY <1>0, <2>1, <2>2, <3>1, FloorKept
  <2>4. CASE ~(Cardinality(pages') < MinPages)
    BY <1>0, <2>4, ConfigFacts, FloorReached
  <2> QED
    BY <2>3, <2>4
<1>2. ASSUME ~(Reaper \in Background /\ Reap) PROVE FloorAccounting'
  <2>1. pages' = pages /\ lost' = lost /\ phase' = phase
    BY <1>2 DEF BackgroundNext, TakeSnapshot, RunEnds, Exit, HealthNext,
       FindsHealthy, FindsUnhealthy, HealthMarks, MarkClosing, Drained,
       DrainTimesOut, DrainEnds, ReaperNext, ReaperTakesNow, ReaperSkips, ReaperPicksGrace,
       ReaperPicksExpired, ReaperSpares, ReaperCondemns, ReaperDecides,
       ReaperMarks, Skip, Choose
  <2>2. \A a \in Actor : (pc[a] \in {"create", "append"})'
                             <=> pc[a] \in {"create", "append"}
    <3>1. CASE BackgroundNext
      BY <1>0, <3>1 DEF BackgroundNext, TakeSnapshot, RunEnds, Exit
    <3>2. CASE HealthNext
      BY <1>0, <3>2 DEF HealthNext, FindsHealthy, FindsUnhealthy, HealthMarks,
         MarkClosing, Drained, DrainTimesOut, DrainEnds, Skip, Choose
    <3>3. CASE ReaperNext
      BY <1>0, <1>2, <3>3 DEF ReaperNext, ReaperTakesNow, ReaperSkips, ReaperPicksGrace,
         ReaperPicksExpired, ReaperSpares, ReaperCondemns, ReaperDecides,
         ReaperMarks, MarkClosing, Skip, Choose
    <3> QED
      BY <3>1, <3>2, <3>3
  <2>3. Makers' = Makers
    BY <2>2, MakersSame
  <2> QED
    BY <1>0, <2>1, <2>3, FloorKept
<1> QED
  BY <1>1, <1>2

\* Every step preserves the floor.
LEMMA FloorStep ==
    ASSUME TypeInv, TypeInv', LifeInv, FloorAccounting, [Next]_vars
    PROVE  FloorAccounting'
<1> USE DEF At, Goto, Hold
<1>0. /\ DOMAIN pc = Actor
      /\ Cardinality(pages) \in Nat /\ Cardinality(pages') \in Nat
      /\ Cardinality(Makers) \in Nat /\ Cardinality(Makers') \in Nat
  BY FiniteSets, NextFiniteSets, MakersFinite DEF TypeInv, TypeOK
<1>1. CASE ClientNext
  <2> SUFFICES ASSUME NEW c \in Client,
                      \/ TakeNow(c) \/ \E p \in Page : Select(c, p)
                      \/ Bump(c) \/ GrowOnDemand(c) \/ AwaitPage(c) \/ GiveUp(c)
                      \/ Release(c) \/ \E r \in Replacer : ReleaseAndReplace(c, r)
                      \/ Abandon(c) \/ AppendAndUse(c)
               PROVE  FloorAccounting'
    BY <1>1 DEF ClientNext
  <2>1. lost' = lost /\ phase' = phase
    BY DEF TakeNow, Select, Bump, GrowOnDemand, AwaitPage, NoneAvailable, GiveUp,
           Release, ReleaseAndReplace, Abandon, AppendAndUse
  <2>2. Makers' = Makers
    <3>1. \A a \in Actor \ Client : (pc[a] \in {"create", "append"})'
                                        <=> pc[a] \in {"create", "append"}
      BY <1>0, ActorFacts
         DEF TakeNow, Select, Bump, GrowOnDemand, AwaitPage, NoneAvailable, GiveUp,
             Release, ReleaseAndReplace, ReleaseOf, Abandon, AppendAndUse
    <3> QED
      BY <3>1, MakersSame
  <2>3. pages' = pages \/ pages' = pages \cup {held[c]}
    BY DEF TakeNow, Select, Bump, GrowOnDemand, AwaitPage, NoneAvailable, GiveUp,
           Release, ReleaseAndReplace, Abandon, AppendAndUse
  <2>4. Cardinality(pages') >= Cardinality(pages)
    <3>1. pages \subseteq pages'
      BY <2>3
    <3>2. IsFiniteSet(pages')
      BY ActorAssumption, FS_Subset DEF TypeInv, TypeOK
    <3> QED
      BY <3>1, <3>2, FS_Subset
  <2> QED
    BY <1>0, <2>1, <2>2, <2>4, FloorKept
<1>2. CASE CreatorNext
  BY <1>2, CreatorFloor DEF CreatorNext
<1>3. CASE BackgroundNext \/ HealthNext \/ ReaperNext
  BY <1>3, BackgroundFloor
<1>4. CASE Started
  BY <1>0, <1>4, ConfigFacts, FloorReached DEF Started
<1>5. CASE (\E p \in Page : WarmUp(p)) \/ WarmUpFails \/ CloseAll
  BY <1>5 DEF WarmUp, WarmUpFails, CloseAll, FloorAccounting
<1>6. CASE Cancel \/ EnvNext \/ AtRest \/ UNCHANGED vars
  <2>1. /\ pages' = pages /\ lost' = lost /\ Makers' = Makers
        /\ phase' \in {"open", "cancelled"} => phase \in {"open", "cancelled"}
    BY <1>6 DEF Cancel, EnvNext, CloseRaw, PageDies, Tick, AtRest, vars,
                Makers, Creators
  <2> QED
    BY <1>0, <2>1, FloorKept
<1> QED
  BY <1>1, <1>2, <1>3, <1>4, <1>5, <1>6 DEF Next, PoolNext

\* Replacement and reaping remove before they create, without the lock in
\* between.  However they interleave, an open pool has at least MinPages pages,
\* less the pages that its goroutines are making and those they failed to make.
THEOREM BoundedShortage == Spec => []FloorAccounting
<1>1. Init => FloorAccounting
  BY DEF Init, FloorAccounting
<1>2. TypeInv /\ [Next]_vars => TypeInv'
  BY ClientTypeInv, CreatorTypeInv, BackgroundTypeInv, PoolTypeInv DEF Next
<1>3. (TypeInv /\ LifeInv) /\ FloorAccounting /\ [Next]_vars => FloorAccounting'
  BY <1>2, FloorStep
<1> QED
  BY <1>1, <1>3, Invariants, PTL DEF Spec
=============================================================================
