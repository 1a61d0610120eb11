--------------------------- MODULE SessionProofs ---------------------------
(***************************************************************************)
(* Proofs about Session, for any set of contexts and any sets of           *)
(* goroutines.  The induction needs what ConsistentWhenUnlocked says       *)
(* nothing about: what the holder of s.mu finds at each of its steps       *)
(* (LockInv, HolderInv), and that what a Close has taken stays apart from  *)
(* what the session builds next (TakenInv).                                *)
(***************************************************************************)
EXTENDS Session, TLAPS

Holding == {"build", "dismantle", "disconnect", "remake"}

\* s.mu excludes: who is in a section under s.mu.Lock is the writer.
LockInv ==
    /\ \A a \in Actor : pc[a] \in Holding => writer = a
    /\ writer # Nobody => writer \in Caller /\ pc[writer] \in Holding

Paired ==
    /\ pool = bCtx
    /\ bCtx # NoContext => state = "active" /\ pools[bCtx] = "open"

\* What the writer finds, step by step, in buildContextLocked and
\* rebuildContext.
HolderInv ==
    \A c \in Caller :
        /\ At(c, "dismantle") => Paired
        /\ At(c, "disconnect") => pool = NoContext
        /\ pc[c] \in {"build", "remake"} => pool = NoContext /\ bCtx = NoContext

\* A context that a Close has taken is not the session's any more, and will
\* not be again.
TakenInv ==
    /\ bCtx # NoContext => contexts[bCtx] # "none"
    /\ \A k \in Closer :
          pc[k] \in {"drain", "drained"} /\ copy[k] # NoContext =>
              copy[k] # bCtx /\ contexts[copy[k]] # "none"

SessionInv ==
    /\ TypeOK
    /\ LockInv
    /\ ConsistentWhenUnlocked
    /\ HolderInv
    /\ TakenInv
    /\ NoLeakedContext
    /\ FlagMeansRebuilder

\* The labels at which a goroutine neither holds s.mu nor rebuilds nor closes.
Calm == {"out", "ensure", "lock", "retry", "use", "acquire", "operate",
         "judge", "recover", "suspect", "judged", "recovered", "suspected",
         "replace", "panicked", "rebuild", "await"}

\* A step of one caller that changes nothing but where it is.
Quiet(c) ==
    /\ UNCHANGED <<state, resources, writer, rebuilding>>
    /\ pc[c] \in Calm
    /\ \E l \in Calm : Goto(c, l)
    /\ \E x \in Context \cup {NoContext} : Copy(c, x) \/ UNCHANGED copy
    /\ attempt' \in [Caller -> 0 .. MaxRetries]

\* The flag survives a step that takes nobody into a rebuild or out of one.
LEMMA FlagKept ==
    ASSUME FlagMeansRebuilder, rebuilding' = rebuilding,
           \A d \in Caller : Rebuilder(d)' <=> Rebuilder(d)
    PROVE  FlagMeansRebuilder'
<1>1. (\E d \in Caller : Rebuilder(d)') <=> (\E d \in Caller : Rebuilder(d))
  OBVIOUS
<1>2. rebuilding' = (\E d \in Caller : Rebuilder(d)')
  BY <1>1, ZenonT(20) DEF FlagMeansRebuilder
<1>3. \A c, d \in Caller : Rebuilder(c)' /\ Rebuilder(d)' => c = d
  BY ZenonT(20) DEF FlagMeansRebuilder
<1> QED
  BY <1>2, <1>3 DEF FlagMeansRebuilder

-----------------------------------------------------------------------------
(* Most of what a caller does is quiet.                                    *)

\* The steps that only move a caller on are quiet.
LEMMA MovesIsQuiet ==
    ASSUME TypeOK, NEW c \in Caller, NEW from \in Calm, NEW to \in Calm,
           Moves(c, from, to)
    PROVE  Quiet(c)
BY DEF Moves, Quiet, At, Goto, Copy, TypeOK, Calm

\* So are the steps that look for the context, or leave the loop.
LEMMA EnsureIsQuiet ==
    ASSUME SessionAssumption, TypeOK, NEW c \in Caller,
           \/ Call(c) \/ FindsContext(c) \/ MissesContext(c)
           \/ FindsContextLate(c) \/ Retry(c) \/ Exhausted(c)
    PROVE  Quiet(c)
<1>1. CASE Call(c)
  BY <1>1 DEF Call, SessionAssumption, Quiet, At, Goto, Copy, TypeOK, Calm
<1>2. CASE FindsContext(c) \/ MissesContext(c) \/ FindsContextLate(c)
             \/ Exhausted(c)
  BY <1>2, MovesIsQuiet
     DEF FindsContext, MissesContext, FindsContextLate, Exhausted, Calm
<1>3. CASE Retry(c)
  BY <1>3 DEF Retry, SessionAssumption, Quiet, At, Goto, Copy, TypeOK, Calm
<1> QED
  BY <1>1, <1>2, <1>3

\* So are the operation and what comes before it.
LEMMA UseIsQuiet ==
    ASSUME TypeOK, NEW c \in Caller,
           UseStep(c) \/ AcquireStep(c) \/ OperationEnds(c)
    PROVE  Quiet(c)
<1>1. CASE TakeContext(c)
  <2>1. bCtx \in Context \cup {NoContext}
    BY DEF TypeOK
  <2> QED
    BY <1>1, <2>1 DEF TakeContext, Quiet, At, Goto, Copy, TypeOK, Calm
<1>2. CASE TakePool(c) \/ TakeNilPool(c) \/ AcquireStep(c)
             \/ LosesConnection(c) \/ FailsOtherwise(c)
  BY <1>2, MovesIsQuiet
     DEF TakePool, TakeNilPool, AcquireStep, Acquires, FailsToAcquire,
         LosesConnection, FailsOtherwise, Calm
<1>3. CASE Succeeds(c)
  BY <1>3 DEF Succeeds, Leaves, Quiet, At, Goto, Copy, TypeOK, Calm
<1> QED
  BY <1>1, <1>2, <1>3 DEF UseStep, OperationEnds

\* So are the probe of the context and what follows from its answer.
LEMMA ProbeIsQuiet ==
    ASSUME TypeOK, NEW c \in Caller, ProbeStep(c)
    PROVE  Quiet(c)
<1>1. CASE Probe(c)
  <2>1. /\ pc[c] \in {"judge", "recover", "suspect"}
        /\ Asked[pc[c]] \in {"judged", "recovered", "suspected"}
    BY <1>1 DEF Probe, Asked
  <2>2. bCtx \in Context \cup {NoContext}
    BY DEF TypeOK
  <2> QED
    BY <1>1, <2>1, <2>2 DEF Probe, Quiet, Goto, Copy, TypeOK, Calm
<1>2. CASE FindsDead(c)
  BY <1>2 DEF FindsDead, Answered, Quiet, At, Goto, Copy, TypeOK, Calm
<1>3. CASE FindsAlive(c)
  BY <1>3 DEF FindsAlive, Answered, Quiet, At, Goto, Copy, TypeOK, Calm
<1>4. CASE ReplacesPage(c) \/ ReplacesOnNil(c)
  BY <1>4, MovesIsQuiet DEF ReplacesPage, ReplacesOnNil, Calm
<1> QED
  BY <1>1, <1>2, <1>3, <1>4 DEF ProbeStep

\* So are the losers of s.rebuilding.Swap.
LEMMA WaitIsQuiet ==
    ASSUME TypeOK, NEW c \in Caller,
           SwapLoses(c) \/ StopsWaiting(c) \/ TiresOfWaiting(c)
    PROVE  Quiet(c)
<1>1. CASE SwapLoses(c)
  BY <1>1 DEF SwapLoses, Quiet, At, Goto, Copy, TypeOK, Calm
<1>2. CASE StopsWaiting(c) \/ TiresOfWaiting(c)
  BY <1>2, MovesIsQuiet DEF StopsWaiting, TiresOfWaiting, Calm
<1> QED
  BY <1>1, <1>2

-----------------------------------------------------------------------------
(* The steps that are not, one lemma for each, and the whole.              *)

\* A quiet step preserves the invariant.
LEMMA QuietInv ==
    ASSUME SessionAssumption, SessionInv, NEW c \in Caller, Quiet(c)
    PROVE  SessionInv'
<1> USE DEF SessionInv, Quiet, resources
<1>0. PICK l \in Calm : Goto(c, l)
  OBVIOUS
<1>1. TypeOK'
  <2>1. pc' \in [Actor -> {"out", "ensure", "lock", "build", "retry", "use",
                  "acquire", "operate", "judge", "recover", "suspect",
                  "judged", "recovered", "suspected", "replace", "panicked",
                  "rebuild", "await", "relock", "dismantle", "disconnect",
                  "remake", "remade", "unmade", "drain", "drained"}]
    BY <1>0 DEF TypeOK, Goto, Calm, Actor
  <2>2. copy' \in [Actor -> Context \cup {NoContext}]
    BY DEF TypeOK, Copy, Actor
  <2> QED
    BY <2>1, <2>2 DEF TypeOK
<1>2. \A a \in Actor : pc'[a] = IF a = c THEN l ELSE pc[a]
  BY <1>0 DEF TypeOK, Goto, Actor
<1>3. LockInv'
  BY <1>2 DEF LockInv, Holding, Calm, Caller, Actor
<1>4. ConsistentWhenUnlocked'
  BY DEF ConsistentWhenUnlocked, Unlocked
<1>5. HolderInv'
  BY <1>2 DEF HolderInv, At, Calm, Paired, Actor
<1>6. NoLeakedContext'
  <2>1. \A k \in Closer : pc'[k] = pc[k] /\ copy'[k] = copy[k]
    BY <1>2 DEF SessionAssumption, Copy, TypeOK, Actor
  <2> QED
    BY <2>1 DEF NoLeakedContext, InHand
<1>7. FlagMeansRebuilder'
  <2>1. \A d \in Caller : Rebuilder(d)' <=> Rebuilder(d)
    BY <1>2 DEF Rebuilder, Calm, Actor
  <2> QED
    BY <2>1, FlagKept
<1>8. TakenInv'
  <2>1. \A k \in Closer : pc'[k] = pc[k] /\ copy'[k] = copy[k]
    BY <1>2 DEF SessionAssumption, Copy, TypeOK, Actor
  <2> QED
    BY <2>1 DEF TakenInv
<1> QED
  BY <1>1, <1>3, <1>4, <1>5, <1>6, <1>7, <1>8

\* ensureContext takes the lock and finds nothing: nothing is there.
LEMMA LockToBuildInv ==
    ASSUME SessionAssumption, SessionInv, NEW c \in Caller, LockToBuild(c)
    PROVE  SessionInv'
<1> USE DEF SessionInv, LockToBuild, resources, At, Goto, Copy
<1>1. TypeOK'
  BY DEF TypeOK, Actor
<1>2. LockInv'
  BY DEF TypeOK, LockInv, Holding, Unlocked, Actor
<1>3. ConsistentWhenUnlocked'
  BY DEF ConsistentWhenUnlocked
<1>4. HolderInv'
  BY DEF HolderInv, Paired, ConsistentWhenUnlocked, HasBoth
<1>5. NoLeakedContext'
  BY DEF NoLeakedContext, InHand
<1>6. FlagMeansRebuilder'
  BY DEF TypeOK, FlagMeansRebuilder, Rebuilder, Actor
<1>7. TakenInv'
  BY DEF TakenInv
<1> QED
  BY <1>1, <1>2, <1>3, <1>4, <1>5, <1>6, <1>7

\* The context that is built takes an empty place.
LEMMA BuiltInv ==
    ASSUME SessionAssumption, SessionInv, NEW c \in Caller, NEW x \in Context, Built(c, x)
    PROVE  SessionInv'
<1>0. contexts[x] = "none"
  BY DEF Built, Fresh
<1> USE <1>0 DEF SessionInv, Built, resources, At, Goto, Copy
<1>1. TypeOK'
  BY DEF TypeOK
<1>2. LockInv'
  BY DEF TypeOK, LockInv, Holding, Actor
<1>3. ConsistentWhenUnlocked'
  BY DEF TypeOK, ConsistentWhenUnlocked
<1>4. HolderInv'
  BY DEF TypeOK, LockInv, Holding, HolderInv, Actor
<1>5. NoLeakedContext'
  BY DEF HolderInv, NoLeakedContext, InHand
<1>6. FlagMeansRebuilder'
  BY DEF TypeOK, FlagMeansRebuilder, Rebuilder, Actor
<1>7. TakenInv'
  BY DEF TypeOK, TakenInv
<1> QED
  BY <1>1, <1>2, <1>3, <1>4, <1>5, <1>6, <1>7

\* A context whose Setup or warm-up failed is closed before anybody sees it.
LEMMA DiscardsInv ==
    ASSUME SessionAssumption, SessionInv, NEW c \in Caller, NEW x \in Context, Discards(c, x)
    PROVE  SessionInv'
<1>0. contexts[x] = "none"
  BY DEF Discards, Fresh
<1> USE <1>0 DEF SessionInv, Discards, resources, At, Goto, Copy
<1>1. TypeOK'
  BY DEF TypeOK
<1>2. LockInv'
  BY DEF TypeOK, LockInv, Holding, Actor
<1>3. ConsistentWhenUnlocked'
  BY DEF HolderInv, ConsistentWhenUnlocked
<1>4. HolderInv'
  BY DEF TypeOK, HolderInv, Paired
<1>5. NoLeakedContext'
  BY DEF TypeOK, NoLeakedContext, InHand
<1>6. FlagMeansRebuilder'
  BY DEF TypeOK, FlagMeansRebuilder, Rebuilder, Actor
<1>7. TakenInv'
  BY DEF TypeOK, TakenInv
<1> QED
  BY <1>1, <1>2, <1>3, <1>4, <1>5, <1>6, <1>7

\* A failed build leaves the place empty.
LEMMA NotBuiltInv ==
    ASSUME SessionAssumption, SessionInv, NEW c \in Caller, NotBuilt(c)
    PROVE  SessionInv'
<1> USE DEF SessionInv, NotBuilt, resources, At, Goto, Copy
<1>1. TypeOK'
  BY DEF TypeOK
<1>2. LockInv'
  BY DEF TypeOK, LockInv, Holding, Actor
<1>3. ConsistentWhenUnlocked'
  BY DEF HolderInv, ConsistentWhenUnlocked
<1>4. HolderInv'
  BY DEF HolderInv, Paired
<1>5. NoLeakedContext'
  BY DEF NoLeakedContext, InHand
<1>6. FlagMeansRebuilder'
  BY DEF TypeOK, FlagMeansRebuilder, Rebuilder, Actor
<1>7. TakenInv'
  BY DEF TakenInv
<1> QED
  BY <1>1, <1>2, <1>3, <1>4, <1>5, <1>6, <1>7

\* Who raises the flag is the only rebuilder.
LEMMA SwapWinsInv ==
    ASSUME SessionAssumption, SessionInv, NEW c \in Caller, SwapWins(c)
    PROVE  SessionInv'
<1> USE DEF SessionInv, SwapWins, resources, At, Goto, Copy
<1>1. TypeOK'
  BY DEF TypeOK
<1>2. LockInv'
  BY DEF LockInv, Holding
<1>3. ConsistentWhenUnlocked'
  BY DEF ConsistentWhenUnlocked, Unlocked
<1>4. HolderInv'
  BY DEF HolderInv, Paired
<1>5. NoLeakedContext'
  BY DEF NoLeakedContext, InHand
<1>6. FlagMeansRebuilder'
  BY DEF TypeOK, FlagMeansRebuilder, Rebuilder, Actor
<1>7. TakenInv'
  BY DEF TakenInv
<1> QED
  BY <1>1, <1>2, <1>3, <1>4, <1>5, <1>6, <1>7

\* The rebuilder takes the lock and finds the context and the pool paired.
LEMMA LockToRebuildInv ==
    ASSUME SessionAssumption, SessionInv, NEW c \in Caller, LockToRebuild(c)
    PROVE  SessionInv'
<1> USE DEF SessionInv, LockToRebuild, resources, At, Goto, Copy
<1>1. TypeOK'
  BY DEF TypeOK, Actor
<1>2. LockInv'
  BY DEF TypeOK, LockInv, Holding, Unlocked, Actor
<1>3. ConsistentWhenUnlocked'
  BY DEF ConsistentWhenUnlocked
<1>4. HolderInv'
  BY DEF HolderInv, Paired, ConsistentWhenUnlocked
<1>5. NoLeakedContext'
  BY DEF NoLeakedContext, InHand
<1>6. FlagMeansRebuilder'
  BY DEF TypeOK, FlagMeansRebuilder, Rebuilder, Actor
<1>7. TakenInv'
  BY DEF TakenInv
<1> QED
  BY <1>1, <1>2, <1>3, <1>4, <1>5, <1>6, <1>7

\* The pool is closed and dropped first.
LEMMA ClosePoolInv ==
    ASSUME SessionAssumption, SessionInv, NEW c \in Caller, ClosePool(c)
    PROVE  SessionInv'
<1> USE DEF SessionInv, ClosePool, ClosedIn, resources, At, Goto, Copy
<1>1. TypeOK'
  BY DEF TypeOK
<1>2. LockInv'
  BY DEF LockInv, Holding
<1>3. ConsistentWhenUnlocked'
  BY DEF LockInv, Holding, ConsistentWhenUnlocked, Unlocked, Actor
<1>4. HolderInv'
  BY DEF TypeOK, LockInv, Holding, HolderInv, Actor
<1>5. NoLeakedContext'
  BY DEF NoLeakedContext, InHand
<1>6. FlagMeansRebuilder'
  <2>1. \A d \in Caller : Rebuilder(d)' <=> Rebuilder(d)
    BY DEF TypeOK, Rebuilder, Actor
  <2> QED
    BY <2>1, FlagKept
<1>7. TakenInv'
  BY DEF TakenInv
<1> QED
  BY <1>1, <1>2, <1>3, <1>4, <1>5, <1>6, <1>7

\* The context that is dropped is closed.
LEMMA CloseContextInv ==
    ASSUME SessionAssumption, SessionInv, NEW c \in Caller, CloseContext(c)
    PROVE  SessionInv'
<1> USE DEF SessionInv, CloseContext, ClosedIn, resources, At, Goto, Copy
<1>1. TypeOK'
  BY DEF TypeOK
<1>2. LockInv'
  BY DEF LockInv, Holding
<1>3. ConsistentWhenUnlocked'
  BY DEF HolderInv, ConsistentWhenUnlocked
<1>4. HolderInv'
  BY DEF HolderInv, Paired
<1>5. NoLeakedContext'
  BY DEF NoLeakedContext, InHand
<1>6. FlagMeansRebuilder'
  <2>1. \A d \in Caller : Rebuilder(d)' <=> Rebuilder(d)
    BY DEF TypeOK, Rebuilder, Actor
  <2> QED
    BY <2>1, FlagKept
<1>7. TakenInv'
  BY DEF TypeOK, TakenInv, Actor
<1> QED
  BY <1>1, <1>2, <1>3, <1>4, <1>5, <1>6, <1>7

\* The flag comes down with its only rebuilder.
LEMMA UnflagInv ==
    ASSUME SessionAssumption, SessionInv, NEW c \in Caller, Unflag(c)
    PROVE  SessionInv'
<1> USE DEF SessionInv, Unflag, resources, At, Goto, Copy
<1>1. TypeOK'
  BY DEF TypeOK
<1>2. LockInv'
  BY DEF LockInv, Holding
<1>3. ConsistentWhenUnlocked'
  BY DEF ConsistentWhenUnlocked, Unlocked
<1>4. HolderInv'
  BY DEF HolderInv, Paired
<1>5. NoLeakedContext'
  BY DEF NoLeakedContext, InHand
<1>6. FlagMeansRebuilder'
  BY DEF TypeOK, FlagMeansRebuilder, Rebuilder, Actor
<1>7. TakenInv'
  BY DEF TakenInv
<1> QED
  BY <1>1, <1>2, <1>3, <1>4, <1>5, <1>6, <1>7

\* Close takes context and pool into its own hands.
LEMMA CloseInv ==
    ASSUME SessionAssumption, SessionInv, NEW k \in Closer, Close(k)
    PROVE  SessionInv'
<1> USE DEF SessionInv, Close, resources, At, Goto, Copy
<1>1. TypeOK'
  BY DEF TypeOK
<1>2. LockInv'
  BY DEF LockInv, Holding
<1>3. ConsistentWhenUnlocked'
  BY DEF ConsistentWhenUnlocked
<1>4. HolderInv'
  BY DEF HolderInv, Paired
<1>5. NoLeakedContext'
  BY DEF TypeOK, NoLeakedContext, InHand, Actor
<1>6. FlagMeansRebuilder'
  <2>1. \A d \in Caller : Rebuilder(d)' <=> Rebuilder(d)
    BY DEF TypeOK, Rebuilder, Actor, SessionAssumption
  <2> QED
    BY <2>1, FlagKept
<1>7. TakenInv'
  BY DEF TypeOK, TakenInv
<1> QED
  BY <1>1, <1>2, <1>3, <1>4, <1>5, <1>6, <1>7

\* And closes the one it has taken.
LEMMA ClosingInv ==
    ASSUME SessionAssumption, SessionInv, NEW k \in Closer, Closing(k)
    PROVE  SessionInv'
<1> USE DEF SessionInv, Closing, DrainAndClosePool, FinishClose, ClosedIn, resources, At, Goto, Copy
<1>1. TypeOK'
  BY DEF TypeOK
<1>2. LockInv'
  BY DEF TypeOK, LockInv, Holding
<1>3. ConsistentWhenUnlocked'
  BY DEF TypeOK, TakenInv, ConsistentWhenUnlocked, Unlocked
<1>4. HolderInv'
  BY DEF TypeOK, TakenInv, HolderInv, Paired, Actor
<1>5. NoLeakedContext'
  BY DEF TypeOK, NoLeakedContext, InHand, Actor
<1>6. FlagMeansRebuilder'
  <2>1. \A d \in Caller : Rebuilder(d)' <=> Rebuilder(d)
    BY DEF TypeOK, Rebuilder, Actor, SessionAssumption
  <2> QED
    BY <2>1, FlagKept
<1>7. TakenInv'
  BY DEF TypeOK, TakenInv, Actor
<1> QED
  BY <1>1, <1>2, <1>3, <1>4, <1>5, <1>6, <1>7

\* A context that dies is still the session's to close.
LEMMA ContextDiesInv ==
    ASSUME SessionAssumption, SessionInv, NEW x \in Context, ContextDies(x)
    PROVE  SessionInv'
<1> USE DEF SessionInv, ContextDies, resources, At, Goto, Copy
<1>1. TypeOK'
  BY DEF TypeOK
<1>2. LockInv'
  BY DEF LockInv
<1>3. ConsistentWhenUnlocked'
  BY DEF ConsistentWhenUnlocked, Unlocked
<1>4. HolderInv'
  BY DEF HolderInv, Paired
<1>5. NoLeakedContext'
  BY DEF NoLeakedContext, InHand
<1>6. FlagMeansRebuilder'
  BY DEF FlagMeansRebuilder, Rebuilder
<1>7. TakenInv'
  BY DEF TakenInv
<1> QED
  BY <1>1, <1>2, <1>3, <1>4, <1>5, <1>6, <1>7

-----------------------------------------------------------------------------
(* The theorems.                                                           *)

\* A new session satisfies the invariant.
LEMMA InitInv ==
    ASSUME SessionAssumption, Init
    PROVE  SessionInv
<1> USE DEF Init
<1>1. TypeOK
  <2>1. 0 \in 0 .. MaxRetries
    BY DEF SessionAssumption
  <2> QED
    BY <2>1 DEF TypeOK, Actor
<1>2. LockInv /\ HolderInv
  BY DEF LockInv, Holding, HolderInv, Paired, At, Actor
<1>3. ConsistentWhenUnlocked /\ TakenInv
  BY DEF ConsistentWhenUnlocked, TakenInv, Actor
<1>4. NoLeakedContext
  BY DEF NoLeakedContext
<1>5. FlagMeansRebuilder
  BY DEF FlagMeansRebuilder, Rebuilder, Actor
<1> QED
  BY <1>1, <1>2, <1>3, <1>4, <1>5 DEF SessionInv

\* Every step preserves it.
LEMMA StepInv ==
    ASSUME SessionAssumption, SessionInv, [Next]_vars
    PROVE  SessionInv'
<1>0. TypeOK
  BY DEF SessionInv
<1>1. CASE \E c \in Caller : Call(c) \/ Working(c) \/ OperationEnds(c)
  <2>1. PICK c \in Caller : Call(c) \/ Working(c) \/ OperationEnds(c)
    BY <1>1
  <2>2. CASE Quiet(c)
    BY <2>2, QuietInv
  <2>3. CASE Call(c) \/ EnsureStep(c) \/ LoopStep(c)
    BY <2>2, <2>3, <1>0, EnsureIsQuiet, LockToBuildInv DEF EnsureStep, LoopStep
  <2>4. CASE UseStep(c) \/ AcquireStep(c) \/ OperationEnds(c)
    BY <2>2, <2>4, <1>0, UseIsQuiet
  <2>5. CASE ProbeStep(c)
    BY <2>2, <2>5, <1>0, ProbeIsQuiet
  <2>6. CASE BuildStep(c)
    BY <2>6, BuiltInv, DiscardsInv, NotBuiltInv DEF BuildStep
  <2>7. CASE RebuildStep(c)
    BY <2>2, <2>7, <1>0, WaitIsQuiet, SwapWinsInv, LockToRebuildInv,
       ClosePoolInv, CloseContextInv, UnflagInv DEF RebuildStep
  <2> QED
    BY <2>1, <2>3, <2>4, <2>5, <2>6, <2>7 DEF Working
<1>2. CASE \E k \in Closer : Close(k) \/ Closing(k)
  BY <1>2, CloseInv, ClosingInv
<1>3. CASE \E x \in Context : ContextDies(x)
  BY <1>3, ContextDiesInv
<1>4. CASE UNCHANGED vars
  <2> USE <1>4 DEF vars, resources, SessionInv
  <2>1. TypeOK' /\ LockInv'
    BY DEF TypeOK, LockInv, Holding
  <2>2. ConsistentWhenUnlocked' /\ HolderInv'
    BY DEF ConsistentWhenUnlocked, Unlocked, HolderInv, Paired, At
  <2>3. TakenInv' /\ NoLeakedContext'
    BY DEF TakenInv, NoLeakedContext, InHand
  <2>4. FlagMeansRebuilder'
    BY FlagKept DEF Rebuilder
  <2> QED
    BY <2>1, <2>2, <2>3, <2>4
<1> QED
  BY <1>1, <1>2, <1>3, <1>4 DEF Next, AtRest

\* The inductive invariant holds in every reachable state.
THEOREM Invariance == Spec => []SessionInv
<1>1. Init => SessionInv
  BY InitInv, SessionAssumption
<1>2. SessionInv /\ [Next]_vars => SessionInv'
  BY StepInv, SessionAssumption
<1> QED
  BY <1>1, <1>2, PTL DEF Spec

\* The variables keep their types: the pointers are nil or contexts, the lock
\* has no holder or one of the callers, and attempts stay within maxRetries.
THEOREM SessionTypes == Spec => []TypeOK
<1>1. SessionInv => TypeOK
  BY DEF SessionInv
<1> QED
  BY <1>1, Invariance, PTL

\* However many goroutines call Do, DoShare and Close, and whatever fails,
\* whoever takes s.mu finds the context and its pool together or neither.
THEOREM SessionConsistent == Spec => []ConsistentWhenUnlocked
<1>1. SessionInv => ConsistentWhenUnlocked
  BY DEF SessionInv
<1> QED
  BY <1>1, Invariance, PTL

\* No browser context is ever lost without having been closed.
THEOREM NothingLeaks == Spec => []NoLeakedContext
<1>1. SessionInv => NoLeakedContext
  BY DEF SessionInv
<1> QED
  BY <1>1, Invariance, PTL

\* s.rebuilding is a lock: it is up exactly while one caller rebuilds.
THEOREM OneRebuilder == Spec => []FlagMeansRebuilder
<1>1. SessionInv => FlagMeansRebuilder
  BY DEF SessionInv
<1> QED
  BY <1>1, Invariance, PTL
=============================================================================
