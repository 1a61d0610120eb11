---------------------------- MODULE LocksProofs -----------------------------
(***************************************************************************)
(* The operations of a session take its two locks in one order, so that    *)
(* they never wait for each other in a circle, whatever the number of      *)
(* goroutines.                                                             *)
(***************************************************************************)
EXTENDS Locks, Integers, TLAPS

-----------------------------------------------------------------------------
(* What an operation may do while it holds which locks.                    *)

Mode == [Lock -> {"none", "read", "write"}]
Free == [l \in Lock |-> "none"]
With(l, how) == [Free EXCEPT ![l] = how]

Instructions == ({"RLock", "RUnlock", "Lock", "Unlock"} \X Lock) \cup {<<"Wait", "background">>}
PoolInstructions == {"RLock", "RUnlock", "Lock", "Unlock"} \X {"p"}

\* The order of the locks: who has p takes nothing and waits for nothing, and
\* nobody takes a lock that he has.
Takes(m, n, l, how) == m[l] = "none" /\ m["p"] = "none" /\ n = [m EXCEPT ![l] = how]
Gives(m, n, l, how) ==
    m[l] = how /\ (l = "p" \/ m["p"] = "none") /\ n = [m EXCEPT ![l] = "none"]

Goes(m, i, n) ==
    \/ \E l \in Lock :
          \/ i = <<"RLock", l>> /\ Takes(m, n, l, "read")
          \/ i = <<"Lock", l>> /\ Takes(m, n, l, "write")
          \/ i = <<"RUnlock", l>> /\ Gives(m, n, l, "read")
          \/ i = <<"Unlock", l>> /\ Gives(m, n, l, "write")
    \/ i = <<"Wait", "background">> /\ m["p"] = "none" /\ n = m

\* The instructions r lead from mode m to mode n, in that order of locks, over
\* the modes f.
Leads(r, f, m, n) ==
    /\ f \in [0 .. Len(r) -> Mode]
    /\ f[0] = m /\ f[Len(r)] = n
    /\ \A k \in 1 .. Len(r) : Goes(f[k - 1], r[k], f[k])

Ordered(r, m, n) == r \in Seq(Instructions) /\ \E f : Leads(r, f, m, n)

\* No instruction leads anywhere.
LEMMA OrderedEmpty ==
    ASSUME NEW m \in Mode
    PROVE  Ordered(<< >>, m, m)
<1>1. Leads(<< >>, [k \in 0 .. 0 |-> m], m, m)
    BY DEF Leads
<1> QED BY <1>1 DEF Ordered

\* One instruction.
LEMMA OrderedOne ==
    ASSUME NEW m \in Mode, NEW n \in Mode, NEW i \in Instructions, Goes(m, i, n)
    PROVE  Ordered(<<i>>, m, n)
<1> DEFINE f == [k \in 0 .. 1 |-> IF k = 0 THEN m ELSE n]
<1>1. Leads(<<i>>, f, m, n)
    <2>1. /\ f \in [0 .. 1 -> Mode] /\ f[0] = m /\ f[1] = n
          /\ Len(<<i>>) = 1 /\ <<i>>[1] = i
        OBVIOUS
    <2> HIDE DEF f
    <2>2. \A k \in 1 .. Len(<<i>>) : k = 1
        BY <2>1
    <2> QED BY <2>1, <2>2 DEF Leads
<1> QED BY <1>1 DEF Ordered

\* One after the other.
LEMMA OrderedConcat ==
    ASSUME NEW r, NEW s, NEW l, NEW m, NEW n, Ordered(r, l, m), Ordered(s, m, n)
    PROVE  Ordered(r \o s, l, n)
<1>1. PICK f : Leads(r, f, l, m)
    BY DEF Ordered
<1>2. PICK g : Leads(s, g, m, n)
    BY DEF Ordered
<1> DEFINE a == Len(r)  b == Len(s)  t == r \o s
           h == [k \in 0 .. a + b |-> IF k <= a THEN f[k] ELSE g[k - a]]
<1>3. /\ r \in Seq(Instructions) /\ s \in Seq(Instructions) /\ a \in Nat /\ b \in Nat
      /\ t \in Seq(Instructions) /\ Len(t) = a + b
    BY DEF Ordered
<1>4. /\ \A k \in 1 .. a : t[k] = r[k]
      /\ \A k \in a + 1 .. a + b : t[k] = s[k - a]
    BY <1>3
<1>5. /\ f \in [0 .. a -> Mode] /\ f[0] = l /\ f[a] = m
      /\ \A k \in 1 .. a : Goes(f[k - 1], r[k], f[k])
    BY <1>1 DEF Leads
<1>6. /\ g \in [0 .. b -> Mode] /\ g[0] = m /\ g[b] = n
      /\ \A k \in 1 .. b : Goes(g[k - 1], s[k], g[k])
    BY <1>2 DEF Leads
<1> HIDE DEF a, b, t
<1>7. /\ \A k \in 0 .. a : h[k] = f[k]
      /\ \A k \in a .. a + b : h[k] = g[k - a]
    <2>1. \A k \in 0 .. a : k \in 0 .. a + b /\ k <= a
        BY <1>3
    <2>2. ASSUME NEW k \in a .. a + b PROVE h[k] = g[k - a]
        <3>1. k \in 0 .. a + b /\ (k <= a => k = a /\ k - a = 0)
            BY <1>3
        <3>2. h[k] = IF k <= a THEN f[k] ELSE g[k - a]
            BY <3>1
        <3> HIDE DEF h
        <3> QED BY <1>5, <1>6, <3>1, <3>2
    <2> QED BY <2>1, <2>2
<1>8. h \in [0 .. a + b -> Mode]
    <2>1. \A k \in 0 .. a + b : k <= a => k \in 0 .. a
        BY <1>3
    <2>2. \A k \in 0 .. a + b : ~(k <= a) => k - a \in 0 .. b
        BY <1>3
    <2> QED BY <1>5, <1>6, <2>1, <2>2
<1> HIDE DEF h
<1>9. ASSUME NEW k \in 1 .. a + b PROVE Goes(h[k - 1], t[k], h[k])
    <2>1. CASE k <= a
        <3>1. k \in 1 .. a /\ k - 1 \in 0 .. a /\ k \in 0 .. a
            BY <1>3, <2>1
        <3> QED BY <1>4, <1>5, <1>7, <3>1
    <2>2. CASE ~(k <= a)
        <3>1. /\ k \in a + 1 .. a + b /\ k - 1 \in a .. a + b /\ k \in a .. a + b
              /\ k - a \in 1 .. b /\ (k - 1) - a = (k - a) - 1
            BY <1>3, <2>2
        <3> QED BY <1>4, <1>6, <1>7, <3>1
    <2> QED BY <2>1, <2>2
<1>10. 0 \in 0 .. a /\ a + b \in a .. a + b /\ (a + b) - a = b
    BY <1>3
<1>11. Leads(t, h, l, n)
    BY <1>3, <1>5, <1>6, <1>7, <1>8, <1>9, <1>10 DEF Leads
<1> QED BY <1>3, <1>11 DEF Ordered, t

\* What an instruction leaves to do.
LEMMA OrderedTail ==
    ASSUME NEW r, NEW m, NEW n, Ordered(r, m, n), r # << >>
    PROVE  /\ Head(r) \in Instructions
           /\ \E l \in Mode : Goes(m, Head(r), l) /\ Ordered(Tail(r), l, n)
<1>1. PICK f : Leads(r, f, m, n)
    BY DEF Ordered
<1> DEFINE a == Len(r)  t == Tail(r)  g == [k \in 0 .. a - 1 |-> f[k + 1]]
<1>2. /\ r \in Seq(Instructions) /\ a \in Nat /\ 1 <= a /\ Head(r) = r[1]
      /\ r[1] \in Instructions
      /\ t \in Seq(Instructions) /\ Len(t) = a - 1
      /\ \A k \in 1 .. a - 1 : t[k] = r[k + 1]
    BY DEF Ordered
<1>3. /\ f \in [0 .. a -> Mode] /\ f[0] = m /\ f[a] = n
      /\ \A k \in 1 .. a : Goes(f[k - 1], r[k], f[k])
    BY <1>1 DEF Leads
<1> HIDE DEF a, t
<1>4. \A k \in 0 .. a - 1 : g[k] = f[k + 1]
    OBVIOUS
<1>5. g \in [0 .. a - 1 -> Mode]
    <2>1. \A k \in 0 .. a - 1 : k + 1 \in 0 .. a
        BY <1>2
    <2> QED BY <1>3, <2>1
<1> HIDE DEF g
<1>6. ASSUME NEW k \in 1 .. a - 1 PROVE Goes(g[k - 1], t[k], g[k])
    <2>1. /\ k + 1 \in 1 .. a /\ k - 1 \in 0 .. a - 1 /\ k \in 0 .. a - 1
          /\ (k + 1) - 1 = k /\ (k - 1) + 1 = k
        BY <1>2
    <2> QED BY <1>2, <1>3, <1>4, <2>1
<1>7. 0 \in 0 .. a - 1 /\ 0 + 1 = 1 /\ a - 1 \in 0 .. a - 1 /\ (a - 1) + 1 = a
    BY <1>2
<1>8. Leads(t, g, f[1], n)
    BY <1>2, <1>3, <1>4, <1>5, <1>6, <1>7 DEF Leads
<1>9. Goes(m, Head(r), f[1]) /\ f[1] \in Mode
    <2>1. 1 \in 1 .. a /\ 1 - 1 = 0 /\ 1 \in 0 .. a
        BY <1>2
    <2> QED BY <1>2, <1>3, <2>1
<1> QED BY <1>2, <1>8, <1>9 DEF Ordered, t

-----------------------------------------------------------------------------
(* The operations.  Each begins and ends in the mode of its caller.        *)

\* Free everywhere, or only s.
Outside == {Free, With("s", "read"), With("s", "write")}

\* Whoever does not have p may take it, or wait.
LEMMA PoolBrackets ==
    ASSUME NEW m \in Outside
    PROVE  /\ m \in Mode
           /\ [m EXCEPT !["p"] = "read"] \in Mode /\ [m EXCEPT !["p"] = "write"] \in Mode
           /\ Goes(m, <<"RLock", "p">>, [m EXCEPT !["p"] = "read"])
           /\ Goes([m EXCEPT !["p"] = "read"], <<"RUnlock", "p">>, m)
           /\ Goes(m, <<"Lock", "p">>, [m EXCEPT !["p"] = "write"])
           /\ Goes([m EXCEPT !["p"] = "write"], <<"Unlock", "p">>, m)
           /\ Goes(m, <<"Wait", "background">>, m)
<1> DEFINE r == [m EXCEPT !["p"] = "read"]  w == [m EXCEPT !["p"] = "write"]
<1>1. "p" \in Lock
    BY DEF Lock
<1>2. m \in Mode /\ m["p"] = "none"
    BY DEF Outside, Mode, Free, With, Lock
<1>3. /\ r \in Mode /\ r["p"] = "read" /\ w \in Mode /\ w["p"] = "write"
      /\ [r EXCEPT !["p"] = "none"] = m /\ [w EXCEPT !["p"] = "none"] = m
    BY <1>1, <1>2 DEF Mode
<1>4. /\ Takes(m, r, "p", "read") /\ Gives(r, m, "p", "read")
      /\ Takes(m, w, "p", "write") /\ Gives(w, m, "p", "write")
    BY <1>2, <1>3 DEF Takes, Gives
<1> HIDE DEF r, w
<1>5. /\ Goes(m, <<"RLock", "p">>, r) /\ Goes(r, <<"RUnlock", "p">>, m)
      /\ Goes(m, <<"Lock", "p">>, w) /\ Goes(w, <<"Unlock", "p">>, m)
      /\ Goes(m, <<"Wait", "background">>, m)
    BY <1>1, <1>2, <1>4 DEF Goes
<1> QED BY <1>2, <1>3, <1>5 DEF r, w

\* Whoever has neither lock may take s.
LEMMA SessionBrackets ==
    /\ Goes(Free, <<"RLock", "s">>, With("s", "read"))
    /\ Goes(With("s", "read"), <<"RUnlock", "s">>, Free)
    /\ Goes(Free, <<"Lock", "s">>, With("s", "write"))
    /\ Goes(With("s", "write"), <<"Unlock", "s">>, Free)
<1>1. "s" \in Lock /\ "p" \in Lock /\ "s" # "p"
    BY DEF Lock
<1>2. Free \in Mode /\ Free["s"] = "none" /\ Free["p"] = "none"
    BY <1>1 DEF Free, Mode
<1>3. ASSUME NEW how \in {"read", "write"}
      PROVE  Takes(Free, With("s", how), "s", how) /\ Gives(With("s", how), Free, "s", how)
    <2>1. With("s", how)["s"] = how /\ With("s", how)["p"] = "none"
        BY <1>1, <1>2 DEF With, Mode
    <2>2. [With("s", how) EXCEPT !["s"] = "none"] = Free
        BY <1>1, <1>2 DEF With, Mode
    <2> QED BY <1>2, <2>1, <2>2 DEF Takes, Gives, With
<1> QED BY <1>1, <1>3 DEF Goes

\* A body between two instructions.
LEMMA OrderedBetween ==
    ASSUME NEW i \in Instructions, NEW j \in Instructions, NEW body,
           NEW m \in Mode, NEW n \in Mode,
           Goes(m, i, n), Ordered(body, n, n), Goes(n, j, m)
    PROVE  Ordered(<<i>> \o body \o <<j>>, m, m)
<1>1. Ordered(<<i>>, m, n) /\ Ordered(<<j>>, n, m)
    BY OrderedOne
<1>2. Ordered(<<i>> \o body, m, n)
    BY <1>1, OrderedConcat
<1> QED BY <1>1, <1>2, OrderedConcat

\* What the pool does in one go, whatever its caller holds of s.
InPool(r) == r \in Seq(PoolInstructions) /\ \A m \in Outside : Ordered(r, m, m)

\* The critical sections of the pool are empty: nobody waits in one.
LEMMA PoolSections == InPool(Reading("p", << >>)) /\ InPool(Writing("p", << >>))
<1>1. /\ Reading("p", << >>) \in Seq(PoolInstructions)
      /\ Writing("p", << >>) \in Seq(PoolInstructions)
    BY DEF Reading, Writing, PoolInstructions
<1>2. \A what \in {"RLock", "RUnlock", "Lock", "Unlock"} : <<what, "p">> \in Instructions
    BY DEF Instructions, Lock
<1>3. ASSUME NEW m \in Outside
      PROVE  Ordered(Reading("p", << >>), m, m) /\ Ordered(Writing("p", << >>), m, m)
    <2>1. m \in Mode
        BY PoolBrackets
    <2>2. Ordered(Reading("p", << >>), m, m)
        <3> DEFINE n == [m EXCEPT !["p"] = "read"]
        <3>1. n \in Mode /\ Goes(m, <<"RLock", "p">>, n) /\ Goes(n, <<"RUnlock", "p">>, m)
            BY PoolBrackets
        <3> HIDE DEF n
        <3> QED BY <1>2, <2>1, <3>1, OrderedEmpty, OrderedBetween DEF Reading
    <2>3. Ordered(Writing("p", << >>), m, m)
        <3> DEFINE n == [m EXCEPT !["p"] = "write"]
        <3>1. n \in Mode /\ Goes(m, <<"Lock", "p">>, n) /\ Goes(n, <<"Unlock", "p">>, m)
            BY PoolBrackets
        <3> HIDE DEF n
        <3> QED BY <1>2, <2>1, <3>1, OrderedEmpty, OrderedBetween DEF Writing
    <2> QED BY <2>2, <2>3
<1> QED BY <1>1, <1>3 DEF InPool

\* One after the other.
LEMMA InPoolConcat ==
    ASSUME NEW r, NEW s, InPool(r), InPool(s)
    PROVE  InPool(r \o s)
BY OrderedConcat DEF InPool

\* The operations of the pool that hold p alone.
LEMMA PoolOperations ==
    /\ InPool(Size) /\ InPool(ActiveOps) /\ InPool(addPage) /\ InPool(Acquire)
    /\ InPool(replacePage) /\ InPool(PoolIsHealthy) /\ InPool(PoolHealthCheck)
    /\ InPool(runHealthCheck) /\ InPool(runReap)
<1>1. /\ InPool(Size) /\ InPool(ActiveOps) /\ InPool(tryAcquire)
      /\ InPool(PoolIsHealthy) /\ InPool(PoolHealthCheck)
    BY PoolSections DEF Size, ActiveOps, tryAcquire, PoolIsHealthy, PoolHealthCheck
<1>2. InPool(addPage) /\ InPool(replacePage)
    BY <1>1, PoolSections, InPoolConcat DEF addPage, replacePage
<1>3. InPool(Acquire)
    <2>1. InPool(tryAcquire \o Writing("p", << >>))
        BY <1>1, PoolSections, InPoolConcat
    <2> QED BY <1>1, <2>1, InPoolConcat DEF Acquire
<1>4. InPool(runHealthCheck)
    BY <1>2, PoolSections, InPoolConcat DEF runHealthCheck
<1>5. InPool(runReap)
    <2>1. InPool(Reading("p", << >>) \o Writing("p", << >>))
        BY PoolSections, InPoolConcat
    <2> QED BY <1>2, <2>1, InPoolConcat DEF runReap
<1> QED BY <1>1, <1>2, <1>3, <1>4, <1>5

\* Close of the pool waits before it takes p.
LEMMA PoolCloseOrdered == \A m \in Outside : Ordered(PoolClose, m, m)
<1> SUFFICES ASSUME NEW m \in Outside PROVE Ordered(PoolClose, m, m)
    OBVIOUS
<1>1. Ordered(<< <<"Wait", "background">> >>, m, m)
    BY PoolBrackets, OrderedOne DEF Instructions
<1>2. Ordered(Writing("p", << >>), m, m)
    BY PoolSections DEF InPool
<1> QED BY <1>1, <1>2, OrderedConcat DEF PoolClose

\* A section of s around what is in order there.
LEMMA SessionSections ==
    ASSUME NEW body
    PROVE  /\ Ordered(body, With("s", "read"), With("s", "read"))
                  => Ordered(Reading("s", body), Free, Free)
           /\ Ordered(body, With("s", "write"), With("s", "write"))
                  => Ordered(Writing("s", body), Free, Free)
<1>1. Free \in Mode /\ With("s", "read") \in Mode /\ With("s", "write") \in Mode
    BY PoolBrackets DEF Outside
<1>2. \A what \in {"RLock", "RUnlock", "Lock", "Unlock"} : <<what, "s">> \in Instructions
    BY DEF Instructions, Lock
<1>3. ASSUME Ordered(body, With("s", "read"), With("s", "read"))
      PROVE  Ordered(Reading("s", body), Free, Free)
    BY <1>1, <1>2, <1>3, SessionBrackets, OrderedBetween DEF Reading
<1>4. ASSUME Ordered(body, With("s", "write"), With("s", "write"))
      PROVE  Ordered(Writing("s", body), Free, Free)
    BY <1>1, <1>2, <1>4, SessionBrackets, OrderedBetween DEF Writing
<1> QED BY <1>3, <1>4

\* The operations that the theorem is about: all but Stats, which takes p
\* again while it reads it, and a Setup that asks its own session.
OrderedCalls == {"Do", "DoShare", "replacePage", "Status", "IsHealthy", "HealthCheck", "Close"}

\* They take s before p, and hold p for nothing else.
LEMMA SessionOperations ==
    \A name \in OrderedCalls : Ordered(Program[name], Free, Free)
<1> DEFINE R == With("s", "read")  W == With("s", "write")
<1>1. Free \in Outside /\ R \in Outside /\ W \in Outside /\ Free \in Mode /\ R \in Mode /\ W \in Mode
    BY PoolBrackets DEF Outside
<1> HIDE DEF R, W
<1>2. \A r, m : InPool(r) /\ m \in Outside => Ordered(r, m, m)
    BY DEF InPool
<1>3. \A r, q, m : Ordered(r, m, m) /\ Ordered(q, m, m) => Ordered(r \o q, m, m)
    BY OrderedConcat
<1>4. Ordered(Reading("s", << >>), Free, Free) /\ Ordered(Writing("s", << >>), Free, Free)
    BY <1>1, OrderedEmpty, SessionSections DEF R, W
<1>5. Ordered(isClosed, Free, Free) /\ Ordered(isContextDead, Free, Free)
    BY <1>4 DEF isClosed, isContextDead
<1>6. Ordered(buildContextLocked, W, W)
    BY <1>1, <1>2, <1>3, PoolOperations DEF buildContextLocked
<1>7. Ordered(ensureContext, Free, Free)
    <2>1. Ordered(Writing("s", buildContextLocked), Free, Free)
        BY <1>6, SessionSections DEF W
    <2> QED BY <1>3, <1>4, <2>1 DEF ensureContext
<1>8. Ordered(rebuildContext, Free, Free)
    <2>1. Ordered(PoolClose \o buildContextLocked, W, W)
        BY <1>1, <1>3, <1>6, PoolCloseOrdered
    <2> QED BY <2>1, SessionSections DEF W, rebuildContext
<1>9. Ordered(Do, Free, Free)
    <2>1. Ordered(isClosed \o ensureContext, Free, Free)
        BY <1>3, <1>5, <1>7
    <2>2. Ordered(isClosed \o ensureContext \o Reading("s", << >>), Free, Free)
        BY <1>3, <1>4, <2>1
    <2>3. Ordered(isClosed \o ensureContext \o Reading("s", << >>) \o isContextDead, Free, Free)
        BY <1>3, <1>5, <2>2
    <2> QED BY <1>3, <1>8, <2>3 DEF Do
<1>10. Ordered(DoShare, Free, Free)
    <2>1. Ordered(isClosed \o ensureContext, Free, Free)
        BY <1>3, <1>5, <1>7
    <2>2. Ordered(isClosed \o ensureContext \o Acquire, Free, Free)
        BY <1>1, <1>2, <1>3, <2>1, PoolOperations
    <2>3. Ordered(isClosed \o ensureContext \o Acquire \o isContextDead, Free, Free)
        BY <1>3, <1>5, <2>2
    <2> QED BY <1>3, <1>8, <2>3 DEF DoShare
<1>11. Ordered(replacePage, Free, Free)
    BY <1>1, <1>2, PoolOperations
<1>12. Ordered(Status, Free, Free)
    <2>1. Ordered(Size \o ActiveOps, R, R)
        BY <1>1, <1>2, <1>3, PoolOperations
    <2> QED BY <2>1, SessionSections DEF R, Status
<1>13. Ordered(IsHealthy, Free, Free)
    <2>1. Ordered(PoolIsHealthy, R, R)
        BY <1>1, <1>2, PoolOperations
    <2> QED BY <2>1, SessionSections DEF R, IsHealthy
<1>14. Ordered(HealthCheck, Free, Free)
    <2>1. Ordered(PoolHealthCheck, Free, Free)
        BY <1>1, <1>2, PoolOperations
    <2> QED BY <1>3, <1>4, <2>1 DEF HealthCheck
<1>15. Ordered(SessionClose, Free, Free)
    <2>1. Ordered(Drain, Free, Free)
        BY <1>1, <1>2, PoolOperations DEF Drain
    <2>2. Ordered(Writing("s", << >>) \o Drain, Free, Free)
        BY <1>3, <1>4, <2>1
    <2> QED BY <1>1, <1>3, <2>2, PoolCloseOrdered DEF SessionClose
<1>16. /\ Program["Do"] = Do /\ Program["DoShare"] = DoShare
       /\ Program["replacePage"] = replacePage /\ Program["Status"] = Status
       /\ Program["IsHealthy"] = IsHealthy /\ Program["HealthCheck"] = HealthCheck
       /\ Program["Close"] = SessionClose
    BY DEF Program
<1> QED BY <1>9, <1>10, <1>11, <1>12, <1>13, <1>14, <1>15, <1>16 DEF OrderedCalls

-----------------------------------------------------------------------------
(* The invariant.                                                          *)

\* Goroutine t has the locks of mode m.
Has(t, m) ==
    \A l \in Lock :
        /\ readers[l][t] = IF m[l] = "read" THEN 1 ELSE 0
        /\ m[l] = "write" => pending[l] = t
        /\ pending[l] = t => m[l] = "write" \/ Instruction(t, "Lock", l)

\* What it has still to do is in order from there.
InOrder(t, m) == m \in Mode /\ Has(t, m) /\ Ordered(rest[t], m, Free)

LocksInv ==
    /\ rest \in [Thread -> Seq(Instructions)]
    /\ readers \in [Lock -> [Thread -> {0, 1}]]
    /\ pending \in [Lock -> Thread \cup {Nobody}]
    /\ \A t \in Thread : \E m : InOrder(t, m)
    /\ \A b \in Background : rest[b] \in Seq(PoolInstructions)

\* Nobody does anything.
LEMMA InitLocks == Init => LocksInv
<1> SUFFICES ASSUME Init PROVE LocksInv
    OBVIOUS
<1>1. ASSUME NEW t \in Thread PROVE InOrder(t, Free)
    <2>1. Free \in Mode /\ \A l \in Lock : Free[l] = "none"
        BY DEF Free, Mode
    <2>2. Ordered(<< >>, Free, Free)
        BY <2>1, OrderedEmpty
    <2>3. t # Nobody
        BY LocksAssumption
    <2> QED BY <2>1, <2>2, <2>3 DEF Init, InOrder, Has
<1>2. Background \subseteq Thread
    BY DEF Thread
<1> QED BY <1>1, <1>2 DEF Init, LocksInv

\* What an instruction does to the mode.
LEMMA GoesHow ==
    ASSUME NEW m, NEW n, NEW l \in Lock
    PROVE  /\ Goes(m, <<"RLock", l>>, n) => Takes(m, n, l, "read")
           /\ Goes(m, <<"Lock", l>>, n) => Takes(m, n, l, "write")
           /\ Goes(m, <<"RUnlock", l>>, n) => Gives(m, n, l, "read")
           /\ Goes(m, <<"Unlock", l>>, n) => Gives(m, n, l, "write")
           /\ Goes(m, <<"Wait", "background">>, n) => m["p"] = "none" /\ n = m
BY DEF Goes, Lock

\* The rest of a goroutine after its next instruction.
LEMMA Executes ==
    ASSUME LocksInv, NEW t \in Thread, NEW m, InOrder(t, m), NEW what, NEW l,
           Instruction(t, what, l), Executed(t)
    PROVE  /\ rest' \in [Thread -> Seq(Instructions)] /\ rest'[t] = Tail(rest[t])
           /\ \A u \in Thread : u # t => rest'[u] = rest[u]
           /\ \A b \in Background : rest'[b] \in Seq(PoolInstructions)
           /\ \E n \in Mode : Goes(m, <<what, l>>, n) /\ Ordered(rest'[t], n, Free)
<1>1. rest[t] # << >> /\ Head(rest[t]) = <<what, l>> /\ rest[t] \in Seq(Instructions)
    BY DEF Instruction, LocksInv
<1>2. Tail(rest[t]) \in Seq(Instructions)
    BY <1>1
<1>3. /\ rest' \in [Thread -> Seq(Instructions)] /\ rest'[t] = Tail(rest[t])
      /\ \A u \in Thread : u # t => rest'[u] = rest[u]
    BY <1>2 DEF Executed, LocksInv
<1>4. ASSUME NEW b \in Background PROVE rest'[b] \in Seq(PoolInstructions)
    <2>1. rest[b] \in Seq(PoolInstructions) /\ b \in Thread
        BY DEF LocksInv, Thread
    <2>2. CASE b = t
        <3>1. rest[t] \in Seq(PoolInstructions) /\ rest[t] # << >>
            BY <1>1, <2>1, <2>2
        <3>2. Tail(rest[t]) \in Seq(PoolInstructions)
            BY <3>1
        <3> QED BY <1>3, <2>2, <3>2
    <2> QED BY <1>3, <2>1, <2>2
<1>5. PICK n \in Mode : Goes(m, Head(rest[t]), n) /\ Ordered(Tail(rest[t]), n, Free)
    BY <1>1, OrderedTail DEF InOrder
<1> QED BY <1>1, <1>3, <1>4, <1>5

\* The goroutines that do not move are in order still.
LEMMA OthersInOrder ==
    ASSUME LocksInv, NEW u \in Thread, rest'[u] = rest[u],
           \A l \in Lock : readers'[l][u] = readers[l][u],
           \A l \in Lock : pending'[l] = u <=> pending[l] = u
    PROVE  \E m : InOrder(u, m)'
<1>1. PICK m : InOrder(u, m)
    BY DEF LocksInv
<1>2. Has(u, m)'
    BY <1>1 DEF InOrder, Has, Instruction
<1> QED BY <1>1, <1>2 DEF InOrder

\* A goroutine that calls an operation has no lock.
LEMMA BeginKeeps ==
    ASSUME Calls \subseteq OrderedCalls, LocksInv, NEW t \in Thread, Begin(t)
    PROVE  LocksInv'
<1>1. PICK name \in IF t \in Client THEN Calls ELSE {"runHealthCheck", "runReap"} :
          rest' = [rest EXCEPT ![t] = Program[name]]
    BY DEF Begin
<1>2. UNCHANGED <<readers, pending>> /\ rest[t] = << >>
    BY DEF Begin
<1>3. t \in Background => InPool(Program[name])
    <2>1. t \in Background => t \notin Client
        BY LocksAssumption
    <2>2. Program["runHealthCheck"] = runHealthCheck /\ Program["runReap"] = runReap
        BY DEF Program
    <2> QED BY <1>1, <2>1, <2>2, PoolOperations
<1>4. Ordered(Program[name], Free, Free)
    <2>1. t \in Client => Ordered(Program[name], Free, Free)
        BY <1>1, SessionOperations
    <2> QED BY <1>3, <2>1 DEF InPool, Outside, Thread
<1>5. Program[name] \in Seq(Instructions)
    BY <1>4 DEF Ordered
<1>6. PICK m : InOrder(t, m)
    BY DEF LocksInv
<1>7. m = Free
    <2>1. PICK f : Leads(<< >>, f, m, Free)
        BY <1>2, <1>6 DEF InOrder, Ordered
    <2> QED BY <2>1 DEF Leads
<1>8. rest'[t] = Program[name] /\ \A u \in Thread : u # t => rest'[u] = rest[u]
    BY <1>1 DEF LocksInv
<1>9. InOrder(t, Free)'
    <2>1. Has(t, Free)'
        BY <1>2, <1>6, <1>7 DEF InOrder, Has, Instruction
    <2> QED BY <1>4, <1>6, <1>7, <1>8, <2>1 DEF InOrder
<1>10. \A u \in Thread : u # t => \E n : InOrder(u, n)'
    BY <1>2, <1>8, OthersInOrder
<1>11. \A b \in Background : rest'[b] \in Seq(PoolInstructions)
    BY <1>3, <1>8 DEF LocksInv, InPool, Thread
<1>12. rest' \in [Thread -> Seq(Instructions)]
    BY <1>1, <1>5 DEF LocksInv
<1> QED
    <2>1. \A u \in Thread : \E k : InOrder(u, k)'
        BY <1>9, <1>10
    <2> QED BY <1>2, <1>11, <1>12, <2>1 DEF LocksInv

\* Whoever takes a read lock has it alone among his locks of that kind.
LEMMA RLockKeeps ==
    ASSUME LocksInv, NEW t \in Thread, NEW l \in Lock, RLock(t, l)
    PROVE  LocksInv'
<1>1. /\ Instruction(t, "RLock", l) /\ Executed(t) /\ pending' = pending
      /\ readers' = [readers EXCEPT ![l][t] = @ + 1]
    BY DEF RLock
<1>2. PICK m : InOrder(t, m)
    BY DEF LocksInv
<1>3. PICK n \in Mode : Goes(m, <<"RLock", l>>, n) /\ Ordered(rest'[t], n, Free)
    BY <1>1, <1>2, Executes
<1>3a. /\ rest' \in [Thread -> Seq(Instructions)]
       /\ \A u \in Thread : u # t => rest'[u] = rest[u]
       /\ \A b \in Background : rest'[b] \in Seq(PoolInstructions)
    BY <1>1, <1>2, Executes
<1>4. Takes(m, n, l, "read")
    BY <1>3, GoesHow
<1>5. /\ n[l] = "read" /\ m[l] = "none"
      /\ \A k \in Lock : k # l => n[k] = m[k]
    BY <1>2, <1>4 DEF Takes, InOrder, Mode
<1>6. readers[l][t] = 0
    BY <1>2, <1>5 DEF InOrder, Has
<1>7. /\ readers' \in [Lock -> [Thread -> {0, 1}]] /\ readers'[l][t] = 1
      /\ \A k \in Lock, u \in Thread : k # l \/ u # t => readers'[k][u] = readers[k][u]
    BY <1>1, <1>6 DEF LocksInv
<1>8. pending[l] # t
    BY <1>1, <1>2, <1>5 DEF InOrder, Has, Instruction
<1>9. \A k \in Lock : pending[k] = t => m[k] = "write"
    BY <1>1, <1>2, <1>8 DEF InOrder, Has, Instruction
<1>10. InOrder(t, n)'
    <2>1. Has(t, n)'
        BY <1>1, <1>2, <1>5, <1>7, <1>8, <1>9 DEF InOrder, Has
    <2> QED BY <1>3, <2>1 DEF InOrder
<1>11. \A u \in Thread : u # t => \E k : InOrder(u, k)'
    BY <1>1, <1>3a, <1>7, OthersInOrder
<1> QED
    <2>1. \A u \in Thread : \E k : InOrder(u, k)'
        BY <1>10, <1>11
    <2> QED BY <1>1, <1>3a, <1>7, <2>1 DEF LocksInv

\* Whoever gives a read lock back had it.
LEMMA RUnlockKeeps ==
    ASSUME LocksInv, NEW t \in Thread, NEW l \in Lock, RUnlock(t, l)
    PROVE  LocksInv'
<1>1. /\ Instruction(t, "RUnlock", l) /\ Executed(t) /\ pending' = pending
      /\ readers' = [readers EXCEPT ![l][t] = @ - 1]
    BY DEF RUnlock
<1>2. PICK m : InOrder(t, m)
    BY DEF LocksInv
<1>3. PICK n \in Mode : Goes(m, <<"RUnlock", l>>, n) /\ Ordered(rest'[t], n, Free)
    BY <1>1, <1>2, Executes
<1>3a. /\ rest' \in [Thread -> Seq(Instructions)]
       /\ \A u \in Thread : u # t => rest'[u] = rest[u]
       /\ \A b \in Background : rest'[b] \in Seq(PoolInstructions)
    BY <1>1, <1>2, Executes
<1>4. Gives(m, n, l, "read")
    BY <1>3, GoesHow
<1>5. /\ n[l] = "none" /\ m[l] = "read"
      /\ \A k \in Lock : k # l => n[k] = m[k]
    BY <1>2, <1>4 DEF Gives, InOrder, Mode
<1>6. readers[l][t] = 1
    BY <1>2, <1>5 DEF InOrder, Has
<1>7. /\ readers' \in [Lock -> [Thread -> {0, 1}]] /\ readers'[l][t] = 0
      /\ \A k \in Lock, u \in Thread : k # l \/ u # t => readers'[k][u] = readers[k][u]
    BY <1>1, <1>6 DEF LocksInv
<1>8. \A k \in Lock : pending[k] = t => m[k] = "write"
    BY <1>1, <1>2 DEF InOrder, Has, Instruction
<1>9. InOrder(t, n)'
    <2>1. Has(t, n)'
        BY <1>1, <1>2, <1>5, <1>7, <1>8 DEF InOrder, Has
    <2> QED BY <1>3, <2>1 DEF InOrder
<1>10. \A u \in Thread : u # t => \E k : InOrder(u, k)'
    BY <1>1, <1>3a, <1>7, OthersInOrder
<1> QED
    <2>1. \A u \in Thread : \E k : InOrder(u, k)'
        BY <1>9, <1>10
    <2> QED BY <1>1, <1>3a, <1>7, <2>1 DEF LocksInv

\* The first half of Lock changes no mode.
LEMMA AnnounceKeeps ==
    ASSUME LocksInv, NEW t \in Thread, NEW l \in Lock, Announce(t, l)
    PROVE  LocksInv'
<1>1. /\ Instruction(t, "Lock", l) /\ pending[l] = Nobody
      /\ pending' = [pending EXCEPT ![l] = t] /\ UNCHANGED <<rest, readers>>
    BY DEF Announce
<1>2. /\ pending' \in [Lock -> Thread \cup {Nobody}] /\ pending'[l] = t
      /\ \A k \in Lock : k # l => pending'[k] = pending[k]
    BY <1>1 DEF LocksInv
<1>3. Nobody \notin Thread
    BY LocksAssumption
<1>4. PICK m : InOrder(t, m)
    BY DEF LocksInv
<1>5. InOrder(t, m)'
    <2>1. Has(t, m)'
        BY <1>1, <1>2, <1>3, <1>4 DEF InOrder, Has, Instruction
    <2> QED BY <1>1, <1>4, <2>1 DEF InOrder
<1>6. ASSUME NEW u \in Thread, u # t PROVE \E k : InOrder(u, k)'
    <2>1. \A k \in Lock : pending'[k] = u <=> pending[k] = u
        BY <1>1, <1>2, <1>3, <1>6
    <2> QED BY <1>1, <2>1, OthersInOrder
<1> QED
    <2>1. \A u \in Thread : \E k : InOrder(u, k)'
        BY <1>5, <1>6
    <2> QED BY <1>1, <1>2, <2>1 DEF LocksInv

\* The second half takes what was announced.
LEMMA LockedKeeps ==
    ASSUME LocksInv, NEW t \in Thread, NEW l \in Lock, Locked(t, l)
    PROVE  LocksInv'
<1>1. /\ Instruction(t, "Lock", l) /\ Executed(t) /\ pending[l] = t
      /\ UNCHANGED <<readers, pending>>
    BY DEF Locked
<1>2. PICK m : InOrder(t, m)
    BY DEF LocksInv
<1>3. PICK n \in Mode : Goes(m, <<"Lock", l>>, n) /\ Ordered(rest'[t], n, Free)
    BY <1>1, <1>2, Executes
<1>3a. /\ rest' \in [Thread -> Seq(Instructions)]
       /\ \A u \in Thread : u # t => rest'[u] = rest[u]
       /\ \A b \in Background : rest'[b] \in Seq(PoolInstructions)
    BY <1>1, <1>2, Executes
<1>4. Takes(m, n, l, "write")
    BY <1>3, GoesHow
<1>5. /\ n[l] = "write" /\ m[l] = "none"
      /\ \A k \in Lock : k # l => n[k] = m[k]
    BY <1>2, <1>4 DEF Takes, InOrder, Mode
<1>6. \A k \in Lock : k # l /\ pending[k] = t => m[k] = "write"
    BY <1>1, <1>2 DEF InOrder, Has, Instruction
<1>7. InOrder(t, n)'
    <2>1. Has(t, n)'
        BY <1>1, <1>2, <1>5, <1>6 DEF InOrder, Has
    <2> QED BY <1>3, <2>1 DEF InOrder
<1>8. \A u \in Thread : u # t => \E k : InOrder(u, k)'
    BY <1>1, <1>3a, OthersInOrder
<1> QED
    <2>1. \A u \in Thread : \E k : InOrder(u, k)'
        BY <1>7, <1>8
    <2> QED BY <1>1, <1>3a, <2>1 DEF LocksInv

\* Whoever gives a write lock back had it, and nobody else did.
LEMMA UnlockKeeps ==
    ASSUME LocksInv, NEW t \in Thread, NEW l \in Lock, Unlock(t, l)
    PROVE  LocksInv'
<1>1. /\ Instruction(t, "Unlock", l) /\ Executed(t) /\ readers' = readers
      /\ pending' = [pending EXCEPT ![l] = Nobody]
    BY DEF Unlock
<1>2. PICK m : InOrder(t, m)
    BY DEF LocksInv
<1>3. PICK n \in Mode : Goes(m, <<"Unlock", l>>, n) /\ Ordered(rest'[t], n, Free)
    BY <1>1, <1>2, Executes
<1>3a. /\ rest' \in [Thread -> Seq(Instructions)]
       /\ \A u \in Thread : u # t => rest'[u] = rest[u]
       /\ \A b \in Background : rest'[b] \in Seq(PoolInstructions)
    BY <1>1, <1>2, Executes
<1>4. Gives(m, n, l, "write")
    BY <1>3, GoesHow
<1>5. /\ n[l] = "none" /\ m[l] = "write"
      /\ \A k \in Lock : k # l => n[k] = m[k]
    BY <1>2, <1>4 DEF Gives, InOrder, Mode
<1>6. pending[l] = t /\ Nobody \notin Thread
    BY <1>2, <1>5, LocksAssumption DEF InOrder, Has
<1>7. /\ pending' \in [Lock -> Thread \cup {Nobody}] /\ pending'[l] = Nobody
      /\ \A k \in Lock : k # l => pending'[k] = pending[k]
    BY <1>1 DEF LocksInv
<1>8. \A k \in Lock : pending[k] = t => m[k] = "write"
    BY <1>1, <1>2 DEF InOrder, Has, Instruction
<1>9. InOrder(t, n)'
    <2>1. Has(t, n)'
        BY <1>1, <1>2, <1>5, <1>6, <1>7, <1>8 DEF InOrder, Has
    <2> QED BY <1>3, <2>1 DEF InOrder
<1>10. ASSUME NEW u \in Thread, u # t PROVE \E k : InOrder(u, k)'
    <2>1. \A k \in Lock : pending'[k] = u <=> pending[k] = u
        BY <1>6, <1>7, <1>10
    <2> QED BY <1>1, <1>3a, <1>10, <2>1, OthersInOrder
<1> QED
    <2>1. \A u \in Thread : \E k : InOrder(u, k)'
        BY <1>9, <1>10
    <2> QED BY <1>1, <1>3a, <1>7, <2>1 DEF LocksInv

\* Who has waited has what he had.
LEMMA WaitKeeps ==
    ASSUME LocksInv, NEW t \in Thread, Wait(t)
    PROVE  LocksInv'
<1>1. /\ Instruction(t, "Wait", "background") /\ Executed(t)
      /\ UNCHANGED <<readers, pending>>
    BY DEF Wait
<1>2. PICK m : InOrder(t, m)
    BY DEF LocksInv
<1>3. PICK n \in Mode :
          Goes(m, <<"Wait", "background">>, n) /\ Ordered(rest'[t], n, Free)
    BY <1>1, <1>2, Executes
<1>3a. /\ rest' \in [Thread -> Seq(Instructions)]
       /\ \A u \in Thread : u # t => rest'[u] = rest[u]
       /\ \A b \in Background : rest'[b] \in Seq(PoolInstructions)
    BY <1>1, <1>2, Executes
<1>4. n = m
    <2>1. "p" \in Lock
        BY DEF Lock
    <2> QED BY <1>3, <2>1, GoesHow
<1>5. InOrder(t, m)'
    <2>1. Has(t, m)'
        BY <1>1, <1>2 DEF InOrder, Has, Instruction, Lock
    <2> QED BY <1>3, <1>4, <2>1 DEF InOrder
<1>6. \A u \in Thread : u # t => \E k : InOrder(u, k)'
    BY <1>1, <1>3a, OthersInOrder
<1> QED
    <2>1. \A u \in Thread : \E k : InOrder(u, k)'
        BY <1>5, <1>6
    <2> QED BY <1>1, <1>3a, <2>1 DEF LocksInv

\* The invariant is inductive.
LEMMA NextLocks ==
    ASSUME Calls \subseteq OrderedCalls
    PROVE  LocksInv /\ [Next]_vars => LocksInv'
<1> SUFFICES ASSUME LocksInv, [Next]_vars PROVE LocksInv'
    OBVIOUS
<1>1. CASE UNCHANGED vars
    BY <1>1 DEF vars, LocksInv, InOrder, Has, Instruction
<1> QED BY <1>1, BeginKeeps, RLockKeeps, RUnlockKeeps, AnnounceKeeps, LockedKeeps,
           UnlockKeeps, WaitKeeps DEF Next

-----------------------------------------------------------------------------
(* No circle.                                                              *)

\* Every goroutine of S waits for one of S.
Circle(S) == S # {} /\ S \subseteq Thread /\ \A t \in S : \E u \in S : WaitsFor(t, u)

\* Who waits does so at an instruction that can block.
LEMMA WaitsAt ==
    ASSUME NEW S, Circle(S), NEW t \in S
    PROVE  \/ \E l \in Lock : Instruction(t, "RLock", l) \/ Instruction(t, "Lock", l)
           \/ Instruction(t, "Wait", "background")
BY DEF Circle, WaitsFor

\* Who waits goes from its mode by that instruction.
LEMMA WaitsFrom ==
    ASSUME LocksInv, NEW S, Circle(S), NEW t \in S, NEW m, InOrder(t, m)
    PROVE  /\ m["p"] = "none"
           /\ \A l \in Lock :
                 Instruction(t, "RLock", l) \/ Instruction(t, "Lock", l) => m[l] = "none"
<1>1. rest[t] # << >>
    BY WaitsAt DEF Instruction
<1>2. PICK n \in Mode : Goes(m, Head(rest[t]), n)
    BY <1>1, OrderedTail DEF InOrder
<1>3. "p" \in Lock
    BY DEF Lock
<1>4. ASSUME NEW l \in Lock, Instruction(t, "RLock", l) \/ Instruction(t, "Lock", l)
      PROVE  m[l] = "none" /\ m["p"] = "none"
    <2>1. Head(rest[t]) = <<"RLock", l>> \/ Head(rest[t]) = <<"Lock", l>>
        BY <1>4 DEF Instruction
    <2>2. Goes(m, <<"RLock", l>>, n) \/ Goes(m, <<"Lock", l>>, n)
        BY <1>2, <2>1
    <2>3. Takes(m, n, l, "read") \/ Takes(m, n, l, "write")
        BY <2>2, GoesHow
    <2> QED BY <2>3 DEF Takes
<1>5. ASSUME Instruction(t, "Wait", "background") PROVE m["p"] = "none"
    <2>1. Head(rest[t]) = <<"Wait", "background">>
        BY <1>5 DEF Instruction
    <2>2. Goes(m, <<"Wait", "background">>, n)
        BY <1>2, <2>1
    <2> QED BY <1>3, <2>2, GoesHow
<1> QED BY <1>4, <1>5, WaitsAt

\* Who waits at a lock waits for someone of S that has it: to write, or to
\* read while a writer waits.
LEMMA WaitsForHolder ==
    ASSUME LocksInv, NEW S, Circle(S), NEW t \in S, NEW l \in Lock,
           Instruction(t, "RLock", l) \/ Instruction(t, "Lock", l)
    PROVE  \E u \in S, m \in Mode : InOrder(u, m) /\ m[l] # "none"
<1>1. ASSUME NEW u \in S, readers[l][u] > 0
      PROVE  \E m \in Mode : InOrder(u, m) /\ m[l] # "none"
    <2>1. PICK m : InOrder(u, m)
        BY DEF LocksInv, Circle
    <2> QED BY <1>1, <2>1 DEF InOrder, Has
<1>2. ASSUME NEW u \in S, pending[l] = u
      PROVE  \E v \in S, m \in Mode : InOrder(v, m) /\ m[l] # "none"
    <2>1. PICK m : InOrder(u, m)
        BY DEF LocksInv, Circle
    <2>2. CASE m[l] = "write"
        BY <2>1, <2>2 DEF InOrder
    <2>3. CASE Instruction(u, "Lock", l)
        <3>1. PICK v \in S : WaitsFor(u, v)
            BY DEF Circle
        <3>2. readers[l][v] > 0
            BY <1>2, <2>3, <3>1 DEF WaitsFor, Instruction
        <3> QED BY <1>1, <3>2
    <2> QED BY <1>2, <2>1, <2>2, <2>3 DEF InOrder, Has
<1>3. PICK u \in S : WaitsFor(t, u)
    BY DEF Circle
<1>4. pending[l] = u \/ (pending[l] = t /\ readers[l][u] > 0)
    BY <1>3 DEF WaitsFor, Instruction
<1> QED BY <1>1, <1>2, <1>4

\* Nobody waits at p: who has it does not wait.
LEMMA NobodyAtPool ==
    ASSUME LocksInv, NEW S, Circle(S), NEW t \in S
    PROVE  ~ Instruction(t, "RLock", "p") /\ ~ Instruction(t, "Lock", "p")
<1> SUFFICES ASSUME Instruction(t, "RLock", "p") \/ Instruction(t, "Lock", "p")
             PROVE  FALSE
    OBVIOUS
<1>1. "p" \in Lock
    BY DEF Lock
<1>2. PICK u \in S, m \in Mode : InOrder(u, m) /\ m["p"] # "none"
    BY <1>1, WaitsForHolder
<1> QED BY <1>2, WaitsFrom

\* Nobody waits for the background: it takes p only.
LEMMA NobodyAtWait ==
    ASSUME LocksInv, NEW S, Circle(S), NEW t \in S
    PROVE  ~ Instruction(t, "Wait", "background")
<1> SUFFICES ASSUME Instruction(t, "Wait", "background") PROVE FALSE
    OBVIOUS
<1>1. PICK b \in S : b \in Background /\ rest[b] # << >>
    BY DEF Circle, WaitsFor, Instruction
<1>2. Head(rest[b]) \in PoolInstructions
    BY <1>1 DEF LocksInv
<1>3. \A l : Instruction(b, "RLock", l) \/ Instruction(b, "Lock", l) => l = "p"
    BY <1>2 DEF PoolInstructions, Instruction
<1>4. ~ Instruction(b, "Wait", "background")
    BY <1>2 DEF PoolInstructions, Instruction
<1> QED BY <1>3, <1>4, WaitsAt, NobodyAtPool

\* So nobody waits at all: who has s is on his way to p, or gives s back.
LEMMA NoCircle ==
    ASSUME LocksInv, NEW S, Circle(S)
    PROVE  FALSE
<1>1. PICK t \in S : TRUE
    BY DEF Circle
<1>2. \A u \in S : Instruction(u, "RLock", "s") \/ Instruction(u, "Lock", "s")
    BY WaitsAt, NobodyAtPool, NobodyAtWait DEF Lock
<1>3. "s" \in Lock
    BY DEF Lock
<1>4. PICK u \in S, m \in Mode : InOrder(u, m) /\ m["s"] # "none"
    BY <1>1, <1>2, <1>3, WaitsForHolder
<1> QED BY <1>2, <1>3, <1>4, WaitsFrom

\* Goroutines that call the operations of a session, together with its health
\* checker and reaper, never wait for each other in a circle, whatever their
\* number.
THEOREM LocksAreOrdered ==
    ASSUME Calls \subseteq OrderedCalls
    PROVE  Spec => []NoCircularWait
<1>1. LocksInv => NoCircularWait
    BY NoCircle DEF NoCircularWait, Circle
<1> QED BY <1>1, InitLocks, NextLocks, PTL DEF Spec
=============================================================================
