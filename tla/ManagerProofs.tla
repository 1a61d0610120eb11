--------------------------- MODULE ManagerProofs ----------------------------
(***************************************************************************)
(* What Manager promises for any number of names, sessions and goroutines: *)
(* a session of a running manager can be found until somebody closes it,   *)
(* and the browser is not closed before the sessions.                      *)
(***************************************************************************)
EXTENDS Manager, TLAPS

Busy == {"range", "close", "drain", "forget", "detaching", "stopping"}
Closer == Remover \cup Shutter

\* Which labels each kind of goroutine comes to.
Roles ==
    /\ \A c \in Creator : pc[c] \in {"out", "register"}
    /\ \A r \in Remover : pc[r] \in {"out", "close", "drain"}
    /\ \A k \in Shutter : pc[k] \in {"out", "returned", "await"} \cup Busy
    /\ \A d \in Doer : pc[d] \in {"out", "opening", "operate"}

\* A creator that is about to register has a new session to itself.
New ==
    \A c \in Creator : pc[c] = "register" =>
        /\ held[c] \in Sess /\ key[c] \in Name
        /\ life[held[c]] = "none"
        /\ \A d \in Creator : pc[d] = "register" /\ held[d] = held[c] => d = c

\* What is registered, and what is being closed, has been created.
Old ==
    /\ \A n \in Name : sessions[n] # Nil => life[sessions[n]] # "none"
    /\ \A a \in Closer : pc[a] \in {"close", "drain"} =>
          held[a] \in Sess /\ life[held[a]] # "none"

\* A drain is somebody's.
Drains ==
    \A s \in Sess : life[s] = "draining" =>
        \E a \in Closer : pc[a] = "drain" /\ held[a] = s

\* closeOnce lets one goroutine through Close, and the browser is up as long
\* as the walk is under way.
OneWalk ==
    /\ \A k \in Shutter : pc[k] \in Busy => closeOnce = "running"
    /\ \A j, k \in Shutter : pc[j] \in Busy /\ pc[k] \in Busy => j = k
    /\ \A k \in Shutter : pc[k] \in Busy \ {"stopping"} => browser = "up"
    /\ \A k \in Shutter : pc[k] # "out" => closed
    /\ closed <=> closeOnce # "idle"
    /\ closeOnce = "idle" => browser = "up"

\* A name that the walk has reached is not to be reached.
Apart ==
    /\ \A n \in todo : n \notin seen
    /\ closeOnce = "idle" => seen = {}
    /\ \A k \in Shutter : pc[k] \in {"close", "drain", "forget"} => key[k] \in seen

\* A session that was registered when Close began is closed, in somebody's
\* hands, or still to be reached.
Reached(s) ==
    \/ life[s] = "closed"
    \/ \E a \in Closer : pc[a] \in {"close", "drain"} /\ held[a] = s
    \/ \E n \in todo : sessions[n] = s
Doomed == \A s \in doomed : life[s] # "none" /\ Reached(s)

\* After the walk it is closed, or in a remover's.
Gone(s) ==
    \/ life[s] = "closed"
    \/ \E r \in Remover : pc[r] \in {"close", "drain"} /\ held[r] = s
AfterWalk ==
    browser = "closed" \/ (\E k \in Shutter : pc[k] = "detaching") =>
        \A s \in doomed : Gone(s)

ManagerInv ==
    /\ TypeOK /\ Roles /\ New /\ Old /\ Drains /\ OneWalk /\ Apart
    /\ Doomed /\ AfterWalk /\ OpenIsListed

\* One goroutine moves.
Only(a) ==
    \A b \in Actor \ {a} : pc'[b] = pc[b] /\ held'[b] = held[b] /\ key'[b] = key[b]
Keeps(a) == held'[a] = held[a] /\ key'[a] = key[a]

\* Goroutines are of one kind each.
LEMMA Kinds ==
    /\ \A c \in Creator : c \in Actor /\ c \notin Closer /\ c \notin Doer
    /\ \A r \in Remover : r \in Actor /\ r \in Closer /\ r \notin Shutter
    /\ \A k \in Shutter : k \in Actor /\ k \in Closer /\ k \notin Remover
    /\ \A a \in Closer : a \in Actor /\ a \notin Creator /\ a \notin Doer /\ (a \in Remover \/ a \in Shutter)
    /\ \A d \in Doer : d \in Actor /\ d \notin Creator /\ d \notin Closer
    /\ \A s \in Sess : s # Nil
    /\ \A n \in Name : n # Nil
BY ManagerAssumption DEF Actor, Closer

\* Create keeps the invariant.
LEMMA CreateKeeps ==
    ASSUME ManagerInv, NEW c \in Creator, NEW n \in Name, NEW s \in Sess, Create(c, n, s)
    PROVE  ManagerInv'
<1>0. TypeOK /\ Roles /\ New /\ Old /\ Drains /\ OneWalk /\ Apart /\ Doomed /\ AfterWalk /\ OpenIsListed
    BY DEF ManagerInv
<1>1. c \in Actor /\ Only(c)
    BY <1>0 DEF Actor, Closer, Only, TypeOK, Create, At, Goto, Hold
<1>2. /\ pc[c] = "out" /\ pc'[c] = "register"
      /\ held'[c] = s /\ key'[c] = n
      /\ ~closed /\ life[s] = "none" /\ \A b \in Actor : held[b] # s
      /\ UNCHANGED <<sessions, life, closed, closeOnce, browser, driver, todo, seen, doomed>>
    BY <1>0, <1>1, ManagerAssumption
       DEF TypeOK, Create, At, Goto, Hold, machine, range, Closer, Keeps, New, Old,
           Apart
<1>3. TypeOK'
    BY <1>0, <1>1, ManagerAssumption
       DEF TypeOK, Create, At, Goto, Hold, machine, range, Closer, New, Old
<1>4. Roles'
    BY <1>0, <1>1, <1>2, Kinds DEF Only, Keeps, Roles, Busy
<1>5. New'
    BY <1>0, <1>1, <1>2, Kinds DEF Only, Keeps, New
<1>6. Old'
    BY <1>0, <1>1, <1>2, Kinds DEF Only, Keeps, Old
<1>7. Drains'
    BY <1>0, <1>1, <1>2, Kinds DEF Only, Keeps, Drains
<1>8. OneWalk'
    BY <1>0, <1>1, <1>2, Kinds DEF Only, Keeps, OneWalk, Busy
<1>9. Apart'
    BY <1>0, <1>1, <1>2, Kinds DEF Only, Keeps, Apart
<1>10. Doomed'
    BY <1>0, <1>1, <1>2, Kinds DEF Only, Keeps, Doomed, Reached
<1>11. AfterWalk'
    BY <1>0, <1>1, <1>2, Kinds DEF Only, Keeps, AfterWalk, Gone
<1>12. OpenIsListed'
    BY <1>0, <1>1, <1>2, Kinds DEF Only, Keeps, OpenIsListed, InHand, Listed, Closer
<1> QED BY <1>3, <1>4, <1>5, <1>6, <1>7, <1>8, <1>9, <1>10, <1>11, <1>12 DEF ManagerInv

\* Register keeps the invariant.
LEMMA RegisterKeeps ==
    ASSUME ManagerInv, NEW c \in Creator, Register(c)
    PROVE  ManagerInv'
<1>0. TypeOK /\ Roles /\ New /\ Old /\ Drains /\ OneWalk /\ Apart /\ Doomed /\ AfterWalk /\ OpenIsListed
    BY DEF ManagerInv
<1>1. c \in Actor /\ Only(c)
    BY <1>0 DEF Actor, Closer, Only, TypeOK, Register, GetSession, At, Goto, Hold
<1>2. /\ pc[c] = "register" /\ pc'[c] = "out"
      /\ held[c] \in Sess /\ key[c] \in Name
      /\ sessions[key[c]] = Nil /\ sessions'[key[c]] = held[c]
      /\ \A n \in Name \ {key[c]} : sessions'[n] = sessions[n]
      /\ life'[held[c]] = "open"
      /\ \A s \in Sess \ {held[c]} : life'[s] = life[s]
      /\ UNCHANGED <<closed, closeOnce, browser, driver, todo, seen, doomed>>
    BY <1>0, <1>1, ManagerAssumption
       DEF TypeOK, Register, GetSession, At, Goto, Hold, machine, range, Closer,
           Keeps, New, Old, Apart
<1>3. TypeOK'
    BY <1>0, <1>1, ManagerAssumption
       DEF TypeOK, Register, GetSession, At, Goto, Hold, machine, range, Closer, New,
           Old
<1>t. /\ \A n \in Name : sessions[n] # Nil => sessions[n] \in Sess
      /\ \A s \in doomed : s \in Sess
      /\ \A n \in todo : n \in Name
    BY <1>0 DEF TypeOK
<1>l. \A s \in Sess : /\ life[s] # "none" => life'[s] # "none"
                     /\ life[s] = "closed" => life'[s] = "closed"
    BY <1>0, <1>2 DEF New
<1>4. Roles'
    BY <1>0, <1>1, <1>2, <1>t, <1>l, Kinds DEF Only, Keeps, Roles, Busy
<1>5. New'
    BY <1>0, <1>1, <1>2, <1>t, <1>l, Kinds DEF Only, Keeps, New
<1>6. Old'
    BY <1>0, <1>1, <1>2, <1>t, <1>l, Kinds DEF Only, Keeps, Old
<1>7. Drains'
    BY <1>0, <1>1, <1>2, <1>t, <1>l, Kinds DEF Only, Keeps, Drains
<1>8. OneWalk'
    BY <1>0, <1>1, <1>2, <1>t, <1>l, Kinds DEF Only, Keeps, OneWalk, Busy
<1>9. Apart'
    BY <1>0, <1>1, <1>2, <1>t, <1>l, Kinds DEF Only, Keeps, Apart
<1>10. Doomed'
    BY <1>0, <1>1, <1>2, <1>t, <1>l, Kinds DEF Only, Keeps, Doomed, Reached
<1>11. AfterWalk'
    BY <1>0, <1>1, <1>2, <1>t, <1>l, Kinds DEF Only, Keeps, AfterWalk, Gone, Doomed
<1>12. OpenIsListed'
    BY <1>0, <1>1, <1>2, <1>t, <1>l, Kinds
       DEF Only, Keeps, OpenIsListed, InHand, Listed, Closer
<1> QED BY <1>3, <1>4, <1>5, <1>6, <1>7, <1>8, <1>9, <1>10, <1>11, <1>12 DEF ManagerInv

\* FindsDuplicate keeps the invariant.
LEMMA FindsDuplicateKeeps ==
    ASSUME ManagerInv, NEW c \in Creator, FindsDuplicate(c)
    PROVE  ManagerInv'
<1>0. TypeOK /\ Roles /\ New /\ Old /\ Drains /\ OneWalk /\ Apart /\ Doomed /\ AfterWalk /\ OpenIsListed
    BY DEF ManagerInv
<1>1. c \in Actor /\ Only(c)
    BY <1>0 DEF Actor, Closer, Only, TypeOK, FindsDuplicate, GetSession, At, Goto, Hold
<1>2. /\ pc[c] = "register" /\ pc'[c] = "out"
      /\ UNCHANGED <<sessions, life, closed, closeOnce, browser, driver, todo, seen, doomed>>
    BY <1>0, <1>1, ManagerAssumption
       DEF TypeOK, FindsDuplicate, GetSession, At, Goto, Hold, machine, range,
           Closer, Keeps, New, Old, Apart
<1>3. TypeOK'
    BY <1>0, <1>1, ManagerAssumption
       DEF TypeOK, FindsDuplicate, GetSession, At, Goto, Hold, machine, range,
           Closer, New, Old
<1>4. Roles'
    BY <1>0, <1>1, <1>2, Kinds DEF Only, Keeps, Roles, Busy
<1>5. New'
    BY <1>0, <1>1, <1>2, Kinds DEF Only, Keeps, New
<1>6. Old'
    BY <1>0, <1>1, <1>2, Kinds DEF Only, Keeps, Old
<1>7. Drains'
    BY <1>0, <1>1, <1>2, Kinds DEF Only, Keeps, Drains
<1>8. OneWalk'
    BY <1>0, <1>1, <1>2, Kinds DEF Only, Keeps, OneWalk, Busy
<1>9. Apart'
    BY <1>0, <1>1, <1>2, Kinds DEF Only, Keeps, Apart
<1>10. Doomed'
    BY <1>0, <1>1, <1>2, Kinds DEF Only, Keeps, Doomed, Reached
<1>11. AfterWalk'
    BY <1>0, <1>1, <1>2, Kinds DEF Only, Keeps, AfterWalk, Gone
<1>12. OpenIsListed'
    BY <1>0, <1>1, <1>2, Kinds DEF Only, Keeps, OpenIsListed, InHand, Listed, Closer
<1> QED BY <1>3, <1>4, <1>5, <1>6, <1>7, <1>8, <1>9, <1>10, <1>11, <1>12 DEF ManagerInv

\* LoadAndDelete keeps the invariant.
LEMMA LoadAndDeleteKeeps ==
    ASSUME ManagerInv, NEW r \in Remover, NEW n \in Name, LoadAndDelete(r, n)
    PROVE  ManagerInv'
<1>0. TypeOK /\ Roles /\ New /\ Old /\ Drains /\ OneWalk /\ Apart /\ Doomed /\ AfterWalk /\ OpenIsListed
    BY DEF ManagerInv
<1>1. r \in Actor /\ Only(r)
    BY <1>0 DEF Actor, Closer, Only, TypeOK, LoadAndDelete, GetSession, At, Goto, Hold
<1>2. /\ pc[r] = "out" /\ pc'[r] = "close"
      /\ sessions[n] \in Sess /\ held'[r] = sessions[n]
      /\ sessions'[n] = Nil
      /\ \A m \in Name \ {n} : sessions'[m] = sessions[m]
      /\ todo' = todo \ {n}
      /\ UNCHANGED <<life, closed, closeOnce, browser, driver, seen, doomed>>
    BY <1>0, <1>1, ManagerAssumption
       DEF TypeOK, LoadAndDelete, GetSession, At, Goto, Hold, machine, range, Closer,
           Keeps, New, Old, Apart
<1>3. TypeOK'
    BY <1>0, <1>1, ManagerAssumption
       DEF TypeOK, LoadAndDelete, GetSession, At, Goto, Hold, machine, range, Closer,
           New, Old
<1>t. /\ \A m \in Name : sessions[m] # Nil => sessions[m] \in Sess
      /\ \A s \in doomed : s \in Sess
      /\ \A m \in todo : m \in Name
    BY <1>0 DEF TypeOK
<1>4. Roles'
    BY <1>0, <1>1, <1>2, <1>t, Kinds DEF Only, Keeps, Roles, Busy
<1>5. New'
    BY <1>0, <1>1, <1>2, <1>t, Kinds DEF Only, Keeps, New
<1>6. Old'
    BY <1>0, <1>1, <1>2, <1>t, Kinds DEF Only, Keeps, Old
<1>7. Drains'
    BY <1>0, <1>1, <1>2, <1>t, Kinds DEF Only, Keeps, Drains
<1>8. OneWalk'
    BY <1>0, <1>1, <1>2, <1>t, Kinds DEF Only, Keeps, OneWalk, Busy
<1>9. Apart'
    BY <1>0, <1>1, <1>2, <1>t, Kinds DEF Only, Keeps, Apart
<1>10. Doomed'
    BY <1>0, <1>1, <1>2, <1>t, Kinds DEF Only, Keeps, Doomed, Reached
<1>11. AfterWalk'
    BY <1>0, <1>1, <1>2, <1>t, Kinds DEF Only, Keeps, AfterWalk, Gone
<1>12. OpenIsListed'
    BY <1>0, <1>1, <1>2, <1>t, Kinds DEF Only, Keeps, OpenIsListed, InHand, Listed, Closer
<1> QED BY <1>3, <1>4, <1>5, <1>6, <1>7, <1>8, <1>9, <1>10, <1>11, <1>12 DEF ManagerInv

\* KeepsAndCloses keeps the invariant.
LEMMA KeepsAndClosesKeeps ==
    ASSUME ManagerInv, NEW r \in Remover, NEW n \in Name, KeepsAndCloses(r, n)
    PROVE  ManagerInv'
<1>0. TypeOK /\ Roles /\ New /\ Old /\ Drains /\ OneWalk /\ Apart /\ Doomed /\ AfterWalk /\ OpenIsListed
    BY DEF ManagerInv
<1>1. r \in Actor /\ Only(r)
    BY <1>0 DEF Actor, Closer, Only, TypeOK, KeepsAndCloses, GetSession, At, Goto, Hold
<1>2. /\ pc[r] = "out" /\ pc'[r] = "close"
      /\ sessions[n] \in Sess /\ held'[r] = sessions[n]
      /\ UNCHANGED <<sessions, life, closed, closeOnce, browser, driver, todo, seen, doomed>>
    BY <1>0, <1>1, ManagerAssumption
       DEF TypeOK, KeepsAndCloses, GetSession, At, Goto, Hold, machine, range,
           Closer, Keeps, New, Old, Apart
<1>3. TypeOK'
    BY <1>0, <1>1, ManagerAssumption
       DEF TypeOK, KeepsAndCloses, GetSession, At, Goto, Hold, machine, range,
           Closer, New, Old
<1>4. Roles'
    BY <1>0, <1>1, <1>2, Kinds DEF Only, Keeps, Roles, Busy
<1>5. New'
    BY <1>0, <1>1, <1>2, Kinds DEF Only, Keeps, New
<1>6. Old'
    BY <1>0, <1>1, <1>2, Kinds DEF Only, Keeps, Old
<1>7. Drains'
    BY <1>0, <1>1, <1>2, Kinds DEF Only, Keeps, Drains
<1>8. OneWalk'
    BY <1>0, <1>1, <1>2, Kinds DEF Only, Keeps, OneWalk, Busy
<1>9. Apart'
    BY <1>0, <1>1, <1>2, Kinds DEF Only, Keeps, Apart
<1>10. Doomed'
    BY <1>0, <1>1, <1>2, Kinds DEF Only, Keeps, Doomed, Reached
<1>11. AfterWalk'
    BY <1>0, <1>1, <1>2, Kinds DEF Only, Keeps, AfterWalk, Gone
<1>12. OpenIsListed'
    BY <1>0, <1>1, <1>2, Kinds DEF Only, Keeps, OpenIsListed, InHand, Listed, Closer
<1> QED BY <1>3, <1>4, <1>5, <1>6, <1>7, <1>8, <1>9, <1>10, <1>11, <1>12 DEF ManagerInv

\* BeginClose keeps the invariant.
LEMMA BeginCloseKeeps ==
    ASSUME ManagerInv, NEW a \in Closer, BeginClose(a)
    PROVE  ManagerInv'
<1>0. TypeOK /\ Roles /\ New /\ Old /\ Drains /\ OneWalk /\ Apart /\ Doomed /\ AfterWalk /\ OpenIsListed
    BY DEF ManagerInv
<1>1. a \in Actor /\ Only(a)
    BY <1>0 DEF Actor, Closer, Only, TypeOK, BeginClose, At, Goto, Hold
<1>2. /\ pc[a] = "close" /\ pc'[a] = "drain" /\ Keeps(a)
      /\ held[a] \in Sess /\ life[held[a]] = "open" /\ life'[held[a]] = "draining"
      /\ \A s \in Sess \ {held[a]} : life'[s] = life[s]
      /\ UNCHANGED <<sessions, closed, closeOnce, browser, driver, todo, seen, doomed>>
    BY <1>0, <1>1, ManagerAssumption
       DEF TypeOK, BeginClose, At, Goto, Hold, machine, range, Closer, Keeps, New,
           Old, Apart
<1>3. TypeOK'
    BY <1>0, <1>1, ManagerAssumption
       DEF TypeOK, BeginClose, At, Goto, Hold, machine, range, Closer, New, Old
<1>t. /\ \A n \in Name : sessions[n] # Nil => sessions[n] \in Sess
      /\ \A s \in doomed : s \in Sess
      /\ \A n \in todo : n \in Name
    BY <1>0 DEF TypeOK
<1>l. \A s \in Sess : /\ life[s] # "none" => life'[s] # "none"
                     /\ life[s] = "closed" => life'[s] = "closed"
    BY <1>0, <1>2 DEF New
<1>4. Roles'
    BY <1>0, <1>1, <1>2, <1>t, <1>l, Kinds DEF Only, Keeps, Roles, Busy
<1>5. New'
    BY <1>0, <1>1, <1>2, <1>t, <1>l, Kinds DEF Only, Keeps, New
<1>6. Old'
    BY <1>0, <1>1, <1>2, <1>t, <1>l, Kinds DEF Only, Keeps, Old
<1>7. Drains'
    BY <1>0, <1>1, <1>2, <1>t, <1>l, Kinds DEF Only, Keeps, Drains
<1>8. OneWalk'
    BY <1>0, <1>1, <1>2, <1>t, <1>l, Kinds DEF Only, Keeps, OneWalk, Busy
<1>9. Apart'
    BY <1>0, <1>1, <1>2, <1>t, <1>l, Kinds DEF Only, Keeps, Apart
<1>10. Doomed'
    BY <1>0, <1>1, <1>2, <1>t, <1>l, Kinds DEF Only, Keeps, Doomed, Reached
<1>11. AfterWalk'
    BY <1>0, <1>1, <1>2, <1>t, <1>l, Kinds DEF Only, Keeps, AfterWalk, Gone
<1>12. OpenIsListed'
    BY <1>0, <1>1, <1>2, <1>t, <1>l, Kinds
       DEF Only, Keeps, OpenIsListed, InHand, Listed, Closer
<1> QED BY <1>3, <1>4, <1>5, <1>6, <1>7, <1>8, <1>9, <1>10, <1>11, <1>12 DEF ManagerInv

\* FindsClosing keeps the invariant.
LEMMA FindsClosingKeeps ==
    ASSUME ManagerInv, NEW a \in Closer, FindsClosing(a)
    PROVE  ManagerInv'
<1>0. TypeOK /\ Roles /\ New /\ Old /\ Drains /\ OneWalk /\ Apart /\ Doomed /\ AfterWalk /\ OpenIsListed
    BY DEF ManagerInv
<1>1. a \in Actor /\ Only(a)
    BY <1>0 DEF Actor, Closer, Only, TypeOK, FindsClosing, AfterClose, At, Goto, Hold
<1>2. /\ pc[a] = "close" /\ pc'[a] = (IF a \in Shutter THEN "forget" ELSE "out")
      /\ key'[a] = key[a]
      /\ held[a] \in Sess /\ life[held[a]] \in {"draining", "closed"}
      /\ UNCHANGED <<sessions, life, closed, closeOnce, browser, driver, todo, seen, doomed>>
    BY <1>0, <1>1, ManagerAssumption
       DEF TypeOK, FindsClosing, AfterClose, At, Goto, Hold, machine, range, Closer,
           Keeps, New, Old, Apart
<1>3. TypeOK'
    BY <1>0, <1>1, ManagerAssumption
       DEF TypeOK, FindsClosing, AfterClose, At, Goto, Hold, machine, range, Closer,
           New, Old
<1>4. Roles'
    BY <1>0, <1>1, <1>2, Kinds DEF Only, Keeps, Roles, Busy
<1>5. New'
    BY <1>0, <1>1, <1>2, Kinds DEF Only, Keeps, New
<1>6. Old'
    BY <1>0, <1>1, <1>2, Kinds DEF Only, Keeps, Old
<1>7. Drains'
    BY <1>0, <1>1, <1>2, Kinds DEF Only, Keeps, Drains
<1>8. OneWalk'
    BY <1>0, <1>1, <1>2, Kinds DEF Only, Keeps, OneWalk, Busy
<1>9. Apart'
    BY <1>0, <1>1, <1>2, Kinds DEF Only, Keeps, Apart
<1>10. Doomed'
    BY <1>0, <1>1, <1>2, Kinds DEF Only, Keeps, Doomed, Reached, Drains
<1>11. AfterWalk'
    BY <1>0, <1>1, <1>2, Kinds DEF Only, Keeps, AfterWalk, Gone, Drains, OneWalk, Busy
<1>12. OpenIsListed'
    BY <1>0, <1>1, <1>2, Kinds DEF Only, Keeps, OpenIsListed, InHand, Listed, Closer
<1> QED BY <1>3, <1>4, <1>5, <1>6, <1>7, <1>8, <1>9, <1>10, <1>11, <1>12 DEF ManagerInv

\* EndClose keeps the invariant.
LEMMA EndCloseKeeps ==
    ASSUME ManagerInv, NEW a \in Closer, EndClose(a)
    PROVE  ManagerInv'
<1>0. TypeOK /\ Roles /\ New /\ Old /\ Drains /\ OneWalk /\ Apart /\ Doomed /\ AfterWalk /\ OpenIsListed
    BY DEF ManagerInv
<1>1. a \in Actor /\ Only(a)
    BY <1>0 DEF Actor, Closer, Only, TypeOK, EndClose, AfterClose, At, Goto, Hold
<1>2. /\ pc[a] = "drain" /\ pc'[a] = (IF a \in Shutter THEN "forget" ELSE "out")
      /\ key'[a] = key[a]
      /\ held[a] \in Sess /\ life[held[a]] # "none" /\ life'[held[a]] = "closed"
      /\ \A s \in Sess \ {held[a]} : life'[s] = life[s]
      /\ UNCHANGED <<sessions, closed, closeOnce, browser, driver, todo, seen, doomed>>
    BY <1>0, <1>1, ManagerAssumption
       DEF TypeOK, EndClose, AfterClose, At, Goto, Hold, machine, range, Closer,
           Keeps, New, Old, Apart
<1>3. TypeOK'
    BY <1>0, <1>1, ManagerAssumption
       DEF TypeOK, EndClose, AfterClose, At, Goto, Hold, machine, range, Closer, New,
           Old
<1>t. /\ \A n \in Name : sessions[n] # Nil => sessions[n] \in Sess
      /\ \A s \in doomed : s \in Sess
      /\ \A n \in todo : n \in Name
    BY <1>0 DEF TypeOK
<1>l. \A s \in Sess : /\ life[s] # "none" => life'[s] # "none"
                     /\ life[s] = "closed" => life'[s] = "closed"
    BY <1>0, <1>2 DEF New
<1>4. Roles'
    BY <1>0, <1>1, <1>2, <1>t, <1>l, Kinds DEF Only, Keeps, Roles, Busy
<1>5. New'
    BY <1>0, <1>1, <1>2, <1>t, <1>l, Kinds DEF Only, Keeps, New
<1>6. Old'
    BY <1>0, <1>1, <1>2, <1>t, <1>l, Kinds DEF Only, Keeps, Old
<1>7. Drains'
    BY <1>0, <1>1, <1>2, <1>t, <1>l, Kinds DEF Only, Keeps, Drains
<1>8. OneWalk'
    BY <1>0, <1>1, <1>2, <1>t, <1>l, Kinds DEF Only, Keeps, OneWalk, Busy
<1>9. Apart'
    BY <1>0, <1>1, <1>2, <1>t, <1>l, Kinds DEF Only, Keeps, Apart
<1>10. Doomed'
    BY <1>0, <1>1, <1>2, <1>t, <1>l, Kinds DEF Only, Keeps, Doomed, Reached
<1>11. AfterWalk'
    BY <1>0, <1>1, <1>2, <1>t, <1>l, Kinds DEF Only, Keeps, AfterWalk, Gone
<1>12. OpenIsListed'
    BY <1>0, <1>1, <1>2, <1>t, <1>l, Kinds
       DEF Only, Keeps, OpenIsListed, InHand, Listed, Closer
<1> QED BY <1>3, <1>4, <1>5, <1>6, <1>7, <1>8, <1>9, <1>10, <1>11, <1>12 DEF ManagerInv

\* Await keeps the invariant.
LEMMA AwaitKeeps ==
    ASSUME ManagerInv, NEW k \in Shutter, Await(k)
    PROVE  ManagerInv'
<1>0. TypeOK /\ Roles /\ New /\ Old /\ Drains /\ OneWalk /\ Apart /\ Doomed /\ AfterWalk /\ OpenIsListed
    BY DEF ManagerInv
<1>1. k \in Actor /\ Only(k)
    BY <1>0 DEF Actor, Closer, Only, TypeOK, Await, AtDoor, At, Goto, Hold
<1>2. /\ pc[k] \in {"out", "returned"} /\ pc'[k] = "await" /\ Keeps(k)
      /\ closeOnce # "idle"
      /\ UNCHANGED <<sessions, life, closed, closeOnce, browser, driver, todo, seen, doomed>>
    BY <1>0, <1>1, ManagerAssumption
       DEF TypeOK, Await, AtDoor, At, Goto, Hold, machine, range, Closer, Keeps, New,
           Old, Apart
<1>3. TypeOK'
    BY <1>0, <1>1, ManagerAssumption
       DEF TypeOK, Await, AtDoor, At, Goto, Hold, machine, range, Closer, New, Old
<1>4. Roles'
    BY <1>0, <1>1, <1>2, Kinds DEF Only, Keeps, Roles, Busy
<1>5. New'
    BY <1>0, <1>1, <1>2, Kinds DEF Only, Keeps, New
<1>6. Old'
    BY <1>0, <1>1, <1>2, Kinds DEF Only, Keeps, Old
<1>7. Drains'
    BY <1>0, <1>1, <1>2, Kinds DEF Only, Keeps, Drains
<1>8. OneWalk'
    BY <1>0, <1>1, <1>2, Kinds DEF Only, Keeps, OneWalk, Busy
<1>9. Apart'
    BY <1>0, <1>1, <1>2, Kinds DEF Only, Keeps, Apart
<1>10. Doomed'
    BY <1>0, <1>1, <1>2, Kinds DEF Only, Keeps, Doomed, Reached
<1>11. AfterWalk'
    BY <1>0, <1>1, <1>2, Kinds DEF Only, Keeps, AfterWalk, Gone
<1>12. OpenIsListed'
    BY <1>0, <1>1, <1>2, Kinds DEF Only, Keeps, OpenIsListed, InHand, Listed, Closer
<1> QED BY <1>3, <1>4, <1>5, <1>6, <1>7, <1>8, <1>9, <1>10, <1>11, <1>12 DEF ManagerInv

\* Awaited keeps the invariant.
LEMMA AwaitedKeeps ==
    ASSUME ManagerInv, NEW k \in Shutter, Awaited(k)
    PROVE  ManagerInv'
<1>0. TypeOK /\ Roles /\ New /\ Old /\ Drains /\ OneWalk /\ Apart /\ Doomed /\ AfterWalk /\ OpenIsListed
    BY DEF ManagerInv
<1>1. k \in Actor /\ Only(k)
    BY <1>0 DEF Actor, Closer, Only, TypeOK, Awaited, At, Goto, Hold
<1>2. /\ pc[k] = "await" /\ pc'[k] = "returned" /\ Keeps(k)
      /\ UNCHANGED <<sessions, life, closed, closeOnce, browser, driver, todo, seen, doomed>>
    BY <1>0, <1>1, ManagerAssumption
       DEF TypeOK, Awaited, At, Goto, Hold, machine, range, Closer, Keeps, New, Old,
           Apart
<1>3. TypeOK'
    BY <1>0, <1>1, ManagerAssumption
       DEF TypeOK, Awaited, At, Goto, Hold, machine, range, Closer, New, Old
<1>4. Roles'
    BY <1>0, <1>1, <1>2, Kinds DEF Only, Keeps, Roles, Busy
<1>5. New'
    BY <1>0, <1>1, <1>2, Kinds DEF Only, Keeps, New
<1>6. Old'
    BY <1>0, <1>1, <1>2, Kinds DEF Only, Keeps, Old
<1>7. Drains'
    BY <1>0, <1>1, <1>2, Kinds DEF Only, Keeps, Drains
<1>8. OneWalk'
    BY <1>0, <1>1, <1>2, Kinds DEF Only, Keeps, OneWalk, Busy
<1>9. Apart'
    BY <1>0, <1>1, <1>2, Kinds DEF Only, Keeps, Apart
<1>10. Doomed'
    BY <1>0, <1>1, <1>2, Kinds DEF Only, Keeps, Doomed, Reached
<1>11. AfterWalk'
    BY <1>0, <1>1, <1>2, Kinds DEF Only, Keeps, AfterWalk, Gone
<1>12. OpenIsListed'
    BY <1>0, <1>1, <1>2, Kinds DEF Only, Keeps, OpenIsListed, InHand, Listed, Closer
<1> QED BY <1>3, <1>4, <1>5, <1>6, <1>7, <1>8, <1>9, <1>10, <1>11, <1>12 DEF ManagerInv

\* BeginShutdown keeps the invariant.
LEMMA BeginShutdownKeeps ==
    ASSUME ManagerInv, NEW k \in Shutter, BeginShutdown(k)
    PROVE  ManagerInv'
<1>0. TypeOK /\ Roles /\ New /\ Old /\ Drains /\ OneWalk /\ Apart /\ Doomed /\ AfterWalk /\ OpenIsListed
    BY DEF ManagerInv
<1>1. k \in Actor /\ Only(k)
    BY <1>0
       DEF Actor, Closer, Only, TypeOK, BeginShutdown, AtDoor, Registered, At, Goto,
           Hold
<1>2. /\ pc[k] \in {"out", "returned"} /\ pc'[k] = "range" /\ Keeps(k)
      /\ closeOnce = "idle" /\ closeOnce' = "running" /\ closed'
      /\ todo' = {n \in Name : sessions[n] # Nil}
      /\ doomed' = {sessions[n] : n \in todo'}
      /\ UNCHANGED <<sessions, life, browser, driver, seen>>
    BY <1>0, <1>1, ManagerAssumption
       DEF TypeOK, BeginShutdown, AtDoor, Registered, At, Goto, Hold, machine, range,
           Closer, Keeps, New, Old, Apart
<1>3. TypeOK'
    BY <1>0, <1>1, ManagerAssumption
       DEF TypeOK, BeginShutdown, AtDoor, Registered, At, Goto, Hold, machine, range,
           Closer, New, Old
<1>4. Roles'
    BY <1>0, <1>1, <1>2, Kinds DEF Only, Keeps, Roles, Busy
<1>5. New'
    BY <1>0, <1>1, <1>2, Kinds DEF Only, Keeps, New
<1>6. Old'
    BY <1>0, <1>1, <1>2, Kinds DEF Only, Keeps, Old
<1>7. Drains'
    BY <1>0, <1>1, <1>2, Kinds DEF Only, Keeps, Drains
<1>8. OneWalk'
    BY <1>0, <1>1, <1>2, Kinds DEF Only, Keeps, OneWalk, Busy
<1>9. Apart'
    BY <1>0, <1>1, <1>2, Kinds DEF Only, Keeps, Apart
<1>10. Doomed'
    BY <1>0, <1>1, <1>2, Kinds DEF Only, Keeps, Doomed, Reached, Old
<1>11. AfterWalk'
    BY <1>0, <1>1, <1>2, Kinds DEF Only, Keeps, AfterWalk, Gone, OneWalk, Busy
<1>12. OpenIsListed'
    BY <1>0, <1>1, <1>2, Kinds DEF Only, Keeps, OpenIsListed, InHand, Listed, Closer
<1> QED BY <1>3, <1>4, <1>5, <1>6, <1>7, <1>8, <1>9, <1>10, <1>11, <1>12 DEF ManagerInv

\* Visit keeps the invariant.
LEMMA VisitKeeps ==
    ASSUME ManagerInv, NEW k \in Shutter, NEW n \in Name, Visit(k, n)
    PROVE  ManagerInv'
<1>0. TypeOK /\ Roles /\ New /\ Old /\ Drains /\ OneWalk /\ Apart /\ Doomed /\ AfterWalk /\ OpenIsListed
    BY DEF ManagerInv
<1>1. k \in Actor /\ Only(k)
    BY <1>0 DEF Actor, Closer, Only, TypeOK, Visit, GetSession, At, Goto, Hold
<1>2. /\ pc[k] = "range" /\ pc'[k] = "close"
      /\ sessions[n] \in Sess /\ held'[k] = sessions[n] /\ key'[k] = n
      /\ n \notin seen /\ seen' = seen \cup {n} /\ todo' = todo \ {n}
      /\ UNCHANGED <<sessions, life, closed, closeOnce, browser, driver, doomed>>
    BY <1>0, <1>1, ManagerAssumption
       DEF TypeOK, Visit, GetSession, At, Goto, Hold, machine, range, Closer, Keeps,
           New, Old, Apart
<1>3. TypeOK'
    BY <1>0, <1>1, ManagerAssumption
       DEF TypeOK, Visit, GetSession, At, Goto, Hold, machine, range, Closer, New,
           Old
<1>4. Roles'
    BY <1>0, <1>1, <1>2, Kinds DEF Only, Keeps, Roles, Busy
<1>5. New'
    BY <1>0, <1>1, <1>2, Kinds DEF Only, Keeps, New
<1>6. Old'
    BY <1>0, <1>1, <1>2, Kinds DEF Only, Keeps, Old
<1>7. Drains'
    BY <1>0, <1>1, <1>2, Kinds DEF Only, Keeps, Drains
<1>8. OneWalk'
    BY <1>0, <1>1, <1>2, Kinds DEF Only, Keeps, OneWalk, Busy
<1>9. Apart'
    BY <1>0, <1>1, <1>2, Kinds DEF Only, Keeps, Apart, OneWalk, Busy
<1>10. Doomed'
    BY <1>0, <1>1, <1>2, Kinds DEF Only, Keeps, Doomed, Reached
<1>11. AfterWalk'
    BY <1>0, <1>1, <1>2, Kinds DEF Only, Keeps, AfterWalk, Gone
<1>12. OpenIsListed'
    BY <1>0, <1>1, <1>2, Kinds
       DEF Only, Keeps, OpenIsListed, InHand, Listed, Closer, OneWalk
<1> QED BY <1>3, <1>4, <1>5, <1>6, <1>7, <1>8, <1>9, <1>10, <1>11, <1>12 DEF ManagerInv

\* Forget keeps the invariant.
LEMMA ForgetKeeps ==
    ASSUME ManagerInv, NEW k \in Shutter, Forget(k)
    PROVE  ManagerInv'
<1>0. TypeOK /\ Roles /\ New /\ Old /\ Drains /\ OneWalk /\ Apart /\ Doomed /\ AfterWalk /\ OpenIsListed
    BY DEF ManagerInv
<1>1. k \in Actor /\ Only(k)
    BY <1>0 DEF Actor, Closer, Only, TypeOK, Forget, At, Goto, Hold
<1>2. /\ pc[k] = "forget" /\ pc'[k] = "range" /\ held'[k] = held[k]
      /\ key[k] \in seen
      /\ \A n \in Name \ {key[k]} : sessions'[n] = sessions[n]
      /\ \A n \in Name : sessions'[n] \in {sessions[n], Nil}
      /\ UNCHANGED <<life, closed, closeOnce, browser, driver, todo, seen, doomed>>
    BY <1>0, <1>1, ManagerAssumption
       DEF TypeOK, Forget, At, Goto, Hold, machine, range, Closer, Keeps, New, Old,
           Apart
<1>3. TypeOK'
    BY <1>0, <1>1, ManagerAssumption
       DEF TypeOK, Forget, At, Goto, Hold, machine, range, Closer, New, Old
<1>t. /\ \A n \in Name : sessions[n] # Nil => sessions[n] \in Sess
      /\ \A s \in doomed : s \in Sess
      /\ \A n \in todo : n \in Name
    BY <1>0 DEF TypeOK
<1>4. Roles'
    BY <1>0, <1>1, <1>2, <1>t, Kinds DEF Only, Keeps, Roles, Busy
<1>5. New'
    BY <1>0, <1>1, <1>2, <1>t, Kinds DEF Only, Keeps, New
<1>6. Old'
    BY <1>0, <1>1, <1>2, <1>t, Kinds DEF Only, Keeps, Old
<1>7. Drains'
    BY <1>0, <1>1, <1>2, <1>t, Kinds DEF Only, Keeps, Drains
<1>8. OneWalk'
    BY <1>0, <1>1, <1>2, <1>t, Kinds DEF Only, Keeps, OneWalk, Busy
<1>9. Apart'
    BY <1>0, <1>1, <1>2, <1>t, Kinds DEF Only, Keeps, Apart
<1>10. Doomed'
    BY <1>0, <1>1, <1>2, <1>t, Kinds DEF Only, Keeps, Doomed, Reached, Apart
<1>11. AfterWalk'
    BY <1>0, <1>1, <1>2, <1>t, Kinds DEF Only, Keeps, AfterWalk, Gone
<1>12. OpenIsListed'
    BY <1>0, <1>1, <1>2, <1>t, Kinds
       DEF Only, Keeps, OpenIsListed, InHand, Listed, Closer, OneWalk
<1> QED BY <1>3, <1>4, <1>5, <1>6, <1>7, <1>8, <1>9, <1>10, <1>11, <1>12 DEF ManagerInv

\* RangeEnds keeps the invariant.
LEMMA RangeEndsKeeps ==
    ASSUME ManagerInv, NEW k \in Shutter, RangeEnds(k)
    PROVE  ManagerInv'
<1>0. TypeOK /\ Roles /\ New /\ Old /\ Drains /\ OneWalk /\ Apart /\ Doomed /\ AfterWalk /\ OpenIsListed
    BY DEF ManagerInv
<1>1. k \in Actor /\ Only(k)
    BY <1>0 DEF Actor, Closer, Only, TypeOK, RangeEnds, At, Goto, Hold
<1>2. /\ pc[k] = "range" /\ pc'[k] = "detaching" /\ Keeps(k)
      /\ todo = {}
      /\ UNCHANGED <<sessions, life, closed, closeOnce, browser, driver, todo, seen, doomed>>
    BY <1>0, <1>1, ManagerAssumption
       DEF TypeOK, RangeEnds, At, Goto, Hold, machine, range, Closer, Keeps, New,
           Old, Apart
<1>3. TypeOK'
    BY <1>0, <1>1, ManagerAssumption
       DEF TypeOK, RangeEnds, At, Goto, Hold, machine, range, Closer, New, Old
<1>4. Roles'
    BY <1>0, <1>1, <1>2, Kinds DEF Only, Keeps, Roles, Busy
<1>5. New'
    BY <1>0, <1>1, <1>2, Kinds DEF Only, Keeps, New
<1>6. Old'
    BY <1>0, <1>1, <1>2, Kinds DEF Only, Keeps, Old
<1>7. Drains'
    BY <1>0, <1>1, <1>2, Kinds DEF Only, Keeps, Drains
<1>8. OneWalk'
    BY <1>0, <1>1, <1>2, Kinds DEF Only, Keeps, OneWalk, Busy
<1>9. Apart'
    BY <1>0, <1>1, <1>2, Kinds DEF Only, Keeps, Apart
<1>10. Doomed'
    BY <1>0, <1>1, <1>2, Kinds DEF Only, Keeps, Doomed, Reached
<1>11. AfterWalk'
    BY <1>0, <1>1, <1>2, Kinds
       DEF Only, Keeps, AfterWalk, Gone, Doomed, Reached, OneWalk, Busy
<1>12. OpenIsListed'
    BY <1>0, <1>1, <1>2, Kinds DEF Only, Keeps, OpenIsListed, InHand, Listed, Closer
<1> QED BY <1>3, <1>4, <1>5, <1>6, <1>7, <1>8, <1>9, <1>10, <1>11, <1>12 DEF ManagerInv

\* CloseBrowser keeps the invariant.
LEMMA CloseBrowserKeeps ==
    ASSUME ManagerInv, NEW k \in Shutter, CloseBrowser(k)
    PROVE  ManagerInv'
<1>0. TypeOK /\ Roles /\ New /\ Old /\ Drains /\ OneWalk /\ Apart /\ Doomed /\ AfterWalk /\ OpenIsListed
    BY DEF ManagerInv
<1>1. k \in Actor /\ Only(k)
    BY <1>0 DEF Actor, Closer, Only, TypeOK, CloseBrowser, At, Goto, Hold
<1>2. /\ pc[k] = "detaching" /\ pc'[k] = "stopping" /\ Keeps(k)
      /\ browser' = "closed"
      /\ UNCHANGED <<sessions, life, closed, closeOnce, driver, todo, seen, doomed>>
    BY <1>0, <1>1, ManagerAssumption
       DEF TypeOK, CloseBrowser, At, Goto, Hold, machine, range, Closer, Keeps, New,
           Old, Apart
<1>3. TypeOK'
    BY <1>0, <1>1, ManagerAssumption
       DEF TypeOK, CloseBrowser, At, Goto, Hold, machine, range, Closer, New, Old
<1>4. Roles'
    BY <1>0, <1>1, <1>2, Kinds DEF Only, Keeps, Roles, Busy
<1>5. New'
    BY <1>0, <1>1, <1>2, Kinds DEF Only, Keeps, New
<1>6. Old'
    BY <1>0, <1>1, <1>2, Kinds DEF Only, Keeps, Old
<1>7. Drains'
    BY <1>0, <1>1, <1>2, Kinds DEF Only, Keeps, Drains
<1>8. OneWalk'
    BY <1>0, <1>1, <1>2, Kinds DEF Only, Keeps, OneWalk, Busy
<1>9. Apart'
    BY <1>0, <1>1, <1>2, Kinds DEF Only, Keeps, Apart
<1>10. Doomed'
    BY <1>0, <1>1, <1>2, Kinds DEF Only, Keeps, Doomed, Reached
<1>11. AfterWalk'
    BY <1>0, <1>1, <1>2, Kinds DEF Only, Keeps, AfterWalk, Gone
<1>12. OpenIsListed'
    BY <1>0, <1>1, <1>2, Kinds DEF Only, Keeps, OpenIsListed, InHand, Listed, Closer
<1> QED BY <1>3, <1>4, <1>5, <1>6, <1>7, <1>8, <1>9, <1>10, <1>11, <1>12 DEF ManagerInv

\* StopDriver keeps the invariant.
LEMMA StopDriverKeeps ==
    ASSUME ManagerInv, NEW k \in Shutter, StopDriver(k)
    PROVE  ManagerInv'
<1>0. TypeOK /\ Roles /\ New /\ Old /\ Drains /\ OneWalk /\ Apart /\ Doomed /\ AfterWalk /\ OpenIsListed
    BY DEF ManagerInv
<1>1. k \in Actor /\ Only(k)
    BY <1>0 DEF Actor, Closer, Only, TypeOK, StopDriver, At, Goto, Hold
<1>2. /\ pc[k] = "stopping" /\ pc'[k] = "await" /\ Keeps(k)
      /\ closeOnce' = "done"
      /\ UNCHANGED <<sessions, life, closed, browser, todo, seen, doomed>>
    BY <1>0, <1>1, ManagerAssumption
       DEF TypeOK, StopDriver, At, Goto, Hold, machine, range, Closer, Keeps, New,
           Old, Apart
<1>3. TypeOK'
    BY <1>0, <1>1, ManagerAssumption
       DEF TypeOK, StopDriver, At, Goto, Hold, machine, range, Closer, New, Old
<1>4. Roles'
    BY <1>0, <1>1, <1>2, Kinds DEF Only, Keeps, Roles, Busy
<1>5. New'
    BY <1>0, <1>1, <1>2, Kinds DEF Only, Keeps, New
<1>6. Old'
    BY <1>0, <1>1, <1>2, Kinds DEF Only, Keeps, Old
<1>7. Drains'
    BY <1>0, <1>1, <1>2, Kinds DEF Only, Keeps, Drains
<1>8. OneWalk'
    BY <1>0, <1>1, <1>2, Kinds DEF Only, Keeps, OneWalk, Busy
<1>9. Apart'
    BY <1>0, <1>1, <1>2, Kinds DEF Only, Keeps, Apart
<1>10. Doomed'
    BY <1>0, <1>1, <1>2, Kinds DEF Only, Keeps, Doomed, Reached
<1>11. AfterWalk'
    BY <1>0, <1>1, <1>2, Kinds DEF Only, Keeps, AfterWalk, Gone
<1>12. OpenIsListed'
    BY <1>0, <1>1, <1>2, Kinds DEF Only, Keeps, OpenIsListed, InHand, Listed, Closer
<1> QED BY <1>3, <1>4, <1>5, <1>6, <1>7, <1>8, <1>9, <1>10, <1>11, <1>12 DEF ManagerInv

\* DoStep keeps the invariant.
LEMMA DoStepKeeps ==
    ASSUME ManagerInv, NEW d \in Doer, DoStep(d)
    PROVE  ManagerInv'
<1>0. TypeOK /\ Roles /\ New /\ Old /\ Drains /\ OneWalk /\ Apart /\ Doomed /\ AfterWalk /\ OpenIsListed
    BY DEF ManagerInv
<1>1. d \in Actor /\ Only(d)
    BY <1>0
       DEF Actor, Closer, Only, TypeOK, DoStep, Do, DoRuns, DoFails, DoEnds, DoMoves,
           At, Goto, Hold
<1>2. /\ pc'[d] \in {"out", "opening", "operate"} /\ Keeps(d)
      /\ UNCHANGED <<sessions, life, closed, closeOnce, browser, driver, todo, seen, doomed>>
    BY <1>0, <1>1, ManagerAssumption
       DEF TypeOK, DoStep, Do, DoRuns, DoFails, DoEnds, DoMoves, At, Goto, Hold,
           machine, range, Closer, Keeps, New, Old, Apart
<1>3. TypeOK'
    BY <1>0, <1>1, ManagerAssumption
       DEF TypeOK, DoStep, Do, DoRuns, DoFails, DoEnds, DoMoves, At, Goto, Hold,
           machine, range, Closer, New, Old
<1>4. Roles'
    BY <1>0, <1>1, <1>2, Kinds DEF Only, Keeps, Roles, Busy
<1>5. New'
    BY <1>0, <1>1, <1>2, Kinds DEF Only, Keeps, New
<1>6. Old'
    BY <1>0, <1>1, <1>2, Kinds DEF Only, Keeps, Old
<1>7. Drains'
    BY <1>0, <1>1, <1>2, Kinds DEF Only, Keeps, Drains
<1>8. OneWalk'
    BY <1>0, <1>1, <1>2, Kinds DEF Only, Keeps, OneWalk, Busy
<1>9. Apart'
    BY <1>0, <1>1, <1>2, Kinds DEF Only, Keeps, Apart
<1>10. Doomed'
    BY <1>0, <1>1, <1>2, Kinds DEF Only, Keeps, Doomed, Reached
<1>11. AfterWalk'
    BY <1>0, <1>1, <1>2, Kinds DEF Only, Keeps, AfterWalk, Gone
<1>12. OpenIsListed'
    BY <1>0, <1>1, <1>2, Kinds DEF Only, Keeps, OpenIsListed, InHand, Listed, Closer
<1> QED BY <1>3, <1>4, <1>5, <1>6, <1>7, <1>8, <1>9, <1>10, <1>11, <1>12 DEF ManagerInv

-----------------------------------------------------------------------------
\* Nothing is registered, nobody is at work.
LEMMA InitManager == Init => ManagerInv
<1> SUFFICES ASSUME Init PROVE ManagerInv
    OBVIOUS
<1> USE DEF Init
<1>1. TypeOK
    BY DEF TypeOK
<1>2. \A a \in Actor : pc[a] = "out"
    OBVIOUS
<1>3. Roles
    BY <1>2, Kinds DEF Roles
<1>4. New /\ Old
    BY <1>2, Kinds DEF New, Old
<1>5. Drains /\ OpenIsListed
    BY DEF Drains, OpenIsListed
<1>6. OneWalk /\ Apart
    BY <1>2, Kinds DEF OneWalk, Apart, Busy
<1>7. Doomed /\ AfterWalk
    BY DEF Doomed, AfterWalk
<1> QED BY <1>1, <1>3, <1>4, <1>5, <1>6, <1>7 DEF ManagerInv

\* Every action keeps the invariant.
LEMMA NextManager == ManagerInv /\ [Next]_vars => ManagerInv'
<1> SUFFICES ASSUME ManagerInv, [Next]_vars PROVE ManagerInv'
    OBVIOUS
<1>1. ASSUME NEW c \in Creator, CreateStep(c) PROVE ManagerInv'
    BY <1>1, CreateKeeps, RegisterKeeps, FindsDuplicateKeeps DEF CreateStep
<1>2. ASSUME NEW a \in Closer, Closing(a) PROVE ManagerInv'
    BY <1>2, BeginCloseKeeps, FindsClosingKeeps, EndCloseKeeps DEF Closing
<1>3. ASSUME NEW r \in Remover, RemoveStep(r) PROVE ManagerInv'
    <2>1. r \in Closer
        BY Kinds
    <2> QED BY <1>2, <1>3, <2>1, LoadAndDeleteKeeps, KeepsAndClosesKeeps DEF RemoveStep
<1>4. ASSUME NEW k \in Shutter, Await(k) \/ BeginShutdown(k) \/ ShutdownStep(k)
      PROVE  ManagerInv'
    <2>1. k \in Closer
        BY Kinds
    <2> QED BY <1>2, <1>4, <2>1, AwaitKeeps, AwaitedKeeps, BeginShutdownKeeps,
               VisitKeeps, ForgetKeeps, RangeEndsKeeps, CloseBrowserKeeps,
               StopDriverKeeps
            DEF ShutdownStep
<1>5. ASSUME NEW d \in Doer, DoStep(d) PROVE ManagerInv'
    BY <1>5, DoStepKeeps
<1>6. CASE UNCHANGED vars
    BY <1>6 DEF ManagerInv, vars, machine, range, TypeOK, Roles, New, Old, Drains,
                OneWalk, Apart, Doomed, Reached, AfterWalk, Gone, OpenIsListed,
                InHand, Listed, At
<1> QED BY <1>1, <1>3, <1>4, <1>5, <1>6 DEF Next

\* The invariant holds all the time.
LEMMA ManagerInvariant == Spec => []ManagerInv
BY InitManager, NextManager, PTL DEF Spec

\* A session of a manager that is not being closed can be found by its name,
\* or somebody is closing it: two creations of one name, a removal and a walk
\* never make one disappear.
THEOREM OpenSessionsListed == Spec => []OpenIsListed
<1>1. ManagerInv => OpenIsListed
    BY DEF ManagerInv
<1> QED BY ManagerInvariant, <1>1, PTL

\* When the browser is closed, every session that was registered when Close
\* began is closed, or a goroutine that closes sessions has it in hand.
THEOREM SessionsFirst == Spec => []SessionsBeforeBrowser
<1>1. ManagerInv => SessionsBeforeBrowser
    BY DEF ManagerInv, AfterWalk, Gone, SessionsBeforeBrowser
<1> QED BY ManagerInvariant, <1>1, PTL

-----------------------------------------------------------------------------
(* Close is what sync.Once promises.                                       *)

Places == [k \in Shutter |-> Place(k)]

\* A step that moves no call of Close over the threshold of the Once leaves
\* the Once alone.
LEMMA Elsewhere ==
    ASSUME UNCHANGED closeOnce, \A k \in Shutter : Place(k)' = Place(k)
    PROVE  UNCHANGED CloseOnce!vars
<1>1. Places' = Places
    BY DEF Places
<1> QED BY <1>1 DEF CloseOnce!vars, Places

\* Who works on a session that is being closed is inside before and after.
LEMMA ClosingElsewhere ==
    ASSUME ManagerInv, NEW a \in Closer, Closing(a)
    PROVE  UNCHANGED CloseOnce!vars
<1>0. TypeOK
    BY DEF ManagerInv
<1>1. a \in Actor /\ UNCHANGED closeOnce
    BY Kinds DEF Closing, BeginClose, FindsClosing, EndClose, machine
<1>2. /\ pc[a] \in {"close", "drain"} /\ pc'[a] \in {"drain", "forget", "out"}
      /\ a \in Shutter => pc'[a] # "out"
      /\ \A b \in Actor \ {a} : pc'[b] = pc[b]
    BY <1>0, <1>1
       DEF Closing, BeginClose, FindsClosing, EndClose, AfterClose, At, Goto, TypeOK
<1>3. \A k \in Shutter : Place(k)' = Place(k)
    BY <1>2, Kinds DEF Place, At
<1> QED BY <1>1, <1>3, Elsewhere

\* Every step of the manager is a step of the Once, or none of its business.
LEMMA OnceStep ==
    ASSUME ManagerInv, [Next]_vars
    PROVE  [CloseOnce!Next]_(CloseOnce!vars)
<1>0. TypeOK /\ Roles /\ OneWalk
    BY DEF ManagerInv
<1> USE DEF Places
<1>1. ASSUME NEW c \in Creator, CreateStep(c) PROVE UNCHANGED CloseOnce!vars
    <2>1. UNCHANGED closeOnce /\ \A k \in Shutter : pc'[k] = pc[k]
        BY <1>0, <1>1, Kinds
           DEF CreateStep, Create, Register, FindsDuplicate, machine, Goto, TypeOK
    <2> QED BY <2>1, Elsewhere DEF Place, At
<1>2. ASSUME NEW r \in Remover, RemoveStep(r) PROVE UNCHANGED CloseOnce!vars
    <2>1. CASE Closing(r)
        BY <2>1, Kinds, ClosingElsewhere
    <2>2. ASSUME NEW n \in Name, LoadAndDelete(r, n) \/ KeepsAndCloses(r, n)
          PROVE  UNCHANGED CloseOnce!vars
        <3>1. UNCHANGED closeOnce /\ \A k \in Shutter : pc'[k] = pc[k]
            BY <1>0, <2>2, Kinds DEF LoadAndDelete, KeepsAndCloses, machine, Goto, TypeOK
        <3> QED BY <3>1, Elsewhere DEF Place, At
    <2> QED BY <1>2, <2>1, <2>2 DEF RemoveStep
<1>3. ASSUME NEW d \in Doer, DoStep(d) PROVE UNCHANGED CloseOnce!vars
    <2>1. UNCHANGED closeOnce /\ \A k \in Shutter : pc'[k] = pc[k]
        BY <1>0, <1>3, Kinds
           DEF DoStep, Do, DoRuns, DoFails, DoEnds, DoMoves, machine, Goto, TypeOK
    <2> QED BY <2>1, Elsewhere DEF Place, At
<1>4. ASSUME NEW k \in Shutter, Await(k) PROVE CloseOnce!Enter(k)
    <2>1. /\ closeOnce # "idle" /\ UNCHANGED closeOnce
          /\ Place(k) \in {"out", "back"}
          /\ Places' = [Places EXCEPT ![k] = "in"]
        BY <1>0, <1>4, Kinds DEF Await, AtDoor, machine, Goto, At, Place, TypeOK
    <2> QED BY <2>1 DEF CloseOnce!Enter
<1>5. ASSUME NEW k \in Shutter, BeginShutdown(k) PROVE CloseOnce!Start(k)
    <2>1. /\ closeOnce = "idle" /\ closeOnce' = "running"
          /\ Place(k) \in {"out", "back"}
          /\ Places' = [Places EXCEPT ![k] = "in"]
        BY <1>0, <1>5, Kinds DEF BeginShutdown, AtDoor, Goto, At, Place, TypeOK
    <2> QED BY <2>1 DEF CloseOnce!Start
<1>6. ASSUME NEW k \in Shutter, Awaited(k) PROVE CloseOnce!Leave(k)
    <2>1. /\ closeOnce = "done" /\ UNCHANGED closeOnce
          /\ Place(k) = "in"
          /\ Places' = [Places EXCEPT ![k] = "back"]
        BY <1>0, <1>6, Kinds DEF Awaited, machine, Goto, At, Place, TypeOK
    <2> QED BY <2>1 DEF CloseOnce!Leave
<1>7. ASSUME NEW k \in Shutter, StopDriver(k) PROVE CloseOnce!End
    <2>1. closeOnce = "running" /\ closeOnce' = "done"
        BY <1>0, <1>7 DEF StopDriver, OneWalk, Busy, At
    <2>2. Places' = Places
        BY <1>0, <1>7, Kinds DEF StopDriver, Goto, At, Place, TypeOK
    <2> QED BY <2>1, <2>2 DEF CloseOnce!End
<1>8. ASSUME NEW k \in Shutter,
             \/ Forget(k) \/ RangeEnds(k) \/ CloseBrowser(k)
             \/ \E n \in Name : Visit(k, n)
      PROVE  UNCHANGED CloseOnce!vars
    <2>1. UNCHANGED closeOnce
        BY <1>8 DEF Forget, RangeEnds, CloseBrowser, Visit, machine
    <2>2. /\ pc[k] \in {"forget", "range", "detaching"}
          /\ pc'[k] \in {"range", "detaching", "stopping", "close"}
          /\ \A b \in Shutter \ {k} : pc'[b] = pc[b]
        BY <1>0, <1>8, Kinds DEF Forget, RangeEnds, CloseBrowser, Visit, Goto, At, TypeOK
    <2>3. \A j \in Shutter : Place(j)' = Place(j)
        BY <2>2 DEF Place, At
    <2> QED BY <2>1, <2>3, Elsewhere
<1>9. ASSUME UNCHANGED vars PROVE UNCHANGED CloseOnce!vars
    BY <1>9, Elsewhere DEF vars, machine, Place, At
<1>10. ASSUME NEW k \in Shutter, ShutdownStep(k)
       PROVE  CloseOnce!Leave(k) \/ CloseOnce!End \/ UNCHANGED CloseOnce!vars
    BY <1>6, <1>7, <1>8, <1>10, Kinds, ClosingElsewhere DEF ShutdownStep
<1> QED BY <1>1, <1>2, <1>3, <1>4, <1>5, <1>9, <1>10 DEF Next, CloseOnce!Next

\* Close of the manager implements sync.Once: it runs once, whoever calls it
\* when, and nobody is back before it has ended.
THEOREM CloseIsOnce == Spec => CloseRunsOnce
<1>1. Init => CloseOnce!Init
    <2> SUFFICES ASSUME Init PROVE CloseOnce!Init
        OBVIOUS
    <2>1. \A k \in Shutter : Place(k) = "out"
        BY Kinds DEF Init, Place, At
    <2>2. Places = [k \in Shutter |-> "out"]
        BY <2>1 DEF Places
    <2> QED BY <2>2 DEF Init, CloseOnce!Init, Places
<1> QED BY <1>1, ManagerInvariant, OnceStep, PTL DEF Spec, CloseRunsOnce, CloseOnce!Spec
=============================================================================
