--------------------------- MODULE PageLifecycle ---------------------------
(***************************************************************************)
(* What the page pool promises about each page, whatever its goroutines    *)
(* do and in whatever order (pool.go: pageState, Acquire, Release,         *)
(* removePageLocked, Close):                                               *)
(*                                                                         *)
(*   - a page is offered at most once, can then be withdrawn and is in the *)
(*     end retired; no step takes it back towards its callers;             *)
(*   - only an offered page takes a new caller, and a caller has at most   *)
(*     one page;                                                           *)
(*   - a caller that has a page keeps it until it leaves by itself, even   *)
(*     when the page is withdrawn or retired under it.                     *)
(***************************************************************************)
CONSTANTS Page, Client

VARIABLES status,   \* where each page is in its life
          users     \* the callers that have been given each page

vars == <<status, users>>

Status == {"unborn", "offered", "withdrawn", "retired"}

Idle(c) == \A p \in Page : c \notin users[p]

Init ==
    /\ status = [p \in Page |-> "unborn"]
    /\ users = [p \in Page |-> {}]

Offer(p) ==
    /\ status[p] = "unborn"
    /\ status' = [status EXCEPT ![p] = "offered"]
    /\ UNCHANGED users

\* A page created on demand is offered with its first caller on it.
OfferTo(c, p) ==
    /\ status[p] = "unborn"
    /\ Idle(c)
    /\ status' = [status EXCEPT ![p] = "offered"]
    /\ users' = [users EXCEPT ![p] = @ \cup {c}]

Use(c, p) ==
    /\ status[p] = "offered"
    /\ Idle(c)
    /\ users' = [users EXCEPT ![p] = @ \cup {c}]
    /\ UNCHANGED status

Leave(c, p) ==
    /\ c \in users[p]
    /\ users' = [users EXCEPT ![p] = @ \ {c}]
    /\ UNCHANGED status

Withdraw(p) ==
    /\ status[p] = "offered"
    /\ status' = [status EXCEPT ![p] = "withdrawn"]
    /\ UNCHANGED users

\* One page at a time, or all the pages that are left when the pool closes.
Retire(S) ==
    /\ \A p \in S : status[p] \in {"offered", "withdrawn"}
    /\ status' = [p \in Page |-> IF p \in S THEN "retired" ELSE status[p]]
    /\ UNCHANGED users

Next ==
    \/ \E p \in Page : Offer(p) \/ Withdraw(p)
    \/ \E c \in Client, p \in Page : OfferTo(c, p) \/ Use(c, p) \/ Leave(c, p)
    \/ \E S \in SUBSET Page : Retire(S)

Spec == Init /\ [][Next]_vars
=============================================================================
