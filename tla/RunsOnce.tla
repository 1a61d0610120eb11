------------------------------ MODULE RunsOnce ------------------------------
(***************************************************************************)
(* What sync.Once promises whoever uses it: a body runs once, for the      *)
(* first of its callers, and no caller is back before it has ended.        *)
(* Manager (Close), Launch (Install) and Global (Global) implement it.     *)
(***************************************************************************)
CONSTANT Caller

VARIABLES
    body,   \* of the Once: not begun, under way, ended
    where   \* where each caller is

vars == <<body, where>>

Init == body = "idle" /\ where = [c \in Caller |-> "out"]

\* A caller comes; the first finds nothing done and starts.
Enter(c) ==
    /\ where[c] \in {"out", "back"}
    /\ body # "idle"
    /\ where' = [where EXCEPT ![c] = "in"]
    /\ UNCHANGED body

Start(c) ==
    /\ where[c] \in {"out", "back"}
    /\ body = "idle"
    /\ body' = "running"
    /\ where' = [where EXCEPT ![c] = "in"]

End == body = "running" /\ body' = "done" /\ UNCHANGED where

Leave(c) ==
    /\ where[c] = "in"
    /\ body = "done"
    /\ where' = [where EXCEPT ![c] = "back"]
    /\ UNCHANGED body

Next == End \/ \E c \in Caller : Enter(c) \/ Start(c) \/ Leave(c)

Spec == Init /\ [][Next]_vars
=============================================================================
