---------------------------- MODULE ProcessInfo -----------------------------
(***************************************************************************)
(* GetProcessInfos (process.go): the list of Chromium's processes comes    *)
(* from the browser, over CDP, in one answer, and the memory of each from  *)
(* the operating system (utils.go), one after the other, while processes   *)
(* end and their ids are given to others.  Sizes are small numbers; CPU    *)
(* time, type and VMS are read like the rest and left out.                 *)
(***************************************************************************)
EXTENDS Integers, Sequences, SequencesExt

CONSTANTS
    Pid,
    Junk,       \* an entry of the answer without an id, or not an object
    MaxEntries  \* of an answer: a bound

\* What an instance has to assume.
ProcessInfoAssumption == Junk \notin Pid /\ MaxEntries \in Nat

VARIABLES
    runs,       \* what runs under an id: "chromium", "other" or "nothing"
    call,       \* where GetProcessInfos is
    entries,    \* what is left of rawList
    answer,     \* history: all of it
    memory,     \* getProcessMemory of the next entry, step by step
    infos       \* the result, in order

vars == <<runs, call, entries, answer, memory, infos>>

RSS == 2        \* of every process that can be read
PSS == 1

Chromium == {p \in Pid : runs[p] = "chromium"}
Unread == [rss |-> 0, exclusive |-> 0, of |-> "nothing", refused |-> FALSE]
Refused == [Unread EXCEPT !.refused = TRUE]

Init ==
    /\ runs \in [Pid -> {"chromium", "other", "nothing"}]
    /\ call = "send"
    /\ entries = <<>> /\ answer = <<>>
    /\ memory = Unread /\ infos = <<>>

\* No CDP session, an error of Send, or an answer that is not a list.
Fails ==
    /\ call = "send"
    /\ call' = "failed"
    /\ UNCHANGED <<runs, entries, answer, memory, infos>>

\* The processes at this moment, and entries that make no sense.
Answers ==
    /\ call = "send"
    /\ \E list \in SeqOf(Chromium \cup {Junk}, MaxEntries) :
          /\ \A i, j \in 1 .. Len(list) : list[i] = list[j] => i = j \/ list[i] = Junk
          /\ Chromium \subseteq ToSet(list)
          /\ entries' = list /\ answer' = list
    /\ call' = "parse"
    /\ UNCHANGED <<runs, memory, infos>>

Skips ==
    /\ call = "parse" /\ entries # <<>> /\ Head(entries) = Junk
    /\ entries' = Tail(entries)
    /\ UNCHANGED <<runs, call, answer, memory, infos>>

Parses ==
    /\ call = "parse" /\ entries # <<>> /\ Head(entries) # Junk
    /\ call' = "memory" /\ memory' = Unread
    /\ UNCHANGED <<runs, entries, answer, infos>>

Current == Head(entries)

\* NewProcess and MemoryInfo.  When there is no such process, or it may not be
\* read, all numbers are zero; only MemoryInfo may fail, too.
ReadsBasic ==
    /\ call = "memory"
    /\ \/ /\ runs[Current] # "nothing"
          /\ memory' = [rss |-> RSS, exclusive |-> RSS, of |-> runs[Current], refused |-> FALSE]
          /\ call' = "maps"
       \/ memory' = Refused /\ call' \in {"maps", "append"}
    /\ UNCHANGED <<runs, entries, answer, infos>>

\* smaps_rollup, on Linux: only a positive PSS replaces the RSS.
ReadsMaps ==
    /\ call = "maps"
    /\ \/ runs[Current] # "nothing" /\ memory' = [memory EXCEPT !.exclusive = PSS]
       \/ UNCHANGED memory
    /\ call' = "append"
    /\ UNCHANGED <<runs, entries, answer, infos>>

\* Mutant of Appends: an entry whose memory cannot be read is dropped.
Appends_IfRead ==
    /\ call = "append"
    /\ infos' = (IF memory.rss > 0 THEN Append(infos, [id |-> Current, memory |-> memory])
                 ELSE infos)
    /\ entries' = Tail(entries) /\ call' = "parse"
    /\ UNCHANGED <<runs, answer, memory>>

Appends ==
    /\ call = "append"
    /\ infos' = Append(infos, [id |-> Current, memory |-> memory])
    /\ entries' = Tail(entries) /\ call' = "parse"
    /\ UNCHANGED <<runs, answer, memory>>

Returns ==
    /\ call = "parse" /\ entries = <<>>
    /\ call' = "returned"
    /\ UNCHANGED <<runs, entries, answer, memory, infos>>

\* Chromium starts and ends processes, and so do others.
Changes(p) ==
    /\ call \notin {"failed", "returned"}
    /\ \E other \in {"chromium", "other"} :
          runs' = [runs EXCEPT ![p] = IF @ = "nothing" THEN other ELSE "nothing"]
    /\ UNCHANGED <<call, entries, answer, memory, infos>>

Next ==
    \/ Fails \/ Answers \/ Skips \/ Parses \/ ReadsBasic \/ ReadsMaps \/ Appends
    \/ Returns
    \/ \E p \in Pid : Changes(p)

Spec == Init /\ [][Next]_vars

-----------------------------------------------------------------------------
(* Properties.                                                             *)

\* Junk in the answer and processes that end meanwhile cost no other process
\* its place: the result has every process of the answer, and nothing else, in
\* its order.
EveryProcessListed ==
    call = "returned" =>
        /\ {infos[i].id : i \in 1 .. Len(infos)} = ToSet(answer) \ {Junk}
        /\ \A i, j \in 1 .. Len(infos), k, l \in 1 .. Len(answer) :
              infos[i].id = answer[k] /\ infos[j].id = answer[l] => (i < j <=> k < l)

-----------------------------------------------------------------------------
(* What the comments of the code say and the code does not do.             *)

\* process.go: "retrieves resource usage (CPU, RSS, VMS, PSS) for all Chromium
\* sub-processes".
OnlyChromium == \A i \in 1 .. Len(infos) : infos[i].memory.of # "other"
=============================================================================
