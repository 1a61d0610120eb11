------------------------------ MODULE MCParts -------------------------------
(***************************************************************************)
(* TLC instance of seven parts that share no variable with each other: the *)
(* configuration (whose module this one extends), the scheduler, the       *)
(* errors of a call, the time a call waits, the loggers, GetProcessInfos   *)
(* and the test harness.  A behaviour is a behaviour of one of them, and   *)
(* the others are parked: what holds of each of them alone holds of them   *)
(* side by side.                                                           *)
(***************************************************************************)
EXTENDS Config

CONSTANTS
    Page, Caller, NoPage, Modulus,                      \* Scheduler
    MaxRetries,                                         \* Errors, CallTime
    OperationTimeout, Deadline, Never,                  \* CallTime
    Adapter, NoAdapter,                                 \* Logger
    Pid, Junk, MaxEntries,                              \* ProcessInfo
    Tested, Function                                    \* Harness

VARIABLES
    part,                                                     \* which one
    slice, idle, counter, pages, pc, picked, turns,           \* Scheduler
    call, at, err, origin, cause, attempt,                    \* Errors
    waitsAt, tries, now, ctx, cancelled, deadline,            \* CallTime
    core, level, source, changed, last,                       \* Logger
    runs, asked, entries, answer, memory, infos,              \* ProcessInfo
    test, registered, manager, session, cleanup, next, passes, dropped

S == INSTANCE Scheduler
E == INSTANCE Errors
T == INSTANCE CallTime WITH at <- waitsAt, attempt <- tries
L == INSTANCE Logger
P == INSTANCE ProcessInfo WITH call <- asked
H == INSTANCE Harness WITH Session <- Tested

ASSUME PartsAssumption ==
    /\ S!SchedulerAssumption /\ E!ErrorsAssumption /\ T!CallTimeAssumption
    /\ L!LoggerAssumption /\ P!ProcessInfoAssumption /\ H!HarnessAssumption

-----------------------------------------------------------------------------
\* Values for options, at the limits that Validate draws and beyond them.
Given == {-1, 0, 11, 1800}

Off == "parked"

ConfigOff ==
    /\ config = Off /\ stage = Off /\ left = Off
    /\ draft = <<>> /\ created = {}
SchedulerOff ==
    /\ slice = Off /\ idle = {} /\ counter = Off /\ pages = Off
    /\ pc = Off /\ picked = Off /\ turns = Off
ErrorsOff ==
    /\ call = Off /\ at = Off /\ err = Off /\ origin = Off
    /\ cause = Off /\ attempt = Off
CallTimeOff ==
    /\ waitsAt = Off /\ tries = Off /\ now = Off /\ ctx = Off
    /\ cancelled = Off /\ deadline = Off
LoggerOff ==
    core = Off /\ level = Off /\ source = Off /\ changed = Off /\ last = Off
ProcessInfoOff ==
    /\ runs = Off /\ asked = Off /\ entries = Off /\ answer = Off
    /\ memory = Off /\ infos = Off
HarnessOff ==
    /\ test = Off /\ registered = Off /\ manager = Off /\ session = Off
    /\ cleanup = Off /\ next = Off /\ passes = Off /\ dropped = Off

PartsInit ==
    /\ part \in {"config", "scheduler", "errors", "time", "logger", "process",
                 "harness"}
    /\ IF part = "config" THEN Init ELSE ConfigOff
    /\ IF part = "scheduler" THEN S!Init ELSE SchedulerOff
    /\ IF part = "errors" THEN E!Init ELSE ErrorsOff
    /\ IF part = "time" THEN T!Init ELSE CallTimeOff
    /\ IF part = "logger" THEN L!Init ELSE LoggerOff
    /\ IF part = "process" THEN P!Init ELSE ProcessInfoOff
    /\ IF part = "harness" THEN H!Init ELSE HarnessOff

configVars == <<config, stage, left, draft, created>>
schedulerVars == <<slice, idle, counter, pages, pc, picked, turns>>
errorsVars == <<call, at, err, origin, cause, attempt>>
timeVars == <<waitsAt, tries, now, ctx, cancelled, deadline>>
loggerVars == <<core, level, source, changed, last>>
processVars == <<runs, asked, entries, answer, memory, infos>>
harnessVars ==
    <<test, registered, manager, session, cleanup, next, passes, dropped>>

Others(p) ==
    /\ UNCHANGED part
    /\ p # "config" => UNCHANGED configVars
    /\ p # "scheduler" => UNCHANGED schedulerVars
    /\ p # "errors" => UNCHANGED errorsVars
    /\ p # "time" => UNCHANGED timeVars
    /\ p # "logger" => UNCHANGED loggerVars
    /\ p # "process" => UNCHANGED processVars
    /\ p # "harness" => UNCHANGED harnessVars

PartsNext ==
    \/ part = "config" /\ Next /\ Others("config")
    \/ part = "scheduler" /\ S!Next /\ Others("scheduler")
    \/ part = "errors" /\ E!Next /\ Others("errors")
    \/ part = "time" /\ T!Next /\ Others("time")
    \/ part = "logger" /\ L!Next /\ Others("logger")
    \/ part = "process" /\ P!Next /\ Others("process")
    \/ part = "harness" /\ H!Next /\ Others("harness")

system == <<part, configVars, schedulerVars, errorsVars, timeVars, loggerVars,
            processVars, harnessVars>>

\* The callers of the scheduler are scheduled.
PartsSpec ==
    /\ PartsInit /\ [][PartsNext]_system
    /\ \A c \in Caller :
          WF_system(/\ part = "scheduler"
                    /\ S!Filter(c) \/ S!SelectNone(c) \/ S!Select(c)
                    /\ Others("scheduler"))

-----------------------------------------------------------------------------
(* The properties of the parts; PoolsCanServe is Config's.                 *)

\* Scheduler: between two disturbances no page gets two picks more than
\* another that is available as well.
Even == part = "scheduler" => S!Even

\* Scheduler: once the pages no longer change, each that is available is
\* picked again and again.
EveryPageServed == part = "scheduler" => S!EveryPageServed

\* Errors: the cause of a failed call is found by errors.Is through all that
\* has wrapped it.
CauseIsReported == part = "errors" => E!CauseIsReported

\* Errors: a connection that is lost while a page is made leads to a rebuild,
\* whatever code its error was given.
LossLeadsToRebuild == E!LossLeadsToRebuild

\* CallTime: without a deadline a call waits for pages no longer than
\* OperationTimeout in each of its attempts.
WaitIsBounded == part = "time" => T!WaitIsBounded

\* CallTime: with a deadline no attempt starts the time anew.
DeadlineIsShared == part = "time" => T!DeadlineIsShared

\* Logger: a session logs what its manager logs until the level of one of the
\* two is set.
DerivedLogsAlike == part = "logger" => L!DerivedLogsAlike

\* ProcessInfo: junk in the answer and processes that end cost no other its
\* place in the list.
EveryProcessListed == part = "process" => P!EveryProcessListed

\* Harness: a cleanup finds the sessions that were created before it was added
\* as the test has left them.
CleanupFindsItsSessions == part = "harness" => H!CleanupFindsItsSessions
=============================================================================
