------------------------------- MODULE Launch -------------------------------
(***************************************************************************)
(* New and the Installer (manager.go init, installer.go): the installation *)
(* of driver and browser, the start of the driver, the launch of the       *)
(* browser, each of which may fail, for goroutines that start managers and *)
(* for goroutines that call Install of an Installer they share.            *)
(***************************************************************************)

CONSTANTS
    Starter,    \* goroutines that call New: an Installer each
    Sharer,     \* goroutines that call Install of the same Installer;
                \* EnsureInstalled is one that shares it with nobody
    Shared      \* that Installer

Caller == Starter \cup Sharer

\* The other installers are called like the goroutine that makes them.
Installer == Starter \cup {Shared}
InstallerOf(c) == IF c \in Sharer THEN Shared ELSE c

\* The goroutines are of one kind each.
LaunchAssumption ==
    /\ Shared \notin Starter
    /\ Sharer \cap Starter = {}

VARIABLES
    once,        \* of each Installer
    installed,   \* i.installed
    installErr,  \* i.installErr # nil
    answers,     \* history: what Install of each Installer has returned
    disk,        \* the driver and the browser are in defaultInstallPath
    pc,          \* where each goroutine is
    driver,      \* the playwright driver process of each New
    browser      \* and its browser

installers == <<once, installed, installErr, answers>>
vars == <<installers, disk, pc, driver, browser>>

At(c, label) == pc[c] = label
Goto(c, label) == pc' = [pc EXCEPT ![c] = label]
Moves(c, from, to) ==
    /\ At(c, from)
    /\ Goto(c, to)
    /\ UNCHANGED <<installers, disk, driver, browser>>

Init ==
    /\ once = [i \in Installer |-> "idle"]
    /\ installed = [i \in Installer |-> FALSE]
    /\ installErr = [i \in Installer |-> FALSE]
    /\ answers = [i \in Installer |-> {}]
    /\ disk \in BOOLEAN
    /\ pc = [c \in Caller |-> "out"]
    /\ driver = [c \in Starter |-> "none"]
    /\ browser = [c \in Starter |-> "none"]

-----------------------------------------------------------------------------
(* Install.                                                                *)

\* Install.Auto is off.
SkipInstall(c) == c \in Starter /\ Moves(c, "out", "start driver")

\* The first caller runs the body of the Once, without a look at the disk.
BeginInstall(c) ==
    /\ pc[c] \in {"out", "returned"}
    /\ once[InstallerOf(c)] = "idle"
    /\ once' = [once EXCEPT ![InstallerOf(c)] = "running"]
    /\ Goto(c, "create driver")
    /\ UNCHANGED <<installed, installErr, answers, disk, driver, browser>>

Await(c) ==
    /\ pc[c] \in {"out", "returned"} /\ c \in Sharer
    /\ once[InstallerOf(c)] # "idle"
    /\ Goto(c, "await")
    /\ UNCHANGED <<installers, disk, driver, browser>>

CreatesDriver(c) == Moves(c, "create driver", "download")
DownloadsDriver(c) == Moves(c, "download", "install browser")

\* Mutant of InstallFails: only the caller that ran the body hears of it.
InstallFails_Forgets(c) ==
    /\ pc[c] \in {"create driver", "download", "install browser"}
    /\ once' = [once EXCEPT ![InstallerOf(c)] = "done"]
    /\ Goto(c, IF c \in Starter THEN "failed" ELSE "returned")
    /\ answers' = [answers EXCEPT ![InstallerOf(c)] = @ \cup {"error"}]
    /\ UNCHANGED <<installed, installErr, disk, driver, browser>>

\* NewDriver, DownloadDriver or the install command fails.
InstallFails(c) ==
    /\ pc[c] \in {"create driver", "download", "install browser"}
    /\ installErr' = [installErr EXCEPT ![InstallerOf(c)] = TRUE]
    /\ once' = [once EXCEPT ![InstallerOf(c)] = "done"]
    /\ Goto(c, "await")
    /\ UNCHANGED <<installed, answers, disk, driver, browser>>

InstallSucceeds(c) ==
    /\ At(c, "install browser")
    /\ disk' = TRUE
    /\ installed' = [installed EXCEPT ![InstallerOf(c)] = TRUE]
    /\ once' = [once EXCEPT ![InstallerOf(c)] = "done"]
    /\ Goto(c, "await")
    /\ UNCHANGED <<installErr, answers, driver, browser>>

\* Install returns i.installErr.
Answer(i) == IF installErr[i] THEN "error" ELSE "nil"

InstallReturns(c) ==
    /\ At(c, "await") /\ once[InstallerOf(c)] = "done"
    /\ answers' = [answers EXCEPT
          ![InstallerOf(c)] = @ \cup {Answer(InstallerOf(c))}]
    /\ Goto(c, IF c \notin Starter THEN "returned"
               ELSE IF Answer(c) = "error" THEN "failed" ELSE "start driver")
    /\ UNCHANGED <<once, installed, installErr, disk, driver, browser>>

IsInstalled(i) == installed[i]

-----------------------------------------------------------------------------
(* The rest of init.                                                       *)

\* playwright.Run; it fails without a driver on disk, and may fail with one.
StartDriver(c) ==
    /\ At(c, "start driver") /\ disk
    /\ driver' = [driver EXCEPT ![c] = "up"]
    /\ Goto(c, "launch")
    /\ UNCHANGED <<installers, disk, browser>>

StartFails(c) == Moves(c, "start driver", "failed")

Launches(c) ==
    /\ At(c, "launch")
    /\ browser' = [browser EXCEPT ![c] = "up"]
    /\ Goto(c, "cdp")
    /\ UNCHANGED <<installers, disk, driver>>

\* Mutant of LaunchFails: without pw.Stop().
LaunchFails_NoStop(c) == Moves(c, "launch", "failed")

LaunchFails(c) ==
    /\ At(c, "launch")
    /\ driver' = [driver EXCEPT ![c] = "stopped"]
    /\ Goto(c, "failed")
    /\ UNCHANGED <<installers, disk, browser>>

\* With a CDP session or, with a warning, without.
EndInit(c) == Moves(c, "cdp", "ready")

-----------------------------------------------------------------------------
InstallStep(c) ==
    \/ CreatesDriver(c) \/ DownloadsDriver(c)
    \/ InstallFails(c) \/ InstallSucceeds(c) \/ InstallReturns(c)

InitStep(c) ==
    \/ StartDriver(c) \/ StartFails(c)
    \/ Launches(c) \/ LaunchFails(c) \/ EndInit(c)

\* A call of New, EnsureInstalled or Install.
Call(c) == BeginInstall(c) \/ Await(c) \/ SkipInstall(c)

Next ==
    \/ \E c \in Caller : Call(c) \/ InstallStep(c)
    \/ \E c \in Starter : InitStep(c)

Spec == Init /\ [][Next]_vars

-----------------------------------------------------------------------------
(* Properties.                                                             *)

\* The failure that an Installer remembers is the answer to all: of the calls
\* of one Installer, at the same time or long after, no two are told different
\* things, and they are told of success only when driver and browser are there.
OneAnswer ==
    \A i \in Installer :
        /\ answers[i] # {"nil", "error"}
        /\ "nil" \in answers[i] => disk /\ IsInstalled(i)
        /\ "error" \in answers[i] => ~IsInstalled(i)

-----------------------------------------------------------------------------
(* What the comments of the code say and the code does not do.             *)

Installing(c) == pc[c] \in {"create driver", "download", "install browser"}

\* installer.go: "Install executes the installation process (idempotent,
\* thread-safe)": two installations never work on the one path at once.
OneInstallation ==
    \A c, d \in Caller : Installing(c) /\ Installing(d) => c = d
=============================================================================
