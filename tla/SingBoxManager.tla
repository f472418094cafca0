--------------------------- MODULE SingBoxManager ---------------------------
(***************************************************************************)
(* The life of the VPN engine (a sing-box.exe child process) under the     *)
(* desktop shell: SingBoxManager::start, stop, is_running and drop         *)
(* (singbox.rs), the job object that ties the engine to the shell          *)
(* (platform/windows.rs), and the commands and window events that call     *)
(* them (lib.rs).                                                          *)
(*                                                                         *)
(* Commands and window events run one at a time on the shell's main        *)
(* thread, so there is one program counter.  What interleaves with the     *)
(* steps of a command is the outside world: the engine exits by itself,    *)
(* or the shell is killed.  The k-th temporary file and the engine started *)
(* with it share the number k.                                             *)
(***************************************************************************)
EXTENDS Naturals

CONSTANTS
    MaxStarts,      \* bound: temporary files created over all launches
    MaxLaunches,    \* bound: launches of the shell
    Faults          \* the operating system calls that may fail

FaultKinds ==
    {"job", "binary", "tempfile", "spawn", "assign", "kill", "poll", "remove"}

ASSUME StartsAssumption == MaxStarts \in Nat \ {0}
ASSUME LaunchesAssumption == MaxLaunches \in Nat \ {0}
ASSUME FaultsAssumption == Faults \subseteq FaultKinds

VARIABLES
    \* the manager's fields
    process,        \* handle of the tracked engine, or None
    configPath,     \* path of the tracked config file, or None
    jobReady,       \* was the job object created?
    \* the main thread
    pc,             \* where the running command is, "idle" between commands
    resume,         \* where control goes when stop() returns
    started,        \* number of temporary files created so far
    base,           \* value of started when this launch began
    \* the machine
    windows,        \* open windows of the shell; none when it is not running
    alive,          \* engines running
    inJob,          \* engines assigned to the job object of this launch
    files,          \* config files on disk
    launches,       \* number of launches so far
    \* history
    crashed,        \* engines that exited by themselves
    reported,       \* engines whose crash was reported to the user
    lost,           \* starts given up by a failed kill, poll, spawn or removal
    unassigned      \* engines that could not be assigned to the job object

manager == <<process, configPath, jobReady>>
thread  == <<pc, resume>>
fates   == <<lost, unassigned>>
history == <<crashed, reported, lost, unassigned>>
vars == <<process, configPath, jobReady, pc, resume, started, base, windows,
          alive, inJob, files, launches, crashed, reported, lost, unassigned>>

None == 0
Ids == 1..MaxStarts
Mine == {e \in Ids : e > base}      \* engines and files of this launch
Windows == {"main", "connections"}

Init ==
    /\ process = None /\ configPath = None /\ jobReady = FALSE
    /\ pc = "idle" /\ resume = "idle"
    /\ started = 0 /\ base = 0
    /\ windows = {} /\ alive = {} /\ inJob = {} /\ files = {} /\ launches = 0
    /\ crashed = {} /\ reported = {} /\ lost = {} /\ unassigned = {}

Goto(from, to) == pc = from /\ pc' = to /\ UNCHANGED resume

-----------------------------------------------------------------------------
(* stop(), shared by disconnect, a second start() and the closing window.  *)

\* Mutant: the handle is left in place.
KillKeepsHandle ==
    /\ pc = "killing"
    /\ alive' = alive \ {process}
    /\ pc' = "cleaning"
    /\ UNCHANGED <<manager, resume, started, base, windows, inJob, files,
                   launches, history>>

\* The handle is taken before the kill, so an error return loses it.
Kill ==
    /\ pc = "killing"
    /\ process' = None
    /\ \/ /\ alive' = alive \ {process}
          /\ pc' = "cleaning"
          /\ UNCHANGED <<resume, lost>>
       \/ /\ "kill" \in Faults
          /\ process \in alive
          /\ lost' = lost \cup {process}
          /\ pc' = IF resume = "closing" THEN "closing" ELSE "idle"
          /\ resume' = "idle"
          /\ UNCHANGED alive
    /\ UNCHANGED <<configPath, jobReady, started, base, windows, inJob, files,
                   launches, crashed, reported, unassigned>>

\* Mutant: the path is forgotten, the file stays.
ForgetPath == configPath' = None /\ UNCHANGED <<files, lost>>

\* Mutant: stop() goes on only if there is a file to remove.
RemoveKnown ==
    /\ configPath # None
    /\ configPath' = None
    /\ files' = files \ {configPath}
    /\ UNCHANGED lost

\* A failed removal is only logged: the path is forgotten all the same.
RemoveConfig ==
    /\ configPath' = None
    /\ \/ files' = files \ {configPath} /\ UNCHANGED lost
       \/ /\ "remove" \in Faults
          /\ configPath \in files
          /\ lost' = lost \cup {configPath}
          /\ UNCHANGED files

Clean ==
    /\ pc = "cleaning"
    /\ pc' = resume /\ resume' = "idle"
    /\ RemoveConfig
    /\ UNCHANGED <<process, jobReady, started, base, windows, alive, inJob,
                   launches, crashed, reported, unassigned>>

-----------------------------------------------------------------------------
(* start().                                                                *)

\* Mutant: a running engine is not stopped.
StopNothing == pc' = "preparing" /\ UNCHANGED <<process, resume, lost>>

\* is_running(None) at the head of start(): a live engine is stopped first, a
\* dead one is forgotten without a report, an error counts as not running.
HeadOfStart ==
    \/ /\ process \in alive
       /\ pc' = "killing" /\ resume' = "preparing"
       /\ UNCHANGED <<process, lost>>
    \/ /\ process \notin alive
       /\ pc' = "preparing"
       /\ process' = None
       /\ UNCHANGED <<resume, lost>>
    \/ /\ "poll" \in Faults
       /\ process # None
       /\ pc' = "preparing"
       /\ lost' = lost \cup {process}
       /\ UNCHANGED <<process, resume>>

ConnectVless ==
    /\ "main" \in windows
    /\ pc = "idle"
    /\ started < MaxStarts
    /\ HeadOfStart
    /\ UNCHANGED <<configPath, jobReady, started, base, windows, alive, inJob,
                   files, launches, crashed, reported, unassigned>>

\* start() returns with an error.
Fails(from, fault) ==
    /\ fault \in Faults
    /\ Goto(from, "idle")
    /\ UNCHANGED <<manager, started, base, windows, alive, inJob, launches,
                   crashed, reported, unassigned>>

\* Mutant: the file gets the number of the next start.
PrepareNext ==
    /\ Goto("preparing", "writing")
    /\ started' = started + 1
    /\ files' = files \cup {started + 2}
    /\ UNCHANGED <<manager, base, windows, alive, inJob, launches, history>>

\* The binary, wintun.dll, then the temporary file.
Prepare ==
    \/ Fails("preparing", "binary") /\ UNCHANGED <<files, lost>>
    \/ /\ Goto("preparing", "writing")
       /\ started' = started + 1
       /\ files' = files \cup {started + 1}
       /\ UNCHANGED <<manager, base, windows, alive, inJob, launches, history>>

\* Until keep() the file is removed when start() returns with an error.
WriteConfig ==
    \/ /\ Fails("writing", "tempfile")
       /\ files' = files \ {started}
       /\ UNCHANGED lost
    \/ /\ Goto("writing", "spawning")
       /\ UNCHANGED <<manager, started, base, windows, alive, inJob, files,
                      launches, history>>

\* The file was kept by now: an error return leaves it behind.
Spawn ==
    \/ /\ Fails("spawning", "spawn")
       /\ lost' = lost \cup {started}
       /\ UNCHANGED files
    \/ /\ Goto("spawning", "attaching")
       /\ alive' = alive \cup {started}
       /\ UNCHANGED <<manager, started, base, windows, inJob, files, launches,
                      history>>

\* Mutant: nothing is assigned to the job object.
AttachNothing == UNCHANGED <<inJob, unassigned>>

\* Without a job object, or when the assignment fails, start() goes on.
AssignProcess ==
    \/ jobReady /\ inJob' = inJob \cup {started} /\ UNCHANGED unassigned
    \/ /\ ~jobReady \/ "assign" \in Faults
       /\ unassigned' = unassigned \cup {started}
       /\ UNCHANGED inJob

Attach ==
    /\ Goto("attaching", "storing")
    /\ AssignProcess
    /\ UNCHANGED <<manager, started, base, windows, alive, files, launches,
                   crashed, reported, lost>>

\* Mutant: keep() is forgotten and the file removed when start() returns.
StoreWithoutKeep ==
    /\ Goto("storing", "idle")
    /\ process' = started
    /\ configPath' = started
    /\ files' = files \ {started}
    /\ UNCHANGED <<jobReady, started, base, windows, alive, inJob, launches,
                   history>>

Store ==
    /\ Goto("storing", "idle")
    /\ process' = started
    /\ configPath' = started
    /\ UNCHANGED <<jobReady, started, base, windows, alive, inJob, files,
                   launches, history>>

-----------------------------------------------------------------------------
(* The other commands.                                                     *)

Disconnect ==
    /\ "main" \in windows
    /\ Goto("idle", "killing")
    /\ UNCHANGED <<manager, started, base, windows, alive, inJob, files,
                   launches, history>>

\* Mutant: the crash is detected but the handle stays.
KeepCrashedHandle == process \notin alive /\ UNCHANGED process

ForgetCrashed == process \notin alive /\ process' = None

\* is_running(Some(app)): only the detection of a crash changes the state.
IsConnected ==
    /\ "main" \in windows
    /\ pc = "idle"
    /\ process # None
    /\ ForgetCrashed
    /\ reported' = reported \cup {process}
    /\ UNCHANGED <<configPath, jobReady, thread, started, base, windows, alive,
                   inJob, files, launches, crashed, fates>>

-----------------------------------------------------------------------------
(* Windows, and the end of the shell.                                      *)

\* The process of the shell is gone: its memory with it, and the last handle
\* of the job object, which kills the engines assigned to it.
Terminated(killed) ==
    /\ windows' = {}
    /\ alive' = alive \ (inJob \cup killed)
    /\ inJob' = {} /\ jobReady' = FALSE
    /\ process' = None /\ configPath' = None
    /\ pc' = "idle" /\ resume' = "idle"
    /\ base' = started
    /\ UNCHANGED <<started, launches, history>>

\* Closing the last window ends the event loop; whether the runtime drops the
\* manager before the process exits is not the program's choice.
Exit ==
    \/ Terminated({}) /\ UNCHANGED files
    \/ Terminated({process}) /\ files' = files \ {configPath}

WindowGone(w) ==
    \/ windows = {w} /\ Exit
    \/ /\ windows # {w}
       /\ windows' = windows \ {w}
       /\ pc' = "idle"
       /\ UNCHANGED <<manager, resume, started, base, alive, inJob, files,
                      launches, history>>

OpenConnectionsWindow ==
    /\ "main" \in windows
    /\ pc = "idle"
    /\ "connections" \notin windows
    /\ windows' = windows \cup {"connections"}
    /\ UNCHANGED <<manager, thread, started, base, alive, inJob, files,
                   launches, history>>

CloseConnectionsWindow ==
    /\ "connections" \in windows
    /\ pc = "idle"
    /\ WindowGone("connections")

\* Mutant: the window closes without stop().
CloseAtOnce == pc' = "closing" /\ resume' = "idle"

StopThenClose == pc' = "killing" /\ resume' = "closing"

CloseRequested ==
    /\ "main" \in windows
    /\ pc = "idle"
    /\ StopThenClose
    /\ UNCHANGED <<manager, started, base, windows, alive, inJob, files,
                   launches, history>>

CloseMainWindow == pc = "closing" /\ WindowGone("main")

\* exit(0) once the elevated shell was started: stop() is not called.
RelaunchAsAdmin ==
    /\ "main" \in windows
    /\ pc = "idle"
    /\ Terminated({})
    /\ UNCHANGED files

KillShell ==
    /\ windows # {}
    /\ Terminated({})
    /\ UNCHANGED files

Launch ==
    /\ windows = {}
    /\ launches < MaxLaunches
    /\ launches' = launches + 1
    /\ windows' = {"main"}
    /\ jobReady' = TRUE \/ ("job" \in Faults /\ jobReady' = FALSE)
    /\ UNCHANGED <<process, configPath, thread, started, base, alive, inJob,
                   files, history>>

\* The engine exits by itself.
Crash(e) ==
    /\ e \in alive
    /\ alive' = alive \ {e}
    /\ crashed' = crashed \cup {e}
    /\ UNCHANGED <<manager, thread, started, base, windows, inJob, files,
                   launches, reported, fates>>

-----------------------------------------------------------------------------
Start == Prepare \/ WriteConfig \/ Spawn \/ Attach \/ Store
Stop == Kill \/ Clean

Next ==
    \/ Start
    \/ Stop
    \/ ConnectVless
    \/ Disconnect
    \/ IsConnected
    \/ OpenConnectionsWindow
    \/ CloseConnectionsWindow
    \/ CloseRequested
    \/ CloseMainWindow
    \/ RelaunchAsAdmin
    \/ KillShell
    \/ Launch
    \/ \E e \in Ids : Crash(e)

Spec == Init /\ [][Next]_vars

\* A command that was begun runs on.  The main window polls is_connected every
\* second (main.js:989) and the main thread serves requests in the order they
\* come, so a user who keeps connecting cannot keep the poll waiting for ever.
Fairness == WF_vars(Start \/ Stop \/ CloseMainWindow) /\ SF_vars(IsConnected)

FairSpec == Spec /\ Fairness

-----------------------------------------------------------------------------
(* Properties.                                                             *)

PCs == {"idle", "killing", "cleaning", "preparing", "writing", "spawning",
        "attaching", "storing", "closing"}

TypeOK ==
    /\ process \in Ids \cup {None} /\ configPath \in Ids \cup {None}
    /\ jobReady \in BOOLEAN
    /\ pc \in PCs /\ resume \in {"idle", "preparing", "closing"}
    /\ started \in 0..MaxStarts /\ base \in 0..started
    /\ windows \subseteq Windows
    /\ alive \subseteq Ids /\ inJob \subseteq Ids /\ files \subseteq Ids
    /\ launches \in 0..MaxLaunches
    /\ crashed \subseteq Ids /\ reported \subseteq Ids
    /\ lost \subseteq Ids /\ unassigned \subseteq Ids

\* Engines of this launch no failed kill or poll has put out of reach.
Kept == (alive \cap Mine) \ lost

\* Between commands every engine of this launch is the one the manager holds
\* a handle of: whatever is running can be stopped, and there are no two.
Stoppable == pc = "idle" => Kept \subseteq {process}

\* An engine never runs with its config file deleted under it: stop() removes
\* the file of an engine that is gone, even after crashes and reconnects.
ConfigWhileRunning == alive \ lost \subseteq files

\* A config file of this launch that stop() will never remove belongs to an
\* engine that crashed or to a call that failed: no other path through start()
\* and stop() leaks it.
StrayExplained ==
    pc = "idle" =>
        (files \cap Mine) \ {configPath} \subseteq crashed \cup lost

\* The user is told "sing-box crashed" only of an engine that exited by
\* itself, never of one that disconnect or a reconnect killed.
OnlyCrashesReported == reported \subseteq crashed

\* However the shell ends, an engine of that launch outlives it only if the
\* assignment to the job object failed, or the shell died between spawn() and
\* the assignment.
ShellDeathKillsEngine ==
    [][windows' = {} =>
         \A e \in (alive' \cap Mine) \ unassigned :
            pc = "attaching" /\ e = started]_vars

\* Every command returns, whatever fails and whatever dies meanwhile.
CommandsReturn == (pc # "idle") ~> (pc = "idle")

\* The handle of an engine that is gone does not stay in the manager.
CrashNoticed ==
    \A e \in Ids : (process = e /\ e \notin alive) ~> (process # e)

\* The manager implements the session a user of the main window is promised.
Session == INSTANCE VpnSession
               WITH Engines <- Ids,
                    open <- "main" \in windows,
                    engines <- Kept

ImplementsSession == Session!Spec

-----------------------------------------------------------------------------
(* What the documentation says and the code does not do.                   *)

\* README.md:37: on closing, abnormal termination or a hang of the shell the
\* engine is guaranteed to end.
NoEngineWithoutShell == windows = {} => alive = {}
=============================================================================
