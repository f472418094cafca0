------------------------ MODULE SingBoxManagerProofs ------------------------
(***************************************************************************)
(* Proofs about SingBoxManager for every number of starts and launches:    *)
(* what can be stopped, what is left behind and why, and the order in      *)
(* which a command takes its steps.                                        *)
(***************************************************************************)
EXTENDS SingBoxManager, TLAPS

Starting == {"preparing", "writing", "spawning", "attaching", "storing"}

\* What the main thread knows at each point of a command.
ThreadInv ==
    /\ pc # "idle" => "main" \in windows
    /\ resume # "idle" => pc \in {"killing", "cleaning"}
    /\ resume = "preparing" \/ pc = "preparing" => started < MaxStarts
    /\ pc \in {"writing", "spawning", "attaching", "storing"} => started > base

\* Engines of this launch that are within reach: tracked by the handle except
\* while start() is between spawn() and storing it; none at all once stop()
\* has killed.
EngineInv ==
    /\ alive \subseteq 1..started
    /\ process # None => process > base
    /\ pc \in Starting => process = None \/ process \in lost
    /\ pc \in {"cleaning", "closing"} => process = None
    /\ pc \in {"idle", "killing"} => Kept \subseteq {process}
    /\ pc \in {"cleaning", "closing", "preparing", "writing", "spawning"} =>
         Kept = {}
    /\ pc \in {"attaching", "storing"} => Kept \subseteq {started}
    /\ "main" \notin windows => process = None

\* Config files: the tracked one goes with the tracked engine, and none is
\* ahead of the counter.
FileInv ==
    /\ files \subseteq 1..started
    /\ alive \ lost \subseteq files
    /\ process # None => configPath = process
    /\ configPath # None => configPath > base
    /\ pc \in {"writing", "spawning", "attaching", "storing"} =>
         started \in files

IInv == TypeOK /\ ThreadInv /\ EngineInv /\ FileInv

-----------------------------------------------------------------------------
\* The interval of the numbers handed out grows by its next number.
LEMMA RangeGrows ==
    ASSUME NEW n \in Nat
    PROVE  1..n \subseteq 1..(n + 1) /\ n + 1 \in 1..(n + 1)
OBVIOUS

\* A shell that was never launched satisfies the invariant (singbox.rs:35-47).
LEMMA InitInv == Init => IInv
<1> SUFFICES ASSUME Init PROVE IInv
    OBVIOUS
<1> USE StartsAssumption, LaunchesAssumption DEF Init, None, Ids, Mine, Kept
<1>1. TypeOK
  <2>1. jobReady \in BOOLEAN
    BY Zenon
  <2>2. QED
    BY <2>1 DEF TypeOK, PCs
<1>2. ThreadInv
  BY DEF ThreadInv
<1>3. EngineInv
  BY DEF EngineInv, Starting
<1>4. FileInv
  BY DEF FileInv
<1>5. QED
  BY <1>1, <1>2, <1>3, <1>4 DEF IInv

\* The end of the shell keeps the invariant if it leaves the config files of
\* the engines that live on.
LEMMA EndInv ==
    ASSUME IInv, Terminated({}) \/ Terminated({process}), files' \subseteq files,
           alive' \ lost \subseteq files'
    PROVE  IInv'
<1> USE DEF IInv, TypeOK, ThreadInv, EngineInv, FileInv, None, Ids, Mine, Kept,
            PCs, Starting, history
<1>1. jobReady' \in BOOLEAN
  BY Zenon DEF Terminated
<1>2. windows' = {} /\ process' = None /\ configPath' = None
  BY DEF Terminated
<1>3. pc' = "idle" /\ resume' = "idle" /\ base' = started /\ inJob' = {}
  BY DEF Terminated
<1>4. alive' \subseteq alive /\ UNCHANGED <<started, launches, history>>
  BY DEF Terminated
<1>5. TypeOK'
  BY <1>1, <1>2, <1>3, <1>4
<1>6. QED
  BY <1>2, <1>3, <1>4, <1>5

\* So does the death of the shell, which touches no file.
LEMMA TerminatedInv ==
    ASSUME IInv, Terminated({}), UNCHANGED files
    PROVE  IInv'
<1>1. alive' \ lost \subseteq files'
  BY DEF IInv, FileInv, Terminated
<1>2. QED
  BY <1>1, EndInv

\* When the runtime drops the manager, it deletes no config file of an engine
\* that is out of its reach.
LEMMA ExitInv == ASSUME IInv, Exit, Kept = {} PROVE IInv'
<1>1. CASE Terminated({}) /\ UNCHANGED files
  BY <1>1, TerminatedInv
<1>2. CASE Terminated({process}) /\ files' = files \ {configPath}
  <2>1. configPath \notin alive \ lost
    BY DEF IInv, TypeOK, FileInv, EngineInv, None, Ids, Mine, Kept
  <2>2. alive' \ lost \subseteq files'
    BY <1>2, <2>1 DEF IInv, FileInv, Terminated
  <2>3. QED
    BY <1>2, <2>2, EndInv
<1>3. QED
  BY <1>1, <1>2 DEF Exit

\* Every step of the manager and of its surroundings keeps the invariant.
LEMMA NextInv == ASSUME IInv, [Next]_vars PROVE IInv'
<1> USE StartsAssumption, LaunchesAssumption
        DEF IInv, TypeOK, ThreadInv, EngineInv, FileInv, None, Ids, Mine, PCs,
            Starting, Goto, manager, thread, fates, history, Kept
<1>1. CASE Kill
  BY <1>1 DEF Kill
<1>2. CASE Clean
  <2>1. TypeOK'
    BY <1>2 DEF Clean, RemoveConfig
  <2>2. ThreadInv'
    BY <1>2 DEF Clean, RemoveConfig
  <2>3. EngineInv'
    BY <1>2 DEF Clean, RemoveConfig
  <2>4. FileInv'
    <3>1. configPath \notin alive \ lost
      BY <1>2 DEF Clean, RemoveConfig
    <3>2. alive' \ lost' \subseteq files' /\ files' \subseteq 1..started'
      BY <1>2, <3>1 DEF Clean, RemoveConfig
    <3>3. QED
      BY <1>2, <3>2 DEF Clean, RemoveConfig
  <2>5. QED
    BY <2>1, <2>2, <2>3, <2>4
<1>3. CASE ConnectVless
  BY <1>3 DEF ConnectVless, HeadOfStart
<1>4. CASE Prepare
  <2>1. TypeOK'
    <3>1. CASE Fails("preparing", "binary") /\ UNCHANGED <<files, lost>>
      BY <3>1 DEF Fails
    <3>2. CASE started' = started + 1
      <4>1. started' \in 0..MaxStarts /\ started' \in Ids /\ base' \in 0..started'
        BY <1>4, <3>2 DEF Prepare, Fails
      <4>2. files' \subseteq Ids
        BY <1>4, <3>2, <4>1 DEF Prepare, Fails
      <4>3. QED
        BY <1>4, <3>2, <4>1, <4>2 DEF Prepare, Fails
    <3>3. QED
      BY <1>4, <3>1, <3>2 DEF Prepare
  <2>2. ThreadInv'
    BY <1>4 DEF Prepare, Fails
  <2>3. EngineInv'
    <3>1. alive' \subseteq 1..started'
      <4>1. UNCHANGED alive /\ (started' = started \/ started' = started + 1)
        BY <1>4 DEF Prepare, Fails
      <4>2. started \in Nat
        OBVIOUS
      <4>3. QED
        BY <4>1, <4>2, RangeGrows
    <3>2. QED
      BY <1>4, <3>1 DEF Prepare, Fails
  <2>4. FileInv'
    <3>1. files' \subseteq 1..started'
      <4>1. CASE UNCHANGED <<started, files>>
        BY <4>1
      <4>2. CASE started' = started + 1 /\ files' = files \cup {started + 1}
        BY <4>2, RangeGrows
      <4>3. QED
        BY <1>4, <4>1, <4>2 DEF Prepare, Fails
    <3>2. alive' \ lost' \subseteq files'
      BY <1>4 DEF Prepare, Fails
    <3>3. QED
      BY <1>4, <3>1, <3>2 DEF Prepare, Fails
  <2>5. QED
    BY <2>1, <2>2, <2>3, <2>4
<1>5. CASE WriteConfig
  <2>1. TypeOK'
    BY <1>5 DEF WriteConfig, Fails
  <2>2. ThreadInv'
    BY <1>5 DEF WriteConfig, Fails
  <2>3. EngineInv'
    BY <1>5 DEF WriteConfig, Fails
  <2>4. FileInv'
    BY <1>5 DEF WriteConfig, Fails
  <2>5. QED
    BY <2>1, <2>2, <2>3, <2>4
<1>6. CASE Spawn
  BY <1>6 DEF Spawn, Fails
<1>7. CASE Attach
  BY <1>7 DEF Attach, AssignProcess
<1>8. CASE Store
  BY <1>8 DEF Store
<1>9. CASE Disconnect
  BY <1>9 DEF Disconnect
<1>10. CASE IsConnected
  BY <1>10 DEF IsConnected, ForgetCrashed
<1>11. CASE OpenConnectionsWindow
  BY <1>11 DEF OpenConnectionsWindow, Windows
<1>12. CASE CloseConnectionsWindow
  <2>1. CASE windows = {"connections"} /\ Exit
    <3>1. Kept = {}
      BY <1>12, <2>1 DEF CloseConnectionsWindow
    <3>2. QED
      BY <1>12, <2>1, <3>1, ExitInv DEF CloseConnectionsWindow
  <2>2. CASE windows # {"connections"}
    <3>1. windows' = windows \ {"connections"} /\ pc = "idle" /\ pc' = "idle"
      BY <1>12, <2>2 DEF CloseConnectionsWindow, WindowGone
    <3>2. UNCHANGED <<manager, resume, started, base, alive, inJob, files,
                      launches, history>>
      BY <1>12, <2>2 DEF CloseConnectionsWindow, WindowGone
    <3>3. TypeOK'
      BY <3>1, <3>2 DEF Windows
    <3>4. QED
      BY <3>1, <3>2, <3>3
  <2>3. QED
    BY <1>12, <2>1, <2>2 DEF CloseConnectionsWindow, WindowGone
<1>13. CASE CloseRequested
  BY <1>13 DEF CloseRequested, StopThenClose
<1>14. CASE CloseMainWindow
  <2>1. CASE windows = {"main"} /\ Exit
    BY <1>14, <2>1, ExitInv DEF CloseMainWindow
  <2>2. CASE windows # {"main"}
    BY <1>14, <2>2 DEF CloseMainWindow, WindowGone, Windows
  <2>3. QED
    BY <1>14, <2>1, <2>2 DEF CloseMainWindow, WindowGone
<1>15. CASE RelaunchAsAdmin
  BY <1>15, TerminatedInv DEF RelaunchAsAdmin
<1>16. CASE KillShell
  BY <1>16, TerminatedInv DEF KillShell
<1>17. CASE Launch
  <2>1. TypeOK'
    <3>1. jobReady' \in BOOLEAN
      BY <1>17, Zenon DEF Launch, Windows
    <3>2. QED
      BY <1>17, <3>1 DEF Launch, Windows
  <2>2. ThreadInv'
    BY <1>17 DEF Launch, Windows
  <2>3. EngineInv'
    BY <1>17 DEF Launch, Windows
  <2>4. FileInv'
    BY <1>17 DEF Launch, Windows
  <2>5. QED
    BY <2>1, <2>2, <2>3, <2>4
<1>18. ASSUME NEW e \in Ids, Crash(e) PROVE IInv'
  BY <1>18 DEF Crash
<1>19. CASE UNCHANGED vars
  BY <1>19 DEF vars
<1>20. QED
  BY <1>1, <1>2, <1>3, <1>4, <1>5, <1>6, <1>7, <1>8, <1>9, <1>10,
     <1>11, <1>12, <1>13, <1>14, <1>15, <1>16, <1>17, <1>18, <1>19
     DEF Next, Start, Stop

-----------------------------------------------------------------------------

\* What every command and every event leaves true, whatever calls fail: the
\* strengthening of the invariants below (singbox.rs:85-316, lib.rs:590-599).
THEOREM ManagerInvariant == Spec => []IInv
<1>1. Init => IInv
  BY InitInv
<1>2. IInv /\ [Next]_vars => IInv'
  BY NextInv
<1>3. QED
  BY <1>1, <1>2, PTL DEF Spec

\* The type invariant (singbox.rs:22-31): handles, paths, engines and files
\* stay within their ranges.
THEOREM TypeCorrect == Spec => []TypeOK
<1>1. IInv => TypeOK
  BY DEF IInv
<1>2. QED
  BY <1>1, ManagerInvariant, PTL

\* Between commands the manager holds a handle of every engine it started in
\* this launch, so disconnect can stop whatever runs (singbox.rs:85-253).
THEOREM AlwaysStoppable == Spec => []Stoppable
<1>1. IInv => Stoppable
  BY DEF IInv, EngineInv, Stoppable
<1>2. QED
  BY <1>1, ManagerInvariant, PTL

\* stop() deletes the config file only of an engine that is gone
\* (singbox.rs:240-250).
THEOREM ConfigStays == Spec => []ConfigWhileRunning
<1>1. IInv => ConfigWhileRunning
  BY DEF IInv, FileInv, ConfigWhileRunning
<1>2. QED
  BY <1>1, ManagerInvariant, PTL

-----------------------------------------------------------------------------
(* The manager implements VpnSession.                                      *)

\* Every step of the manager is a step of the session or leaves it alone.
LEMMA StepImplements ==
    ASSUME IInv, IInv', [Next]_vars
    PROVE  [Session!Next]_(Session!vars)
<1> USE DEF Session!Next, Session!vars, Session!Open, Session!Start,
            Session!End, Session!Close, Session!Abort, IInv, TypeOK,
            ThreadInv, EngineInv, FileInv, None, Ids, Mine, Starting, Goto,
            manager, thread, fates, history, Kept
<1>1. CASE Clean
  BY <1>1 DEF Clean, RemoveConfig
<1>2. CASE ConnectVless
  BY <1>2 DEF ConnectVless, HeadOfStart
<1>3. CASE Prepare
  BY <1>3 DEF Prepare, Fails
<1>4. CASE WriteConfig
  BY <1>4 DEF WriteConfig, Fails
<1>5. CASE Attach
  BY <1>5 DEF Attach
<1>6. CASE Store
  BY <1>6 DEF Store
<1>7. CASE Disconnect
  BY <1>7 DEF Disconnect
<1>8. CASE IsConnected
  BY <1>8 DEF IsConnected
<1>9. CASE OpenConnectionsWindow
  BY <1>9 DEF OpenConnectionsWindow
<1>10. CASE CloseConnectionsWindow
  BY <1>10 DEF CloseConnectionsWindow, WindowGone, Exit, Terminated
<1>11. CASE CloseRequested
  BY <1>11 DEF CloseRequested
<1>12. CASE CloseMainWindow
  BY <1>12 DEF CloseMainWindow, WindowGone, Exit, Terminated
<1>13. CASE RelaunchAsAdmin
  BY <1>13 DEF RelaunchAsAdmin, Terminated
<1>14. CASE KillShell
  BY <1>14 DEF KillShell, Terminated
<1>15. CASE Launch
  BY <1>15 DEF Launch
<1>16. CASE Kill
  BY <1>16 DEF Kill
<1>17. CASE Spawn
  BY <1>17 DEF Spawn, Fails
<1>18. ASSUME NEW e \in Ids, Crash(e) PROVE [Session!Next]_(Session!vars)
  <2>1. Kept' = Kept \ {e} /\ UNCHANGED windows
    BY <1>18 DEF Crash
  <2>2. CASE e \in Kept
    <3>1. Kept \subseteq {e}
      <4>1. pc \in {"idle", "killing", "attaching", "storing"}
        BY <2>2 DEF PCs
      <4>2. QED
        BY <2>2, <4>1
    <3>2. QED
      BY <2>1, <2>2, <3>1
  <2>3. CASE e \notin Kept
    BY <2>1, <2>3
  <2>4. QED
    BY <2>2, <2>3
<1>19. CASE UNCHANGED vars
  BY <1>19 DEF vars
<1>20. QED
  BY <1>1, <1>2, <1>3, <1>4, <1>5, <1>6, <1>7, <1>8, <1>9, <1>10,
     <1>11, <1>12, <1>13, <1>14, <1>15, <1>16, <1>17, <1>18, <1>19
     DEF Next, Start, Stop

\* At most one engine, started only when the one before is gone and only while
\* the main window is open; an orderly close leaves none (singbox.rs:85-253,
\* lib.rs:590-599).
THEOREM Implements == Spec => ImplementsSession
<1>1. Init => Session!Init
  BY DEF Init, Session!Init, Kept
<1>2. IInv /\ IInv' /\ [Next]_vars => [Session!Next]_(Session!vars)
  BY StepImplements
<1>3. QED
  BY <1>1, <1>2, ManagerInvariant, PTL DEF Spec, ImplementsSession, Session!Spec

-----------------------------------------------------------------------------
(* Whatever fails, only an engine that exited by itself is reported.       *)

CrashInv ==
    /\ process # None /\ process \notin alive => process \in crashed
    /\ pc \in {"attaching", "storing"} /\ started \notin alive =>
         started \in crashed
    /\ reported \subseteq crashed

\* A handle whose engine is gone is the handle of a crashed engine: kill() clears
\* its own (singbox.rs:224).
LEMMA NextCrash == ASSUME IInv, CrashInv, [Next]_vars PROVE CrashInv'
<1> USE DEF CrashInv, None, Goto, manager, thread, fates, history, Kept
<1>1. CASE Kill
  BY <1>1 DEF Kill
<1>2. CASE Clean
  BY <1>2 DEF Clean, IInv, TypeOK
<1>3. CASE ConnectVless
  BY <1>3 DEF ConnectVless, HeadOfStart
<1>4. CASE Prepare
  BY <1>4 DEF Prepare, Fails
<1>5. CASE WriteConfig
  BY <1>5 DEF WriteConfig, Fails
<1>6. CASE Spawn
  BY <1>6 DEF Spawn, Fails
<1>7. CASE Attach
  BY <1>7 DEF Attach
<1>8. CASE Store
  BY <1>8 DEF Store
<1>9. CASE Disconnect
  BY <1>9 DEF Disconnect
<1>10. CASE IsConnected
  BY <1>10 DEF IsConnected, ForgetCrashed
<1>11. CASE OpenConnectionsWindow
  BY <1>11 DEF OpenConnectionsWindow
<1>12. CASE CloseConnectionsWindow
  BY <1>12 DEF CloseConnectionsWindow, WindowGone, Exit, Terminated
<1>13. CASE CloseRequested
  BY <1>13 DEF CloseRequested, StopThenClose
<1>14. CASE CloseMainWindow
  BY <1>14 DEF CloseMainWindow, WindowGone, Exit, Terminated
<1>15. CASE RelaunchAsAdmin
  BY <1>15 DEF RelaunchAsAdmin, Terminated
<1>16. CASE KillShell
  BY <1>16 DEF KillShell, Terminated
<1>17. CASE Launch
  BY <1>17 DEF Launch
<1>18. ASSUME NEW e \in Ids, Crash(e) PROVE CrashInv'
  BY <1>18 DEF Crash
<1>19. CASE UNCHANGED vars
  BY <1>19 DEF vars
<1>20. QED
  BY <1>1, <1>2, <1>3, <1>4, <1>5, <1>6, <1>7, <1>8, <1>9, <1>10,
     <1>11, <1>12, <1>13, <1>14, <1>15, <1>16, <1>17, <1>18, <1>19
     DEF Next, Start, Stop

\* The user is told of a crash only when the engine exited by itself, whatever
\* calls fail (singbox.rs:257-295).
THEOREM ReportsAreTrue == Spec => []OnlyCrashesReported
<1>1. Init => CrashInv
  BY DEF Init, CrashInv
<1>2. IInv /\ CrashInv /\ [Next]_vars => CrashInv'
  BY NextCrash
<1>3. CrashInv => OnlyCrashesReported
  BY DEF CrashInv, OnlyCrashesReported
<1>4. QED
  BY <1>1, <1>2, <1>3, ManagerInvariant, PTL DEF Spec

-----------------------------------------------------------------------------
(* Where leaked config files come from.                                    *)

Written == {"writing", "spawning", "attaching", "storing"}

\* A tracked path that start() is about to overwrite belongs to an engine that
\* crashed or to a call that failed.
StrayInv ==
    /\ configPath # None /\ pc # "cleaning" /\ (process = None \/ pc \in Starting)
         => configPath \in crashed \cup lost
    /\ \A f \in (files \cap Mine) \ {configPath} :
         f \in crashed \cup lost \/ (pc \in Written /\ f = started)

\* No step gives up a file without a crash or a failed call to blame.
LEMMA NextStray ==
    ASSUME IInv, IInv', CrashInv, StrayInv, [Next]_vars
    PROVE  StrayInv'
<1> USE DEF StrayInv, CrashInv, IInv, TypeOK, ThreadInv, EngineInv, FileInv,
            None, Ids, Mine, Starting, Written, Goto, manager, thread, fates,
            history
<1>1. CASE Kill
  BY <1>1 DEF Kill
<1>2. CASE Clean
  BY <1>2 DEF Clean, RemoveConfig
<1>3. CASE ConnectVless
  BY <1>3 DEF ConnectVless, HeadOfStart
<1>4. CASE Prepare
  BY <1>4 DEF Prepare, Fails
<1>5. CASE WriteConfig
  BY <1>5 DEF WriteConfig, Fails
<1>6. CASE Spawn
  BY <1>6 DEF Spawn, Fails
<1>7. CASE Attach
  BY <1>7 DEF Attach
<1>8. CASE Store
  BY <1>8 DEF Store
<1>9. CASE Disconnect
  BY <1>9 DEF Disconnect
<1>10. CASE IsConnected
  BY <1>10 DEF IsConnected, ForgetCrashed
<1>11. CASE OpenConnectionsWindow
  BY <1>11 DEF OpenConnectionsWindow
<1>12. CASE CloseConnectionsWindow
  BY <1>12 DEF CloseConnectionsWindow, WindowGone, Exit, Terminated
<1>13. CASE CloseRequested
  BY <1>13 DEF CloseRequested, StopThenClose
<1>14. CASE CloseMainWindow
  BY <1>14 DEF CloseMainWindow, WindowGone, Exit, Terminated
<1>15. CASE RelaunchAsAdmin
  BY <1>15 DEF RelaunchAsAdmin, Terminated
<1>16. CASE KillShell
  BY <1>16 DEF KillShell, Terminated
<1>17. CASE Launch
  BY <1>17 DEF Launch
<1>18. ASSUME NEW e \in Ids, Crash(e) PROVE StrayInv'
  BY <1>18 DEF Crash
<1>19. CASE UNCHANGED vars
  BY <1>19 DEF vars
<1>20. QED
  BY <1>1, <1>2, <1>3, <1>4, <1>5, <1>6, <1>7, <1>8, <1>9, <1>10,
     <1>11, <1>12, <1>13, <1>14, <1>15, <1>16, <1>17, <1>18, <1>19
     DEF Next, Start, Stop

\* stop() and start() leave a config file behind only after a crash or a failed
\* call (singbox.rs:128, 214, 240-250).
THEOREM StraysAreExplained == Spec => []StrayExplained
<1>1. Init => CrashInv /\ StrayInv
  BY DEF Init, CrashInv, StrayInv, Mine, Ids, None
<1>2. IInv /\ CrashInv /\ [Next]_vars => CrashInv'
  BY NextCrash
<1>3. IInv /\ IInv' /\ CrashInv /\ StrayInv /\ [Next]_vars => StrayInv'
  BY NextStray
<1>4. StrayInv => StrayExplained
  BY DEF StrayInv, StrayExplained, Written
<1>5. QED
  BY <1>1, <1>2, <1>3, <1>4, ManagerInvariant, PTL DEF Spec

-----------------------------------------------------------------------------
(* The job object: an engine of this launch is in it, but for the moment   *)
(* between spawn() and the assignment.                                     *)

JobInv ==
    /\ windows = {} => base = started
    /\ \A e \in alive \cap Mine :
          \/ e \in inJob
          \/ e \in unassigned
          \/ pc = "attaching" /\ e = started

\* No step lets an engine of this launch run outside the job object without a
\* failed assignment to blame.
LEMMA NextJob == ASSUME IInv, IInv', JobInv, [Next]_vars PROVE JobInv'
<1> USE DEF JobInv, IInv, TypeOK, ThreadInv, EngineInv, Ids, Mine, Goto,
            manager, thread, fates, history
<1>1. CASE Kill
  BY <1>1 DEF Kill
<1>2. CASE Clean
  BY <1>2 DEF Clean, RemoveConfig
<1>3. CASE ConnectVless
  BY <1>3 DEF ConnectVless, HeadOfStart
<1>4. CASE Prepare
  BY <1>4 DEF Prepare, Fails
<1>5. CASE WriteConfig
  BY <1>5 DEF WriteConfig, Fails
<1>6. CASE Spawn
  BY <1>6 DEF Spawn, Fails
<1>7. CASE Attach
  BY <1>7 DEF Attach, AssignProcess
<1>8. CASE Store
  BY <1>8 DEF Store
<1>9. CASE Disconnect
  BY <1>9 DEF Disconnect
<1>10. CASE IsConnected
  BY <1>10 DEF IsConnected
<1>11. CASE OpenConnectionsWindow
  BY <1>11 DEF OpenConnectionsWindow
<1>12. CASE CloseConnectionsWindow
  BY <1>12 DEF CloseConnectionsWindow, WindowGone, Exit, Terminated
<1>13. CASE CloseRequested
  BY <1>13 DEF CloseRequested, StopThenClose
<1>14. CASE CloseMainWindow
  BY <1>14 DEF CloseMainWindow, WindowGone, Exit, Terminated
<1>15. CASE RelaunchAsAdmin
  BY <1>15 DEF RelaunchAsAdmin, Terminated
<1>16. CASE KillShell
  BY <1>16 DEF KillShell, Terminated
<1>17. CASE Launch
  BY <1>17 DEF Launch
<1>18. ASSUME NEW e \in Ids, Crash(e) PROVE JobInv'
  BY <1>18 DEF Crash
<1>19. CASE UNCHANGED vars
  BY <1>19 DEF vars
<1>20. QED
  BY <1>1, <1>2, <1>3, <1>4, <1>5, <1>6, <1>7, <1>8, <1>9, <1>10,
     <1>11, <1>12, <1>13, <1>14, <1>15, <1>16, <1>17, <1>18, <1>19
     DEF Next, Start, Stop

\* The step on which the shell ends takes the engines of the job object along.
LEMMA DeathKills ==
    ASSUME IInv, JobInv, [Next]_vars, windows' = {},
           NEW e \in (alive' \cap Mine) \ unassigned
    PROVE  pc = "attaching" /\ e = started
<1> USE DEF JobInv, Goto, manager, thread, fates, history
<1>1. CASE windows = {}
  <2>1. alive \cap Mine = {}
    BY <1>1 DEF IInv, TypeOK, EngineInv, Ids, Mine
  <2>2. alive' \subseteq alive
    BY <1>1 DEF IInv, ThreadInv, Next, vars, Start, Stop, Kill, Clean, ConnectVless, Prepare,
       WriteConfig, Spawn, Attach, Store, Disconnect, IsConnected,
       OpenConnectionsWindow, CloseConnectionsWindow, CloseRequested,
       CloseMainWindow, RelaunchAsAdmin, KillShell, Launch, Crash, Fails
  <2>3. QED
    BY <2>1, <2>2
<1>2. CASE windows # {}
  <2>1. alive' \subseteq alive \ inJob
    BY <1>2 DEF Next, vars, Start, Stop, Kill, Clean, ConnectVless, Prepare,
       WriteConfig, Spawn, Attach, Store, Disconnect, IsConnected,
       OpenConnectionsWindow, CloseConnectionsWindow, CloseRequested,
       CloseMainWindow, RelaunchAsAdmin, KillShell, Launch, Crash, Fails,
       WindowGone, Exit, Terminated
  <2>2. QED
    BY <2>1
<1>3. QED
  BY <1>1, <1>2

\* An engine outlives the shell that started it only if it could not be assigned
\* to the job object, or if the shell died between spawn() and assign_process()
\* (singbox.rs:153-163).
THEOREM DeathKillsEngine == Spec => ShellDeathKillsEngine
<1>1. Init => JobInv
  BY DEF Init, JobInv, Ids, Mine
<1>2. IInv /\ IInv' /\ JobInv /\ [Next]_vars => JobInv'
  BY NextJob
<1>3. IInv /\ JobInv /\ [Next]_vars =>
        (windows' = {} =>
           \A e \in (alive' \cap Mine) \ unassigned :
              pc = "attaching" /\ e = started)
  BY DeathKills
<1>4. QED
  BY <1>1, <1>2, <1>3, ManagerInvariant, PTL DEF Spec, ShellDeathKillsEngine

-----------------------------------------------------------------------------
(* The order of the steps of a command.                                    *)

\* The places of the main thread in the order in which a command passes them:
\* stop() comes before what needs it, and start() runs straight through.
Stages == [killing |-> 1, cleaning |-> 2, preparing |-> 3, writing |-> 4,
           spawning |-> 5, attaching |-> 6, storing |-> 7, closing |-> 8, idle |-> 9]

Advances == Stages[pc'] > Stages[pc]

\* While a command runs nothing takes it back, and each of its own steps takes
\* it forward: it returns within eight steps, whatever calls fail and whoever
\* else acts.  With the fairness of the thread this gives CommandsReturn.
CommandsAdvance ==
    [][/\ pc # "idle" => pc' = pc \/ Advances
       /\ Start \/ Stop \/ CloseMainWindow => Advances]_vars

\* CommandsAdvance for any number of starts and launches: stop() comes back to
\* a later step of whoever called it (singbox.rs:85-253, lib.rs:590-599).
THEOREM CommandsAdvanceAlways == Spec => CommandsAdvance
<1> DEFINE A == /\ pc # "idle" => pc' = pc \/ Advances
                /\ Start \/ Stop \/ CloseMainWindow => Advances
<1>1. ASSUME IInv, [Next]_vars PROVE A
  <2>1. pc \in PCs /\ resume \in {"idle", "preparing", "closing"}
    BY <1>1 DEF IInv, TypeOK
  <2>2. Stop => Advances
    <3>1. Kill => Advances
      BY DEF Kill, Advances, Stages
    <3>2. Clean => Advances
      BY <2>1 DEF Clean, Advances, Stages
    <3>3. QED
      BY <3>1, <3>2 DEF Stop
  <2>3. Start => Advances
    BY DEF Start, Prepare, WriteConfig, Spawn, Attach, Store, Fails, Goto, Advances, Stages
  <2>4. CloseMainWindow => Advances
    BY DEF CloseMainWindow, WindowGone, Exit, Terminated, Advances, Stages
  <2>5. pc # "idle" => pc' = pc \/ Advances
    <3>1. CASE RelaunchAsAdmin \/ ConnectVless \/ Disconnect \/ OpenConnectionsWindow
               \/ CloseConnectionsWindow \/ CloseRequested \/ IsConnected
      BY <3>1 DEF RelaunchAsAdmin, ConnectVless, Disconnect, OpenConnectionsWindow,
                  CloseConnectionsWindow, CloseRequested, IsConnected, Goto
    <3>2. CASE KillShell
      BY <2>1, <3>2 DEF KillShell, Terminated, Advances, Stages, PCs
    <3>3. CASE Launch \/ (\E e \in Ids : Crash(e)) \/ UNCHANGED vars
      BY <3>3 DEF Launch, Crash, vars, thread
    <3>4. QED
      BY <1>1, <2>2, <2>3, <2>4, <3>1, <3>2, <3>3 DEF Next
  <2>6. QED
    BY <2>2, <2>3, <2>4, <2>5
<1>2. IInv /\ [Next]_vars => A
  BY <1>1
<1>3. QED
  BY <1>2, ManagerInvariant, PTL DEF Spec, CommandsAdvance
=============================================================================
