---------------------------- MODULE RoutingStore ----------------------------
(***************************************************************************)
(* The routing rules in memory and in routing.json: the routing commands   *)
(* of lib.rs, and RoutingRules::load and save (routing.rs), which write    *)
(* routing.json.tmp, copy routing.json to routing.json.bak and rename the  *)
(* temporary file over routing.json.  A command runs alone on the main     *)
(* thread; the shell may be killed between any two of its file operations, *)
(* and any of them may fail.                                               *)
(***************************************************************************)
EXTENDS Naturals

CONSTANTS
    Items,          \* mode, domains, presets and processes a list may hold
    Lists,          \* every list, SUBSET Items
    Default,        \* the list of RoutingRules::default()
    Absent,         \* no such file
    Torn,           \* a file that was truncated and not written to its end
    MaxEdits,       \* bound: edits over all launches
    MaxLaunches,    \* bound: launches of the shell
    Faults          \* which operations may fail: subset of FaultKinds

FaultKinds == {"write", "copy", "rename", "read", "corrupt"}

Contents == Lists \cup {Absent, Torn}

ASSUME ListsAssumption == Lists = SUBSET Items /\ Default \in Lists
ASSUME FilesAssumption ==
    Absent # Torn /\ Absent \notin Lists /\ Torn \notin Lists
ASSUME BoundsAssumption == MaxEdits \in Nat /\ MaxLaunches \in Nat
ASSUME FaultsAssumption == Faults \subseteq FaultKinds

VARIABLES
    pc,             \* where the command is; "down" when no shell runs
    mem,            \* AppState.routing_rules
    main, tmp, bak, \* routing.json, routing.json.tmp, routing.json.bak
    edits, launches,
    acked,          \* history: the list last saved with answer Ok, or
                    \* on disk at the last start
    attempted,      \* history: the list of the last save begun
    failed          \* history: did the last save or load fail?

files   == <<main, tmp, bak>>
bounds  == <<edits, launches>>
history == <<acked, attempted, failed>>
vars == <<pc, mem, main, tmp, bak, edits, launches, acked, attempted, failed>>

\* The list a start makes of routing.json when it can read it.
Stored == IF main \in {Absent, Torn} THEN Default ELSE main

Init ==
    /\ pc = "down" /\ mem = Default
    /\ main = Absent /\ tmp = Absent /\ bak = Absent
    /\ edits = 0 /\ launches = 0
    /\ acked = Default /\ attempted = Default /\ failed = FALSE

Goto(from, to) == pc = from /\ pc' = to

-----------------------------------------------------------------------------
(* load(), from the setup hook.                                            *)

LoadWhole ==
    /\ main # Torn
    /\ mem' = Stored /\ failed' = FALSE
    /\ UNCHANGED bak

\* A file that cannot be parsed is copied over the backup, as far as that goes.
LoadTorn ==
    /\ main = Torn
    /\ mem' = Default /\ failed' = TRUE
    /\ bak' \in {bak, Torn}

\* A file that cannot be read leaves the default list in force.
LoadUnread ==
    /\ "read" \in Faults
    /\ main # Absent
    /\ mem' = Default /\ failed' = TRUE
    /\ UNCHANGED bak

Launch ==
    /\ launches < MaxLaunches /\ launches' = launches + 1
    /\ Goto("down", "idle")
    /\ LoadWhole \/ LoadTorn \/ LoadUnread
    /\ acked' = Stored
    /\ UNCHANGED <<main, tmp, edits, attempted>>

KillShell ==
    /\ pc # "down"
    /\ pc' = "down"
    /\ UNCHANGED <<mem, files, bounds, history>>

\* The file is damaged while no shell runs, by the disk or by hand; no list
\* that was in it can be expected back.
Corrupt ==
    /\ "corrupt" \in Faults
    /\ pc = "down" /\ main # Absent
    /\ main' = Torn
    /\ acked' = Default /\ attempted' = Default
    /\ UNCHANGED <<pc, mem, tmp, bak, bounds, failed>>

-----------------------------------------------------------------------------
(* The commands: the list in memory changes first, then it is saved.       *)

\* Mutant: a list that is in memory already counts as saved.
EditOnly(list) ==
    /\ Goto("idle", IF list = mem THEN "reply" ELSE "create")
    /\ edits < MaxEdits /\ edits' = edits + 1
    /\ mem' = list /\ attempted' = list
    /\ UNCHANGED <<files, launches, acked, failed>>

Edit(list) ==
    /\ Goto("idle", "create")
    /\ edits < MaxEdits /\ edits' = edits + 1
    /\ mem' = list /\ attempted' = list
    /\ UNCHANGED <<files, launches, acked, failed>>

\* add_domain_rule, add_geo_rule, add_process_rule: a duplicate is refused
\* before anything is saved.
Add(i) == i \notin mem /\ Edit(mem \cup {i})

\* remove_domain_rule and the like save whether or not the entry was there.
Remove(i) == Edit(mem \ {i})

\* set_routing_mode, set_all_routing_rules.
SetAll(list) == Edit(list)

Fails(from, fault) ==
    /\ fault \in Faults
    /\ Goto(from, "idle")
    /\ failed' = TRUE
    /\ UNCHANGED <<mem, bounds, acked, attempted>>

\* fs::write, first half: the temporary file is created or truncated.
CreateTmp ==
    \/ Fails("create", "write") /\ UNCHANGED files
    \/ /\ Goto("create", "write")
       /\ tmp' = Torn
       /\ UNCHANGED <<mem, main, bak, bounds, history>>

\* Mutant: a short write goes unnoticed.
WriteShort ==
    /\ Goto("write", "backup")
    /\ \/ tmp' = mem
       \/ "write" \in Faults /\ UNCHANGED tmp
    /\ UNCHANGED <<mem, main, bak, bounds, history>>

\* Second half: its bytes.
WriteTmp ==
    \/ Fails("write", "write") /\ UNCHANGED files
    \/ /\ Goto("write", "backup")
       /\ tmp' = mem
       /\ UNCHANGED <<mem, main, bak, bounds, history>>

\* Mutant: the old file is moved away instead of copied.
BackupByMove ==
    /\ Goto("backup", "rename")
    /\ bak' = main /\ main' = Absent
    /\ UNCHANGED <<mem, tmp, bounds, history>>

\* A copy of the old file begins, if there is one; errors are ignored.
BeginBackup ==
    /\ UNCHANGED <<mem, main, tmp, bounds, history>>
    /\ \/ main = Absent /\ Goto("backup", "rename") /\ UNCHANGED bak
       \/ main # Absent /\ Goto("backup", "copy") /\ bak' = Torn
       \/ main # Absent /\ "copy" \in Faults
          /\ Goto("backup", "rename") /\ UNCHANGED bak

EndBackup ==
    /\ Goto("copy", "rename")
    /\ bak' = main \/ ("copy" \in Faults /\ UNCHANGED bak)
    /\ UNCHANGED <<mem, main, tmp, bounds, history>>

Rename ==
    \/ Fails("rename", "rename") /\ UNCHANGED files
    \/ /\ Goto("rename", "reply")
       /\ main' = tmp /\ tmp' = Absent
       /\ UNCHANGED <<mem, bak, bounds, history>>

\* The command answers Ok.
Reply ==
    /\ Goto("reply", "idle")
    /\ acked' = mem /\ failed' = FALSE
    /\ UNCHANGED <<mem, files, bounds, attempted>>

-----------------------------------------------------------------------------
Save == CreateTmp \/ WriteTmp \/ BeginBackup \/ EndBackup \/ Rename \/ Reply

Next ==
    \/ Launch
    \/ KillShell
    \/ Corrupt
    \/ \E i \in Items : Add(i) \/ Remove(i)
    \/ \E list \in Lists : SetAll(list)
    \/ Save

Spec == Init /\ [][Next]_vars

-----------------------------------------------------------------------------
(* Properties.                                                             *)

TypeOK ==
    /\ pc \in {"down", "idle", "create", "write", "backup", "copy", "rename",
               "reply"}
    /\ mem \in Lists
    /\ main \in Contents /\ tmp \in Contents /\ bak \in Contents
    /\ edits \in 0..MaxEdits /\ launches \in 0..MaxLaunches
    /\ acked \in Lists /\ attempted \in Lists /\ failed \in BOOLEAN

\* A start after a crash finds the list of the last edit answered with Ok (or
\* what the last start found, if there was none), or that of the last save
\* begun.
AckedSurvives == pc = "down" => Stored \in {acked, attempted}

\* Memory and file agree between commands, unless the last save or load
\* ended in an error.
Agree == pc = "idle" /\ ~failed => Stored = mem

Lossy == "read" \in Faults \/ "corrupt" \in Faults

Durable == INSTANCE DurableRules
               WITH up <- pc # "down", held <- mem, stored <- Stored,
                    Lossy <- Lossy

\* Saving and loading implement the atomic store: neither a failed operation
\* nor a crash in the middle of a save is ever seen as half a list.
ImplementsDurable == Durable!Spec
=============================================================================
