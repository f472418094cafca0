----------------------------- MODULE RussiaPack -----------------------------
(***************************************************************************)
(* The lists of the Russia Pack (russia_pack.rs): a thread of each launch  *)
(* of the shell downloads the two lists one after the other and saves each *)
(* over its file, merged with the base list built into the program.        *)
(***************************************************************************)
EXTENDS Naturals

CONSTANTS
    Base,           \* entries of the built-in lists
    Remote,         \* entries the published lists may hold
    Ua,             \* entries ending in .ua
    MaxLaunches     \* bound: launches of the shell

ASSUME PackBoundAssumption == MaxLaunches \in Nat \ {0}

Packs == {"inside", "outside"}
Order == <<"inside", "outside">>        \* the order they are updated in

VARIABLES
    disk,           \* of each pack: its file
    at,             \* where the thread is: "off", or a step for a pack, "done"
    remoteText,     \* what was downloaded for the pack at hand
    launches,
    failed          \* packs whose last write failed in this launch

packVars == <<disk, at, remoteText, launches, failed>>

Absent == [state |-> "absent", list |-> {}]
Torn == [state |-> "torn", list |-> {}]
Whole(list) == [state |-> "whole", list |-> list]

Off == [step |-> "off", pack |-> 0]
Done == [step |-> "done", pack |-> 0]
At(step, i) == [step |-> step, pack |-> i]

PackInit ==
    /\ disk = [p \in Packs |-> Absent]
    /\ at = Off /\ remoteText = {} /\ launches = 0 /\ failed = {}

-----------------------------------------------------------------------------

\* ensure_russia_pack_files, called when the shell starts.
Launch ==
    /\ at = Off /\ launches < MaxLaunches
    /\ launches' = launches + 1
    /\ at' = At("download", 1)
    /\ remoteText' = {} /\ failed' = {}
    /\ UNCHANGED disk

\* Mutant: a list that cannot be downloaded is not saved.
DownloadOrSkip ==
    /\ at.step = "download"
    /\ \/ /\ remoteText' \in (SUBSET Remote) \ {{}}
          /\ at' = At("open", at.pack)
       \/ /\ remoteText' = {}
          /\ at' = IF at.pack = 1 THEN At("download", 2) ELSE Done
    /\ UNCHANGED <<disk, launches, failed>>

\* The request is answered or fails within ten seconds; a failure counts as
\* an empty list.
Download ==
    /\ at.step = "download"
    /\ remoteText' \in SUBSET Remote
    /\ at' = At("open", at.pack)
    /\ UNCHANGED <<disk, launches, failed>>

Pack == Order[at.pack]

NextPack == IF at.pack = 1 THEN At("download", 2) ELSE Done

\* save_merged_rule_set: what the file will hold.
Merged == (Base \cup remoteText) \ Ua

\* fs::write opens the file and truncates it, or fails and leaves it alone.
OpenFile ==
    /\ at.step = "open"
    /\ \/ /\ disk' = [disk EXCEPT ![Pack] = Torn]
          /\ at' = At("write", at.pack)
          /\ UNCHANGED failed
       \/ /\ failed' = failed \cup {Pack}
          /\ at' = NextPack
          /\ UNCHANGED disk
    /\ UNCHANGED <<remoteText, launches>>

\* ... and then writes the text, or fails half way.
WriteFile ==
    /\ at.step = "write"
    /\ \/ /\ disk' = [disk EXCEPT ![Pack] = Whole(Merged)]
          /\ UNCHANGED failed
       \/ /\ failed' = failed \cup {Pack}
          /\ UNCHANGED disk
    /\ at' = NextPack
    /\ UNCHANGED <<remoteText, launches>>

Update == Download \/ OpenFile \/ WriteFile

\* The shell is closed or killed at any time; its thread dies with it.
ShellEnds ==
    /\ at # Off
    /\ at' = Off /\ remoteText' = {}
    /\ UNCHANGED <<disk, launches, failed>>

-----------------------------------------------------------------------------

PackTypeOK ==
    /\ disk \in [Packs -> {Absent, Torn} \cup {Whole(l) : l \in SUBSET ((Base \cup Remote) \ Ua)}]
    /\ at \in {Off, Done} \cup [step : {"download", "open", "write"}, pack : {1, 2}]
    /\ remoteText \in SUBSET Remote
    /\ launches \in 0..MaxLaunches
    /\ failed \subseteq Packs

\* A pack file left half written - the shell died or the disk was full in the
\* middle of fs::write - is whole again once a launch has run its thread,
\* unless that write fails too or no shell runs.
TornHeals ==
    \A p \in Packs :
        (disk[p] = Torn) ~> (disk[p].state = "whole" \/ p \in failed \/ at = Off)
=============================================================================
