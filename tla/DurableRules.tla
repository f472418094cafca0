---------------------------- MODULE DurableRules ----------------------------
(***************************************************************************)
(* What saving the routing rules promises: the stored list is always a     *)
(* whole list.  It changes in one step, to the list held in memory, and a  *)
(* shell that starts again holds exactly what is stored.  Only a disk that *)
(* loses or withholds the file, if there is such a disk, makes it hold the *)
(* default list instead.                                                   *)
(***************************************************************************)
CONSTANTS Lists, Default, Lossy

VARIABLES
    up,         \* is the shell running?
    held,       \* the list in its memory
    stored      \* the list on disk

vars == <<up, held, stored>>

Init == up = FALSE /\ held = Default /\ stored = Default

Start ==
    /\ ~up /\ up' = TRUE
    /\ held' = stored \/ (Lossy /\ held' = Default)
    /\ UNCHANGED stored

Edit == up /\ held' \in Lists /\ UNCHANGED <<up, stored>>

Save == up /\ stored' = held /\ UNCHANGED <<up, held>>

Stop == up /\ up' = FALSE /\ UNCHANGED <<held, stored>>

Lose == Lossy /\ ~up /\ stored' = Default /\ UNCHANGED <<up, held>>

Next == Start \/ Edit \/ Save \/ Stop \/ Lose

Spec == Init /\ [][Next]_vars
=============================================================================
