---------------------------- MODULE EditHistory ----------------------------
(***************************************************************************)
(* What undo and redo promise: the lists before the present one and the    *)
(* lists that were undone, in order.  Undo brings back exactly the list    *)
(* the last edit replaced, redo exactly the list the last undo replaced.   *)
(* An edit makes the undone lists unreachable; so does one that is refused *)
(* or fails, and a history that is full loses its oldest list.             *)
(***************************************************************************)
EXTENDS Sequences, SequencesExt

CONSTANT Lists

VARIABLES past, present, future

vars == <<past, present, future>>

Init == past = <<>> /\ present \in Lists /\ future = <<>>

Edit ==
    /\ present' \in Lists
    /\ past' = Append(past, present)
    /\ future' = <<>>

\* Further entries of one import, or a change that is not an edit (the mode).
Amend == present' \in Lists /\ UNCHANGED <<past, future>>

Forget ==
    /\ past' \in {past} \cup (IF past = <<>> THEN {} ELSE {Tail(past)})
    /\ future' = <<>>
    /\ UNCHANGED present

Undo ==
    /\ past # <<>>
    /\ present' = Last(past)
    /\ past' = Front(past)
    /\ future' = Append(future, present)

Redo ==
    /\ future # <<>>
    /\ present' = Last(future)
    /\ future' = Front(future)
    /\ past' = Append(past, present)

Next == Edit \/ Amend \/ Forget \/ Undo \/ Redo

Spec == Init /\ [][Next]_vars
=============================================================================
