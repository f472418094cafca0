---------------------------- MODULE MCMainWindow ----------------------------
(* The main window for TLC's safety run: tasks of a kind and profiles are  *)
(* interchangeable.                                                        *)
EXTENDS MainWindow, TLC

Symmetry ==
    Permutations(Profiles) \cup Permutations(Handlers) \cup Permutations(Polls)
=============================================================================
