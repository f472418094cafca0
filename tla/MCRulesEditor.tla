--------------------------- MODULE MCRulesEditor ---------------------------
(* The rules editor for TLC: handlers and domains are interchangeable.     *)
EXTENDS RulesEditor, TLC

Symmetry == Permutations(Handlers) \cup Permutations(Domains)
=============================================================================
