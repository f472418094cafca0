----------------------------- MODULE MCRuleSets -----------------------------
(* The rule sets for TLC.  Local and remote sets meet only in the stages   *)
(* of the engine, so a run varies one kind and keeps the other plain: with *)
(* the focus on the packs the server always delivers the same version with *)
(* its tag; with the focus on the remote set the packs are written once.   *)
EXTENDS EngineRuleSets

VARIABLE focus

MCUsed == Packs \cup Remotes

MCInit ==
    /\ Init
    /\ focus \in {"packs", "remote"}
    /\ focus = "packs" => ~caching

PlainRemote ==
    /\ upstream' = upstream /\ updates' = 0
    /\ \A r \in Remotes : fetching'[r].kind \in {"content", "garbage", "error"} =>
           fetching'[r] = Reply("content", upstream[r], upstream[r])

PlainPacks == launches' <= 1 /\ remoteText' = {} /\ failed' = {}

MCNext ==
    /\ Next
    /\ focus = "packs" => PlainRemote
    /\ focus = "remote" => PlainPacks
    /\ UNCHANGED focus

MCSpec == MCInit /\ [][MCNext]_<<vars, focus>> /\ Fairness
=============================================================================
