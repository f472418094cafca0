--------------------------- MODULE MCUdpTransport ---------------------------
(***************************************************************************)
(* Two ways to run the transport: with everything that may happen to       *)
(* connections and to the pool, for two exchanges that stay unanswered;    *)
(* and with answers that come late, for three exchanges over a connection  *)
(* that lasts.                                                             *)
(***************************************************************************)
EXTENDS UdpTransport

CONSTANTS u1, u2, u3

MCUsers == {u1, u2, u3}

VARIABLE focus

MCInit == Init /\ focus \in {"reset", "close", "answers"}

Plain ==
    /\ focus # "reset" => state' = state
    /\ focus # "close" => ~poolClosed'
    /\ IF focus = "answers"
       THEN all[state] \subseteq all'[state] /\ \A c \in Conns : ~dial'[c].failed
       ELSE /\ answer' = answer /\ pc'[u3] = "idle"
            /\ \A u \in Users : pc'[u] = "leave" /\ pc[u] = "write" => on[u] \notin open

MCNext == Next /\ Plain /\ UNCHANGED focus

MCFairness == \A u \in Users : WF_vars(UserStep(u) /\ Plain /\ UNCHANGED focus)
MCSpec == MCInit /\ [][MCNext]_<<vars, focus>> /\ MCFairness
=============================================================================
