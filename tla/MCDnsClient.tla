---------------------------- MODULE MCDnsClient -----------------------------
(***************************************************************************)
(* Two callers and one dial, two questions, two transports: a limited rule *)
(* on the first for one question, and the default on the second.  The      *)
(* server of the first has a name that the second resolves, or the rules,  *)
(* or, where the configuration loops, the first itself.                    *)
(***************************************************************************)
EXTENDS DnsClient, TLC

CONSTANTS caller1, caller2, dial

MCTasks == {caller1, caller2, dial}
MCCallers == {caller1, caller2}
MCQuestions == {"site", "server"}
MCTransports == {"remote", "local"}
MCRules == << [transport |-> "remote", limited |-> TRUE, questions |-> {"site"}],
              [transport |-> "local", limited |-> FALSE, questions |-> {"site", "server"}] >>

Setup(x, apart) ==
    [resolver |-> [remote |-> [question |-> "server", via |-> x], local |-> NoName],
     independent |-> apart]
MCSetups == {Setup("local", FALSE), Setup("remote", FALSE), Setup(ByRules, TRUE)}

Query(q, via, kind, plain) == [question |-> q, via |-> via, kind |-> kind, plain |-> plain]
MCRequests ==
    caller1 :> {Query("site", ByRules, "exchange", FALSE), Query("server", "remote", "lookup", FALSE)}
    @@ caller2 :> {Query("site", ByRules, "lookup", FALSE),
                   Query("server", "local", "exchange", TRUE)}
=============================================================================
