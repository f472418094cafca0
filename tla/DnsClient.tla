----------------------------- MODULE DnsClient ------------------------------
(***************************************************************************)
(* Queries of the engine's DNS router and client (dns/router.go,           *)
(* dns/client.go): a query walks through the rules, each attempt looks in  *)
(* the cache, takes the lock of its question and transport or waits for    *)
(* the query that holds it, asks the transport, and stores the answer.  A  *)
(* transport that has to dial a server known by name makes a query of its  *)
(* own, in the context of the one it serves.                               *)
(*                                                                         *)
(* A task is a query: one of a caller, or one that serves a dial.          *)
(* Questions are address queries of one family: the generated              *)
(* configuration asks for ipv4_only.                                       *)
(***************************************************************************)
EXTENDS Naturals, FiniteSets, Sequences, FiniteSetsExt

CONSTANTS
    Tasks,
    Callers,        \* the tasks of the engine's connections; the others serve dials
    Questions,
    Transports,
    Rules,          \* of the configuration; the last stands for the default transport
    Setups,         \* configurations: how the server of each transport is found,
                    \* and whether the cache is kept for each transport apart
    Requests,       \* the queries that each caller may make
    NoTask

\* The transport of a query that lets the rules choose.
ByRules == "rules"
\* The server of the transport is given by its address.
NoName == [kind |-> "address"]

RuleSpace == [transport : Transports, limited : BOOLEAN, questions : SUBSET Questions]
ResolverSpace == [question : Questions, via : Transports \cup {ByRules}]
RequestSpace == [question : Questions, via : Transports \cup {ByRules},
                 kind : {"lookup", "exchange"}, plain : BOOLEAN]

ASSUME RulesAssumption ==
    /\ Rules \in Seq(RuleSpace) /\ Rules # <<>>
    /\ Rules[Len(Rules)].questions = Questions /\ ~Rules[Len(Rules)].limited
ASSUME SetupsAssumption ==
    Setups \subseteq [resolver : [Transports -> ResolverSpace \cup {NoName}], independent : BOOLEAN]
ASSUME RequestsAssumption == Requests \in [Callers -> SUBSET RequestSpace]
ASSUME TasksAssumption == Callers \subseteq Tasks /\ NoTask \notin Tasks

VARIABLES
    resolver,
    independent,
    pc,             \* where each query is
    request,        \* what it asks
    parent,         \* the query whose dial it serves
    rule,           \* the rule of the present attempt
    waiting,        \* the query whose channel it waits for, until that is closed
    leading,        \* does it hold the lock of its key?
    over,           \* queries whose exchange has run out of time
    outcome,        \* what the attempt came to
    lock,           \* cacheLock: keys and the queries whose channels are there
    cache,          \* answers kept, by cache key
    rdrc            \* rejected answers on record

queryVars == <<pc, request, parent, rule, waiting, leading, over, outcome>>
sharedVars == <<lock, cache, rdrc>>
vars == <<resolver, independent, queryVars, sharedVars>>

Nothing == [kind |-> "none"]
Failed == [kind |-> "failed"]
Refused == [kind |-> "refused"]
Gave(answer) == [kind |-> "answer", answer |-> answer]

Limited(t) == request[t].via = ByRules /\ Rules[rule[t]].limited
Transport(t) == IF request[t].via = ByRules THEN Rules[rule[t]].transport ELSE request[t].via
Key(t) == <<request[t].question, Transport(t)>>

\* The first rule after the i-th that matches the question: matchDNS.
NextRule(q, i) == Min({j \in (i + 1)..Len(Rules) : q \in Rules[j].questions})

CacheKey(key) == IF independent THEN key ELSE <<key[1], ByRules>>
Cached(key) == {c \in cache : c.key = CacheKey(key)}

Init ==
    /\ \E s \in Setups : resolver = s.resolver /\ independent = s.independent
    /\ pc = [t \in Tasks |-> "idle"]
    /\ request = [t \in Tasks |-> Nothing]
    /\ parent = [t \in Tasks |-> NoTask]
    /\ rule = [t \in Tasks |-> 0]
    /\ waiting = [t \in Tasks |-> NoTask]
    /\ leading = [t \in Tasks |-> FALSE]
    /\ over = {}
    /\ outcome = [t \in Tasks |-> Nothing]
    /\ lock = {} /\ cache = {} /\ rdrc = {}

-----------------------------------------------------------------------------
(* The context of a query that serves a dial ends when an exchange above it *)
(* runs out of time.  The context of a caller may end at any moment, which  *)
(* shows in the two places that look at it: a wait and an exchange.         *)

Ancestors(t) ==
    LET up[n \in 0..Cardinality(Tasks)] ==
            IF n = 0 THEN {t}
            ELSE up[n - 1] \cup {parent[u] : u \in up[n - 1] \ {NoTask}}
    IN  up[Cardinality(Tasks)] \ {t, NoTask}
\* Mutant: a dial is not in the context of the exchange it serves.
ContextDetached(t) == FALSE
ContextOver(t) == Ancestors(t) \cap over # {}

-----------------------------------------------------------------------------
(* The router: the attempts of a query.                                    *)

\* An attempt under the i-th rule: Lookup looks in the cache before it makes
\* the message that Exchange takes; a plain query passes the cache by.
Attempt(t, r, i) ==
    /\ rule' = [rule EXCEPT ![t] = i]
    /\ outcome' = [outcome EXCEPT ![t] = Nothing]
    /\ pc' = [pc EXCEPT ![t] = IF r.plain THEN "check"
                               ELSE IF r.kind = "lookup" THEN "peek" ELSE "enter"]

FirstRule(r) == IF r.via = ByRules THEN NextRule(r.question, 0) ELSE 0

\* A connection, or the DNS inbound, has a query.
Begin(t) ==
    /\ t \in Callers /\ pc[t] = "idle"
    /\ \E r \in Requests[t] :
        /\ request' = [request EXCEPT ![t] = r]
        /\ Attempt(t, r, FirstRule(r))
    /\ UNCHANGED <<resolver, independent, parent, waiting, leading, over, sharedVars>>

IsError(t) ==
    \/ outcome[t].kind \in {"failed", "refused"}
    \/ /\ request[t].kind = "lookup"
       /\ outcome[t].answer.rcode # "ok"

\* After a limited rule, Lookup goes on after any error, Exchange after a
\* refused answer.
GoesOn(t) ==
    /\ Limited(t)
    /\ IF request[t].kind = "lookup" THEN IsError(t) ELSE outcome[t] = Refused

Decide(t) ==
    /\ pc[t] = "decide"
    /\ IF GoesOn(t)
       THEN Attempt(t, request[t], NextRule(request[t].question, rule[t]))
       ELSE pc' = [pc EXCEPT ![t] = "done"] /\ UNCHANGED <<rule, outcome>>
    /\ UNCHANGED <<resolver, independent, request, parent, waiting, leading, over,
                   sharedVars>>

-----------------------------------------------------------------------------
(* The client: the cache and the lock of a question.                       *)

\* Mutant: the lock stays when the answer is refused.
LeaveRefused(t, out) ==
    /\ outcome' = [outcome EXCEPT ![t] = out]
    /\ over' = over \ {t}
    /\ pc' = [pc EXCEPT ![t] = IF leading[t] /\ out # Refused THEN "delete" ELSE "decide"]
\* The exchange of an attempt ends; the holder of the lock has it to release.
Leave(t, out) ==
    /\ outcome' = [outcome EXCEPT ![t] = out]
    /\ over' = over \ {t}
    /\ pc' = [pc EXCEPT ![t] = IF leading[t] THEN "delete" ELSE "decide"]

\* An entry found is used, or has expired and is removed: loadResponse.
LoadOr(t, next) ==
    \/ /\ Cached(Key(t)) = {}
       /\ pc' = [pc EXCEPT ![t] = next]
       /\ UNCHANGED <<outcome, over, cache>>
    \/ \E c \in Cached(Key(t)) :
        \/ Leave(t, Gave(c.answer)) /\ UNCHANGED cache
        \/ /\ cache' = cache \ {c}
           /\ pc' = [pc EXCEPT ![t] = next]
           /\ UNCHANGED <<outcome, over>>

Peek(t) ==
    /\ pc[t] = "peek"
    /\ LoadOr(t, "enter")
    /\ UNCHANGED <<resolver, independent, request, parent, rule, waiting, leading,
                   lock, rdrc>>

\* Mutant: the lock is that of the question, as the entry of the cache is.
SameQuestion(k, key) == k[1] = key[1]
\* cacheLock is keyed by question and transport.
Same(k, key) == k = key

\* The query becomes the holder of the lock, or waits for the holder.
Enter(t) ==
    /\ pc[t] = "enter"
    /\ IF \E l \in lock : Same(l.key, Key(t))
       THEN /\ \E l \in lock :
                /\ Same(l.key, Key(t))
                /\ waiting' = [waiting EXCEPT ![t] = l.holder]
            /\ pc' = [pc EXCEPT ![t] = "wait"]
            /\ UNCHANGED <<leading, lock>>
       ELSE /\ lock' = lock \cup {[key |-> Key(t), holder |-> t]}
            /\ leading' = [leading EXCEPT ![t] = TRUE]
            /\ pc' = [pc EXCEPT ![t] = "load"]
            /\ UNCHANGED waiting
    /\ UNCHANGED <<resolver, independent, request, parent, rule, over, outcome,
                   cache, rdrc>>

\* The holder is done: the cache is looked at, and if the answer is not there
\* the query asks for itself, without the lock.
Wake(t) ==
    /\ pc[t] = "wait" /\ waiting[t] = NoTask
    /\ pc' = [pc EXCEPT ![t] = "load"]
    /\ UNCHANGED <<resolver, independent, request, parent, rule, waiting, leading, over,
                   outcome, sharedVars>>

\* The context ends before the holder is done.
StopWaiting(t) ==
    /\ pc[t] = "wait" /\ (t \in Callers \/ ContextOver(t))
    /\ waiting' = [waiting EXCEPT ![t] = NoTask]
    /\ Leave(t, Failed)
    /\ UNCHANGED <<resolver, independent, request, parent, rule, leading,
                   sharedVars>>

Load(t) ==
    /\ pc[t] = "load"
    /\ LoadOr(t, "check")
    /\ UNCHANGED <<resolver, independent, request, parent, rule, waiting, leading,
                   lock, rdrc>>

\* A query that serves a dial of the same transport is a loop; an answer of
\* this transport that was rejected before is not asked for again.
Check(t) ==
    /\ pc[t] = "check"
    /\ IF parent[t] # NoTask /\ Transport(parent[t]) = Transport(t)
       THEN Leave(t, Failed)
       ELSE IF ~request[t].plain /\ Limited(t) /\ Key(t) \in rdrc
       THEN Leave(t, Refused)
       ELSE pc' = [pc EXCEPT ![t] = "send"] /\ UNCHANGED <<outcome, over>>
    /\ UNCHANGED <<resolver, independent, request, parent, rule, waiting, leading,
                   sharedVars>>

Delete(t) ==
    /\ pc[t] = "delete"
    /\ lock' = {l \in lock : l.key # Key(t)}
    /\ pc' = [pc EXCEPT ![t] = "close"]
    /\ UNCHANGED <<resolver, independent, request, parent, rule, waiting, leading, over,
                   outcome, cache, rdrc>>

Close(t) ==
    /\ pc[t] = "close"
    /\ waiting' = [u \in Tasks |-> IF waiting[u] = t THEN NoTask ELSE waiting[u]]
    /\ leading' = [leading EXCEPT ![t] = FALSE]
    /\ pc' = [pc EXCEPT ![t] = "decide"]
    /\ UNCHANGED <<resolver, independent, request, parent, rule, over,
                   outcome, lock, cache, rdrc>>

-----------------------------------------------------------------------------
(* The transport.                                                          *)

\* The message is written to a connection there is, or to one that needs no
\* name.
Send(t) ==
    /\ pc[t] = "send"
    /\ outcome' = [outcome EXCEPT ![t] = Nothing]
    /\ pc' = [pc EXCEPT ![t] = "asked"]
    /\ UNCHANGED <<resolver, independent, request, parent, rule, waiting, leading, over,
                   sharedVars>>

\* The server is dialled by name, which takes a lookup of its own.
Dial(t) ==
    /\ pc[t] = "send" /\ resolver[Transport(t)] # NoName
    /\ \E c \in Tasks \ Callers :
        LET r == [question |-> resolver[Transport(t)].question,
                  via |-> resolver[Transport(t)].via, kind |-> "lookup", plain |-> FALSE]
        IN  /\ pc[c] = "idle"
            /\ request' = [request EXCEPT ![c] = r]
            /\ parent' = [parent EXCEPT ![c] = t]
            /\ rule' = [rule EXCEPT ![c] = FirstRule(r)]
            /\ pc' = [pc EXCEPT ![t] = "dialling", ![c] = "peek"]
    /\ UNCHANGED <<resolver, independent, waiting, leading, over, outcome, sharedVars>>

\* The lookup has returned: the connection is made, or the exchange fails.  The
\* task of the lookup is free for another.
Dialled(t) ==
    /\ pc[t] = "dialling"
    /\ \E c \in Tasks :
        /\ parent[c] = t /\ pc[c] = "done"
        /\ request' = [request EXCEPT ![c] = Nothing]
        /\ parent' = [parent EXCEPT ![c] = NoTask]
        /\ rule' = [rule EXCEPT ![c] = 0]
        /\ LET failed == IsError(c)
           IN  /\ outcome' = [outcome EXCEPT ![c] = Nothing, ![t] = IF failed THEN Failed ELSE Nothing]
               /\ pc' = [pc EXCEPT ![c] = "idle",
                                   ![t] = IF ~failed THEN "asked"
                                          ELSE IF leading[t] THEN "delete" ELSE "decide"]
               /\ over' = IF failed THEN over \ {t} ELSE over
    /\ UNCHANGED <<resolver, independent, waiting, leading, sharedVars>>

\* The time of the exchange runs out.
Expire(t) ==
    /\ pc[t] \in {"dialling", "asked"} /\ t \notin over
    /\ over' = over \cup {t}
    /\ UNCHANGED <<resolver, independent, pc, request, parent, rule, waiting, leading,
                   outcome, sharedVars>>

\* The exchange fails, always in the end when its context is over.
Fail(t) ==
    /\ pc[t] = "asked"
    /\ Leave(t, Failed)
    /\ UNCHANGED <<resolver, independent, request, parent, rule, waiting, leading,
                   sharedVars>>

\* The entry of a key is replaced.
Keep(key, answer) ==
    cache' = (cache \ Cached(key)) \cup {[key |-> CacheKey(key), answer |-> answer]}

\* Mutant: the answer is kept before the rule looks at it.
KeepsUnchecked(t, rcode, accepted, lives) == ~request[t].plain /\ rcode # "failure" /\ lives
\* Is the answer kept?
Keeps(t, rcode, accepted, lives) ==
    accepted /\ ~request[t].plain /\ rcode # "failure" /\ lives

\* The transport answers.  A limited rule looks at the answer, and what it
\* rejects goes on record; the rest is kept unless it has no lifetime or is
\* the failure of a server.
Answer(t) ==
    /\ pc[t] = "asked"
    /\ \E rcode \in {"ok", "nxdomain", "failure"}, accepted, lives \in BOOLEAN :
        LET answer == [question |-> request[t].question, from |-> Transport(t), rcode |-> rcode,
                       accepted |-> accepted]
        IN  /\ ~Limited(t) => accepted
            /\ Limited(t) /\ rcode = "failure" => ~accepted
            /\ Leave(t, IF accepted THEN Gave(answer) ELSE Refused)
            /\ IF Keeps(t, rcode, accepted, lives) THEN Keep(Key(t), answer) ELSE UNCHANGED cache
            /\ rdrc' = IF ~accepted /\ ~request[t].plain /\ rcode # "failure"
                       THEN rdrc \cup {Key(t)} ELSE rdrc
    /\ UNCHANGED <<resolver, independent, request, parent, rule, waiting, leading,
                   lock>>

\* The network changes: the cache is emptied while exchanges are under way.
ResetNetwork ==
    /\ cache # {}
    /\ cache' = {}
    /\ UNCHANGED <<resolver, independent, queryVars, lock, rdrc>>

-----------------------------------------------------------------------------
Return(t) ==
    \/ Peek(t) \/ Enter(t) \/ Wake(t) \/ Load(t) \/ Check(t)
    \/ Send(t) \/ Dial(t) \/ Dialled(t) \/ Delete(t) \/ Close(t) \/ Decide(t)
    \/ Expire(t) \/ (ContextOver(t) /\ StopWaiting(t))
    \/ ((t \in over \/ ContextOver(t)) /\ Fail(t))

Next ==
    \/ \E t \in Tasks :
        \/ Begin(t) \/ Peek(t) \/ Enter(t) \/ Wake(t) \/ StopWaiting(t)
        \/ Load(t) \/ Check(t) \/ Send(t) \/ Dial(t) \/ Dialled(t) \/ Expire(t)
        \/ Fail(t) \/ Answer(t) \/ Delete(t) \/ Close(t) \/ Decide(t)
    \/ ResetNetwork

\* The scheduler and the timer of an exchange are fair; nothing is assumed of
\* the servers.
Fairness == \A t \in Tasks : WF_vars(Return(t))

Spec == Init /\ [][Next]_vars /\ Fairness

-----------------------------------------------------------------------------
\* The lock: one holder for a key, which is at work and will close the channel
\* it put there, and nobody waits for a channel that nobody is to close.  The
\* deferred release in Client.Exchange is what keeps it on every way out.
LocksHeld ==
    /\ \A l, m \in lock : l.key = m.key => l = m
    /\ \A l \in lock : leading[l.holder] /\ l.key = Key(l.holder)
    /\ \A t \in Tasks : leading[t] =>
        /\ pc[t] \in {"load", "check", "send", "dialling", "asked", "delete", "close"}
        /\ pc[t] # "close" => [key |-> Key(t), holder |-> t] \in lock
    /\ \A t \in Tasks : waiting[t] # NoTask =>
        /\ pc[t] = "wait" /\ leading[waiting[t]]
        /\ Key(waiting[t]) = Key(t)

\* What the cache holds answers the question of its key (and comes from its
\* transport when transports are apart), is no server failure and was not
\* rejected; and no finished query hands over a
\* rejected answer.
AnswersSound ==
    /\ \A c \in cache :
        /\ c.answer.accepted /\ c.answer.rcode # "failure"
        /\ c.answer.question = c.key[1]
        /\ independent => c.answer.from = c.key[2]
    /\ \A t \in Tasks : pc[t] = "done" /\ outcome[t].kind = "answer" =>
        /\ outcome[t].answer.accepted
        /\ outcome[t].answer.question = request[t].question
        /\ independent \/ request[t].plain => outcome[t].answer.from = Transport(t)

\* The transports that a dial of a transport may ask.
Asks(x) ==
    IF resolver[x] = NoName THEN {}
    ELSE IF resolver[x].via # ByRules THEN {resolver[x].via}
    ELSE {Rules[i].transport : i \in {j \in DOMAIN Rules : resolver[x].question \in Rules[j].questions}}
Loopless == \A S \in (SUBSET Transports) \ {{}} : \E x \in S : Asks(x) \cap S = {}

WaitsFor(t, u) ==
    \/ waiting[t] = u
    \/ pc[t] = "dialling" /\ parent[u] = t

\* Queries wait for one another in a circle, until time runs out, only when
\* the servers of the transports need one another: the lock of a question and
\* a transport is never waited for by a query that its holder depends on.
WaitsEnd ==
    Loopless => \A S \in (SUBSET Tasks) \ {{}} : \E t \in S : \A u \in S : ~WaitsFor(t, u)

\* Every query returns, whatever the servers do and even where the
\* configuration has a loop: the time of the exchanges ends every wait.
QueriesReturn == \A t \in Callers : pc[t] # "idle" ~> pc[t] = "done"

=============================================================================
