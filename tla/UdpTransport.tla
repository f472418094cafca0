---------------------------- MODULE UdpTransport ----------------------------
(***************************************************************************)
(* Exchanges of the engine's UDP DNS transport (dns/transport/udp.go) over *)
(* the connection pool: an exchange registers a callback under a query id, *)
(* writes its message and waits; a receive loop, started by the first user *)
(* of each connection, hands an answer to the callback of its id, whatever *)
(* question it answers.                                                    *)
(*                                                                         *)
(* A user of ConnPool is one exchange.  The network may lose, delay and    *)
(* repeat answers.                                                         *)
(***************************************************************************)
EXTENDS ConnPool

CONSTANT IdSpace    \* number of query ids, 2^16 in the code

ASSUME IdAssumption == IdSpace \in Nat \ {0}

Ids == 0..(IdSpace - 1)

VARIABLES
    queryId,        \* ids tried so far; queryId of the code is this modulo IdSpace
    number,         \* its value when each exchange got its id
    callbacks,      \* the exchange of each id in use
    sent,           \* messages written, with their connection and id
    answer,         \* whose answer each exchange was given
    receiving       \* number of receive loops on each connection

udpVars == <<queryId, number, callbacks, sent, answer, receiving>>
vars == <<connVars, udpVars>>

Init ==
    /\ PoolInit
    /\ queryId = 0 /\ number = [u \in Users |-> 0]
    /\ callbacks = [i \in Ids |-> NoUser]
    /\ sent = {} /\ answer = [u \in Users |-> NoUser]
    /\ receiving = [c \in Conns |-> 0]

-----------------------------------------------------------------------------
(* An exchange that has a connection.                                      *)

\* The first user of a connection starts its receive loop.
StartReceiving(u) ==
    /\ pc[u] = "holding"
    /\ pc' = [pc EXCEPT ![u] = "register"]
    /\ receiving' = [receiving EXCEPT ![on[u]] = @ + (IF created[u] THEN 1 ELSE 0)]
    /\ created' = [created EXCEPT ![u] = FALSE]
    /\ UNCHANGED <<gen, on, over, poolVars, dial, open,
                   queryId, number, callbacks, sent, answer>>

\* Mutant: the search starts at the first id each time.
FirstFree == {n \in 1..IdSpace : callbacks[n % IdSpace] = NoUser}
\* The ids that nextAvailableQueryId tries and finds free.
Candidates == {n \in (queryId + 1)..(queryId + IdSpace) : callbacks[n % IdSpace] = NoUser}

\* The one it takes.
NextNumber == CHOOSE n \in Candidates : \A m \in Candidates : n <= m

Register(u) ==
    /\ pc[u] = "register"
    /\ IF Candidates = {}
       THEN /\ Release(on[u])
            /\ Finish(u)
            /\ UNCHANGED <<queryId, number, callbacks>>
       ELSE /\ queryId' = NextNumber
            /\ number' = [number EXCEPT ![u] = NextNumber]
            /\ callbacks' = [callbacks EXCEPT ![NextNumber % IdSpace] = u]
            /\ pc' = [pc EXCEPT ![u] = "write"]
            /\ UNCHANGED <<gen, on, over, open>>
    /\ UNCHANGED <<created, poolVars, dial, sent, answer, receiving>>

Id(u) == number[u] % IdSpace

Write(u) ==
    /\ pc[u] = "write"
    /\ \/ /\ on[u] \in open
          /\ sent' = sent \cup {[conn |-> on[u], id |-> Id(u), query |-> u]}
          /\ pc' = [pc EXCEPT ![u] = "await"]
          /\ UNCHANGED <<poolVars, open>>
       \/ /\ Invalidate(on[u])
          /\ pc' = [pc EXCEPT ![u] = "leave"]
          /\ UNCHANGED sent
    /\ UNCHANGED <<gen, on, created, over, dial, queryId, number, callbacks, answer, receiving>>

\* The wait ends with an answer, with the connection, or with the context.
AwaitEnds(u) ==
    /\ pc[u] = "await"
    /\ \/ (answer[u] # NoUser \/ u \in over) /\ Release(on[u])
       \/ ConnOver(on[u]) /\ UNCHANGED open
    /\ pc' = [pc EXCEPT ![u] = "leave"]
    /\ UNCHANGED <<gen, on, created, over, poolVars, dial, udpVars>>

\* The deferred removal of the callback.
Leave(u) ==
    /\ pc[u] = "leave"
    /\ callbacks' = [callbacks EXCEPT ![Id(u)] = NoUser]
    /\ Finish(u)
    /\ UNCHANGED <<created, poolVars, dial, open,
                   queryId, number, sent, answer, receiving>>

-----------------------------------------------------------------------------
(* The receive loop of a connection.                                       *)

\* An answer to a message is read; the first one counts, and one that finds no
\* callback is dropped.
Receive(c) ==
    /\ receiving[c] > 0
    /\ \E m \in sent :
        LET u == callbacks[m.id]
        IN  /\ m.conn = c
            /\ u # NoUser /\ answer[u] = NoUser
            /\ answer' = [answer EXCEPT ![u] = m.query]
    /\ UNCHANGED <<connVars, queryId, number, callbacks, sent, receiving>>

\* Reading fails, as it does on a closed connection, and the loop ends; nobody
\* reads the answers that are under way.
StopReceiving(c) ==
    /\ receiving[c] > 0
    /\ receiving' = [receiving EXCEPT ![c] = @ - 1]
    /\ sent' = {m \in sent : m.conn # c}
    /\ Invalidate(c)
    /\ UNCHANGED <<userVars, dial, queryId, number, callbacks, answer>>

-----------------------------------------------------------------------------
Next ==
    \/ PoolStep /\ UNCHANGED udpVars
    \/ \E u \in Users :
        StartReceiving(u) \/ Register(u) \/ Write(u) \/ AwaitEnds(u) \/ Leave(u)
    \/ \E c \in Conns : Receive(c) \/ StopReceiving(c)

UserStep(u) ==
    \/ (Acquire(u) \/ WaitEnds(u) \/ Collect(u) \/ Expire(u)) /\ UNCHANGED udpVars
    \/ StartReceiving(u) \/ Register(u) \/ Write(u) \/ AwaitEnds(u) \/ Leave(u)

\* Timers and the scheduler are fair; the network and its servers are not.
Fairness == \A u \in Users : WF_vars(UserStep(u))

Spec == Init /\ [][Next]_vars /\ Fairness

-----------------------------------------------------------------------------
\* No connection has two receive loops, and an exchange waits for an answer on
\* the pool's connection only while somebody reads it or has still to start to: whichever
\* user of the pool takes a connection first starts the loop, also when the one
\* that had it dialled has given up.
OneReceiver ==
    /\ \A c \in Conns : receiving[c] <= 1
    /\ \A u \in Users : pc[u] = "await" /\ Tracked(on[u]) =>
        \/ receiving[on[u]] = 1
        \/ \E v \in Users : pc[v] = "holding" /\ on[v] = on[u] /\ created[v]

\* The transport does not compare questions: an exchange may be given the
\* answer to another one.  That takes an answer that is late by a whole turn of
\* the query ids.
LateByATurn ==
    \A u \in Users : answer[u] \notin {NoUser, u} =>
        number[u] >= number[answer[u]] + IdSpace

\* Every exchange returns, whatever becomes of the dials, the connections and
\* the pool, unless it needs a dial beyond the bound.
ExchangesReturn ==
    LET spent == \A c \in Conns : dial[c].stage # "idle"
    IN  \A u \in Users : pc[u] = "acquire" ~> pc[u] = "done" \/ (pc[u] = "acquire" /\ spent)

=============================================================================
