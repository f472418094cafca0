------------------------------ MODULE ConnPool ------------------------------
(***************************************************************************)
(* The connection pool of the engine's DNS transports in its single mode   *)
(* (dns/transport/conn_pool.go): all users share one connection, which the *)
(* first of them has dialled by a goroutine; the others wait for it.  A    *)
(* change of the network replaces the whole state of the pool.             *)
(*                                                                         *)
(* A connection is named by the dial that makes it.  The states of the     *)
(* pool are numbered.  The parts of an operation under the pool's mutex    *)
(* are one step; Close of a connection follows the unlock in that step.    *)
(***************************************************************************)
EXTENDS Naturals, FiniteSets

CONSTANTS
    Users,
    MaxDials,       \* bound: dials made
    MaxResets,      \* bound: states of the pool after the first
    NoUser

ASSUME PoolAssumption ==
    {MaxDials, MaxResets} \subseteq Nat /\ NoUser \notin Users

Conns == 1..MaxDials
NoConn == 0
States == 0..MaxResets

VARIABLES
    pc,             \* where each user is
    gen,            \* the state a user has read: current
    on,             \* the dial it waits for, then the connection it has
    created,        \* was it told to look after the connection?
    over,           \* users whose context is done
    state,          \* number of the pool's state
    poolClosed,
    shared,         \* connection of each state
    claimed,        \* sharedClaimed
    connecting,     \* dial under way in each state
    all,            \* connections tracked by each state
    cancelled,      \* states whose context is done
    retiring,       \* states replaced whose connections are still to be closed
    dial,           \* the goroutine connectSingle of each dial
    open            \* connections open at the system

poolVars == <<state, poolClosed, shared, claimed, connecting, all, cancelled, retiring>>
userVars == <<pc, gen, on, created, over>>
connVars == <<poolVars, userVars, dial, open>>

Undialled == [stage |-> "idle", owner |-> NoUser, gen |-> 0, failed |-> FALSE]

PoolInit ==
    /\ pc = [u \in Users |-> "idle"] /\ gen = [u \in Users |-> 0]
    /\ on = [u \in Users |-> NoConn] /\ created = [u \in Users |-> FALSE] /\ over = {}
    /\ state = 0 /\ poolClosed = FALSE
    /\ shared = [g \in States |-> NoConn] /\ claimed = [g \in States |-> FALSE]
    /\ connecting = [g \in States |-> NoConn] /\ all = [g \in States |-> {}]
    /\ cancelled = {} /\ retiring = {}
    /\ dial = [c \in Conns |-> Undialled] /\ open = {}

\* Is the connection tracked by the state in force?
Tracked(c) == ~poolClosed /\ c \in all[state]
\* The context of a shared connection: sharedCtx.
ConnOver(c) == c \notin all[dial[c].gen] \/ dial[c].gen \in cancelled

-----------------------------------------------------------------------------
(* acquireShared                                                           *)

Begin(u) ==
    /\ pc[u] = "idle"
    /\ pc' = [pc EXCEPT ![u] = "acquire"]
    /\ UNCHANGED <<gen, on, created, over, poolVars, dial, open>>

\* The user returns, with which its context ends.
Finish(u) ==
    /\ pc' = [pc EXCEPT ![u] = "done"]
    /\ gen' = [gen EXCEPT ![u] = 0] /\ on' = [on EXCEPT ![u] = NoConn]
    /\ over' = over \ {u}
Again(u) ==
    /\ pc' = [pc EXCEPT ![u] = "acquire"]
    /\ gen' = [gen EXCEPT ![u] = 0] /\ on' = [on EXCEPT ![u] = NoConn]
    /\ UNCHANGED over

\* Mutant: the user that had the connection dialled looks after it.
TheDialler(u) == dial[shared[state]].owner = u
\* The first to take a connection looks after it.
LooksAfter(u) == ~claimed[state]

\* The user takes the shared connection.
Take(u) ==
    /\ on' = [on EXCEPT ![u] = shared[state]]
    /\ created' = [created EXCEPT ![u] = LooksAfter(u)]
    /\ claimed' = [claimed EXCEPT ![state] = TRUE]
    /\ pc' = [pc EXCEPT ![u] = "holding"]
    /\ gen' = [gen EXCEPT ![u] = 0]
    /\ UNCHANGED over

\* There is a connection, or a dial under way, or the user starts one.
Acquire(u) ==
    /\ pc[u] = "acquire"
    /\ \/ poolClosed /\ Finish(u) /\ UNCHANGED <<created, claimed, connecting, dial>>
       \/ /\ ~poolClosed /\ shared[state] # NoConn
          /\ Take(u)
          /\ UNCHANGED <<connecting, dial>>
       \/ /\ ~poolClosed /\ shared[state] = NoConn
          /\ gen' = [gen EXCEPT ![u] = state]
          /\ pc' = [pc EXCEPT ![u] = "waiting"]
          /\ UNCHANGED <<created, claimed, over>>
          /\ IF connecting[state] # NoConn
             THEN on' = [on EXCEPT ![u] = connecting[state]] /\ UNCHANGED <<connecting, dial>>
             ELSE \E c \in Conns :
                /\ dial[c].stage = "idle" /\ \A d \in 1..(c - 1) : dial[d].stage # "idle"
                /\ dial' = [dial EXCEPT ![c] =
                       [stage |-> "dialling", owner |-> u, gen |-> state, failed |-> FALSE]]
                /\ connecting' = [connecting EXCEPT ![state] = c]
                /\ on' = [on EXCEPT ![u] = c]
    /\ UNCHANGED <<state, poolClosed, shared, all, cancelled, retiring, open>>

\* Mutant: the wait does not look at the context of the user.
WaitEndsDeaf(u) ==
    /\ pc[u] = "waiting"
    /\ \/ /\ dial[on[u]].stage = "done"
          /\ pc' = [pc EXCEPT ![u] = "collect"]
          /\ UNCHANGED <<gen, on, over>>
       \/ gen[u] \in cancelled /\ IF poolClosed THEN Finish(u) ELSE Again(u)
    /\ UNCHANGED <<created, poolVars, dial, open>>
\* The wait ends with the dial, with the context of the user, or with that of
\* the state, after which the user starts again unless the pool is closed.
WaitEnds(u) ==
    /\ pc[u] = "waiting"
    /\ \/ /\ dial[on[u]].stage = "done"
          /\ pc' = [pc EXCEPT ![u] = "collect"]
          /\ UNCHANGED <<gen, on, over>>
       \/ u \in over /\ Finish(u)
       \/ gen[u] \in cancelled /\ IF poolClosed THEN Finish(u) ELSE Again(u)
    /\ UNCHANGED <<created, poolVars, dial, open>>

\* collectShared: only the user that had it dialled sees the error of a dial.
Collect(u) ==
    /\ pc[u] = "collect"
    /\ \/ /\ dial[on[u]].failed
          /\ IF dial[on[u]].owner = u THEN Finish(u) ELSE Again(u)
          /\ UNCHANGED <<created, claimed>>
       \/ /\ ~dial[on[u]].failed
          /\ IF poolClosed \/ gen[u] # state
             THEN Finish(u) /\ UNCHANGED <<created, claimed>>
             ELSE IF shared[state] = NoConn
             THEN Again(u) /\ UNCHANGED <<created, claimed>>
             ELSE Take(u)
    /\ UNCHANGED <<state, poolClosed, shared, connecting, all, cancelled, retiring, dial, open>>

\* The context of a user is done: its time has run out, which shows where the
\* user waits and in the dial it has started.
Expire(u) ==
    /\ pc[u] \in {"waiting", "await"} /\ u \notin over
    /\ over' = over \cup {u}
    /\ UNCHANGED <<pc, gen, on, created, poolVars, dial, open>>

-----------------------------------------------------------------------------
(* connectSingle, in a goroutine of its own under the context of its owner *)

DialOver(c) ==
    \/ dial[c].owner \in over \/ pc[dial[c].owner] = "done"
    \/ dial[c].gen \in cancelled

\* The dial returns; a connection made for a context that is done is closed.
DialEnds(c) ==
    /\ dial[c].stage = "dialling"
    /\ \E made \in BOOLEAN :
        LET kept == made /\ ~DialOver(c)
        IN  /\ dial' = [dial EXCEPT ![c].stage = "install", ![c].failed = ~kept]
            /\ open' = IF kept THEN open \cup {c} ELSE open
    /\ UNCHANGED <<poolVars, userVars>>

\* Mutant: the connection is installed in a state that has been replaced.
LostIfClosed(c) == poolClosed
\* Has the pool gone on without the connection?
Lost(c) == poolClosed \/ dial[c].gen # state

\* The connection is installed in the state it was dialled for, or closed.
Install(c) ==
    /\ dial[c].stage = "install"
    /\ LET g == dial[c].gen
           failed == dial[c].failed \/ Lost(c)
       IN  /\ connecting' = [connecting EXCEPT ![g] = NoConn]
           /\ dial' = [dial EXCEPT ![c].stage = "signal", ![c].failed = failed]
           /\ open' = IF failed THEN open \ {c} ELSE open
           /\ shared' = IF failed THEN shared ELSE [shared EXCEPT ![g] = c]
           /\ all' = IF failed THEN all ELSE [all EXCEPT ![g] = @ \cup {c}]
    /\ UNCHANGED <<userVars, state, poolClosed, claimed, cancelled, retiring>>

Signal(c) ==
    /\ dial[c].stage = "signal"
    /\ dial' = [dial EXCEPT ![c].stage = "done"]
    /\ UNCHANGED <<poolVars, userVars, open>>

-----------------------------------------------------------------------------
(* The end of a connection and of a state                                  *)

\* removeConn, of a connection that the state in force tracks.
RemoveConn(c) ==
    /\ all' = [all EXCEPT ![state] = @ \ {c}]
    /\ IF shared[state] = c
       THEN /\ shared' = [shared EXCEPT ![state] = NoConn]
            /\ claimed' = [claimed EXCEPT ![state] = FALSE]
       ELSE UNCHANGED <<shared, claimed>>

\* Invalidate closes a tracked connection, or any when the pool is closed.
Invalidate(c) ==
    /\ open' = IF poolClosed \/ Tracked(c) THEN open \ {c} ELSE open
    /\ IF Tracked(c) THEN RemoveConn(c) ELSE UNCHANGED <<shared, claimed, all>>
    /\ UNCHANGED <<state, poolClosed, connecting, cancelled, retiring>>

\* Release closes a connection that the state in force does not track.
Release(c) == open' = IF Tracked(c) THEN open ELSE open \ {c}

\* The network changes: a fresh state takes the place of the old one, whose
\* context and connections are ended after the unlock.
Reset ==
    /\ ~poolClosed /\ state < MaxResets
    /\ state' = state + 1
    /\ retiring' = retiring \cup {state}
    /\ UNCHANGED <<userVars, poolClosed, shared, claimed, connecting, all, cancelled, dial, open>>

\* The engine closes its transports.
ClosePool ==
    /\ ~poolClosed
    /\ poolClosed' = TRUE
    /\ retiring' = retiring \cup {state}
    /\ UNCHANGED <<userVars, state, shared, claimed, connecting, all, cancelled, dial, open>>

\* closeState goes through the connections without the mutex.
CloseState(g) ==
    /\ g \in retiring
    /\ \/ /\ g \notin cancelled
          /\ cancelled' = cancelled \cup {g}
          /\ UNCHANGED <<retiring, open>>
       \/ /\ g \in cancelled
          /\ open' = open \ all[g]
          /\ retiring' = retiring \ {g}
          /\ UNCHANGED cancelled
    /\ UNCHANGED <<userVars, state, poolClosed, shared, claimed, connecting, all, dial>>

-----------------------------------------------------------------------------
PoolStep ==
    \/ \E u \in Users : Begin(u) \/ Acquire(u) \/ WaitEnds(u) \/ Collect(u) \/ Expire(u)
    \/ \E c \in Conns : DialEnds(c) \/ Install(c) \/ Signal(c)
    \/ Reset \/ ClosePool \/ \E g \in States : CloseState(g)

\* Every connection that is open at the system is accounted for: the state in
\* force tracks it, or a state that is being closed does, or the goroutine that
\* dialled it has not handed it over; nothing is left open behind a change of
\* the network or a closed pool.
NothingLeaks ==
    \A c \in open :
        \/ Tracked(c)
        \/ \E g \in retiring : c \in all[g]
        \/ dial[c].stage = "install"

\* closeState reads the connections of a retired state without the mutex,
\* which is safe because no step adds or removes one there any more.
RetiredUntouched ==
    [][\A g \in States : g < state \/ poolClosed => all'[g] = all[g]]_connVars

=============================================================================
