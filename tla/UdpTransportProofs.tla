------------------------- MODULE UdpTransportProofs -------------------------
(***************************************************************************)
(* Proofs about UdpTransport for any number of exchanges, dials, states of *)
(* the pool and query ids: what becomes of connections, who reads them,    *)
(* whose answer an exchange gets, and how often it begins again.           *)
(***************************************************************************)
EXTENDS UdpTransport, WellFoundedInduction, TLAPS

PCs == {"idle", "acquire", "waiting", "collect", "holding",
        "register", "write", "await", "leave", "done"}
Stages == {"idle", "dialling", "install", "signal", "done"}
Dials == [stage : Stages, owner : Users \cup {NoUser}, gen : States, failed : BOOLEAN]
Messages == [conn : Conns, id : Ids, query : Users]

UserType ==
    /\ pc \in [Users -> PCs]
    /\ gen \in [Users -> States]
    /\ on \in [Users -> Conns \cup {NoConn}]
    /\ created \in [Users -> BOOLEAN]
    /\ over \subseteq Users

PoolType ==
    /\ state \in States
    /\ poolClosed \in BOOLEAN
    /\ shared \in [States -> Conns \cup {NoConn}]
    /\ claimed \in [States -> BOOLEAN]
    /\ connecting \in [States -> Conns \cup {NoConn}]
    /\ all \in [States -> SUBSET Conns]
    /\ cancelled \subseteq States
    /\ retiring \subseteq States
    /\ dial \in [Conns -> Dials]
    /\ open \subseteq Conns

ExchangeType ==
    /\ queryId \in Nat
    /\ number \in [Users -> Nat]
    /\ callbacks \in [Ids -> Users \cup {NoUser}]
    /\ sent \subseteq Messages
    /\ answer \in [Users -> Users \cup {NoUser}]
    /\ receiving \in [Conns -> Nat]

TypeInv == UserType /\ PoolType /\ ExchangeType

\* A dial under way is the one its state waits for, a state waits for a dial
\* only without a connection, and the states to come are empty.
DialInv ==
    /\ \A c \in Conns :
        /\ dial[c].stage \in {"dialling", "install"} => connecting[dial[c].gen] = c
        /\ dial[c].stage # "idle" => dial[c].gen <= state
    /\ \A g \in States :
        /\ connecting[g] # NoConn => shared[g] = NoConn
        /\ claimed[g] => shared[g] # NoConn
        /\ shared[g] # NoConn =>
            dial[shared[g]].stage \in {"signal", "done"} /\ dial[shared[g]].gen = g
        /\ g > state => shared[g] = NoConn /\ connecting[g] = NoConn /\ all[g] = {}
    /\ ~poolClosed /\ shared[state] # NoConn => shared[state] \in all[state]

Looking(u, c) == pc[u] = "holding" /\ on[u] = c /\ created[u]
Served(c) == receiving[c] = 1 \/ \E v \in Users : Looking(v, c)
Installed(c) == c \in Conns /\ dial[c].stage \in {"signal", "done"}

\* A connection has a receive loop or a user who is to start it, never two of
\* them, once it has been claimed; and nobody holds one that has not been.
ReceiverInv ==
    /\ \A c \in Conns :
        /\ receiving[c] <= 1
        /\ Served(c) => Installed(c) /\ \A g \in States : shared[g] = c => claimed[g]
    /\ \A u \in Users, c \in Conns : Looking(u, c) => receiving[c] = 0
    /\ \A u, v \in Users, c \in Conns : Looking(u, c) /\ Looking(v, c) => u = v
    /\ \A u \in Users : pc[u] \in {"holding", "register", "write", "await"} =>
        Installed(on[u]) /\ (Tracked(on[u]) => Served(on[u]))
    /\ ~poolClosed /\ claimed[state] => Served(shared[state])

Registered(u) == pc[u] \in {"write", "await", "leave"}

\* An id belongs to the exchange registered under it; one that gets the id of
\* a message already sent has the greater number.
NumberInv ==
    /\ \A u \in Users :
        /\ number[u] <= queryId
        /\ Registered(u) => callbacks[Id(u)] = u
        /\ answer[u] # NoUser =>
            /\ Registered(u) \/ pc[u] = "done"
            /\ Registered(answer[u]) \/ pc[answer[u]] = "done"
            /\ answer[u] # u => Id(u) = Id(answer[u]) /\ number[u] > number[answer[u]]
    /\ \A i \in Ids : callbacks[i] # NoUser =>
        Registered(callbacks[i]) /\ Id(callbacks[i]) = i
    /\ \A m \in sent :
        /\ m.id = Id(m.query)
        /\ Registered(m.query) \/ pc[m.query] = "done"
        /\ callbacks[m.id] \notin {NoUser, m.query} =>
            number[callbacks[m.id]] > number[m.query]

-----------------------------------------------------------------------------
\* The bounds are numbers, and the pool has a first state.
LEMMA Bounds == MaxDials \in Nat /\ MaxResets \in Nat
BY PoolAssumption
LEMMA ZeroState == 0 \in States
BY Bounds DEF States

\* A transport that has just been made satisfies the types (udp.go:57-103).
LEMMA InitType == Init => TypeInv
<1> SUFFICES ASSUME Init PROVE TypeInv
    OBVIOUS
<1> USE PoolAssumption, IdAssumption DEF Init, PoolInit, States, Conns, NoConn
<1>1. UserType
  BY DEF UserType, PCs
<1>2. PoolType
  <2>1. Undialled \in Dials
    BY DEF Dials, Stages, Undialled
  <2>2. QED
    BY <2>1, Bounds, ZeroState DEF PoolType
<1>3. ExchangeType
  BY DEF ExchangeType, Ids, Messages
<1>4. QED
  BY <1>1, <1>2, <1>3 DEF TypeInv

\* The goroutine of a dial keeps its owner and its state.
LEMMA DialRecord ==
    ASSUME NEW d \in Dials, NEW s \in Stages, NEW f \in BOOLEAN
    PROVE  [d EXCEPT !.stage = s, !.failed = f] \in Dials /\ [d EXCEPT !.stage = s] \in Dials
BY DEF Dials

\* The steps of acquireShared keep the types.
LEMMA AcquireType ==
    ASSUME TypeInv, NEW u \in Users,
           Begin(u) \/ Acquire(u) \/ WaitEnds(u) \/ Collect(u) \/ Expire(u),
           UNCHANGED udpVars
    PROVE  TypeInv'
<1> USE PoolAssumption DEF TypeInv
<1>1. ExchangeType'
  BY DEF ExchangeType, udpVars
<1>2. CASE Begin(u)
  BY <1>1, <1>2 DEF Begin, UserType, PoolType, poolVars, PCs
<1>3. CASE Acquire(u)
  <2>1. CASE poolClosed
    <3>1. UserType'
      BY <1>3, <2>1, ZeroState DEF Acquire, Finish, UserType, PCs, NoConn
    <3>2. PoolType'
      BY <1>3, <2>1 DEF Acquire, PoolType
    <3>3. QED
      BY <1>1, <3>1, <3>2
  <2>2. CASE ~poolClosed /\ shared[state] # NoConn
    <3>1. UserType'
      <4>1. Take(u)
        BY <1>3, <2>2 DEF Acquire
      <4>2. QED
        BY <4>1, ZeroState DEF Take, LooksAfter, UserType, PoolType, PCs, NoConn
    <3>2. PoolType'
      BY <1>3, <2>2 DEF Acquire, Take, PoolType
    <3>3. QED
      BY <1>1, <3>1, <3>2
  <2>3. CASE ~poolClosed /\ shared[state] = NoConn /\ connecting[state] # NoConn
    BY <1>1, <1>3, <2>3 DEF Acquire, UserType, PoolType, PCs, NoConn
  <2>4. CASE ~poolClosed /\ shared[state] = NoConn /\ connecting[state] = NoConn
    <3>1. PICK c \in Conns :
            /\ dial' = [dial EXCEPT ![c] =
                   [stage |-> "dialling", owner |-> u, gen |-> state, failed |-> FALSE]]
            /\ connecting' = [connecting EXCEPT ![state] = c]
            /\ on' = [on EXCEPT ![u] = c]
      BY <1>3, <2>4 DEF Acquire
    <3>2. UserType'
      BY <1>3, <2>4, <3>1 DEF Acquire, UserType, PoolType, PCs
    <3>3. [stage |-> "dialling", owner |-> u, gen |-> state, failed |-> FALSE] \in Dials
      BY DEF Dials, Stages, PoolType
    <3>4. PoolType'
      BY <1>3, <2>4, <3>1, <3>3 DEF Acquire, PoolType
    <3>5. QED
      BY <1>1, <3>2, <3>4
  <2>5. QED
    BY <2>1, <2>2, <2>3, <2>4
<1>4. CASE WaitEnds(u)
  <2>1. PoolType'
    BY <1>4 DEF WaitEnds, PoolType, poolVars
  <2>2. UserType'
    BY <1>4, ZeroState DEF WaitEnds, Finish, Again, UserType, PCs, NoConn
  <2>3. QED
    BY <1>1, <2>1, <2>2
<1>5. CASE Collect(u)
  <2>1. CASE Finish(u) \/ Again(u)
    <3>1. UserType'
      BY <1>5, <2>1, ZeroState DEF Collect, Finish, Again, Take, LooksAfter, UserType, PCs, NoConn
    <3>2. PoolType'
      BY <1>5, <2>1 DEF Collect, Take, PoolType
    <3>3. QED
      BY <1>1, <3>1, <3>2
  <2>2. CASE Take(u)
    <3>1. UserType'
      BY <1>5, <2>2, ZeroState DEF Take, LooksAfter, UserType, PoolType, PCs, NoConn
    <3>2. PoolType'
      BY <1>5, <2>2 DEF Collect, Take, PoolType
    <3>3. QED
      BY <1>1, <3>1, <3>2
  <2>3. QED
    BY <1>5, <2>1, <2>2 DEF Collect
<1>6. CASE Expire(u)
  BY <1>1, <1>6 DEF Expire, UserType, PoolType, poolVars
<1>7. QED
  BY <1>2, <1>3, <1>4, <1>5, <1>6

\* The steps of dials and the ends of the pool's states keep the types.
LEMMA DialType ==
    ASSUME TypeInv, UNCHANGED udpVars,
           \/ \E c \in Conns : DialEnds(c) \/ Install(c) \/ Signal(c)
           \/ Reset \/ ClosePool \/ \E g \in States : CloseState(g)
    PROVE  TypeInv'
<1> USE PoolAssumption DEF TypeInv
<1>1. ExchangeType'
  BY DEF ExchangeType, udpVars
<1>2. UserType'
  BY DEF UserType, DialEnds, Install, Signal, Reset, ClosePool, CloseState, userVars
<1>3. ASSUME NEW c \in Conns, DialEnds(c) PROVE PoolType'
  <2>1. PICK f \in BOOLEAN : dial' = [dial EXCEPT ![c].stage = "install", ![c].failed = f]
    BY <1>3 DEF DialEnds
  <2>2. dial' = [dial EXCEPT ![c] = [dial[c] EXCEPT !.stage = "install", !.failed = f]]
    BY <2>1 DEF PoolType
  <2>3. dial' \in [Conns -> Dials]
    BY <2>2, DialRecord DEF PoolType, Stages
  <2>4. QED
    BY <1>3, <2>3 DEF DialEnds, PoolType, poolVars
<1>4. ASSUME NEW c \in Conns, Install(c) PROVE PoolType'
  <2>1. PICK f \in BOOLEAN : dial' = [dial EXCEPT ![c].stage = "signal", ![c].failed = f]
    BY <1>4 DEF Install, Lost, PoolType, Dials
  <2>2. dial' = [dial EXCEPT ![c] = [dial[c] EXCEPT !.stage = "signal", !.failed = f]]
    BY <2>1 DEF PoolType
  <2>3. dial' \in [Conns -> Dials]
    BY <2>2, DialRecord DEF PoolType, Stages
  <2>4. dial[c].gen \in States
    BY DEF PoolType, Dials
  <2>5. QED
    BY <1>4, <2>3, <2>4 DEF Install, PoolType, NoConn
<1>5. ASSUME NEW c \in Conns, Signal(c) PROVE PoolType'
  BY <1>5 DEF Signal, PoolType, Dials, Stages, poolVars
<1>6. CASE Reset \/ ClosePool
  <2>1. state' \in States
    BY <1>6, Bounds DEF Reset, ClosePool, PoolType, States
  <2>2. poolClosed' \in BOOLEAN /\ retiring' \subseteq States
    BY <1>6 DEF Reset, ClosePool, PoolType
  <2>3. QED
    BY <1>1, <1>2, <1>6, <2>1, <2>2 DEF Reset, ClosePool, PoolType
<1>7. ASSUME NEW g \in States, CloseState(g) PROVE PoolType'
  BY <1>7 DEF CloseState, PoolType
<1>8. QED
  BY <1>1, <1>2, <1>3, <1>4, <1>5, <1>6, <1>7

\* Closing a connection that a user or a receive loop gives up keeps the types.
LEMMA InvalidateType ==
    ASSUME PoolType, NEW c, Invalidate(c), UNCHANGED dial
    PROVE  PoolType'
BY DEF Invalidate, RemoveConn, PoolType, Conns, NoConn

\* The least free id is free.
LEMMA NextIsCandidate ==
    ASSUME TypeInv, Candidates # {}
    PROVE  NextNumber \in Candidates /\ NextNumber \in Nat /\ NextNumber > queryId
<1> USE IdAssumption DEF TypeInv, ExchangeType, Candidates
<1>1. Candidates \subseteq Nat
  OBVIOUS
<1>2. \E n \in Candidates : \A m \in Candidates : ~(<<m, n>> \in OpToRel(<, Nat))
  <2> HIDE DEF Candidates
  <2>1. QED
    BY <1>1, NatLessThanWellFounded, WFMin, Zenon
<1>3. \E n \in Candidates : \A m \in Candidates : n <= m
  <2>1. ASSUME NEW m \in Nat, NEW n \in Nat, m < n PROVE <<m, n>> \in OpToRel(<, Nat)
    BY <2>1 DEF OpToRel
  <2> HIDE DEF Candidates
  <2>2. PICK n \in Candidates : \A m \in Candidates : ~(<<m, n>> \in OpToRel(<, Nat))
    BY <1>2
  <2>3. ASSUME NEW m \in Candidates PROVE n <= m
    <3>1. m \in Nat /\ n \in Nat
      BY <1>1
    <3>2. ~(m < n)
      BY <2>1, <2>2, <3>1
    <3>3. QED
      BY <3>1, <3>2
  <2>4. QED
    BY <2>3
<1>4. NextNumber \in Candidates
  <2> HIDE DEF Candidates
  <2>1. QED
    BY <1>3 DEF NextNumber
<1>5. QED
  BY <1>1, <1>4

\* The steps of an exchange with a connection and of its receive loop keep the
\* types.
LEMMA ExchangeStepType ==
    ASSUME TypeInv,
           \/ \E u \in Users :
                StartReceiving(u) \/ Register(u) \/ Write(u) \/ AwaitEnds(u) \/ Leave(u)
           \/ \E c \in Conns : Receive(c) \/ StopReceiving(c)
    PROVE  TypeInv'
<1> USE PoolAssumption, IdAssumption DEF TypeInv
<1>1. ASSUME NEW u \in Users, StartReceiving(u) PROVE TypeInv'
  <2>1. UserType' /\ PoolType'
    BY <1>1 DEF StartReceiving, UserType, PoolType, poolVars, PCs
  <2>2. PICK n \in Nat : receiving' = [receiving EXCEPT ![on[u]] = @ + n]
    BY <1>1 DEF StartReceiving
  <2>3. receiving' \in [Conns -> Nat]
    <3>1. \A k \in Nat : k + n \in Nat
      OBVIOUS
    <3>2. QED
      BY <2>2, <3>1 DEF ExchangeType
  <2>4. QED
    BY <1>1, <2>1, <2>3 DEF StartReceiving, ExchangeType
<1>2. ASSUME NEW u \in Users, Register(u) PROVE TypeInv'
  <2>1. UserType'
    BY <1>2 DEF Register, Finish, UserType, PCs, States, NoConn
  <2>2. PoolType'
    BY <1>2 DEF Register, Release, PoolType, poolVars
  <2>3. ExchangeType'
    BY <1>2, NextIsCandidate DEF Register, ExchangeType, Ids
  <2>4. QED
    BY <2>1, <2>2, <2>3
<1>3. ASSUME NEW u \in Users, Write(u) PROVE TypeInv'
  <2>1. UserType'
    BY <1>3 DEF Write, UserType, PCs
  <2>2. PoolType'
    BY <1>3, InvalidateType DEF Write, PoolType, poolVars
  <2>3. Id(u) \in Ids
    BY DEF Id, Ids, ExchangeType
  <2>4. ExchangeType'
    BY <1>3, <2>3 DEF Write, ExchangeType, Messages, PoolType
  <2>5. QED
    BY <2>1, <2>2, <2>4
<1>4. ASSUME NEW u \in Users, AwaitEnds(u) \/ Leave(u) PROVE TypeInv'
  <2>1. UserType'
    BY <1>4 DEF AwaitEnds, Leave, Finish, UserType, PCs, States, NoConn
  <2>2. PoolType'
    BY <1>4 DEF AwaitEnds, Leave, Release, PoolType, poolVars
  <2>3. ExchangeType'
    BY <1>4 DEF AwaitEnds, Leave, ExchangeType, udpVars
  <2>4. QED
    BY <2>1, <2>2, <2>3
<1>5. ASSUME NEW c \in Conns, Receive(c) PROVE TypeInv'
  BY <1>5 DEF Receive, UserType, PoolType, ExchangeType, Messages,
      connVars, poolVars, userVars
<1>6. ASSUME NEW c \in Conns, StopReceiving(c) PROVE TypeInv'
  BY <1>6, InvalidateType DEF StopReceiving, UserType, ExchangeType, userVars
<1>7. QED
  BY <1>1, <1>2, <1>3, <1>4, <1>5, <1>6

\* Every step keeps the types.
LEMMA StepType == TypeInv /\ [Next]_vars => TypeInv'
<1> SUFFICES ASSUME TypeInv, [Next]_vars PROVE TypeInv'
    OBVIOUS
<1>1. CASE UNCHANGED vars
  BY <1>1 DEF vars, connVars, poolVars, userVars, udpVars, TypeInv,
      UserType, PoolType, ExchangeType
<1>2. CASE PoolStep /\ UNCHANGED udpVars
  BY <1>2, AcquireType, DialType DEF PoolStep
<1>3. CASE Next /\ ~(PoolStep /\ UNCHANGED udpVars)
  BY <1>3, ExchangeStepType DEF Next
<1>4. QED
  BY <1>1, <1>2, <1>3


-----------------------------------------------------------------------------
(* The connections of the pool                                             *)

dialInvVars == <<dial, state, poolClosed, shared, claimed, connecting, all>>

LEMMA InitDial == Init => DialInv
BY ZeroState DEF Init, PoolInit, DialInv, Undialled, NoConn, States

\* A user who takes the shared connection claims it (conn_pool.go, acquireShared
\* and collectShared).
LEMMA TakeDial ==
    ASSUME TypeInv, DialInv, shared[state] # NoConn,
           claimed' = [claimed EXCEPT ![state] = TRUE],
           UNCHANGED <<dial, state, poolClosed, shared, connecting, all>>
    PROVE  DialInv'
BY DEF DialInv, TypeInv, PoolType

\* A connection given up leaves the rest of the pool as it is.
LEMMA InvalidateDial ==
    ASSUME TypeInv, DialInv, NEW c, Invalidate(c), UNCHANGED dial
    PROVE  DialInv'
<1> USE DEF TypeInv, PoolType
<1>1. CASE Tracked(c)
  <2>1. /\ all' = [all EXCEPT ![state] = @ \ {c}]
        /\ UNCHANGED <<state, poolClosed, connecting, dial>>
    BY <1>1 DEF Invalidate, RemoveConn
  <2>2. CASE shared[state] = c
    BY <1>1, <2>1, <2>2 DEF DialInv, Invalidate, RemoveConn, NoConn
  <2>3. CASE shared[state] # c
    BY <1>1, <2>1, <2>3 DEF DialInv, Invalidate, RemoveConn
  <2>4. QED
    BY <2>2, <2>3
<1>2. CASE ~Tracked(c)
  BY <1>2 DEF DialInv, Invalidate
<1>3. QED
  BY <1>1, <1>2

\* A user starts a dial only in a state that waits for none.
LEMMA AcquireDial ==
    ASSUME TypeInv, DialInv, NEW u \in Users, Acquire(u)
    PROVE  DialInv'
<1> USE DEF TypeInv, PoolType
<1>1. CASE UNCHANGED dialInvVars
  BY <1>1 DEF DialInv, dialInvVars
<1>2. CASE ~poolClosed /\ shared[state] # NoConn
  BY <1>2, TakeDial DEF Acquire, Take
<1>3. CASE ~poolClosed /\ shared[state] = NoConn /\ connecting[state] = NoConn
  <2>1. PICK c \in Conns :
          /\ dial[c].stage = "idle"
          /\ dial' = [dial EXCEPT ![c] =
                 [stage |-> "dialling", owner |-> u, gen |-> state, failed |-> FALSE]]
          /\ connecting' = [connecting EXCEPT ![state] = c]
    BY <1>3 DEF Acquire
  <2>2. UNCHANGED <<state, poolClosed, shared, claimed, all>>
    BY <1>3 DEF Acquire
  <2>3. c # NoConn
    BY Bounds DEF Conns, NoConn
  <2>4. ASSUME NEW d \in Conns
        PROVE  /\ (dial[d].stage \in {"dialling", "install"} => connecting[dial[d].gen] = d)'
               /\ (dial[d].stage # "idle" => dial[d].gen <= state)'
    <3>1. CASE d = c
      BY <2>1, <2>2, <3>1, Bounds DEF States
    <3>2. CASE d # c
      BY <1>3, <2>1, <2>2, <3>2, Bounds DEF DialInv, Dials, Conns, NoConn
    <3>3. QED
      BY <3>1, <3>2
  <2>5. ASSUME NEW g \in States
        PROVE  (/\ connecting[g] # NoConn => shared[g] = NoConn
                /\ claimed[g] => shared[g] # NoConn
                /\ shared[g] # NoConn =>
                    dial[shared[g]].stage \in {"signal", "done"} /\ dial[shared[g]].gen = g
                /\ g > state => shared[g] = NoConn /\ connecting[g] = NoConn /\ all[g] = {})'
    BY <1>3, <2>1, <2>2, <2>3, Bounds DEF DialInv, States
  <2>6. QED
    BY <2>2, <2>4, <2>5, <1>3 DEF DialInv
<1>4. QED
  BY <1>1, <1>2, <1>3 DEF Acquire, dialInvVars

\* A connection is installed in the state in force or closed.
LEMMA InstallDial ==
    ASSUME TypeInv, DialInv, NEW c \in Conns, Install(c)
    PROVE  DialInv'
<1> USE DEF TypeInv, PoolType
<1> DEFINE g == dial[c].gen
<1>1. g \in States /\ g <= state /\ connecting[g] = c /\ shared[g] = NoConn /\ c # NoConn
  BY Bounds DEF DialInv, Install, Dials, Conns, NoConn
<1>2. /\ connecting' = [connecting EXCEPT ![g] = NoConn]
      /\ UNCHANGED <<state, poolClosed, claimed>>
      /\ \A d \in Conns : dial'[d].gen = dial[d].gen
      /\ \A d \in Conns \ {c} : dial'[d] = dial[d]
      /\ dial'[c].stage = "signal"
  BY DEF Install, Dials
<1>3. \/ UNCHANGED <<shared, all>>
      \/ /\ ~poolClosed /\ g = state
         /\ shared' = [shared EXCEPT ![g] = c]
         /\ all' = [all EXCEPT ![g] = @ \cup {c}]
  BY DEF Install, Lost
<1> HIDE DEF g
<1>4. ASSUME NEW d \in Conns
      PROVE  /\ (dial[d].stage \in {"dialling", "install"} => connecting[dial[d].gen] = d)'
             /\ (dial[d].stage # "idle" => dial[d].gen <= state)'
  <2>1. CASE d = c
    BY <1>1, <1>2, <2>1 DEF g
  <2>2. CASE d # c
    BY <1>1, <1>2, <2>2 DEF DialInv
  <2>3. QED
    BY <2>1, <2>2
<1>5. ASSUME NEW s \in States
      PROVE  (/\ connecting[s] # NoConn => shared[s] = NoConn
              /\ claimed[s] => shared[s] # NoConn
              /\ shared[s] # NoConn =>
                  dial[shared[s]].stage \in {"signal", "done"} /\ dial[shared[s]].gen = s
              /\ s > state => shared[s] = NoConn /\ connecting[s] = NoConn /\ all[s] = {})'
  <2>1. CASE s = g
    <3>1. ~(s > state) /\ ~claimed[s]
      BY <1>1, <2>1, Bounds DEF DialInv, States
    <3>2. connecting'[s] = NoConn /\ shared'[s] \in {NoConn, c} /\ dial'[c].gen = s
      BY <1>1, <1>2, <1>3, <2>1 DEF g
    <3>3. QED
      BY <1>2, <2>1, <3>1, <3>2
  <2>2. CASE s # g
    <3>1. /\ connecting'[s] = connecting[s] /\ claimed'[s] = claimed[s]
          /\ shared'[s] = shared[s] /\ all'[s] = all[s]
      BY <1>2, <1>3, <2>2
    <3>2. shared[s] # NoConn =>
            dial'[shared[s]].stage \in {"signal", "done"} /\ dial'[shared[s]].gen = s
      BY <1>2 DEF DialInv
    <3>3. QED
      BY <1>2, <3>1, <3>2 DEF DialInv
  <2>3. QED
    BY <2>1, <2>2
<1>6. (~poolClosed /\ shared[state] # NoConn => shared[state] \in all[state])'
  BY <1>1, <1>2, <1>3 DEF DialInv
<1>7. QED
  BY <1>4, <1>5, <1>6 DEF DialInv

\* Every step keeps the connections of the pool in order.
LEMMA StepDial == TypeInv /\ DialInv /\ [Next]_vars => DialInv'
<1> SUFFICES ASSUME TypeInv, DialInv, [Next]_vars PROVE DialInv'
    OBVIOUS
<1>1. CASE UNCHANGED dialInvVars
  BY <1>1 DEF DialInv, dialInvVars
<1>2. ASSUME NEW u \in Users, Acquire(u) PROVE DialInv'
  BY <1>2, AcquireDial
<1>3. ASSUME NEW u \in Users, Collect(u) PROVE DialInv'
  BY <1>1, <1>3, TakeDial DEF Collect, Take, Finish, Again, dialInvVars
<1>4. ASSUME NEW c \in Conns, DialEnds(c) \/ Signal(c) PROVE DialInv'
  <2>1. UNCHANGED <<state, poolClosed, shared, claimed, connecting, all>>
    BY <1>4 DEF DialEnds, Signal, poolVars
  <2>2. \A d \in Conns \ {c} : dial'[d] = dial[d]
    BY <1>4 DEF DialEnds, Signal, TypeInv, PoolType
  <2>3. /\ dial'[c].gen = dial[c].gen
        /\ dial[c].stage = "dialling" => dial'[c].stage = "install"
        /\ dial[c].stage # "dialling" => dial[c].stage = "signal" /\ dial'[c].stage = "done"
        /\ dial[c].stage # "idle"
    BY <1>4 DEF DialEnds, Signal, TypeInv, PoolType, Dials
  <2>4. QED
    BY <2>1, <2>2, <2>3 DEF DialInv, TypeInv, PoolType
<1>5. ASSUME NEW c \in Conns, Install(c) PROVE DialInv'
  BY <1>5, InstallDial
<1>6. CASE Reset
  BY <1>6, Bounds DEF Reset, DialInv, TypeInv, PoolType, Dials, States
<1>7. CASE ClosePool
  BY <1>7 DEF ClosePool, DialInv
<1>8. ASSUME NEW u \in Users, Write(u) PROVE DialInv'
  BY <1>1, <1>8, InvalidateDial DEF Write, poolVars, dialInvVars
<1>9. ASSUME NEW c \in Conns, StopReceiving(c) PROVE DialInv'
  BY <1>9, InvalidateDial DEF StopReceiving
<1>10. QED
  <2>1. CASE UNCHANGED vars
    BY <1>1, <2>1 DEF vars, connVars, poolVars, dialInvVars
  <2>2. CASE PoolStep
    BY <1>1, <1>2, <1>3, <1>4, <1>5, <1>6, <1>7, <2>2
        DEF PoolStep, Begin, WaitEnds, Expire, CloseState, poolVars, dialInvVars
  <2>3. CASE Next /\ ~PoolStep
    BY <1>1, <1>8, <1>9, <2>3
        DEF Next, StartReceiving, Register, AwaitEnds, Leave, Receive,
            connVars, poolVars, dialInvVars
  <2>4. QED
    BY <2>1, <2>2, <2>3

-----------------------------------------------------------------------------
(* What becomes of open connections                                        *)

leakVars == <<dial, state, poolClosed, all, retiring>>

\* Connections that are closed while the pool stays as it is leak nothing.
LEMMA CloseLeaks ==
    ASSUME NothingLeaks, open' \subseteq open, UNCHANGED leakVars
    PROVE  NothingLeaks'
BY DEF NothingLeaks, leakVars, Tracked

\* A connection given up is no longer open when it is no longer tracked.
LEMMA InvalidateLeaks ==
    ASSUME TypeInv, NothingLeaks, NEW c, Invalidate(c), UNCHANGED dial
    PROVE  NothingLeaks'
<1>1. CASE Tracked(c)
  <2>1. /\ all' = [all EXCEPT ![state] = @ \ {c}]
        /\ open' = open \ {c}
        /\ UNCHANGED <<state, poolClosed, retiring, dial>>
    BY <1>1 DEF Invalidate, RemoveConn
  <2>2. \A d, g : d # c /\ g \in States => (d \in all'[g] <=> d \in all[g])
    BY <2>1 DEF TypeInv, PoolType
  <2>3. ASSUME NEW d \in open'
        PROVE  \/ Tracked(d)'
               \/ \E g \in retiring' : d \in all'[g]
               \/ dial'[d].stage = "install"
    BY <2>1, <2>2 DEF NothingLeaks, Tracked, TypeInv, PoolType
  <2>4. QED
    BY <2>3 DEF NothingLeaks
<1>2. CASE ~Tracked(c)
  BY <1>2, CloseLeaks DEF Invalidate, leakVars
<1>3. QED
  BY <1>1, <1>2

\* No step leaves a connection open that nobody is to close.
LEMMA StepLeaks == TypeInv /\ DialInv /\ NothingLeaks /\ [Next]_vars => NothingLeaks'
<1> SUFFICES ASSUME TypeInv, DialInv, NothingLeaks, [Next]_vars PROVE NothingLeaks'
    OBVIOUS
<1> USE DEF TypeInv, PoolType
<1>1. ASSUME NEW u \in Users, Acquire(u) PROVE NothingLeaks'
  <2>1. \A c \in Conns : dial[c].stage = "install" => dial'[c].stage = "install"
    BY <1>1 DEF Acquire
  <2>2. QED
    BY <1>1, <2>1 DEF Acquire, NothingLeaks, Tracked
<1>2. ASSUME NEW c \in Conns, DialEnds(c) PROVE NothingLeaks'
  <2>1. /\ dial'[c].stage = "install"
        /\ \A d \in Conns \ {c} : dial'[d] = dial[d]
    BY <1>2 DEF DialEnds, Dials
  <2>2. open' \subseteq open \cup {c} /\ UNCHANGED poolVars
    BY <1>2 DEF DialEnds
  <2>3. QED
    BY <2>1, <2>2 DEF NothingLeaks, Tracked, poolVars
<1>3. ASSUME NEW c \in Conns, Install(c) PROVE NothingLeaks'
  <2>1. /\ \A d \in Conns \ {c} : dial'[d] = dial[d]
        /\ \A d, g : g \in States /\ d \in all[g] => d \in all'[g]
        /\ UNCHANGED <<state, poolClosed, retiring>>
    BY <1>3 DEF Install
  <2>2. ASSUME NEW d \in open', d # c
        PROVE  \/ Tracked(d)'
               \/ \E g \in retiring' : d \in all'[g]
               \/ dial'[d].stage = "install"
    <3>1. d \in open
      BY <1>3, <2>2 DEF Install
    <3>2. QED
      BY <2>1, <2>2, <3>1 DEF NothingLeaks, Tracked
  <2>3. c \in open' => Tracked(c)'
    BY <1>3 DEF Install, Lost, Tracked
  <2>4. QED
    BY <2>2, <2>3 DEF NothingLeaks
<1>4. ASSUME NEW c \in Conns, Signal(c) PROVE NothingLeaks'
  <2>1. \A d \in Conns : dial[d].stage = "install" => dial'[d].stage = "install"
    BY <1>4 DEF Signal
  <2>2. QED
    BY <1>4, <2>1 DEF Signal, NothingLeaks, Tracked, poolVars
<1>5. CASE Reset
  BY <1>5 DEF Reset, NothingLeaks, Tracked
<1>6. CASE ClosePool
  BY <1>6 DEF ClosePool, NothingLeaks, Tracked
<1>7. ASSUME NEW g \in States, CloseState(g) PROVE NothingLeaks'
  BY <1>7 DEF CloseState, NothingLeaks, Tracked
<1>8. ASSUME NEW u \in Users, Write(u) PROVE NothingLeaks'
  BY <1>8, CloseLeaks, InvalidateLeaks DEF Write, poolVars, leakVars
<1>9. ASSUME NEW c \in Conns, StopReceiving(c) PROVE NothingLeaks'
  BY <1>9, InvalidateLeaks DEF StopReceiving
<1>10. ASSUME NEW u \in Users, Register(u) \/ AwaitEnds(u) PROVE NothingLeaks'
  BY <1>10, CloseLeaks DEF Register, AwaitEnds, Release, poolVars, leakVars
<1>11. CASE UNCHANGED <<open, leakVars>>
  BY <1>11, CloseLeaks
<1>12. QED
  <2>1. CASE UNCHANGED vars
    BY <1>11, <2>1 DEF vars, connVars, poolVars, leakVars
  <2>2. CASE PoolStep
    BY <1>1, <1>2, <1>3, <1>4, <1>5, <1>6, <1>7, <1>11, <2>2
        DEF PoolStep, Begin, WaitEnds, Collect, Expire, poolVars, leakVars
  <2>3. CASE Next /\ ~PoolStep
    BY <1>8, <1>9, <1>10, <1>11, <2>3
        DEF Next, StartReceiving, Leave, Receive, connVars, poolVars, leakVars
  <2>4. QED
    BY <2>1, <2>2, <2>3

\* Every reachable state has its types and its pool in order.
THEOREM PoolInOrder == Spec => [](TypeInv /\ DialInv)
<1>1. Init => TypeInv /\ DialInv
  BY InitType, InitDial
<1>2. TypeInv /\ DialInv /\ [Next]_vars => (TypeInv /\ DialInv)'
  BY StepType, StepDial
<1>3. QED
  BY <1>1, <1>2, PTL DEF Spec

\* Whatever the network and the engine do, a connection of the transport that
\* is open is tracked, or about to be closed, or still with the goroutine that
\* dialled it (conn_pool.go, Reset, Close, closeState, connectSingle).
THEOREM NothingLeaksAlways == Spec => []NothingLeaks
<1>1. Init => NothingLeaks
  BY DEF Init, PoolInit, NothingLeaks
<1>2. QED
  BY <1>1, StepLeaks, PoolInOrder, PTL DEF Spec

\* No step touches the connections of a state that has been replaced or closed,
\* which closeState reads without the mutex.
THEOREM RetiredStatesUntouched == Spec => RetiredUntouched
<1> DEFINE Untouched == \A g \in States : g < state \/ poolClosed => all'[g] = all[g]
<1>1. TypeInv /\ DialInv /\ [Next]_vars => Untouched \/ UNCHANGED connVars
  <2> SUFFICES ASSUME TypeInv, DialInv, [Next]_vars PROVE Untouched \/ UNCHANGED connVars
      OBVIOUS
  <2> USE DEF TypeInv, PoolType
  <2>1. ASSUME NEW c, Invalidate(c) PROVE Untouched
    BY <2>1, Bounds DEF Invalidate, RemoveConn, Tracked, States
  <2>2. ASSUME NEW c \in Conns, Install(c) PROVE Untouched
    BY <2>2, Bounds DEF Install, Lost, Dials, States
  <2>3. CASE UNCHANGED all
    BY <2>3
  <2>4. CASE UNCHANGED vars
    BY <2>4 DEF vars, connVars
  <2>5. CASE PoolStep
    BY <2>2, <2>3, <2>5
        DEF PoolStep, Begin, Acquire, WaitEnds, Collect, Expire, DialEnds, Signal,
            Reset, ClosePool, CloseState, poolVars
  <2>6. CASE Next /\ ~PoolStep
    BY <2>1, <2>3, <2>6
        DEF Next, StartReceiving, Register, Write, AwaitEnds, Leave, Receive,
            StopReceiving, connVars, poolVars
  <2>7. QED
    BY <2>4, <2>5, <2>6
<1> HIDE DEF Untouched
<1>2. QED
  BY <1>1, PoolInOrder, PTL DEF Spec, RetiredUntouched, Untouched

-----------------------------------------------------------------------------
(* The receive loops                                                       *)

Holding(u) == pc[u] \in {"holding", "register", "write", "await"}

LEMMA InitReceiver == Init => ReceiverInv
BY ZeroState DEF Init, PoolInit, ReceiverInv, Served, Looking, NoConn

\* A step by which no user takes a connection or starts to look after one, and
\* after which the pool offers and tracks no connection that has been held
\* before, keeps the receive loops in order.
LEMMA ReceiverFrame ==
    ASSUME TypeInv, TypeInv', ReceiverInv, receiving' = receiving,
           \A u \in Users, c \in Conns : Looking(u, c)' <=> Looking(u, c),
           \A u \in Users : Holding(u)' => Holding(u) /\ on'[u] = on[u],
           \A c \in Conns : Installed(c) => Installed(c)',
           \A c \in Conns, g \in States : Installed(c) /\ shared'[g] = c =>
               shared[g] = c /\ (claimed[g] => claimed'[g]),
           \A c \in Conns : Installed(c) /\ Tracked(c)' => Tracked(c),
           ~poolClosed' /\ claimed'[state'] =>
               ~poolClosed /\ claimed[state] /\ shared'[state'] = shared[state],
           DialInv
    PROVE  ReceiverInv'
<1>1. \A c \in Conns : Served(c)' <=> Served(c)
  BY DEF Served
<1>2. \A c \in Conns : receiving'[c] <= 1
  BY DEF ReceiverInv
<1>3. \A c \in Conns : Served(c)' =>
          Installed(c)' /\ \A g \in States : shared'[g] = c => claimed'[g]
  BY <1>1 DEF ReceiverInv
<1>4. /\ \A u \in Users, c \in Conns : Looking(u, c)' => receiving'[c] = 0
      /\ \A u, v \in Users, c \in Conns : Looking(u, c)' /\ Looking(v, c)' => u = v
  BY DEF ReceiverInv
<1>5. ASSUME NEW u \in Users, Holding(u)'
      PROVE  (Installed(on[u]) /\ (Tracked(on[u]) => Served(on[u])))'
  <2>1. Holding(u) /\ on'[u] = on[u]
    BY <1>5
  <2> DEFINE c == on[u]
  <2>2. c \in Conns /\ Installed(c) /\ (Tracked(c) => Served(c))
    BY <2>1 DEF ReceiverInv, Holding, Installed
  <2>3. QED
    BY <1>1, <2>1, <2>2 DEF Installed, Tracked, Served, Looking
<1>6. (~poolClosed /\ claimed[state] => Served(shared[state]))'
  <2>1. claimed[state] => shared[state] \in Conns
    BY DEF DialInv, TypeInv, PoolType
  <2>2. QED
    BY <1>1, <2>1 DEF ReceiverInv, Served, Looking
<1>7. QED
  BY <1>2, <1>3, <1>4, <1>5, <1>6 DEF ReceiverInv, Holding

\* The user that takes a connection looks after it exactly when it is the
\* first to do so (conn_pool.go, acquireShared and collectShared).
LEMMA TakeReceiver ==
    ASSUME TypeInv, DialInv, ReceiverInv, NEW u \in Users, Take(u), pc[u] # "holding",
           ~poolClosed, shared[state] # NoConn,
           UNCHANGED <<receiving, dial, state, poolClosed, shared, connecting, all>>
    PROVE  ReceiverInv'
<1> DEFINE c == shared[state]
<1>1. c \in Conns /\ Installed(c) /\ on'[u] = c /\ pc'[u] = "holding"
      /\ created'[u] = ~claimed[state]
  BY DEF Take, LooksAfter, TypeInv, PoolType, UserType, DialInv, Installed
<1>2. /\ claimed'[state] = TRUE
      /\ \A g \in States \ {state} : claimed'[g] = claimed[g]
  BY DEF Take, TypeInv, PoolType
<1>3. \A v \in Users \ {u} : pc'[v] = pc[v] /\ on'[v] = on[v] /\ created'[v] = created[v]
  BY DEF Take, TypeInv, UserType
<1>4. \A v \in Users \ {u}, d \in Conns : Looking(v, d)' <=> Looking(v, d)
  BY <1>3 DEF Looking
<1>5. \A d \in Conns : /\ ~Looking(u, d)
                       /\ Looking(u, d)' <=> d = c /\ ~claimed[state]
  BY <1>1 DEF Looking
<1>6. \A d \in Conns : Served(d)' <=> Served(d) \/ (d = c /\ ~claimed[state])
  BY <1>4, <1>5 DEF Served
<1>7. claimed[state] <=> Served(c)
  BY <1>1 DEF ReceiverInv, TypeInv, PoolType
<1>8. Served(c)'
  BY <1>1, <1>6, <1>7
<1> HIDE DEF c
<1>9. \A d \in Conns : receiving'[d] <= 1
  BY DEF ReceiverInv
<1>10. ASSUME NEW d \in Conns, Served(d)'
       PROVE  Installed(d)' /\ \A g \in States : shared'[g] = d => claimed'[g]
  <2>1. Served(d) \/ d = c
    BY <1>6, <1>10
  <2>2. Installed(d)
    BY <1>1, <2>1 DEF ReceiverInv
  <2>3. ASSUME NEW g \in States, shared[g] = d PROVE claimed'[g]
    <3>1. CASE Served(d)
      BY <1>2, <2>3, <3>1 DEF ReceiverInv
    <3>2. CASE d = c /\ ~Served(d)
      <4>1. state \in States /\ dial[shared[state]].gen = state /\ dial[shared[g]].gen = g
        BY <1>1, <2>3, <3>2 DEF c, DialInv, TypeInv, PoolType
      <4>2. QED
        BY <1>2, <2>3, <3>2, <4>1 DEF c
    <3>3. QED
      BY <2>1, <3>1, <3>2
  <2>4. QED
    BY <2>2, <2>3 DEF Installed
<1>11. \A v \in Users, d \in Conns : Looking(v, d)' => receiving'[d] = 0
  <2>1. ~claimed[state] => receiving[c] = 0
    BY <1>1, <1>7 DEF Served, ReceiverInv, TypeInv, ExchangeType
  <2>2. QED
    BY <1>4, <1>5, <2>1 DEF ReceiverInv
<1>12. \A v, w \in Users, d \in Conns : Looking(v, d)' /\ Looking(w, d)' => v = w
  BY <1>1, <1>4, <1>5, <1>7 DEF ReceiverInv, Served
<1>13. ASSUME NEW v \in Users, Holding(v)'
       PROVE  (Installed(on[v]) /\ (Tracked(on[v]) => Served(on[v])))'
  <2>1. CASE v = u
    BY <1>1, <1>8, <2>1 DEF c, Installed, Served, Looking
  <2>2. CASE v # u
    <3>1. Installed(on[v]) /\ (Tracked(on[v]) => Served(on[v])) /\ on'[v] = on[v]
      BY <1>3, <1>13, <2>2 DEF ReceiverInv, Holding
    <3>2. QED
      BY <1>6, <3>1 DEF Installed, Tracked, Served, Looking
  <2>3. QED
    BY <2>1, <2>2
<1>14. Served(shared[state])'
  BY <1>8 DEF c, Served, Looking
<1>15. QED
  BY <1>9, <1>10, <1>11, <1>12, <1>13, <1>14 DEF ReceiverInv, Holding

\* The user that looks after a connection starts its one receive loop
\* (udp.go, recvLoop started where created is true).
LEMMA StartReceiver ==
    ASSUME TypeInv, DialInv, ReceiverInv, NEW u \in Users, StartReceiving(u)
    PROVE  ReceiverInv'
<1> DEFINE c == on[u]
<1>1. /\ pc[u] = "holding" /\ pc'[u] = "register" /\ ~created'[u]
      /\ c \in Conns /\ on' = on
      /\ UNCHANGED <<dial, state, poolClosed, shared, claimed, all>>
  BY DEF StartReceiving, ReceiverInv, Installed, TypeInv, UserType, poolVars
<1>2. /\ \A d \in Conns \ {c} : receiving'[d] = receiving[d]
      /\ receiving'[c] = receiving[c] + (IF created[u] THEN 1 ELSE 0)
  BY <1>1 DEF StartReceiving, TypeInv, ExchangeType
<1>3. \A v \in Users \ {u} : pc'[v] = pc[v] /\ created'[v] = created[v]
  BY DEF StartReceiving, TypeInv, UserType
<1> HIDE DEF c
<1>4. /\ \A v \in Users \ {u}, d \in Conns : Looking(v, d)' <=> Looking(v, d)
      /\ \A d \in Conns : ~Looking(u, d)'
      /\ \A d \in Conns : Looking(u, d) <=> d = c /\ created[u]
  BY <1>1, <1>3 DEF Looking, c
<1>5. receiving[c] \in Nat /\ (created[u] => receiving[c] = 0 /\ receiving'[c] = 1)
  BY <1>1, <1>2, <1>4 DEF ReceiverInv, TypeInv, ExchangeType
<1>6. \A d \in Conns : Served(d)' <=> Served(d)
  <2>1. ASSUME NEW d \in Conns, d # c PROVE Served(d)' <=> Served(d)
    BY <1>2, <1>4, <2>1 DEF Served
  <2>2. CASE created[u]
    BY <1>1, <1>4, <1>5, <2>1, <2>2 DEF Served
  <2>3. CASE ~created[u]
    BY <1>2, <1>4, <1>5, <2>1, <2>3 DEF Served
  <2>4. QED
    BY <2>2, <2>3
<1>7. \A d \in Conns : receiving'[d] <= 1
  BY <1>2, <1>5 DEF ReceiverInv
<1>8. \A d \in Conns : (Served(d) =>
          Installed(d) /\ \A g \in States : shared[g] = d => claimed[g])'
  BY <1>1, <1>6 DEF ReceiverInv, Installed
<1>9. ASSUME NEW v \in Users, NEW d \in Conns, Looking(v, d)' PROVE receiving'[d] = 0
  <2>1. v # u /\ Looking(v, d) /\ receiving[d] = 0
    BY <1>4, <1>9 DEF ReceiverInv
  <2>2. d # c \/ ~created[u]
    BY <1>4, <2>1 DEF ReceiverInv
  <2>3. QED
    BY <1>2, <2>1, <2>2
<1>10. \A v, w \in Users, d \in Conns : Looking(v, d)' /\ Looking(w, d)' => v = w
  BY <1>4 DEF ReceiverInv
<1>11. ASSUME NEW v \in Users, Holding(v)'
       PROVE  (Installed(on[v]) /\ (Tracked(on[v]) => Served(on[v])))'
  <2>1. Installed(on[v]) /\ (Tracked(on[v]) => Served(on[v]))
    BY <1>1, <1>3, <1>11 DEF ReceiverInv, Holding
  <2>2. QED
    BY <1>1, <1>6, <2>1 DEF Installed, Tracked, Served, Looking
<1>12. (~poolClosed /\ claimed[state] => Served(shared[state]))'
  <2>1. claimed[state] => shared[state] \in Conns
    BY DEF DialInv, TypeInv, PoolType
  <2>2. QED
    BY <1>1, <1>6, <2>1 DEF ReceiverInv, Served, Looking
<1>13. QED
  BY <1>7, <1>8, <1>9, <1>10, <1>11, <1>12 DEF ReceiverInv, Holding

\* A receive loop that ends takes its connection out of the pool.
LEMMA StopReceiver ==
    ASSUME TypeInv, DialInv, ReceiverInv, NEW c \in Conns, StopReceiving(c)
    PROVE  ReceiverInv'
<1>1. /\ receiving[c] = 1 /\ receiving'[c] = 0
      /\ \A d \in Conns \ {c} : receiving'[d] = receiving[d]
  BY DEF StopReceiving, ReceiverInv, TypeInv, ExchangeType
<1>2. UNCHANGED <<pc, on, created, dial, state, poolClosed>>
  BY DEF StopReceiving, Invalidate, userVars
<1>3. \A v \in Users, d \in Conns : (Looking(v, d)' <=> Looking(v, d)) /\ ~Looking(v, c)
  BY <1>1, <1>2 DEF Looking, ReceiverInv
<1>4. /\ ~Served(c)'
      /\ \A d \in Conns \ {c} : Served(d)' <=> Served(d)
  BY <1>1, <1>3 DEF Served
<1>5. /\ ~Tracked(c)'
      /\ \A d \in Conns : Tracked(d)' => Tracked(d)
      /\ ~poolClosed /\ claimed'[state] =>
            claimed[state] /\ shared'[state] = shared[state] /\ shared[state] # c
      /\ \A d \in Conns \ {c}, g \in States : shared'[g] = d =>
            shared[g] = d /\ claimed'[g] = claimed[g]
  <2>1. CASE Tracked(c)
    BY <2>1 DEF StopReceiving, Invalidate, RemoveConn, Tracked, TypeInv, PoolType, Conns, NoConn
  <2>2. CASE ~Tracked(c)
    BY <2>2 DEF StopReceiving, Invalidate, Tracked, DialInv, TypeInv, PoolType
  <2>3. QED
    BY <2>1, <2>2
<1>6. \A d \in Conns : receiving'[d] <= 1
  BY <1>1 DEF ReceiverInv
<1>7. ASSUME NEW d \in Conns, Served(d)'
      PROVE  (Installed(d) /\ \A g \in States : shared[g] = d => claimed[g])'
  BY <1>2, <1>4, <1>5, <1>7 DEF ReceiverInv, Installed
<1>8. /\ \A v \in Users, d \in Conns : Looking(v, d)' => receiving'[d] = 0
      /\ \A v, w \in Users, d \in Conns : Looking(v, d)' /\ Looking(w, d)' => v = w
  BY <1>1, <1>3 DEF ReceiverInv
<1>9. ASSUME NEW v \in Users, Holding(v)'
      PROVE  (Installed(on[v]) /\ (Tracked(on[v]) => Served(on[v])))'
  <2>1. on[v] \in Conns /\ Installed(on[v]) /\ (Tracked(on[v]) => Served(on[v]))
    BY <1>2, <1>9 DEF ReceiverInv, Holding, Installed
  <2>2. Tracked(on[v])' => Served(on[v])'
    BY <1>2, <1>4, <1>5, <2>1 DEF Served, Looking, Tracked
  <2>3. QED
    BY <1>2, <2>1, <2>2 DEF Installed
<1>10. (~poolClosed /\ claimed[state] => Served(shared[state]))'
  <2>1. claimed[state] => shared[state] \in Conns
    BY DEF DialInv, TypeInv, PoolType
  <2>2. QED
    BY <1>2, <1>4, <1>5, <2>1 DEF ReceiverInv, Served, Looking
<1>11. QED
  BY <1>6, <1>7, <1>8, <1>9, <1>10 DEF ReceiverInv, Holding

\* Nothing new is offered when a connection is given up.
LEMMA InvalidateOffers ==
    ASSUME TypeInv, DialInv, NEW c, Invalidate(c)
    PROVE  /\ \A d \in Conns : Tracked(d)' => Tracked(d)
           /\ \A d \in Conns, g \in States : shared'[g] = d =>
                 shared[g] = d /\ claimed'[g] = claimed[g]
           /\ ~poolClosed' /\ claimed'[state'] =>
                 ~poolClosed /\ claimed[state] /\ shared'[state'] = shared[state]
<1>1. CASE Tracked(c)
  BY <1>1 DEF Invalidate, RemoveConn, Tracked, TypeInv, PoolType, Conns, NoConn
<1>2. CASE ~Tracked(c)
  BY <1>2 DEF Invalidate, Tracked
<1>3. QED
  BY <1>1, <1>2

poolOffers == <<poolClosed, state, shared, claimed, all>>

\* A user who neither takes a connection nor starts to look after one.
LEMMA UserReceiver ==
    ASSUME TypeInv, TypeInv', DialInv, ReceiverInv, NEW u \in Users,
           receiving' = receiving, pc[u] # "holding", pc'[u] # "holding",
           Holding(u)' => Holding(u) /\ on'[u] = on[u],
           \A v \in Users \ {u} : pc'[v] = pc[v] /\ on'[v] = on[v] /\ created'[v] = created[v],
           \A c \in Conns : Installed(c) => Installed(c)',
           UNCHANGED poolOffers \/ \E c : Invalidate(c)
    PROVE  ReceiverInv'
<1>1. \A v \in Users, c \in Conns : Looking(v, c)' <=> Looking(v, c)
  BY DEF Looking
<1>2. \A v \in Users : Holding(v)' => Holding(v) /\ on'[v] = on[v]
  BY DEF Holding
<1>3. CASE UNCHANGED poolOffers
  BY <1>1, <1>2, <1>3, ReceiverFrame DEF poolOffers, Tracked
<1>4. CASE \E c : Invalidate(c)
  BY <1>1, <1>2, <1>4, ReceiverFrame, InvalidateOffers
<1>5. QED
  BY <1>3, <1>4

\* A step of the pool that moves no user.
LEMMA PoolReceiver ==
    ASSUME TypeInv, TypeInv', DialInv, ReceiverInv, receiving' = receiving,
           UNCHANGED userVars,
           \/ \E c \in Conns : DialEnds(c) \/ Install(c) \/ Signal(c)
           \/ Reset \/ ClosePool \/ UNCHANGED <<dial, poolOffers>>
    PROVE  ReceiverInv'
<1>1. /\ \A v \in Users, c \in Conns : Looking(v, c)' <=> Looking(v, c)
      /\ \A v \in Users : Holding(v)' => Holding(v) /\ on'[v] = on[v]
  BY DEF Looking, Holding, userVars
<1> USE DEF TypeInv, PoolType
<1>2. CASE UNCHANGED <<dial, poolOffers>>
  BY <1>1, <1>2, ReceiverFrame DEF poolOffers, Tracked, Installed
<1>3. ASSUME NEW c \in Conns, DialEnds(c) \/ Signal(c) PROVE ReceiverInv'
  <2>1. UNCHANGED poolOffers
    BY <1>3 DEF DialEnds, Signal, poolVars, poolOffers
  <2>2. \A d \in Conns : Installed(d) => Installed(d)'
    BY <1>3 DEF DialEnds, Signal, Installed, Dials
  <2>3. QED
    BY <1>1, <2>1, <2>2, ReceiverFrame DEF poolOffers, Tracked
<1>4. ASSUME NEW c \in Conns, Install(c) PROVE ReceiverInv'
  <2>1. /\ \A d \in Conns : Installed(d) => d # c /\ Installed(d)'
        /\ UNCHANGED <<state, poolClosed, claimed>>
    BY <1>4 DEF Install, Installed
  <2>2. \A d \in Conns, g \in States : d # c =>
            /\ shared'[g] = d => shared[g] = d
            /\ d \in all'[g] => d \in all[g]
    BY <1>4 DEF Install
  <2>3. claimed[state] => shared'[state] = shared[state]
    <3>1. connecting[dial[c].gen] = c /\ c # NoConn /\ dial[c].gen \in States
      BY <1>4, Bounds DEF Install, DialInv, Dials, Conns, NoConn
    <3>2. claimed[state] => dial[c].gen # state
      BY <3>1 DEF DialInv
    <3>3. QED
      BY <1>4, <3>1, <3>2 DEF Install
  <2>4. QED
    BY <1>1, <2>1, <2>2, <2>3, ReceiverFrame DEF Tracked
<1>5. CASE Reset
  <2>1. shared'[state'] = NoConn /\ all'[state'] = {} /\ ~claimed'[state'] /\ shared' = shared
        /\ claimed' = claimed /\ dial' = dial
    BY <1>5, Bounds DEF Reset, DialInv, States
  <2>2. QED
    BY <1>1, <1>5, <2>1, ReceiverFrame DEF Tracked, Installed
<1>6. CASE ClosePool
  BY <1>1, <1>6, ReceiverFrame DEF ClosePool, Tracked, Installed
<1>7. QED
  BY <1>2, <1>3, <1>4, <1>5, <1>6

\* Every step keeps the receive loops in order.
LEMMA StepReceiver ==
    TypeInv /\ TypeInv' /\ DialInv /\ ReceiverInv /\ [Next]_vars => ReceiverInv'
<1> SUFFICES ASSUME TypeInv, TypeInv', DialInv, ReceiverInv, [Next]_vars PROVE ReceiverInv'
    OBVIOUS
<1>1. ASSUME NEW u \in Users, UNCHANGED udpVars, Begin(u) \/ WaitEnds(u) \/ Expire(u)
      PROVE  ReceiverInv'
  <2>1. /\ receiving' = receiving /\ pc[u] # "holding" /\ pc'[u] # "holding"
        /\ Holding(u)' => Holding(u) /\ on'[u] = on[u]
        /\ UNCHANGED <<created, dial, poolOffers>>
    BY <1>1 DEF Begin, WaitEnds, Expire, Finish, Again, Holding, udpVars, poolVars, poolOffers,
        TypeInv, UserType
  <2>2. \A v \in Users \ {u} : pc'[v] = pc[v] /\ on'[v] = on[v]
    BY <1>1 DEF Begin, WaitEnds, Expire, Finish, Again, TypeInv, UserType
  <2>3. QED
    BY <2>1, <2>2, UserReceiver DEF Installed
<1>2. ASSUME NEW u \in Users, UNCHANGED udpVars, Acquire(u) PROVE ReceiverInv'
  <2>1. CASE ~poolClosed /\ shared[state] # NoConn
    BY <1>2, <2>1, TakeReceiver DEF Acquire, udpVars
  <2>2. CASE ~(~poolClosed /\ shared[state] # NoConn)
    <3>1. /\ receiving' = receiving /\ pc[u] # "holding" /\ pc'[u] \in {"waiting", "done"}
          /\ UNCHANGED <<created, poolOffers>>
      BY <1>2, <2>2 DEF Acquire, Finish, udpVars, poolOffers, TypeInv, UserType
    <3>2. \A v \in Users \ {u} : pc'[v] = pc[v] /\ on'[v] = on[v]
      BY <1>2, <2>2 DEF Acquire, Finish, TypeInv, UserType
    <3>3. \A c \in Conns : Installed(c) => Installed(c)'
      BY <1>2, <2>2 DEF Acquire, Installed, TypeInv, PoolType
    <3>4. QED
      BY <3>1, <3>2, <3>3, UserReceiver DEF Holding
  <2>3. QED
    BY <2>1, <2>2
<1>3. ASSUME NEW u \in Users, UNCHANGED udpVars, Collect(u) PROVE ReceiverInv'
  <2>1. CASE Take(u) /\ ~poolClosed /\ shared[state] # NoConn
    BY <1>3, <2>1, TakeReceiver DEF Collect, udpVars
  <2>2. CASE Finish(u) \/ Again(u)
    <3>1. /\ receiving' = receiving /\ pc[u] # "holding" /\ pc'[u] \in {"acquire", "done"}
          /\ \A v \in Users \ {u} : pc'[v] = pc[v] /\ on'[v] = on[v]
      BY <1>3, <2>2 DEF Collect, Finish, Again, udpVars, TypeInv, UserType
    <3>2. UNCHANGED <<created, dial, poolOffers>>
      BY <1>3, <2>2 DEF Collect, Finish, Again, Take, poolOffers, TypeInv, UserType
    <3>3. QED
      BY <3>1, <3>2, UserReceiver DEF Holding, Installed
  <2>3. QED
    BY <1>3, <2>1, <2>2 DEF Collect
<1>4. ASSUME NEW u \in Users, Register(u) \/ AwaitEnds(u) \/ Leave(u) \/ Write(u)
      PROVE  ReceiverInv'
  <2>1. /\ receiving' = receiving /\ pc[u] # "holding" /\ pc'[u] # "holding"
        /\ Holding(u)' => Holding(u) /\ on'[u] = on[u]
        /\ UNCHANGED <<created, dial>>
    BY <1>4 DEF Register, AwaitEnds, Leave, Write, Finish, Holding, udpVars, TypeInv, UserType
  <2>2. \A v \in Users \ {u} : pc'[v] = pc[v] /\ on'[v] = on[v]
    BY <1>4 DEF Register, AwaitEnds, Leave, Write, Finish, TypeInv, UserType
  <2>3. UNCHANGED poolOffers \/ \E c : Invalidate(c)
    BY <1>4 DEF Register, AwaitEnds, Leave, Write, poolOffers, poolVars
  <2>4. QED
    BY <2>1, <2>2, <2>3, UserReceiver DEF Installed
<1>5. ASSUME NEW c \in Conns, Receive(c) PROVE ReceiverInv'
  BY <1>5, PoolReceiver DEF Receive, connVars, poolVars, poolOffers
<1>6. CASE PoolStep /\ UNCHANGED udpVars
  <2>1. ASSUME UNCHANGED udpVars,
               \/ \E c \in Conns : DialEnds(c) \/ Install(c) \/ Signal(c)
               \/ Reset \/ ClosePool \/ \E g \in States : CloseState(g)
        PROVE  ReceiverInv'
    <3>1. UNCHANGED userVars /\ receiving' = receiving
      BY <2>1 DEF DialEnds, Install, Signal, Reset, ClosePool, CloseState, udpVars
    <3>2. \A g \in States : CloseState(g) => UNCHANGED <<dial, poolOffers>>
      BY DEF CloseState, poolOffers
    <3>3. QED
      BY <2>1, <3>1, <3>2, PoolReceiver
  <2>2. QED
    BY <1>1, <1>2, <1>3, <1>6, <2>1 DEF PoolStep
<1>7. CASE UNCHANGED vars
  BY <1>7, PoolReceiver DEF vars, connVars, poolVars, udpVars, poolOffers
<1>8. QED
  BY <1>4, <1>5, <1>6, <1>7, StartReceiver, StopReceiver DEF Next

\* No connection ever has two receive loops, and nobody waits on the pool's
\* connection without one that runs or is about to be started.
THEOREM OneReceiverAlways == Spec => []OneReceiver
<1>1. Init => ReceiverInv
  BY InitReceiver
<1>2. TypeInv /\ ReceiverInv => OneReceiver
  BY DEF ReceiverInv, OneReceiver, Served, Looking
<1>3. QED
  BY <1>1, <1>2, StepReceiver, PoolInOrder, PTL DEF Spec

-----------------------------------------------------------------------------
(* Query ids                                                               *)

LEMMA InitNumber == Init => NumberInv
BY DEF Init, PoolInit, NumberInv, Registered

\* Two numbers of one id differ by a turn of the ids at least.
LEMMA SameIdApart ==
    ASSUME NEW a \in Nat, NEW b \in Nat, a > b, a % IdSpace = b % IdSpace
    PROVE  a >= b + IdSpace
<1> USE IdAssumption
<1> DEFINE qa == a \div IdSpace
           qb == b \div IdSpace
           r == b % IdSpace
<1>1. qa \in Int /\ qb \in Int /\ r \in Int /\ IdSpace \in Nat /\ IdSpace > 0
  OBVIOUS
<1>2. a = IdSpace * qa + r /\ b = IdSpace * qb + r
  OBVIOUS
<1> HIDE DEF qa, qb, r
<1>3. IdSpace * qa > IdSpace * qb
  BY <1>1, <1>2
<1>4. qa >= qb + 1
  BY <1>1, <1>3
<1>5. IdSpace * qa >= IdSpace * (qb + 1)
  BY <1>1, <1>4
<1>6. IdSpace * (qb + 1) = IdSpace * qb + IdSpace
  BY <1>1
<1>7. QED
  BY <1>1, <1>2, <1>5, <1>6

\* A step that registers, sends and answers nothing.
LEMMA NumberFrame ==
    ASSUME TypeInv, NumberInv, UNCHANGED <<number, queryId, callbacks, answer>>,
           sent' \subseteq sent,
           \A u \in Users : /\ Registered(u)' <=> Registered(u)
                            /\ pc[u] = "done" => pc'[u] = "done"
    PROVE  NumberInv'
<1> USE DEF TypeInv, ExchangeType, Messages
<1>1. \A u \in Users : Id(u)' = Id(u)
  BY DEF Id
<1>2. \A u \in Users : (
        /\ number[u] <= queryId
        /\ Registered(u) => callbacks[Id(u)] = u
        /\ answer[u] # NoUser =>
            /\ Registered(u) \/ pc[u] = "done"
            /\ Registered(answer[u]) \/ pc[answer[u]] = "done"
            /\ answer[u] # u => Id(u) = Id(answer[u]) /\ number[u] > number[answer[u]])'
  BY <1>1 DEF NumberInv, Registered, Id
<1>3. \A i \in Ids : (callbacks[i] # NoUser =>
        Registered(callbacks[i]) /\ Id(callbacks[i]) = i)'
  BY <1>1 DEF NumberInv, Registered, Id
<1>4. \A m \in sent' : (
        /\ m.id = Id(m.query)
        /\ Registered(m.query) \/ pc[m.query] = "done"
        /\ callbacks[m.id] \notin {NoUser, m.query} =>
            number[callbacks[m.id]] > number[m.query])'
  BY <1>1 DEF NumberInv, Registered, Id
<1>5. QED
  BY <1>2, <1>3, <1>4 DEF NumberInv

\* An exchange registers under an id that is free, with a number of its own
\* (udp.go, nextAvailableQueryId).
LEMMA RegisterNumber ==
    ASSUME TypeInv, NumberInv, NEW u \in Users, Register(u), Candidates # {}
    PROVE  NumberInv'
<1> USE IdAssumption DEF TypeInv, ExchangeType, UserType, Messages
<1> DEFINE n == NextNumber
           i == n % IdSpace
<1>1. /\ n \in Nat /\ n > queryId /\ i \in Ids /\ callbacks[i] = NoUser
      /\ queryId' = n /\ number' = [number EXCEPT ![u] = n]
      /\ callbacks' = [callbacks EXCEPT ![i] = u]
      /\ pc[u] = "register" /\ pc' = [pc EXCEPT ![u] = "write"]
      /\ UNCHANGED <<sent, answer>>
  <2>1. n \in Nat /\ n > queryId /\ callbacks[i] = NoUser
    BY NextIsCandidate DEF Candidates
  <2>2. i \in Ids
    BY <2>1 DEF Ids
  <2>3. QED
    BY <2>1, <2>2 DEF Register
<1> HIDE DEF n
<1>2. Id(u)' = i /\ \A v \in Users \ {u} : Id(v)' = Id(v)
  BY <1>1 DEF Id
<1> HIDE DEF i
<1>3. /\ ~Registered(u) /\ Registered(u)' /\ pc[u] # "done"
      /\ \A v \in Users \ {u} : (Registered(v)' <=> Registered(v)) /\ pc'[v] = pc[v]
                                /\ number'[v] = number[v]
  BY <1>1 DEF Registered
<1>4. number'[u] = n /\ callbacks'[i] = u /\ \A j \in Ids \ {i} : callbacks'[j] = callbacks[j]
  BY <1>1
<1>5. \A v \in Users : (
        /\ number[v] <= queryId
        /\ Registered(v) => callbacks[Id(v)] = v)'
  <2>1. ASSUME NEW v \in Users, v # u PROVE number[v] <= n
    BY <1>1 DEF NumberInv
  <2>2. ASSUME NEW v \in Users, v # u, Registered(v) PROVE callbacks'[Id(v)] = v
    <3>1. callbacks[Id(v)] = v /\ v # NoUser /\ Id(v) \in Ids
      BY <2>2, PoolAssumption DEF NumberInv, Id, Ids
    <3>2. QED
      BY <1>1, <1>4, <3>1
  <2>3. QED
    BY <1>1, <1>2, <1>3, <1>4, <2>1, <2>2 DEF Id
<1>6. \A v \in Users : (answer[v] # NoUser =>
            /\ Registered(v) \/ pc[v] = "done"
            /\ Registered(answer[v]) \/ pc[answer[v]] = "done"
            /\ answer[v] # v => Id(v) = Id(answer[v]) /\ number[v] > number[answer[v]])'
  BY <1>1, <1>2, <1>3 DEF NumberInv, Registered, Id
<1>7. \A j \in Ids : (callbacks[j] # NoUser =>
        Registered(callbacks[j]) /\ Id(callbacks[j]) = j)'
  <2>1. ASSUME NEW j \in Ids, j # i, callbacks[j] # NoUser
        PROVE  callbacks[j] # u
    BY <1>3, <2>1 DEF NumberInv
  <2>2. QED
    BY <1>1, <1>2, <1>3, <1>4, <2>1 DEF NumberInv, Registered, Id
<1>8. ASSUME NEW m \in sent
      PROVE  (/\ m.id = Id(m.query)
              /\ Registered(m.query) \/ pc[m.query] = "done"
              /\ callbacks[m.id] \notin {NoUser, m.query} =>
                  number[callbacks[m.id]] > number[m.query])'
  <2>1. m.query \in Users /\ m.query # u /\ m.id \in Ids /\ m.id = Id(m.query)
    BY <1>1, <1>3 DEF NumberInv
  <2>2. number[m.query] <= queryId /\ number'[m.query] = number[m.query]
    BY <1>3, <2>1 DEF NumberInv
  <2>3. CASE m.id = i
    BY <1>1, <1>2, <1>3, <1>4, <2>1, <2>2, <2>3 DEF NumberInv, Registered, Id
  <2>4. CASE m.id # i
    <3>1. callbacks'[m.id] = callbacks[m.id] /\ callbacks[m.id] # u
      BY <1>3, <1>4, <2>1, <2>4, PoolAssumption DEF NumberInv
    <3>2. callbacks[m.id] # NoUser => number'[callbacks[m.id]] = number[callbacks[m.id]]
      BY <1>3, <2>1, <3>1
    <3>3. QED
      BY <1>2, <1>3, <2>1, <2>2, <3>1, <3>2 DEF NumberInv, Registered, Id
  <2>5. QED
    BY <2>3, <2>4
<1>9. QED
  BY <1>1, <1>5, <1>6, <1>7, <1>8 DEF NumberInv

\* A message is sent under the id of the exchange that writes it.
LEMMA WriteNumber ==
    ASSUME TypeInv, NumberInv, NEW u \in Users, Write(u)
    PROVE  NumberInv'
<1> USE DEF TypeInv, ExchangeType, UserType, Messages
<1>1. /\ pc[u] = "write" /\ pc' \in {[pc EXCEPT ![u] = "await"], [pc EXCEPT ![u] = "leave"]}
      /\ UNCHANGED <<number, queryId, callbacks, answer>>
  BY DEF Write
<1>2. \A v \in Users : /\ Registered(v)' <=> Registered(v)
                       /\ pc[v] = "done" => pc'[v] = "done"
  BY <1>1 DEF Registered
<1>3. CASE sent' \subseteq sent
  BY <1>1, <1>2, <1>3, NumberFrame
<1>4. CASE sent' = sent \cup {[conn |-> on[u], id |-> Id(u), query |-> u]}
  <2>1. \A v \in Users : (
          /\ number[v] <= queryId
          /\ Registered(v) => callbacks[Id(v)] = v
          /\ answer[v] # NoUser =>
              /\ Registered(v) \/ pc[v] = "done"
              /\ Registered(answer[v]) \/ pc[answer[v]] = "done"
              /\ answer[v] # v => Id(v) = Id(answer[v]) /\ number[v] > number[answer[v]])'
    BY <1>1, <1>2 DEF NumberInv, Registered, Id
  <2>2. \A i \in Ids : (callbacks[i] # NoUser =>
          Registered(callbacks[i]) /\ Id(callbacks[i]) = i)'
    BY <1>1, <1>2 DEF NumberInv, Registered, Id
  <2>3. ASSUME NEW m \in sent'
        PROVE  (/\ m.id = Id(m.query)
                /\ Registered(m.query) \/ pc[m.query] = "done"
                /\ callbacks[m.id] \notin {NoUser, m.query} =>
                    number[callbacks[m.id]] > number[m.query])'
    <3>1. CASE m \in sent
      BY <1>1, <1>2, <3>1 DEF NumberInv, Registered, Id
    <3>2. CASE m = [conn |-> on[u], id |-> Id(u), query |-> u]
      <4>1. m.id = Id(u) /\ m.query = u /\ Registered(u) /\ callbacks[Id(u)] = u
        BY <1>1, <3>2 DEF NumberInv, Registered
      <4>2. QED
        BY <1>1, <1>2, <4>1 DEF Id, Registered
    <3>3. QED
      BY <1>4, <2>3, <3>1, <3>2
  <2>4. QED
    BY <2>1, <2>2, <2>3 DEF NumberInv
<1>5. QED
  BY <1>3, <1>4 DEF Write

\* An exchange that leaves takes its own callback away.
LEMMA LeaveNumber ==
    ASSUME TypeInv, NumberInv, NEW u \in Users, Leave(u)
    PROVE  NumberInv'
<1> USE DEF TypeInv, ExchangeType, UserType, Messages
<1> DEFINE i == Id(u)
<1>1. /\ pc[u] = "leave" /\ pc' = [pc EXCEPT ![u] = "done"]
      /\ callbacks' = [callbacks EXCEPT ![i] = NoUser]
      /\ UNCHANGED <<number, queryId, sent, answer>>
  BY DEF Leave, Finish
<1>2. callbacks[i] = u /\ i \in Ids
  BY <1>1, IdAssumption DEF NumberInv, Registered, Id, Ids
<1> HIDE DEF i
<1>3. \A v \in Users : Id(v)' = Id(v)
  BY <1>1 DEF Id
<1>4. /\ Registered(u) /\ ~Registered(u)' /\ pc'[u] = "done"
      /\ \A v \in Users \ {u} : (Registered(v)' <=> Registered(v)) /\ pc'[v] = pc[v]
  BY <1>1 DEF Registered
<1>5. ASSUME NEW v \in Users
      PROVE  (/\ number[v] <= queryId
              /\ Registered(v) => callbacks[Id(v)] = v)'
  BY <1>1, <1>2, <1>3, <1>4, IdAssumption DEF NumberInv, Id, Ids
<1>6. \A v \in Users : (answer[v] # NoUser =>
            /\ Registered(v) \/ pc[v] = "done"
            /\ Registered(answer[v]) \/ pc[answer[v]] = "done"
            /\ answer[v] # v => Id(v) = Id(answer[v]) /\ number[v] > number[answer[v]])'
  BY <1>1, <1>3, <1>4 DEF NumberInv, Registered, Id
<1>7. \A j \in Ids : callbacks'[j] # NoUser => j # i /\ callbacks'[j] = callbacks[j]
  BY <1>1
<1>8. \A j \in Ids : (callbacks[j] # NoUser =>
        Registered(callbacks[j]) /\ Id(callbacks[j]) = j)'
  <2>1. \A j \in Ids : j # i /\ callbacks[j] # NoUser => callbacks[j] # u
    BY DEF NumberInv, i
  <2>2. QED
    BY <1>1, <1>3, <1>4, <1>7, <2>1 DEF NumberInv, Registered, Id
<1>9. \A m \in sent' : (
        /\ m.id = Id(m.query)
        /\ Registered(m.query) \/ pc[m.query] = "done"
        /\ callbacks[m.id] \notin {NoUser, m.query} =>
            number[callbacks[m.id]] > number[m.query])'
  BY <1>1, <1>3, <1>4, <1>7 DEF NumberInv, Registered, Id
<1>10. QED
  BY <1>5, <1>6, <1>8, <1>9 DEF NumberInv

\* An answer goes to the exchange that holds its id.
LEMMA ReceiveNumber ==
    ASSUME TypeInv, NumberInv, NEW c \in Conns, Receive(c)
    PROVE  NumberInv'
<1> USE DEF TypeInv, ExchangeType, UserType, Messages
<1>1. PICK m \in sent : /\ callbacks[m.id] # NoUser
                        /\ answer' = [answer EXCEPT ![callbacks[m.id]] = m.query]
  BY DEF Receive
<1>2. UNCHANGED <<pc, number, queryId, callbacks, sent>>
  BY DEF Receive, connVars, userVars
<1>3. \A v \in Users : Id(v)' = Id(v) /\ (Registered(v)' <=> Registered(v))
  BY <1>2 DEF Id, Registered
<1> DEFINE u == callbacks[m.id]
<1>4. /\ m.query \in Users /\ m.id \in Ids /\ u \in Users
      /\ Registered(u) /\ Id(u) = m.id /\ Id(m.query) = m.id
      /\ Registered(m.query) \/ pc[m.query] = "done"
      /\ u # m.query => number[u] > number[m.query]
  BY <1>1 DEF NumberInv
<1> HIDE DEF u
<1>5. answer'[u] = m.query /\ \A v \in Users \ {u} : answer'[v] = answer[v]
  BY <1>1, <1>4 DEF u
<1>6. ASSUME NEW v \in Users
      PROVE  (answer[v] # NoUser =>
                /\ Registered(v) \/ pc[v] = "done"
                /\ Registered(answer[v]) \/ pc[answer[v]] = "done"
                /\ answer[v] # v => Id(v) = Id(answer[v]) /\ number[v] > number[answer[v]])'
  <2>1. CASE v = u
    BY <1>2, <1>3, <1>4, <1>5, <2>1 DEF Registered, Id
  <2>2. CASE v # u
    BY <1>2, <1>3, <1>5, <2>2 DEF NumberInv, Registered, Id
  <2>3. QED
    BY <2>1, <2>2
<1>7. QED
  BY <1>2, <1>3, <1>6 DEF NumberInv, Registered, Id

\* Every step keeps the numbers in order.
LEMMA StepNumber == TypeInv /\ NumberInv /\ [Next]_vars => NumberInv'
<1> SUFFICES ASSUME TypeInv, NumberInv, [Next]_vars PROVE NumberInv'
    OBVIOUS
<1> USE DEF TypeInv, UserType
<1>1. CASE PoolStep /\ UNCHANGED udpVars
  <2>1. \A u \in Users : /\ Registered(u)' <=> Registered(u)
                         /\ pc[u] = "done" => pc'[u] = "done"
    <3>1. ASSUME NEW w \in Users,
                 Begin(w) \/ Acquire(w) \/ WaitEnds(w) \/ Collect(w) \/ Expire(w)
          PROVE  \A u \in Users : /\ Registered(u)' <=> Registered(u)
                                  /\ pc[u] = "done" => pc'[u] = "done"
      BY <3>1 DEF Begin, Acquire, WaitEnds, Collect, Expire, Finish, Again, Take, Registered
    <3>2. CASE UNCHANGED userVars
      BY <3>2 DEF userVars, Registered
    <3>3. QED
      BY <1>1, <3>1, <3>2
         DEF PoolStep, DialEnds, Install, Signal, Reset, ClosePool, CloseState
  <2>2. QED
    BY <1>1, <2>1, NumberFrame DEF udpVars
<1>2. ASSUME NEW u \in Users, StartReceiving(u) PROVE NumberInv'
  BY <1>2, NumberFrame DEF StartReceiving, Registered
<1>3. ASSUME NEW u \in Users, Register(u) PROVE NumberInv'
  BY <1>3, RegisterNumber, NumberFrame DEF Register, Finish, Registered
<1>4. ASSUME NEW u \in Users, AwaitEnds(u) PROVE NumberInv'
  BY <1>4, NumberFrame DEF AwaitEnds, udpVars, Registered
<1>5. ASSUME NEW c \in Conns, StopReceiving(c) PROVE NumberInv'
  BY <1>5, NumberFrame DEF StopReceiving, userVars, Registered
<1>6. CASE UNCHANGED vars
  BY <1>6, NumberFrame DEF vars, connVars, userVars, udpVars, Registered
<1>7. QED
  BY <1>1, <1>2, <1>3, <1>4, <1>5, <1>6, WriteNumber, LeaveNumber, ReceiveNumber DEF Next

\* An exchange is given the answer to another one only when that one was
\* registered a whole turn of the query ids before it (udp.go, recvLoop and
\* nextAvailableQueryId).
THEOREM LateByATurnAlways == Spec => []LateByATurn
<1>1. Init => NumberInv
  BY InitNumber
<1>2. TypeInv /\ NumberInv => LateByATurn
  <2> SUFFICES ASSUME TypeInv, NumberInv, NEW u \in Users, answer[u] \notin {NoUser, u}
               PROVE  number[u] >= number[answer[u]] + IdSpace
      BY DEF LateByATurn
  <2>1. number[u] > number[answer[u]] /\ Id(u) = Id(answer[u]) /\ answer[u] \in Users
    BY DEF NumberInv, TypeInv, ExchangeType
  <2>2. QED
    BY <2>1, SameIdApart DEF Id, TypeInv, ExchangeType
<1>3. QED
  BY <1>1, <1>2, StepNumber, PoolInOrder, PTL DEF Spec

-----------------------------------------------------------------------------
(* The rounds of an exchange.                                              *)

\* A state that is ending is not in force, a state waits for a dial of its own
\* that is under way, and a user for one made for the state it has read.
RoundInv ==
    /\ \A g \in retiring \cup cancelled : g < state \/ poolClosed
    /\ \A g \in States : connecting[g] # NoConn =>
        dial[connecting[g]].stage \in {"dialling", "install"} /\ dial[connecting[g]].gen = g
    /\ \A u \in Users : pc[u] \in {"waiting", "collect"} =>
        /\ on[u] \in Conns
        /\ dial[on[u]].stage # "idle" /\ dial[on[u]].gen = gen[u]
        /\ pc[u] = "collect" => dial[on[u]].stage = "done"

\* Dials that nobody has to wait for any more.
Spent == {c \in Conns : dial[c].stage = "done"
                        \/ (dial[c].stage # "idle" /\ dial[c].gen \in cancelled)}

\* The places of an exchange in their order.
Places == [idle |-> 0, acquire |-> 1, waiting |-> 2, collect |-> 3, holding |-> 4,
           register |-> 5, write |-> 6, await |-> 7, leave |-> 8, done |-> 9]

\* An exchange stays with the dial it waits for or goes on, never to wait for a
\* dial that is spent; or it begins again, and then the one it waited for is.
Advances(u) ==
    \/ pc'[u] = pc[u] /\ (pc[u] = "waiting" => on'[u] = on[u])
    \/ /\ Places[pc'[u]] > Places[pc[u]]
       /\ pc'[u] = "waiting" => on'[u] \notin Spent'
       /\ pc'[u] = "collect" => on'[u] = on[u]
    \/ pc[u] \in {"waiting", "collect"} /\ pc'[u] = "acquire" /\ on[u] \in Spent

\* No exchange goes round for ever: it begins again at most once for each dial,
\* whatever is reset, closed, given up or refused.  With the fairness of the
\* goroutines and of the contexts this gives ExchangesReturn.
ExchangesAdvance == [][Spent \subseteq Spent' /\ \A u \in Users : Advances(u)]_vars

\* A dial goes on with the state it was made for, and is done once it is done.
LEMMA DialsKeep ==
    ASSUME TypeInv, [Next]_vars, NEW c \in Conns, dial[c].stage # "idle"
    PROVE  /\ dial'[c].stage # "idle" /\ dial'[c].gen = dial[c].gen
           /\ dial[c].stage = "done" => dial'[c].stage = "done"
<1> USE DEF TypeInv, PoolType
<1>1. CASE UNCHANGED dial
  BY <1>1
<1>2. ASSUME NEW u \in Users, Acquire(u)
      PROVE  UNCHANGED dial \/ dial'[c] = dial[c]
  BY <1>2 DEF Acquire
<1>3. ASSUME NEW d \in Conns, DialEnds(d) \/ Install(d) \/ Signal(d)
      PROVE  /\ dial'[c].stage # "idle" /\ dial'[c].gen = dial[c].gen
             /\ dial[c].stage = "done" => dial'[c].stage = "done"
  <2>1. CASE c = d
    BY <1>3, <2>1 DEF DialEnds, Install, Signal, Dials
  <2>2. CASE c # d
    BY <1>3, <2>2 DEF DialEnds, Install, Signal
  <2>3. QED
    BY <2>1, <2>2
<1>4. QED
  <2>1. CASE UNCHANGED vars
    BY <1>1, <2>1 DEF vars, connVars
  <2>2. CASE PoolStep
    BY <1>1, <1>2, <1>3, <2>2
        DEF PoolStep, Begin, WaitEnds, Collect, Expire, Reset, ClosePool, CloseState
  <2>3. CASE Next /\ ~PoolStep
    BY <1>1, <2>3
        DEF Next, StartReceiving, Register, Write, AwaitEnds, Leave, Receive,
            StopReceiving, connVars
  <2>4. QED
    BY <2>1, <2>2, <2>3

\* Only a change of the network or the end of the pool retires a state, and a
\* state that is over stays over (conn_pool.go, Reset, Close, closeState).
LEMMA EndingStep ==
    ASSUME TypeInv, RoundInv, [Next]_vars
    PROVE  /\ \A g \in retiring' \cup cancelled' : g < state' \/ poolClosed'
           /\ cancelled \subseteq cancelled'
<1> USE DEF TypeInv, PoolType
<1>1. CASE UNCHANGED <<retiring, cancelled, state, poolClosed>>
  BY <1>1 DEF RoundInv
<1>2. CASE Reset
  <2>1. /\ state' = state + 1 /\ cancelled' = cancelled
        /\ retiring' = retiring \cup {state} /\ ~poolClosed
    BY <1>2 DEF Reset
  <2>2. ASSUME NEW g \in retiring' \cup cancelled' PROVE g < state'
    <3>1. g \in States /\ (g < state \/ g = state)
      BY <2>1 DEF RoundInv
    <3>2. QED
      BY <2>1, <3>1, Bounds DEF States
  <2>3. QED
    BY <2>1, <2>2
<1>3. CASE ClosePool
  BY <1>3 DEF ClosePool
<1>4. ASSUME NEW g \in States, CloseState(g)
      PROVE  /\ \A h \in retiring' \cup cancelled' : h < state' \/ poolClosed'
             /\ cancelled \subseteq cancelled'
  BY <1>4 DEF CloseState, RoundInv
<1>5. QED
  <2>1. CASE UNCHANGED vars
    BY <1>1, <2>1 DEF vars, connVars, poolVars
  <2>2. CASE PoolStep
    BY <1>1, <1>2, <1>3, <1>4, <2>2
        DEF PoolStep, Begin, Acquire, WaitEnds, Collect, Expire, DialEnds, Install, Signal,
            poolVars
  <2>3. CASE Next /\ ~PoolStep
    BY <1>1, <2>3
        DEF Next, StartReceiving, Register, Write, AwaitEnds, Leave, Receive,
            StopReceiving, Invalidate, connVars, poolVars
  <2>4. QED
    BY <2>1, <2>2, <2>3

\* The dial a state waits for is under way and its own.
OwnDials(g) == connecting[g] # NoConn =>
    dial[connecting[g]].stage \in {"dialling", "install"} /\ dial[connecting[g]].gen = g

\* A dial that has ended is taken from its state before those who wait are told.
LEMMA OwnDialsStep ==
    ASSUME TypeInv, DialInv, RoundInv, [Next]_vars, NEW g \in States
    PROVE  OwnDials(g)'
<1> USE DEF TypeInv, PoolType
<1>1. OwnDials(g)
  BY DEF RoundInv, OwnDials
<1>2. CASE UNCHANGED <<connecting, dial>>
  BY <1>1, <1>2 DEF OwnDials
<1>3. ASSUME NEW u \in Users, Acquire(u) PROVE OwnDials(g)'
  <2>1. CASE UNCHANGED <<connecting, dial>>
    BY <1>2, <2>1
  <2>2. CASE ~UNCHANGED <<connecting, dial>>
    <3>1. PICK c \in Conns :
            /\ dial[c].stage = "idle"
            /\ dial' = [dial EXCEPT ![c] =
                   [stage |-> "dialling", owner |-> u, gen |-> state, failed |-> FALSE]]
            /\ connecting' = [connecting EXCEPT ![state] = c]
      BY <1>3, <2>2 DEF Acquire
    <3>2. QED
      BY <1>1, <3>1 DEF OwnDials
  <2>3. QED
    BY <2>1, <2>2
<1>4. ASSUME NEW c \in Conns, DialEnds(c) \/ Signal(c) PROVE OwnDials(g)'
  <2>1. UNCHANGED connecting
    BY <1>4 DEF DialEnds, Signal, poolVars
  <2>2. \A d \in Conns \ {c} : dial'[d] = dial[d]
    BY <1>4 DEF DialEnds, Signal
  <2>3. /\ dial'[c].gen = dial[c].gen
        /\ dial[c].stage = "signal" \/ dial'[c].stage = "install"
    BY <1>4 DEF DialEnds, Signal, Dials
  <2>4. QED
    BY <1>1, <2>1, <2>2, <2>3 DEF OwnDials
<1>5. ASSUME NEW c \in Conns, Install(c) PROVE OwnDials(g)'
  <2>1. /\ dial[c].gen \in States /\ connecting[dial[c].gen] = c
        /\ connecting' = [connecting EXCEPT ![dial[c].gen] = NoConn]
    BY <1>5 DEF Install, DialInv, Dials
  <2>2. \A d \in Conns \ {c} : dial'[d] = dial[d]
    BY <1>5 DEF Install
  <2>3. CASE g = dial[c].gen
    BY <2>1, <2>3 DEF OwnDials
  <2>4. CASE g # dial[c].gen
    BY <1>1, <2>1, <2>2, <2>4 DEF OwnDials
  <2>5. QED
    BY <2>3, <2>4
<1>6. QED
  <2>1. CASE UNCHANGED vars
    BY <1>2, <2>1 DEF vars, connVars, poolVars
  <2>2. CASE PoolStep
    BY <1>2, <1>3, <1>4, <1>5, <2>2
        DEF PoolStep, Begin, WaitEnds, Collect, Expire, Reset, ClosePool, CloseState, poolVars
  <2>3. CASE Next /\ ~PoolStep
    BY <1>2, <2>3
        DEF Next, StartReceiving, Register, Write, AwaitEnds, Leave, Receive,
            StopReceiving, Invalidate, connVars, poolVars
  <2>4. QED
    BY <2>1, <2>2, <2>3

\* What a step does to a user: nothing, or one of the moves of its own.
Moves(u) ==
    \/ UNCHANGED <<pc[u], on[u], gen[u]>>
    \/ /\ pc[u] = "idle" /\ pc'[u] = "acquire"
    \/ /\ pc[u] = "acquire" /\ pc'[u] \in {"done", "holding"}
    \/ /\ pc[u] = "acquire" /\ pc'[u] = "waiting" /\ ~poolClosed' /\ state' = state
       /\ cancelled' = cancelled
       /\ gen'[u] = state /\ on'[u] = connecting'[state] /\ on'[u] # NoConn
    \/ /\ pc[u] = "waiting" /\ pc'[u] = "collect" /\ UNCHANGED <<on[u], gen[u]>>
       /\ dial[on[u]].stage = "done"
    \/ /\ pc[u] = "waiting" /\ pc'[u] = "acquire" /\ gen[u] \in cancelled
    \/ pc[u] = "collect" /\ pc'[u] = "acquire"
    \/ pc[u] \in {"waiting", "collect"} /\ pc'[u] \in {"holding", "done"}
    \/ pc[u] = "holding" /\ pc'[u] = "register"
    \/ pc[u] = "register" /\ pc'[u] \in {"write", "done"}
    \/ pc[u] = "write" /\ pc'[u] \in {"await", "leave"}
    \/ pc[u] = "await" /\ pc'[u] = "leave"
    \/ pc[u] = "leave" /\ pc'[u] = "done"

\* A user moves by its own steps alone.
LEMMA UserMoves ==
    ASSUME TypeInv, [Next]_vars, NEW u \in Users
    PROVE  Moves(u)
<1> USE DEF TypeInv, UserType
<1>1. CASE UNCHANGED <<pc, on, gen>>
  BY <1>1 DEF Moves
<1>2. ASSUME NEW v \in Users, v # u,
             \/ Begin(v) \/ Acquire(v) \/ WaitEnds(v) \/ Collect(v)
             \/ Register(v) \/ Leave(v)
      PROVE  Moves(u)
  BY <1>2 DEF Begin, Acquire, WaitEnds, Collect, Register, Leave, Take, Finish, Again, Moves
<1>3. ASSUME NEW v \in Users, v # u, StartReceiving(v) \/ Write(v) \/ AwaitEnds(v)
      PROVE  Moves(u)
  BY <1>3 DEF StartReceiving, Write, AwaitEnds, Moves
<1>4. CASE Begin(u)
  BY <1>4 DEF Begin, Moves
<1>5. CASE Acquire(u)
  <2>1. CASE poolClosed \/ shared[state] # NoConn
    BY <1>5, <2>1 DEF Acquire, Finish, Take, Moves
  <2>2. CASE ~poolClosed /\ shared[state] = NoConn
    <3>1. /\ pc'[u] = "waiting" /\ gen'[u] = state
          /\ UNCHANGED <<state, poolClosed, cancelled>>
      BY <1>5, <2>2 DEF Acquire
    <3>2. CASE connecting[state] # NoConn
      BY <1>5, <2>2, <3>1, <3>2 DEF Acquire, Moves
    <3>3. CASE connecting[state] = NoConn
      <4>1. PICK c \in Conns : /\ connecting' = [connecting EXCEPT ![state] = c]
                               /\ on' = [on EXCEPT ![u] = c]
        BY <1>5, <2>2, <3>3 DEF Acquire
      <4>2. c # NoConn /\ on'[u] = c /\ connecting'[state] = c
        BY <4>1, Bounds DEF Conns, NoConn, PoolType
      <4>3. QED
        BY <1>5, <2>2, <3>1, <4>2 DEF Acquire, Moves
    <3>4. QED
      BY <3>2, <3>3
  <2>3. QED
    BY <2>1, <2>2
<1>6. CASE WaitEnds(u)
  BY <1>6 DEF WaitEnds, Finish, Again, Moves
<1>7. CASE Collect(u)
  BY <1>7 DEF Collect, Finish, Again, Take, Moves
<1>8. CASE StartReceiving(u) \/ Write(u) \/ AwaitEnds(u)
  BY <1>8 DEF StartReceiving, Write, AwaitEnds, Moves
<1>9. CASE Register(u) \/ Leave(u)
  BY <1>9 DEF Register, Leave, Finish, Moves
<1>10. QED
  <2>1. CASE UNCHANGED vars
    BY <1>1, <2>1 DEF vars, connVars, userVars
  <2>2. CASE PoolStep
    BY <1>1, <1>2, <1>4, <1>5, <1>6, <1>7, <2>2
        DEF PoolStep, Expire, DialEnds, Install, Signal, Reset, ClosePool, CloseState, userVars
  <2>3. CASE Next /\ ~PoolStep
    BY <1>1, <1>2, <1>3, <1>8, <1>9, <2>3
        DEF Next, Receive, StopReceiving, connVars, userVars
  <2>4. QED
    BY <2>1, <2>2, <2>3

\* Whoever waits, waits for a dial made for the state it has read.
LEMMA WaitingStep ==
    ASSUME TypeInv, TypeInv', RoundInv, [Next]_vars, NEW u \in Users,
           \A g \in States : OwnDials(g)', pc'[u] \in {"waiting", "collect"}
    PROVE  /\ on'[u] \in Conns
           /\ dial'[on'[u]].stage # "idle" /\ dial'[on'[u]].gen = gen'[u]
           /\ pc'[u] = "collect" => dial'[on'[u]].stage = "done"
<1>1. CASE pc[u] \in {"waiting", "collect"} /\ UNCHANGED <<on[u], gen[u]>>
           /\ (pc'[u] = "collect" => dial[on[u]].stage = "done")
  <2>1. /\ on[u] \in Conns
        /\ dial[on[u]].stage # "idle" /\ dial[on[u]].gen = gen[u]
    BY <1>1 DEF RoundInv
  <2>2. QED
    BY <1>1, <2>1, DialsKeep
<1>2. CASE pc'[u] = "waiting" /\ state' = state /\ gen'[u] = state
           /\ on'[u] = connecting'[state] /\ on'[u] # NoConn
  <2>1. state \in States /\ on'[u] \in Conns
    BY <1>2 DEF TypeInv, PoolType
  <2>2. QED
    BY <1>2, <2>1 DEF OwnDials
<1>3. QED
  BY <1>1, <1>2, UserMoves DEF Moves, RoundInv

\* Every step keeps the rounds in order.
LEMMA StepRound == TypeInv /\ DialInv /\ RoundInv /\ [Next]_vars => RoundInv'
<1> SUFFICES ASSUME TypeInv, DialInv, RoundInv, [Next]_vars PROVE RoundInv'
    OBVIOUS
<1>1. TypeInv'
  BY StepType
<1>2. \A g \in States : OwnDials(g)'
  BY OwnDialsStep
<1>3. \A g \in retiring' \cup cancelled' : g < state' \/ poolClosed'
  BY EndingStep
<1>4. ASSUME NEW u \in Users, pc'[u] \in {"waiting", "collect"}
      PROVE  /\ on'[u] \in Conns
             /\ dial'[on'[u]].stage # "idle" /\ dial'[on'[u]].gen = gen'[u]
             /\ pc'[u] = "collect" => dial'[on'[u]].stage = "done"
  BY <1>1, <1>2, <1>4, WaitingStep
<1>5. QED
  BY <1>2, <1>3, <1>4 DEF RoundInv, OwnDials

\* ExchangesAdvance for any number of exchanges, dials and resets: a dial is
\* forgotten before its error is told, and a state is replaced before its context
\* ends (conn_pool.go:199-224, 298-437).
THEOREM ExchangesAdvanceAlways == Spec => ExchangesAdvance
<1> DEFINE A == Spent \subseteq Spent' /\ \A u \in Users : Advances(u)
<1>1. Init => RoundInv
  BY DEF Init, PoolInit, RoundInv, NoConn
<1>2. ASSUME TypeInv, DialInv, RoundInv, [Next]_vars PROVE A
  <2>1. Spent \subseteq Spent'
    BY <1>2, DialsKeep, EndingStep DEF Spent
  <2>2. ASSUME NEW u \in Users PROVE Advances(u)
    <3>1. Moves(u) /\ pc[u] \in PCs /\ pc'[u] \in PCs
      BY <1>2, UserMoves, StepType DEF TypeInv, UserType
    <3>2. pc[u] = "collect" \/ (pc[u] = "waiting" /\ gen[u] \in cancelled) => on[u] \in Spent
      BY <1>2 DEF RoundInv, Spent
    <3>3. CASE pc[u] = "acquire" /\ pc'[u] = "waiting"
      <4>1. /\ ~poolClosed' /\ state' = state /\ state \in States
            /\ on'[u] = connecting'[state] /\ on'[u] # NoConn /\ cancelled' = cancelled
        BY <1>2, <3>1, <3>3 DEF Moves, TypeInv, PoolType
      <4>2. dial'[on'[u]].stage \in {"dialling", "install"} /\ dial'[on'[u]].gen = state
        BY <1>2, <4>1, OwnDialsStep DEF OwnDials
      <4>3. state \notin cancelled'
        BY <1>2, <4>1, EndingStep DEF States
      <4>4. QED
        BY <3>3, <4>2, <4>3 DEF Advances, Spent, Places
    <3>4. CASE ~(pc[u] = "acquire" /\ pc'[u] = "waiting")
      BY <3>1, <3>2, <3>4 DEF Moves, Advances, Places
    <3>5. QED
      BY <3>3, <3>4
  <2>3. QED
    BY <2>1, <2>2
<1>3. TypeInv /\ DialInv /\ RoundInv /\ [Next]_vars => A \/ UNCHANGED vars
  BY <1>2
<1> HIDE DEF A
<1>4. QED
  BY <1>1, <1>3, StepRound, PoolInOrder, PTL DEF Spec, ExchangesAdvance, A

=============================================================================
