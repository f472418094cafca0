--------------------------- MODULE DnsClientProofs ---------------------------
(***************************************************************************)
(* Proofs about DnsClient for any number of queries, questions, transports *)
(* and rules, and any of the set-ups and requests the constants allow:     *)
(* locks, answers, circles of waits, and the way of a query through its    *)
(* rules.                                                                  *)
(***************************************************************************)
EXTENDS DnsClient, WellFoundedInduction, TLAPS

PCs == {"idle", "peek", "enter", "wait", "load", "check", "send", "dialling",
        "asked", "delete", "close", "decide", "done"}
Answers == [question : Questions, from : Transports,
            rcode : {"ok", "nxdomain", "failure"}, accepted : BOOLEAN]
Outcomes == {Nothing, Failed, Refused} \cup {Gave(a) : a \in Answers}
Keys == Questions \X Transports
CacheKeys == Questions \X (Transports \cup {ByRules})

SetupType ==
    /\ resolver \in [Transports -> ResolverSpace \cup {NoName}]
    /\ independent \in BOOLEAN

QueryType ==
    /\ pc \in [Tasks -> PCs]
    /\ request \in [Tasks -> RequestSpace \cup {Nothing}]
    /\ parent \in [Tasks -> Tasks \cup {NoTask}]
    /\ rule \in [Tasks -> 0..Len(Rules)]
    /\ waiting \in [Tasks -> Tasks \cup {NoTask}]
    /\ leading \in [Tasks -> BOOLEAN]
    /\ over \subseteq Tasks
    /\ outcome \in [Tasks -> Outcomes]

SharedType ==
    /\ lock \subseteq [key : Keys, holder : Tasks]
    /\ cache \subseteq [key : CacheKeys, answer : Answers]
    /\ rdrc \subseteq Keys

\* A query under way asks something, under a rule that matches it where the
\* rules decide; a plain query stays clear of the cache and its lock.
Walking(t) ==
    /\ request[t] \in RequestSpace
    /\ request[t].via = ByRules =>
        rule[t] \in 1..Len(Rules) /\ request[t].question \in Rules[rule[t]].questions
    /\ request[t].plain => pc[t] \notin {"peek", "enter", "wait", "load"}
WalkInv == \A t \in Tasks : pc[t] # "idle" => Walking(t)

TypeInv == SetupType /\ QueryType /\ SharedType /\ WalkInv

\* Only the holder of a lock releases it, and once.
LockInv ==
    /\ LocksHeld
    /\ \A t \in Tasks : pc[t] \in {"delete", "close"} => leading[t]
    /\ \A l \in lock : pc[l.holder] # "close"

Sound(t) ==
    outcome[t].kind = "answer" =>
        /\ outcome[t].answer.accepted
        /\ outcome[t].answer.question = request[t].question
        /\ independent \/ request[t].plain => outcome[t].answer.from = Transport(t)
SoundEntry(c) ==
    /\ c.answer.accepted /\ c.answer.rcode # "failure"
    /\ c.answer.question = c.key[1]
    /\ independent => c.answer.from = c.key[2]

\* What queries and the cache hold at any time.
AnswerInv ==
    /\ \A c \in cache : SoundEntry(c)
    /\ \A t \in Tasks : Sound(t) /\ (pc[t] = "idle" => outcome[t] = Nothing)

-----------------------------------------------------------------------------
(* The walk through the rules                                              *)

\* The list of rules ends with the default transport.
LEMMA RuleFacts ==
    /\ Len(Rules) \in Nat /\ Len(Rules) >= 1
    /\ \A i \in 1..Len(Rules) : Rules[i] \in RuleSpace
    /\ Rules[Len(Rules)].questions = Questions /\ ~Rules[Len(Rules)].limited
BY RulesAssumption

\* A nonempty set of numbers has a least one.
LEMMA MinExists ==
    ASSUME NEW S \in SUBSET Nat, S # {}
    PROVE  Min(S) \in S
<1>1. \E x \in S : \A y \in S : ~(<<y, x>> \in OpToRel(<, Nat))
  BY NatLessThanWellFounded, WFMin, Zenon
<1>2. PICK x \in S : \A y \in S : ~(<<y, x>> \in OpToRel(<, Nat))
  BY <1>1
<1>3. ASSUME NEW a \in Nat, NEW b \in Nat, a < b PROVE <<a, b>> \in OpToRel(<, Nat)
  BY <1>3 DEF OpToRel
<1>4. \A y \in S : x <= y
  <2>1. ASSUME NEW y \in S PROVE x <= y
    <3>1. x \in Nat /\ y \in Nat /\ ~(y < x)
      BY <1>2, <1>3
    <3>2. QED
      BY <3>1
  <2>2. QED
    BY <2>1
<1>5. QED
  BY <1>4 DEF Min

\* There is always a next rule before the last: the walk of a query never runs
\* past the default transport (router.go, matchDNS).
LEMMA NextRuleMatches ==
    ASSUME NEW q \in Questions, NEW i \in Nat, i < Len(Rules)
    PROVE  /\ NextRule(q, i) \in 1..Len(Rules) /\ NextRule(q, i) > i
           /\ q \in Rules[NextRule(q, i)].questions
<1> DEFINE S == {j \in (i + 1)..Len(Rules) : q \in Rules[j].questions}
<1>1. S \in SUBSET Nat /\ Len(Rules) \in S
  BY RuleFacts
<1>2. Min(S) \in S
  <2> HIDE DEF S
  <2>1. QED
    BY <1>1, MinExists
<1>3. NextRule(q, i) \in S
  BY <1>2 DEF NextRule
<1>4. QED
  BY <1>3, RuleFacts

\* A query under way has a question and a transport.
LEMMA Target ==
    ASSUME TypeInv, NEW t \in Tasks, pc[t] # "idle"
    PROVE  /\ request[t] \in RequestSpace /\ request[t].question \in Questions
           /\ Transport(t) \in Transports
           /\ Key(t) \in Keys /\ Key(t)[1] = request[t].question /\ Key(t)[2] = Transport(t)
           /\ Limited(t) => rule[t] < Len(Rules)
<1>1. Walking(t)
  BY DEF TypeInv, WalkInv
<1>2. request[t].question \in Questions /\ Transport(t) \in Transports
  BY <1>1, RuleFacts DEF Walking, Transport, RequestSpace, RuleSpace
<1>3. Limited(t) => rule[t] < Len(Rules)
  BY <1>1, RuleFacts DEF Walking, Limited
<1>4. QED
  BY <1>1, <1>2, <1>3 DEF Walking, Key, Keys

\* Queries that keep their request and their rule walk on.
LEMMA WalkFrame ==
    ASSUME TypeInv, UNCHANGED <<request, rule>>,
           \A t \in Tasks : pc'[t] # "idle" =>
              /\ pc[t] # "idle"
              /\ pc'[t] \in {"peek", "enter", "wait", "load"} =>
                    pc[t] \in {"peek", "enter", "wait", "load"}
    PROVE  WalkInv'
BY DEF TypeInv, WalkInv, Walking

\* An entry found is an answer.
LEMMA CachedAnswer ==
    ASSUME TypeInv, NEW t, NEW c \in Cached(Key(t))
    PROVE  c \in cache /\ c.answer \in Answers
BY DEF Cached, TypeInv, SharedType

LEMMA InitType == Init => TypeInv
<1> SUFFICES ASSUME Init PROVE TypeInv
    OBVIOUS
<1>1. SetupType
  BY SetupsAssumption DEF Init, SetupType
<1>2. QueryType
  BY RuleFacts DEF Init, QueryType, PCs, Outcomes
<1>3. SharedType /\ WalkInv
  BY DEF Init, SharedType, WalkInv
<1>4. QED
  BY <1>1, <1>2, <1>3 DEF TypeInv

\* The steps of the router keep the types.
LEMMA RouterType ==
    ASSUME TypeInv, NEW t \in Tasks, Begin(t) \/ Decide(t)
    PROVE  TypeInv'
<1> USE DEF TypeInv
<1>1. SetupType' /\ SharedType'
  BY DEF Begin, Decide, SetupType, SharedType, sharedVars
<1>2. ASSUME NEW r \in RequestSpace, NEW i, Attempt(t, r, i),
             r.via = ByRules => i \in 1..Len(Rules) /\ r.question \in Rules[i].questions,
             i \in 0..Len(Rules), request' = [request EXCEPT ![t] = r],
             UNCHANGED <<parent, waiting, leading, over>>
      PROVE  TypeInv'
  <2>1. QueryType'
    BY <1>2 DEF Attempt, QueryType, PCs, Outcomes
  <2>2. ASSUME NEW s \in Tasks, pc'[s] # "idle" PROVE Walking(s)'
    <3>1. CASE s = t
      BY <1>2, <3>1 DEF Walking, Attempt, QueryType
    <3>2. CASE s # t
      BY <1>2, <2>2, <3>2 DEF Walking, WalkInv, Attempt, QueryType
    <3>3. QED
      BY <3>1, <3>2
  <2>3. QED
    BY <1>1, <2>1, <2>2 DEF WalkInv
<1>3. CASE Begin(t)
  <2>1. PICK r \in Requests[t] : /\ request' = [request EXCEPT ![t] = r]
                                 /\ Attempt(t, r, FirstRule(r))
    BY <1>3 DEF Begin
  <2>2. r \in RequestSpace
    BY <1>3, RequestsAssumption DEF Begin
  <2>3. r.question \in Questions
    BY <2>2 DEF RequestSpace
  <2>4. /\ FirstRule(r) \in 0..Len(Rules)
        /\ r.via = ByRules =>
             FirstRule(r) \in 1..Len(Rules) /\ r.question \in Rules[FirstRule(r)].questions
    BY <2>3, RuleFacts, NextRuleMatches DEF FirstRule
  <2>5. QED
    BY <1>2, <1>3, <2>1, <2>2, <2>4 DEF Begin
<1>4. CASE Decide(t) /\ GoesOn(t)
  <2> DEFINE r == request[t]
             i == NextRule(r.question, rule[t])
  <2>1. pc[t] # "idle" /\ Limited(t)
    BY <1>4 DEF Decide, GoesOn
  <2>2. r \in RequestSpace /\ r.question \in Questions /\ rule[t] \in Nat /\ rule[t] < Len(Rules)
    BY <2>1, Target, RuleFacts DEF QueryType
  <2>3. i \in 1..Len(Rules) /\ r.question \in Rules[i].questions
    BY <2>2, NextRuleMatches
  <2>4. request' = [request EXCEPT ![t] = r] /\ Attempt(t, r, i)
        /\ UNCHANGED <<parent, waiting, leading, over>>
    BY <1>4 DEF Decide, QueryType
  <2> HIDE DEF r, i
  <2>5. i \in 0..Len(Rules)
    BY <2>3, RuleFacts
  <2>6. QED
    BY <1>2, <2>2, <2>3, <2>4, <2>5
<1>5. CASE Decide(t) /\ ~GoesOn(t)
  <2>1. pc' = [pc EXCEPT ![t] = "done"] /\ pc[t] = "decide"
        /\ UNCHANGED <<rule, outcome, request, parent, waiting, leading, over>>
    BY <1>5 DEF Decide
  <2>2. QueryType'
    BY <2>1 DEF QueryType, PCs
  <2>3. WalkInv'
    BY <2>1, WalkFrame DEF QueryType
  <2>4. QED
    BY <1>1, <2>2, <2>3
<1>6. QED
  BY <1>3, <1>4, <1>5

\* The end of an exchange keeps the types of the query.
LEMMA LeaveType ==
    ASSUME TypeInv, NEW t \in Tasks, NEW out \in Outcomes, Leave(t, out),
           UNCHANGED <<request, parent, rule, leading>>,
           waiting' \in [Tasks -> Tasks \cup {NoTask}]
    PROVE  QueryType'
BY DEF TypeInv, QueryType, PCs, Leave

\* The steps of the client keep the types.
LEMMA ClientType ==
    ASSUME TypeInv, NEW t \in Tasks,
           \/ Peek(t) \/ Enter(t) \/ Wake(t) \/ StopWaiting(t) \/ Load(t)
           \/ Check(t) \/ Delete(t) \/ Close(t)
    PROVE  TypeInv'
<1> USE DEF TypeInv
<1>1. SetupType'
  BY DEF Peek, Enter, Wake, StopWaiting, Load, Check, Delete, Close, SetupType
<1>2. pc[t] # "idle" /\ Key(t) \in Keys
  BY Target DEF Peek, Enter, Wake, StopWaiting, Load, Check, Delete, Close
<1>3. Failed \in Outcomes /\ Refused \in Outcomes /\ \A a \in Answers : Gave(a) \in Outcomes
  BY DEF Outcomes
<1>4. ASSUME NEW next \in {"enter", "check"}, LoadOr(t, next), pc[t] \in {"peek", "load"},
             UNCHANGED <<request, parent, rule, waiting, leading, lock, rdrc>>
      PROVE  TypeInv'
  <2>1. SharedType' /\ cache' \subseteq cache
    BY <1>4 DEF LoadOr, SharedType
  <2>2. QueryType'
    <3>1. CASE pc' = [pc EXCEPT ![t] = next] /\ UNCHANGED <<outcome, over>>
      BY <1>4, <3>1 DEF QueryType, PCs
    <3>2. ASSUME NEW c \in Cached(Key(t)), Leave(t, Gave(c.answer)) PROVE QueryType'
      <4>1. Gave(c.answer) \in Outcomes
        BY <1>3, CachedAnswer
      <4>2. waiting' \in [Tasks -> Tasks \cup {NoTask}]
        BY <1>4 DEF QueryType
      <4>3. QED
        BY <1>4, <3>2, <4>1, <4>2, LeaveType
    <3>3. QED
      BY <1>4, <3>1, <3>2 DEF LoadOr
  <2>3. WalkInv'
    BY <1>4, WalkFrame DEF LoadOr, Leave, QueryType
  <2>4. QED
    BY <1>1, <2>1, <2>2, <2>3
<1>5. CASE Peek(t) \/ Load(t)
  BY <1>4, <1>5 DEF Peek, Load
<1>6. CASE Enter(t)
  <2>1. SharedType'
    BY <1>2, <1>6 DEF Enter, SharedType
  <2>2. QueryType'
    BY <1>6 DEF Enter, QueryType, PCs, SharedType
  <2>3. WalkInv'
    BY <1>6, WalkFrame DEF Enter, QueryType
  <2>4. QED
    BY <1>1, <2>1, <2>2, <2>3
<1>7. CASE Wake(t)
  <2>1. QueryType' /\ SharedType'
    BY <1>7 DEF Wake, QueryType, PCs, SharedType, sharedVars
  <2>2. WalkInv'
    BY <1>7, WalkFrame DEF Wake, QueryType
  <2>3. QED
    BY <1>1, <2>1, <2>2
<1>8. CASE StopWaiting(t)
  <2>1. SharedType'
    BY <1>8 DEF StopWaiting, SharedType, sharedVars
  <2>2. waiting' \in [Tasks -> Tasks \cup {NoTask}]
    BY <1>8 DEF StopWaiting, QueryType
  <2>3. QueryType'
    BY <1>3, <1>8, <2>2, LeaveType DEF StopWaiting
  <2>4. WalkInv'
    BY <1>8, WalkFrame DEF StopWaiting, Leave, QueryType
  <2>5. QED
    BY <1>1, <2>1, <2>3, <2>4
<1>9. CASE Check(t)
  <2>1. SharedType'
    BY <1>9 DEF Check, SharedType, sharedVars
  <2>2. QueryType'
    <3>1. CASE UNCHANGED <<outcome, over>>
      BY <1>9, <3>1 DEF Check, Leave, QueryType, PCs
    <3>2. CASE Leave(t, Failed) \/ Leave(t, Refused)
      <4>1. waiting' \in [Tasks -> Tasks \cup {NoTask}]
        BY <1>9 DEF Check, QueryType
      <4>2. QED
        BY <1>3, <1>9, <3>2, <4>1, LeaveType DEF Check
    <3>3. QED
      BY <1>9, <3>1, <3>2 DEF Check
  <2>3. WalkInv'
    BY <1>9, WalkFrame DEF Check, Leave, QueryType
  <2>4. QED
    BY <1>1, <2>1, <2>2, <2>3
<1>10. CASE Delete(t) \/ Close(t)
  <2>1. QueryType' /\ SharedType'
    BY <1>10 DEF Delete, Close, QueryType, PCs, SharedType
  <2>2. WalkInv'
    BY <1>10, WalkFrame DEF Delete, Close, QueryType
  <2>3. QED
    BY <1>1, <2>1, <2>2
<1>11. QED
  BY <1>5, <1>6, <1>7, <1>8, <1>9, <1>10

\* A dial starts a query of its own with the types it needs.
LEMMA DialType ==
    ASSUME TypeInv, NEW t \in Tasks, Dial(t)
    PROVE  TypeInv'
<1> USE DEF TypeInv
<1>1. SetupType' /\ SharedType'
  BY DEF Dial, SetupType, SharedType, sharedVars
<1> DEFINE x == resolver[Transport(t)]
           r == [question |-> x.question, via |-> x.via, kind |-> "lookup", plain |-> FALSE]
<1>2. x \in ResolverSpace /\ pc[t] = "send"
  BY Target DEF Dial, SetupType
<1>3. r \in RequestSpace /\ r.question \in Questions /\ r.kind = "lookup" /\ ~r.plain
  BY <1>2 DEF ResolverSpace, RequestSpace
<1>4. /\ FirstRule(r) \in 0..Len(Rules)
      /\ r.via = ByRules =>
           FirstRule(r) \in 1..Len(Rules) /\ r.question \in Rules[FirstRule(r)].questions
  <2> HIDE DEF r
  <2>1. QED
    BY <1>3, RuleFacts, NextRuleMatches DEF FirstRule
<1>5. PICK c \in Tasks : /\ pc[c] = "idle"
                         /\ request' = [request EXCEPT ![c] = r]
                         /\ parent' = [parent EXCEPT ![c] = t]
                         /\ rule' = [rule EXCEPT ![c] = FirstRule(r)]
                         /\ pc' = [pc EXCEPT ![t] = "dialling", ![c] = "peek"]
                         /\ UNCHANGED <<waiting, leading, over, outcome>>
  BY DEF Dial
<1> HIDE DEF r
<1>6. QueryType'
  BY <1>3, <1>4, <1>5 DEF QueryType, PCs
<1>7. ASSUME NEW s \in Tasks, pc'[s] # "idle" PROVE Walking(s)'
  <2>1. CASE s = c
    BY <1>3, <1>4, <1>5, <2>1 DEF Walking, QueryType
  <2>2. CASE s # c
    <3>1. pc[s] # "idle" /\ request'[s] = request[s] /\ rule'[s] = rule[s]
          /\ (pc'[s] = pc[s] \/ pc'[s] = "dialling")
      BY <1>2, <1>5, <1>7, <2>2 DEF QueryType
    <3>2. QED
      BY <3>1 DEF Walking, WalkInv
  <2>3. QED
    BY <2>1, <2>2
<1>8. QED
  BY <1>1, <1>6, <1>7 DEF WalkInv

\* A lookup that has returned leaves its task for another.
LEMMA DialledType ==
    ASSUME TypeInv, NEW t \in Tasks, Dialled(t)
    PROVE  TypeInv'
<1> USE DEF TypeInv
<1>1. SetupType' /\ SharedType'
  BY DEF Dialled, SetupType, SharedType, sharedVars
<1>2. PICK c \in Tasks, p \in {"asked", "delete", "decide"}, out \in {Failed, Nothing} :
          /\ pc[c] = "done" /\ pc[t] = "dialling"
          /\ request' = [request EXCEPT ![c] = Nothing]
          /\ parent' = [parent EXCEPT ![c] = NoTask]
          /\ rule' = [rule EXCEPT ![c] = 0]
          /\ outcome' = [outcome EXCEPT ![c] = Nothing, ![t] = out]
          /\ pc' = [pc EXCEPT ![c] = "idle", ![t] = p]
          /\ over' \subseteq over
          /\ UNCHANGED <<waiting, leading>>
  <2>1. PICK c \in Tasks :
          /\ pc[c] = "done"
          /\ request' = [request EXCEPT ![c] = Nothing]
          /\ parent' = [parent EXCEPT ![c] = NoTask]
          /\ rule' = [rule EXCEPT ![c] = 0]
          /\ LET failed == IsError(c)
             IN  /\ outcome' = [outcome EXCEPT ![c] = Nothing, ![t] = IF failed THEN Failed ELSE Nothing]
                 /\ pc' = [pc EXCEPT ![c] = "idle",
                                     ![t] = IF ~failed THEN "asked"
                                            ELSE IF leading[t] THEN "delete" ELSE "decide"]
                 /\ over' = IF failed THEN over \ {t} ELSE over
    BY DEF Dialled
  <2>2. CASE IsError(c)
    BY <2>1, <2>2 DEF Dialled
  <2>3. CASE ~IsError(c)
    BY <2>1, <2>3 DEF Dialled
  <2>4. QED
    BY <2>2, <2>3
<1>3. Nothing \in Outcomes /\ Failed \in Outcomes
  BY DEF Outcomes
<1>4. QueryType'
  <2>1. pc' \in [Tasks -> PCs]
    BY <1>2 DEF QueryType, PCs
  <2>2. rule' \in [Tasks -> 0..Len(Rules)]
    <3>1. 0 \in 0..Len(Rules)
      BY RuleFacts
    <3>2. QED
      BY <1>2, <3>1 DEF QueryType
  <2>3. outcome' \in [Tasks -> Outcomes]
    BY <1>2, <1>3 DEF QueryType
  <2>4. QED
    BY <1>2, <2>1, <2>2, <2>3 DEF QueryType
<1>5. ASSUME NEW s \in Tasks, pc'[s] # "idle" PROVE Walking(s)'
  <2>1. s # c /\ pc[s] # "idle" /\ request'[s] = request[s] /\ rule'[s] = rule[s]
        /\ (pc'[s] = pc[s] \/ pc'[s] \in {"asked", "delete", "decide"})
    BY <1>2, <1>5 DEF QueryType
  <2>2. QED
    BY <2>1 DEF Walking, WalkInv
<1>6. QED
  BY <1>1, <1>4, <1>5 DEF WalkInv

\* The other steps of the transport keep the types.
LEMMA TransportType ==
    ASSUME TypeInv,
           \/ \E t \in Tasks : Send(t) \/ Expire(t) \/ Fail(t) \/ Answer(t)
           \/ ResetNetwork
    PROVE  TypeInv'
<1> USE DEF TypeInv
<1>1. ASSUME NEW t \in Tasks, Send(t) \/ Expire(t) PROVE TypeInv'
  <2>1. SetupType' /\ SharedType'
    BY <1>1 DEF Send, Expire, SetupType, SharedType, sharedVars
  <2>2. Nothing \in Outcomes
    BY DEF Outcomes
  <2>3. QueryType'
    BY <1>1, <2>2 DEF Send, Expire, QueryType, PCs
  <2>4. WalkInv'
    BY <1>1, WalkFrame DEF Send, Expire, QueryType
  <2>5. QED
    BY <2>1, <2>3, <2>4
<1>2. ASSUME NEW t \in Tasks, NEW out \in Outcomes, Leave(t, out), pc[t] = "asked",
             UNCHANGED <<resolver, independent, request, parent, rule, waiting, leading>>,
             SharedType'
      PROVE  TypeInv'
  <2>1. SetupType' /\ waiting' \in [Tasks -> Tasks \cup {NoTask}]
    BY <1>2 DEF SetupType, QueryType
  <2>2. QueryType'
    BY <1>2, <2>1, LeaveType
  <2>3. WalkInv'
    BY <1>2, WalkFrame DEF Leave, QueryType
  <2>4. QED
    BY <1>2, <2>1, <2>2, <2>3
<1>3. ASSUME NEW t \in Tasks, Fail(t) PROVE TypeInv'
  <2>1. Failed \in Outcomes /\ SharedType'
    BY <1>3 DEF Outcomes, Fail, SharedType, sharedVars
  <2>2. QED
    BY <1>2, <1>3, <2>1 DEF Fail
<1>4. ASSUME NEW t \in Tasks, Answer(t) PROVE TypeInv'
  <2>1. /\ Key(t) \in Keys /\ Key(t)[1] \in Questions /\ request[t].question \in Questions
        /\ Transport(t) \in Transports /\ pc[t] = "asked"
    BY <1>4, Target DEF Answer
  <2>2. CacheKey(Key(t)) \in CacheKeys
    BY <2>1 DEF CacheKey, CacheKeys, Keys
  <2>3. PICK answer \in Answers :
          /\ Leave(t, Gave(answer)) \/ Leave(t, Refused)
          /\ Keep(Key(t), answer) \/ UNCHANGED cache
          /\ rdrc' \subseteq rdrc \cup {Key(t)}
    <3>1. PICK rcode \in {"ok", "nxdomain", "failure"}, accepted \in BOOLEAN, lives \in BOOLEAN :
            LET answer == [question |-> request[t].question, from |-> Transport(t),
                           rcode |-> rcode, accepted |-> accepted]
            IN  /\ Leave(t, IF accepted THEN Gave(answer) ELSE Refused)
                /\ IF Keeps(t, rcode, accepted, lives) THEN Keep(Key(t), answer) ELSE UNCHANGED cache
                /\ rdrc' = IF ~accepted /\ ~request[t].plain /\ rcode # "failure"
                           THEN rdrc \cup {Key(t)} ELSE rdrc
      BY <1>4 DEF Answer
    <3>2. [question |-> request[t].question, from |-> Transport(t),
           rcode |-> rcode, accepted |-> accepted] \in Answers
      BY <2>1 DEF Answers
    <3>3. QED
      BY <3>1, <3>2
  <2>4. SharedType'
    BY <1>4, <2>1, <2>2, <2>3 DEF Answer, Keep, SharedType
  <2>5. Gave(answer) \in Outcomes /\ Refused \in Outcomes
    BY DEF Outcomes
  <2>6. QED
    BY <1>2, <1>4, <2>1, <2>3, <2>4, <2>5 DEF Answer
<1>5. CASE ResetNetwork
  <2>1. SetupType' /\ QueryType' /\ SharedType'
    BY <1>5 DEF ResetNetwork, SetupType, QueryType, SharedType, queryVars
  <2>2. WalkInv'
    BY <1>5, WalkFrame DEF ResetNetwork, queryVars
  <2>3. QED
    BY <2>1, <2>2
<1>6. QED
  BY <1>1, <1>3, <1>4, <1>5

\* Every step keeps the types.
LEMMA StepType == TypeInv /\ [Next]_vars => TypeInv'
<1> SUFFICES ASSUME TypeInv, [Next]_vars PROVE TypeInv'
    OBVIOUS
<1>1. CASE UNCHANGED vars
  <2>1. SetupType' /\ QueryType' /\ SharedType'
    BY <1>1 DEF vars, queryVars, sharedVars, TypeInv, SetupType, QueryType, SharedType
  <2>2. WalkInv'
    BY <1>1, WalkFrame DEF vars, queryVars
  <2>3. QED
    BY <2>1, <2>2 DEF TypeInv
<1>2. CASE Next
  BY <1>2, RouterType, ClientType, DialType, DialledType, TransportType DEF Next
<1>3. QED
  BY <1>1, <1>2

-----------------------------------------------------------------------------
(* The lock                                                                *)

AtWork == {"load", "check", "send", "dialling", "asked", "delete"}

LEMMA InitLock == Init => LockInv
BY DEF Init, LockInv, LocksHeld

\* A step that takes and releases no lock, keeps the holders at work on what
\* they hold and adds no waiter.
LEMMA LockFrame ==
    ASSUME TypeInv, TypeInv', LockInv, UNCHANGED <<lock, leading>>,
           \A t \in Tasks : leading[t] =>
              /\ request'[t] = request[t] /\ rule'[t] = rule[t]
              /\ pc'[t] = pc[t] \/ (pc[t] # "close" /\ pc'[t] \in AtWork),
           \A t \in Tasks : waiting'[t] # NoTask =>
              /\ waiting'[t] = waiting[t] /\ pc'[t] = "wait"
              /\ request'[t] = request[t] /\ rule'[t] = rule[t],
           \A t \in Tasks : pc'[t] \in {"delete", "close"} => leading[t]
    PROVE  LockInv'
<1> USE DEF TypeInv, QueryType, SharedType
<1>1. ASSUME NEW t \in Tasks, request'[t] = request[t], rule'[t] = rule[t]
      PROVE  Key(t)' = Key(t)
  BY <1>1 DEF Key, Transport
<1>2. /\ \A l, m \in lock' : l.key = m.key => l = m
      /\ \A l \in lock' : leading'[l.holder] /\ l.key = Key(l.holder)'
  BY <1>1 DEF LockInv, LocksHeld
<1>3. ASSUME NEW t \in Tasks, leading'[t]
      PROVE  /\ pc'[t] \in {"load", "check", "send", "dialling", "asked", "delete", "close"}
             /\ pc'[t] # "close" => [key |-> Key(t)', holder |-> t] \in lock'
  BY <1>1, <1>3 DEF LockInv, LocksHeld, AtWork
<1>4. ASSUME NEW t \in Tasks, waiting'[t] # NoTask
      PROVE  (pc[t] = "wait" /\ leading[waiting[t]] /\ Key(waiting[t]) = Key(t))'
  <2>1. waiting[t] \in Tasks /\ leading[waiting[t]] /\ Key(waiting[t]) = Key(t)
    BY <1>4 DEF LockInv, LocksHeld
  <2>2. Key(t)' = Key(t) /\ Key(waiting[t])' = Key(t)
    BY <1>1, <1>4, <2>1 DEF Key, Transport
  <2>3. QED
    BY <1>4, <2>1, <2>2 DEF Key, Transport
<1>5. ASSUME NEW l \in lock' PROVE pc'[l.holder] # "close"
  <2>1. l.holder \in Tasks /\ leading[l.holder] /\ pc[l.holder] # "close"
    BY <1>5 DEF LockInv, LocksHeld
  <2>2. QED
    BY <2>1 DEF AtWork
<1>6. LocksHeld'
  BY <1>2, <1>3, <1>4 DEF LocksHeld
<1>7. QED
  BY <1>5, <1>6 DEF LockInv

\* Taking the lock, or waiting for the one who holds it.
LEMMA EnterLock ==
    ASSUME TypeInv, TypeInv', LockInv, NEW t \in Tasks, Enter(t)
    PROVE  LockInv'
<1> USE DEF TypeInv, QueryType, SharedType
<1>1. /\ \A u \in Tasks : Key(u)' = Key(u)
      /\ pc[t] = "enter" /\ \A u \in Tasks \ {t} : pc'[u] = pc[u]
      /\ ~leading[t] /\ waiting[t] = NoTask
      /\ UNCHANGED <<request, rule, cache, rdrc>>
  <2>1. /\ pc[t] = "enter" /\ \A u \in Tasks \ {t} : pc'[u] = pc[u]
        /\ UNCHANGED <<request, rule, cache, rdrc>>
    BY DEF Enter
  <2>2. ~leading[t] /\ waiting[t] = NoTask
    BY <2>1 DEF LockInv, LocksHeld
  <2>3. \A u \in Tasks : Key(u)' = Key(u)
    BY <2>1 DEF Key, Transport
  <2>4. QED
    BY <2>1, <2>2, <2>3
<1>2. CASE \E l \in lock : Same(l.key, Key(t))
  <2>1. PICK l \in lock : l.key = Key(t) /\ waiting' = [waiting EXCEPT ![t] = l.holder]
    BY <1>2 DEF Enter, Same
  <2>2. pc' = [pc EXCEPT ![t] = "wait"] /\ UNCHANGED <<leading, lock>>
    BY <1>2 DEF Enter
  <2>3. leading[l.holder] /\ Key(l.holder) = Key(t) /\ l.holder \in Tasks
    BY <2>1 DEF LockInv, LocksHeld
  <2>4. /\ \A k, m \in lock' : k.key = m.key => k = m
        /\ \A k \in lock' : leading'[k.holder] /\ k.key = Key(k.holder)'
        /\ \A u \in Tasks : leading'[u] =>
            /\ pc'[u] \in {"load", "check", "send", "dialling", "asked", "delete", "close"}
            /\ pc'[u] # "close" => [key |-> Key(u)', holder |-> u] \in lock'
    BY <1>1, <2>2 DEF LockInv, LocksHeld
  <2>5. ASSUME NEW u \in Tasks, waiting'[u] # NoTask
        PROVE  (pc[u] = "wait" /\ leading[waiting[u]] /\ Key(waiting[u]) = Key(u))'
    <3>1. CASE u = t
      BY <1>1, <2>1, <2>2, <2>3, <3>1 DEF Key, Transport
    <3>2. CASE u # t
      BY <1>1, <2>1, <2>2, <2>5, <3>2 DEF LockInv, LocksHeld, Key, Transport
    <3>3. QED
      BY <3>1, <3>2
  <2>6. /\ \A u \in Tasks : pc'[u] \in {"delete", "close"} => leading'[u]
        /\ \A k \in lock' : pc'[k.holder] # "close"
    BY <1>1, <2>2 DEF LockInv
  <2>7. QED
    BY <2>4, <2>5, <2>6 DEF LockInv, LocksHeld
<1>3. CASE ~\E l \in lock : Same(l.key, Key(t))
  <2> DEFINE new == [key |-> Key(t), holder |-> t]
  <2>1. /\ lock' = lock \cup {new} /\ \A l \in lock : l.key # Key(t)
        /\ leading' = [leading EXCEPT ![t] = TRUE]
        /\ pc' = [pc EXCEPT ![t] = "load"] /\ waiting' = waiting
    BY <1>3 DEF Enter, Same
  <2>2. new.key = Key(t) /\ new.holder = t
    OBVIOUS
  <2>3. leading'[t] /\ \A u \in Tasks \ {t} : leading'[u] = leading[u]
    BY <2>1
  <2>4. /\ \A k, m \in lock' : k.key = m.key => k = m
        /\ \A k \in lock' : leading'[k.holder] /\ k.key = Key(k.holder)'
    BY <1>1, <2>1, <2>2, <2>3 DEF LockInv, LocksHeld
  <2>5. \A u \in Tasks : leading'[u] =>
            /\ pc'[u] \in {"load", "check", "send", "dialling", "asked", "delete", "close"}
            /\ pc'[u] # "close" => [key |-> Key(u)', holder |-> u] \in lock'
    BY <1>1, <2>1, <2>3 DEF LockInv, LocksHeld
  <2>6. \A u \in Tasks : (waiting[u] # NoTask =>
            pc[u] = "wait" /\ leading[waiting[u]] /\ Key(waiting[u]) = Key(u))'
    BY <1>1, <2>1, <2>3 DEF LockInv, LocksHeld, Key, Transport
  <2>7. /\ \A u \in Tasks : pc'[u] \in {"delete", "close"} => leading'[u]
        /\ \A k \in lock' : pc'[k.holder] # "close"
    BY <1>1, <2>1, <2>2, <2>3 DEF LockInv
  <2>8. QED
    BY <2>4, <2>5, <2>6, <2>7 DEF LockInv, LocksHeld
<1>4. QED
  BY <1>2, <1>3

\* The two parts of the release: the key first, then the channel.
LEMMA ReleaseLock ==
    ASSUME TypeInv, TypeInv', LockInv, NEW t \in Tasks, Delete(t) \/ Close(t)
    PROVE  LockInv'
<1> USE DEF TypeInv, QueryType, SharedType
<1>1. /\ \A u \in Tasks : Key(u)' = Key(u)
      /\ leading[t] /\ \A u \in Tasks \ {t} : pc'[u] = pc[u]
      /\ UNCHANGED <<request, rule>>
  BY DEF Delete, Close, Key, Transport, LockInv
<1>2. CASE Delete(t)
  <2>1. /\ pc[t] = "delete" /\ pc' = [pc EXCEPT ![t] = "close"]
        /\ lock' = {l \in lock : l.key # Key(t)}
        /\ UNCHANGED <<waiting, leading>>
    BY <1>2 DEF Delete
  <2>2. [key |-> Key(t), holder |-> t] \in lock
    BY <1>1, <2>1 DEF LockInv, LocksHeld
  <2>3. /\ \A k, m \in lock' : k.key = m.key => k = m
        /\ \A k \in lock' : leading'[k.holder] /\ k.key = Key(k.holder)'
    BY <1>1, <2>1 DEF LockInv, LocksHeld
  <2>4. ASSUME NEW u \in Tasks, leading'[u]
        PROVE  /\ pc'[u] \in {"load", "check", "send", "dialling", "asked", "delete", "close"}
               /\ pc'[u] # "close" => [key |-> Key(u)', holder |-> u] \in lock'
    <3>1. CASE u = t
      BY <2>1, <3>1
    <3>2. CASE u # t
      <4>1. /\ pc[u] \in {"load", "check", "send", "dialling", "asked", "delete", "close"}
            /\ pc[u] # "close" => [key |-> Key(u), holder |-> u] \in lock
        BY <2>1, <2>4 DEF LockInv, LocksHeld
      <4>2. [key |-> Key(u), holder |-> u] \in lock => Key(u) # Key(t)
        BY <2>2, <3>2 DEF LockInv, LocksHeld
      <4>3. QED
        BY <1>1, <2>1, <3>2, <4>1, <4>2
    <3>3. QED
      BY <3>1, <3>2
  <2>5. \A u \in Tasks : (waiting[u] # NoTask =>
            pc[u] = "wait" /\ leading[waiting[u]] /\ Key(waiting[u]) = Key(u))'
    BY <1>1, <2>1 DEF LockInv, LocksHeld, Key, Transport
  <2>6. /\ \A u \in Tasks : pc'[u] \in {"delete", "close"} => leading'[u]
        /\ \A k \in lock' : pc'[k.holder] # "close"
    BY <1>1, <2>1 DEF LockInv, LocksHeld
  <2>7. QED
    BY <2>3, <2>4, <2>5, <2>6 DEF LockInv, LocksHeld
<1>3. CASE Close(t)
  <2>1. /\ pc[t] = "close" /\ pc' = [pc EXCEPT ![t] = "decide"]
        /\ waiting' = [u \in Tasks |-> IF waiting[u] = t THEN NoTask ELSE waiting[u]]
        /\ leading' = [leading EXCEPT ![t] = FALSE]
        /\ lock' = lock
    BY <1>3 DEF Close
  <2>2. \A l \in lock : l.holder # t
    BY <2>1 DEF LockInv
  <2>3. /\ \A k, m \in lock' : k.key = m.key => k = m
        /\ \A k \in lock' : leading'[k.holder] /\ k.key = Key(k.holder)'
    BY <1>1, <2>1, <2>2 DEF LockInv, LocksHeld
  <2>4. \A u \in Tasks : leading'[u] =>
            /\ pc'[u] \in {"load", "check", "send", "dialling", "asked", "delete", "close"}
            /\ pc'[u] # "close" => [key |-> Key(u)', holder |-> u] \in lock'
    BY <1>1, <2>1 DEF LockInv, LocksHeld
  <2>5. ASSUME NEW u \in Tasks, waiting'[u] # NoTask
        PROVE  (pc[u] = "wait" /\ leading[waiting[u]] /\ Key(waiting[u]) = Key(u))'
    <3>1. waiting'[u] = waiting[u] /\ waiting[u] # t /\ waiting[u] # NoTask
      BY <2>1, <2>5
    <3>2. pc[u] = "wait" /\ leading[waiting[u]] /\ Key(waiting[u]) = Key(u)
      BY <3>1 DEF LockInv, LocksHeld
    <3>3. QED
      BY <1>1, <2>1, <3>1, <3>2 DEF Key, Transport
  <2>6. /\ \A u \in Tasks : pc'[u] \in {"delete", "close"} => leading'[u]
        /\ \A k \in lock' : pc'[k.holder] # "close"
    BY <1>1, <2>1, <2>2 DEF LockInv, LocksHeld
  <2>7. QED
    BY <2>3, <2>4, <2>5, <2>6 DEF LockInv, LocksHeld
<1>4. QED
  BY <1>2, <1>3

\* Every step keeps the lock.
LEMMA StepLock == TypeInv /\ TypeInv' /\ LockInv /\ [Next]_vars => LockInv'
<1> SUFFICES ASSUME TypeInv, TypeInv', LockInv, [Next]_vars PROVE LockInv'
    OBVIOUS
<1> USE DEF TypeInv, QueryType
<1>1. /\ \A t \in Tasks : leading[t] => pc[t] \in AtWork \cup {"close"}
      /\ \A t \in Tasks : waiting[t] # NoTask => pc[t] = "wait"
      /\ \A t \in Tasks : pc[t] \in {"delete", "close"} => leading[t]
  BY DEF LockInv, LocksHeld, AtWork
\* The steps of one query that leave its request and its rule alone.
<1>2. ASSUME NEW t \in Tasks, UNCHANGED <<lock, leading, request, rule>>,
             \A u \in Tasks \ {t} : pc'[u] = pc[u] /\ waiting'[u] = waiting[u],
             pc'[t] = pc[t] \/ (pc[t] # "close" /\ pc'[t] # "close"),
             leading[t] => pc'[t] \in AtWork \/ pc'[t] = pc[t],
             pc'[t] \in {"delete", "close"} => leading[t],
             waiting'[t] # NoTask => waiting'[t] = waiting[t] /\ pc'[t] = "wait"
      PROVE  LockInv'
  BY <1>1, <1>2, LockFrame
<1>3. ASSUME NEW t \in Tasks, Peek(t) \/ Load(t) \/ Wake(t) \/ StopWaiting(t) \/ Check(t)
      PROVE  LockInv'
  <2>1. /\ UNCHANGED <<lock, leading, request, rule>>
        /\ \A u \in Tasks \ {t} : pc'[u] = pc[u] /\ waiting'[u] = waiting[u]
        /\ pc[t] \in {"peek", "load", "wait", "check"}
        /\ pc'[t] \in {"enter", "check", "load", "send"} \/ pc'[t] = IF leading[t] THEN "delete" ELSE "decide"
    BY <1>3 DEF Peek, Load, Wake, StopWaiting, Check, LoadOr, Leave, sharedVars
  <2>2. waiting'[t] = NoTask
    BY <1>1, <1>3 DEF Peek, Load, Wake, StopWaiting, Check
  <2>3. leading[t] => pc'[t] \in AtWork
    <3>1. leading[t] => pc'[t] # "enter"
      BY <1>1, <1>3 DEF AtWork, Peek, Load, Wake, StopWaiting, Check, LoadOr, Leave
    <3>2. QED
      BY <2>1, <3>1 DEF AtWork
  <2>4. QED
    BY <1>2, <2>1, <2>2, <2>3
<1>4. ASSUME NEW t \in Tasks, Send(t) \/ Expire(t) \/ Fail(t) \/ Answer(t)
      PROVE  LockInv'
  <2>1. /\ UNCHANGED <<lock, leading, request, rule, waiting>>
        /\ \A u \in Tasks \ {t} : pc'[u] = pc[u]
        /\ pc[t] \in {"send", "dialling", "asked"}
        /\ pc'[t] \in {"asked", pc[t]} \/ pc'[t] = IF leading[t] THEN "delete" ELSE "decide"
    BY <1>4 DEF Send, Expire, Fail, Answer, Leave, sharedVars
  <2>2. waiting[t] = NoTask
    BY <1>1, <2>1
  <2>3. QED
    BY <1>2, <2>1, <2>2 DEF AtWork
<1>5. ASSUME NEW t \in Tasks, Begin(t) \/ Decide(t) PROVE LockInv'
  <2>1. /\ UNCHANGED <<lock, leading, waiting>>
        /\ \A u \in Tasks \ {t} : pc'[u] = pc[u] /\ request'[u] = request[u] /\ rule'[u] = rule[u]
        /\ pc[t] \in {"idle", "decide"}
        /\ pc'[t] \in {"check", "peek", "enter", "done"}
    BY <1>5 DEF Begin, Decide, Attempt, sharedVars
  <2>2. ~leading[t] /\ waiting[t] = NoTask
    BY <1>1, <2>1 DEF AtWork
  <2>3. QED
    BY <1>1, <2>1, <2>2, LockFrame
<1>6. ASSUME NEW t \in Tasks, Dial(t) PROVE LockInv'
  <2>1. PICK c \in Tasks \ Callers :
          /\ pc[c] = "idle"
          /\ \A u \in Tasks \ {c} : request'[u] = request[u] /\ rule'[u] = rule[u]
          /\ pc' = [pc EXCEPT ![t] = "dialling", ![c] = "peek"]
    BY <1>6 DEF Dial
  <2>2. UNCHANGED <<lock, leading, waiting>> /\ pc[t] = "send"
    BY <1>6 DEF Dial, sharedVars
  <2>3. ~leading[c] /\ waiting[c] = NoTask /\ waiting[t] = NoTask /\ c # t
    BY <1>1, <2>1, <2>2 DEF AtWork
  <2>4. pc'[c] = "peek" /\ pc'[t] = "dialling" /\ \A u \in Tasks \ {c, t} : pc'[u] = pc[u]
    BY <2>1, <2>3
  <2>5. QED
    BY <1>1, <2>1, <2>2, <2>3, <2>4, LockFrame DEF AtWork
<1>7. ASSUME NEW t \in Tasks, Dialled(t) PROVE LockInv'
  <2>1. PICK c \in Tasks :
          /\ pc[c] = "done"
          /\ \A u \in Tasks \ {c} : request'[u] = request[u] /\ rule'[u] = rule[u]
          /\ \/ pc' = [pc EXCEPT ![c] = "idle", ![t] = "asked"]
             \/ pc' = [pc EXCEPT ![c] = "idle", ![t] = IF leading[t] THEN "delete" ELSE "decide"]
    BY <1>7 DEF Dialled
  <2>2. UNCHANGED <<lock, leading, waiting>> /\ pc[t] = "dialling"
    BY <1>7 DEF Dialled, sharedVars
  <2>3. ~leading[c] /\ waiting[c] = NoTask /\ waiting[t] = NoTask /\ c # t
    BY <1>1, <2>1, <2>2 DEF AtWork
  <2>4. /\ pc'[c] = "idle" /\ \A u \in Tasks \ {c, t} : pc'[u] = pc[u]
        /\ pc'[t] = "asked" \/ pc'[t] = IF leading[t] THEN "delete" ELSE "decide"
    BY <2>1, <2>3
  <2>5. QED
    BY <1>1, <2>1, <2>2, <2>3, <2>4, LockFrame DEF AtWork
<1>8. CASE ResetNetwork \/ UNCHANGED vars
  <2>1. UNCHANGED <<lock, leading, request, rule, pc, waiting>>
    BY <1>8 DEF ResetNetwork, vars, queryVars, sharedVars
  <2>2. QED
    BY <1>1, <2>1, LockFrame
<1>9. QED
  BY <1>3, <1>4, <1>5, <1>6, <1>7, <1>8, EnterLock, ReleaseLock DEF Next

\* Every reachable state has its types: among others, no query runs past the
\* last rule.
THEOREM TypeCorrect == Spec => []TypeInv
<1>1. QED
  BY InitType, StepType, PTL DEF Spec

\* The lock of a question and a transport has one holder, who will release it,
\* and nobody waits for a channel that nobody is to close (client.go, Exchange).
THEOREM LocksHeldAlways == Spec => []LocksHeld
<1>1. LockInv => LocksHeld
  BY DEF LockInv
<1>2. QED
  BY <1>1, InitLock, StepLock, TypeCorrect, PTL DEF Spec

-----------------------------------------------------------------------------
(* The answers                                                             *)

LEMMA InitAnswer == Init => AnswerInv
BY DEF Init, AnswerInv, Sound, Nothing

\* A step that keeps no new answer, and after which a query has no other answer
\* than it had, or one that is sound.
LEMMA AnswerFrame ==
    ASSUME TypeInv, AnswerInv, cache' \subseteq cache, independent' = independent,
           \A t \in Tasks :
              \/ outcome'[t].kind # "answer"
              \/ Sound(t)'
              \/ outcome'[t] = outcome[t] /\ request'[t] = request[t] /\ rule'[t] = rule[t],
           \A t \in Tasks : pc'[t] = "idle" =>
              outcome'[t] = Nothing \/ (pc[t] = "idle" /\ outcome'[t] = outcome[t])
    PROVE  AnswerInv'
<1>1. \A c \in cache' : SoundEntry(c)'
  BY DEF AnswerInv, SoundEntry
<1>2. ASSUME NEW t \in Tasks PROVE Sound(t)' /\ (pc'[t] = "idle" => outcome'[t] = Nothing)
  BY DEF AnswerInv, Sound, Transport
<1>3. QED
  BY <1>1, <1>2 DEF AnswerInv

\* An entry found answers the query, which is not a plain one.
LEMMA FoundAnswer ==
    ASSUME TypeInv, AnswerInv, NEW t \in Tasks, NEW c \in Cached(Key(t)),
           pc[t] \in {"peek", "load"}, Leave(t, Gave(c.answer)),
           UNCHANGED <<request, rule, independent>>
    PROVE  Sound(t)'
<1>1. outcome'[t] = Gave(c.answer) /\ Gave(c.answer).answer = c.answer
  BY DEF Leave, Gave, TypeInv, QueryType
<1>2. c.key = CacheKey(Key(t)) /\ SoundEntry(c)
  BY DEF Cached, AnswerInv
<1>3. ~request[t].plain /\ Key(t)[1] = request[t].question /\ Key(t)[2] = Transport(t)
  BY Target DEF TypeInv, WalkInv, Walking
<1>4. /\ c.answer.accepted /\ c.answer.question = request[t].question
      /\ independent => c.answer.from = Transport(t)
  BY <1>2, <1>3 DEF SoundEntry, CacheKey
<1>5. Transport(t)' = Transport(t)
  BY DEF Transport
<1>6. QED
  BY <1>1, <1>3, <1>4, <1>5 DEF Sound

\* A new answer is kept only when it is sound.
LEMMA NewAnswer ==
    ASSUME TypeInv, AnswerInv, NEW t \in Tasks, Answer(t)
    PROVE  AnswerInv'
<1> USE DEF TypeInv, QueryType
<1>1. PICK rcode \in {"ok", "nxdomain", "failure"}, accepted \in BOOLEAN, lives \in BOOLEAN :
        LET answer == [question |-> request[t].question, from |-> Transport(t),
                       rcode |-> rcode, accepted |-> accepted]
        IN  /\ Leave(t, IF accepted THEN Gave(answer) ELSE Refused)
            /\ IF Keeps(t, rcode, accepted, lives) THEN Keep(Key(t), answer) ELSE UNCHANGED cache
  BY DEF Answer
<1> DEFINE answer == [question |-> request[t].question, from |-> Transport(t),
                      rcode |-> rcode, accepted |-> accepted]
<1>2. /\ answer.question = request[t].question /\ answer.from = Transport(t)
      /\ answer.rcode = rcode /\ answer.accepted = accepted
  OBVIOUS
<1>3. /\ Leave(t, IF accepted THEN Gave(answer) ELSE Refused)
      /\ IF Keeps(t, rcode, accepted, lives) THEN Keep(Key(t), answer) ELSE UNCHANGED cache
  BY <1>1
<1> HIDE DEF answer
<1>4. UNCHANGED <<request, rule, independent>> /\ pc[t] = "asked"
  BY DEF Answer
<1>5. Key(t)[1] = request[t].question /\ Key(t)[2] = Transport(t)
  BY <1>4, Target
<1>6. \A u \in Tasks : Transport(u)' = Transport(u)
  BY <1>4 DEF Transport
<1>7. Sound(t)'
  <2>1. CASE accepted
    <3>1. outcome'[t] = Gave(answer) /\ Gave(answer).answer = answer
      BY <1>3, <2>1 DEF Leave, Gave
    <3>2. QED
      BY <1>2, <1>4, <1>6, <2>1, <3>1 DEF Sound
  <2>2. CASE ~accepted
    <3>1. outcome'[t] = Refused /\ Refused.kind = "refused"
      BY <1>3, <2>2 DEF Leave, Refused
    <3>2. QED
      BY <3>1 DEF Sound
  <2>3. QED
    BY <2>1, <2>2
<1>8. ASSUME NEW u \in Tasks, u # t
      PROVE  Sound(u)' /\ (pc'[u] = "idle" => outcome'[u] = Nothing)
  <2>1. pc'[u] = pc[u] /\ outcome'[u] = outcome[u]
    BY <1>3, <1>8 DEF Leave
  <2>2. QED
    BY <1>4, <1>6, <2>1 DEF AnswerInv, Sound
<1>9. ASSUME NEW c \in cache' PROVE SoundEntry(c)'
  <2>1. CASE c \in cache
    BY <1>4, <2>1 DEF AnswerInv, SoundEntry
  <2>2. CASE c \notin cache
    <3>1. Keeps(t, rcode, accepted, lives) /\ c = [key |-> CacheKey(Key(t)), answer |-> answer]
      BY <1>3, <1>9, <2>2 DEF Keep
    <3>2. c.answer = answer /\ c.key = CacheKey(Key(t)) /\ accepted /\ rcode # "failure"
      BY <3>1 DEF Keeps
    <3>3. c.key[1] = request[t].question /\ (independent => c.key[2] = Transport(t))
      BY <1>5, <3>2 DEF CacheKey
    <3>4. QED
      BY <1>2, <1>4, <3>2, <3>3 DEF SoundEntry
  <2>3. QED
    BY <2>1, <2>2
<1>10. pc'[t] # "idle"
  BY <1>3 DEF Leave
<1>11. QED
  BY <1>7, <1>8, <1>9, <1>10 DEF AnswerInv

\* Every step keeps the answers sound.
LEMMA StepAnswer == TypeInv /\ AnswerInv /\ [Next]_vars => AnswerInv'
<1> SUFFICES ASSUME TypeInv, AnswerInv, [Next]_vars PROVE AnswerInv'
    OBVIOUS
<1> USE DEF TypeInv, QueryType
<1>1. Nothing.kind # "answer" /\ Failed.kind # "answer" /\ Refused.kind # "answer"
  BY DEF Nothing, Failed, Refused
\* The steps of one query that keep its request and its rule.
<1>2. ASSUME NEW t \in Tasks, UNCHANGED <<request, rule, independent>>,
             cache' \subseteq cache, pc'[t] # "idle",
             \A u \in Tasks \ {t} : pc'[u] = pc[u] /\ outcome'[u] = outcome[u],
             outcome'[t] \in {outcome[t], Nothing, Failed, Refused} \/ Sound(t)'
      PROVE  AnswerInv'
  BY <1>1, <1>2, AnswerFrame
<1>3. ASSUME NEW t \in Tasks, Peek(t) \/ Load(t) PROVE AnswerInv'
  <2>1. /\ UNCHANGED <<request, rule, independent>> /\ pc[t] \in {"peek", "load"}
        /\ pc'[t] # "idle"
        /\ LoadOr(t, "enter") \/ LoadOr(t, "check")
    BY <1>3 DEF Peek, Load, LoadOr, Leave
  <2>2. /\ cache' \subseteq cache
        /\ \A u \in Tasks \ {t} : pc'[u] = pc[u] /\ outcome'[u] = outcome[u]
    BY <2>1 DEF LoadOr, Leave
  <2>3. outcome'[t] = outcome[t] \/ Sound(t)'
    BY <2>1, FoundAnswer DEF LoadOr
  <2>4. QED
    BY <1>2, <2>1, <2>2, <2>3
<1>4. ASSUME NEW t \in Tasks,
             \/ Enter(t) \/ Wake(t) \/ StopWaiting(t) \/ Check(t) \/ Delete(t) \/ Close(t)
             \/ Send(t) \/ Expire(t) \/ Fail(t)
      PROVE  AnswerInv'
  <2>1. /\ UNCHANGED <<request, rule, independent, cache>> /\ pc'[t] # "idle"
        /\ \A u \in Tasks \ {t} : pc'[u] = pc[u] /\ outcome'[u] = outcome[u]
        /\ outcome'[t] \in {outcome[t], Nothing, Failed, Refused}
    BY <1>4 DEF Enter, Wake, StopWaiting, Check, Delete, Close, Send, Expire, Fail, Leave,
        sharedVars
  <2>2. QED
    BY <1>2, <2>1
<1>5. ASSUME NEW t \in Tasks, Begin(t) \/ Decide(t) PROVE AnswerInv'
  <2>1. /\ UNCHANGED <<cache, independent>>
        /\ \A u \in Tasks \ {t} : /\ pc'[u] = pc[u] /\ outcome'[u] = outcome[u]
                                  /\ request'[u] = request[u] /\ rule'[u] = rule[u]
        /\ pc'[t] # "idle"
        /\ \/ outcome'[t] = Nothing
           \/ UNCHANGED <<outcome, request, rule>>
    BY <1>5 DEF Begin, Decide, Attempt, sharedVars
  <2>2. QED
    BY <1>1, <2>1, AnswerFrame
<1>6. ASSUME NEW t \in Tasks, Dial(t) PROVE AnswerInv'
  <2>1. PICK c \in Tasks \ Callers :
          /\ pc[c] = "idle"
          /\ \A u \in Tasks \ {c} : request'[u] = request[u] /\ rule'[u] = rule[u]
          /\ pc' = [pc EXCEPT ![t] = "dialling", ![c] = "peek"]
    BY <1>6 DEF Dial
  <2>2. UNCHANGED <<outcome, cache, independent>> /\ pc[t] = "send" /\ outcome[c] = outcome'[c]
    BY <1>6 DEF Dial, sharedVars
  <2>3. outcome[c].kind # "answer"
    BY <1>1, <2>1 DEF AnswerInv
  <2>4. QED
    BY <2>1, <2>2, <2>3, AnswerFrame
<1>7. ASSUME NEW t \in Tasks, Dialled(t) PROVE AnswerInv'
  <2>1. PICK c \in Tasks :
          /\ c # t /\ outcome'[c] = Nothing /\ pc'[t] # "idle"
          /\ \A u \in Tasks \ {c} : request'[u] = request[u] /\ rule'[u] = rule[u]
          /\ \A u \in Tasks \ {c, t} : pc'[u] = pc[u] /\ outcome'[u] = outcome[u]
          /\ outcome'[t] \in {Failed, Nothing}
    BY <1>7 DEF Dialled
  <2>2. UNCHANGED <<cache, independent>>
    BY <1>7 DEF Dialled, sharedVars
  <2>3. QED
    BY <1>1, <2>1, <2>2, AnswerFrame
<1>8. CASE ResetNetwork \/ UNCHANGED vars
  <2>1. UNCHANGED <<request, rule, pc, outcome, independent>> /\ cache' \subseteq cache
    BY <1>8 DEF ResetNetwork, vars, queryVars, sharedVars
  <2>2. QED
    BY <2>1, AnswerFrame
<1>9. QED
  BY <1>3, <1>4, <1>5, <1>6, <1>7, <1>8, NewAnswer DEF Next

\* The cache holds only answers that were accepted for the question (and the
\* transport) of their key, and a finished query hands over nothing else
\* (client.go, Exchange and storeCache).
THEOREM AnswersSoundAlways == Spec => []AnswersSound
<1>1. AnswerInv => AnswersSound
  BY DEF AnswerInv, AnswersSound, Sound, SoundEntry
<1>2. QED
  BY <1>1, InitAnswer, StepAnswer, TypeCorrect, PTL DEF Spec

-----------------------------------------------------------------------------
(* Who waits for whom                                                      *)

\* A query that serves a dial asks what the server of the transport needs.
Serves(c) ==
    LET x == Transport(parent[c])
    IN  /\ pc[c] # "idle" /\ pc[parent[c]] = "dialling"
        /\ resolver[x] # NoName
        /\ request[c].question = resolver[x].question
        /\ request[c].via = resolver[x].via
ChildInv ==
    /\ \A c \in Tasks : parent[c] # NoTask => Serves(c)
    /\ \A c, d \in Tasks : parent[c] = parent[d] /\ parent[c] # NoTask => c = d

LEMMA InitChild == Init => ChildInv
BY DEF Init, ChildInv

\* A step that starts and ends no dial.
LEMMA ChildFrame ==
    ASSUME TypeInv, ChildInv, parent' = parent, resolver' = resolver,
           \A t \in Tasks : pc[t] = "dialling" =>
              pc'[t] = "dialling" /\ request'[t] = request[t] /\ rule'[t] = rule[t],
           \A t \in Tasks : pc[t] # "idle" =>
              pc'[t] # "idle" /\ request'[t] = request[t]
    PROVE  ChildInv'
<1>1. ASSUME NEW c \in Tasks, parent[c] # NoTask PROVE Serves(c)'
  <2>1. Serves(c) /\ parent[c] \in Tasks
    BY <1>1 DEF ChildInv, TypeInv, QueryType
  <2>2. Transport(parent[c])' = Transport(parent[c])
    BY <2>1 DEF Serves, Transport
  <2>3. QED
    BY <2>1, <2>2 DEF Serves
<1>2. QED
  BY <1>1 DEF ChildInv

LEMMA DialChild ==
    ASSUME TypeInv, ChildInv, NEW t \in Tasks, Dial(t)
    PROVE  ChildInv'
<1> USE DEF TypeInv, QueryType
<1> DEFINE x == resolver[Transport(t)]
           r == [question |-> x.question, via |-> x.via, kind |-> "lookup", plain |-> FALSE]
<1>1. pc[t] = "send" /\ x # NoName /\ resolver' = resolver
  BY DEF Dial
<1>2. PICK c \in Tasks : /\ pc[c] = "idle"
                         /\ request' = [request EXCEPT ![c] = r]
                         /\ parent' = [parent EXCEPT ![c] = t]
                         /\ rule' = [rule EXCEPT ![c] = FirstRule(r)]
                         /\ pc' = [pc EXCEPT ![t] = "dialling", ![c] = "peek"]
  BY DEF Dial
<1>3. /\ c # t /\ pc'[c] = "peek" /\ pc'[t] = "dialling" /\ parent'[c] = t
      /\ \A u \in Tasks \ {c} : /\ request'[u] = request[u] /\ rule'[u] = rule[u]
                                /\ parent'[u] = parent[u]
      /\ \A u \in Tasks \ {c, t} : pc'[u] = pc[u]
      /\ request'[c].question = x.question /\ request'[c].via = x.via
  BY <1>1, <1>2
<1> HIDE DEF x, r
<1>4. \A u \in Tasks \ {c} : Transport(u)' = Transport(u)
  BY <1>3 DEF Transport
<1>5. Serves(c)'
  BY <1>1, <1>3, <1>4 DEF Serves, x
<1>6. ASSUME NEW d \in Tasks, d # c, parent[d] # NoTask
      PROVE  Serves(d)' /\ parent'[d] # t
  <2>1. Serves(d) /\ parent[d] \in Tasks
    BY <1>6 DEF ChildInv
  <2>2. parent[d] # c /\ parent[d] # t
    BY <1>1, <1>2, <2>1 DEF Serves
  <2>3. QED
    BY <1>1, <1>3, <1>4, <1>6, <2>1, <2>2 DEF Serves
<1>7. ASSUME NEW d \in Tasks, parent'[d] # NoTask
      PROVE  Serves(d)' /\ (parent'[d] = t <=> d = c) /\ (d # c => parent'[d] = parent[d])
  BY <1>3, <1>5, <1>6, <1>7
<1>8. ASSUME NEW d \in Tasks, NEW e \in Tasks, parent'[d] = parent'[e], parent'[d] # NoTask
      PROVE  d = e
  <2>1. CASE d = c \/ e = c
    BY <1>3, <1>7, <1>8, <2>1
  <2>2. CASE d # c /\ e # c
    BY <1>7, <1>8, <2>2 DEF ChildInv
  <2>3. QED
    BY <2>1, <2>2
<1>9. QED
  BY <1>7, <1>8 DEF ChildInv

LEMMA DialledChild ==
    ASSUME TypeInv, ChildInv, NEW t \in Tasks, Dialled(t)
    PROVE  ChildInv'
<1> USE DEF TypeInv, QueryType
<1>1. PICK c \in Tasks :
        /\ parent[c] = t /\ c # t
        /\ parent' = [parent EXCEPT ![c] = NoTask]
        /\ \A u \in Tasks \ {c} : request'[u] = request[u] /\ rule'[u] = rule[u]
        /\ \A u \in Tasks \ {c, t} : pc'[u] = pc[u]
        /\ pc'[t] # "idle"
  BY DEF Dialled
<1>2. resolver' = resolver
  BY DEF Dialled
<1>3. ASSUME NEW d \in Tasks, parent'[d] # NoTask PROVE Serves(d)' /\ parent'[d] = parent[d]
  <2>1. d # c /\ parent'[d] = parent[d] /\ parent[d] # NoTask
    BY <1>1, <1>3
  <2>2. Serves(d) /\ parent[d] \in Tasks /\ parent[d] # t
    BY <1>1, <2>1, TasksAssumption DEF ChildInv
  <2>3. parent[d] # c
    BY <1>1, <2>2 DEF Serves, Dialled
  <2>4. Transport(parent[d])' = Transport(parent[d])
    BY <1>1, <2>2, <2>3 DEF Transport
  <2>5. QED
    BY <1>1, <1>2, <2>1, <2>2, <2>3, <2>4 DEF Serves
<1>4. QED
  BY <1>3 DEF ChildInv

\* Every step keeps the dials and the queries that serve them together.
LEMMA StepChild == TypeInv /\ ChildInv /\ [Next]_vars => ChildInv'
<1> SUFFICES ASSUME TypeInv, ChildInv, [Next]_vars PROVE ChildInv'
    OBVIOUS
<1> USE DEF TypeInv, QueryType
<1>1. ASSUME NEW t \in Tasks,
             \/ Peek(t) \/ Enter(t) \/ Wake(t) \/ StopWaiting(t) \/ Load(t) \/ Check(t)
             \/ Delete(t) \/ Close(t) \/ Send(t) \/ Expire(t) \/ Fail(t) \/ Answer(t)
      PROVE  ChildInv'
  <2>1. /\ UNCHANGED <<request, rule, parent, resolver>>
        /\ \A u \in Tasks \ {t} : pc'[u] = pc[u]
        /\ pc'[t] # "idle" /\ (pc[t] # "dialling" \/ pc' = pc)
    BY <1>1 DEF Peek, Enter, Wake, StopWaiting, Load, Check, Delete, Close, Send, Expire,
        Fail, Answer, LoadOr, Leave
  <2>2. QED
    BY <2>1, ChildFrame
<1>2. ASSUME NEW t \in Tasks, Begin(t) PROVE ChildInv'
  <2>1. /\ UNCHANGED <<parent, resolver>> /\ pc[t] = "idle"
        /\ \A u \in Tasks \ {t} : pc'[u] = pc[u] /\ request'[u] = request[u] /\ rule'[u] = rule[u]
    BY <1>2 DEF Begin, Attempt
  <2>2. QED
    BY <2>1, ChildFrame
<1>3. ASSUME NEW t \in Tasks, Decide(t) PROVE ChildInv'
  <2>1. /\ UNCHANGED <<parent, resolver, request>> /\ pc[t] = "decide" /\ pc'[t] # "idle"
        /\ \A u \in Tasks \ {t} : pc'[u] = pc[u] /\ rule'[u] = rule[u]
    BY <1>3 DEF Decide, Attempt
  <2>2. QED
    BY <2>1, ChildFrame
<1>4. CASE ResetNetwork \/ UNCHANGED vars
  <2>1. UNCHANGED <<request, rule, pc, parent, resolver>>
    BY <1>4 DEF ResetNetwork, vars, queryVars
  <2>2. QED
    BY <2>1, ChildFrame
<1>5. QED
  BY <1>1, <1>2, <1>3, <1>4, DialChild, DialledChild DEF Next

\* A dial asks one of the transports its server may need.
LEMMA ServesAsks ==
    ASSUME TypeInv, ChildInv, NEW c \in Tasks, parent[c] # NoTask
    PROVE  Transport(c) \in Asks(Transport(parent[c]))
<1> DEFINE x == Transport(parent[c])
<1>1. Serves(c) /\ parent[c] \in Tasks
  BY DEF ChildInv, TypeInv, QueryType
<1>2. /\ resolver[x] # NoName /\ pc[c] # "idle"
      /\ request[c].question = resolver[x].question /\ request[c].via = resolver[x].via
  BY <1>1 DEF Serves
<1>3. Walking(c)
  BY <1>2 DEF TypeInv, WalkInv
<1>4. CASE request[c].via # ByRules
  BY <1>2, <1>4 DEF Asks, Transport
<1>5. CASE request[c].via = ByRules
  <2>1. /\ rule[c] \in 1..Len(Rules) /\ request[c].question \in Rules[rule[c]].questions
        /\ Transport(c) = Rules[rule[c]].transport
    BY <1>3, <1>5 DEF Walking, Transport
  <2>2. rule[c] \in {j \in DOMAIN Rules : resolver[x].question \in Rules[j].questions}
    BY <1>2, <2>1, RulesAssumption
  <2>3. Asks(x) = {Rules[i].transport :
                     i \in {j \in DOMAIN Rules : resolver[x].question \in Rules[j].questions}}
    BY <1>2, <1>5 DEF Asks
  <2>4. QED
    BY <2>1, <2>2, <2>3
<1>6. QED
  BY <1>4, <1>5

\* Without a loop among the servers of the transports, queries never wait for
\* one another in a circle, whatever they ask and in whatever order: of the
\* transports of such a circle one would need none of the others, and a query
\* of it would wait for the holder of its lock, who would wait for nobody
\* there.
THEOREM WaitsEndAlways == Spec => []WaitsEnd
<1>1. TypeInv /\ LockInv /\ ChildInv => WaitsEnd
  <2> SUFFICES ASSUME TypeInv, LockInv, ChildInv, Loopless,
                      NEW S \in (SUBSET Tasks) \ {{}},
                      ~\E t \in S : \A u \in S : ~WaitsFor(t, u)
               PROVE  FALSE
      BY Zenon DEF WaitsEnd
  <2>0. S \subseteq Tasks /\ S # {} /\ \A t \in S : \E u \in S : WaitsFor(t, u)
    OBVIOUS
  <2> DEFINE T == {Transport(t) : t \in S}
  <2>1. ASSUME NEW t \in S, NEW u \in S, WaitsFor(t, u)
        PROVE  /\ pc[t] \in {"wait", "dialling"}
               /\ pc[t] = "wait" => leading[u] /\ Transport(u) = Transport(t)
               /\ pc[t] = "dialling" => Transport(u) \in Asks(Transport(t))
    <3>1. CASE waiting[t] = u
      <4>1. u # NoTask
        BY TasksAssumption
      <4>2. pc[t] = "wait" /\ leading[u] /\ Key(u) = Key(t)
        BY <3>1, <4>1 DEF LockInv, LocksHeld
      <4>3. QED
        BY <4>2 DEF Key
    <3>2. CASE pc[t] = "dialling" /\ parent[u] = t
      BY <3>2, ServesAsks, TasksAssumption
    <3>3. QED
      BY <2>1, <3>1, <3>2 DEF WaitsFor
  <2>2. T \in (SUBSET Transports) \ {{}}
    <3>1. ASSUME NEW t \in S PROVE Transport(t) \in Transports
      <4>1. t \in Tasks /\ pc[t] # "idle"
        BY <2>0, <2>1
      <4>2. QED
        BY <4>1, Target
    <3>2. T # {}
      BY <2>0
    <3>3. QED
      BY <3>1, <3>2
  <2>3. PICK x \in T : Asks(x) \cap T = {}
    BY <2>2 DEF Loopless
  <2>4. PICK t \in S : Transport(t) = x
    BY <2>3
  <2>5. PICK u \in S : WaitsFor(t, u)
    BY <2>0
  <2>6. Transport(u) \in T
    OBVIOUS
  <2>7. pc[t] = "wait" /\ leading[u] /\ Transport(u) = x
    BY <2>1, <2>3, <2>4, <2>5, <2>6
  <2>8. PICK v \in S : WaitsFor(u, v)
    BY <2>0
  <2>9. pc[u] = "dialling"
    BY <2>1, <2>7, <2>8 DEF LockInv, LocksHeld
  <2>10. Transport(v) \in Asks(x) /\ Transport(v) \in T
    BY <2>1, <2>7, <2>8, <2>9
  <2>11. QED
    BY <2>3, <2>10
<1>2. QED
  BY <1>1, InitLock, StepLock, InitChild, StepChild, TypeCorrect, PTL DEF Spec

-----------------------------------------------------------------------------
(* The order of the steps of a query.                                      *)

\* The places of an attempt in the order in which it passes them.
Stages == [idle |-> 0, peek |-> 1, enter |-> 2, wait |-> 3, load |-> 4, check |-> 5,
           send |-> 6, dialling |-> 7, asked |-> 8, delete |-> 9, close |-> 10,
           decide |-> 11, done |-> 12]

\* The next rule is tried, or the attempt goes on.
Forward(t) ==
    \/ rule'[t] > rule[t] /\ rule'[t] <= Len(Rules)
    \/ rule'[t] = rule[t] /\ Stages[pc'[t]] > Stages[pc[t]]

Stays(t) == rule'[t] = rule[t] /\ pc'[t] = pc[t]

\* No query goes round in circles: it tries a rule once and passes each place of
\* an attempt once, woken or not, with the lock or without, so it ends after at
\* most twelve steps for each rule; a lookup that has served its dial makes room
\* for another.  With the times of the exchanges and the fairness of the
\* scheduler this gives QueriesReturn.
QueriesAdvance ==
    [][\A t \in Tasks : pc[t] # "idle" =>
          Stays(t) \/ Forward(t) \/ (pc[t] = "done" /\ pc'[t] = "idle")]_vars

\* What may follow a place comes after it.
LEMMA StageOrder ==
    /\ {"peek", "enter", "wait", "load", "check", "asked", "decide", "done"} \subseteq PCs
    /\ \A y \in {"enter", "delete", "decide"} : y \in PCs /\ Stages[y] > Stages["peek"]
    /\ \A y \in {"wait", "load"} : y \in PCs /\ Stages[y] > Stages["enter"]
    /\ \A y \in {"load", "delete", "decide"} : y \in PCs /\ Stages[y] > Stages["wait"]
    /\ \A y \in {"check", "delete", "decide"} : y \in PCs /\ Stages[y] > Stages["load"]
    /\ \A y \in {"send", "delete", "decide"} : y \in PCs /\ Stages[y] > Stages["check"]
    /\ \A y \in {"delete", "decide"} : y \in PCs /\ Stages[y] > Stages["asked"]
    /\ Stages["done"] > Stages["decide"]
BY DEF PCs, Stages

\* A step of one query that goes on in its attempt.
LEMMA OneForward ==
    ASSUME TypeInv, NEW u \in Tasks, NEW x \in PCs, NEW y \in PCs,
           pc[u] = x, pc' = [pc EXCEPT ![u] = y], Stages[y] > Stages[x],
           UNCHANGED rule, NEW t \in Tasks
    PROVE  Stays(t) \/ Forward(t)
<1>1. rule'[t] = rule[t] /\ pc'[t] = IF t = u THEN y ELSE pc[t]
  BY DEF TypeInv, QueryType
<1>2. QED
  BY <1>1 DEF Stays, Forward

\* The client's part of an attempt goes on, whoever holds the lock.
LEMMA ClientForward ==
    ASSUME TypeInv, NEW u \in Tasks, NEW t \in Tasks,
           \/ Peek(u) \/ Enter(u) \/ Wake(u) \/ StopWaiting(u) \/ Load(u)
           \/ Check(u) \/ Delete(u) \/ Close(u)
           \/ Send(u) \/ Fail(u) \/ Answer(u)
    PROVE  Stays(t) \/ Forward(t)
<1> DEFINE Ends == {"delete", "decide"}
<1>1. UNCHANGED rule
  BY DEF Peek, Enter, Wake, StopWaiting, Load, Check, Delete, Close, Send, Fail, Answer
<1>2. ASSUME NEW x \in PCs, NEW y \in PCs, pc[u] = x, pc' = [pc EXCEPT ![u] = y],
             Stages[y] > Stages[x]
      PROVE  Stays(t) \/ Forward(t)
  BY <1>1, <1>2, OneForward
<1>3. ASSUME NEW out, Leave(u, out) PROVE \E y \in Ends : pc' = [pc EXCEPT ![u] = y]
  BY <1>3 DEF Leave
<1>4. CASE Peek(u)
  <2>1. pc[u] = "peek" /\ \E y \in {"enter", "delete", "decide"} : pc' = [pc EXCEPT ![u] = y]
    BY <1>3, <1>4 DEF Peek, LoadOr
  <2>2. QED
    BY <1>2, <2>1, StageOrder
<1>5. CASE Enter(u)
  <2>1. pc[u] = "enter" /\ \E y \in {"wait", "load"} : pc' = [pc EXCEPT ![u] = y]
    BY <1>5 DEF Enter
  <2>2. QED
    BY <1>2, <2>1, StageOrder
<1>6. CASE Wake(u) \/ StopWaiting(u)
  <2>1. pc[u] = "wait" /\ \E y \in {"load", "delete", "decide"} : pc' = [pc EXCEPT ![u] = y]
    BY <1>3, <1>6 DEF Wake, StopWaiting
  <2>2. QED
    BY <1>2, <2>1, StageOrder
<1>7. CASE Load(u)
  <2>1. pc[u] = "load" /\ \E y \in {"check", "delete", "decide"} : pc' = [pc EXCEPT ![u] = y]
    BY <1>3, <1>7 DEF Load, LoadOr
  <2>2. QED
    BY <1>2, <2>1, StageOrder
<1>8. CASE Check(u)
  <2>1. pc[u] = "check" /\ \E y \in {"send", "delete", "decide"} : pc' = [pc EXCEPT ![u] = y]
    BY <1>3, <1>8 DEF Check
  <2>2. QED
    BY <1>2, <2>1, StageOrder
<1>9. CASE Send(u)
  BY <1>2, <1>9 DEF Send, PCs, Stages
<1>10. CASE Fail(u) \/ Answer(u)
  <2>1. pc[u] = "asked" /\ \E y \in Ends : pc' = [pc EXCEPT ![u] = y]
    BY <1>3, <1>10 DEF Fail, Answer
  <2>2. QED
    BY <1>2, <2>1, StageOrder
<1>11. CASE Delete(u) \/ Close(u)
  BY <1>2, <1>11 DEF Delete, Close, PCs, Stages
<1>12. QED
  BY <1>4, <1>5, <1>6, <1>7, <1>8, <1>9, <1>10, <1>11

\* The router's part, and the dials.
LEMMA RouterForward ==
    ASSUME TypeInv, NEW u \in Tasks, NEW t \in Tasks, pc[t] # "idle",
           Begin(u) \/ Decide(u) \/ Dial(u) \/ Dialled(u) \/ Expire(u)
    PROVE  Stays(t) \/ Forward(t) \/ (pc[t] = "done" /\ pc'[t] = "idle")
<1> USE DEF TypeInv, QueryType
<1>1. CASE Begin(u)
  BY <1>1 DEF Begin, Attempt, Stays
<1>2. CASE Decide(u)
  <2>1. CASE GoesOn(u)
    <3>1. /\ request[u].question \in Questions /\ rule[u] \in Nat /\ rule[u] < Len(Rules)
          /\ pc[u] # "idle"
      BY <1>2, <2>1, Target DEF Decide, GoesOn
    <3>2. /\ NextRule(request[u].question, rule[u]) > rule[u]
          /\ NextRule(request[u].question, rule[u]) <= Len(Rules)
      BY <3>1, NextRuleMatches, RuleFacts
    <3>3. rule' = [rule EXCEPT ![u] = NextRule(request[u].question, rule[u])]
          /\ (t # u => pc'[t] = pc[t])
      BY <1>2, <2>1 DEF Decide, Attempt
    <3>4. QED
      BY <3>2, <3>3 DEF Stays, Forward
  <2>2. CASE ~GoesOn(u)
    <3>1. pc[u] = "decide" /\ pc' = [pc EXCEPT ![u] = "done"] /\ UNCHANGED rule
      BY <1>2, <2>2 DEF Decide
    <3>2. QED
      BY <3>1, OneForward, StageOrder
  <2>3. QED
    BY <2>1, <2>2
<1>3. CASE Dial(u)
  <2>1. PICK c \in Tasks : /\ pc[c] = "idle" /\ pc[u] = "send"
                           /\ \E i : rule' = [rule EXCEPT ![c] = i]
                           /\ pc' = [pc EXCEPT ![u] = "dialling", ![c] = "peek"]
    BY <1>3 DEF Dial
  <2>2. rule'[t] = rule[t] /\ pc'[t] = IF t = u THEN "dialling" ELSE pc[t]
    BY <2>1
  <2>3. QED
    BY <2>1, <2>2 DEF Stays, Forward, Stages
<1>4. CASE Dialled(u)
  <2>1. PICK c \in Tasks, y \in {"asked", "delete", "decide"} :
            /\ pc[c] = "done" /\ pc[u] = "dialling" /\ rule' = [rule EXCEPT ![c] = 0]
            /\ pc' = [pc EXCEPT ![c] = "idle", ![u] = y]
    BY <1>4 DEF Dialled
  <2>2. CASE t = c
    BY <2>1, <2>2
  <2>3. CASE t # c
    <3>1. rule'[t] = rule[t] /\ pc'[t] = IF t = u THEN y ELSE pc[t]
      BY <2>1, <2>3
    <3>2. QED
      BY <2>1, <3>1 DEF Stays, Forward, Stages
  <2>4. QED
    BY <2>2, <2>3
<1>5. CASE Expire(u)
  BY <1>5 DEF Expire, Stays
<1>6. QED
  BY <1>1, <1>2, <1>3, <1>4, <1>5

\* QueriesAdvance for any list of rules and any set-up (dns/router.go:223-263
\* and 374-410, dns/client.go:140-306 and 408-446).
THEOREM QueriesAdvanceAlways == Spec => QueriesAdvance
<1> DEFINE A == \A t \in Tasks : pc[t] # "idle" =>
                   Stays(t) \/ Forward(t) \/ (pc[t] = "done" /\ pc'[t] = "idle")
<1>1. TypeInv /\ [Next]_vars => A
  <2>1. ASSUME TypeInv, [Next]_vars, NEW t \in Tasks, pc[t] # "idle"
        PROVE  Stays(t) \/ Forward(t) \/ (pc[t] = "done" /\ pc'[t] = "idle")
    <3>1. CASE ResetNetwork \/ UNCHANGED vars
      BY <3>1 DEF ResetNetwork, vars, queryVars, Stays
    <3>2. QED
      BY <2>1, <3>1, ClientForward, RouterForward DEF Next
  <2>2. QED
    BY <2>1
<1>2. QED
  BY <1>1, TypeCorrect, PTL DEF Spec, QueriesAdvance

=============================================================================
