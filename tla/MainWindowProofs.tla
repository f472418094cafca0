--------------------------- MODULE MainWindowProofs ---------------------------
(***************************************************************************)
(* The main window never leaves an engine with rules that were changed     *)
(* under it, nor with another profile than the one selected where it can   *)
(* help it: RulesFresh and ProfileFollows for any number of handlers,      *)
(* polls, profiles and events, whether or not requests are executed and    *)
(* answered in order; that a disconnect lasts (DisconnectHolds); and       *)
(* TypeOK, which says what the queue of requests is to the tasks that wait *)
(* and how many versions the rules can have.                               *)
(*                                                                         *)
(* The first three need nothing of the queue of requests, only what each   *)
(* answer means to the handler that awaits it (WaitInv).  An engine is     *)
(* started with the rules of that moment, so only an edit makes it stale,  *)
(* and the handler of that edit then asks, one await after the other,      *)
(* until a command has stopped the engine or found none.  A profile that   *)
(* is not the one selected can be in use because a start took it along, so *)
(* FollowInv speaks of starts under way as well as of the engine; and so   *)
(* does OffInv, for a start under way would undo a disconnect.             *)
(*                                                                         *)
(* For the types, every piece of a handler is one move of one task: its    *)
(* request leaves the queue, if it had one, and another is appended, if it *)
(* has one (Moves).                                                        *)
(***************************************************************************)
EXTENDS MainWindow, FiniteSetTheorems, SequenceTheorems, TLAPS

\* Versions grow, a running engine has one of them, and a command that is not
\* the poll's is awaited by a handler.
WaitInv ==
    /\ rules \in Nat /\ acked \in Nat /\ acked <= rules
    /\ Running => engine.rules \in Nat
    /\ at \in [Tasks -> Commands \cup {"free", "sleep"}]
    /\ \A t \in Polls : at[t] \in {"free", "poll"}
    /\ answer \in [Tasks -> {"pending", "yes", "no"}]

IInv == WaitInv /\ RulesFresh

\* A task moves to a place it may stand at.
LEMMA PlaceStep ==
    ASSUME WaitInv, NEW t \in Tasks, NEW p \in Commands \cup {"free", "sleep"},
           at' = [at EXCEPT ![t] = p], t \in Polls => p \in {"free", "poll"}
    PROVE  /\ at' \in [Tasks -> Commands \cup {"free", "sleep"}]
           /\ at'[t] = p /\ \A u \in Tasks : u # t => at'[u] = at[u]
           /\ \A u \in Polls : at'[u] \in {"free", "poll"}
  BY DEF WaitInv, Tasks

\* A task that owes nothing and awaits nothing may move anywhere.
LEMMA IdleStep ==
    ASSUME IInv, NEW t \in Tasks, ~OwesReconnect(t),
           NEW p \in Commands \cup {"free", "sleep"},
           at' = [at EXCEPT ![t] = p], t \in Polls => p \in {"free", "poll"},
           answer' = [answer EXCEPT ![t] = "pending"] \/ UNCHANGED answer,
           UNCHANGED shell
    PROVE  IInv'
  <1>1. WaitInv'
    BY PlaceStep DEF IInv, WaitInv, shell, Running
  <1>2. RulesFresh'
    <2>. SUFFICES ASSUME Stale' PROVE \E u \in Handlers : OwesReconnect(u)'
      BY DEF RulesFresh
    <2>1. Stale
      BY DEF Stale, Running, shell
    <2>2. PICK u \in Handlers : OwesReconnect(u)
      BY <2>1 DEF IInv, RulesFresh
    <2>3. u # t /\ u \in Tasks
      BY <2>2 DEF Tasks
    <2>4. at'[u] = at[u] /\ answer'[u] = answer[u]
      BY <2>3 DEF IInv, WaitInv
    <2>. QED  BY <2>2, <2>4 DEF OwesReconnect
  <1>. QED  BY <1>1, <1>2 DEF IInv

\* A handler that owes a reconnect goes on to the next await of it.
LEMMA OwingStep ==
    ASSUME IInv, NEW t \in Handlers, NEW p \in {"get_rules", "recheck", "stop"},
           at' = [at EXCEPT ![t] = p],
           answer' = [answer EXCEPT ![t] = "pending"],
           UNCHANGED shell
    PROVE  IInv'
  <1>1. t \in Tasks /\ p \in Commands /\ t \notin Polls
    BY TasksAssumption DEF Tasks, Commands
  <1>2. WaitInv'
    BY <1>1, PlaceStep DEF IInv, WaitInv, shell, Running
  <1>3. OwesReconnect(t)'
    BY <1>1 DEF OwesReconnect, IInv, WaitInv
  <1>. QED  BY <1>2, <1>3 DEF IInv, RulesFresh

\* The commands of the shell.
LEMMA ExecuteStep ==
    ASSUME IInv, NEW t \in Tasks, Execute(t)
    PROVE  IInv'
  <1>0. WaitInv /\ RulesFresh /\ UNCHANGED at /\ Command(t) /\ answer[t] = "pending"
    BY DEF IInv, Execute, page, First, Pending
  <1>1. CASE at[t] = "connect_vless" /\ ConnectVless(t)
    <2>1. UNCHANGED <<rules, acked>>
          /\ \E a \in {"yes", "no"} : answer' = [answer EXCEPT ![t] = a]
      BY <1>1 DEF ConnectVless
    <2>2. WaitInv'
      BY <1>0, <1>1, <2>1 DEF WaitInv, ConnectVless, Running
    <2>3. Stale' => Stale
      BY <1>0, <1>1, <2>1 DEF WaitInv, ConnectVless, Running, Stale
    <2>4. \A u \in Tasks : OwesReconnect(u) => OwesReconnect(u)'
      BY <1>0, <1>1, <2>1 DEF WaitInv, OwesReconnect
    <2>. QED  BY <1>0, <2>2, <2>3, <2>4 DEF IInv, RulesFresh, Tasks
  <1>2. CASE StopEngine(t)
    <2>1. WaitInv' /\ ~Stale'
      BY <1>0, <1>2 DEF WaitInv, StopEngine, Running, Stale
    <2>. QED  BY <2>1 DEF IInv, RulesFresh
  <1>3. CASE at[t] = "edit" /\ EditRules(t)
    <2>1. /\ UNCHANGED engine
          /\ \/ /\ rules' = rules + 1 /\ acked' = rules'
                /\ answer' = [answer EXCEPT ![t] = "yes"]
             \/ /\ rules' \in {rules, rules + 1} /\ UNCHANGED acked
                /\ answer' = [answer EXCEPT ![t] = "no"]
      BY <1>3 DEF EditRules
    <2>2. WaitInv'
      BY <1>0, <2>1 DEF WaitInv, Running
    <2>3. CASE answer' = [answer EXCEPT ![t] = "yes"]
      <3>1. t \in Handlers
        BY <1>0, <1>3 DEF WaitInv, Tasks
      <3>2. OwesReconnect(t)'
        BY <1>0, <1>3, <2>3 DEF OwesReconnect, WaitInv
      <3>. QED  BY <2>2, <3>1, <3>2 DEF IInv, RulesFresh
    <2>4. CASE UNCHANGED acked /\ answer' = [answer EXCEPT ![t] = "no"]
      <3>1. Stale' => Stale
        BY <2>1, <2>4 DEF Stale, Running
      <3>2. \A u \in Tasks : OwesReconnect(u) => OwesReconnect(u)'
        BY <1>0, <1>3, <2>4 DEF WaitInv, OwesReconnect
      <3>. QED  BY <1>0, <2>2, <3>1, <3>2 DEF IInv, RulesFresh, Tasks
    <2>. QED  BY <2>1, <2>3, <2>4
  <1>4. CASE at[t] \in {"poll", "select", "recheck"} /\ AskRunning(t)
    <2>1. UNCHANGED shell
          /\ answer' = [answer EXCEPT ![t] = IF Running THEN "yes" ELSE "no"]
      BY <1>4 DEF AskRunning
    <2>2. WaitInv'
      BY <1>0, <2>1 DEF WaitInv, Running, shell
    <2>3. Stale' => Stale /\ Running
      BY <2>1 DEF Stale, Running, shell
    <2>4. Running => \A u \in Tasks : OwesReconnect(u) => OwesReconnect(u)'
      BY <1>0, <1>4, <2>1 DEF WaitInv, OwesReconnect
    <2>. QED  BY <1>0, <2>2, <2>3, <2>4 DEF IInv, RulesFresh, Tasks
  <1>5. CASE at[t] \in {"is_admin", "dns_fix", "get_rules"} /\ AnswerAny(t)
    <2>1. UNCHANGED shell /\ \E a \in {"yes", "no"} : answer' = [answer EXCEPT ![t] = a]
      BY <1>5 DEF AnswerAny
    <2>2. WaitInv'
      BY <1>0, <2>1 DEF WaitInv, Running, shell
    <2>3. Stale' => Stale
      BY <2>1 DEF Stale, Running, shell
    <2>4. \A u \in Tasks : OwesReconnect(u) => OwesReconnect(u)'
      BY <1>0, <1>5, <2>1 DEF WaitInv, OwesReconnect
    <2>. QED  BY <1>0, <2>2, <2>3, <2>4 DEF IInv, RulesFresh, Tasks
  <1>. QED  BY <1>0, <1>1, <1>2, <1>3, <1>4, <1>5 DEF Command

\* The continuations of the handlers.
LEMMA DeliverStep ==
    ASSUME IInv, NEW t \in Tasks, Deliver(t)
    PROVE  IInv'
  <1>0. /\ WaitInv /\ Continue(t, answer[t]) /\ UNCHANGED shell
        /\ answer[t] \in {"yes", "no"}
        /\ answer' = [answer EXCEPT ![t] = "pending"]
    BY DEF IInv, Deliver, WaitInv, Pending
  <1>1. ASSUME NEW p \in Commands \cup {"free", "sleep"}, ~OwesReconnect(t),
               at' = [at EXCEPT ![t] = p], t \in Polls => p = "free"
        PROVE  IInv'
    BY <1>0, <1>1, IdleStep
  <1>2. ASSUME NEW p \in {"get_rules", "recheck", "stop"},
               at' = [at EXCEPT ![t] = p], t \notin Polls
        PROVE  IInv'
    BY <1>0, <1>2, OwingStep DEF Tasks
  <1>3. at[t] # "poll" => t \notin Polls
    BY <1>0 DEF WaitInv, Continue
  <1>4. CASE at[t] = "poll" /\ AfterPoll(t, answer[t])
    BY <1>1, <1>4 DEF AfterPoll, Return, OwesReconnect
  <1>5. CASE at[t] = "is_admin" /\ AfterIsAdmin(t, answer[t])
    <2>1. \E p \in {"connect_vless", "free"} : at' = [at EXCEPT ![t] = p]
      BY <1>5 DEF AfterIsAdmin, Call, Return
    <2>. QED  BY <1>1, <1>3, <1>5, <2>1 DEF OwesReconnect, Commands
  <1>6. CASE at[t] = "connect_vless" /\ AfterConnect(t, answer[t])
    <2>1. \E p \in {"dns_fix", "free"} : at' = [at EXCEPT ![t] = p]
      BY <1>6 DEF AfterConnect, Call, Return
    <2>. QED  BY <1>1, <1>3, <1>6, <2>1 DEF OwesReconnect, Commands
  <1>7. CASE \/ at[t] = "dns_fix" /\ AfterDnsFix(t)
             \/ at[t] = "disconnect" /\ AfterDisconnect(t)
    BY <1>1, <1>3, <1>7 DEF AfterDnsFix, AfterDisconnect, Return, OwesReconnect
  <1>8. CASE at[t] = "edit" /\ AfterEdit(t, answer[t])
    <2>1. CASE answer[t] = "yes"
      BY <1>2, <1>3, <1>8, <2>1 DEF AfterEdit, Call
    <2>2. CASE answer[t] # "yes"
      BY <1>1, <1>3, <1>8, <2>2 DEF AfterEdit, Return, OwesReconnect
    <2>. QED  BY <2>1, <2>2
  <1>9. CASE at[t] = "get_rules" /\ AfterGetRules(t)
    BY <1>2, <1>3, <1>9 DEF AfterGetRules, Call
  <1>10. CASE at[t] = "select" /\ AfterSelect(t, answer[t])
    <2>1. CASE answer[t] = "yes"
      BY <1>2, <1>3, <1>10, <2>1 DEF AfterSelect, Call
    <2>2. CASE answer[t] # "yes"
      BY <1>1, <1>3, <1>10, <2>2 DEF AfterSelect, Return, OwesReconnect
    <2>. QED  BY <2>1, <2>2
  <1>11. CASE at[t] = "recheck" /\ AfterRecheck(t, answer[t])
    <2>1. CASE answer[t] = "yes"
      BY <1>2, <1>3, <1>11, <2>1 DEF AfterRecheck, Call
    <2>2. CASE answer[t] = "no"
      BY <1>1, <1>3, <1>11, <2>2 DEF AfterRecheck, Return, OwesReconnect
    <2>. QED  BY <1>0, <2>1, <2>2
  <1>12. CASE at[t] = "stop" /\ AfterStop(t)
    BY <1>0, <1>1, <1>3, <1>12 DEF AfterStop, OwesReconnect
  <1>. QED
    BY <1>0, <1>4, <1>5, <1>6, <1>7, <1>8, <1>9, <1>10, <1>11, <1>12 DEF Continue

\* The invariant on which RulesFresh and ProfileFollows rest.
THEOREM WindowInvariant == Spec => []IInv
  <1>1. Init => IInv
    BY DEF Init, IInv, WaitInv, RulesFresh, Stale, Running, Tasks
  <1>2. IInv /\ [Next]_vars => IInv'
    <2>. SUFFICES ASSUME IInv, [Next]_vars PROVE IInv'
      OBVIOUS
    <2>1. ASSUME NEW t \in Handlers, Handle(t) PROVE IInv'
      <3>1. at[t] = "free" /\ UNCHANGED <<answer, shell>>
        BY <2>1 DEF Handle, ClickConnect, ClickDisconnect, ChangeRules,
                    SelectProfile, Event
      <3>2. \E p \in {"is_admin", "disconnect", "edit", "select"} :
                at' = [at EXCEPT ![t] = p]
        BY <2>1 DEF Handle, ClickConnect, ClickDisconnect, ChangeRules,
                    SelectProfile, HandleConnect, HandleDisconnect, Invoke
      <3>. QED
        BY <3>1, <3>2, IdleStep, TasksAssumption DEF Tasks, Commands, OwesReconnect
    <2>2. ASSUME NEW t \in Handlers, Wake(t) PROVE IInv'
      <3>1. /\ at[t] = "sleep" /\ UNCHANGED <<answer, shell>>
            /\ \E p \in {"is_admin", "free"} : at' = [at EXCEPT ![t] = p]
        BY <2>2 DEF Wake, HandleConnect, Invoke, GiveUp
      <3>. QED
        BY <3>1, IdleStep, TasksAssumption DEF Tasks, Commands, OwesReconnect
    <2>3. ASSUME NEW t \in Polls, PollStatus(t) PROVE IInv'
      <3>1. /\ at[t] = "free" /\ at' = [at EXCEPT ![t] = "poll"]
            /\ UNCHANGED <<answer, shell>>
        BY <2>3 DEF PollStatus, Invoke
      <3>. QED  BY <3>1, IdleStep DEF Tasks, Commands, OwesReconnect
    <2>4. ASSUME NEW t \in Tasks, Execute(t) \/ Deliver(t) PROVE IInv'
      BY <2>4, ExecuteStep, DeliverStep
    <2>5. CASE Crash
      BY <2>5 DEF Crash, IInv, WaitInv, RulesFresh, Stale, Running, page
    <2>6. CASE SaveProfiles \/ UNCHANGED vars
      BY <2>6 DEF IInv, WaitInv, RulesFresh, Stale, Running, OwesReconnect, vars,
                  SaveProfiles, tasks, shell
    <2>. QED  BY <2>1, <2>2, <2>3, <2>4, <2>5, <2>6 DEF Next
  <1>. QED  BY <1>1, <1>2, PTL DEF Spec

\* RulesFresh, however clicks, edits, polls, crashes and replies interleave.
THEOREM RulesFreshAlways == Spec => []RulesFresh
  BY WindowInvariant, PTL DEF IInv

-----------------------------------------------------------------------------
(* The profile in use.                                                     *)

\* A start carries a profile, a task that awaits nothing has no answer, and a
\* profile in use or on its way to be used is followed by a handler, if it is
\* not the one selected.
CaptureInv ==
    /\ url \in [Tasks -> Profiles \cup {None}]
    /\ selected \in Profiles \cup {None}
    /\ \A t \in Tasks : at[t] \in {"is_admin", "connect_vless"} => url[t] # None
    /\ \A t \in Tasks : at[t] \in {"free", "sleep"} => answer[t] = "pending"

Followed == unfollowed \/ \E t \in Handlers : OwesProfile(t)

FollowInv == CaptureInv /\ (OtherProfile \/ OldStart => Followed)

\* A task that owes nothing goes on with a profile that is no older.
LEMMA ProfileIdleStep ==
    ASSUME IInv, FollowInv, NEW t \in Tasks, ~OwesProfile(t),
           NEW p \in Commands \cup {"free", "sleep"},
           NEW v \in {None, selected, url[t]},
           at' = [at EXCEPT ![t] = p], url' = [url EXCEPT ![t] = v],
           p \in {"is_admin", "connect_vless"} => v # None,
           answer' = [answer EXCEPT ![t] = "pending"],
           UNCHANGED <<selected, shell, unfollowed>>
    PROVE  FollowInv'
  <1>1. CaptureInv'
    BY DEF IInv, WaitInv, FollowInv, CaptureInv
  <1>2. OtherProfile' => OtherProfile
    BY DEF OtherProfile, Running, shell
  <1>3. OldStart' => OldStart
    BY DEF OldStart, FollowInv, CaptureInv
  <1>4. Followed => Followed'
    <2>1. \A u \in Handlers : OwesProfile(u) => OwesProfile(u)'
      BY DEF OwesProfile, IInv, WaitInv, Tasks
    <2>. QED  BY <2>1 DEF Followed
  <1>. QED  BY <1>1, <1>2, <1>3, <1>4 DEF FollowInv

\* A handler that goes on to look for the engine, or to stop it, owes it.
LEMMA ProfileOwingStep ==
    ASSUME IInv, FollowInv, NEW t \in Handlers,
           NEW p \in {"select", "recheck", "stop"},
           at' = [at EXCEPT ![t] = p], url' = [url EXCEPT ![t] = None],
           answer' = [answer EXCEPT ![t] = "pending"],
           selected' \in Profiles \cup {None}
    PROVE  FollowInv'
  <1>1. t \in Tasks
    BY DEF Tasks
  <1>2. CaptureInv'
    BY <1>1 DEF IInv, WaitInv, FollowInv, CaptureInv
  <1>3. OwesProfile(t)'
    BY <1>1 DEF OwesProfile, IInv, WaitInv
  <1>. QED  BY <1>2, <1>3 DEF FollowInv, Followed

\* The commands of the shell: a start uses a profile that was on its way, and
\* the last look of a reconnect counts what is on its way still.
LEMMA ProfileExecuteStep ==
    ASSUME IInv, FollowInv, NEW t \in Tasks, Execute(t)
    PROVE  FollowInv'
  <1>1. /\ UNCHANGED <<selected, at, url>> /\ Command(t)
        /\ answer[t] = "pending" /\ at[t] \notin {"free", "sleep"}
        /\ unfollowed' = (unfollowed \/ (LastLook(t) /\ OldStart))
    BY DEF Execute, page, First, Pending, Command
  <1>2. PICK a \in {"yes", "no"} : answer' = [answer EXCEPT ![t] = a]
    BY <1>1 DEF Command, ConnectVless, StopEngine, EditRules, AskRunning, AnswerAny
  <1>3. CaptureInv'
    BY <1>1, <1>2 DEF IInv, WaitInv, FollowInv, CaptureInv
  <1>4. OldStart' <=> OldStart
    BY <1>1 DEF OldStart
  <1>5. OtherProfile' => OtherProfile \/ OldStart
    <2>1. \/ engine' \in {engine, None}
          \/ at[t] = "connect_vless" /\ engine' = [profile |-> url[t], rules |-> rules]
      <3>1. CASE at[t] = "connect_vless" /\ ConnectVless(t)
        BY <3>1 DEF ConnectVless
      <3>2. CASE StopEngine(t) \/ EditRules(t) \/ AskRunning(t) \/ AnswerAny(t)
        BY <3>2 DEF StopEngine, EditRules, AskRunning, AnswerAny, shell
      <3>. QED  BY <1>1, <3>1, <3>2 DEF Command
    <2>2. CASE engine' \in {engine, None}
      BY <1>1, <2>2 DEF OtherProfile, Running
    <2>3. CASE at[t] = "connect_vless" /\ engine' = [profile |-> url[t], rules |-> rules]
      BY <1>1, <2>3 DEF OtherProfile, OldStart, FollowInv, CaptureInv
    <2>. QED  BY <2>1, <2>2, <2>3
  <1>6. CASE LastLook(t)
    <2>1. ~OtherProfile'
      BY <1>1, <1>6 DEF LastLook, Command, StopEngine, AskRunning, OtherProfile,
                        Running, shell
    <2>. QED  BY <1>1, <1>3, <1>4, <1>6, <2>1 DEF FollowInv, Followed
  <1>7. CASE ~LastLook(t)
    <2>1. \A u \in Handlers : OwesProfile(u) => OwesProfile(u)'
      <3>. SUFFICES ASSUME NEW u \in Handlers, OwesProfile(u) PROVE OwesProfile(u)'
        OBVIOUS
      <3>1. CASE u # t
        BY <1>1, <1>2, <3>1 DEF OwesProfile, IInv, WaitInv, Tasks
      <3>2. CASE u = t
        <4>1. at[t] \in {"select", "recheck"} /\ Running
          BY <1>1, <1>7, <3>2 DEF OwesProfile, LastLook
        <4>2. answer' = [answer EXCEPT ![t] = "yes"]
          BY <1>1, <4>1 DEF Command, AskRunning
        <4>. QED  BY <1>1, <3>2, <4>1, <4>2 DEF OwesProfile, IInv, WaitInv
      <3>. QED  BY <3>1, <3>2
    <2>2. Followed => Followed'
      BY <1>1, <2>1 DEF Followed
    <2>. QED  BY <1>3, <1>4, <1>5, <2>2 DEF FollowInv
  <1>. QED  BY <1>6, <1>7

\* The continuations of the handlers.
LEMMA ProfileDeliverStep ==
    ASSUME IInv, FollowInv, NEW t \in Tasks, Deliver(t)
    PROVE  FollowInv'
  <1>0. /\ Continue(t, answer[t]) /\ answer[t] \in {"yes", "no"}
        /\ answer' = [answer EXCEPT ![t] = "pending"]
        /\ UNCHANGED <<selected, shell, unfollowed>>
    BY DEF IInv, Deliver, WaitInv, Pending, history
  <1>1. at[t] # "poll" => t \in Handlers
    BY <1>0 DEF IInv, WaitInv, Continue, Tasks
  <1>2. ASSUME ~OwesProfile(t), NEW p \in Commands \cup {"free", "sleep"},
               NEW v \in {None, url[t]},
               at' = [at EXCEPT ![t] = p], url' = [url EXCEPT ![t] = v],
               p # "is_admin", p = "connect_vless" => v # None
        PROVE  FollowInv'
    BY <1>0, <1>2, ProfileIdleStep
  <1>3. ASSUME t \in Handlers, NEW p \in {"recheck", "stop"}, Call(t, p)
        PROVE  FollowInv'
    <2>1. at' = [at EXCEPT ![t] = p] /\ url' = [url EXCEPT ![t] = None]
      BY <1>3 DEF Call
    <2>2. selected' \in Profiles \cup {None}
      BY <1>0 DEF FollowInv, CaptureInv
    <2>. QED  BY <1>0, <1>3, <2>1, <2>2, ProfileOwingStep
  <1>4. ASSUME ~OwesProfile(t), Return(t) PROVE FollowInv'
    BY <1>2, <1>4 DEF Return
  <1>5. ASSUME ~OwesProfile(t), NEW p \in {"dns_fix", "get_rules"}, Call(t, p)
        PROVE  FollowInv'
    BY <1>2, <1>5 DEF Call, Commands
  <1>6. CASE at[t] = "poll" /\ AfterPoll(t, answer[t])
    BY <1>4, <1>6 DEF AfterPoll, OwesProfile
  <1>7. CASE at[t] = "is_admin" /\ AfterIsAdmin(t, answer[t])
    <2>1. ~OwesProfile(t) /\ url[t] # None
      BY <1>7 DEF OwesProfile, FollowInv, CaptureInv
    <2>2. CASE Call(t, "connect_vless")
      <3>1. /\ at' = [at EXCEPT ![t] = "connect_vless"]
            /\ url' = [url EXCEPT ![t] = url[t]]
        BY <2>2 DEF Call
      <3>. QED  BY <1>2, <2>1, <3>1 DEF Commands
    <2>. QED  BY <1>4, <1>7, <2>1, <2>2 DEF AfterIsAdmin
  <1>8. CASE at[t] = "connect_vless" /\ AfterConnect(t, answer[t])
    BY <1>4, <1>5, <1>8 DEF AfterConnect, OwesProfile
  <1>9. CASE \/ at[t] = "dns_fix" /\ AfterDnsFix(t)
             \/ at[t] = "disconnect" /\ AfterDisconnect(t)
    BY <1>4, <1>9 DEF AfterDnsFix, AfterDisconnect, OwesProfile
  <1>10. CASE at[t] = "edit" /\ AfterEdit(t, answer[t])
    BY <1>4, <1>5, <1>10 DEF AfterEdit, OwesProfile
  <1>11. CASE at[t] = "get_rules" /\ AfterGetRules(t)
    BY <1>1, <1>3, <1>11 DEF AfterGetRules
  <1>12. CASE at[t] = "select" /\ AfterSelect(t, answer[t])
    BY <1>0, <1>1, <1>3, <1>4, <1>12 DEF AfterSelect, OwesProfile
  <1>13. CASE at[t] = "recheck" /\ AfterRecheck(t, answer[t])
    BY <1>1, <1>3, <1>4, <1>13 DEF AfterRecheck, OwesProfile
  <1>14. CASE at[t] = "stop" /\ AfterStop(t)
    <2>1. at' = [at EXCEPT ![t] = "sleep"] /\ url' = [url EXCEPT ![t] = url[t]]
      BY <1>14 DEF AfterStop, FollowInv, CaptureInv
    <2>. QED  BY <1>0, <1>2, <1>14, <2>1 DEF OwesProfile
  <1>. QED
    BY <1>0, <1>6, <1>7, <1>8, <1>9, <1>10, <1>11, <1>12, <1>13, <1>14 DEF Continue

\* What a start carries, and who follows a profile that is not the one selected.
LEMMA FollowInvariant == Spec => []FollowInv
  <1>1. Init => FollowInv
    BY DEF Init, FollowInv, CaptureInv, OtherProfile, OldStart, Running, Tasks
  <1>2. IInv /\ FollowInv /\ [Next]_vars => FollowInv'
    <2>. SUFFICES ASSUME IInv, FollowInv, [Next]_vars PROVE FollowInv'
      OBVIOUS
    <2>0. ASSUME NEW t \in Handlers, at[t] \in {"free", "sleep"},
                 NEW p \in Commands \cup {"free", "sleep"},
                 at' = [at EXCEPT ![t] = p],
                 NEW v \in {None, selected, url[t]}, url' = [url EXCEPT ![t] = v],
                 p \in {"is_admin", "connect_vless"} => v # None,
                 UNCHANGED <<answer, shell, selected, unfollowed>>
          PROVE  FollowInv'
      <3>1. t \in Tasks /\ ~OwesProfile(t)
        BY <2>0 DEF Tasks, OwesProfile
      <3>2. answer' = [answer EXCEPT ![t] = "pending"]
        BY <2>0, <3>1 DEF FollowInv, CaptureInv, IInv, WaitInv
      <3>. QED  BY <2>0, <3>1, <3>2, ProfileIdleStep
    <2>1. ASSUME NEW t \in Handlers, Handle(t) PROVE FollowInv'
      <3>1. at[t] = "free" /\ UNCHANGED <<answer, shell>>
        BY <2>1 DEF Handle, ClickConnect, ClickDisconnect, ChangeRules,
                    SelectProfile, Event
      <3>2. CASE ClickConnect(t)
        BY <2>0, <3>1, <3>2 DEF ClickConnect, HandleConnect, Invoke, Commands
      <3>3. CASE ClickDisconnect(t) \/ ChangeRules(t)
        <4>1. PICK p \in {"disconnect", "edit"} :
                  /\ at' = [at EXCEPT ![t] = p] /\ url' = [url EXCEPT ![t] = None]
                  /\ UNCHANGED <<selected, unfollowed>>
          BY <3>3 DEF ClickDisconnect, ChangeRules, HandleDisconnect, Invoke, history
        <4>2. t \in Tasks /\ ~OwesProfile(t) /\ p \in Commands
              /\ p \notin {"is_admin", "connect_vless"}
          BY <3>1 DEF Tasks, OwesProfile, Commands
        <4>3. answer' = [answer EXCEPT ![t] = "pending"]
          BY <3>1, <4>2 DEF FollowInv, CaptureInv, IInv, WaitInv
        <4>4. UNCHANGED <<selected, shell, unfollowed>>
          BY <3>1, <4>1
        <4>. QED  BY <4>1, <4>2, <4>3, <4>4, ProfileIdleStep
      <3>4. CASE SelectProfile(t)
        <4>1. answer' = [answer EXCEPT ![t] = "pending"]
          BY <3>1 DEF FollowInv, CaptureInv, IInv, WaitInv, Tasks
        <4>. QED  BY <3>4, <4>1, ProfileOwingStep DEF SelectProfile, Invoke
      <3>. QED  BY <2>1, <3>2, <3>3, <3>4 DEF Handle
    <2>2. ASSUME NEW t \in Handlers, Wake(t) PROVE FollowInv'
      <3>1. CASE selected # None /\ HandleConnect(t)
        BY <2>0, <2>2, <3>1 DEF Wake, HandleConnect, Invoke, Commands, history
      <3>2. CASE GiveUp(t)
        <4>1. at' = [at EXCEPT ![t] = "free"] /\ url' = [url EXCEPT ![t] = url[t]]
          BY <3>2 DEF GiveUp, FollowInv, CaptureInv
        <4>2. at[t] = "sleep" /\ UNCHANGED <<answer, shell, selected, unfollowed>>
          BY <2>2 DEF Wake, history
        <4>. QED  BY <2>0, <4>1, <4>2
      <3>. QED  BY <2>2, <3>1, <3>2 DEF Wake
    <2>3. ASSUME NEW t \in Polls, PollStatus(t) PROVE FollowInv'
      <3>1. t \in Tasks /\ ~OwesProfile(t)
        BY <2>3 DEF Tasks, OwesProfile, PollStatus
      <3>2. answer' = [answer EXCEPT ![t] = "pending"]
        BY <2>3, <3>1 DEF FollowInv, CaptureInv, IInv, WaitInv, PollStatus
      <3>. QED
        BY <2>3, <3>1, <3>2, ProfileIdleStep DEF PollStatus, Invoke, Commands, history
    <2>4. ASSUME NEW t \in Tasks, Execute(t) \/ Deliver(t) PROVE FollowInv'
      BY <2>4, ProfileExecuteStep, ProfileDeliverStep
    <2>5. CASE SaveProfiles
      <3>1. CaptureInv' /\ unfollowed' = (unfollowed \/ selected' # selected)
        BY <2>5 DEF SaveProfiles, tasks, FollowInv, CaptureInv
      <3>2. CASE selected' = selected
        BY <2>5, <3>1, <3>2 DEF SaveProfiles, tasks, shell, FollowInv, Followed,
              OtherProfile, OldStart, OwesProfile, Running
      <3>. QED  BY <3>1, <3>2 DEF FollowInv, Followed
    <2>6. CASE Crash \/ UNCHANGED vars
      BY <2>6 DEF Crash, page, vars, history, FollowInv, CaptureInv, Followed,
                  OtherProfile, OldStart, OwesProfile, Running
    <2>. QED  BY <2>1, <2>2, <2>3, <2>4, <2>5, <2>6 DEF Next
  <1>. QED  BY <1>1, <1>2, WindowInvariant, PTL DEF Spec

\* ProfileFollows: an engine with another profile than the one selected is on
\* its way to be restarted, or the profile changed where no reconnect follows.
THEOREM ProfileFollowsAlways == Spec => []ProfileFollows
  <1>1. FollowInv => ProfileFollows
    BY DEF FollowInv, ProfileFollows, Followed
  <1>. QED  BY <1>1, FollowInvariant, PTL

-----------------------------------------------------------------------------
(* The disconnect lasts.                                                   *)

\* A disconnected engine is down, and no task starts it without looking first.
OffInv == off => ~Running /\ \A t \in Tasks : ~Restarts(t)

\* One task moves to a place from which it does not start the engine.
LEMMA OffMove ==
    ASSUME IInv, OffInv, NEW t \in Tasks,
           NEW p \in Commands \cup {"free", "sleep"},
           p \notin {"stop", "sleep", "is_admin", "connect_vless"},
           at' = [at EXCEPT ![t] = p],
           \/ answer' = [answer EXCEPT ![t] = "pending"]
           \/ answer' = answer /\ p # "recheck",
           UNCHANGED engine, off' => off
    PROVE  OffInv'
  <1>. SUFFICES ASSUME off' PROVE (~Running /\ \A u \in Tasks : ~Restarts(u))'
    BY DEF OffInv
  <1>1. ~Running' /\ \A u \in Tasks : ~Restarts(u)
    BY DEF OffInv, Running
  <1>2. ~Restarts(t)'
    BY DEF Restarts, IInv, WaitInv
  <1>3. \A u \in Tasks : u # t => at'[u] = at[u] /\ answer'[u] = answer[u]
    BY DEF IInv, WaitInv
  <1>. QED  BY <1>1, <1>2, <1>3 DEF Restarts

\* A command in the shell finds no engine to say "yes" of, and is no start.
LEMMA OffExecute ==
    ASSUME IInv, OffInv, NEW t \in Tasks, Execute(t)
    PROVE  OffInv'
  <1>1. /\ UNCHANGED at /\ Command(t) /\ answer[t] = "pending"
        /\ off' = (off \/ (at[t] = "disconnect" /\ \A s \in Tasks : ~Restarts(s)))
    BY DEF Execute, page, First, Pending
  <1>2. PICK a \in {"yes", "no"} : answer' = [answer EXCEPT ![t] = a]
    BY <1>1 DEF Command, ConnectVless, StopEngine, EditRules, AskRunning, AnswerAny
  <1>. SUFFICES ASSUME off' PROVE (~Running /\ \A u \in Tasks : ~Restarts(u))'
    BY DEF OffInv
  <1>3. \A u \in Tasks : ~Restarts(u)
    BY <1>1 DEF OffInv
  <1>4. at[t] \notin {"stop", "sleep", "is_admin", "connect_vless"}
    BY <1>1, <1>3 DEF Restarts
  <1>5. ~Running'
    <2>1. CASE at[t] = "disconnect"
      BY <1>1, <2>1 DEF Command, StopEngine, Running
    <2>2. CASE at[t] # "disconnect"
      <3>1. UNCHANGED engine
        BY <1>1, <1>4, <2>2 DEF Command, EditRules, AskRunning, AnswerAny, shell
      <3>. QED  BY <1>1, <2>2, <3>1 DEF OffInv, Running
    <2>. QED  BY <2>1, <2>2
  <1>6. ~Restarts(t)'
    <2>1. CASE at[t] = "recheck"
      <3>1. AskRunning(t) /\ ~Running
        BY <1>1, <2>1 DEF Command, OffInv
      <3>2. answer'[t] = "no"
        BY <3>1 DEF AskRunning, IInv, WaitInv
      <3>. QED  BY <1>1, <2>1, <3>2 DEF Restarts
    <2>2. CASE at[t] # "recheck"
      BY <1>1, <1>4, <2>2 DEF Restarts
    <2>. QED  BY <2>1, <2>2
  <1>7. \A u \in Tasks : u # t => at'[u] = at[u] /\ answer'[u] = answer[u]
    BY <1>1, <1>2 DEF IInv, WaitInv
  <1>. QED  BY <1>3, <1>5, <1>6, <1>7 DEF Restarts

\* A handler that goes on: from a recheck it was answered "no".
LEMMA OffDeliver ==
    ASSUME IInv, OffInv, NEW t \in Tasks, Deliver(t)
    PROVE  OffInv'
  <1>1. /\ Continue(t, answer[t]) /\ answer[t] \in {"yes", "no"}
        /\ UNCHANGED <<engine, off>>
        /\ answer' = [answer EXCEPT ![t] = "pending"]
    BY DEF IInv, WaitInv, Deliver, Pending, shell, history
  <1>2. CASE ~off
    BY <1>1, <1>2 DEF OffInv
  <1>3. CASE off
    <2>1. /\ at[t] \notin {"stop", "sleep"}
          /\ at[t] \in {"recheck", "is_admin"} => answer[t] = "no"
      BY <1>1, <1>3 DEF OffInv, Restarts
    <2>2. PICK p \in {"free", "dns_fix", "get_rules", "recheck"} :
              at' = [at EXCEPT ![t] = p]
      <3>1. Return(t) \/ \E p \in {"dns_fix", "get_rules", "recheck"} : Call(t, p)
        BY <1>1, <2>1 DEF Continue, AfterPoll, AfterIsAdmin, AfterConnect, AfterDnsFix,
              AfterDisconnect, AfterEdit, AfterGetRules, AfterSelect, AfterRecheck
      <3>. QED  BY <3>1 DEF Return, Call
    <2>. QED  BY <1>1, <2>2, OffMove DEF Commands
  <1>. QED  BY <1>2, <1>3

\* DisconnectHolds, for any number of handlers, edits, choices and crashes.
THEOREM DisconnectHoldsAlways == Spec => []DisconnectHolds
  <1>1. Init => OffInv
    BY DEF Init, OffInv
  <1>2. IInv /\ OffInv /\ [Next]_vars => OffInv'
    <2>. SUFFICES ASSUME IInv, OffInv, [Next]_vars PROVE OffInv'
      OBVIOUS
    <2>1. ASSUME NEW t \in Handlers, ClickConnect(t) PROVE OffInv'
      BY <2>1 DEF ClickConnect, OffInv
    <2>2. ASSUME NEW t \in Handlers,
                 ClickDisconnect(t) \/ ChangeRules(t) \/ SelectProfile(t)
          PROVE  OffInv'
      <3>1. /\ t \in Tasks /\ UNCHANGED <<answer, engine, off>>
            /\ \E p \in {"disconnect", "edit", "select"} : at' = [at EXCEPT ![t] = p]
        BY <2>2 DEF ClickDisconnect, ChangeRules, SelectProfile, HandleDisconnect,
                    Invoke, Event, Tasks, shell, history
      <3>. QED  BY <3>1, OffMove DEF Commands
    <2>3. ASSUME NEW t \in Handlers, Wake(t) PROVE OffInv'
      BY <2>3 DEF Wake, OffInv, Restarts, Tasks, history
    <2>4. ASSUME NEW t \in Polls, PollStatus(t) PROVE OffInv'
      <3>1. /\ t \in Tasks /\ UNCHANGED <<answer, engine, off>>
            /\ at' = [at EXCEPT ![t] = "poll"]
        BY <2>4 DEF PollStatus, Invoke, Tasks, shell, history
      <3>. QED  BY <3>1, OffMove DEF Commands
    <2>5. ASSUME NEW t \in Tasks, Execute(t) \/ Deliver(t) PROVE OffInv'
      BY <2>5, OffExecute, OffDeliver
    <2>6. CASE SaveProfiles \/ Crash \/ UNCHANGED vars
      <3>1. UNCHANGED <<at, answer, off>> /\ (engine' = engine \/ engine' = None)
        BY <2>6 DEF SaveProfiles, Crash, vars, tasks, shell, page, history
      <3>. QED  BY <3>1 DEF OffInv, Running, Restarts
    <2>. QED  BY <2>1, <2>2, <2>3, <2>4, <2>5, <2>6 DEF Next, Handle
  <1>3. OffInv => DisconnectHolds
    BY DEF OffInv, DisconnectHolds
  <1>. QED  BY <1>1, <1>2, <1>3, WindowInvariant, PTL DEF Spec

-----------------------------------------------------------------------------
(* Types.  A version of the rules is one edit, and an edit is one event: an *)
(* edit that is asked for and not executed has its event already, so what  *)
(* bounds the versions is their number and that of the edits under way.    *)

\* The tasks that wait for a command, each once.
QueueInv ==
    /\ calls \in Seq(Tasks)
    /\ \A i, j \in DOMAIN calls : calls[i] = calls[j] => i = j
    /\ \A t \in Tasks : at[t] \in Commands <=> \E i \in DOMAIN calls : calls[i] = t

\* A task carries a profile just as long as a start with it is under way.
UrlInv == \A t \in Tasks : at[t] \in {"is_admin", "connect_vless"} <=> url[t] \in Profiles

EngineInv == engine \in [profile : Profiles, rules : 0..rules] \cup {None}

ShownInv ==
    {textOn, canConnect, canDisconnect, panel, unfollowed, off} \subseteq BOOLEAN

\* Edits that are asked for and not executed.
Editing == {t \in Tasks : at[t] = "edit" /\ answer[t] = "pending"}

EditsInv ==
    /\ IsFiniteSet(Editing) /\ rules + Cardinality(Editing) <= events
    /\ events \in 0..MaxEvents

TypesInv == QueueInv /\ UrlInv /\ EngineInv /\ ShownInv /\ EditsInv

\* The queue without the request of t: the others, in their order.
LEMMA RestShape ==
    ASSUME QueueInv, NEW t \in Tasks, at[t] \in Commands
    PROVE  /\ Rest(t) \in Seq(Tasks)
           /\ \A i, j \in DOMAIN Rest(t) : Rest(t)[i] = Rest(t)[j] => i = j
           /\ \A u \in Tasks : (\E i \in DOMAIN Rest(t) : Rest(t)[i] = u) <=>
                                  u # t /\ \E i \in DOMAIN calls : calls[i] = u
  <1> DEFINE n == Len(calls)
             k == CHOOSE j \in DOMAIN calls : calls[j] = t
             a == SubSeq(calls, 1, k - 1)
             b == SubSeq(calls, k + 1, n)
  <1>1. k \in DOMAIN calls /\ calls[k] = t
    BY DEF QueueInv
  <1>2. calls \in Seq(Tasks) /\ n \in Nat /\ DOMAIN calls = 1..n
    BY LenProperties DEF QueueInv
  <1>3. Rest(t) = a \o b
    BY DEF Rest
  <1>. HIDE DEF k
  <1>4. \A i \in 1..n : calls[i] \in Tasks
    BY <1>2, ElementOfSeq
  <1>5. /\ a \in Seq(Tasks) /\ Len(a) = k - 1
        /\ \A i \in 1..(k - 1) : a[i] = calls[i]
    <2>1. \A i \in 1..(k - 1) : calls[i] \in Tasks
      BY <1>1, <1>2, <1>4
    <2>2. /\ a \in Seq(Tasks) /\ Len(a) = IF 1 <= k - 1 THEN (k - 1) - 1 + 1 ELSE 0
          /\ \A i \in 1..(k - 1) - 1 + 1 : a[i] = calls[1 + i - 1]
      BY <1>1, <1>2, <2>1, SubSeqProperties
    <2>. QED  BY <1>1, <1>2, <2>2
  <1>6. /\ b \in Seq(Tasks) /\ Len(b) = n - k
        /\ \A i \in 1..(n - k) : b[i] = calls[k + i]
    <2>1. \A i \in (k + 1)..n : calls[i] \in Tasks
      BY <1>1, <1>2, <1>4
    <2>2. /\ b \in Seq(Tasks) /\ Len(b) = IF k + 1 <= n THEN n - (k + 1) + 1 ELSE 0
          /\ \A i \in 1..n - (k + 1) + 1 : b[i] = calls[(k + 1) + i - 1]
      BY <1>1, <1>2, <2>1, SubSeqProperties
    <2>. QED  BY <1>1, <1>2, <2>2
  <1>. HIDE DEF a, b
  <1> DEFINE r == a \o b
             from(i) == IF i < k THEN i ELSE i + 1
  <1>7. /\ r \in Seq(Tasks) /\ DOMAIN r = 1..(n - 1)
        /\ \A i \in 1..(n - 1) : r[i] = calls[from(i)]
    <2>1. /\ r \in Seq(Tasks) /\ Len(r) = Len(a) + Len(b)
          /\ \A i \in 1..(Len(a) + Len(b)) :
                r[i] = IF i <= Len(a) THEN a[i] ELSE b[i - Len(a)]
      BY <1>5, <1>6, ConcatProperties
    <2>2. Len(r) = n - 1 /\ DOMAIN r = 1..(n - 1)
      <3>1. k \in Nat /\ Len(a) = k - 1 /\ Len(b) = n - k
        BY <1>1, <1>2, <1>5, <1>6
      <3>2. Len(r) = (k - 1) + (n - k)
        BY <2>1, <3>1
      <3>3. Len(r) = n - 1
        BY <1>2, <3>1, <3>2
      <3>. QED  BY <2>1, <3>3, LenProperties
    <2>3. ASSUME NEW i \in 1..(n - 1) PROVE r[i] = calls[from(i)]
      <3>1. r[i] = IF i <= k - 1 THEN a[i] ELSE b[i - (k - 1)]
        BY <1>1, <1>2, <1>5, <1>6, <2>1
      <3>2. CASE i < k
        BY <1>1, <1>2, <1>5, <3>1, <3>2
      <3>3. CASE ~(i < k)
        <4>1. i - (k - 1) \in 1..(n - k) /\ k + (i - (k - 1)) = i + 1
          BY <1>1, <1>2, <3>3
        <4>. QED  BY <1>1, <1>2, <1>6, <3>1, <3>3, <4>1
      <3>. QED  BY <3>2, <3>3
    <2>. QED  BY <2>1, <2>2, <2>3
  <1>8. /\ \A i \in 1..(n - 1) : from(i) \in 1..n /\ from(i) # k
        /\ \A i, j \in 1..(n - 1) : from(i) = from(j) => i = j
        /\ \A j \in 1..n : j # k => \E i \in 1..(n - 1) : from(i) = j
    <2>1. \A i \in 1..(n - 1) : from(i) \in 1..n /\ from(i) # k
      BY <1>1, <1>2
    <2>2. \A i, j \in 1..(n - 1) : from(i) = from(j) => i = j
      BY <1>1, <1>2
    <2>3. ASSUME NEW j \in 1..n, j # k PROVE \E i \in 1..(n - 1) : from(i) = j
      <3>1. CASE j < k
        <4>1. j \in 1..(n - 1) /\ from(j) = j
          BY <1>1, <1>2, <3>1
        <4>. QED  BY <4>1
      <3>2. CASE ~(j < k)
        <4>1. j - 1 \in 1..(n - 1) /\ from(j - 1) = j
          BY <1>1, <1>2, <2>3, <3>2
        <4>. QED  BY <4>1
      <3>. QED  BY <3>1, <3>2
    <2>. QED  BY <2>1, <2>2, <2>3
  <1>. HIDE DEF r, from
  <1>9. \A i, j \in 1..n : calls[i] = calls[j] => i = j
    BY <1>2 DEF QueueInv
  <1>10. \A i, j \in 1..(n - 1) : r[i] = r[j] => i = j
    BY <1>7, <1>8, <1>9
  <1>11. ASSUME NEW u \in Tasks
         PROVE  (\E i \in 1..(n - 1) : r[i] = u) <=> u # t /\ \E i \in 1..n : calls[i] = u
    <2>1. ASSUME NEW i \in 1..(n - 1), r[i] = u
          PROVE  u # t /\ \E j \in 1..n : calls[j] = u
      BY <1>1, <1>2, <1>7, <1>8, <1>9, <2>1
    <2>2. ASSUME u # t, NEW j \in 1..n, calls[j] = u
          PROVE  \E i \in 1..(n - 1) : r[i] = u
      BY <1>1, <1>7, <1>8, <2>2
    <2>. QED  BY <2>1, <2>2
  <1>. QED  BY <1>2, <1>3, <1>7, <1>10, <1>11 DEF r

\* The requests of the other tasks.
Others(t) == IF at[t] \in Commands THEN Rest(t) ELSE calls

\* A task goes on: what it awaited is answered, what it awaits is asked.
Moves(t, p, v) ==
    /\ at' = [at EXCEPT ![t] = p] /\ p \in Commands \cup {"free", "sleep"}
    /\ url' = [url EXCEPT ![t] = v]
    /\ v \in Profiles <=> p \in {"is_admin", "connect_vless"}
    /\ calls' = IF p \in Commands THEN Append(Others(t), t) ELSE Others(t)
    /\ answer' = [answer EXCEPT ![t] = "pending"]
    /\ t \notin Editing
    /\ p = "edit" => events' = events + 1
    /\ events' \in 0..MaxEvents /\ events <= events'
    /\ {textOn, canConnect, canDisconnect, panel, unfollowed, off}' \subseteq BOOLEAN
    /\ UNCHANGED shell

\* The queue after such a step.
LEMMA QueueStep ==
    ASSUME WaitInv, QueueInv, NEW t \in Tasks, NEW p, NEW v, Moves(t, p, v)
    PROVE  QueueInv'
  <1> DEFINE q == Others(t)
             n == Len(q)
  <1>1. /\ q \in Seq(Tasks)
        /\ \A i, j \in DOMAIN q : q[i] = q[j] => i = j
        /\ \A u \in Tasks : (\E i \in DOMAIN q : q[i] = u) <=> u # t /\ at[u] \in Commands
    <2>1. CASE at[t] \in Commands
      BY <2>1, RestShape DEF Others, QueueInv
    <2>2. CASE at[t] \notin Commands
      BY <2>2 DEF Others, QueueInv
    <2>. QED  BY <2>1, <2>2
  <1>2. at'[t] = p /\ \A u \in Tasks : u # t => at'[u] = at[u]
    BY DEF Moves, WaitInv
  <1>3. calls' = IF p \in Commands THEN Append(q, t) ELSE q
    BY DEF Moves
  <1>. HIDE DEF q
  <1>4. n \in Nat /\ DOMAIN q = 1..n
    BY <1>1, LenProperties
  <1>5. CASE p \notin Commands
    BY <1>1, <1>2, <1>3, <1>5 DEF QueueInv
  <1>6. CASE p \in Commands
    <2>1. /\ calls' \in Seq(Tasks) /\ DOMAIN calls' = 1..(n + 1) /\ calls'[n + 1] = t
          /\ \A i \in 1..n : calls'[i] = q[i] /\ i \in 1..(n + 1) /\ i # n + 1
      BY <1>1, <1>3, <1>4, <1>6, AppendProperties
    <2>2. \A i \in 1..(n + 1) : i = n + 1 \/ i \in 1..n
      BY <1>4
    <2>3. \A i \in 1..n : q[i] # t
      BY <1>1, <1>4
    <2>4. \A i, j \in DOMAIN calls' : calls'[i] = calls'[j] => i = j
      BY <1>1, <1>4, <2>1, <2>2, <2>3
    <2>5. ASSUME NEW u \in Tasks
          PROVE  at'[u] \in Commands <=> \E i \in DOMAIN calls' : calls'[i] = u
      <3>1. CASE u = t
        <4>1. n + 1 \in 1..(n + 1)
          BY <1>4
        <4>. QED  BY <1>2, <1>6, <2>1, <3>1, <4>1
      <3>2. CASE u # t
        BY <1>1, <1>2, <1>4, <2>1, <2>2, <3>2
      <3>. QED  BY <3>1, <3>2
    <2>. QED  BY <2>1, <2>4, <2>5 DEF QueueInv
  <1>. QED  BY <1>5, <1>6

\* Such a step keeps the types.
LEMMA MovesKeep ==
    ASSUME WaitInv, CaptureInv, TypesInv, NEW t \in Tasks, NEW p, NEW v, Moves(t, p, v)
    PROVE  TypesInv'
  <1>0. QueueInv /\ UrlInv /\ EngineInv /\ ShownInv /\ EditsInv
    BY DEF TypesInv
  <1>1. /\ at'[t] = p /\ answer'[t] = "pending" /\ url'[t] = v
        /\ \A u \in Tasks : u # t => /\ at'[u] = at[u] /\ answer'[u] = answer[u]
                                     /\ url'[u] = url[u]
    BY DEF Moves, WaitInv, CaptureInv
  <1>2. QueueInv'
    BY <1>0, QueueStep
  <1>3. UrlInv'
    BY <1>0, <1>1 DEF UrlInv, Moves
  <1>4. EngineInv' /\ ShownInv'
    BY <1>0 DEF EngineInv, ShownInv, Moves, shell
  <1>5. EditsInv'
    <2>1. Editing' = IF p = "edit" THEN Editing \cup {t} ELSE Editing
      BY <1>1 DEF Editing, Moves
    <2>2. /\ rules' = rules /\ rules \in Nat /\ t \notin Editing
          /\ events' \in 0..MaxEvents /\ events \in Nat /\ events' \in Nat
          /\ events <= events' /\ (p = "edit" => events' = events + 1)
      BY <1>0, EventsAssumption DEF Moves, shell, WaitInv, EditsInv
    <2>3. Cardinality(Editing) \in Nat /\ rules + Cardinality(Editing) <= events
      BY <1>0, FS_CardinalityType DEF EditsInv
    <2>4. IsFiniteSet(Editing') /\ rules' + Cardinality(Editing') <= events'
      <3>1. IsFiniteSet(Editing)
        BY <1>0 DEF EditsInv
      <3>2. CASE p = "edit"
        <4>1. Editing' = Editing \cup {t}
          BY <2>1, <3>2
        <4>2. /\ IsFiniteSet(Editing \cup {t})
              /\ Cardinality(Editing \cup {t}) = Cardinality(Editing) + 1
          BY <2>2, <3>1, FS_AddElement
        <4>3. rules' + (Cardinality(Editing) + 1) <= events'
          BY <2>2, <2>3, <3>2
        <4>. QED  BY <4>1, <4>2, <4>3
      <3>3. CASE p # "edit"
        <4>1. Editing' = Editing
          BY <2>1, <3>3
        <4>2. rules' + Cardinality(Editing) <= events'
          BY <2>2, <2>3, EventsAssumption
        <4>. QED  BY <3>1, <4>1, <4>2
      <3>. QED  BY <3>2, <3>3
    <2>. QED  BY <2>2, <2>4 DEF EditsInv
  <1>. QED  BY <1>2, <1>3, <1>4, <1>5 DEF TypesInv

\* What is shown, and the two marks, stay true or false.
LEMMA ShownStep ==
    ASSUME ShownInv, NEW t \in Tasks,
           Handle(t) \/ Wake(t) \/ PollStatus(t) \/ Deliver(t) \/ Execute(t)
    PROVE  ShownInv'
  <1>1. /\ textOn \in BOOLEAN /\ canConnect \in BOOLEAN /\ canDisconnect \in BOOLEAN
        /\ panel \in BOOLEAN /\ unfollowed \in BOOLEAN /\ off \in BOOLEAN
    BY DEF ShownInv
  <1>. SUFFICES /\ textOn' \in BOOLEAN /\ canConnect' \in BOOLEAN
                /\ canDisconnect' \in BOOLEAN /\ panel' \in BOOLEAN
                /\ unfollowed' \in BOOLEAN /\ off' \in BOOLEAN
    BY DEF ShownInv
  <1>2. CASE Handle(t)
    BY <1>1, <1>2 DEF Handle, ClickConnect, ClickDisconnect, ChangeRules, SelectProfile,
          HandleConnect, HandleDisconnect, status, history
  <1>3. CASE Wake(t) \/ PollStatus(t)
    BY <1>1, <1>3 DEF Wake, HandleConnect, GiveUp, PollStatus, status, history
  <1>4. CASE Deliver(t)
    <2>1. UNCHANGED history /\ Continue(t, answer[t])
      BY <1>4 DEF Deliver
    <2>. QED
      BY <1>1, <2>1 DEF Continue, AfterPoll, AfterIsAdmin, AfterConnect, AfterDnsFix,
          AfterDisconnect, AfterEdit, AfterGetRules, AfterSelect, AfterRecheck, AfterStop,
          SetConnected, SetConnecting, SetDisconnected, status, history
  <1>5. CASE Execute(t)
    BY <1>1, <1>5 DEF Execute, page
  <1>. QED  BY <1>2, <1>3, <1>4, <1>5

\* A task that awaits nothing asks for its first command.
LEMMA InvokeMoves ==
    ASSUME WaitInv, CaptureInv, TypesInv, ShownInv', NEW t \in Tasks,
           at[t] \in {"free", "sleep"}, NEW p \in Commands, NEW v, Invoke(t, p, v),
           v \in Profiles <=> p \in {"is_admin", "connect_vless"},
           p = "edit" => events' = events + 1,
           events' = events \/ (events < MaxEvents /\ events' = events + 1),
           UNCHANGED <<answer, shell>>
    PROVE  Moves(t, p, v)
  <1>1. answer[t] = "pending" /\ answer' = [answer EXCEPT ![t] = "pending"]
    BY DEF CaptureInv, WaitInv
  <1>2. at[t] \notin Commands /\ t \notin Editing
    BY DEF Commands, Editing
  <1>3. events' \in 0..MaxEvents /\ events <= events'
    BY EventsAssumption DEF TypesInv, EditsInv
  <1>. QED  BY <1>1, <1>2, <1>3 DEF Moves, Invoke, Others, ShownInv

\* A task goes on with an answer: to its next command, to sleep, or it ends.
LEMMA AnswerMoves ==
    ASSUME WaitInv, CaptureInv, TypesInv, ShownInv', NEW t \in Tasks,
           at[t] \in Commands, ~Pending(t),
           answer' = [answer EXCEPT ![t] = "pending"], UNCHANGED <<shell, events>>,
           \/ Return(t)
           \/ AfterStop(t) /\ at[t] = "stop"
           \/ \E p \in Commands \ {"edit", "is_admin"} :
                 Call(t, p) /\ (p = "connect_vless" => at[t] = "is_admin")
    PROVE  \E p, v : Moves(t, p, v)
  <1>1. t \notin Editing /\ Others(t) = Rest(t)
    BY DEF Editing, Pending, Others
  <1>2. events \in 0..MaxEvents /\ events <= events
    BY EventsAssumption DEF TypesInv, EditsInv
  <1>3. url[t] \in Profiles <=> at[t] \in {"is_admin", "connect_vless"}
    BY DEF TypesInv, UrlInv
  <1>4. ASSUME NEW p \in Commands \cup {"free", "sleep"}, p # "edit", NEW v,
               at' = [at EXCEPT ![t] = p], url' = [url EXCEPT ![t] = v],
               v \in Profiles <=> p \in {"is_admin", "connect_vless"},
               calls' = IF p \in Commands THEN Append(Rest(t), t) ELSE Rest(t)
        PROVE  \E q, w : Moves(t, q, w)
    <2>1. Moves(t, p, v)
      BY <1>1, <1>2, <1>4 DEF Moves, ShownInv
    <2>. QED  BY <2>1
  <1>5. CASE Return(t)
    <2>1. "free" \notin Commands
      BY DEF Commands
    <2>. QED  BY <1>4, <1>5, <2>1, ProfilesAssumption DEF Return
  <1>6. CASE AfterStop(t) /\ at[t] = "stop"
    <2>1. "sleep" \notin Commands
      BY DEF Commands
    <2>2. url' = [url EXCEPT ![t] = url[t]] /\ url[t] \notin Profiles
      BY <1>3, <1>6 DEF AfterStop, CaptureInv
    <2>. QED  BY <1>4, <1>6, <2>1, <2>2 DEF AfterStop
  <1>7. ASSUME NEW p \in Commands \ {"edit", "is_admin"}, Call(t, p),
               p = "connect_vless" => at[t] = "is_admin"
        PROVE  \E q, w : Moves(t, q, w)
    <2>1. CASE p = "connect_vless"
      <3>1. url' = [url EXCEPT ![t] = url[t]] /\ url[t] \in Profiles
        BY <1>3, <1>7, <2>1 DEF Call
      <3>. QED  BY <1>4, <1>7, <2>1, <3>1 DEF Call
    <2>2. CASE p # "connect_vless"
      BY <1>4, <1>7, <2>2, ProfilesAssumption DEF Call
    <2>. QED  BY <2>1, <2>2
  <1>. QED  BY <1>5, <1>6, <1>7

\* The pieces of the handlers are such steps.
LEMMA HandlersMove ==
    ASSUME WaitInv, CaptureInv, TypesInv, NEW t \in Tasks,
           Handle(t) \/ Wake(t) \/ PollStatus(t) \/ Deliver(t)
    PROVE  TypesInv'
  <1>1. ShownInv'
    BY ShownStep DEF TypesInv
  <1>2. EditsInv /\ None \notin Profiles /\ selected \in Profiles \cup {None}
    BY ProfilesAssumption DEF TypesInv, CaptureInv
  <1>. SUFFICES \E p, v : Moves(t, p, v)
    BY MovesKeep
  <1>3. CASE Handle(t)
    <2>1. /\ at[t] = "free" /\ UNCHANGED <<answer, shell>>
          /\ events < MaxEvents /\ events' = events + 1
      BY <1>3 DEF Handle, ClickConnect, ClickDisconnect, ChangeRules, SelectProfile, Event
    <2>2. PICK p \in {"is_admin", "disconnect", "edit", "select"},
               v \in Profiles \cup {None} :
                  Invoke(t, p, v) /\ (v \in Profiles <=> p = "is_admin")
      BY <1>2, <1>3 DEF Handle, ClickConnect, ClickDisconnect, ChangeRules,
                        SelectProfile, HandleConnect, HandleDisconnect
    <2>3. p \in Commands /\ p # "connect_vless"
      BY DEF Commands
    <2>4. Moves(t, p, v)
      BY <1>1, <2>1, <2>2, <2>3, InvokeMoves
    <2>. QED  BY <2>4
  <1>4. CASE PollStatus(t)
    <2>1. "poll" \in Commands
      BY DEF Commands
    <2>2. Moves(t, "poll", None)
      BY <1>1, <1>2, <1>4, <2>1, InvokeMoves DEF PollStatus
    <2>. QED  BY <2>2
  <1>5. CASE Wake(t)
    <2>1. at[t] = "sleep" /\ UNCHANGED <<answer, shell, events>>
      BY <1>5 DEF Wake
    <2>2. CASE selected # None /\ HandleConnect(t)
      <3>1. Invoke(t, "is_admin", selected) /\ selected \in Profiles /\ "is_admin" \in Commands
        BY <1>2, <2>2 DEF HandleConnect, Commands
      <3>2. Moves(t, "is_admin", selected)
        BY <1>1, <2>1, <3>1, InvokeMoves
      <3>. QED  BY <3>2
    <2>3. CASE GiveUp(t)
      <3>1. at[t] \notin Commands /\ "free" \notin Commands /\ t \notin Editing
        BY <2>1 DEF Commands, Editing
      <3>2. url' = [url EXCEPT ![t] = url[t]] /\ url[t] \notin Profiles
        BY <2>1, <2>3 DEF GiveUp, CaptureInv, TypesInv, UrlInv
      <3>3. answer' = [answer EXCEPT ![t] = "pending"]
        BY <2>1 DEF CaptureInv, WaitInv
      <3>4. events' \in 0..MaxEvents /\ events <= events'
        BY <1>2, <2>1, EventsAssumption DEF EditsInv
      <3>5. Moves(t, "free", url[t])
        BY <1>1, <2>1, <2>3, <3>1, <3>2, <3>3, <3>4 DEF Moves, GiveUp, Others, ShownInv
      <3>. QED  BY <3>5
    <2>. QED  BY <1>5, <2>2, <2>3 DEF Wake
  <1>6. CASE Deliver(t)
    <2>1. /\ ~Pending(t) /\ Continue(t, answer[t]) /\ UNCHANGED <<shell, events>>
          /\ answer' = [answer EXCEPT ![t] = "pending"]
      BY <1>6 DEF Deliver
    <2>2. at[t] \in Commands
      BY <2>1 DEF Continue, Commands
    <2>3. CASE at[t] = "is_admin"
      <3>1. Return(t) \/ Call(t, "connect_vless")
        BY <2>1, <2>3 DEF Continue, AfterIsAdmin
      <3>. QED  BY <1>1, <2>1, <2>2, <2>3, <3>1, AnswerMoves DEF Commands
    <2>4. CASE at[t] = "stop"
      <3>1. AfterStop(t)
        BY <2>1, <2>4 DEF Continue
      <3>. QED  BY <1>1, <2>1, <2>2, <2>4, <3>1, AnswerMoves
    <2>5. CASE at[t] \notin {"is_admin", "stop"}
      <3>1. \/ Return(t)
            \/ \E p \in {"dns_fix", "get_rules", "recheck", "stop"} : Call(t, p)
        BY <2>1, <2>5 DEF Continue, AfterPoll, AfterConnect, AfterDnsFix, AfterDisconnect,
              AfterEdit, AfterGetRules, AfterSelect, AfterRecheck
      <3>2. \/ Return(t)
            \/ \E p \in Commands \ {"edit", "is_admin"} : Call(t, p) /\ p # "connect_vless"
        BY <3>1 DEF Commands
      <3>. QED  BY <1>1, <2>1, <2>2, <3>2, AnswerMoves
    <2>. QED  BY <2>3, <2>4, <2>5
  <1>. QED  BY <1>3, <1>4, <1>5, <1>6

\* A command in the shell: an edit that is executed is under way no more, and a
\* start takes its profile from the task and its rules from the memory.
LEMMA ExecuteTypes ==
    ASSUME WaitInv, CaptureInv, TypesInv, NEW t \in Tasks, Execute(t)
    PROVE  TypesInv'
  <1>0. QueueInv /\ UrlInv /\ EngineInv /\ ShownInv /\ EditsInv
    BY DEF TypesInv
  <1>1. /\ UNCHANGED <<at, url, calls, events>> /\ Command(t) /\ answer[t] = "pending"
    BY DEF Execute, page, First, Pending
  <1>2. PICK a \in {"yes", "no"} : answer' = [answer EXCEPT ![t] = a]
    BY <1>1 DEF Command, ConnectVless, StopEngine, EditRules, AskRunning, AnswerAny
  <1>3. QueueInv' /\ UrlInv' /\ ShownInv'
    BY <1>0, <1>1, ShownStep DEF QueueInv, UrlInv
  <1>4. /\ \/ UNCHANGED rules
           \/ at[t] = "edit" /\ rules' = rules + 1
        /\ \/ UNCHANGED engine
           \/ engine' = None
           \/ /\ at[t] = "connect_vless" /\ UNCHANGED rules
              /\ engine' = [profile |-> url[t], rules |-> rules]
    BY <1>1 DEF Command, ConnectVless, StopEngine, EditRules, AskRunning, AnswerAny, shell
  <1>5. rules \in Nat /\ rules' \in Nat /\ rules <= rules'
    BY <1>4 DEF WaitInv
  <1>6. EngineInv'
    <2>1. CASE UNCHANGED engine
      <3>1. \A i \in 0..rules : i \in 0..rules'
        BY <1>5
      <3>2. CASE engine = None
        BY <2>1, <3>2 DEF EngineInv
      <3>3. CASE engine \in [profile : Profiles, rules : 0..rules]
        BY <2>1, <3>1, <3>3 DEF EngineInv
      <3>. QED  BY <1>0, <3>2, <3>3 DEF EngineInv
    <2>2. CASE engine' = None
      BY <2>2 DEF EngineInv
    <2>3. CASE /\ at[t] = "connect_vless" /\ UNCHANGED rules
               /\ engine' = [profile |-> url[t], rules |-> rules]
      <3>1. url[t] \in Profiles /\ rules \in 0..rules'
        BY <1>0, <1>5, <2>3 DEF UrlInv
      <3>. QED  BY <2>3, <3>1 DEF EngineInv
    <2>. QED  BY <1>4, <2>1, <2>2, <2>3
  <1>7. EditsInv'
    <2>1. answer'[t] # "pending" /\ \A u \in Tasks : u # t => answer'[u] = answer[u]
      BY <1>2 DEF WaitInv
    <2>2. Editing' = Editing \ {t}
      BY <1>1, <2>1 DEF Editing
    <2>3. /\ IsFiniteSet(Editing) /\ Cardinality(Editing) \in Nat /\ events \in Nat
          /\ rules + Cardinality(Editing) <= events /\ events' \in 0..MaxEvents
      BY <1>0, <1>1, EventsAssumption, FS_CardinalityType DEF EditsInv
    <2>4. IsFiniteSet(Editing') /\ rules' + Cardinality(Editing') <= events'
      <3>1. CASE t \in Editing
        <4>1. /\ IsFiniteSet(Editing \ {t})
              /\ Cardinality(Editing \ {t}) = Cardinality(Editing) - 1
          BY <2>3, <3>1, FS_RemoveElement
        <4>2. rules' <= rules + 1
          BY <1>4, <1>5
        <4>3. rules' + (Cardinality(Editing) - 1) <= events'
          BY <1>1, <1>5, <2>3, <4>2
        <4>. QED  BY <2>2, <4>1, <4>3
      <3>2. CASE t \notin Editing
        <4>1. Editing' = Editing /\ at[t] # "edit"
          BY <1>1, <2>2, <3>2 DEF Editing
        <4>2. rules' + Cardinality(Editing) <= events'
          BY <1>1, <1>4, <2>3, <4>1
        <4>. QED  BY <2>3, <4>1, <4>2
      <3>. QED  BY <3>1, <3>2
    <2>. QED  BY <2>3, <2>4 DEF EditsInv
  <1>. QED  BY <1>3, <1>6, <1>7 DEF TypesInv

\* The types: as many versions of the rules as edits were made, one request per
\* waiting task, a profile with every start, on its way or done.
THEOREM WindowTypes == Spec => []TypeOK
  <1>1. Init => TypesInv
    <2>. SUFFICES ASSUME Init PROVE TypesInv
      OBVIOUS
    <2>1. QueueInv
      BY EmptySeq DEF Init, QueueInv, Commands
    <2>2. UrlInv /\ EngineInv /\ ShownInv
      BY ProfilesAssumption DEF Init, UrlInv, EngineInv, ShownInv
    <2>3. Editing = {}
      BY DEF Init, Editing
    <2>4. IsFiniteSet({}) /\ Cardinality({}) = 0
      BY FS_EmptySet
    <2>5. EditsInv
      BY <2>3, <2>4, EventsAssumption DEF Init, EditsInv
    <2>. QED  BY <2>1, <2>2, <2>5 DEF TypesInv
  <1>2. WaitInv /\ CaptureInv /\ TypesInv /\ [Next]_vars => TypesInv'
    <2>. SUFFICES ASSUME WaitInv, CaptureInv, TypesInv, [Next]_vars PROVE TypesInv'
      OBVIOUS
    <2>1. ASSUME NEW t \in Tasks, Handle(t) \/ Wake(t) \/ PollStatus(t) \/ Deliver(t)
          PROVE  TypesInv'
      BY <2>1, HandlersMove
    <2>2. ASSUME NEW t \in Tasks, Execute(t) PROVE TypesInv'
      BY <2>2, ExecuteTypes
    <2>3. CASE SaveProfiles \/ Crash \/ UNCHANGED vars
      <3>1. UNCHANGED <<at, url, calls, answer, rules>> /\ engine' \in {engine, None}
        BY <2>3 DEF SaveProfiles, Crash, vars, tasks, shell, page
      <3>2. events' = events \/ (events < MaxEvents /\ events' = events + 1)
        BY <2>3 DEF SaveProfiles, Crash, vars
      <3>3. QueueInv' /\ UrlInv' /\ EngineInv'
        BY <3>1 DEF TypesInv, QueueInv, UrlInv, EngineInv
      <3>4. ShownInv'
        <4>1. SaveProfiles => ShownInv'
          BY DEF SaveProfiles, RenderProfiles, TypesInv, ShownInv
        <4>2. Crash \/ UNCHANGED vars => ShownInv'
          BY DEF Crash, vars, page, history, TypesInv, ShownInv
        <4>. QED  BY <2>3, <4>1, <4>2
      <3>5. Editing' = Editing
        BY <3>1 DEF Editing
      <3>6. /\ IsFiniteSet(Editing) /\ Cardinality(Editing) \in Nat /\ rules \in Nat
            /\ rules + Cardinality(Editing) <= events /\ events \in 0..MaxEvents
        BY FS_CardinalityType DEF TypesInv, EditsInv, WaitInv
      <3>7. rules' + Cardinality(Editing) <= events' /\ events' \in 0..MaxEvents
        BY <3>1, <3>2, <3>6, EventsAssumption
      <3>8. EditsInv'
        BY <3>5, <3>6, <3>7 DEF EditsInv
      <3>. QED  BY <3>3, <3>4, <3>8 DEF TypesInv
    <2>. QED  BY <2>1, <2>2, <2>3 DEF Next, Tasks
  <1>3. WaitInv /\ CaptureInv /\ TypesInv => TypeOK
    <2>. SUFFICES ASSUME WaitInv, CaptureInv, TypesInv PROVE TypeOK
      OBVIOUS
    <2>1. rules \in 0..MaxEvents /\ acked \in 0..rules /\ events \in 0..MaxEvents
      <3>1. /\ Cardinality(Editing) \in Nat /\ rules \in Nat /\ events \in 0..MaxEvents
            /\ rules + Cardinality(Editing) <= events
        BY FS_CardinalityType DEF TypesInv, EditsInv, WaitInv
      <3>. QED  BY <3>1, EventsAssumption DEF WaitInv
    <2>. QED
      BY <2>1 DEF TypesInv, TypeOK, WaitInv, CaptureInv, QueueInv, UrlInv, EngineInv,
                  ShownInv
  <1>. QED  BY <1>1, <1>2, <1>3, WindowInvariant, FollowInvariant, PTL
            DEF Spec, IInv, FollowInv

-----------------------------------------------------------------------------
(* The order of the awaits of a handler.                                   *)

\* The awaits in the order in which a handler passes them: a change, the look
\* for an engine, the stop, the pause, the connect; a click takes part of them.
Places == [edit |-> 1, select |-> 1, get_rules |-> 2, recheck |-> 3, stop |-> 4,
           sleep |-> 5, is_admin |-> 6, connect_vless |-> 7, dns_fix |-> 8,
           disconnect |-> 8, poll |-> 8, free |-> 9]

Onward(t) == at'[t] = at[t] \/ Places[at'[t]] > Places[at[t]]

\* No handler goes back: a reconnect does not start another one, and it is over
\* after at most eight answers, however the handlers of other clicks interleave
\* with it.  With the fairness of the shell and of timers this ends every handler.
HandlersAdvance == [][\A t \in Tasks : at[t] # "free" => Onward(t)]_vars

\* HandlersAdvance, for any number of handlers (main.js:326-437, 556-569,
\* 866-872).
THEOREM HandlersAdvanceAlways == Spec => HandlersAdvance
  <1>1. ASSUME WaitInv, [Next]_vars, NEW t \in Tasks, at[t] # "free"
        PROVE  Onward(t)
    <2>1. ASSUME NEW u \in Tasks, NEW p, at' = [at EXCEPT ![u] = p],
                 at[u] = "free" \/ Places[p] > Places[at[u]]
          PROVE  Onward(t)
      <3>1. at'[t] = IF t = u THEN p ELSE at[t]
        BY <1>1, <2>1 DEF WaitInv
      <3>. QED  BY <1>1, <2>1, <3>1 DEF Onward
    <2>2. ASSUME NEW u \in Handlers, Handle(u) PROVE Onward(t)
      <3>1. at[u] = "free" /\ u \in Tasks /\ \E p : at' = [at EXCEPT ![u] = p]
        BY <2>2 DEF Handle, ClickConnect, ClickDisconnect, ChangeRules, SelectProfile,
                    HandleConnect, HandleDisconnect, Invoke, Event, Tasks
      <3>. QED  BY <2>1, <3>1
    <2>3. ASSUME NEW u \in Handlers, Wake(u) PROVE Onward(t)
      <3>1. /\ at[u] = "sleep" /\ u \in Tasks
            /\ \E p \in {"is_admin", "free"} : at' = [at EXCEPT ![u] = p]
        BY <2>3 DEF Wake, HandleConnect, Invoke, GiveUp, Tasks
      <3>2. \A p \in {"is_admin", "free"} : Places[p] > Places["sleep"]
        BY DEF Places
      <3>. QED  BY <2>1, <3>1, <3>2
    <2>4. ASSUME NEW u \in Polls, PollStatus(u) PROVE Onward(t)
      <3>1. at[u] = "free" /\ u \in Tasks /\ at' = [at EXCEPT ![u] = "poll"]
        BY <2>4 DEF PollStatus, Invoke, Tasks
      <3>. QED  BY <2>1, <3>1
    <2>5. ASSUME NEW u \in Tasks, Deliver(u) PROVE Onward(t)
      <3>1. Continue(u, answer[u])
        BY <2>5 DEF Deliver
      <3>2. PICK p \in Commands \cup {"free", "sleep"} : at' = [at EXCEPT ![u] = p]
        BY <3>1 DEF Continue, AfterPoll, AfterIsAdmin, AfterConnect, AfterDnsFix,
              AfterDisconnect, AfterEdit, AfterGetRules, AfterSelect, AfterRecheck,
              AfterStop, Return, Call, Commands
      <3>3. at[u] \in Commands /\ at'[u] = p
        BY <1>1, <3>1, <3>2 DEF Continue, Commands, WaitInv
      <3>4. \/ at'[u] = "free"
            \/ at[u] = "is_admin" /\ at'[u] = "connect_vless"
            \/ at[u] = "connect_vless" /\ at'[u] = "dns_fix"
            \/ at[u] = "edit" /\ at'[u] = "get_rules"
            \/ at[u] \in {"get_rules", "select"} /\ at'[u] = "recheck"
            \/ at[u] = "recheck" /\ at'[u] = "stop"
            \/ at[u] = "stop" /\ at'[u] = "sleep"
        BY <1>1, <3>1 DEF Continue, AfterPoll, AfterIsAdmin, AfterConnect, AfterDnsFix,
              AfterDisconnect, AfterEdit, AfterGetRules, AfterSelect, AfterRecheck,
              AfterStop, Return, Call, WaitInv
      <3>5. Places[p] > Places[at[u]]
        BY <3>3, <3>4 DEF Places, Commands
      <3>. QED  BY <2>1, <3>2, <3>5
    <2>6. CASE UNCHANGED at
      BY <2>6 DEF Onward
    <2>7. (\E u \in Tasks : Execute(u)) \/ SaveProfiles \/ Crash \/ UNCHANGED vars
             => UNCHANGED at
      BY DEF Execute, SaveProfiles, Crash, vars, page, tasks
    <2>. QED  BY <1>1, <2>2, <2>3, <2>4, <2>5, <2>6, <2>7 DEF Next
  <1>2. WaitInv /\ [Next]_vars => \A t \in Tasks : at[t] # "free" => Onward(t)
    BY <1>1
  <1>. QED  BY <1>2, WindowInvariant, PTL DEF Spec, IInv, HandlersAdvance

=============================================================================
