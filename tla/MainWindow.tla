----------------------------- MODULE MainWindow -----------------------------
(***************************************************************************)
(* The main window (main.js): connecting, disconnecting, the status poll,  *)
(* the saved profiles and the reconnect that follows a change of rules or  *)
(* of the profile selected.                                                *)
(*                                                                         *)
(* A handler is an async function: it runs to its next await, and other    *)
(* handlers run before it goes on.  A task is one running handler; at[t]   *)
(* is the await it stands at.  The commands it awaits run one at a time on *)
(* the shell's main thread.  The engine is what SingBoxManager keeps; here *)
(* it is the profile and the version of the rules it was started with.     *)
(***************************************************************************)
EXTENDS Naturals, Sequences

CONSTANTS
    Profiles,       \* what a saved profile may say: its URL
    None,           \* no engine, no profile captured or selected
    Handlers,       \* tasks for clicks and changes
    Polls,          \* tasks for the status poll
    MaxEvents,      \* bound: clicks, changes, edits, profiles saved and crashes
    InOrder         \* are commands executed and answered in request order?

ASSUME ProfilesAssumption == Profiles # {} /\ None \notin Profiles
ASSUME TasksAssumption == Handlers \cap Polls = {}
ASSUME EventsAssumption == MaxEvents \in Nat /\ InOrder \in BOOLEAN

VARIABLES
    \* the page
    selected,       \* the profile selected, or None when none is saved
    textOn,         \* does the status say "connected"? (else "disconnected")
    canConnect, canDisconnect,      \* the two buttons
    panel,          \* is the "protected" panel shown?
    at, url,        \* of each task: where it stands, the profile it captured
    \* requests under way
    calls,          \* tasks awaiting a command, in request order
    answer,         \* of each task: what the command returned
    \* the shell
    engine,         \* what the running engine was started with, or None
    rules,          \* version of the routing rules in memory
    acked,          \* last version whose change was answered with success
    events,         \* number of events so far
    \* history
    unfollowed,     \* was the present choice of profile made where no reconnect
                    \* can follow it?
    off             \* was the engine disconnected with no start under way, and
                    \* "connect" not clicked since?

status == <<textOn, canConnect, canDisconnect>>
tasks  == <<at, url>>
page   == <<selected, textOn, canConnect, canDisconnect, panel, at, url>>
shell  == <<engine, rules, acked>>
history == <<unfollowed, off>>
vars == <<selected, textOn, canConnect, canDisconnect, panel, at, url, calls,
          answer, engine, rules, acked, events, unfollowed, off>>

Tasks == Handlers \cup Polls
Running == engine # None

Init ==
    /\ selected \in Profiles \cup {None}
    /\ textOn = FALSE /\ canConnect = (selected # None) /\ canDisconnect = FALSE
    /\ panel = FALSE
    /\ at = [t \in Tasks |-> "free"]
    /\ url = [t \in Tasks |-> None]
    /\ calls = <<>> /\ answer = [t \in Tasks |-> "pending"]
    /\ engine = None /\ rules = 0 /\ acked = 0 /\ events = 0
    /\ unfollowed = FALSE /\ off = FALSE

-----------------------------------------------------------------------------
(* The shell: the commands, each atomic.                                   *)

\* connect_vless fails before it stops the old engine (a bad URL) or after
\* (a file, the spawn), or replaces it; the rules are read when it runs.
ConnectVless(t) ==
    /\ UNCHANGED <<rules, acked>>
    /\ \/ engine' = [profile |-> url[t], rules |-> rules]
          /\ answer' = [answer EXCEPT ![t] = "yes"]
       \/ engine' \in {engine, None}
          /\ answer' = [answer EXCEPT ![t] = "no"]

StopEngine(t) ==
    /\ engine' = None
    /\ answer' = [answer EXCEPT ![t] = "yes"]
    /\ UNCHANGED <<rules, acked>>

\* The list changes in memory and is then saved; a failed save leaves the
\* change in memory but answers with an error.  A duplicate or an unknown
\* entry changes nothing.
EditRules(t) ==
    /\ \/ /\ rules' = rules + 1
          /\ \/ acked' = rules' /\ answer' = [answer EXCEPT ![t] = "yes"]
             \/ UNCHANGED acked /\ answer' = [answer EXCEPT ![t] = "no"]
       \/ UNCHANGED <<rules, acked>> /\ answer' = [answer EXCEPT ![t] = "no"]
    /\ UNCHANGED engine

AskRunning(t) ==
    /\ answer' = [answer EXCEPT ![t] = IF Running THEN "yes" ELSE "no"]
    /\ UNCHANGED shell

AnswerAny(t) ==
    /\ \E a \in {"yes", "no"} : answer' = [answer EXCEPT ![t] = a]
    /\ UNCHANGED shell

Command(t) ==
    \/ at[t] = "connect_vless" /\ ConnectVless(t)
    \/ at[t] \in {"disconnect", "stop"} /\ StopEngine(t)
    \/ at[t] = "edit" /\ EditRules(t)
    \/ at[t] \in {"poll", "select", "recheck"} /\ AskRunning(t)
    \/ at[t] \in {"is_admin", "dns_fix", "get_rules"} /\ AnswerAny(t)

\* The first request in the order in which they were made that P holds of.
First(t, P(_)) ==
    \E i \in DOMAIN calls :
        /\ calls[i] = t /\ P(t)
        /\ InOrder => \A j \in 1..(i - 1) : ~P(calls[j])

Pending(t) == answer[t] = "pending"

\* A start with a profile that is no longer the one selected is under way.
OldStart == \E t \in Tasks : url[t] \notin {None, selected}

\* The reconnect of t finds no engine, or stops it, and will not look again.
LastLook(t) ==
    \/ at[t] = "stop"
    \/ at[t] \in {"select", "recheck"} /\ ~Running

\* Task t will start the engine without looking at it again: a reconnect that
\* has found it running, or a start under way.
Restarts(t) ==
    \/ at[t] = "recheck" /\ answer[t] = "yes"
    \/ at[t] \in {"stop", "sleep"}
    \/ at[t] = "is_admin" /\ answer[t] # "no"
    \/ at[t] = "connect_vless" /\ answer[t] = "pending"

Execute(t) ==
    /\ First(t, Pending)
    /\ Command(t)
    /\ unfollowed' = (unfollowed \/ (LastLook(t) /\ OldStart))
    /\ off' = (off \/ (at[t] = "disconnect" /\ \A s \in Tasks : ~Restarts(s)))
    /\ UNCHANGED <<page, calls, events>>

\* The engine exits by itself; from here on is_connected answers no.
Crash ==
    /\ Running
    /\ events < MaxEvents /\ events' = events + 1
    /\ engine' = None
    /\ UNCHANGED <<page, calls, answer, rules, acked, history>>

-----------------------------------------------------------------------------
(* The page: pieces of handlers between two awaits.                        *)

\* Task t, which awaits nothing, invokes a command and awaits it.
Invoke(t, command, profile) ==
    /\ at' = [at EXCEPT ![t] = command]
    /\ url' = [url EXCEPT ![t] = profile]
    /\ calls' = Append(calls, t)

SetConnected == textOn' = TRUE /\ canConnect' = FALSE /\ canDisconnect' = TRUE

SetConnecting == textOn' = TRUE /\ canConnect' = FALSE /\ canDisconnect' = FALSE

SetDisconnected ==
    /\ textOn' = FALSE /\ canConnect' = TRUE /\ canDisconnect' = FALSE
    /\ panel' = FALSE

\* Mutant: the profile is not read before the first await.
HandleConnectBlind(t) ==
    /\ Invoke(t, "is_admin", None)
    /\ UNCHANGED <<status, panel>>

HandleConnect(t) ==
    /\ Invoke(t, "is_admin", selected)
    /\ UNCHANGED <<status, panel>>

HandleDisconnect(t, command) ==
    /\ Invoke(t, command, None)
    /\ textOn' = FALSE /\ canDisconnect' = FALSE
    /\ UNCHANGED <<canConnect, panel>>

Event(t) ==
    /\ at[t] = "free"
    /\ events < MaxEvents /\ events' = events + 1
    /\ UNCHANGED <<answer, shell>>

ClickConnect(t) ==
    /\ Event(t)
    /\ canConnect /\ selected # None
    /\ HandleConnect(t)
    /\ off' = FALSE
    /\ UNCHANGED <<selected, unfollowed>>

ClickDisconnect(t) ==
    /\ Event(t)
    /\ canDisconnect
    /\ HandleDisconnect(t, "disconnect")
    /\ UNCHANGED <<selected, history>>

\* One change of the rules: the mode, an entry, a preset, undo or redo.
ChangeRules(t) ==
    /\ Event(t)
    /\ Invoke(t, "edit", None)
    /\ UNCHANGED <<selected, status, panel, history>>

SelectProfile(t) ==
    /\ Event(t)
    /\ selected # None
    /\ \E p \in Profiles \ {selected} : selected' = p
    /\ unfollowed' = FALSE
    /\ Invoke(t, "select", None)
    /\ UNCHANGED <<status, panel, off>>

\* The list is drawn again: nothing to connect with, or, at rest, a button.
RenderProfiles ==
    /\ canConnect' = (selected' # None /\ (canConnect \/ ~textOn))
    /\ UNCHANGED <<textOn, canDisconnect, panel>>

\* A profile is added (and selected if it is the first), the one selected is
\* edited, or it is deleted and the first of the others takes its place.  No
\* handler goes on to reconnect.
SaveProfiles ==
    /\ events < MaxEvents /\ events' = events + 1
    /\ \/ selected = None /\ selected' \in Profiles
       \/ selected # None /\ selected' \in Profiles \cup {None}
    /\ unfollowed' = (unfollowed \/ selected' # selected)
    /\ RenderProfiles
    /\ UNCHANGED <<tasks, calls, answer, shell, off>>

PollStatus(t) ==
    /\ at[t] = "free"
    /\ Invoke(t, "poll", None)
    /\ UNCHANGED <<selected, status, panel, answer, shell, events, history>>

-----------------------------------------------------------------------------
(* The continuation of each await, with the answer a.                      *)

\* The requests under way but for the one of t.
Rest(t) ==
    LET i == CHOOSE k \in DOMAIN calls : calls[k] = t
    IN  SubSeq(calls, 1, i - 1) \o SubSeq(calls, i + 1, Len(calls))

\* The handler returns.
Return(t) ==
    /\ at' = [at EXCEPT ![t] = "free"]
    /\ calls' = Rest(t)
    /\ url' = [url EXCEPT ![t] = None]

\* The handler goes on to its next command; only connect_vless takes the
\* captured profile.
Call(t, command) ==
    /\ at' = [at EXCEPT ![t] = command]
    /\ calls' = Append(Rest(t), t)
    /\ url' = [url EXCEPT ![t] = IF command = "connect_vless" THEN @ ELSE None]

\* Mutant: the poll only ever switches the status on.
AfterPollOn(t, a) ==
    /\ Return(t)
    /\ IF a = "yes" /\ ~textOn THEN SetConnected /\ UNCHANGED panel
                               ELSE UNCHANGED <<status, panel>>

AfterPoll(t, a) ==
    /\ Return(t)
    /\ \/ a = "yes" /\ ~textOn /\ SetConnected /\ UNCHANGED panel
       \/ a = "no" /\ textOn /\ SetDisconnected
       \/ (a = "yes") = textOn /\ UNCHANGED <<status, panel>>

AfterIsAdmin(t, a) ==
    /\ UNCHANGED panel
    /\ \/ a = "yes" /\ SetConnecting /\ Call(t, "connect_vless")
       \/ a = "no" /\ UNCHANGED status /\ Return(t)

\* The DNS fix is applied unless local storage says it was.
AfterConnect(t, a) ==
    \/ /\ a = "yes"
       /\ SetConnected
       /\ \/ Call(t, "dns_fix") /\ UNCHANGED panel
          \/ Return(t) /\ panel' = TRUE
    \/ a = "no" /\ SetDisconnected /\ Return(t)

AfterDnsFix(t) == Return(t) /\ panel' = TRUE /\ UNCHANGED status

AfterDisconnect(t) == Return(t) /\ SetDisconnected

\* Mutant: the reconnect is skipped when the page says "disconnected".
AfterEditByText(t, a) ==
    /\ UNCHANGED <<status, panel>>
    /\ IF a = "yes" /\ textOn THEN Call(t, "get_rules") ELSE Return(t)

AfterEdit(t, a) ==
    /\ UNCHANGED <<status, panel>>
    /\ IF a = "yes" THEN Call(t, "get_rules") ELSE Return(t)

\* Mutant: the reconnect goes by the answer it had before the edit was saved.
AfterGetRulesSure(t) == Call(t, "stop") /\ UNCHANGED <<status, panel>>

AfterGetRules(t) == Call(t, "recheck") /\ UNCHANGED <<status, panel>>

\* Mutant: a change of profile goes by the status text.
AfterSelectByText(t, a) ==
    /\ UNCHANGED <<status, panel>>
    /\ IF a = "yes" /\ textOn THEN Call(t, "recheck") ELSE Return(t)

AfterSelect(t, a) ==
    /\ UNCHANGED <<status, panel>>
    /\ IF a = "yes" THEN Call(t, "recheck") ELSE Return(t)

\* autoReconnect: a running engine is stopped, then started again.
AfterRecheck(t, a) ==
    \/ /\ a = "yes"
       /\ Call(t, "stop")
       /\ textOn' = FALSE /\ canDisconnect' = FALSE
       /\ UNCHANGED <<canConnect, panel>>
    \/ a = "no" /\ Return(t) /\ UNCHANGED <<status, panel>>

AfterStop(t) ==
    /\ SetDisconnected
    /\ at' = [at EXCEPT ![t] = "sleep"]
    /\ calls' = Rest(t)
    /\ UNCHANGED url

Continue(t, a) ==
    \/ at[t] = "poll" /\ AfterPoll(t, a)
    \/ at[t] = "is_admin" /\ AfterIsAdmin(t, a)
    \/ at[t] = "connect_vless" /\ AfterConnect(t, a)
    \/ at[t] = "dns_fix" /\ AfterDnsFix(t)
    \/ at[t] = "disconnect" /\ AfterDisconnect(t)
    \/ at[t] = "edit" /\ AfterEdit(t, a)
    \/ at[t] = "get_rules" /\ AfterGetRules(t)
    \/ at[t] = "select" /\ AfterSelect(t, a)
    \/ at[t] = "recheck" /\ AfterRecheck(t, a)
    \/ at[t] = "stop" /\ AfterStop(t)

Waiting(t) == TRUE

Deliver(t) ==
    /\ ~Pending(t)
    /\ First(t, Waiting)
    /\ Continue(t, answer[t])
    /\ answer' = [answer EXCEPT ![t] = "pending"]
    /\ UNCHANGED <<selected, shell, events, history>>

\* The handler ends without a request.
GiveUp(t) ==
    /\ at' = [at EXCEPT ![t] = "free"]
    /\ UNCHANGED <<status, panel, url, calls>>

\* Mutant: the reconnect gives up when the engine is not there any more.
WakeIfOn(t) ==
    /\ at[t] = "sleep"
    /\ IF textOn /\ selected # None THEN HandleConnect(t) ELSE GiveUp(t)
    /\ UNCHANGED <<selected, answer, shell, events, history>>

\* One and a half seconds after the stop.
Wake(t) ==
    /\ at[t] = "sleep"
    /\ \/ selected # None /\ HandleConnect(t)
       \/ selected = None /\ GiveUp(t)
    /\ UNCHANGED <<selected, answer, shell, events, history>>

-----------------------------------------------------------------------------
Handle(t) ==
    ClickConnect(t) \/ ClickDisconnect(t) \/ ChangeRules(t) \/ SelectProfile(t)

Next ==
    \/ \E t \in Handlers : Handle(t) \/ Wake(t)
    \/ \E t \in Polls : PollStatus(t)
    \/ \E t \in Tasks : Execute(t) \/ Deliver(t)
    \/ SaveProfiles
    \/ Crash

Spec == Init /\ [][Next]_vars

\* Requests are executed and answered, timers fire; the user owes nothing.
Fairness ==
    /\ \A t \in Tasks : WF_vars(Execute(t)) /\ WF_vars(Deliver(t))
    /\ \A t \in Handlers : WF_vars(Wake(t))
    /\ \A t \in Polls : WF_vars(PollStatus(t))

FairSpec == Spec /\ Fairness

-----------------------------------------------------------------------------
(* Properties.                                                             *)

Commands == {"poll", "is_admin", "connect_vless", "dns_fix", "disconnect",
             "edit", "get_rules", "select", "recheck", "stop"}

TypeOK ==
    /\ selected \in Profiles \cup {None}
    /\ {textOn, canConnect, canDisconnect, panel, unfollowed, off} \subseteq BOOLEAN
    /\ at \in [Tasks -> Commands \cup {"free", "sleep"}]
    /\ url \in [Tasks -> Profiles \cup {None}]
    /\ \A i, j \in DOMAIN calls : calls[i] = calls[j] => i = j
    /\ \A t \in Tasks :
          at[t] \in Commands <=> \E i \in DOMAIN calls : calls[i] = t
    /\ answer \in [Tasks -> {"pending", "yes", "no"}]
    /\ engine \in [profile : Profiles, rules : 0..rules] \cup {None}
    /\ \A t \in Tasks :
          at[t] \in {"is_admin", "connect_vless"} <=> url[t] \in Profiles
    /\ rules \in 0..MaxEvents /\ acked \in 0..rules /\ events \in 0..MaxEvents

\* A task that will still stop the engine, unless it finds it stopped.
OwesReconnect(t) ==
    \/ at[t] = "edit" /\ answer[t] = "yes"
    \/ at[t] = "get_rules"
    \/ at[t] = "recheck" /\ answer[t] # "no"
    \/ at[t] = "stop" /\ answer[t] = "pending"

\* The engine runs with rules older than the last change the user was told of.
Stale == Running /\ engine.rules < acked

\* Whenever it does, a handler is on its way to restart it: no order of clicks,
\* edits and replies leaves it with rules that were changed under it.
RulesFresh == Stale => \E t \in Handlers : OwesReconnect(t)

\* A task of a change of profile, or any reconnect, that will still stop the
\* engine, unless it finds it stopped.
OwesProfile(t) ==
    \/ at[t] \in {"select", "recheck"} /\ answer[t] # "no"
    \/ at[t] = "stop" /\ answer[t] = "pending"

\* The engine runs with a profile that is not the one selected.
OtherProfile == Running /\ engine.profile # selected

\* Whenever it does, a handler is on its way to restart it, unless the profile
\* changed where no reconnect can follow: it was edited or deleted (main.js:227,
\* main.js:251), or the last look for an engine came before a start with the old
\* profile that was already under way (main.js:354).
ProfileFollows ==
    OtherProfile => unfollowed \/ \E t \in Handlers : OwesProfile(t)

\* Old rules do not stay in force.
RulesApplied == Stale ~> ~Stale

\* The user's "disconnect" lasts: once it has stopped the engine nothing but a
\* click on "connect" starts it again, whatever is edited or selected and however
\* the replies come - unless a handler was already past its last look at the
\* engine when the stop was done (main.js:558): that one undoes the disconnect.
DisconnectHolds == off => ~Running

\* Task t has told the user that there will be no start, or cannot ask for one.
ToldNoStart(t) ==
    \/ at[t] \in {"is_admin", "connect_vless"} /\ answer[t] = "no"
    \/ at[t] = "sleep" /\ selected = None

\* A reconnect that has stopped the engine ends with the engine running, or with
\* the user told why not: it is never left stopped because of what other
\* handlers, polls and crashes did to the status and the buttons meanwhile.
ReconnectCompletes ==
    \A t \in Handlers :
        (at[t] = "stop" /\ answer[t] = "yes") ~> (Running \/ ToldNoStart(t))

\* Once the engine stays up the page says so and lets the user disconnect;
\* once it stays down the page says so and lets the user connect, however
\* late and in whatever order replies arrive, if there is a profile to use.
StatusConverges ==
    /\ <>[]Running => <>[](textOn /\ canDisconnect)
    /\ <>[]~Running => <>[](~textOn /\ (canConnect \/ selected = None))

-----------------------------------------------------------------------------
(* What the page says and the code does not keep.                          *)

\* index.html:124: the panel's constant text is "protected".  It is not left
\* on when the status says disconnected, the engine is down and no handler is
\* running.
PanelHonest ==
    panel /\ ~textOn /\ ~Running => \E t \in Tasks : at[t] # "free"
=============================================================================
