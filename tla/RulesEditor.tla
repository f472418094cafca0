---------------------------- MODULE RulesEditor ----------------------------
(***************************************************************************)
(* The rules editor of the main window (main.js): its copy of the rules,   *)
(* the undo and redo stacks, and the handlers that change the rules by     *)
(* commands of the shell.  A handler runs to its next await; others run    *)
(* before it goes on.  The reconnect at the end of a handler touches no    *)
(* rules and is part of MainWindow.                                        *)
(*                                                                         *)
(* The rules are one set: the entries of the lists, and RuleMode when the  *)
(* mode is "rule".  Commands run one at a time on the shell's main thread  *)
(* in the order of the requests, and are answered in that order.           *)
(*                                                                         *)
(* A behaviour starts when the page has loaded: its copy is blank, the     *)
(* shell has the rules of its file, and nobody awaits the first read.      *)
(***************************************************************************)
EXTENDS Naturals, Sequences, SequencesExt

CONSTANTS
    Domains, Geos,  \* entries of two lists
    RuleMode,       \* stands for routing_mode = "rule"
    Stored,         \* the lists the shell may start with
    Handlers,       \* tasks for clicks, keys and pasted text
    Depth,          \* bound of the undo stack (50 in the code)
    MaxEvents       \* bound: number of handlers started

ASSUME EntriesAssumption == Domains \cap Geos = {} /\ RuleMode \notin Domains \cup Geos
ASSUME StoredAssumption == Stored \subseteq SUBSET (Domains \cup Geos \cup {RuleMode})
ASSUME BoundsAssumption == Depth \in Nat \ {0} /\ MaxEvents \in Nat

VARIABLES
    \* the page
    currentRules,           \* its copy of the rules
    undoStack, redoStack,
    at,                     \* of each handler: the await it stands at
    op,                     \* of each handler: what it is about
    \* requests under way
    calls, replies,         \* handlers awaiting execution; answers to deliver
    \* the shell
    rules,
    events,
    \* history
    held,                   \* every list the shell has had
    touched,                \* of each running handler: entries it changed
    unseen,                 \* entries that no answer has told of: changed by a command
                            \* that failed, or not read yet since the start
    alone,                  \* no two handlers have overlapped, no save failed
    loaded,                 \* the page has been given the shell's list
    early                   \* it kept its copy for undo or redo before that

stacks == <<undoStack, redoStack>>
page == <<currentRules, undoStack, redoStack, at, op>>
startup == <<loaded, early>>
history == <<held, touched, unseen, alone, loaded, early>>
vars == <<currentRules, undoStack, redoStack, at, op, calls, replies, rules,
          events, held, touched, unseen, alone, loaded, early>>

\* The page before its first read: mode "global", no lists.
Blank == {}

Entries == Domains \cup Geos \cup {RuleMode}
Lists == SUBSET Entries
Edits == {"add", "remove"}
NoOp == [kind |-> "none", todo |-> <<>>, added |-> FALSE, list |-> {}]

\* The shell has loaded its rules, the first loadRoutingRules is on its way.
Init ==
    /\ currentRules = Blank /\ rules \in Stored
    /\ undoStack = <<>> /\ redoStack = <<>>
    /\ \E h \in Handlers :
           /\ at = [g \in Handlers |-> IF g = h THEN "get" ELSE "free"]
           /\ calls = <<h>>
    /\ op = [h \in Handlers |-> NoOp]
    /\ replies = <<>> /\ events = 0
    /\ held = {rules} /\ touched = [h \in Handlers |-> {}]
    /\ unseen = rules /\ alone = TRUE
    /\ loaded = FALSE /\ early = FALSE

-----------------------------------------------------------------------------
(* The shell.                                                              *)

Reply(h, ok, list) == [to |-> h, ok |-> ok, list |-> list]

\* The list changes in memory and is then saved.  A save that fails is
\* answered with an error and leaves the change in memory.
Change(h, list) ==
    /\ rules' = list
    /\ held' = held \cup {list}
    /\ UNCHANGED startup
    /\ LET changed == {e \in Entries : (e \in rules) # (e \in list)} IN
           \/ /\ replies' = Append(replies, Reply(h, TRUE, list))
              /\ touched' = [touched EXCEPT ![h] = @ \cup changed]
              /\ UNCHANGED <<unseen, alone>>
           \/ /\ replies' = Append(replies, Reply(h, FALSE, list))
              /\ unseen' = unseen \cup changed
              /\ alone' = FALSE
              /\ UNCHANGED touched

Refuse(h) ==
    /\ replies' = Append(replies, Reply(h, FALSE, rules))
    /\ UNCHANGED <<rules, history>>

GetRoutingRules(h) ==
    /\ replies' = Append(replies, Reply(h, TRUE, rules))
    /\ touched' = [touched EXCEPT ![h] = @ \cup unseen]
    /\ unseen' = {}
    /\ UNCHANGED <<rules, held, alone, startup>>

\* add_domain_rule, add_geo_rule, add_process_rule refuse what is in the list.
AddRule(h, e) ==
    IF e \in rules THEN Refuse(h) ELSE Change(h, rules \cup {e})

RemoveRule(h, e) == Change(h, rules \ {e})

SetRoutingMode(h, m) == Change(h, (rules \ {RuleMode}) \cup m)

Command(h) ==
    CASE at[h] = "add"     -> AddRule(h, Head(op[h].todo))
      [] at[h] = "remove"  -> RemoveRule(h, Head(op[h].todo))
      [] at[h] = "mode"    -> SetRoutingMode(h, op[h].list)
      [] at[h] = "set_all" -> Change(h, op[h].list)
      [] at[h] = "get"     -> GetRoutingRules(h)

Execute ==
    /\ calls # <<>>
    /\ Command(Head(calls))
    /\ calls' = Tail(calls)
    /\ UNCHANGED <<page, events>>

-----------------------------------------------------------------------------
(* The handlers.                                                           *)

Invoke(h, command) ==
    /\ at' = [at EXCEPT ![h] = command]
    /\ calls' = Append(calls, h)

Busy == {h \in Handlers : at[h] # "free"}

Begin(h) ==
    /\ at[h] = "free"
    /\ events < MaxEvents /\ events' = events + 1
    /\ alone' = (alone /\ Busy = {})
    /\ UNCHANGED loaded

\* Mutant: the oldest list is never dropped.
KeepAll(stack, list) == Append(stack, list)

Keep(stack, list) ==
    IF Len(stack) = Depth THEN Append(Tail(stack), list) ELSE Append(stack, list)

\* The page's copy is kept, whether it has been read yet or not.
NoteCopy == early' = (early \/ ~loaded)

\* saveHistoryState
SaveHistoryState ==
    /\ undoStack' = Keep(undoStack, currentRules)
    /\ redoStack' = <<>>
    /\ NoteCopy

Pop(stack) == IF stack = <<>> THEN <<>> ELSE Front(stack)

\* addRule, addMultipleRules, a preset or the button of an entry: what is
\* added is typed or pasted, what is removed is on the page.
StartEdit(h, command, todo) ==
    /\ Begin(h)
    /\ SaveHistoryState
    /\ op' = [op EXCEPT ![h] = [NoOp EXCEPT !.kind = "edit", !.todo = todo]]
    /\ Invoke(h, command)
    /\ UNCHANGED <<currentRules, replies, rules, held, touched, unseen>>

AddEntry(h) == \E e \in Domains \cup Geos : StartEdit(h, "add", <<e>>)
ImportEntries(h) == \E e, f \in Domains : StartEdit(h, "add", <<e, f>>)
RemoveEntry(h) == \E e \in currentRules \ {RuleMode} : StartEdit(h, "remove", <<e>>)

\* handleRoutingModeChange: not an edit, the stacks stay.
ChangeMode(h) ==
    /\ Begin(h)
    /\ \E m \in {{}, {RuleMode}} :
           op' = [op EXCEPT ![h] = [NoOp EXCEPT !.kind = "mode", !.list = m]]
    /\ Invoke(h, "mode")
    /\ UNCHANGED <<currentRules, stacks, replies, rules, held, touched, unseen, early>>

\* clearAllRules asks first; the copy it sends is taken after the answer.
AskClear(h) ==
    /\ Begin(h)
    /\ at' = [at EXCEPT ![h] = "confirm"]
    /\ UNCHANGED <<currentRules, stacks, op, calls, replies, rules, held, touched, unseen, early>>

Confirm(h) ==
    /\ at[h] = "confirm"
    /\ \E list \in {Domains, Geos} :
           op' = [op EXCEPT ![h] =
               [NoOp EXCEPT !.kind = "clear", !.list = currentRules \ list]]
    /\ SaveHistoryState
    /\ Invoke(h, "set_all")
    /\ UNCHANGED <<currentRules, replies, rules, events, held, touched, unseen, alone, loaded>>

Cancel(h) ==
    /\ at[h] = "confirm"
    /\ at' = [at EXCEPT ![h] = "free"]
    /\ UNCHANGED <<currentRules, stacks, op, calls, replies, rules, events, history>>

\* handleUndo and handleRedo, then applyState with what was popped.
ApplyState(h, kind, list) ==
    /\ NoteCopy
    /\ op' = [op EXCEPT ![h] = [NoOp EXCEPT !.kind = kind, !.list = list]]
    /\ Invoke(h, "set_all")
    /\ UNCHANGED <<currentRules, replies, rules, held, touched, unseen>>

\* Mutant: the list that is restored is kept for redo, not the one replaced.
UndoTwice(h) ==
    /\ Begin(h)
    /\ undoStack # <<>>
    /\ undoStack' = Front(undoStack)
    /\ redoStack' = Append(redoStack, Last(undoStack))
    /\ ApplyState(h, "undo", Last(undoStack))

Undo(h) ==
    /\ Begin(h)
    /\ undoStack # <<>>
    /\ undoStack' = Front(undoStack)
    /\ redoStack' = Append(redoStack, currentRules)
    /\ ApplyState(h, "undo", Last(undoStack))

Redo(h) ==
    /\ Begin(h)
    /\ redoStack # <<>>
    /\ redoStack' = Front(redoStack)
    /\ undoStack' = Append(undoStack, currentRules)
    /\ ApplyState(h, "redo", Last(redoStack))

-----------------------------------------------------------------------------
(* A handler goes on with the answer.                                      *)

End(h) ==
    /\ at' = [at EXCEPT ![h] = "free"]
    /\ op' = [op EXCEPT ![h] = NoOp]
    /\ touched' = [touched EXCEPT ![h] = {}]
    /\ UNCHANGED calls

Reload(h) == Invoke(h, "get") /\ UNCHANGED <<stacks, op, touched>>

\* The next line of an import, or the end of the edit.  The snapshot that is
\* dropped when nothing was added is the one on top.
AfterEdit(h, ok) ==
    LET added == op[h].added \/ ok
        rest == Tail(op[h].todo) IN
    /\ UNCHANGED <<currentRules, redoStack>>
    /\ IF rest # <<>>
       THEN /\ op' = [op EXCEPT ![h].todo = rest, ![h].added = added]
            /\ Invoke(h, at[h])
            /\ UNCHANGED <<undoStack, touched>>
       ELSE IF added
       THEN Reload(h)
       ELSE undoStack' = Pop(undoStack) /\ End(h)

\* Mutant: the rules are read again after an error only.
AfterChangeTrusting(h, ok) ==
    /\ UNCHANGED currentRules
    /\ IF ok THEN End(h) /\ UNCHANGED stacks ELSE Reload(h)

\* handleRoutingModeChange and applyState.
AfterChange(h, ok) ==
    /\ UNCHANGED currentRules
    /\ IF ok THEN Reload(h) ELSE End(h) /\ UNCHANGED stacks

\* Mutant: what is read is added to what the page has.
AfterGetMerging(h, list) ==
    /\ currentRules' = currentRules \cup list
    /\ End(h)
    /\ UNCHANGED stacks

\* loadRoutingRules
AfterGet(h, list) ==
    /\ currentRules' = list
    /\ End(h)
    /\ UNCHANGED stacks

Deliver ==
    /\ replies # <<>>
    /\ replies' = Tail(replies)
    /\ LET r == Head(replies) IN
           \/ at[r.to] \in Edits /\ AfterEdit(r.to, r.ok)
           \/ at[r.to] \in {"mode", "set_all"} /\ AfterChange(r.to, r.ok)
           \/ at[r.to] = "get" /\ AfterGet(r.to, r.list)
    /\ loaded' = (loaded \/ at[Head(replies).to] = "get")
    /\ UNCHANGED <<rules, events, held, unseen, alone, early>>

Start(h) ==
    \/ AddEntry(h) \/ ImportEntries(h) \/ RemoveEntry(h) \/ ChangeMode(h) \/ AskClear(h)
    \/ Undo(h) \/ Redo(h)

Next ==
    \/ Execute \/ Deliver
    \/ \E h \in Handlers : Start(h) \/ Confirm(h) \/ Cancel(h)

Spec == Init /\ [][Next]_vars
-----------------------------------------------------------------------------
(* Properties.                                                             *)

\* The lists that undo and redo can bring back.
Kept == held \cup {list \in {Blank} : early}

\* Nobody has two requests under way, and nobody one at rest or asking the user.
FlightInv ==
    /\ \A i, j \in DOMAIN calls : calls[i] = calls[j] => i = j
    /\ \A i, j \in DOMAIN replies : replies[i].to = replies[j].to => i = j
    /\ \A i \in DOMAIN calls, j \in DOMAIN replies : calls[i] # replies[j].to
    /\ \A i \in DOMAIN calls : at[calls[i]] \notin {"free", "confirm"}
    /\ \A i \in DOMAIN replies : at[replies[i].to] \notin {"free", "confirm"}

\* Whoever waits has a request that is executed or an answer that is delivered.
WaitInv ==
    \A h \in Handlers :
        \/ at[h] \in {"free", "confirm"}
        \/ \E i \in DOMAIN calls : calls[i] = h
        \/ \E i \in DOMAIN replies : replies[i].to = h

\* What is in memory and under way: the page holds a list that the shell has
\* had, or is blank and has not been answered yet; every answer carries one that
\* the shell has had; undo and redo together never hold more than Depth lists;
\* and a handler has one request under way, or none if it is at rest or asks the
\* user.
TypeOK ==
    /\ held \subseteq Lists /\ rules \in held /\ unseen \in Lists
    /\ currentRules \in held \/ (currentRules = Blank /\ ~loaded)
    /\ undoStack \in Seq(Lists) /\ redoStack \in Seq(Lists)
    /\ Len(undoStack) + Len(redoStack) <= Depth
    /\ at \in [Handlers -> Edits \cup {"free", "confirm", "mode", "set_all", "get"}]
    /\ \A h \in Handlers : op[h].list \in Lists /\ touched[h] \in Lists
    /\ calls \in Seq(Handlers) /\ replies \in Seq([to : Handlers, ok : BOOLEAN, list : held])
    /\ FlightInv /\ WaitInv
    /\ events \in 0..MaxEvents /\ alone \in BOOLEAN
    /\ loaded \in BOOLEAN /\ early \in BOOLEAN

\* The page differs from the shell only in entries that a running handler
\* has changed or is about to show, that a failed command left behind in
\* memory, or that are not read yet: whatever the copy sent by a clear
\* (main.js 756) or a snapshot loses or brings back is an edit whose handler
\* had not ended, or what the blank page of the start did not know of.
PageTracks ==
    \A e \in Entries :
        (e \in rules) # (e \in currentRules) =>
            e \in unseen \cup UNION {touched[h] : h \in Handlers}

\* However handlers overlap and fail, undo and redo restore only lists that
\* the shell has had, though an error may drop a snapshot of another handler.
\* The one exception is the blank page of the start: it is kept only if a
\* handler kept the page's copy before the first answer (main.js 81, 992).
SnapshotsReal ==
    \A i \in DOMAIN (undoStack \o redoStack) : (undoStack \o redoStack)[i] \in Kept

\* Has the change a running handler is about been made?
Applied(h) ==
    \/ at[h] = "get" \/ op[h].added
    \/ \E i \in DOMAIN replies : replies[i].to = h /\ replies[i].ok

Unapplied(kinds) == {h \in Busy : op[h].kind \in kinds /\ ~Applied(h)}

\* The stacks as they were before a change that is not made yet.
Past ==
    IF Unapplied({"edit", "clear", "redo"}) # {} THEN Pop(undoStack)
    ELSE undoStack \o SetToSeq({op[h].list : h \in Unapplied({"undo"})})

Future ==
    IF Unapplied({"undo"}) # {} THEN Pop(redoStack)
    ELSE redoStack \o SetToSeq({op[h].list : h \in Unapplied({"redo"})})

H == INSTANCE EditHistory WITH
         past <- Past, present <- rules, future <- Future

\* As long as handlers do not overlap and saves do not fail, the editor is a
\* history: undo restores the list the last edit replaced, redo the list the
\* last undo replaced, whatever was refused in between.
HistoryWhenAlone == [][alone' => [H!Next]_(H!vars)]_vars
=============================================================================
