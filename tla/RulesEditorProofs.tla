-------------------------- MODULE RulesEditorProofs --------------------------
(***************************************************************************)
(* Theorems about the rules editor, for any handlers, entries and depth of *)
(* the history, however the handlers overlap and whatever commands fail.   *)
(*                                                                         *)
(* A handler has one request under way, which waits either to be executed  *)
(* or to be answered (FlightInv, WaitInv).  What a list that was read      *)
(* misses of the shell's is what later answers have yet to tell (ReadInv): *)
(* that is why the page, which takes the list when the answer comes,       *)
(* differs from the shell only where PageTracks allows.                    *)
(*                                                                         *)
(* While handlers do not overlap, one runs at most, and the page holds the *)
(* shell's list until that one's change is made (AloneInv): so every step  *)
(* is one of EditHistory, whatever the depth of the history.               *)
(***************************************************************************)
EXTENDS RulesEditor, SequenceTheorems, FiniteSetTheorems, TLAPS

-----------------------------------------------------------------------------
(* The stacks as sequences.                                                *)

\* A sequence over a set is one over a larger set.
LEMMA SeqGrows ==
    ASSUME NEW S, NEW T, S \subseteq T, NEW s \in Seq(S)
    PROVE  s \in Seq(T)
  OBVIOUS

\* What Front and Last take from a stack that is not empty.
LEMMA StackEnds ==
    ASSUME NEW S, NEW s \in Seq(S), s # <<>>
    PROVE  Front(s) \in Seq(S) /\ Last(s) \in S /\ Len(Front(s)) = Len(s) - 1
  <1>1. PICK n \in Nat : n = Len(s) - 1 /\ n + 1 = Len(s)
    BY EmptySeq
  <1>2. SubSeq(s, 1, n) \in Seq(S) /\ Len(SubSeq(s, 1, n)) = n
    <2>1. \A i \in 1..n : s[i] \in S
      BY <1>1, ElementOfSeq
    <2>2. Len(SubSeq(s, 1, n)) = IF 1 <= n THEN n - 1 + 1 ELSE 0
      BY <2>1, SubSeqProperties
    <2>. QED  BY <2>1, <2>2, SubSeqProperties
  <1>3. s[n + 1] \in S
    BY <1>1, ElementOfSeq
  <1>. QED  BY <1>1, <1>2, <1>3 DEF Front, Last

\* Dropping the top shortens a stack, or leaves an empty one.
LEMMA PopType ==
    ASSUME NEW S, NEW s \in Seq(S)
    PROVE  Pop(s) \in Seq(S) /\ Len(Pop(s)) <= Len(s)
  BY StackEnds DEF Pop

\* Keeping a list never makes the stack longer than Depth.
LEMMA KeepType ==
    ASSUME NEW S, NEW s \in Seq(S), Len(s) <= Depth, NEW x \in S
    PROVE  Keep(s, x) \in Seq(S) /\ Len(Keep(s, x)) <= Depth
  <1>1. CASE Len(s) = Depth
    <2>1. s # <<>>
      BY <1>1, BoundsAssumption
    <2>2. Tail(s) \in Seq(S) /\ Len(Tail(s)) = Len(s) - 1
      BY <2>1
    <2>. QED  BY <1>1, <2>2, BoundsAssumption DEF Keep
  <1>2. CASE Len(s) # Depth
    BY <1>2, BoundsAssumption DEF Keep
  <1>. QED  BY <1>1, <1>2

-----------------------------------------------------------------------------
(* Types, with what the lists on the page and in the answers can be: lists *)
(* that the shell has had.                                                 *)

Places == Edits \cup {"free", "confirm", "mode", "set_all", "get"}

Ops == [kind : {"none", "edit", "mode", "clear", "undo", "redo"},
        todo : Seq(Entries), added : BOOLEAN, list : Lists]

Answers == [to : Handlers, ok : BOOLEAN, list : held]

ListsInv ==
    /\ held \subseteq Lists /\ rules \in held
    /\ currentRules \in held \/ (currentRules = Blank /\ ~loaded)
    /\ undoStack \in Seq(Kept) /\ redoStack \in Seq(Kept)
    /\ Len(undoStack) + Len(redoStack) <= Depth
    /\ touched \in [Handlers -> Lists] /\ unseen \in Lists
    /\ loaded \in BOOLEAN /\ early \in BOOLEAN

TasksInv ==
    /\ at \in [Handlers -> Places] /\ op \in [Handlers -> Ops]
    /\ calls \in Seq(Handlers)
    /\ \A h \in Handlers : at[h] \in Edits => op[h].todo # <<>>
    /\ \A h \in Handlers : op[h].added => at[h] \in Edits \cup {"get"}
    /\ events \in 0..MaxEvents /\ alone \in BOOLEAN

AnswersInv == replies \in Seq(Answers)

TypeInv == ListsInv /\ TasksInv /\ AnswersInv

\* A handler has changed something only if an answer said so or will.
TouchInv ==
    \A h \in Handlers : touched[h] # {} =>
        \/ at[h] = "get" \/ op[h].added
        \/ \E i \in DOMAIN replies : replies[i].to = h /\ replies[i].ok

\* What a list that was read misses, later answers tell.
ReadInv ==
    \A i \in DOMAIN replies : at[replies[i].to] = "get" =>
        \A e \in Entries : (e \in rules) # (e \in replies[i].list) =>
            \/ e \in unseen
            \/ \E j \in DOMAIN replies : j > i /\ e \in touched[replies[j].to]

IInv == TypeInv /\ FlightInv /\ WaitInv /\ TouchInv /\ ReadInv /\ PageTracks

-----------------------------------------------------------------------------
(* What an executed command does, whichever it is.                         *)

\* A command is answered, and what it changed or read is noted: d, if the
\* answer says so, for the handler that asked, and otherwise for whoever reads
\* next.
Executed(h, ok, list, d) ==
    /\ replies' = Append(replies, Reply(h, ok, list))
    /\ rules' \in Lists /\ held' = held \cup {rules'} /\ list \in held'
    /\ touched' = [touched EXCEPT ![h] = @ \cup d]
    /\ d # {} => ok
    /\ at[h] = "get" => list = rules'
    /\ \A e \in Entries :
          e \in unseen \/ (e \in rules) # (e \in rules') => e \in unseen' \/ e \in d
    /\ unseen' \in Lists /\ alone' \in BOOLEAN /\ UNCHANGED startup

\* A change, saved or not.
LEMMA ChangeShape ==
    ASSUME TypeInv, NEW h \in Handlers, at[h] # "get", NEW list \in Lists,
           Change(h, list)
    PROVE  \E ok \in BOOLEAN, d \in Lists : Executed(h, ok, list, d)
  <1> DEFINE changed == {e \in Entries : (e \in rules) # (e \in list)}
  <1>1. changed \in Lists /\ {} \in Lists
    BY DEF Lists
  <1>2. CASE /\ replies' = Append(replies, Reply(h, TRUE, list))
             /\ touched' = [touched EXCEPT ![h] = @ \cup changed]
             /\ UNCHANGED <<unseen, alone>>
    <2>1. Executed(h, TRUE, list, changed)
      BY <1>2 DEF Executed, Change, TypeInv, ListsInv, TasksInv
    <2>. QED  BY <1>1, <2>1
  <1>3. CASE /\ replies' = Append(replies, Reply(h, FALSE, list))
             /\ unseen' = unseen \cup changed
             /\ alone' = FALSE
             /\ UNCHANGED touched
    <2>1. touched = [touched EXCEPT ![h] = @ \cup {}]
      BY DEF TypeInv, ListsInv
    <2>2. unseen' \in Lists
      BY <1>3 DEF TypeInv, ListsInv, Lists
    <2>3. Executed(h, FALSE, list, {})
      BY <1>3, <2>1, <2>2 DEF Executed, Change, TypeInv, ListsInv
    <2>. QED  BY <1>1, <2>3
  <1>. QED  BY <1>2, <1>3 DEF Change

\* An entry refused changes nothing and is answered with an error.
LEMMA RefuseShape ==
    ASSUME TypeInv, NEW h \in Handlers, at[h] # "get", Refuse(h)
    PROVE  \E ok \in BOOLEAN, list \in Lists, d \in Lists : Executed(h, ok, list, d)
  <1>1. touched = [touched EXCEPT ![h] = @ \cup {}]
    BY DEF TypeInv, ListsInv
  <1>2. rules \in Lists /\ {} \in Lists
    BY DEF TypeInv, ListsInv, Lists
  <1>3. Executed(h, FALSE, rules, {})
    BY <1>1, <1>2 DEF Executed, Refuse, TypeInv, ListsInv, TasksInv, history, startup
  <1>. QED  BY <1>2, <1>3

\* Whatever is executed, it is answered in that way.
LEMMA ExecuteShape ==
    ASSUME TypeInv, FlightInv, Execute
    PROVE  /\ calls # <<>> /\ Head(calls) \in Handlers /\ calls' = Tail(calls)
           /\ UNCHANGED <<page, events>>
           /\ \E ok \in BOOLEAN, list \in Lists, d \in Lists :
                 Executed(Head(calls), ok, list, d)
  <1> DEFINE h == Head(calls)
  <1>1. calls # <<>> /\ calls' = Tail(calls) /\ UNCHANGED <<page, events>> /\ Command(h)
    BY DEF Execute
  <1>2. h \in Handlers /\ h = calls[1] /\ 1 \in DOMAIN calls
    BY <1>1 DEF TypeInv, TasksInv
  <1>3. at[h] \in {"add", "remove", "mode", "set_all", "get"} /\ op[h] \in Ops
    BY <1>2 DEF TypeInv, TasksInv, FlightInv, Places, Edits
  <1>. HIDE DEF h
  <1>4. CASE at[h] = "get"
    <2>1. GetRoutingRules(h)
      BY <1>1, <1>4 DEF Command
    <2>2. Executed(h, TRUE, rules, unseen)
      BY <2>1 DEF Executed, GetRoutingRules, TypeInv, ListsInv, TasksInv, Lists
    <2>. QED  BY <1>1, <1>2, <2>2 DEF h, TypeInv, ListsInv
  <1>5. CASE at[h] \in {"add", "remove"}
    <2>1. Head(op[h].todo) \in Entries
      <3>1. op[h].todo \in Seq(Entries) /\ op[h].todo # <<>>
        BY <1>2, <1>3, <1>5 DEF Ops, TypeInv, TasksInv, Edits
      <3>. QED  BY <3>1, HeadTailProperties
    <2>2. rules \cup {Head(op[h].todo)} \in Lists /\ rules \ {Head(op[h].todo)} \in Lists
      BY <2>1 DEF TypeInv, ListsInv, Lists
    <2>3. \/ Refuse(h) \/ Change(h, rules \cup {Head(op[h].todo)})
          \/ Change(h, rules \ {Head(op[h].todo)})
      BY <1>1, <1>5 DEF Command, AddRule, RemoveRule
    <2>. QED  BY <1>1, <1>2, <1>5, <2>2, <2>3, ChangeShape, RefuseShape DEF h
  <1>6. CASE at[h] \in {"mode", "set_all"}
    <2>1. op[h].list \in Lists /\ (rules \ {RuleMode}) \cup op[h].list \in Lists
      BY <1>3 DEF Ops, TypeInv, ListsInv, Lists
    <2>2. Change(h, op[h].list) \/ Change(h, (rules \ {RuleMode}) \cup op[h].list)
      BY <1>1, <1>6 DEF Command, SetRoutingMode
    <2>. QED  BY <1>1, <1>2, <1>6, <2>1, <2>2, ChangeShape DEF h
  <1>. QED  BY <1>3, <1>4, <1>5, <1>6

\* The execution of a command keeps the invariant.
LEMMA ExecuteStep ==
    ASSUME IInv, Execute
    PROVE  IInv'
  <1>0. TypeInv /\ FlightInv /\ WaitInv /\ TouchInv /\ ReadInv /\ PageTracks
    BY DEF IInv
  <1>1. PICK h \in Handlers, ok \in BOOLEAN, list \in Lists, d \in Lists :
            /\ calls # <<>> /\ h = Head(calls) /\ calls' = Tail(calls)
            /\ UNCHANGED <<page, events>> /\ Executed(h, ok, list, d)
    BY <1>0, ExecuteShape
  <1> DEFINE r == Reply(h, ok, list)
             m == Len(calls)
             n == Len(replies)
  <1>2. /\ calls' \in Seq(Handlers) /\ m \in Nat \ {0} /\ DOMAIN calls = 1..m
        /\ DOMAIN calls' = 1..(m - 1) /\ h = calls[1]
        /\ \A i \in 1..(m - 1) : calls'[i] = calls[i + 1] /\ i + 1 \in 1..m /\ i + 1 # 1
    BY <1>0, <1>1, HeadTailProperties DEF TypeInv, TasksInv
  <1>3. held \subseteq held' /\ held' \subseteq Lists /\ rules' \in held' /\ r \in Answers'
    BY <1>0, <1>1 DEF Executed, TypeInv, ListsInv, Answers, Reply
  <1>4. replies \in Seq(Answers')
    <2>1. Answers \subseteq Answers'
      BY <1>3 DEF Answers
    <2>. QED  BY <1>0, <2>1, SeqGrows DEF TypeInv, AnswersInv
  <1>5. /\ replies' \in Seq(Answers') /\ n \in Nat
        /\ DOMAIN replies = 1..n /\ DOMAIN replies' = 1..(n + 1)
        /\ replies'[n + 1] = r /\ r.to = h /\ r.ok = ok /\ r.list = list
        /\ \A i \in 1..n : replies'[i] = replies[i] /\ i # n + 1 /\ i \in 1..(n + 1)
    BY <1>1, <1>3, <1>4, AppendProperties DEF Executed, Reply
  <1>6. UNCHANGED <<currentRules, undoStack, redoStack, at, op, events>>
    BY <1>1 DEF page
  <1>7. /\ touched' \in [Handlers -> Lists] /\ touched'[h] = touched[h] \cup d
        /\ \A g \in Handlers : touched[g] \subseteq touched'[g]
        /\ \A g \in Handlers : g # h => touched'[g] = touched[g]
    BY <1>0, <1>1 DEF Executed, TypeInv, ListsInv, Lists
  <1>8. TypeInv'
    <2>1. ListsInv'
      <3>1. UNCHANGED <<loaded, early>>
        BY <1>1 DEF Executed, startup
      <3>2. Kept \subseteq Kept'
        BY <1>3, <3>1 DEF Kept
      <3>3. undoStack \in Seq(Kept') /\ redoStack \in Seq(Kept')
        BY <1>0, <3>2, SeqGrows DEF TypeInv, ListsInv
      <3>. QED
        BY <1>0, <1>1, <1>3, <1>6, <1>7, <3>1, <3>3 DEF Executed, TypeInv, ListsInv
    <2>2. TasksInv'
      BY <1>0, <1>1, <1>2, <1>6 DEF Executed, TypeInv, TasksInv
    <2>. QED  BY <1>5, <2>1, <2>2 DEF TypeInv, AnswersInv
  <1>9. FlightInv'
    <2>1. h \notin {replies[j].to : j \in 1..n} /\ at[h] \notin {"free", "confirm"}
      BY <1>0, <1>2, <1>5 DEF FlightInv
    <2>2. \A i \in 1..(m - 1) : calls'[i] # h
      BY <1>0, <1>2 DEF FlightInv
    <2>3. ASSUME NEW i \in 1..(m - 1), NEW j \in 1..(m - 1), calls'[i] = calls'[j]
          PROVE  i = j
      <3>1. i + 1 \in DOMAIN calls /\ j + 1 \in DOMAIN calls
            /\ calls[i + 1] = calls[j + 1]
        BY <1>2, <2>3
      <3>2. i + 1 = j + 1
        BY <1>0, <3>1 DEF FlightInv
      <3>. QED  BY <3>2
    <2>4. \A i, j \in DOMAIN replies' : replies'[i].to = replies'[j].to => i = j
      BY <1>0, <1>5, <2>1 DEF FlightInv
    <2>5. ASSUME NEW i \in DOMAIN calls', NEW j \in DOMAIN replies'
          PROVE  calls'[i] # replies'[j].to
      <3>1. CASE j = n + 1
        BY <1>2, <1>5, <2>2, <3>1
      <3>2. CASE j \in 1..n
        <4>1. i + 1 \in DOMAIN calls /\ calls'[i] = calls[i + 1]
          BY <1>2
        <4>2. j \in DOMAIN replies /\ replies'[j] = replies[j]
          BY <1>5, <3>2
        <4>. QED  BY <1>0, <4>1, <4>2 DEF FlightInv
      <3>. QED  BY <1>5, <3>1, <3>2
    <2>6. \A i \in DOMAIN calls' : at[calls'[i]] \notin {"free", "confirm"}
      BY <1>0, <1>2 DEF FlightInv
    <2>7. \A i \in DOMAIN replies' : at[replies'[i].to] \notin {"free", "confirm"}
      BY <1>0, <1>5, <2>1 DEF FlightInv
    <2>. QED  BY <1>2, <1>6, <2>3, <2>4, <2>5, <2>6, <2>7 DEF FlightInv
  <1>10. TouchInv'
    <2>. SUFFICES ASSUME NEW g \in Handlers, touched'[g] # {}
                  PROVE  \/ at[g] = "get" \/ op[g].added
                         \/ \E i \in DOMAIN replies' : replies'[i].to = g /\ replies'[i].ok
      BY <1>6 DEF TouchInv
    <2>1. CASE touched[g] # {}
      BY <1>0, <1>5, <2>1 DEF TouchInv
    <2>2. CASE touched[g] = {}
      <3>1. g = h /\ d # {}
        BY <1>7, <2>2
      <3>2. ok
        BY <1>1, <3>1 DEF Executed
      <3>3. n + 1 \in DOMAIN replies'
        BY <1>5
      <3>. QED  BY <1>5, <3>1, <3>2, <3>3
    <2>. QED  BY <2>1, <2>2
  <1>11. ASSUME NEW e \in Entries,
                e \in unseen \/ (e \in rules) # (e \in rules')
         PROVE  e \in unseen' \/ e \in touched'[h]
    BY <1>1, <1>7, <1>11 DEF Executed
  <1>12. ReadInv'
    <2>. SUFFICES ASSUME NEW i \in 1..(n + 1), at[replies'[i].to] = "get",
                         NEW e \in Entries,
                         (e \in rules') # (e \in replies'[i].list)
                  PROVE  \/ e \in unseen'
                         \/ \E j \in 1..(n + 1) : j > i /\ e \in touched'[replies'[j].to]
      BY <1>5, <1>6 DEF ReadInv
    <2>1. i # n + 1
      BY <1>1, <1>5 DEF Executed
    <2>2. i \in 1..n /\ replies'[i] = replies[i] /\ n + 1 > i /\ n + 1 \in 1..(n + 1)
      BY <1>5, <2>1
    <2>3. CASE (e \in rules) # (e \in rules') \/ e \in unseen
      BY <1>5, <1>11, <2>2, <2>3
    <2>4. CASE (e \in rules) = (e \in rules') /\ e \notin unseen
      <3>1. PICK j \in 1..n : j > i /\ e \in touched[replies[j].to]
        BY <1>0, <1>5, <2>2, <2>4 DEF ReadInv
      <3>2. replies[j].to \in Handlers /\ replies'[j] = replies[j] /\ j \in 1..(n + 1)
        <4>1. replies[j] \in Answers
          BY <1>0, <1>5 DEF TypeInv, AnswersInv
        <4>. QED  BY <1>5, <4>1 DEF Answers
      <3>. QED  BY <1>7, <3>1, <3>2
    <2>. QED  BY <2>3, <2>4
  <1>13. PageTracks'
    <2>. SUFFICES ASSUME NEW e \in Entries, (e \in rules') # (e \in currentRules)
                  PROVE  e \in unseen' \/ \E g \in Handlers : e \in touched'[g]
      BY <1>6 DEF PageTracks
    <2>1. CASE (e \in rules) # (e \in rules') \/ e \in unseen
      BY <1>11, <2>1
    <2>2. CASE (e \in rules) = (e \in rules') /\ e \notin unseen
      <3>1. PICK g \in Handlers : e \in touched[g]
        BY <1>0, <2>2 DEF PageTracks
      <3>. QED  BY <1>7, <3>1
    <2>. QED  BY <2>1, <2>2
  <1>14. WaitInv'
    <2>. SUFFICES ASSUME NEW g \in Handlers, at[g] \notin {"free", "confirm"}
                  PROVE  \/ \E i \in DOMAIN calls' : calls'[i] = g
                         \/ \E i \in DOMAIN replies' : replies'[i].to = g
      BY <1>6 DEF WaitInv
    <2>1. CASE g = h
      BY <1>5, <2>1
    <2>2. ASSUME g # h, NEW i \in 1..m, calls[i] = g
          PROVE  \E j \in DOMAIN calls' : calls'[j] = g
      <3>1. i - 1 \in 1..(m - 1) /\ (i - 1) + 1 = i
        BY <1>2, <2>2
      <3>. QED  BY <1>2, <2>2, <3>1
    <2>3. ASSUME NEW i \in 1..n, replies[i].to = g
          PROVE  \E j \in DOMAIN replies' : replies'[j].to = g
      BY <1>5, <2>3
    <2>. QED  BY <1>0, <1>2, <1>5, <2>1, <2>2, <2>3 DEF WaitInv
  <1>. QED  BY <1>8, <1>9, <1>10, <1>12, <1>13, <1>14 DEF IInv

-----------------------------------------------------------------------------
(* What a handler does when its answer comes, and when it starts.          *)

\* A handler whose request is not under way any more moves to place p, with a
\* new request or none; the lists on the page stay.
Moved(h, p) ==
    /\ at' = [at EXCEPT ![h] = p] /\ p \in Places
    /\ \/ p \notin {"free", "confirm"} /\ calls' = Append(calls, h)
       \/ p \in {"free", "confirm"} /\ UNCHANGED calls
    /\ op' \in [Handlers -> Ops]
    /\ \A g \in Handlers : g # h => op'[g] = op[g]
    /\ p \in Edits => op'[h].todo # <<>>
    /\ op'[h].added => p \in Edits \cup {"get"}

Stacks ==
    /\ undoStack' \in Seq(Kept') /\ redoStack' \in Seq(Kept')
    /\ Len(undoStack') + Len(redoStack') <= Depth

\* The handler whose answer came, its answer gone from the queue.
Answered(h) ==
    /\ replies' = Tail(replies)
    /\ \/ /\ UNCHANGED <<currentRules, touched>>
          /\ touched[h] # {} => at'[h] = "get" \/ op'[h].added
       \/ /\ touched' = [touched EXCEPT ![h] = {}]
          /\ at' = [at EXCEPT ![h] = "free"]
          /\ \/ UNCHANGED currentRules /\ touched[h] = {}
             \/ at[h] = "get" /\ currentRules' = Head(replies).list
    /\ loaded' \in BOOLEAN
    /\ UNCHANGED loaded \/ currentRules' = Head(replies).list
    /\ UNCHANGED <<rules, events, held, unseen, alone, early>>

\* The next line of an import.
LEMMA NextLine ==
    ASSUME TypeInv, NEW h \in Handlers, at[h] \in Edits, NEW b \in BOOLEAN,
           Tail(op[h].todo) # <<>>,
           op' = [op EXCEPT ![h].todo = Tail(op[h].todo), ![h].added = b],
           Invoke(h, at[h])
    PROVE  Moved(h, at[h]) /\ at'[h] = at[h] /\ op'[h].added = b
  <1>1. op[h] \in Ops /\ op[h].todo # <<>>
    BY DEF TypeInv, TasksInv
  <1>2. Tail(op[h].todo) \in Seq(Entries)
    <2>1. op[h].todo \in Seq(Entries)
      BY <1>1 DEF Ops
    <2>. QED  BY <1>1, <2>1, HeadTailProperties
  <1> DEFINE o == [op[h] EXCEPT !.todo = Tail(op[h].todo), !.added = b]
  <1>3. o \in Ops /\ o.todo = Tail(op[h].todo) /\ o.added = b
    BY <1>1, <1>2 DEF Ops
  <1>4. op' = [op EXCEPT ![h] = o]
    BY DEF TypeInv, TasksInv
  <1>. HIDE DEF o
  <1>5. op' \in [Handlers -> Ops] /\ op'[h] = o /\ \A g \in Handlers : g # h => op'[g] = op[g]
    BY <1>3, <1>4 DEF TypeInv, TasksInv
  <1>6. at' = [at EXCEPT ![h] = at[h]] /\ at'[h] = at[h] /\ calls' = Append(calls, h)
    BY DEF Invoke, TypeInv, TasksInv
  <1>. QED  BY <1>3, <1>5, <1>6 DEF Moved, Places, Edits

\* The end of a handler.
LEMMA EndShape ==
    ASSUME TypeInv, NEW h \in Handlers, End(h)
    PROVE  Moved(h, "free") /\ touched' = [touched EXCEPT ![h] = {}]
           /\ at' = [at EXCEPT ![h] = "free"]
  <1>1. NoOp \in Ops /\ ~NoOp.added
    BY DEF NoOp, Ops, Lists
  <1>. QED  BY <1>1 DEF End, Moved, TypeInv, TasksInv, Places, Edits

\* A handler that reads the rules again.
LEMMA ReloadShape ==
    ASSUME TypeInv, NEW h \in Handlers, Reload(h)
    PROVE  Moved(h, "get") /\ at'[h] = "get" /\ UNCHANGED <<stacks, touched>>
  BY DEF Reload, Invoke, Moved, TypeInv, TasksInv, Places, Edits, stacks

\* Whatever is delivered, the handler moves in that way.
LEMMA DeliverShape ==
    ASSUME TypeInv, FlightInv, TouchInv, Deliver
    PROVE  /\ replies # <<>> /\ Head(replies) \in Answers /\ Stacks
           /\ Answered(Head(replies).to)
           /\ \E p \in Places : Moved(Head(replies).to, p)
  <1> DEFINE r == Head(replies)
             h == r.to
  <1>1. /\ replies # <<>> /\ replies' = Tail(replies)
        /\ UNCHANGED <<rules, events, held, unseen, alone, early>>
        /\ loaded' = (loaded \/ at[h] = "get")
        /\ \/ at[h] \in Edits /\ AfterEdit(h, r.ok)
           \/ at[h] \in {"mode", "set_all"} /\ AfterChange(h, r.ok)
           \/ at[h] = "get" /\ AfterGet(h, r.list)
    BY DEF Deliver
  <1>2. r \in Answers /\ r = replies[1] /\ 1 \in DOMAIN replies
    BY <1>1 DEF TypeInv, AnswersInv
  <1>3. h \in Handlers /\ r.ok \in BOOLEAN
    BY <1>2 DEF Answers
  <1>4. touched[h] # {} => at[h] = "get" \/ op[h].added \/ r.ok
    BY <1>2, <1>3 DEF TouchInv, FlightInv
  <1>5. op[h].added \in BOOLEAN
    BY <1>3 DEF TypeInv, TasksInv, Ops
  <1>0. Kept' = Kept /\ loaded' \in BOOLEAN /\ (at[h] # "get" => UNCHANGED loaded)
    BY <1>1 DEF Kept, TypeInv, ListsInv
  <1>6. UNCHANGED stacks => Stacks
    BY <1>0 DEF Stacks, stacks, TypeInv, ListsInv
  <1>7. UNCHANGED redoStack /\ undoStack' = Pop(undoStack) => Stacks
    <2>1. undoStack \in Seq(Kept) /\ redoStack \in Seq(Kept)
          /\ Len(undoStack) + Len(redoStack) <= Depth
      BY DEF TypeInv, ListsInv
    <2>2. Pop(undoStack) \in Seq(Kept) /\ Len(Pop(undoStack)) <= Len(undoStack)
      BY <2>1, PopType
    <2>3. /\ Len(undoStack) \in Nat /\ Len(redoStack) \in Nat
          /\ Len(Pop(undoStack)) \in Nat
      BY <2>1, <2>2, LenProperties
    <2>. QED  BY <1>0, <2>1, <2>2, <2>3, BoundsAssumption DEF Stacks
  <1>. HIDE DEF r, h
  <1>8. CASE at[h] \in Edits
    <2> DEFINE added == op[h].added \/ r.ok
               rest == Tail(op[h].todo)
    <2>1. /\ UNCHANGED <<currentRules, redoStack>>
          /\ IF rest # <<>>
             THEN /\ op' = [op EXCEPT ![h].todo = rest, ![h].added = added]
                  /\ Invoke(h, at[h])
                  /\ UNCHANGED <<undoStack, touched>>
             ELSE IF added THEN Reload(h) ELSE undoStack' = Pop(undoStack) /\ End(h)
      BY <1>1, <1>8 DEF AfterEdit, Edits
    <2>2. CASE rest # <<>>
      <3>1. Moved(h, at[h]) /\ op'[h].added = added
        BY <1>3, <1>8, <2>1, <2>2, NextLine
      <3>2. touched[h] # {} => added
        BY <1>4, <1>8 DEF Edits
      <3>3. at[h] \in Places
        BY <1>8 DEF Places
      <3>4. Answered(h)
        BY <1>0, <1>1, <1>8, <2>1, <2>2, <3>1, <3>2 DEF Answered, Edits
      <3>. QED
        BY <1>1, <1>2, <1>6, <2>1, <2>2, <3>1, <3>3, <3>4 DEF stacks, r, h
    <2>3. CASE rest = <<>> /\ added
      <3>1. Moved(h, "get") /\ at'[h] = "get" /\ UNCHANGED <<stacks, touched>>
        BY <1>3, <2>1, <2>3, ReloadShape
      <3>2. Answered(h)
        BY <1>0, <1>1, <1>8, <2>1, <3>1 DEF Answered, Edits
      <3>. QED  BY <1>1, <1>2, <1>6, <3>1, <3>2 DEF Places, r, h
    <2>4. CASE rest = <<>> /\ ~added
      <3>1. undoStack' = Pop(undoStack) /\ End(h)
        BY <2>1, <2>4
      <3>2. Moved(h, "free") /\ touched' = [touched EXCEPT ![h] = {}]
            /\ at' = [at EXCEPT ![h] = "free"]
        BY <1>3, <3>1, EndShape
      <3>3. touched[h] = {}
        BY <1>4, <1>8, <2>4 DEF Edits
      <3>4. Answered(h)
        BY <1>0, <1>1, <1>8, <2>1, <3>2, <3>3 DEF Answered, Edits
      <3>. QED  BY <1>1, <1>2, <1>7, <2>1, <3>1, <3>2, <3>4 DEF Places, r, h
    <2>. QED  BY <2>2, <2>3, <2>4
  <1>9. CASE at[h] \in {"mode", "set_all"}
    <2>1. /\ UNCHANGED currentRules
          /\ IF r.ok THEN Reload(h) ELSE End(h) /\ UNCHANGED stacks
      BY <1>1, <1>9 DEF AfterChange, Edits
    <2>2. CASE r.ok
      <3>1. Moved(h, "get") /\ at'[h] = "get" /\ UNCHANGED <<stacks, touched>>
        BY <1>3, <2>1, <2>2, ReloadShape
      <3>2. Answered(h)
        BY <1>0, <1>1, <1>9, <2>1, <3>1 DEF Answered
      <3>. QED  BY <1>1, <1>2, <1>6, <3>1, <3>2 DEF Places, r, h
    <2>3. CASE ~r.ok
      <3>1. End(h) /\ UNCHANGED stacks
        BY <2>1, <2>3
      <3>2. Moved(h, "free") /\ touched' = [touched EXCEPT ![h] = {}]
            /\ at' = [at EXCEPT ![h] = "free"]
        BY <1>3, <3>1, EndShape
      <3>3. touched[h] = {}
        BY <1>3, <1>4, <1>9, <2>3 DEF TypeInv, TasksInv, Edits
      <3>4. Answered(h)
        BY <1>0, <1>1, <1>9, <2>1, <3>2, <3>3 DEF Answered
      <3>. QED  BY <1>1, <1>2, <1>6, <3>1, <3>2, <3>4 DEF Places, r, h
    <2>. QED  BY <2>2, <2>3
  <1>10. CASE at[h] = "get"
    <2>1. currentRules' = r.list /\ End(h) /\ UNCHANGED stacks
      BY <1>1, <1>10 DEF AfterGet, Edits
    <2>2. Moved(h, "free") /\ touched' = [touched EXCEPT ![h] = {}]
          /\ at' = [at EXCEPT ![h] = "free"]
      BY <1>3, <2>1, EndShape
    <2>3. Answered(h)
      BY <1>0, <1>1, <1>10, <2>1, <2>2 DEF Answered, r
    <2>. QED  BY <1>1, <1>2, <1>6, <2>1, <2>2, <2>3 DEF Places, r, h
  <1>. QED  BY <1>1, <1>8, <1>9, <1>10

\* Whoever moves has no request under way, and has one afterwards if it asks.
LEMMA FlightMoved ==
    ASSUME TypeInv, FlightInv, NEW h \in Handlers, NEW p, Moved(h, p),
           \A i \in DOMAIN calls : calls[i] # h,
           replies' \in Seq(Answers),
           \A j \in DOMAIN replies' : \E i \in DOMAIN replies : replies'[j] = replies[i],
           \A i, j \in DOMAIN replies' : replies'[i].to = replies'[j].to => i = j,
           \A j \in DOMAIN replies' : replies'[j].to # h
    PROVE  FlightInv'
  <1> DEFINE m == Len(calls)
  <1>1. calls \in Seq(Handlers) /\ m \in Nat /\ DOMAIN calls = 1..m
    BY DEF TypeInv, TasksInv
  <1>2. \A g \in Handlers : g # h => at'[g] = at[g]
    BY DEF Moved, TypeInv, TasksInv
  <1>3. at'[h] = p
    BY DEF Moved, TypeInv, TasksInv
  <1>4. \A j \in DOMAIN replies' : replies'[j].to \in Handlers
    <2>1. \A j \in DOMAIN replies' : replies'[j] \in Answers
      OBVIOUS
    <2>. QED  BY <2>1 DEF Answers
  <1>5. \A j \in DOMAIN replies' : at'[replies'[j].to] \notin {"free", "confirm"}
    BY <1>2, <1>4 DEF FlightInv
  <1>6. \A i \in DOMAIN calls, j \in DOMAIN replies' : calls[i] # replies'[j].to
    BY DEF FlightInv
  <1>7. \A i \in DOMAIN calls : calls[i] \in Handlers /\ at'[calls[i]] \notin {"free", "confirm"}
    BY <1>1, <1>2 DEF FlightInv
  <1>8. CASE UNCHANGED calls
    BY <1>5, <1>6, <1>7, <1>8 DEF FlightInv
  <1>9. CASE p \notin {"free", "confirm"} /\ calls' = Append(calls, h)
    <2>1. /\ DOMAIN calls' = 1..(m + 1) /\ calls'[m + 1] = h
          /\ \A i \in 1..m : calls'[i] = calls[i] /\ i # m + 1 /\ i \in 1..(m + 1)
      BY <1>1, <1>9, AppendProperties
    <2>2. \A i \in 1..(m + 1) : i = m + 1 \/ i \in 1..m
      BY <1>1
    <2>3. \A i, j \in DOMAIN calls' : calls'[i] = calls'[j] => i = j
      BY <1>1, <2>1, <2>2 DEF FlightInv
    <2>4. \A i \in DOMAIN calls', j \in DOMAIN replies' : calls'[i] # replies'[j].to
      BY <1>1, <1>6, <2>1, <2>2
    <2>5. \A i \in DOMAIN calls' : at'[calls'[i]] \notin {"free", "confirm"}
      BY <1>1, <1>3, <1>7, <1>9, <2>1, <2>2
    <2>. QED  BY <1>5, <2>3, <2>4, <2>5 DEF FlightInv
  <1>. QED  BY <1>8, <1>9 DEF Moved

\* Whoever moves asks or stops waiting; the others still wait for the same.
LEMMA WaitMoved ==
    ASSUME TypeInv, WaitInv, NEW h \in Handlers, NEW p, Moved(h, p),
           \A g \in Handlers : g # h /\ (\E i \in DOMAIN replies : replies[i].to = g) =>
               \E i \in DOMAIN replies' : replies'[i].to = g
    PROVE  WaitInv'
  <1>1. at'[h] = p /\ \A g \in Handlers : g # h => at'[g] = at[g]
    BY DEF Moved, TypeInv, TasksInv
  <1>2. CASE UNCHANGED calls /\ p \in {"free", "confirm"}
    BY <1>1, <1>2 DEF WaitInv
  <1>3. CASE calls' = Append(calls, h)
    <2>1. calls \in Seq(Handlers)
      BY DEF TypeInv, TasksInv
    <2>2. /\ Len(calls) + 1 \in DOMAIN calls' /\ calls'[Len(calls) + 1] = h
          /\ \A i \in DOMAIN calls : i \in DOMAIN calls' /\ calls'[i] = calls[i]
      BY <1>3, <2>1, AppendProperties
    <2>. QED  BY <1>1, <2>2 DEF WaitInv
  <1>. QED  BY <1>2, <1>3 DEF Moved

\* The types after a move.
LEMMA TasksMoved ==
    ASSUME TypeInv, NEW h \in Handlers, NEW p, Moved(h, p),
           events' \in 0..MaxEvents, alone' \in BOOLEAN
    PROVE  TasksInv'
  <1>1. at' \in [Handlers -> Places] /\ at'[h] = p
        /\ \A g \in Handlers : g # h => at'[g] = at[g]
    BY DEF Moved, TypeInv, TasksInv
  <1>2. calls' \in Seq(Handlers)
    <2>1. calls \in Seq(Handlers)
      BY DEF TypeInv, TasksInv
    <2>. QED  BY <2>1, AppendProperties DEF Moved
  <1>3. \A g \in Handlers : at'[g] \in Edits => op'[g].todo # <<>>
    BY <1>1 DEF Moved, TypeInv, TasksInv
  <1>4. \A g \in Handlers : op'[g].added => at'[g] \in Edits \cup {"get"}
    BY <1>1 DEF Moved, TypeInv, TasksInv
  <1>. QED  BY <1>1, <1>2, <1>3, <1>4 DEF TasksInv, Moved

\* The delivery of an answer keeps the invariant.
LEMMA DeliverStep ==
    ASSUME IInv, Deliver
    PROVE  IInv'
  <1>0. TypeInv /\ FlightInv /\ WaitInv /\ TouchInv /\ ReadInv /\ PageTracks
    BY DEF IInv
  <1> DEFINE r == Head(replies)
             h == r.to
             n == Len(replies)
  <1>1. /\ replies # <<>> /\ r \in Answers /\ Stacks /\ Answered(h)
        /\ \E p \in Places : Moved(h, p)
    BY <1>0, DeliverShape
  <1>2. h \in Handlers /\ r.list \in held
    BY <1>1 DEF Answers
  <1>3. /\ replies' \in Seq(Answers) /\ n \in Nat \ {0} /\ DOMAIN replies = 1..n
        /\ DOMAIN replies' = 1..(n - 1) /\ r = replies[1] /\ 1 \in 1..n
        /\ \A i \in 1..(n - 1) : /\ replies'[i] = replies[i + 1]
                                 /\ i + 1 \in 1..n /\ i + 1 # 1
    <2>1. replies \in Seq(Answers) /\ replies' = Tail(replies)
      BY <1>0, <1>1 DEF TypeInv, AnswersInv, Answered
    <2>2. /\ replies' \in Seq(Answers) /\ Len(replies') = n - 1
          /\ \A i \in 1..Len(replies') : replies'[i] = replies[i + 1]
      BY <1>1, <2>1, HeadTailProperties
    <2>3. n \in Nat \ {0} /\ DOMAIN replies = 1..n /\ r = replies[1] /\ 1 \in 1..n
      BY <1>1, <2>1
    <2>4. DOMAIN replies' = 1..(n - 1)
      BY <2>2, <2>3, LenProperties
    <2>5. \A i \in 1..(n - 1) : i + 1 \in 1..n /\ i + 1 # 1
      BY <2>3
    <2>. QED  BY <2>2, <2>3, <2>4, <2>5
  <1>. HIDE DEF r
  <1>4. \A i \in 1..(n - 1) : replies'[i].to # h /\ replies'[i].to \in Handlers
    <2>1. \A i \in 1..(n - 1) : replies'[i] \in Answers
      BY <1>3, ElementOfSeq
    <2>. QED  BY <1>0, <1>3, <2>1 DEF FlightInv, Answers
  <1>5. UNCHANGED <<rules, events, held, unseen, alone, early>> /\ loaded' \in BOOLEAN
    BY <1>1 DEF Answered
  <1>6. \A i \in DOMAIN calls : calls[i] # h
    BY <1>0, <1>3 DEF FlightInv
  <1>7. \A g \in Handlers : g # h => at'[g] = at[g] /\ op'[g] = op[g]
    BY <1>0, <1>1 DEF Moved, TypeInv, TasksInv
  <1>8. /\ touched' \in [Handlers -> Lists]
        /\ \A g \in Handlers : g # h => touched'[g] = touched[g]
    BY <1>0, <1>1 DEF Answered, TypeInv, ListsInv, Lists
  <1>9. TypeInv'
    <2>1. currentRules' \in held \/ (currentRules' = Blank /\ ~loaded')
      BY <1>0, <1>1, <1>2 DEF Answered, TypeInv, ListsInv, r
    <2>2. ListsInv'
      BY <1>0, <1>1, <1>5, <1>8, <2>1 DEF ListsInv, TypeInv, Stacks
    <2>3. TasksInv'
      BY <1>0, <1>1, <1>2, <1>5, TasksMoved DEF TypeInv, TasksInv
    <2>4. AnswersInv'
      <3>1. Answers' = Answers
        BY <1>5 DEF Answers
      <3>. QED  BY <1>3, <3>1 DEF AnswersInv
    <2>. QED  BY <2>2, <2>3, <2>4 DEF TypeInv
  <1>10. FlightInv'
    <2>1. \A i, j \in DOMAIN replies' : replies'[i].to = replies'[j].to => i = j
      BY <1>0, <1>3 DEF FlightInv
    <2>2. \A j \in DOMAIN replies' : \E i \in DOMAIN replies : replies'[j] = replies[i]
      BY <1>3
    <2>3. \A j \in DOMAIN replies' : replies'[j].to # h
      BY <1>3, <1>4
    <2>. QED  BY <1>0, <1>1, <1>2, <1>3, <1>6, <2>1, <2>2, <2>3, FlightMoved
  <1>11. TouchInv'
    <2>. SUFFICES ASSUME NEW g \in Handlers, touched'[g] # {}
                  PROVE  \/ at'[g] = "get" \/ op'[g].added
                         \/ \E i \in DOMAIN replies' : replies'[i].to = g /\ replies'[i].ok
      BY DEF TouchInv
    <2>1. CASE g = h
      BY <1>0, <1>1, <2>1 DEF Answered, TypeInv, ListsInv
    <2>2. CASE g # h
      <3>1. at'[g] = at[g] /\ op'[g] = op[g] /\ touched'[g] = touched[g]
        BY <1>7, <1>8, <2>2
      <3>2. CASE \E i \in DOMAIN replies : replies[i].to = g /\ replies[i].ok
        <4>1. PICK i \in 1..n : replies[i].to = g /\ replies[i].ok
          BY <1>3, <3>2
        <4>2. i # 1
          BY <1>3, <2>2, <4>1
        <4>3. i - 1 \in 1..(n - 1) /\ (i - 1) + 1 = i
          BY <1>3, <4>2
        <4>4. replies'[i - 1] = replies[i]
          BY <1>3, <4>3
        <4>. QED  BY <1>3, <4>1, <4>3, <4>4
      <3>. QED  BY <1>0, <3>1, <3>2 DEF TouchInv
    <2>. QED  BY <2>1, <2>2
  <1>12. ReadInv'
    <2>. SUFFICES ASSUME NEW i \in 1..(n - 1), at'[replies'[i].to] = "get",
                         NEW e \in Entries,
                         (e \in rules) # (e \in replies'[i].list)
                  PROVE  \/ e \in unseen
                         \/ \E j \in 1..(n - 1) : j > i /\ e \in touched'[replies'[j].to]
      BY <1>3, <1>5 DEF ReadInv
    <2>1. /\ i + 1 \in 1..n /\ replies'[i] = replies[i + 1]
          /\ at[replies[i + 1].to] = "get"
      BY <1>3, <1>4, <1>7
    <2>2. CASE e \notin unseen
      <3>1. PICK j \in 1..n : j > i + 1 /\ e \in touched[replies[j].to]
        BY <1>0, <1>3, <2>1, <2>2 DEF ReadInv
      <3>2. j - 1 \in 1..(n - 1) /\ (j - 1) + 1 = j /\ j - 1 > i
        BY <1>3, <3>1
      <3>3. replies'[j - 1] = replies[j]
        BY <1>3, <3>2
      <3>4. e \in touched'[replies'[j - 1].to]
        BY <1>4, <1>8, <3>1, <3>2, <3>3
      <3>. QED  BY <3>2, <3>4
    <2>. QED  BY <2>2
  <1>13. PageTracks'
    <2>. SUFFICES ASSUME NEW e \in Entries, (e \in rules) # (e \in currentRules')
                  PROVE  e \in unseen \/ \E g \in Handlers : e \in touched'[g]
      BY <1>5 DEF PageTracks
    <2>1. CASE UNCHANGED currentRules /\ (UNCHANGED touched \/ touched[h] = {})
      <3>1. e \in unseen \/ \E g \in Handlers : e \in touched[g]
        BY <1>0, <2>1 DEF PageTracks
      <3>. QED  BY <1>8, <2>1, <3>1
    <2>2. CASE at[h] = "get" /\ currentRules' = r.list
      <3>1. CASE e \notin unseen
        <4>1. PICK j \in 1..n : j > 1 /\ e \in touched[replies[j].to]
          BY <1>0, <1>3, <2>2, <3>1 DEF ReadInv
        <4>2. j - 1 \in 1..(n - 1) /\ (j - 1) + 1 = j
          BY <1>3, <4>1
        <4>3. replies'[j - 1] = replies[j]
          BY <1>3, <4>2
        <4>. QED  BY <1>4, <1>8, <4>1, <4>2, <4>3
      <3>. QED  BY <3>1
    <2>. QED  BY <1>1, <2>1, <2>2 DEF Answered, r
  <1>14. WaitInv'
    <2>1. ASSUME NEW g \in Handlers, g # h, NEW i \in 1..n, replies[i].to = g
          PROVE  \E j \in DOMAIN replies' : replies'[j].to = g
      <3>1. i - 1 \in 1..(n - 1) /\ (i - 1) + 1 = i
        BY <1>3, <2>1
      <3>2. replies'[i - 1] = replies[i]
        BY <1>3, <3>1
      <3>. QED  BY <1>3, <2>1, <3>1, <3>2
    <2>. QED  BY <1>0, <1>1, <1>2, <1>3, <2>1, WaitMoved
  <1>. QED  BY <1>9, <1>10, <1>11, <1>12, <1>13, <1>14 DEF IInv

\* What every handler has in common when it starts or is told "yes" or "no".
Begun(h) ==
    /\ at[h] \in {"free", "confirm"}
    /\ UNCHANGED <<currentRules, replies, rules, held, touched, unseen, loaded>>
    /\ events' \in 0..MaxEvents /\ alone' \in BOOLEAN /\ early' \in BOOLEAN
    /\ Stacks
    /\ \E p \in Places : Moved(h, p)

\* A request that begins a handler.
LEMMA InvokeShape ==
    ASSUME TypeInv, NEW h \in Handlers, NEW p \in Places \ {"free", "confirm"},
           Invoke(h, p), NEW o \in Ops, op' = [op EXCEPT ![h] = o], ~o.added,
           p \in Edits => o.todo # <<>>
    PROVE  Moved(h, p)
  <1>1. op' \in [Handlers -> Ops] /\ op'[h] = o
        /\ \A g \in Handlers : g # h => op'[g] = op[g]
    BY DEF TypeInv, TasksInv
  <1>. QED  BY <1>1 DEF Moved, Invoke

\* Every start of a handler is of that kind.
LEMMA StartShape ==
    ASSUME TypeInv, NEW h \in Handlers, Start(h) \/ Confirm(h) \/ Cancel(h)
    PROVE  Begun(h)
  <1>1. /\ undoStack \in Seq(Kept) /\ redoStack \in Seq(Kept)
        /\ Len(undoStack) \in Nat /\ Len(redoStack) \in Nat
        /\ Len(undoStack) + Len(redoStack) <= Depth /\ Depth \in Nat
        /\ currentRules \in Lists /\ held \subseteq Lists /\ Kept \subseteq Lists
        /\ loaded \in BOOLEAN /\ early \in BOOLEAN
    BY BoundsAssumption, LenProperties DEF TypeInv, ListsInv, Kept, Blank, Lists
  <1>15. UNCHANGED held
    BY DEF Start, AddEntry, ImportEntries, RemoveEntry, StartEdit, ChangeMode, AskClear,
           Undo, Redo, ApplyState, Confirm, Cancel, history
  <1>16. ASSUME NoteCopy
        PROVE  /\ early' \in BOOLEAN /\ currentRules \in Kept'
               /\ undoStack \in Seq(Kept') /\ redoStack \in Seq(Kept')
    <2>1. Kept \subseteq Kept' /\ early' \in BOOLEAN
      BY <1>1, <1>15, <1>16 DEF NoteCopy, Kept
    <2>2. currentRules \in Kept'
      BY <1>15, <1>16 DEF NoteCopy, Kept, TypeInv, ListsInv
    <2>. QED  BY <1>1, <2>1, <2>2, SeqGrows
  <1>2. ASSUME Begin(h)
        PROVE  /\ at[h] = "free" /\ events' \in 0..MaxEvents /\ alone' \in BOOLEAN
               /\ UNCHANGED loaded
    BY <1>2, BoundsAssumption DEF Begin, TypeInv, TasksInv
  <1>3. ASSUME NEW kind \in {"none", "edit", "mode", "clear", "undo", "redo"},
               NEW list \in Lists
        PROVE  /\ [NoOp EXCEPT !.kind = kind, !.list = list] \in Ops
               /\ ~[NoOp EXCEPT !.kind = kind, !.list = list].added
    <2>1. NoOp \in Ops /\ NoOp.added = FALSE
      BY DEF NoOp, Ops, Lists
    <2>. QED  BY <1>3, <2>1 DEF Ops
  <1>4. ASSUME SaveHistoryState PROVE Stacks /\ early' \in BOOLEAN
    <2>1. Len(undoStack) <= Depth
      BY <1>1
    <2>0. NoteCopy
      BY <1>4 DEF SaveHistoryState
    <2>2. Keep(undoStack, currentRules) \in Seq(Kept')
          /\ Len(Keep(undoStack, currentRules)) <= Depth
      BY <1>16, <2>0, <2>1, KeepType
    <2>3. <<>> \in Seq(Kept') /\ Len(<<>>) = 0
      BY EmptySeq
    <2>4. Len(Keep(undoStack, currentRules)) \in Nat
      BY <2>2, LenProperties
    <2>. QED  BY <1>4, <1>16, <2>0, <2>2, <2>3, <2>4 DEF SaveHistoryState, Stacks
  <1>5. UNCHANGED <<stacks, early>> => Stacks /\ early' \in BOOLEAN
    <2>1. UNCHANGED early => Kept' = Kept
      BY <1>15 DEF Kept
    <2>. QED  BY <1>1, <2>1 DEF stacks, Stacks
  <1>6. ASSUME NEW command \in Edits, NEW todo \in Seq(Entries), todo # <<>>,
               StartEdit(h, command, todo)
        PROVE  Begun(h)
    <2>1. [NoOp EXCEPT !.kind = "edit", !.todo = todo] \in Ops
          /\ ~[NoOp EXCEPT !.kind = "edit", !.todo = todo].added
          /\ [NoOp EXCEPT !.kind = "edit", !.todo = todo].todo = todo
      BY DEF NoOp, Ops, Lists
    <2>2. Moved(h, command)
      BY <1>6, <2>1, InvokeShape DEF StartEdit, Places, Edits
    <2>. QED  BY <1>2, <1>4, <1>6, <2>2 DEF StartEdit, Begun, Places
  <1>7. CASE AddEntry(h) \/ ImportEntries(h) \/ RemoveEntry(h)
    <2>1. \A e \in Entries : <<e>> \in Seq(Entries) /\ <<e>> # <<>>
      OBVIOUS
    <2>2. \A e, f \in Entries : <<e, f>> \in Seq(Entries) /\ <<e, f>> # <<>>
      OBVIOUS
    <2>3. Domains \subseteq Entries /\ Geos \subseteq Entries /\ currentRules \subseteq Entries
      BY <1>1 DEF Entries, Lists
    <2>4. CASE AddEntry(h)
      <3>1. PICK e \in Domains \cup Geos : StartEdit(h, "add", <<e>>)
        BY <2>4 DEF AddEntry
      <3>. QED  BY <1>6, <2>1, <2>3, <3>1 DEF Edits
    <2>5. CASE ImportEntries(h)
      <3>1. PICK e \in Domains, f \in Domains : StartEdit(h, "add", <<e, f>>)
        BY <2>5 DEF ImportEntries
      <3>. QED  BY <1>6, <2>2, <2>3, <3>1 DEF Edits
    <2>6. CASE RemoveEntry(h)
      <3>1. PICK e \in currentRules : StartEdit(h, "remove", <<e>>)
        BY <2>6 DEF RemoveEntry
      <3>. QED  BY <1>6, <2>1, <2>3, <3>1 DEF Edits
    <2>. QED  BY <1>7, <2>4, <2>5, <2>6
  <1>8. CASE ChangeMode(h)
    <2>1. PICK m \in {{}, {RuleMode}} :
              op' = [op EXCEPT ![h] = [NoOp EXCEPT !.kind = "mode", !.list = m]]
      BY <1>8 DEF ChangeMode
    <2>2. m \in Lists
      BY DEF Lists, Entries
    <2>3. Invoke(h, "mode") /\ "mode" \in Places \ {"free", "confirm"} /\ "mode" \notin Edits
      BY <1>8 DEF ChangeMode, Places, Edits
    <2>4. Moved(h, "mode")
      BY <1>3, <2>1, <2>2, <2>3, InvokeShape
    <2>. QED  BY <1>2, <1>5, <1>8, <2>3, <2>4 DEF ChangeMode, Begun
  <1>9. CASE AskClear(h)
    <2>1. ~op[h].added
      BY <1>9 DEF AskClear, Begin, TypeInv, TasksInv, Edits
    <2>2. Moved(h, "confirm")
      BY <1>9, <2>1 DEF AskClear, Moved, TypeInv, TasksInv, Places, Edits
    <2>. QED  BY <1>2, <1>5, <1>9, <2>2 DEF AskClear, Begun, Places, stacks
  <1>10. CASE Confirm(h)
    <2>1. PICK list \in {Domains, Geos} : op' = [op EXCEPT ![h] =
              [NoOp EXCEPT !.kind = "clear", !.list = currentRules \ list]]
      BY <1>10 DEF Confirm
    <2>2. currentRules \ list \in Lists
      BY <1>1 DEF Lists
    <2>3. Invoke(h, "set_all") /\ "set_all" \in Places \ {"free", "confirm"} /\ "set_all" \notin Edits
      BY <1>10 DEF Confirm, Places, Edits
    <2>4. Moved(h, "set_all")
      BY <1>3, <2>1, <2>2, <2>3, InvokeShape
    <2>5. events' \in 0..MaxEvents /\ alone' \in BOOLEAN
      BY <1>10 DEF Confirm, history, TypeInv, TasksInv
    <2>. QED  BY <1>4, <1>10, <2>3, <2>4, <2>5 DEF Confirm, Begun, history
  <1>11. CASE Cancel(h)
    <2>1. ~op[h].added
      BY <1>11 DEF Cancel, TypeInv, TasksInv, Edits
    <2>2. Moved(h, "free")
      BY <1>11, <2>1 DEF Cancel, Moved, TypeInv, TasksInv, Places, Edits
    <2>3. events' \in 0..MaxEvents /\ alone' \in BOOLEAN
      BY <1>11 DEF Cancel, history, TypeInv, TasksInv
    <2>. QED  BY <1>5, <1>11, <2>2, <2>3 DEF Cancel, Begun, Places, stacks, history
  <1>12. ASSUME NEW kind \in {"undo", "redo"}, NEW list \in Lists,
                ApplyState(h, kind, list)
         PROVE  Moved(h, "set_all") /\ "set_all" \in Places
    <2>1. "set_all" \in Places \ {"free", "confirm"} /\ "set_all" \notin Edits
      BY DEF Places, Edits
    <2>. QED  BY <1>3, <1>12, <2>1, InvokeShape DEF ApplyState
  <1>13. CASE Undo(h)
    <2>0. NoteCopy
      BY <1>13 DEF Undo, ApplyState
    <2>1. Front(undoStack) \in Seq(Kept') /\ Last(undoStack) \in Lists
          /\ Len(Front(undoStack)) = Len(undoStack) - 1
      BY <1>1, <1>16, <1>13, <2>0, StackEnds DEF Undo
    <2>2. Append(redoStack, currentRules) \in Seq(Kept')
          /\ Len(Append(redoStack, currentRules)) = Len(redoStack) + 1
      BY <1>1, <1>16, <2>0, AppendProperties
    <2>3. Stacks
      BY <1>1, <1>13, <2>1, <2>2 DEF Undo, Stacks
    <2>4. Moved(h, "set_all") /\ "set_all" \in Places
      BY <1>1, <1>12, <1>13, <2>1 DEF Undo
    <2>. QED  BY <1>2, <1>16, <1>13, <2>0, <2>3, <2>4 DEF Undo, ApplyState, Begun
  <1>14. CASE Redo(h)
    <2>0. NoteCopy
      BY <1>14 DEF Redo, ApplyState
    <2>1. Front(redoStack) \in Seq(Kept') /\ Last(redoStack) \in Lists
          /\ Len(Front(redoStack)) = Len(redoStack) - 1
      BY <1>1, <1>16, <1>14, <2>0, StackEnds DEF Redo
    <2>2. Append(undoStack, currentRules) \in Seq(Kept')
          /\ Len(Append(undoStack, currentRules)) = Len(undoStack) + 1
      BY <1>1, <1>16, <2>0, AppendProperties
    <2>3. Stacks
      BY <1>1, <1>14, <2>1, <2>2 DEF Redo, Stacks
    <2>4. Moved(h, "set_all") /\ "set_all" \in Places
      BY <1>1, <1>12, <1>14, <2>1 DEF Redo
    <2>. QED  BY <1>2, <1>16, <1>14, <2>0, <2>3, <2>4 DEF Redo, ApplyState, Begun
  <1>. QED  BY <1>7, <1>8, <1>9, <1>10, <1>11, <1>13, <1>14 DEF Start

\* The start of a handler keeps the invariant.
LEMMA StartStep ==
    ASSUME IInv, NEW h \in Handlers, Begun(h)
    PROVE  IInv'
  <1>0. TypeInv /\ FlightInv /\ WaitInv /\ TouchInv /\ ReadInv /\ PageTracks
    BY DEF IInv
  <1>1. /\ at[h] \in {"free", "confirm"}
        /\ UNCHANGED <<currentRules, replies, rules, held, touched, unseen, loaded>>
    BY DEF Begun
  <1>2. PICK p \in Places : Moved(h, p)
    BY DEF Begun
  <1>3. \A g \in Handlers : g # h => at'[g] = at[g] /\ op'[g] = op[g]
    BY <1>0, <1>2 DEF Moved, TypeInv, TasksInv
  <1>4. \A i \in DOMAIN calls : calls[i] # h
    BY <1>0, <1>1 DEF FlightInv
  <1>5. \A i \in DOMAIN replies : replies[i].to # h /\ replies[i].to \in Handlers
    <2>1. \A i \in DOMAIN replies : replies[i] \in Answers
      BY <1>0 DEF TypeInv, AnswersInv
    <2>. QED  BY <1>0, <1>1, <2>1 DEF FlightInv, Answers
  <1>6. touched[h] = {}
    <2>1. ~op[h].added /\ at[h] # "get"
      BY <1>0, <1>1 DEF TypeInv, TasksInv, Edits
    <2>. QED  BY <1>0, <1>5, <2>1 DEF TouchInv
  <1>7. TypeInv'
    <2>1. ListsInv'
      BY <1>0, <1>1 DEF Begun, Stacks, TypeInv, ListsInv
    <2>2. TasksInv'
      BY <1>0, <1>2, TasksMoved DEF Begun
    <2>3. AnswersInv'
      BY <1>0, <1>1 DEF TypeInv, AnswersInv, Answers
    <2>. QED  BY <2>1, <2>2, <2>3 DEF TypeInv
  <1>8. FlightInv'
    <2>1. replies' \in Seq(Answers)
      BY <1>0, <1>1 DEF TypeInv, AnswersInv
    <2>2. \A j \in DOMAIN replies' : \E i \in DOMAIN replies : replies'[j] = replies[i]
      BY <1>1
    <2>3. \A i, j \in DOMAIN replies' : replies'[i].to = replies'[j].to => i = j
      BY <1>0, <1>1 DEF FlightInv
    <2>4. \A j \in DOMAIN replies' : replies'[j].to # h
      BY <1>1, <1>5
    <2>. QED  BY <1>0, <1>2, <1>4, <2>1, <2>2, <2>3, <2>4, FlightMoved
  <1>9. TouchInv'
    BY <1>0, <1>1, <1>3, <1>6 DEF TouchInv
  <1>10. ReadInv'
    BY <1>0, <1>1, <1>3, <1>5 DEF ReadInv
  <1>11. PageTracks'
    BY <1>0, <1>1 DEF PageTracks
  <1>12. WaitInv'
    BY <1>0, <1>1, <1>2, WaitMoved
  <1>. QED  BY <1>7, <1>8, <1>9, <1>10, <1>11, <1>12 DEF IInv

-----------------------------------------------------------------------------
(* The editor as a history: the refinement mapping row by row.             *)

\* The top of a stack that has just grown, and what is under it.
LEMMA StackTop ==
    ASSUME NEW S, NEW s \in Seq(S), NEW x \in S
    PROVE  /\ Append(s, x) \in Seq(S) /\ Append(s, x) # <<>>
           /\ Last(Append(s, x)) = x
           /\ Front(Append(s, x)) = s /\ Pop(Append(s, x)) = s
  <1> DEFINE n == Len(s)
             t == Append(s, x)
  <1>1. /\ t \in Seq(S) /\ n \in Nat /\ Len(t) = n + 1 /\ t[n + 1] = x
        /\ \A i \in 1..n : t[i] = s[i]
    BY AppendProperties
  <1>2. t # <<>> /\ Last(t) = x /\ (n + 1) - 1 = n
    BY <1>1 DEF Last
  <1>3. Front(t) = SubSeq(t, 1, n)
    BY <1>1, <1>2 DEF Front
  <1>4. SubSeq(t, 1, n) = s
    <2>1. \A i \in 1..n : t[i] \in S
      BY <1>1, ElementOfSeq
    <2>2. /\ SubSeq(t, 1, n) \in Seq(S)
          /\ Len(SubSeq(t, 1, n)) = IF 1 <= n THEN n - 1 + 1 ELSE 0
          /\ \A i \in 1..n - 1 + 1 : SubSeq(t, 1, n)[i] = t[1 + i - 1]
      BY <1>1, <2>1, SubSeqProperties
    <2>3. Len(SubSeq(t, 1, n)) = n
      BY <1>1, <2>2
    <2>4. \A i \in 1..n : SubSeq(t, 1, n)[i] = s[i]
      BY <1>1, <2>2
    <2>. QED  BY <2>2, <2>3, <2>4, SeqEqual
  <1>. QED  BY <1>1, <1>2, <1>3, <1>4 DEF Pop

\* A stack is its top on what is under it.
LEMMA StackSplit ==
    ASSUME NEW S, NEW s \in Seq(S), s # <<>>
    PROVE  s = Append(Front(s), Last(s)) /\ Pop(s) = Front(s)
  <1>1. PICK n \in Nat : n = Len(s) - 1 /\ n + 1 = Len(s)
    BY EmptySeq
  <1>2. Front(s) = SubSeq(s, 1, n) /\ Last(s) = s[n + 1] /\ s[n + 1] \in S
    BY <1>1, ElementOfSeq DEF Front, Last
  <1> DEFINE f == SubSeq(s, 1, n)
  <1>3. f \in Seq(S) /\ Len(f) = n /\ \A i \in 1..n : f[i] = s[i]
    <2>1. \A i \in 1..n : s[i] \in S
      BY <1>1, ElementOfSeq
    <2>2. /\ f \in Seq(S)
          /\ Len(f) = IF 1 <= n THEN n - 1 + 1 ELSE 0
          /\ \A i \in 1..n - 1 + 1 : f[i] = s[1 + i - 1]
      BY <2>1, SubSeqProperties
    <2>. QED  BY <2>2
  <1>. HIDE DEF f
  <1>4. /\ Append(f, s[n + 1]) \in Seq(S) /\ Len(Append(f, s[n + 1])) = n + 1
        /\ \A i \in 1..n : Append(f, s[n + 1])[i] = f[i]
        /\ Append(f, s[n + 1])[n + 1] = s[n + 1]
    BY <1>2, <1>3, AppendProperties
  <1>5. \A i \in 1..(n + 1) : Append(f, s[n + 1])[i] = s[i]
    <2>1. \A i \in 1..(n + 1) : i \in 1..n \/ i = n + 1
      OBVIOUS
    <2>. QED  BY <1>3, <1>4, <2>1
  <1>6. Append(f, s[n + 1]) = s
    BY <1>1, <1>4, <1>5, SeqEqual
  <1>. QED  BY <1>2, <1>6 DEF f, Pop

\* Under the list that was kept is the old stack, or that without its bottom.
LEMMA KeepTop ==
    ASSUME NEW S, NEW s \in Seq(S), NEW x \in S
    PROVE  /\ Keep(s, x) # <<>> /\ Last(Keep(s, x)) = x
           /\ \/ Pop(Keep(s, x)) = s
              \/ s # <<>> /\ Pop(Keep(s, x)) = Tail(s)
  <1>1. CASE Len(s) = Depth
    <2>1. s # <<>> /\ Tail(s) \in Seq(S)
      BY <1>1, BoundsAssumption
    <2>. QED  BY <1>1, <2>1, StackTop DEF Keep
  <1>2. CASE Len(s) # Depth
    <2>1. Keep(s, x) = Append(s, x)
      BY <1>2 DEF Keep
    <2>2. /\ Append(s, x) # <<>> /\ Last(Append(s, x)) = x
          /\ Pop(Append(s, x)) = s
      BY StackTop
    <2>. QED  BY <2>1, <2>2
  <1>. QED  BY <1>1, <1>2

\* A set of one list, or of none, as a sequence.
LEMMA SetToSeqSmall == SetToSeq({}) = <<>> /\ \A x : SetToSeq({x}) = <<x>>
  <1>1. SetToSeq({}) = <<>>
    <2>1. Cardinality({}) = 0
      BY FS_EmptySet
    <2>2. \A f \in [1..0 -> {}] : f = <<>>
      OBVIOUS
    <2>3. <<>> \in [1..0 -> {}] /\ IsInjective(<<>>)
      BY DEF IsInjective
    <2>. QED  BY <2>1, <2>2, <2>3 DEF SetToSeq
  <1>2. ASSUME NEW x PROVE SetToSeq({x}) = <<x>>
    <2>1. Cardinality({x}) = 1
      BY FS_Singleton
    <2>2. \A f \in [1..1 -> {x}] : f = <<x>>
      OBVIOUS
    <2>3. <<x>> \in [1..1 -> {x}] /\ IsInjective(<<x>>)
      BY DEF IsInjective
    <2>. QED  BY <2>1, <2>2, <2>3 DEF SetToSeq
  <1>. QED  BY <1>1, <1>2

\* Every handler but h is idle; what h is about, as long as it is not made.
Only(h) == \A g \in Handlers : g # h => at[g] = "free"
Kind(h) == IF at[h] # "free" /\ ~Applied(h) THEN op[h].kind ELSE "none"

\* The mapping where no handler but h runs.
MapRow(h) ==
    /\ Kind(h) \in {"none", "mode"} => Past = undoStack /\ Future = redoStack
    /\ Kind(h) \in {"edit", "clear"} => Past = Pop(undoStack) /\ Future = redoStack
    /\ Kind(h) = "undo" => /\ Past = Append(undoStack, op[h].list)
                           /\ Future = Pop(redoStack)
    /\ Kind(h) = "redo" => /\ Past = Pop(undoStack)
                           /\ Future = Append(redoStack, op[h].list)

MapTable == \A h \in Handlers : Only(h) => MapRow(h)

\* That is what the mapping comes to in every state.
LEMMA MapTableHolds == TypeInv => MapTable
  <1>. SUFFICES ASSUME TypeInv, NEW h \in Handlers, Only(h) PROVE MapRow(h)
    BY DEF MapTable
  <1>1. undoStack \in Seq(Kept) /\ redoStack \in Seq(Kept) /\ op[h] \in Ops
    BY DEF TypeInv, ListsInv, TasksInv
  <1>2. ASSUME NEW kinds, "none" \notin kinds
        PROVE  Unapplied(kinds) = IF Kind(h) \in kinds THEN {h} ELSE {}
    BY <1>2 DEF Unapplied, Busy, Only, Kind
  <1> DEFINE undone == {op[g].list : g \in Unapplied({"undo"})}
             redone == {op[g].list : g \in Unapplied({"redo"})}
  <1>3. /\ undone = IF Kind(h) = "undo" THEN {op[h].list} ELSE {}
        /\ redone = IF Kind(h) = "redo" THEN {op[h].list} ELSE {}
    BY <1>2
  <1>4. \A s \in Seq(Kept) : s \o <<>> = s
    BY ConcatEmptySeq
  <1>5. \A x : undoStack \o <<x>> = Append(undoStack, x)
        /\ redoStack \o <<x>> = Append(redoStack, x)
    BY <1>1
  <1>6. /\ Unapplied({"edit", "clear", "redo"}) # {} <=>
               Kind(h) \in {"edit", "clear", "redo"}
        /\ Unapplied({"undo"}) # {} <=> Kind(h) = "undo"
    BY <1>2
  <1>7. /\ Past = IF Kind(h) \in {"edit", "clear", "redo"} THEN Pop(undoStack)
                  ELSE undoStack \o SetToSeq(undone)
        /\ Future = IF Kind(h) = "undo" THEN Pop(redoStack)
                    ELSE redoStack \o SetToSeq(redone)
    BY <1>6 DEF Past, Future
  <1>. HIDE DEF undone, redone
  <1>. QED  BY <1>1, <1>3, <1>4, <1>5, <1>7, SetToSeqSmall DEF MapRow

\* A handler's kind goes with where it stands; one that is idle or has asked
\* the user is about nothing yet.
OpsInv ==
    \A h \in Handlers :
        /\ at[h] \in {"free", "confirm"} => op[h] = NoOp
        /\ at[h] \in Edits => op[h].kind = "edit"
        /\ at[h] = "mode" => op[h].kind = "mode"
        /\ at[h] = "set_all" => op[h].kind \in {"clear", "undo", "redo"}

Top(stack, list) == stack # <<>> /\ Last(stack) = list

\* The list that the change under way replaces is on top of the stack where
\* undo, or redo, will look for it.
Snapshot(h) ==
    /\ op[h].kind \in {"edit", "clear"} => Top(undoStack, rules) /\ redoStack = <<>>
    /\ op[h].kind = "undo" => Top(redoStack, rules)
    /\ op[h].kind = "redo" => Top(undoStack, rules)

\* As long as handlers do not overlap and saves do not fail, one handler at
\* most runs, the page is what the shell has until a change is made, and a
\* change is never refused.
AloneInv ==
    alone =>
        /\ \A g, h \in Busy : g = h
        /\ (\A h \in Busy : ~Applied(h)) => currentRules = rules
        /\ \A h \in Busy : ~Applied(h) => Snapshot(h)
        /\ \A i \in DOMAIN replies :
              /\ at[replies[i].to] \in {"mode", "set_all"} => replies[i].ok
              /\ at[replies[i].to] = "get" => replies[i].list = rules

\* A handler moves and what it is about is replaced.
Turned(h, p, o) ==
    at' = [at EXCEPT ![h] = p] /\ p \in Places /\ op' = [op EXCEPT ![h] = o]

\* The kinds after such a move.
LEMMA OpsTurned ==
    ASSUME TypeInv, OpsInv, NEW h \in Handlers, NEW p, NEW o, Turned(h, p, o),
           p \in {"free", "confirm"} => o = NoOp,
           p \in Edits => o.kind = "edit", p = "mode" => o.kind = "mode",
           p = "set_all" => o.kind \in {"clear", "undo", "redo"}
    PROVE  OpsInv'
  <1>0. op \in [Handlers -> Ops] /\ at \in [Handlers -> Places]
    BY DEF TypeInv, TasksInv
  <1>1. at'[h] = p /\ op'[h] = o
    BY <1>0 DEF Turned
  <1>2. \A g \in Handlers : g # h => at'[g] = at[g] /\ op'[g] = op[g]
    BY <1>0 DEF Turned
  <1>. SUFFICES ASSUME NEW g \in Handlers
                PROVE  /\ at'[g] \in {"free", "confirm"} => op'[g] = NoOp
                       /\ at'[g] \in Edits => op'[g].kind = "edit"
                       /\ at'[g] = "mode" => op'[g].kind = "mode"
                       /\ at'[g] = "set_all" => op'[g].kind \in {"clear", "undo", "redo"}
    BY DEF OpsInv
  <1>3. CASE g = h
    BY <1>1, <1>3
  <1>4. CASE g # h
    BY <1>2, <1>4 DEF OpsInv
  <1>. QED  BY <1>3, <1>4

\* The kinds after any step.
LEMMA OpsStep ==
    ASSUME TypeInv, OpsInv, Next
    PROVE  OpsInv'
  <1>1. op \in [Handlers -> Ops] /\ at \in [Handlers -> Places]
    BY DEF TypeInv, TasksInv
  <1>2. CASE Execute
    BY <1>2 DEF Execute, page, OpsInv
  <1>4. CASE Deliver
    <2> DEFINE h == Head(replies).to
    <2>1. h \in Handlers
      <3>1. replies # <<>> /\ replies \in Seq(Answers)
        BY <1>4 DEF Deliver, TypeInv, AnswersInv
      <3>2. Head(replies) \in Answers
        BY <3>1, HeadTailProperties
      <3>. QED  BY <3>2 DEF Answers
    <2>. HIDE DEF h
    <2>2. ASSUME End(h) PROVE OpsInv'
      <3>1. Turned(h, "free", NoOp)
        BY <2>2 DEF End, Turned, Places
      <3>. QED  BY <2>1, <3>1, OpsTurned DEF Edits
    <2>3. ASSUME Reload(h) PROVE OpsInv'
      <3>1. op' = [op EXCEPT ![h] = op[h]]
        BY <1>1, <2>3 DEF Reload
      <3>2. Turned(h, "get", op[h])
        BY <2>3, <3>1 DEF Reload, Invoke, Turned, Places
      <3>. QED  BY <2>1, <3>2, OpsTurned DEF Edits
    <2>4. ASSUME at[h] \in Edits, NEW todo, NEW added,
                 op' = [op EXCEPT ![h].todo = todo, ![h].added = added],
                 Invoke(h, at[h])
          PROVE  OpsInv'
      <3> DEFINE o == [op[h] EXCEPT !.todo = todo, !.added = added]
      <3>1. op' = [op EXCEPT ![h] = o]
        BY <1>1, <2>1, <2>4
      <3>2. o.kind = op[h].kind /\ op[h].kind = "edit"
        BY <1>1, <2>1, <2>4 DEF Ops, OpsInv
      <3>. HIDE DEF o
      <3>3. Turned(h, at[h], o)
        BY <1>1, <2>1, <2>4, <3>1 DEF Invoke, Turned
      <3>. QED  BY <2>1, <2>4, <3>2, <3>3, OpsTurned DEF Edits
    <2>5. CASE at[h] \in Edits /\ AfterEdit(h, Head(replies).ok)
      BY <2>2, <2>3, <2>4, <2>5 DEF AfterEdit
    <2>6. CASE at[h] \in {"mode", "set_all"} /\ AfterChange(h, Head(replies).ok)
      BY <2>2, <2>3, <2>6 DEF AfterChange
    <2>7. CASE at[h] = "get" /\ AfterGet(h, Head(replies).list)
      BY <2>2, <2>7 DEF AfterGet
    <2>. QED  BY <1>4, <2>5, <2>6, <2>7 DEF Deliver, h
  <1>5. ASSUME NEW h \in Handlers, Start(h) \/ Confirm(h) \/ Cancel(h)
        PROVE  OpsInv'
    <2>1. ASSUME NEW kind, NEW list
          PROVE  [NoOp EXCEPT !.kind = kind, !.list = list].kind = kind
      BY DEF NoOp
    <2>2. ASSUME NEW command \in Edits, NEW todo, StartEdit(h, command, todo)
          PROVE  OpsInv'
      <3>1. [NoOp EXCEPT !.kind = "edit", !.todo = todo].kind = "edit"
        BY DEF NoOp
      <3>2. Turned(h, command, [NoOp EXCEPT !.kind = "edit", !.todo = todo])
        BY <2>2 DEF StartEdit, Invoke, Turned, Edits, Places
      <3>. QED  BY <3>1, <3>2, OpsTurned DEF Edits
    <2>3. CASE AddEntry(h) \/ ImportEntries(h) \/ RemoveEntry(h)
      BY <2>2, <2>3 DEF AddEntry, ImportEntries, RemoveEntry, Edits
    <2>4. CASE ChangeMode(h)
      <3>1. PICK m \in {{}, {RuleMode}} :
                op' = [op EXCEPT ![h] = [NoOp EXCEPT !.kind = "mode", !.list = m]]
        BY <2>4 DEF ChangeMode
      <3>2. Turned(h, "mode", [NoOp EXCEPT !.kind = "mode", !.list = m])
        BY <2>4, <3>1 DEF ChangeMode, Invoke, Turned, Places
      <3>. QED  BY <2>1, <3>2, OpsTurned DEF Edits
    <2>5. CASE AskClear(h) \/ Cancel(h)
      <3>1. op' = [op EXCEPT ![h] = op[h]] /\ op[h] = NoOp
        BY <1>1, <2>5 DEF AskClear, Begin, Cancel, OpsInv
      <3>2. Turned(h, "confirm", op[h]) \/ Turned(h, "free", op[h])
        BY <2>5, <3>1 DEF AskClear, Cancel, Turned, Places
      <3>. QED  BY <3>1, <3>2, OpsTurned DEF Edits
    <2>6. CASE Confirm(h)
      <3>1. PICK list \in {Domains, Geos} : op' = [op EXCEPT ![h] =
                [NoOp EXCEPT !.kind = "clear", !.list = currentRules \ list]]
        BY <2>6 DEF Confirm
      <3>2. Turned(h, "set_all",
                   [NoOp EXCEPT !.kind = "clear", !.list = currentRules \ list])
        BY <2>6, <3>1 DEF Confirm, Invoke, Turned, Places
      <3>. QED  BY <2>1, <3>2, OpsTurned DEF Edits
    <2>7. ASSUME NEW kind \in {"undo", "redo"}, NEW list, ApplyState(h, kind, list)
          PROVE  OpsInv'
      <3>1. Turned(h, "set_all", [NoOp EXCEPT !.kind = kind, !.list = list])
        BY <2>7 DEF ApplyState, Invoke, Turned, Places
      <3>. QED  BY <2>1, <3>1, OpsTurned DEF Edits
    <2>8. CASE Undo(h) \/ Redo(h)
      BY <2>7, <2>8 DEF Undo, Redo
    <2>. QED  BY <1>5, <2>3, <2>4, <2>5, <2>6, <2>8 DEF Start
  <1>. QED  BY <1>2, <1>4, <1>5 DEF Next

\* Where one handler at most runs, one answer at most is under way, and then
\* nothing else is.
LEMMA AloneQueue ==
    ASSUME TypeInv, FlightInv, AloneInv, alone
    PROVE  /\ calls # <<>> => /\ Head(calls) \in Busy /\ Only(Head(calls))
                              /\ replies = <<>>
           /\ replies # <<>> => /\ Head(replies).to \in Busy
                                /\ Only(Head(replies).to) /\ Len(replies) = 1
           /\ Busy = {} => replies = <<>>
           /\ \A h \in Busy : at[h] = "confirm" => Only(h) /\ replies = <<>>
  <1>1. calls \in Seq(Handlers) /\ replies \in Seq(Answers)
    BY DEF TypeInv, TasksInv, AnswersInv
  <1>2. \A i \in DOMAIN replies : replies[i].to \in Busy
    <2>1. \A i \in DOMAIN replies : replies[i] \in Answers
      BY <1>1
    <2>. QED  BY <2>1 DEF FlightInv, Answers, Busy
  <1>3. \A h \in Busy : Only(h)
    BY DEF AloneInv, Only, Busy
  <1>4. /\ replies # <<>> => 1 \in DOMAIN replies /\ Head(replies) = replies[1]
        /\ Len(replies) \in Nat /\ DOMAIN replies = 1..Len(replies)
    BY <1>1
  <1>5. ASSUME calls # <<>>
        PROVE  Head(calls) \in Busy /\ replies = <<>>
    <2>1. 1 \in DOMAIN calls /\ Head(calls) = calls[1]
      BY <1>1, <1>5
    <2>2. Head(calls) \in Busy
      BY <1>1, <2>1 DEF FlightInv, Busy
    <2>3. \A i \in DOMAIN replies : FALSE
      BY <1>2, <2>1, <2>2 DEF FlightInv, AloneInv
    <2>. QED  BY <1>4, <2>2, <2>3
  <1>6. ASSUME replies # <<>>
        PROVE  Head(replies).to \in Busy /\ Len(replies) = 1
    <2>1. 1 \in DOMAIN replies /\ Head(replies) = replies[1]
      BY <1>4, <1>6
    <2>2. \A i \in DOMAIN replies : i = 1
      BY <1>2, <2>1 DEF FlightInv, AloneInv
    <2>3. Len(replies) \in DOMAIN replies
      BY <1>4, <2>1
    <2>. QED  BY <1>2, <2>1, <2>2, <2>3
  <1>7. Busy = {} => replies = <<>>
    BY <1>4, <1>2
  <1>8. ASSUME NEW h \in Busy, at[h] = "confirm"
        PROVE  replies = <<>>
    <2>1. \A i \in DOMAIN replies : replies[i].to = h
      BY <1>2 DEF AloneInv
    <2>. QED  BY <1>4, <1>8, <2>1 DEF FlightInv
  <1>. QED  BY <1>3, <1>5, <1>6, <1>7, <1>8

\* The invariant where handler h at most runs.
LEMMA AloneOne ==
    ASSUME NEW h \in Handlers, Only(h)',
           Applied(h)' => at'[h] # "free" \/ currentRules' = rules',
           ~Applied(h)' => currentRules' = rules',
           at'[h] # "free" /\ ~Applied(h)' => Snapshot(h)',
           \A i \in DOMAIN replies' :
              /\ at'[replies'[i].to] \in {"mode", "set_all"} => replies'[i].ok
              /\ at'[replies'[i].to] = "get" => replies'[i].list = rules'
    PROVE  AloneInv'
  <1>1. \A g \in Busy' : g = h /\ at'[g] # "free"
    BY DEF Busy, Only
  <1>2. at'[h] # "free" => h \in Busy'
    BY DEF Busy
  <1>. QED  BY <1>1, <1>2 DEF AloneInv

\* What a command that is executed does, if it is not one whose save fails.
LEMMA ExecuteCases ==
    ASSUME TypeInv, FlightInv, Execute, alone'
    PROVE  /\ alone /\ calls # <<>> /\ Head(calls) \in Handlers /\ UNCHANGED page
           /\ \E ok \in BOOLEAN :
                 /\ replies' = Append(replies, Reply(Head(calls), ok, rules'))
                 /\ \/ at[Head(calls)] = "get" /\ ok /\ UNCHANGED rules
                    \/ at[Head(calls)] = "add" /\ ~ok /\ UNCHANGED rules
                    \/ /\ at[Head(calls)] \in Edits \cup {"mode", "set_all"} /\ ok
                       /\ at[Head(calls)] = "set_all" => rules' = op[Head(calls)].list
  <1> DEFINE h == Head(calls)
  <1>1. calls # <<>> /\ UNCHANGED <<page, events>> /\ Command(h)
    BY DEF Execute
  <1>2. h \in Handlers /\ h = calls[1] /\ 1 \in DOMAIN calls
    BY <1>1 DEF TypeInv, TasksInv
  <1>3. at[h] \in {"add", "remove", "mode", "set_all", "get"}
    BY <1>2 DEF TypeInv, TasksInv, FlightInv, Places, Edits
  <1>. HIDE DEF h
  <1>4. ASSUME NEW list, Change(h, list), at[h] # "get",
               at[h] = "set_all" => list = op[h].list
        PROVE  /\ alone /\ replies' = Append(replies, Reply(h, TRUE, rules'))
               /\ at[h] \in Edits \cup {"mode", "set_all"}
               /\ at[h] = "set_all" => rules' = op[h].list
    BY <1>3, <1>4 DEF Change, Edits
  <1>5. ASSUME Refuse(h)
        PROVE  alone /\ replies' = Append(replies, Reply(h, FALSE, rules')) /\ UNCHANGED rules
    BY <1>5 DEF Refuse, history
  <1>6. CASE at[h] = "get"
    <2>1. GetRoutingRules(h)
      BY <1>1, <1>6 DEF Command
    <2>2. alone /\ replies' = Append(replies, Reply(h, TRUE, rules')) /\ UNCHANGED rules
      BY <2>1 DEF GetRoutingRules
    <2>. QED  BY <1>1, <1>2, <1>6, <2>2 DEF h
  <1>7. CASE at[h] = "add"
    <2>1. Refuse(h) \/ Change(h, rules \cup {Head(op[h].todo)})
      BY <1>1, <1>7 DEF Command, AddRule
    <2>2. CASE Refuse(h)
      BY <1>1, <1>2, <1>5, <1>7, <2>2 DEF h
    <2>3. CASE Change(h, rules \cup {Head(op[h].todo)})
      <3>1. /\ alone /\ replies' = Append(replies, Reply(h, TRUE, rules'))
            /\ at[h] \in Edits \cup {"mode", "set_all"}
            /\ at[h] = "set_all" => rules' = op[h].list
        BY <1>4, <1>7, <2>3
      <3>. QED  BY <1>1, <1>2, <3>1 DEF h
    <2>. QED  BY <2>1, <2>2, <2>3
  <1>8. CASE at[h] \in {"remove", "mode", "set_all"}
    <2>1. PICK list : Change(h, list) /\ (at[h] = "set_all" => list = op[h].list)
      BY <1>1, <1>8 DEF Command, RemoveRule, SetRoutingMode
    <2>2. /\ alone /\ replies' = Append(replies, Reply(h, TRUE, rules'))
          /\ at[h] \in Edits \cup {"mode", "set_all"}
          /\ at[h] = "set_all" => rules' = op[h].list
      BY <1>4, <1>8, <2>1
    <2>. QED  BY <1>1, <1>2, <2>2 DEF h
  <1>. QED  BY <1>3, <1>6, <1>7, <1>8

\* The history's ends of a sequence are the editor's.
LEMMA SameEnds == \A s : H!Last(s) = Last(s) /\ H!Front(s) = Front(s)
  BY DEF H!Last, H!Front, Last, Front

\* A command that is executed is the change the handler is about, or none.
LEMMA ExecuteAlone ==
    ASSUME IInv, TypeInv', OpsInv, AloneInv, Execute, alone'
    PROVE  AloneInv' /\ [H!Next]_(H!vars)
  <1>0. TypeInv /\ FlightInv
    BY DEF IInv
  <1>1. PICK h \in Handlers, ok \in BOOLEAN :
            /\ alone /\ calls # <<>> /\ h = Head(calls) /\ UNCHANGED page
            /\ replies' = Append(replies, Reply(h, ok, rules'))
            /\ \/ at[h] = "get" /\ ok /\ UNCHANGED rules
               \/ at[h] = "add" /\ ~ok /\ UNCHANGED rules
               \/ /\ at[h] \in Edits \cup {"mode", "set_all"} /\ ok
                  /\ at[h] = "set_all" => rules' = op[h].list
    BY <1>0, ExecuteCases
  <1>2. h \in Busy /\ at[h] # "free" /\ Only(h) /\ replies = <<>>
    BY <1>0, <1>1, AloneQueue DEF Busy
  <1>3. UNCHANGED <<currentRules, undoStack, redoStack, at, op>>
    BY <1>1 DEF page
  <1>4. /\ DOMAIN replies' = {1} /\ replies'[1].to = h /\ replies'[1].ok = ok
        /\ replies'[1].list = rules'
    <2>1. replies' = <<Reply(h, ok, rules')>>
      BY <1>1, <1>2
    <2>2. DOMAIN replies' = {1} /\ replies'[1] = Reply(h, ok, rules')
      BY <2>1
    <2>. QED  BY <2>2 DEF Reply
  <1>5. /\ Applied(h) <=> at[h] = "get" \/ op[h].added
        /\ Applied(h)' <=> at[h] = "get" \/ op[h].added \/ ok
    BY <1>2, <1>3, <1>4 DEF Applied
  <1>6. Only(h)'
    BY <1>2, <1>3 DEF Only
  <1>7. MapRow(h) /\ MapRow(h)'
    <2>1. (TypeInv => MapTable) /\ (TypeInv' => MapTable')
      BY MapTableHolds, PTL
    <2>. QED  BY <1>0, <1>2, <1>6, <2>1 DEF MapTable
  <1>8. op[h].kind \in {"none", "edit", "mode", "clear", "undo", "redo"}
    BY <1>0 DEF TypeInv, TasksInv, Ops
  <1>9. /\ ~Applied(h) => currentRules = rules
        /\ ~Applied(h) => Snapshot(h)
    BY <1>1, <1>2 DEF AloneInv
  <1>10. CASE (Applied(h)' <=> Applied(h)) /\ UNCHANGED rules
    <2>1. AloneInv'
      <3>1. \A i \in DOMAIN replies' :
               /\ at'[replies'[i].to] \in {"mode", "set_all"} => replies'[i].ok
               /\ at'[replies'[i].to] = "get" => replies'[i].list = rules'
        BY <1>1, <1>3, <1>4
      <3>2. Snapshot(h) => Snapshot(h)'
        BY <1>3, <1>10 DEF Snapshot
      <3>. QED  BY <1>2, <1>3, <1>6, <1>9, <1>10, <3>1, <3>2, AloneOne
    <2>2. Kind(h)' = Kind(h) /\ Kind(h) \in {"none", "edit", "mode", "clear", "undo", "redo"}
      BY <1>3, <1>8, <1>10 DEF Kind
    <2>3. UNCHANGED <<Past, Future>>
      BY <1>3, <1>7, <2>2 DEF MapRow
    <2>. QED  BY <1>10, <2>1, <2>3 DEF H!vars
  <1>11. CASE ok /\ at[h] \in Edits \cup {"mode", "set_all"}
    <2>1. AloneInv'
      <3>1. \A i \in DOMAIN replies' :
               /\ at'[replies'[i].to] \in {"mode", "set_all"} => replies'[i].ok
               /\ at'[replies'[i].to] = "get" => replies'[i].list = rules'
        BY <1>3, <1>4, <1>11
      <3>. QED  BY <1>2, <1>3, <1>5, <1>6, <1>11, <3>1, AloneOne
    <2>2. Kind(h)' = "none"
      BY <1>5, <1>11 DEF Kind
    <2>3. Past' = undoStack /\ Future' = redoStack
      BY <1>3, <1>7, <2>2 DEF MapRow
    <2>4. rules \in Kept /\ rules' \in Lists
          /\ undoStack \in Seq(Kept) /\ redoStack \in Seq(Kept)
      BY <1>0 DEF TypeInv, ListsInv, Kept
    <2>5. CASE Kind(h) \in {"none", "mode"}
      <3>1. Past = undoStack /\ Future = redoStack
        BY <1>7, <2>5 DEF MapRow
      <3>. QED  BY <2>1, <2>3, <2>4, <3>1 DEF H!Next, H!Amend
    <2>6. ASSUME Kind(h) \in {"edit", "clear", "undo", "redo"}
          PROVE  Kind(h) = op[h].kind /\ Snapshot(h)
      BY <1>9, <2>6 DEF Kind
    <2>7. CASE Kind(h) \in {"edit", "clear"}
      <3>1. Past = Pop(undoStack) /\ Future = redoStack
        BY <1>7, <2>7 DEF MapRow
      <3>2. undoStack # <<>> /\ Last(undoStack) = rules /\ redoStack = <<>>
        BY <2>6, <2>7 DEF Snapshot, Top
      <3>3. undoStack = Append(Past, rules)
        BY <2>4, <3>1, <3>2, StackSplit
      <3>4. H!Edit
        BY <2>3, <2>4, <3>2, <3>3 DEF H!Edit
      <3>. QED  BY <2>1, <3>4 DEF H!Next
    <2>8. ASSUME Kind(h) \in {"undo", "redo"}
          PROVE  rules' = op[h].list
      <3>1. op[h].kind \in {"undo", "redo"}
        BY <2>6, <2>8
      <3>2. at[h] = "set_all"
        BY <1>11, <3>1 DEF OpsInv
      <3>. QED  BY <1>1, <3>2
    <2>9. op[h].list \in Lists /\ Kept \subseteq Lists
      BY <1>0 DEF TypeInv, ListsInv, TasksInv, Ops, Kept, Blank, Lists
    <2>10. CASE Kind(h) = "undo"
      <3>1. Past = Append(undoStack, op[h].list) /\ Future = Pop(redoStack)
        BY <1>7, <2>10 DEF MapRow
      <3>2. redoStack # <<>> /\ Last(redoStack) = rules
        BY <2>6, <2>10 DEF Snapshot, Top
      <3>3. redoStack = Append(Future, rules)
        BY <2>4, <3>1, <3>2, StackSplit
      <3>4. undoStack \in Seq(Lists)
        BY <2>4, <2>9, SeqGrows
      <3>5. Past # <<>> /\ Last(Past) = op[h].list /\ Front(Past) = undoStack
        BY <2>9, <3>1, <3>4, StackTop
      <3>6. H!Undo
        BY <2>3, <2>8, <2>10, <3>3, <3>5, SameEnds DEF H!Undo
      <3>. QED  BY <2>1, <3>6 DEF H!Next
    <2>11. CASE Kind(h) = "redo"
      <3>1. Past = Pop(undoStack) /\ Future = Append(redoStack, op[h].list)
        BY <1>7, <2>11 DEF MapRow
      <3>2. undoStack # <<>> /\ Last(undoStack) = rules
        BY <2>6, <2>11 DEF Snapshot, Top
      <3>3. undoStack = Append(Past, rules)
        BY <2>4, <3>1, <3>2, StackSplit
      <3>4. redoStack \in Seq(Lists)
        BY <2>4, <2>9, SeqGrows
      <3>5. Future # <<>> /\ Last(Future) = op[h].list /\ Front(Future) = redoStack
        BY <2>9, <3>1, <3>4, StackTop
      <3>6. H!Redo
        BY <2>3, <2>8, <2>11, <3>3, <3>5, SameEnds DEF H!Redo
      <3>. QED  BY <2>1, <3>6 DEF H!Next
    <2>12. Kind(h) \in {"none", "edit", "mode", "clear", "undo", "redo"}
      BY <1>8 DEF Kind
    <2>. QED  BY <2>5, <2>7, <2>10, <2>11, <2>12
  <1>12. CASE ~(ok /\ at[h] \in Edits \cup {"mode", "set_all"})
    <2>1. UNCHANGED rules /\ (at[h] = "get" \/ ~ok)
      BY <1>1, <1>12
    <2>. QED  BY <1>5, <1>10, <2>1
  <1>. QED  BY <1>11, <1>12

\* The answer changes nothing the history shows: a change that was made is on
\* the stacks already, and one that was refused takes its snapshot back.
LEMMA DeliverAlone ==
    ASSUME IInv, TypeInv', OpsInv, AloneInv, Deliver, alone'
    PROVE  AloneInv' /\ [H!Next]_(H!vars)
  <1>0. TypeInv /\ FlightInv
    BY DEF IInv
  <1>1. PICK h \in Handlers, r \in Answers :
            /\ replies # <<>> /\ replies' = Tail(replies)
            /\ r = Head(replies) /\ h = r.to
            /\ UNCHANGED <<rules, events, held, unseen, alone>>
            /\ \/ at[h] \in Edits /\ AfterEdit(h, r.ok)
               \/ at[h] \in {"mode", "set_all"} /\ AfterChange(h, r.ok)
               \/ at[h] = "get" /\ AfterGet(h, r.list)
    <2>1. replies # <<>> /\ replies \in Seq(Answers)
      BY <1>0 DEF Deliver, TypeInv, AnswersInv
    <2>2. Head(replies) \in Answers
      BY <2>1, HeadTailProperties
    <2>3. Head(replies).to \in Handlers
      BY <2>2 DEF Answers
    <2>. QED  BY <2>1, <2>2, <2>3 DEF Deliver
  <1>2. h \in Handlers /\ at[h] # "free" /\ h \in Busy /\ Only(h) /\ Len(replies) = 1
    BY <1>0, <1>1, AloneQueue DEF Busy
  <1>3. r = replies[1] /\ DOMAIN replies = {1} /\ replies' = <<>>
    BY <1>0, <1>1, <1>2 DEF TypeInv, AnswersInv
  <1>4. /\ Applied(h) <=> at[h] = "get" \/ op[h].added \/ r.ok
        /\ Applied(h)' <=> at'[h] = "get" \/ op'[h].added
    BY <1>1, <1>3 DEF Applied
  <1>5. op \in [Handlers -> Ops] /\ at \in [Handlers -> Places] /\ op[h] \in Ops
    BY <1>0, <1>2 DEF TypeInv, TasksInv
  <1>6. /\ ~Applied(h) => currentRules = rules
        /\ ~Applied(h) => Snapshot(h)
        /\ at[h] \in {"mode", "set_all"} => r.ok
        /\ at[h] = "get" => r.list = rules
    <2>1. (\A g \in Busy : g = h) /\ alone
      BY <1>1, <1>2 DEF Only, Busy
    <2>2. /\ at[replies[1].to] \in {"mode", "set_all"} => replies[1].ok
          /\ at[replies[1].to] = "get" => replies[1].list = rules
      BY <1>3, <2>1 DEF AloneInv
    <2>. QED  BY <1>1, <1>2, <1>3, <2>1, <2>2 DEF AloneInv
  <1>7. MapRow(h) /\ (Only(h)' => MapRow(h)')
    <2>1. (TypeInv => MapTable) /\ (TypeInv' => MapTable')
      BY MapTableHolds, PTL
    <2>. QED  BY <1>0, <1>2, <2>1 DEF MapTable
  <1>8. ASSUME Only(h)', Applied(h)' => at'[h] # "free" \/ currentRules' = rules,
               ~Applied(h)' => currentRules' = rules,
               at'[h] # "free" /\ ~Applied(h)' => Snapshot(h)'
        PROVE  AloneInv'
    <2>1. \A i \in DOMAIN replies' : FALSE
      BY <1>3
    <2>. QED  BY <1>1, <1>2, <1>8, <2>1, AloneOne
  <1>9. ASSUME End(h)
        PROVE  /\ at'[h] = "free" /\ Only(h)' /\ ~Applied(h)' /\ Kind(h)' = "none"
               /\ Past' = undoStack' /\ Future' = redoStack'
    <2>1. at'[h] = "free" /\ op'[h] = NoOp
      BY <1>2, <1>5, <1>9 DEF End
    <2>2. Only(h)'
      BY <1>2, <1>5, <1>9 DEF End, Only
    <2>3. ~Applied(h)'
      BY <1>4, <2>1 DEF NoOp
    <2>4. Kind(h)' = "none"
      BY <2>1 DEF Kind
    <2>. QED  BY <1>7, <2>1, <2>2, <2>3, <2>4 DEF MapRow
  <1>10. ASSUME Reload(h)
         PROVE  /\ Only(h)' /\ Applied(h)' /\ at'[h] = "get"
                /\ Past' = undoStack /\ Future' = redoStack
    <2>1. at'[h] = "get" /\ Only(h)' /\ UNCHANGED stacks
      BY <1>2, <1>5, <1>10 DEF Reload, Invoke, Only
    <2>2. Applied(h)' /\ Kind(h)' = "none"
      BY <1>4, <2>1 DEF Kind
    <2>. QED  BY <1>7, <2>1, <2>2 DEF MapRow, stacks
  <1>11. Applied(h) => Past = undoStack /\ Future = redoStack
    <2>1. Applied(h) => Kind(h) = "none"
      BY DEF Kind
    <2>. QED  BY <1>7, <2>1 DEF MapRow
  <1>12. CASE Reload(h) /\ Applied(h)
    <2>1. AloneInv'
      BY <1>8, <1>10, <1>12
    <2>2. UNCHANGED <<Past, Future, rules>>
      BY <1>1, <1>10, <1>11, <1>12
    <2>. QED  BY <2>1, <2>2 DEF H!vars
  <1>13. CASE at[h] \in Edits /\ AfterEdit(h, r.ok)
    <2> DEFINE added == op[h].added \/ r.ok
               rest == Tail(op[h].todo)
    <2>1. UNCHANGED <<currentRules, redoStack>> /\ at[h] # "get"
      BY <1>13 DEF AfterEdit, Edits
    <2>2. Applied(h) <=> added
      BY <1>4, <2>1
    <2>3. CASE rest # <<>>
      <3>1. /\ op' = [op EXCEPT ![h].todo = rest, ![h].added = added]
            /\ Invoke(h, at[h]) /\ UNCHANGED undoStack
        BY <1>13, <2>3 DEF AfterEdit
      <3>2. op'[h].kind = op[h].kind /\ op'[h].added = added
        BY <1>2, <1>5, <3>1 DEF Ops
      <3>3. at' = at
        BY <1>2, <1>5, <3>1 DEF Invoke
      <3>4. Only(h)' /\ (Applied(h)' <=> Applied(h))
        BY <1>2, <1>4, <2>1, <2>2, <3>2, <3>3 DEF Only
      <3>5. AloneInv'
        <4>1. Snapshot(h) => Snapshot(h)'
          BY <1>1, <2>1, <3>1, <3>2 DEF Snapshot
        <4>. QED  BY <1>2, <1>6, <1>8, <2>1, <3>3, <3>4, <4>1
      <3>6. Kind(h)' = Kind(h) /\ Kind(h) \in {"none", "edit"}
        <4>1. op[h].kind = "edit"
          BY <1>2, <1>13 DEF OpsInv
        <4>. QED  BY <3>2, <3>3, <3>4, <4>1 DEF Kind
      <3>7. UNCHANGED <<Past, Future>>
        BY <1>7, <2>1, <3>1, <3>4, <3>6 DEF MapRow
      <3>. QED  BY <1>1, <3>5, <3>7 DEF H!vars
    <2>4. CASE rest = <<>> /\ added
      <3>1. Reload(h)
        BY <1>13, <2>4 DEF AfterEdit
      <3>. QED  BY <1>12, <2>2, <2>4, <3>1
    <2>5. CASE rest = <<>> /\ ~added
      <3>1. undoStack' = Pop(undoStack) /\ End(h)
        BY <1>13, <2>5 DEF AfterEdit
      <3>2. Kind(h) = "edit"
        BY <1>2, <1>13, <2>2, <2>5 DEF Kind, OpsInv
      <3>3. Past = Pop(undoStack) /\ Future = redoStack
        BY <1>7, <3>2 DEF MapRow
      <3>4. currentRules' = rules
        BY <1>6, <2>1, <2>2, <2>5
      <3>5. AloneInv'
        BY <1>8, <1>9, <3>1, <3>4
      <3>6. UNCHANGED <<Past, Future>>
        BY <1>9, <2>1, <3>1, <3>3
      <3>. QED  BY <1>1, <3>5, <3>6 DEF H!vars
    <2>. QED  BY <2>3, <2>4, <2>5
  <1>14. CASE at[h] \in {"mode", "set_all"} /\ AfterChange(h, r.ok)
    <2>1. Reload(h) /\ Applied(h)
      BY <1>4, <1>6, <1>14 DEF AfterChange
    <2>. QED  BY <1>12, <2>1
  <1>15. CASE at[h] = "get" /\ AfterGet(h, r.list)
    <2>1. currentRules' = rules /\ End(h) /\ UNCHANGED stacks
      BY <1>6, <1>15 DEF AfterGet
    <2>2. Applied(h)
      BY <1>4, <1>15
    <2>3. AloneInv'
      BY <1>8, <1>9, <2>1
    <2>4. UNCHANGED <<Past, Future>>
      BY <1>9, <1>11, <2>1, <2>2 DEF stacks
    <2>. QED  BY <1>1, <2>3, <2>4 DEF H!vars
  <1>. QED  BY <1>1, <1>13, <1>14, <1>15

\* A handler that starts an edit makes the undone lists unreachable; whatever
\* else starts, the history shows nothing of it yet.
LEMMA StartAlone ==
    ASSUME IInv, TypeInv', OpsInv, AloneInv, NEW h \in Handlers,
           Start(h) \/ Confirm(h) \/ Cancel(h), alone'
    PROVE  AloneInv' /\ [H!Next]_(H!vars)
  <1>0. TypeInv /\ FlightInv
    BY DEF IInv
  <1>1. /\ alone /\ replies = <<>> /\ Only(h) /\ at[h] \in {"free", "confirm"}
        /\ \A g \in Busy : g = h
    <2>1. CASE Begin(h)
      <3>1. alone /\ Busy = {} /\ at[h] = "free"
        BY <2>1 DEF Begin
      <3>. QED  BY <1>0, <3>1, AloneQueue DEF Only, Busy
    <2>2. CASE Confirm(h) \/ Cancel(h)
      <3>1. alone /\ at[h] = "confirm" /\ h \in Busy
        BY <2>2 DEF Confirm, Cancel, history, Busy
      <3>. QED  BY <1>0, <3>1, AloneQueue DEF AloneInv
    <2>3. Start(h) => Begin(h)
      BY DEF Start, AddEntry, ImportEntries, RemoveEntry, StartEdit, ChangeMode,
             AskClear, Undo, Redo
    <2>. QED  BY <2>1, <2>2, <2>3
  <1>2. UNCHANGED <<currentRules, replies, rules>>
    <2>1. Begun(h)
      BY <1>0, StartShape
    <2>. QED  BY <2>1 DEF Begun
  <1>3. op \in [Handlers -> Ops] /\ at \in [Handlers -> Places] /\ op[h] = NoOp
    BY <1>0, <1>1 DEF TypeInv, TasksInv, OpsInv
  <1>4. Applied(h)' <=> at'[h] = "get" \/ op'[h].added
    BY <1>1, <1>2 DEF Applied
  <1>5. currentRules = rules
    <2>1. \A g \in Busy : ~Applied(g)
      BY <1>1, <1>3 DEF Applied, NoOp
    <2>. QED  BY <1>1, <2>1 DEF AloneInv
  <1>6. MapRow(h) /\ (Only(h)' => MapRow(h)')
    <2>1. (TypeInv => MapTable) /\ (TypeInv' => MapTable')
      BY MapTableHolds, PTL
    <2>. QED  BY <1>0, <1>1, <2>1 DEF MapTable
  <1>7. Past = undoStack /\ Future = redoStack
    <2>1. Kind(h) = "none"
      BY <1>3 DEF Kind, NoOp
    <2>. QED  BY <1>6, <2>1 DEF MapRow
  <1>8. /\ undoStack \in Seq(Kept) /\ redoStack \in Seq(Kept) /\ rules \in Kept
    BY <1>0 DEF TypeInv, ListsInv, Kept
  <1>9. ASSUME NEW p, NEW o, Turned(h, p, o)
        PROVE  at'[h] = p /\ op'[h] = o /\ Only(h)'
    <2>1. at'[h] = p /\ op'[h] = o
      BY <1>3, <1>9 DEF Turned
    <2>2. Only(h)'
      BY <1>1, <1>3, <1>9 DEF Turned, Only
    <2>. QED  BY <2>1, <2>2
  <1>10. ASSUME Only(h)', at'[h] # "free" /\ ~Applied(h)' => Snapshot(h)',
                Applied(h)' => at'[h] # "free"
         PROVE  AloneInv'
    <2>1. \A i \in DOMAIN replies' : FALSE
      BY <1>1, <1>2
    <2>. QED  BY <1>2, <1>5, <1>10, <2>1, AloneOne
  <1>11. ASSUME NEW p \in {"add", "remove", "set_all"}, NEW o,
                Turned(h, p, o), o.kind \in {"edit", "clear"}, ~o.added,
                SaveHistoryState
         PROVE  AloneInv' /\ [H!Next]_(H!vars)
    <2>1. at'[h] = p /\ op'[h] = o /\ Only(h)'
      BY <1>9, <1>11
    <2>2. ~Applied(h)' /\ Kind(h)' \in {"edit", "clear"} /\ at'[h] # "free"
      BY <1>4, <1>11, <2>1 DEF Kind
    <2>3. undoStack' = Keep(undoStack, rules) /\ redoStack' = <<>>
      BY <1>5, <1>11 DEF SaveHistoryState
    <2>4. /\ undoStack' # <<>> /\ Last(undoStack') = rules
          /\ \/ Pop(undoStack') = undoStack
             \/ undoStack # <<>> /\ Pop(undoStack') = Tail(undoStack)
      BY <1>8, <2>3, KeepTop
    <2>5. AloneInv'
      <3>1. Snapshot(h)'
        BY <1>2, <1>11, <2>1, <2>3, <2>4 DEF Snapshot, Top
      <3>. QED  BY <1>10, <2>1, <2>2, <3>1
    <2>6. Past' = Pop(undoStack') /\ Future' = <<>>
      BY <1>6, <2>1, <2>2, <2>3 DEF MapRow
    <2>7. H!Forget
      BY <1>2, <1>7, <2>4, <2>6 DEF H!Forget
    <2>. QED  BY <2>5, <2>7 DEF H!Next
  <1>12. ASSUME NEW p \in {"free", "confirm", "mode"}, NEW o, Turned(h, p, o),
                o.kind \in {"none", "mode"}, ~o.added, UNCHANGED stacks
         PROVE  AloneInv' /\ [H!Next]_(H!vars)
    <2>1. at'[h] = p /\ op'[h] = o /\ Only(h)'
      BY <1>9, <1>12
    <2>2. ~Applied(h)' /\ Kind(h)' \in {"none", "mode"}
      BY <1>4, <1>12, <2>1 DEF Kind
    <2>3. Snapshot(h)'
      BY <1>12, <2>1 DEF Snapshot
    <2>4. AloneInv'
      BY <1>10, <2>1, <2>2, <2>3
    <2>5. UNCHANGED <<Past, Future>>
      BY <1>6, <1>7, <1>12, <2>1, <2>2 DEF MapRow, stacks
    <2>. QED  BY <1>2, <2>4, <2>5 DEF H!vars
  <1>13. ASSUME NEW kind \in {"undo", "redo"}, NEW list, ApplyState(h, kind, list)
         PROVE  /\ at'[h] = "set_all" /\ Only(h)' /\ ~Applied(h)' /\ Kind(h)' = kind
                /\ op'[h].kind = kind /\ op'[h].list = list
    <2> DEFINE o == [NoOp EXCEPT !.kind = kind, !.list = list]
    <2>1. o.kind = kind /\ o.list = list /\ ~o.added
      BY DEF NoOp
    <2>2. Turned(h, "set_all", o)
      BY <1>13 DEF ApplyState, Invoke, Turned, Places
    <2>. HIDE DEF o
    <2>3. at'[h] = "set_all" /\ op'[h] = o /\ Only(h)'
      BY <1>9, <2>2
    <2>4. ~Applied(h)'
      BY <1>4, <2>1, <2>3
    <2>. QED  BY <2>1, <2>3, <2>4 DEF Kind
  <1>14. ASSUME NEW command \in Edits, NEW todo, StartEdit(h, command, todo)
         PROVE  AloneInv' /\ [H!Next]_(H!vars)
    <2> DEFINE o == [NoOp EXCEPT !.kind = "edit", !.todo = todo]
    <2>1. o.kind = "edit" /\ ~o.added
      BY DEF NoOp
    <2>2. Turned(h, command, o) /\ SaveHistoryState
      BY <1>14 DEF StartEdit, Invoke, Turned, Places, Edits
    <2>. HIDE DEF o
    <2>. QED  BY <1>11, <2>1, <2>2 DEF Edits
  <1>15. CASE AddEntry(h) \/ ImportEntries(h) \/ RemoveEntry(h)
    BY <1>14, <1>15 DEF AddEntry, ImportEntries, RemoveEntry, Edits
  <1>16. CASE ChangeMode(h)
    <2>1. PICK m \in {{}, {RuleMode}} :
              op' = [op EXCEPT ![h] = [NoOp EXCEPT !.kind = "mode", !.list = m]]
      BY <1>16 DEF ChangeMode
    <2> DEFINE o == [NoOp EXCEPT !.kind = "mode", !.list = m]
    <2>2. o.kind = "mode" /\ ~o.added
      BY DEF NoOp
    <2>3. Turned(h, "mode", o) /\ UNCHANGED stacks
      BY <1>16, <2>1 DEF ChangeMode, Invoke, Turned, Places
    <2>. HIDE DEF o
    <2>. QED  BY <1>12, <2>2, <2>3
  <1>17. CASE AskClear(h) \/ Cancel(h)
    <2>1. op' = [op EXCEPT ![h] = NoOp]
      BY <1>3, <1>17 DEF AskClear, Cancel
    <2>2. (Turned(h, "confirm", NoOp) \/ Turned(h, "free", NoOp)) /\ UNCHANGED stacks
      BY <1>17, <2>1 DEF AskClear, Cancel, Turned, Places
    <2>3. NoOp.kind = "none" /\ ~NoOp.added
      BY DEF NoOp
    <2>. QED  BY <1>12, <2>2, <2>3
  <1>18. CASE Confirm(h)
    <2>1. PICK list \in {Domains, Geos} : op' = [op EXCEPT ![h] =
              [NoOp EXCEPT !.kind = "clear", !.list = currentRules \ list]]
      BY <1>18 DEF Confirm
    <2> DEFINE o == [NoOp EXCEPT !.kind = "clear", !.list = currentRules \ list]
    <2>2. o.kind = "clear" /\ ~o.added
      BY DEF NoOp
    <2>3. Turned(h, "set_all", o) /\ SaveHistoryState
      BY <1>18, <2>1 DEF Confirm, Invoke, Turned, Places
    <2>. HIDE DEF o
    <2>. QED  BY <1>11, <2>2, <2>3
  <1>19. CASE Undo(h)
    <2>1. /\ undoStack # <<>> /\ undoStack' = Front(undoStack)
          /\ redoStack' = Append(redoStack, rules)
          /\ ApplyState(h, "undo", Last(undoStack))
      BY <1>5, <1>19 DEF Undo
    <2>2. /\ at'[h] = "set_all" /\ Only(h)' /\ ~Applied(h)' /\ Kind(h)' = "undo"
          /\ op'[h].kind = "undo" /\ op'[h].list = Last(undoStack)
      BY <1>13, <2>1
    <2>3. /\ redoStack' # <<>> /\ Last(redoStack') = rules
          /\ Pop(redoStack') = redoStack
      BY <1>8, <2>1, StackTop
    <2>4. AloneInv'
      <3>1. Snapshot(h)'
        BY <1>2, <2>2, <2>3 DEF Snapshot, Top
      <3>. QED  BY <1>10, <2>2, <3>1
    <2>5. Past' = Append(undoStack', Last(undoStack)) /\ Future' = Pop(redoStack')
      BY <1>6, <2>2 DEF MapRow
    <2>6. UNCHANGED <<Past, Future>>
      BY <1>7, <1>8, <2>1, <2>3, <2>5, StackSplit
    <2>. QED  BY <1>2, <2>4, <2>6 DEF H!vars
  <1>20. CASE Redo(h)
    <2>1. /\ redoStack # <<>> /\ redoStack' = Front(redoStack)
          /\ undoStack' = Append(undoStack, rules)
          /\ ApplyState(h, "redo", Last(redoStack))
      BY <1>5, <1>20 DEF Redo
    <2>2. /\ at'[h] = "set_all" /\ Only(h)' /\ ~Applied(h)' /\ Kind(h)' = "redo"
          /\ op'[h].kind = "redo" /\ op'[h].list = Last(redoStack)
      BY <1>13, <2>1
    <2>3. /\ undoStack' # <<>> /\ Last(undoStack') = rules
          /\ Pop(undoStack') = undoStack
      BY <1>8, <2>1, StackTop
    <2>4. AloneInv'
      <3>1. Snapshot(h)'
        BY <1>2, <2>2, <2>3 DEF Snapshot, Top
      <3>. QED  BY <1>10, <2>2, <3>1
    <2>5. Past' = Pop(undoStack') /\ Future' = Append(redoStack', Last(redoStack))
      BY <1>6, <2>2 DEF MapRow
    <2>6. UNCHANGED <<Past, Future>>
      BY <1>7, <1>8, <2>1, <2>3, <2>5, StackSplit
    <2>. QED  BY <1>2, <2>4, <2>6 DEF H!vars
  <1>. QED  BY <1>15, <1>16, <1>17, <1>18, <1>19, <1>20 DEF Start

-----------------------------------------------------------------------------
(* The theorems.                                                           *)

\* The invariant that the theorems follow from.
LEMMA EditorInvariant == Spec => []IInv
  <1>1. Init => IInv
    <2>. SUFFICES ASSUME Init PROVE IInv
      OBVIOUS
    <2>1. {} \in Lists /\ NoOp \in Ops /\ ~NoOp.added
      BY DEF Lists, NoOp, Ops
    <2>2. PICK h \in Handlers : /\ at = [g \in Handlers |-> IF g = h THEN "get" ELSE "free"]
                                /\ calls = <<h>>
      BY DEF Init
    <2>3. ListsInv
      <3>1. rules \in Lists /\ held = {rules} /\ touched \in [Handlers -> Lists]
        BY <2>1, StoredAssumption DEF Init, Lists, Entries
      <3>2. /\ undoStack = <<>> /\ redoStack = <<>> /\ <<>> \in Seq(Kept)
            /\ Len(<<>>) = 0 /\ 0 + 0 <= Depth
        BY BoundsAssumption, EmptySeq DEF Init
      <3>. QED  BY <3>1, <3>2 DEF Init, ListsInv
    <2>4. TasksInv /\ AnswersInv
      BY <2>1, <2>2, BoundsAssumption DEF Init, TasksInv, AnswersInv, Places, Edits
    <2>5. FlightInv /\ WaitInv
      BY <2>2 DEF Init, FlightInv, WaitInv
    <2>6. TouchInv /\ ReadInv /\ PageTracks
      BY DEF Init, TouchInv, ReadInv, PageTracks, Blank
    <2>. QED  BY <2>3, <2>4, <2>5, <2>6 DEF IInv, TypeInv
  <1>2. IInv /\ [Next]_vars => IInv'
    <2>. SUFFICES ASSUME IInv, [Next]_vars PROVE IInv'
      OBVIOUS
    <2>1. CASE Execute
      BY <2>1, ExecuteStep
    <2>2. CASE Deliver
      BY <2>2, DeliverStep
    <2>3. ASSUME NEW h \in Handlers, Start(h) \/ Confirm(h) \/ Cancel(h)
          PROVE  IInv'
      BY <2>3, StartShape, StartStep DEF IInv
    <2>4. CASE UNCHANGED vars
      BY <2>4 DEF IInv, TypeInv, ListsInv, TasksInv, AnswersInv, Answers, Kept,
                  FlightInv, WaitInv, TouchInv, ReadInv, PageTracks, vars
    <2>. QED  BY <2>1, <2>2, <2>3, <2>4 DEF Next
  <1>. QED  BY <1>1, <1>2, PTL DEF Spec

\* What is in memory and under way: the page, but for the blank one of the start,
\* and every answer hold only lists that the shell has had; undo and redo never
\* hold more than Depth lists; one request is under way for each that waits.
THEOREM EditorTypes == Spec => []TypeOK
  <1>1. IInv => TypeOK
    <2>. SUFFICES ASSUME IInv PROVE TypeOK
      OBVIOUS
    <2>1. TypeInv /\ FlightInv /\ WaitInv
      BY DEF IInv
    <2>2. replies \in Seq([to : Handlers, ok : BOOLEAN, list : held])
      BY <2>1 DEF TypeInv, AnswersInv, Answers
    <2>3. \A h \in Handlers : op[h].list \in Lists /\ touched[h] \in Lists
      BY <2>1 DEF TypeInv, ListsInv, TasksInv, Ops
    <2>4. Kept \subseteq Lists
      BY <2>1 DEF TypeInv, ListsInv, Kept, Blank, Lists
    <2>5. undoStack \in Seq(Lists) /\ redoStack \in Seq(Lists)
      BY <2>1, <2>4, SeqGrows DEF TypeInv, ListsInv
    <2>. QED
      BY <2>1, <2>2, <2>3, <2>5 DEF TypeOK, TypeInv, ListsInv, TasksInv, Places
  <1>. QED  BY <1>1, EditorInvariant, PTL

\* What the page shows differs from the shell's rules only by edits under way,
\* by what a failed command left, and by what it has not read since the start.
THEOREM PageTracksAlways == Spec => []PageTracks
  BY EditorInvariant, PTL DEF IInv

\* Undo and redo restore only lists that the shell has had, or the blank page
\* if it was kept before the first answer.
THEOREM SnapshotsRealAlways == Spec => []SnapshotsReal
  <1>1. IInv => SnapshotsReal
    <2>. SUFFICES ASSUME IInv, NEW i \in DOMAIN (undoStack \o redoStack)
                  PROVE  (undoStack \o redoStack)[i] \in Kept
      BY DEF SnapshotsReal
    <2>1. undoStack \in Seq(Kept) /\ redoStack \in Seq(Kept)
      BY DEF IInv, TypeInv, ListsInv
    <2>2. undoStack \o redoStack \in Seq(Kept)
      BY <2>1, ConcatProperties
    <2>. QED  BY <2>2
  <1>. QED  BY <1>1, EditorInvariant, PTL

\* As long as handlers do not overlap and no save fails, the editor is a
\* history of lists: every step is one of EditHistory's, or shows nothing.
THEOREM HistoryWhenAloneAlways == Spec => HistoryWhenAlone
  <1> DEFINE HInv == IInv /\ OpsInv /\ AloneInv
  <1>1. Init => OpsInv /\ AloneInv
    <2>. SUFFICES ASSUME Init PROVE OpsInv /\ AloneInv
      OBVIOUS
    <2>1. OpsInv
      BY DEF Init, OpsInv, Edits
    <2>2. replies = <<>> /\ \E h \in Handlers : Busy = {h} /\ at[h] = "get"
      BY DEF Init, Busy
    <2>3. \A g, h \in Busy : g = h /\ Applied(g)
      BY <2>2 DEF Applied
    <2>. QED  BY <2>1, <2>2, <2>3 DEF AloneInv, Busy
  <1>2. ASSUME IInv, IInv', OpsInv, AloneInv, [Next]_vars
        PROVE  OpsInv' /\ AloneInv' /\ (alone' => [H!Next]_(H!vars))
    <2>1. TypeInv /\ FlightInv /\ TypeInv'
      BY <1>2 DEF IInv
    <2>2. CASE Next
      <3>1. OpsInv'
        BY <1>2, <2>1, <2>2, OpsStep
      <3>2. ~alone' => AloneInv'
        BY DEF AloneInv
      <3>3. ASSUME alone'
            PROVE  AloneInv' /\ [H!Next]_(H!vars)
        <4>1. CASE Execute
          BY <1>2, <2>1, <3>3, <4>1, ExecuteAlone
        <4>2. CASE Deliver
          BY <1>2, <2>1, <3>3, <4>2, DeliverAlone
        <4>3. CASE \E h \in Handlers : Start(h) \/ Confirm(h) \/ Cancel(h)
          BY <1>2, <2>1, <3>3, <4>3, StartAlone
        <4>. QED  BY <2>2, <4>1, <4>2, <4>3 DEF Next
      <3>. QED  BY <3>1, <3>2, <3>3
    <2>3. CASE UNCHANGED vars
      <3>1. OpsInv'
        BY <1>2, <2>3 DEF OpsInv, vars
      <3>2. AloneInv'
        BY <1>2, <2>3 DEF AloneInv, Busy, Applied, Snapshot, Top, vars
      <3>3. UNCHANGED <<Past, Future, rules>>
        BY <2>3 DEF Past, Future, Unapplied, Busy, Applied, vars
      <3>. QED  BY <3>1, <3>2, <3>3 DEF H!vars
    <2>. QED  BY <1>2, <2>2, <2>3
  <1>3. HInv /\ IInv' /\ [Next]_vars => HInv' /\ (alone' => [H!Next]_(H!vars))
    BY <1>2
  <1>4. HInv /\ IInv' /\ [Next]_vars => HInv'
    BY <1>3
  <1>5. HInv /\ IInv' /\ [Next]_vars => [alone' => [H!Next]_(H!vars)]_vars
    BY <1>3
  <1>6. Init /\ IInv => HInv
    BY <1>1
  <1>. QED
    BY <1>4, <1>5, <1>6, EditorInvariant, PTL DEF Spec, HistoryWhenAlone

=============================================================================
