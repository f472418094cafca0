----------------------------- MODULE VpnSession -----------------------------
(***************************************************************************)
(* What the engine manager promises to whoever uses the main window: while *)
(* the window is open there is at most one engine, a new one starts only   *)
(* when the previous one is gone, and an orderly close waits until there   *)
(* is no engine left.  How engines are started, killed, tracked and tied   *)
(* to a job object is not part of the promise.                             *)
(***************************************************************************)
CONSTANT Engines

VARIABLES
    open,       \* is the main window open?
    engines     \* the engines this session has running

vars == <<open, engines>>

Init == open = FALSE /\ engines = {}

Open == ~open /\ open' = TRUE /\ UNCHANGED engines

Start == /\ open
         /\ engines = {}
         /\ \E e \in Engines : engines' = {e}
         /\ UNCHANGED open

\* The engine ends: stopped by the user or gone by itself.
End == engines # {} /\ engines' = {} /\ UNCHANGED open

Close == open /\ engines = {} /\ open' = FALSE /\ UNCHANGED engines

\* The program dies, whatever it was doing; its session ends with it.
Abort == open /\ open' = FALSE /\ engines' = {}

Next == Open \/ Start \/ End \/ Close \/ Abort

Spec == Init /\ [][Next]_vars
=============================================================================
