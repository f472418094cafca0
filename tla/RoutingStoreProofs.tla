------------------------- MODULE RoutingStoreProofs -------------------------
(***************************************************************************)
(* Proofs about RoutingStore for every set of entries, every combination   *)
(* of failing operations and every number of edits and launches.           *)
(***************************************************************************)
EXTENDS RoutingStore, TLAPS

Saving == {"create", "write", "backup", "copy", "rename"}

\* What is in the files at each point of a save.
SaveInv ==
    /\ pc \in Saving \cup {"reply"} => attempted = mem
    /\ pc \in {"backup", "copy", "rename"} => tmp = mem
    /\ pc = "reply" => main = mem
    /\ pc \in Saving \cup {"idle"} => Stored = acked
    /\ pc = "down" => Stored \in {acked, attempted}
    /\ pc = "idle" /\ ~failed => Stored = mem

IInv == TypeOK /\ SaveInv

\* Before the first start nothing is stored and nothing is held.
LEMMA InitInv == Init => IInv
<1> SUFFICES ASSUME Init PROVE IInv
  OBVIOUS
<1> USE ListsAssumption, FilesAssumption, BoundsAssumption
<1>1. failed \in BOOLEAN
  BY Zenon DEF Init
<1>2. TypeOK
  BY <1>1 DEF Init, TypeOK, Contents
<1>3. SaveInv
  BY DEF Init, SaveInv, Saving, Stored
<1>4. QED
  BY <1>2, <1>3 DEF IInv

\* Adding, removing and replacing all come down to one edit.
LEMMA EditOfNext ==
    ASSUME TypeOK,
           \/ \E i \in Items : Add(i) \/ Remove(i)
           \/ \E list \in Lists : SetAll(list)
    PROVE  \E list \in Lists : Edit(list)
BY ListsAssumption DEF TypeOK, Add, Remove, SetAll

\* Every file operation, failure and crash keeps the invariant.
LEMMA NextInv == ASSUME IInv, [Next]_vars PROVE IInv'
<1> USE ListsAssumption, FilesAssumption, BoundsAssumption
        DEF IInv, TypeOK, SaveInv, Saving, Stored, Contents, Goto, files,
            bounds, history
<1>1. CASE Launch
  <2>1. failed' \in BOOLEAN
    BY <1>1, Zenon DEF Launch, LoadWhole, LoadTorn, LoadUnread
  <2>2. TypeOK'
    BY <1>1, <2>1 DEF Launch, LoadWhole, LoadTorn, LoadUnread
  <2>3. SaveInv'
    BY <1>1 DEF Launch, LoadWhole, LoadTorn, LoadUnread
  <2>4. QED
    BY <2>2, <2>3
<1>2. CASE KillShell
  <2>2. TypeOK'
    BY <1>2 DEF KillShell
  <2>3. SaveInv'
    BY <1>2 DEF KillShell
  <2>4. QED
    BY <2>2, <2>3
<1>3. CASE Corrupt
  <2>2. TypeOK'
    BY <1>3 DEF Corrupt
  <2>3. SaveInv'
    BY <1>3 DEF Corrupt
  <2>4. QED
    BY <2>2, <2>3
<1>4. CASE CreateTmp
  <2>1. failed' \in BOOLEAN
    BY <1>4, Zenon DEF CreateTmp, Fails
  <2>2. TypeOK'
    BY <1>4, <2>1 DEF CreateTmp, Fails
  <2>3. SaveInv'
    BY <1>4 DEF CreateTmp, Fails
  <2>4. QED
    BY <2>2, <2>3
<1>5. CASE WriteTmp
  <2>1. failed' \in BOOLEAN
    BY <1>5, Zenon DEF WriteTmp, Fails
  <2>2. TypeOK'
    BY <1>5, <2>1 DEF WriteTmp, Fails
  <2>3. SaveInv'
    BY <1>5 DEF WriteTmp, Fails
  <2>4. QED
    BY <2>2, <2>3
<1>6. CASE BeginBackup
  <2>2. TypeOK'
    BY <1>6 DEF BeginBackup
  <2>3. SaveInv'
    BY <1>6 DEF BeginBackup
  <2>4. QED
    BY <2>2, <2>3
<1>7. CASE EndBackup
  <2>2. TypeOK'
    BY <1>7 DEF EndBackup
  <2>3. SaveInv'
    BY <1>7 DEF EndBackup
  <2>4. QED
    BY <2>2, <2>3
<1>8. CASE Rename
  <2>1. failed' \in BOOLEAN
    BY <1>8, Zenon DEF Rename, Fails
  <2>2. TypeOK'
    BY <1>8, <2>1 DEF Rename, Fails
  <2>3. SaveInv'
    BY <1>8 DEF Rename, Fails
  <2>4. QED
    BY <2>2, <2>3
<1>9. CASE Reply
  <2>1. failed' \in BOOLEAN
    BY <1>9, Zenon DEF Reply
  <2>2. TypeOK'
    BY <1>9, <2>1 DEF Reply
  <2>3. SaveInv'
    BY <1>9 DEF Reply
  <2>4. QED
    BY <2>2, <2>3
<1>10. ASSUME NEW list \in Lists, Edit(list) PROVE IInv'
  BY <1>10 DEF Edit
<1>11. CASE UNCHANGED vars
  BY <1>11 DEF vars
<1>12. QED
  BY <1>1, <1>2, <1>3, <1>4, <1>5, <1>6, <1>7, <1>8, <1>9, <1>10, <1>11, EditOfNext DEF Next, Save

\* What the files hold at each point of a save (routing.rs:62-88), at all times.
THEOREM StoreInvariant == Spec => []IInv
<1>1. IInv /\ [Next]_vars => IInv'
  BY NextInv
<1>2. QED
  BY <1>1, InitInv, PTL DEF Spec

\* The types of the store hold in every reachable state.
THEOREM StoreTypes == Spec => []TypeOK
<1>1. IInv => TypeOK
  BY DEF IInv
<1>2. QED
  BY <1>1, StoreInvariant, PTL

\* After a crash the file holds the list of the last edit that was answered
\* with Ok or of the last save begun (routing.rs:62-88).
THEOREM AckedListSurvives == Spec => []AckedSurvives
<1>1. IInv => AckedSurvives
  BY DEF IInv, SaveInv, AckedSurvives
<1>2. QED
  BY <1>1, StoreInvariant, PTL

\* Memory and file agree between commands unless the last save or load failed
\* (lib.rs:262-340).
THEOREM MemoryAgrees == Spec => []Agree
<1>1. IInv => Agree
  BY DEF IInv, SaveInv, Agree
<1>2. QED
  BY <1>1, StoreInvariant, PTL

-----------------------------------------------------------------------------
(* The store implements DurableRules.                                      *)

\* Every step of the store is a step of DurableRules or leaves it alone.
LEMMA StepImplements ==
    ASSUME IInv, IInv', [Next]_vars
    PROVE  [Durable!Next]_(Durable!vars)
<1> USE ListsAssumption, FilesAssumption
        DEF IInv, TypeOK, SaveInv, Saving, Stored, Contents, Goto, files,
            bounds, history, Lossy, Durable!Next, Durable!vars, Durable!Start,
            Durable!Edit, Durable!Save, Durable!Stop, Durable!Lose
<1>1. CASE Launch
  BY <1>1 DEF Launch, LoadWhole, LoadTorn, LoadUnread
<1>2. CASE KillShell
  BY <1>2 DEF KillShell
<1>3. CASE Corrupt
  BY <1>3 DEF Corrupt
<1>4. CASE CreateTmp
  BY <1>4 DEF CreateTmp, Fails
<1>5. CASE WriteTmp
  BY <1>5 DEF WriteTmp, Fails
<1>6. CASE BeginBackup
  BY <1>6 DEF BeginBackup
<1>7. CASE EndBackup
  BY <1>7 DEF EndBackup
<1>8. CASE Rename
  BY <1>8 DEF Rename, Fails
<1>9. CASE Reply
  BY <1>9 DEF Reply
<1>10. ASSUME NEW list \in Lists, Edit(list) PROVE [Durable!Next]_(Durable!vars)
  BY <1>10 DEF Edit
<1>11. CASE UNCHANGED vars
  BY <1>11 DEF vars
<1>12. QED
  BY <1>1, <1>2, <1>3, <1>4, <1>5, <1>6, <1>7, <1>8, <1>9, <1>10, <1>11, EditOfNext DEF Next, Save

\* The three-file save with its failures and crashes is the atomic store; on a
\* disk that neither damages nor withholds the file, a start recovers exactly
\* what was stored (routing.rs:40-88).
THEOREM Implements == Spec => ImplementsDurable
<1>1. Init => Durable!Init
  BY FilesAssumption DEF Init, Durable!Init, Stored
<1>2. IInv /\ IInv' /\ [Next]_vars => [Durable!Next]_(Durable!vars)
  BY StepImplements
<1>3. QED
  BY <1>1, <1>2, StoreInvariant, PTL DEF Spec, ImplementsDurable, Durable!Spec
=============================================================================
