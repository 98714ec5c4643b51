--------------------------- MODULE LifecycleProofs ---------------------------
(***************************************************************************)
(* Theorems about Lifecycle, for any set of transactions, any number of    *)
(* operator requests and overlapping runs, and any bound on failures.      *)
(***************************************************************************)
EXTENDS Lifecycle, FiniteSetTheorems, TLAPS

USE DEF tables, store, backend

LEMMA BumpType ==
    ASSUME NEW f \in [Txn -> Nat], NEW S
    PROVE  Bump(f, S) \in [Txn -> Nat]
  BY DEF Bump

-----------------------------------------------------------------------------
(* Type correctness.                                                       *)

LEMMA InitTypeOK == Init => TypeOK
  <1> SUFFICES ASSUME Init PROVE TypeOK
    OBVIOUS
  <1>1. StoreTypeOK
    BY StoreAssumption DEF Init, StoreInit, StoreTypeOK, Status
  <1>2. BackendTypeOK
    BY DEF Init, BackendInit, BackendTypeOK, NoCall, Call
  <1>3. CronTypeOK
    BY DEF Init, CronInit, CronTypeOK, NoRun, RunState, Label
  <1> QED
    BY <1>1, <1>2, <1>3 DEF TypeOK

LEMMA AuthnetTypeOK ==
    TypeOK /\ AuthnetNext /\ UNCHANGED <<backend, run>> => TypeOK'
  <1> SUFFICES ASSUME TypeOK, NEW t \in Txn, Capture(t) \/ Settle(t) \/ Void(t),
                      UNCHANGED <<backend, run>>
               PROVE  TypeOK'
    BY DEF AuthnetNext
  <1>1. StoreTypeOK'
    BY DEF TypeOK, StoreTypeOK, Status, Capture, Settle, Void
  <1>2. BackendTypeOK'
    BY DEF TypeOK, BackendTypeOK
  <1>3. CronTypeOK'
    BY DEF TypeOK, CronTypeOK
  <1> QED
    BY <1>1, <1>2, <1>3 DEF TypeOK

\* Each action of the backend keeps the types.
LEMMA BackendStepTypeOK ==
    TypeOK /\ BackendNext => StoreTypeOK' /\ BackendTypeOK'
  <1> SUFFICES ASSUME TypeOK, BackendNext
               PROVE  StoreTypeOK' /\ BackendTypeOK'
    OBVIOUS
  <1> USE DEF TypeOK
  <1>0. Hook \in Caller /\ Request \subseteq Caller
    BY DEF Caller
  <1>1. ASSUME NEW t \in Txn, Deliver(t) PROVE StoreTypeOK' /\ BackendTypeOK'
    BY <1>0, <1>1 DEF Deliver, StoreTypeOK, BackendTypeOK, Call
  <1>2. CASE ShouldSkip
    BY <1>0, <1>2 DEF ShouldSkip, StoreTypeOK, BackendTypeOK, Call, Answer, Answered,
                NoCall, Goto
  <1>3. CASE ShouldSkipFails
    BY <1>0, <1>3 DEF ShouldSkipFails, Fault, StoreTypeOK, BackendTypeOK, Call, Goto
  <1>4. ASSUME NEW c \in Caller, CreateNewRead(c) PROVE StoreTypeOK' /\ BackendTypeOK'
    BY <1>4 DEF CreateNewRead, StoreTypeOK, BackendTypeOK, Call, Answer, Answered,
                NoCall, Goto, Return
  <1>5. ASSUME NEW c \in Caller, CreateNewSave(c) PROVE StoreTypeOK' /\ BackendTypeOK'
    BY <1>5 DEF CreateNewSave, InsertCreated, StoreTypeOK, BackendTypeOK, Call, Answer,
                Answered, NoCall, Goto, Return
  <1>6. ASSUME NEW c \in Caller, CreateNewRefused(c) PROVE StoreTypeOK' /\ BackendTypeOK'
    BY <1>6 DEF CreateNewRefused, StoreTypeOK, BackendTypeOK, Call, Answer, Answered, NoCall
  <1>7. ASSUME NEW c \in Caller, CallFails(c) PROVE StoreTypeOK' /\ BackendTypeOK'
    BY <1>7 DEF CallFails, Fault, StoreTypeOK, BackendTypeOK, Call, Answer, Answered, NoCall
  <1>8. ASSUME NEW q \in Request, Restore(q) PROVE StoreTypeOK' /\ BackendTypeOK'
    BY <1>0, <1>8 DEF Restore, StoreTypeOK, BackendTypeOK, Call
  <1>9. ASSUME NEW q \in Request, RestoreRemove(q) PROVE StoreTypeOK' /\ BackendTypeOK'
    BY <1>0, <1>9 DEF RestoreRemove, RemoveIssueRow, StoreTypeOK, BackendTypeOK, Call,
                      Answer, Answered, NoCall
  <1>10. ASSUME NEW q \in Request, Delete(q) PROVE StoreTypeOK' /\ BackendTypeOK'
    BY <1>0, <1>10 DEF Delete, RemoveIssueRow, StoreTypeOK, BackendTypeOK, Call,
                       Answer, Answered, NoCall
  <1> QED
    BY <1>1, <1>2, <1>3, <1>4, <1>5, <1>6, <1>7, <1>8, <1>9, <1>10
       DEF BackendNext, HookNext, RequestNext, CreateNewNext

\* Each action of a run keeps the types.
LEMMA CronStepTypeOK ==
    TypeOK /\ CronNext => StoreTypeOK' /\ CronTypeOK'
  <1> SUFFICES ASSUME TypeOK, CronNext
               PROVE  StoreTypeOK' /\ CronTypeOK'
    OBVIOUS
  <1> USE DEF TypeOK
  <1>a. PICK r \in Run : RunNext(r) \/ BackgroundNext(r) \/ RunFails(r)
    BY DEF CronNext
  <1>b. /\ run[r] \in RunState
        /\ run[r].reject \subseteq SUBSET Txn /\ run[r].groups \subseteq SUBSET Txn
    BY DEF CronTypeOK, RunState
  <1> USE CronAssumption, BumpType DEF StoreTypeOK, CronTypeOK, RunState, Label, At, Become
  <1>1. CASE Start(r)
    BY <1>b, <1>1 DEF Start, NoRun
  <1>2. CASE RemoveDuplicates(r)
    BY <1>b, <1>2 DEF RemoveDuplicates, DeleteCreated
  <1>3. CASE FetchDetails(r)
    BY <1>b, <1>3 DEF FetchDetails
  <1>4. CASE IssuedProcess(r)
    BY <1>b, <1>4 DEF IssuedProcess
  <1>5. ASSUME NEW t \in Txn, IssuedMove(r, t) PROVE StoreTypeOK' /\ CronTypeOK'
    <2>1. StoreTypeOK'
      BY <1>b, <1>5 DEF IssuedMove, MoveIssued
    <2>2. CronTypeOK'
      BY <1>b, <1>5 DEF IssuedMove
    <2> QED
      BY <2>1, <2>2
  <1>6. ASSUME NEW t \in Txn, IssuedMoveFails(r, t) PROVE StoreTypeOK' /\ CronTypeOK'
    <2>1. StoreTypeOK'
      BY <1>b, <1>6 DEF IssuedMoveFails, Fault
    <2>2. CronTypeOK'
      BY <1>b, <1>6 DEF IssuedMoveFails
    <2> QED
      BY <2>1, <2>2
  <1>7. ASSUME NEW t \in Txn, VoidedMove(r, t) PROVE StoreTypeOK' /\ CronTypeOK'
    <2>1. StoreTypeOK'
      BY <1>b, <1>7 DEF VoidedMove, MoveIssued
    <2>2. CronTypeOK'
      BY <1>b, <1>7 DEF VoidedMove
    <2> QED
      BY <2>1, <2>2
  <1>8. ASSUME NEW t \in Txn, VoidedRefused(r, t) PROVE StoreTypeOK' /\ CronTypeOK'
    BY <1>b, <1>8 DEF VoidedRefused
  <1>9. ASSUME NEW t \in Txn, VoidedFails(r, t) PROVE StoreTypeOK' /\ CronTypeOK'
    <2>1. StoreTypeOK'
      BY <1>b, <1>9 DEF VoidedFails, Fault
    <2>2. CronTypeOK'
      BY <1>b, <1>9 DEF VoidedFails
    <2> QED
      BY <2>1, <2>2
  <1>10. CASE VoidedDone(r)
    BY <1>b, <1>10 DEF VoidedDone
  <1>11. ASSUME NEW t \in Txn, BigCommerceRemove(r, t) PROVE StoreTypeOK' /\ CronTypeOK'
    BY <1>b, <1>11 DEF BigCommerceRemove, DeleteCreated
  <1>12. CASE CommonProcess(r)
    <2>1. StoreTypeOK'
      BY <1>b, <1>12 DEF CommonProcess
    <2>2. CronTypeOK'
      <3>1. Combine[run[r].batch] \in SUBSET SUBSET Txn
        BY <1>b
      <3> DEFINE approved == {g \in Combine[run[r].batch] : Approved(g, run[r].settled)}
                 state == [run[r] EXCEPT !.pc = "reject", !.batch = {}, !.settled = {},
                                         !.reject = approved \cap Unknown,
                                         !.groups = approved \ Unknown]
      <3>2. approved \cap Unknown \in SUBSET SUBSET Txn
            /\ approved \ Unknown \in SUBSET SUBSET Txn
        BY <3>1
      <3>3. state \in RunState
        <4> HIDE DEF approved
        <4> QED BY <1>b, <3>2
      <3>4. run' = [run EXCEPT ![r] = state]
        BY <1>12 DEF CommonProcess
      <3> HIDE DEF state
      <3> QED
        BY <3>3, <3>4
    <2> QED
      BY <2>1, <2>2
  <1>13. ASSUME NEW g \in run[r].reject, Reject(r, g) PROVE StoreTypeOK' /\ CronTypeOK'
    <2>1. StoreTypeOK'
      BY <1>b, <1>13 DEF Reject, MoveIssued
    <2>2. CronTypeOK'
      BY <1>b, <1>13 DEF Reject
    <2> QED
      BY <2>1, <2>2
  <1>14. ASSUME NEW g \in run[r].reject, RejectThrows(r, g) PROVE StoreTypeOK' /\ CronTypeOK'
    BY <1>b, <1>14 DEF RejectThrows, End, NoRun
  <1>15. CASE CommonDone(r)
    BY <1>b, <1>15 DEF CommonDone
  <1>16. ASSUME NEW g \in run[r].groups, CreateOrder(r, g) PROVE StoreTypeOK' /\ CronTypeOK'
    <2>1. StoreTypeOK'
      BY <1>b, <1>16 DEF CreateOrder, Take
    <2>2. CronTypeOK'
      BY <1>b, <1>16 DEF CreateOrder, Take
    <2> QED
      BY <2>1, <2>2
  <1>17. ASSUME NEW g \in run[r].groups, CreateOrderLost(r, g) PROVE StoreTypeOK' /\ CronTypeOK'
    <2>1. StoreTypeOK'
      BY <1>b, <1>17 DEF CreateOrderLost, Take, Fault
    <2>2. CronTypeOK'
      BY <1>b, <1>17 DEF CreateOrderLost, Take
    <2> QED
      BY <2>1, <2>2
  <1>18. ASSUME NEW g \in run[r].groups, CreateOrderRefused(r, g) PROVE StoreTypeOK' /\ CronTypeOK'
    <2>1. StoreTypeOK'
      BY <1>b, <1>18 DEF CreateOrderRefused, Take, Fault
    <2>2. CronTypeOK'
      BY <1>b, <1>18 DEF CreateOrderRefused, Take
    <2> QED
      BY <2>1, <2>2
  <1>19. CASE Move(r)
    <2>1. StoreTypeOK'
      BY <1>b, <1>19 DEF Move, MoveProcessed
    <2>2. CronTypeOK'
      BY <1>b, <1>19 DEF Move
    <2> QED
      BY <2>1, <2>2
  <1>20. CASE MoveFails(r)
    <2>1. StoreTypeOK'
      BY <1>b, <1>20 DEF MoveFails, Fault
    <2>2. CronTypeOK'
      BY <1>b, <1>20 DEF MoveFails
    <2> QED
      BY <2>1, <2>2
  <1>21. CASE Issue(r)
    <2>1. StoreTypeOK'
      BY <1>b, <1>21 DEF Issue, MoveIssued
    <2>2. CronTypeOK'
      BY <1>b, <1>21 DEF Issue
    <2> QED
      BY <2>1, <2>2
  <1>22. CASE IssueThrows(r)
    BY <1>b, <1>22 DEF IssueThrows, End, NoRun
  <1>23. CASE Finish(r)
    BY <1>b, <1>23 DEF Finish, End, NoRun
  <1>24. CASE Die(r)
    <2>1. StoreTypeOK'
      BY <1>b, <1>24 DEF Die, Fault
    <2>2. CronTypeOK'
      BY <1>b, <1>24 DEF Die, End, NoRun
    <2> QED
      BY <2>1, <2>2
  <1>25. CASE FetchThrows(r)
    BY <1>b, <1>25 DEF FetchThrows, End, NoRun
  <1> QED
    BY <1>a, <1>1, <1>2, <1>3, <1>4, <1>5, <1>6, <1>7, <1>8, <1>9, <1>10, <1>11, <1>12,
       <1>13, <1>14, <1>15, <1>16, <1>17, <1>18, <1>19, <1>20, <1>21, <1>22, <1>23, <1>24, <1>25
       DEF RunNext, BackgroundNext, RunFails, ReadNext, SkipNext, CommonNext, OrderNext

LEMMA NextTypeOK == TypeOK /\ [Next]_vars => TypeOK'
  <1> SUFFICES ASSUME TypeOK, [Next]_vars PROVE TypeOK'
    OBVIOUS
  <1>1. CASE AuthnetNext /\ UNCHANGED <<backend, run>>
    BY <1>1, AuthnetTypeOK
  <1>2. CASE BackendNext /\ UNCHANGED run
    BY <1>2, BackendStepTypeOK DEF TypeOK, CronTypeOK
  <1>3. CASE CronNext /\ UNCHANGED backend
    BY <1>3, CronStepTypeOK DEF TypeOK, BackendTypeOK
  <1>4. CASE UNCHANGED vars
    BY <1>4 DEF vars, TypeOK, StoreTypeOK, BackendTypeOK, CronTypeOK
  <1> QED
    BY <1>1, <1>2, <1>3, <1>4 DEF Next

\* Every variable keeps its type, whatever the programs interleave.
THEOREM TypeCorrect == Spec => []TypeOK
  BY InitTypeOK, NextTypeOK, PTL DEF Spec

-----------------------------------------------------------------------------
(* Lifecycle implements Custody.  What the tables may do in one step is    *)
(* put into six kinds (TableStep); every action is of one kind under the   *)
(* invariant CustodyInv, and each kind keeps the invariant and is a step   *)
(* of Custody.                                                             *)

AllKnown(T) == \A t \in T : t \in BigCommerce \/ Known(t)

\* A row of issues is removed and another table has a copy.
DropCopy(t) == /\ t \in created \cup processed \cup BigCommerce
               /\ issues' = issues \ {t}
               /\ UNCHANGED <<created, issueKey, processed, discarded>>

\* The operator's delete.
DropRow(t) == /\ issues' = issues \ {t}
              /\ discarded' = IF t \in created \cup processed
                              THEN discarded ELSE discarded \cup {t}
              /\ UNCHANGED <<created, issueKey, processed>>

TableStep ==
    \/ UNCHANGED tables
    \/ \E t \in Txn : InsertCreated(t)
    \/ \E T \in SUBSET Txn : AllKnown(T) /\ (MoveIssued(T) \/ MoveProcessed(T))
    \/ \E T \in SUBSET Txn : T \subseteq processed \cup BigCommerce /\ DeleteCreated(T)
    \/ \E t \in Txn : DropCopy(t)
    \/ \E t \in issues : DropRow(t)

-----------------------------------------------------------------------------
(* Every step is a TableStep.                                              *)

LEMMA BackendTableStep ==
    TypeOK /\ CustodyInv /\ BackendNext => TableStep
  <1> SUFFICES ASSUME TypeOK, CustodyInv, BackendNext
               PROVE  TableStep
    OBVIOUS
  <1>0. Hook \in Caller /\ Request \subseteq Caller
    BY DEF Caller
  <1>1. CASE HookNext
    BY <1>1 DEF HookNext, Deliver, ShouldSkip, ShouldSkipFails, TableStep
  <1>2. ASSUME NEW q \in Request, Restore(q) PROVE TableStep
    BY <1>2 DEF Restore, TableStep
  <1>3. ASSUME NEW q \in Request, RestoreRemove(q) PROVE TableStep
    <2>1. call[q].txn \in Txn
      BY <1>0, <1>3 DEF TypeOK, BackendTypeOK, RestoreRemove
    <2>2. CASE issueKey[call[q].txn] = call[q].key /\ call[q].txn \in issues
      BY <1>3, <2>1, <2>2
         DEF RestoreRemove, RemoveIssueRow, CustodyInv, RestoreSafe, TableStep, DropCopy
    <2>3. CASE ~(issueKey[call[q].txn] = call[q].key /\ call[q].txn \in issues)
      <3>1. issues' = issues
        BY <1>3, <2>3 DEF RestoreRemove, RemoveIssueRow
      <3> QED
        BY <1>3, <3>1 DEF RestoreRemove, TableStep
    <2> QED
      BY <2>2, <2>3
  <1>4. ASSUME NEW q \in Request, Delete(q) PROVE TableStep
    BY <1>4 DEF Delete, RemoveIssueRow, DropRow, TableStep
  <1>5. ASSUME NEW c \in Caller, CreateNewNext(c) \/ CallFails(c) PROVE TableStep
    <2>1. CASE CreateNewSave(c)
      <3>1. call[c].txn \in Txn
        BY <2>1 DEF TypeOK, BackendTypeOK, CreateNewSave
      <3> QED
        BY <2>1, <3>1 DEF CreateNewSave, TableStep
    <2>2. CASE ~CreateNewSave(c)
      BY <1>5, <2>2 DEF CreateNewNext, CreateNewRead, CreateNewRefused, CallFails, TableStep
    <2> QED
      BY <2>1, <2>2
  <1> QED
    BY <1>1, <1>2, <1>3, <1>4, <1>5 DEF BackendNext, RequestNext

LEMMA CronTableStep ==
    TypeOK /\ CustodyInv /\ CronNext => TableStep
  <1> SUFFICES ASSUME TypeOK, CustodyInv,
                      NEW r \in Run, RunNext(r) \/ BackgroundNext(r) \/ RunFails(r)
               PROVE  TableStep
    BY DEF CronNext
  <1>a. /\ run[r].batch \subseteq Txn /\ run[r].cur \subseteq Txn
        /\ run[r].reject \subseteq SUBSET Txn
    BY DEF TypeOK, CronTypeOK, RunState
  <1>b. AllKnown(InHand(r))
    BY DEF CustodyInv, HandsKnown, AllKnown
  <1>1. CASE ReadNext(r)
    BY <1>a, <1>1 DEF ReadNext, Start, RemoveDuplicates, FetchDetails, FetchThrows, TableStep
  <1>2. CASE IssuedProcess(r) \/ VoidedDone(r)
    BY <1>2 DEF IssuedProcess, VoidedDone, TableStep
  <1>3. ASSUME NEW t \in Txn, VoidedMove(r, t) \/ VoidedRefused(r, t) PROVE TableStep
    <2>1. AllKnown({t})
      BY <1>b, <1>3 DEF AllKnown, InHand, VoidedMove, VoidedRefused
    <2> QED
      BY <1>3, <2>1 DEF VoidedMove, VoidedRefused, TableStep
  <1>4. ASSUME NEW t \in Txn, BigCommerceRemove(r, t) PROVE TableStep
    <2>1. t \in BigCommerce
      BY <1>4 DEF BigCommerceRemove, CustodyInv, SkipsBigCommerce, At
    <2> QED
      BY <1>4, <2>1 DEF BigCommerceRemove, TableStep
  <1>5. ASSUME NEW t \in Txn, IssuedMove(r, t) PROVE TableStep
    <2>1. AllKnown({t})
      BY <1>b, <1>5 DEF AllKnown, InHand, IssuedMove
    <2> QED
      BY <1>5, <2>1 DEF IssuedMove, TableStep
  <1>6. CASE CommonProcess(r) \/ CommonDone(r)
    BY <1>6 DEF CommonProcess, CommonDone, TableStep
  <1>7. ASSUME NEW g \in run[r].reject, Reject(r, g) \/ RejectThrows(r, g) PROVE TableStep
    <2>1. g \in SUBSET Txn /\ AllKnown(g)
      BY <1>a, <1>b DEF AllKnown, InHand
    <2> QED
      BY <1>7, <2>1 DEF Reject, RejectThrows, TableStep
  <1>8. ASSUME NEW g \in run[r].groups, CreateOrder(r, g) PROVE TableStep
    BY <1>8 DEF CreateOrder, TableStep
  <1>9. CASE Move(r) \/ Issue(r)
    <2>1. run[r].cur \in SUBSET Txn /\ AllKnown(run[r].cur)
      BY <1>a, <1>b DEF AllKnown, InHand
    <2> QED
      BY <1>9, <2>1 DEF Move, Issue, TableStep
  <1>10. CASE IssueThrows(r) \/ Finish(r)
    BY <1>10 DEF IssueThrows, Finish, TableStep
  <1>11. CASE RunFails(r)
    BY <1>11 DEF RunFails, IssuedMoveFails, VoidedFails, CreateOrderLost,
                 CreateOrderRefused, MoveFails, Die, TableStep
  <1> QED
    BY <1>1, <1>2, <1>3, <1>4, <1>5, <1>6, <1>7, <1>8, <1>9, <1>10, <1>11
       DEF RunNext, BackgroundNext, SkipNext, CommonNext, OrderNext

LEMMA NextTableStep ==
    TypeOK /\ CustodyInv /\ [Next]_vars => TableStep
  <1> SUFFICES ASSUME TypeOK, CustodyInv, [Next]_vars PROVE TableStep
    OBVIOUS
  <1>1. CASE AuthnetNext
    BY <1>1 DEF AuthnetNext, Capture, Settle, Void, TableStep
  <1>2. CASE UNCHANGED vars
    BY <1>2 DEF vars, TableStep
  <1> QED
    BY <1>1, <1>2, BackendTableStep, CronTableStep DEF Next

-----------------------------------------------------------------------------
(* The invariant.                                                          *)

\* A transaction that is known, and not of BigCommerce, stays known.
LEMMA KnownStays ==
    ASSUME TableStep, NEW t \in Txn \ BigCommerce, Known(t)
    PROVE  Known(t)'
  <1>1. CASE UNCHANGED tables
    BY <1>1 DEF Known, Held
  <1>2. ASSUME NEW s \in Txn, InsertCreated(s) \/ DropCopy(s) PROVE Known(t)'
    BY <1>2 DEF InsertCreated, DropCopy, Known, Held
  <1>3. ASSUME NEW T \in SUBSET Txn, MoveIssued(T) \/ MoveProcessed(T) PROVE Known(t)'
    BY <1>3 DEF MoveIssued, MoveProcessed, Known, Held
  <1>4. ASSUME NEW T \in SUBSET Txn, T \subseteq processed \cup BigCommerce,
               DeleteCreated(T)
        PROVE  Known(t)'
    BY <1>4 DEF DeleteCreated, Known, Held
  <1>5. ASSUME NEW s \in issues, DropRow(s) PROVE Known(t)'
    BY <1>5 DEF DropRow, Known, Held
  <1> QED
    BY <1>1, <1>2, <1>3, <1>4, <1>5 DEF TableStep

\* A run takes into its hands only what it reads in created.
LEMMA HandsGrow ==
    ASSUME TypeOK, NEW r \in Run, CronNext
    PROVE  InHand(r)' \subseteq InHand(r) \cup created
  <1> PICK s \in Run : RunNext(s) \/ BackgroundNext(s) \/ RunFails(s)
    BY DEF CronNext
  <1>a. run \in [Run -> RunState] /\ run[s] \in RunState
    BY DEF TypeOK, CronTypeOK
  <1>b. PICK state : run' = [run EXCEPT ![s] = state]
    BY DEF RunNext, BackgroundNext, RunFails, ReadNext, SkipNext, CommonNext, OrderNext,
           Start, RemoveDuplicates, FetchDetails, FetchThrows, IssuedProcess, IssuedMove,
           IssuedMoveFails, VoidedMove, VoidedRefused, VoidedFails, VoidedDone, BigCommerceRemove,
           CommonProcess, Reject, RejectThrows, CommonDone, Take, CreateOrder,
           CreateOrderLost, CreateOrderRefused, Move, MoveFails, Issue, IssueThrows,
           Finish, Die, End, Become
  <1>1. CASE r # s
    BY <1>1, <1>a, <1>b DEF InHand
  <1>2. CASE r = s
    <2> USE <1>2, <1>a DEF InHand, Become, RunState
    <2>1. CASE ReadNext(s)
      <3>1. CASE Start(s)
        BY <3>1 DEF Start, NoRun
      <3>2. CASE RemoveDuplicates(s)
        BY <3>2 DEF RemoveDuplicates
      <3>3. CASE FetchDetails(s)
        BY <3>3 DEF FetchDetails
      <3>4. CASE FetchThrows(s)
        BY <3>4 DEF FetchThrows, End, NoRun
      <3> QED
        BY <2>1, <3>1, <3>2, <3>3, <3>4 DEF ReadNext
    <2>2. CASE SkipNext(s)
      <3>1. CASE IssuedProcess(s)
        BY <3>1 DEF IssuedProcess
      <3>2. CASE VoidedDone(s)
        BY <3>2 DEF VoidedDone
      <3>3. ASSUME NEW t \in Txn, VoidedMove(s, t) PROVE InHand(r)' \subseteq InHand(r) \cup created
        BY <3>3 DEF VoidedMove
      <3>4. ASSUME NEW t \in Txn, VoidedRefused(s, t) PROVE InHand(r)' \subseteq InHand(r) \cup created
        BY <3>4 DEF VoidedRefused
      <3>5. ASSUME NEW t \in Txn, BigCommerceRemove(s, t) PROVE InHand(r)' \subseteq InHand(r) \cup created
        BY <3>5 DEF BigCommerceRemove
      <3> QED
        BY <2>2, <3>1, <3>2, <3>3, <3>4, <3>5 DEF SkipNext
    <2>3. CASE CommonProcess(s)
      <3> DEFINE approved == {g \in Combine[run[s].batch] : Approved(g, run[s].settled)}
                 new == [run[s] EXCEPT !.pc = "reject", !.batch = {}, !.settled = {},
                                       !.reject = approved \cap Unknown,
                                       !.groups = approved \ Unknown]
      <3>1. UNION approved \subseteq run[s].batch
        BY CronAssumption
      <3>2. run'[s] = new
        BY <2>3 DEF CommonProcess
      <3> HIDE DEF approved
      <3>3. /\ new.batch = {} /\ new.todo = run[s].todo /\ new.bg = run[s].bg
            /\ new.cur = run[s].cur
            /\ new.reject = approved \cap Unknown /\ new.groups = approved \ Unknown
        OBVIOUS
      <3>4. UNION new.reject \subseteq run[s].batch /\ UNION new.groups \subseteq run[s].batch
        BY <3>1, <3>3
      <3> HIDE DEF new
      <3>5. InHand(r)' = new.batch \cup new.todo \cup new.bg \cup new.cur
                         \cup (UNION new.reject) \cup (UNION new.groups)
        BY <3>2
      <3>6. InHand(r)' \subseteq run[s].batch \cup run[s].todo \cup run[s].bg \cup run[s].cur
        BY <3>3, <3>4, <3>5
      <3> QED
        BY <3>6
    <2>4. CASE CommonNext(s) /\ ~CommonProcess(s)
      BY <2>4 DEF CommonNext, CommonDone, Reject, RejectThrows, End, NoRun
    <2>5. ASSUME NEW g \in run[s].groups, NEW label \in Label, Take(s, g, label)
          PROVE  InHand(r)' \subseteq InHand(r) \cup created
      <3>1. run'[s] = [run[s] EXCEPT !.pc = label, !.cur = g, !.groups = @ \ {g}]
        BY <2>5 DEF Take
      <3>2. /\ run'[s].batch = run[s].batch /\ run'[s].todo = run[s].todo
            /\ run'[s].bg = run[s].bg /\ run'[s].cur = g
            /\ run'[s].reject = run[s].reject /\ run'[s].groups = run[s].groups \ {g}
        BY <3>1
      <3>3. InHand(r)' = run[s].batch \cup run[s].todo \cup run[s].bg \cup g
                         \cup (UNION run[s].reject) \cup (UNION (run[s].groups \ {g}))
        BY <3>2
      <3>4. g \subseteq UNION run[s].groups
            /\ UNION (run[s].groups \ {g}) \subseteq UNION run[s].groups
        OBVIOUS
      <3>5. InHand(r)' \subseteq run[s].batch \cup run[s].todo \cup run[s].bg
                              \cup (UNION run[s].reject) \cup (UNION run[s].groups)
        BY <3>3, <3>4
      <3> QED
        BY <3>5
    <2>6. CASE Move(s) \/ Issue(s) \/ IssueThrows(s) \/ Finish(s)
      <3>1. CASE Move(s)
        BY <3>1 DEF Move
      <3>2. CASE Issue(s)
        <4>1. run'[s] = [run[s] EXCEPT !.pc = "order", !.cur = {}]
          BY <3>2 DEF Issue
        <4>2. /\ run'[s].batch = run[s].batch /\ run'[s].todo = run[s].todo
              /\ run'[s].bg = run[s].bg /\ run'[s].cur = {}
              /\ run'[s].reject = run[s].reject /\ run'[s].groups = run[s].groups
          BY <4>1
        <4> QED
          BY <4>2
      <3>3. CASE IssueThrows(s) \/ Finish(s)
        BY <3>3 DEF IssueThrows, Finish, End, NoRun
      <3> QED
        BY <2>6, <3>1, <3>2, <3>3
    <2>7. ASSUME NEW t \in Txn, IssuedMove(s, t)
          PROVE  InHand(r)' \subseteq InHand(r) \cup created
      BY <2>7 DEF IssuedMove
    <2>8. ASSUME NEW t \in Txn, IssuedMoveFails(s, t) \/ VoidedFails(s, t)
          PROVE  InHand(r)' \subseteq InHand(r) \cup created
      BY <2>8 DEF IssuedMoveFails, VoidedFails
    <2>9. CASE MoveFails(s) \/ Die(s)
      BY <2>9 DEF MoveFails, Die, End, NoRun
    <2> QED
      BY <2>1, <2>2, <2>3, <2>4, <2>5, <2>6, <2>7, <2>8, <2>9
         DEF RunNext, BackgroundNext, RunFails, OrderNext, CreateOrder, CreateOrderLost,
             CreateOrderRefused, Label
  <1> QED
    BY <1>1, <1>2

LEMMA HandsKnownStep ==
    TypeOK /\ CustodyInv /\ [Next]_vars => HandsKnown'
  <1> SUFFICES ASSUME TypeOK, CustodyInv, [Next]_vars,
                      NEW r \in Run, NEW t \in InHand(r)', t \notin BigCommerce
               PROVE  Known(t)'
    BY DEF HandsKnown
  <1>1. InHand(r)' \subseteq InHand(r) \cup created
    <2>1. CASE CronNext
      BY <2>1, HandsGrow
    <2>2. CASE run' = run
      BY <2>2 DEF InHand
    <2> QED
      BY <2>1, <2>2 DEF Next, vars
  <1>2. Known(t)
    BY <1>1 DEF CustodyInv, HandsKnown, Known, Held
  <1>3. t \in Txn
    BY <1>2 DEF Known, Held, TypeOK, StoreTypeOK
  <1> QED
    BY <1>2, <1>3, NextTableStep, KnownStays

\* Keys are given in increasing order.
LEMMA KeysGrow ==
    ASSUME TypeOK, TableStep
    PROVE  \A t \in Txn : issueKey[t] <= issueKey'[t]
  <1> SUFFICES ASSUME NEW t \in Txn PROVE issueKey[t] <= issueKey'[t]
    OBVIOUS
  <1>0. issueKey[t] \in Nat
    BY DEF TypeOK, StoreTypeOK
  <1>1. ASSUME NEW T \in SUBSET Txn, MoveIssued(T) PROVE issueKey[t] <= issueKey'[t]
    BY <1>0, <1>1 DEF MoveIssued, Bump
  <1>2. ASSUME NEW T \in SUBSET Txn, MoveProcessed(T) \/ DeleteCreated(T)
        PROVE  issueKey[t] <= issueKey'[t]
    BY <1>0, <1>2 DEF MoveProcessed, DeleteCreated
  <1>3. ASSUME NEW s, InsertCreated(s) \/ DropCopy(s) \/ DropRow(s)
        PROVE  issueKey[t] <= issueKey'[t]
    BY <1>0, <1>3 DEF InsertCreated, DropCopy, DropRow
  <1>4. CASE UNCHANGED tables
    BY <1>0, <1>4
  <1> QED
    BY <1>1, <1>2, <1>3, <1>4 DEF TableStep

\* What a call of the backend may become in one step: it starts or ends, without
\* a key of its own or with the key of the row it found; it goes on, and reaches
\* "remove" only when the transaction is processed or was just inserted.
CallStep(c) ==
    \/ call'[c].pc # "remove" /\ call'[c].key = 0
    \/ call'[c].pc # "remove" /\ call'[c].key = issueKey[call'[c].txn]
    \/ /\ call'[c].txn = call[c].txn /\ call'[c].key = call[c].key
       /\ \/ call'[c].pc = call[c].pc \/ call'[c].pc # "remove"
          \/ call[c].txn \in processed /\ UNCHANGED tables
          \/ InsertCreated(call[c].txn)

LEMMA NextCallStep ==
    ASSUME TypeOK, [Next]_vars, NEW c \in Caller
    PROVE  CallStep(c)
  <1>0. call \in [Caller -> Call] /\ Hook \in Caller /\ Request \subseteq Caller
    BY DEF TypeOK, BackendTypeOK, Caller
  <1> USE <1>0 DEF CallStep, Call
  <1>1. CASE call' = call
    BY <1>1
  <1>2. ASSUME NEW t \in Txn, Deliver(t) PROVE CallStep(c)
    BY <1>2 DEF Deliver
  <1>3. CASE ShouldSkip \/ ShouldSkipFails
    BY <1>3 DEF ShouldSkip, ShouldSkipFails, Answer, Answered, NoCall, Goto
  <1>4. ASSUME NEW d \in Caller, CreateNewRead(d) PROVE CallStep(c)
    BY <1>4 DEF CreateNewRead, Return, Answer, Answered, NoCall, Goto
  <1>5. ASSUME NEW d \in Caller, CreateNewSave(d) PROVE CallStep(c)
    BY <1>5 DEF CreateNewSave, Return, Answer, Answered, NoCall, Goto
  <1>6. ASSUME NEW d \in Caller, CreateNewRefused(d) \/ CallFails(d) PROVE CallStep(c)
    BY <1>6 DEF CreateNewRefused, CallFails, Answer, Answered, NoCall
  <1>7. ASSUME NEW q \in Request, Restore(q) PROVE CallStep(c)
    BY <1>7 DEF Restore
  <1>8. ASSUME NEW q \in Request, RestoreRemove(q) \/ Delete(q) PROVE CallStep(c)
    BY <1>8 DEF RestoreRemove, Delete, Answer, Answered, NoCall
  <1> QED
    BY <1>1, <1>2, <1>3, <1>4, <1>5, <1>6, <1>7, <1>8
       DEF Next, vars, BackendNext, HookNext, RequestNext, CreateNewNext

LEMMA KeysKnownStep ==
    TypeOK /\ CustodyInv /\ [Next]_vars => KeysKnown'
  <1> SUFFICES ASSUME TypeOK, CustodyInv, [Next]_vars,
                      NEW c \in Caller, call'[c].txn \in Txn
               PROVE  call'[c].key <= issueKey'[call'[c].txn]
    BY DEF KeysKnown
  <1>1. TypeOK' /\ TableStep /\ CallStep(c)
    BY NextTypeOK, NextTableStep, NextCallStep
  <1>2. issueKey[call'[c].txn] <= issueKey'[call'[c].txn]
    BY <1>1, KeysGrow
  <1>3. /\ issueKey[call'[c].txn] \in Nat /\ issueKey'[call'[c].txn] \in Nat
        /\ call[c].key \in Nat
    BY <1>1 DEF TypeOK, StoreTypeOK, BackendTypeOK, Call
  <1>4. call'[c].txn = call[c].txn => call[c].key <= issueKey[call'[c].txn]
    BY DEF CustodyInv, KeysKnown
  <1> QED
    BY <1>1, <1>2, <1>3, <1>4 DEF CallStep

LEMMA RestoreSafeStep ==
    TypeOK /\ CustodyInv /\ [Next]_vars => RestoreSafe'
  <1> SUFFICES ASSUME TypeOK, CustodyInv, [Next]_vars, NEW q \in Request,
                      NEW t, t = call'[q].txn,
                      call'[q].pc = "remove", t \in issues', issueKey'[t] = call'[q].key,
                      t \notin BigCommerce
               PROVE  t \in created' \cup processed'
    BY DEF RestoreSafe
  <1>0. TypeOK' /\ TableStep /\ q \in Caller
    BY NextTypeOK, NextTableStep DEF Caller
  <1>1. t \in Txn
    BY <1>0 DEF TypeOK, BackendTypeOK
  <1>2. CallStep(q)
    BY <1>0, NextCallStep
  <1>3. CASE t \in processed /\ UNCHANGED tables
    BY <1>3
  <1>4. CASE InsertCreated(t)
    BY <1>4 DEF InsertCreated
  <1>5. CASE call[q].pc = "remove" /\ call[q].txn = t /\ call[q].key = call'[q].key
    <2>1. /\ call[q].key <= issueKey[t] /\ issueKey[t] <= issueKey'[t]
          /\ issueKey[t] \in Nat /\ issueKey'[t] \in Nat /\ call[q].key \in Nat
      BY <1>0, <1>1, <1>5, KeysGrow
         DEF CustodyInv, KeysKnown, TypeOK, StoreTypeOK, BackendTypeOK, Call
    <2>2. issueKey[t] = call[q].key /\ issueKey'[t] = issueKey[t]
      BY <1>5, <2>1
    <2>3. t \in issues
      BY <1>0, <1>1, <2>1, <2>2
         DEF TableStep, InsertCreated, MoveIssued, Bump, MoveProcessed, DeleteCreated,
             DropCopy, DropRow
    <2>4. t \in created \cup processed
      BY <1>5, <2>2, <2>3 DEF CustodyInv, RestoreSafe
    <2>5. ASSUME NEW T \in SUBSET Txn, MoveIssued(T) \/ MoveProcessed(T)
          PROVE  t \in created' \cup processed'
      BY <2>3, <2>4, <2>5 DEF MoveIssued, MoveProcessed
    <2>6. ASSUME NEW T \in SUBSET Txn, T \subseteq processed \cup BigCommerce,
                 DeleteCreated(T)
          PROVE  t \in created' \cup processed'
      BY <2>4, <2>6 DEF DeleteCreated
    <2>7. CASE created \subseteq created' /\ processed' = processed
      BY <2>4, <2>7
    <2> QED
      BY <1>0, <2>5, <2>6, <2>7 DEF TableStep, InsertCreated, DropCopy, DropRow
  <1> QED
    BY <1>2, <1>3, <1>4, <1>5 DEF CallStep

LEMMA SkipsBigCommerceStep ==
    TypeOK /\ CustodyInv /\ [Next]_vars => SkipsBigCommerce'
  <1> SUFFICES ASSUME TypeOK, CustodyInv, [Next]_vars, NEW r \in Run,
                      run'[r].pc = "bcskip"
               PROVE  run'[r].todo \subseteq BigCommerce
    BY DEF SkipsBigCommerce
  <1> USE DEF Become
  <1>a. run \in [Run -> RunState]
    BY DEF TypeOK, CronTypeOK
  <1>b. run[r].pc = "bcskip" => run[r].todo \subseteq BigCommerce
    BY DEF CustodyInv, SkipsBigCommerce
  <1>1. CASE run'[r] = run[r]
    BY <1>b, <1>1
  <1>2. CASE run' # run
    <2> PICK s \in Run : RunNext(s) \/ BackgroundNext(s) \/ RunFails(s)
      BY <1>2 DEF Next, vars, CronNext
    <2> USE <1>a, <1>b DEF RunState, At
    <2> DEFINE Goal == run'[r].pc = "bcskip" => run'[r].todo \subseteq BigCommerce
    <2> SUFFICES Goal
      OBVIOUS
    <2>1. CASE ReadNext(s) \/ IssuedProcess(s)
      <3>1. run'[s].pc # "bcskip" /\ \A x \in Run \ {s} : run'[x] = run[x]
        <4>1. CASE Start(s) \/ RemoveDuplicates(s) \/ FetchDetails(s) \/ IssuedProcess(s)
          BY <4>1 DEF Start, RemoveDuplicates, FetchDetails, IssuedProcess, NoRun
        <4>2. CASE FetchThrows(s)
          BY <4>2 DEF FetchThrows, End, NoRun
        <4> QED
          BY <2>1, <4>1, <4>2 DEF ReadNext
      <3> QED
        BY <3>1
    <2>2. ASSUME NEW t \in Txn, VoidedMove(s, t) \/ VoidedRefused(s, t) \/ VoidedFails(s, t)
          PROVE  Goal
      <3>1. run'[s].pc # "bcskip" /\ \A x \in Run \ {s} : run'[x] = run[x]
        BY <2>2 DEF VoidedMove, VoidedRefused, VoidedFails
      <3> QED
        BY <3>1
    <2>3. CASE VoidedDone(s)
      BY <2>3 DEF VoidedDone
    <2>4. ASSUME NEW t \in Txn, BigCommerceRemove(s, t) PROVE Goal
      BY <2>4 DEF BigCommerceRemove
    <2>5. CASE CommonNext(s)
      <3>1. run'[s].pc # "bcskip" /\ \A x \in Run \ {s} : run'[x] = run[x]
        <4>1. CASE CommonProcess(s)
          BY <4>1 DEF CommonProcess
        <4>2. CASE CommonDone(s)
          BY <4>2 DEF CommonDone
        <4>3. ASSUME NEW g \in run[s].reject, Reject(s, g)
              PROVE  run'[s].pc # "bcskip" /\ \A x \in Run \ {s} : run'[x] = run[x]
          BY <4>3 DEF Reject
        <4>4. ASSUME NEW g \in run[s].reject, RejectThrows(s, g)
              PROVE  run'[s].pc # "bcskip" /\ \A x \in Run \ {s} : run'[x] = run[x]
          BY <4>4 DEF RejectThrows, End, NoRun
        <4> QED
          BY <2>5, <4>1, <4>2, <4>3, <4>4 DEF CommonNext
      <3> QED
        BY <3>1
    <2>6. ASSUME NEW g \in run[s].groups, NEW label \in {"move", "issue"}, Take(s, g, label)
          PROVE  Goal
      <3>1. run'[s].pc # "bcskip" /\ \A x \in Run \ {s} : run'[x] = run[x]
        BY <2>6 DEF Take
      <3> QED
        BY <3>1
    <2>7. CASE Move(s) \/ MoveFails(s) \/ Issue(s) \/ IssueThrows(s) \/ Finish(s) \/ Die(s)
      <3>1. run'[s].pc # "bcskip" /\ \A x \in Run \ {s} : run'[x] = run[x]
        <4>1. CASE Move(s) \/ Issue(s)
          BY <4>1 DEF Move, Issue
        <4>2. CASE MoveFails(s)
          BY <4>2 DEF MoveFails
        <4>3. CASE IssueThrows(s) \/ Finish(s) \/ Die(s)
          BY <4>3 DEF IssueThrows, Finish, Die, End, NoRun
        <4> QED
          BY <2>7, <4>1, <4>2, <4>3
      <3> QED
        BY <3>1
    <2>8. ASSUME NEW t \in Txn, IssuedMove(s, t) \/ IssuedMoveFails(s, t) PROVE Goal
      <3>1. /\ run'[s].pc = run[s].pc /\ run'[s].todo = run[s].todo
            /\ \A x \in Run \ {s} : run'[x] = run[x]
        BY <2>8 DEF IssuedMove, IssuedMoveFails
      <3> QED
        BY <3>1
    <2> QED
      BY <2>1, <2>2, <2>3, <2>4, <2>5, <2>6, <2>7, <2>8
         DEF RunNext, ReadNext, SkipNext, CommonNext, OrderNext, BackgroundNext, RunFails,
             CreateOrder, CreateOrderLost, CreateOrderRefused
  <1> QED
    BY <1>1, <1>2

LEMMA InitCustodyInv == Init => CustodyInv
  BY DEF Init, StoreInit, BackendInit, CronInit, NoRun, NoCall, CustodyInv, HandsKnown,
         InHand, KeysKnown, RestoreSafe, SkipsBigCommerce

\* What a run has in its hands, or a restore is about to drop, is never the last
\* trace of a transaction.
THEOREM CustodyInvariant == Spec => [](TypeOK /\ CustodyInv)
  <1>1. TypeOK /\ CustodyInv /\ [Next]_vars => (TypeOK /\ CustodyInv)'
    BY NextTypeOK, HandsKnownStep, KeysKnownStep, RestoreSafeStep, SkipsBigCommerceStep
       DEF CustodyInv
  <1> QED
    BY InitTypeOK, InitCustodyInv, <1>1, PTL DEF Spec

-----------------------------------------------------------------------------
(* Each kind of step is a step of Custody.                                 *)

Abstract == [t \in NonBigCommerce |-> StateOf(t)]

\* A step that only changes the state of S sets it for all of S.
LEMMA SetStep ==
    ASSUME NEW S \in SUBSET NonBigCommerce, NEW state,
           \A t \in NonBigCommerce : StateOf(t)' = IF t \in S THEN state ELSE StateOf(t)
    PROVE  Promise!Set(S, state)
  BY DEF Promise!Set, NonBigCommerce

LEMMA TableStepImplements ==
    ASSUME TypeOK, TableStep
    PROVE  [Promise!Next]_Abstract
  <1> DEFINE N == NonBigCommerce
  <1>0. N \subseteq Txn /\ \A t \in N : t \notin BigCommerce
    BY DEF NonBigCommerce
  <1>1. CASE UNCHANGED tables
    <2>1. \A t \in N : StateOf(t)' = StateOf(t)
      BY <1>1 DEF StateOf, Held
    <2> QED
      BY <2>1 DEF Abstract
  <1>2. ASSUME NEW t \in Txn, InsertCreated(t)
        PROVE  [Promise!Next]_Abstract
    <2>1. \A s \in N : s # t => StateOf(s)' = StateOf(s)
      BY <1>2 DEF InsertCreated, StateOf, Held
    <2>2. CASE t \in N /\ ~ (t \in processed \cup issues)
      <3>1. StateOf(t)' = "held" /\ StateOf(t) \in {"absent", "discarded"}
        BY <1>2, <2>2 DEF InsertCreated, StateOf, Held
      <3>2. Promise!Set({t}, "held")
        BY <2>1, <2>2, <3>1, SetStep
      <3>3. Promise!Accept(t)
        BY <2>2, <3>1, <3>2 DEF Promise!Accept
      <3> QED
        BY <2>2, <3>3 DEF Promise!Next
    <2>3. CASE t \notin N \/ t \in processed \cup issues
      <3>1. \A s \in N : StateOf(s)' = StateOf(s)
        BY <1>2, <2>1, <2>3 DEF InsertCreated, StateOf, Held
      <3> QED
        BY <3>1 DEF Abstract
    <2> QED
      BY <2>2, <2>3
  <1>3. ASSUME NEW T \in SUBSET Txn, AllKnown(T), MoveIssued(T)
        PROVE  [Promise!Next]_Abstract
    <2> DEFINE S == {t \in T \cap N : StateOf(t) = "discarded"}
    <2>1. \A t \in N : StateOf(t)' = IF t \in S THEN "held" ELSE StateOf(t)
      BY <1>0, <1>3 DEF MoveIssued, StateOf, Held, AllKnown, Known
    <2>2. CASE S = {}
      BY <2>1, <2>2 DEF Abstract
    <2>3. CASE S # {}
      <3>1. S \in SUBSET N /\ S \subseteq Promise!In({"discarded"})
        BY DEF Promise!In
      <3>2. Promise!Set(S, "held")
        BY <2>1, <3>1, SetStep
      <3>3. Promise!Reclaim(S)
        BY <2>3, <3>1, <3>2 DEF Promise!Reclaim
      <3> QED
        BY <3>1, <3>3 DEF Promise!Next
    <2> QED
      BY <2>2, <2>3
  <1>4. ASSUME NEW T \in SUBSET Txn, AllKnown(T), MoveProcessed(T)
        PROVE  [Promise!Next]_Abstract
    <2> DEFINE S == {t \in T \cap N : StateOf(t) # "shipped"}
    <2>1. \A t \in N : StateOf(t)' = IF t \in S THEN "shipped" ELSE StateOf(t)
      BY <1>0, <1>4 DEF MoveProcessed, StateOf, Held
    <2>2. \A t \in S : StateOf(t) \in {"held", "discarded"}
      BY <1>0, <1>4 DEF StateOf, Held, AllKnown, Known
    <2>3. CASE S = {}
      BY <2>1, <2>3 DEF Abstract
    <2>4. CASE S # {}
      <3>1. S \in SUBSET N /\ S \subseteq Promise!In({"held", "discarded"})
        BY <2>2 DEF Promise!In
      <3>2. Promise!Set(S, "shipped")
        BY <2>1, <3>1, SetStep
      <3>3. Promise!Ship(S)
        BY <2>4, <3>1, <3>2 DEF Promise!Ship
      <3> QED
        BY <3>1, <3>3 DEF Promise!Next
    <2> QED
      BY <2>3, <2>4
  <1>5. ASSUME NEW T \in SUBSET Txn, T \subseteq processed \cup BigCommerce,
               DeleteCreated(T)
        PROVE  [Promise!Next]_Abstract
    <2>1. \A t \in N : StateOf(t)' = StateOf(t)
      BY <1>0, <1>5 DEF DeleteCreated, StateOf, Held
    <2> QED
      BY <2>1 DEF Abstract
  <1>6. ASSUME NEW t \in Txn, DropCopy(t)
        PROVE  [Promise!Next]_Abstract
    <2>1. \A s \in N : StateOf(s)' = StateOf(s)
      BY <1>0, <1>6 DEF DropCopy, StateOf, Held
    <2> QED
      BY <2>1 DEF Abstract
  <1>7. ASSUME NEW t \in issues, DropRow(t)
        PROVE  [Promise!Next]_Abstract
    <2>1. \A s \in N : s # t => StateOf(s)' = StateOf(s)
      BY <1>7 DEF DropRow, StateOf, Held
    <2>2. CASE t \in N /\ t \notin created \cup processed
      <3>1. StateOf(t)' = "discarded" /\ StateOf(t) = "held"
        BY <1>7, <2>2 DEF DropRow, StateOf, Held
      <3>2. Promise!Set({t}, "discarded")
        BY <2>1, <2>2, <3>1, SetStep
      <3>3. Promise!Discard(t)
        BY <2>2, <3>1, <3>2 DEF Promise!Discard
      <3> QED
        BY <2>2, <3>3 DEF Promise!Next
    <2>3. CASE t \notin N \/ t \in created \cup processed
      <3>1. \A s \in N : StateOf(s)' = StateOf(s)
        BY <1>7, <2>1, <2>3 DEF DropRow, StateOf, Held
      <3> QED
        BY <3>1 DEF Abstract
    <2> QED
      BY <2>2, <2>3
  <1> QED
    BY <1>1, <1>2, <1>3, <1>4, <1>5, <1>6, <1>7 DEF TableStep

\* The two programs keep the promise of Custody, for any number of transactions,
\* requests, overlapping runs and failures.
THEOREM CustodyIsKept == Spec => CustodyKept
  <1>1. Init => Promise!Init
    BY DEF Init, StoreInit, Promise!Init, StateOf, Held, NonBigCommerce
  <1>2. TypeOK /\ CustodyInv /\ [Next]_vars => [Promise!Next]_Abstract
    BY NextTableStep, TableStepImplements
  <1> QED
    BY <1>1, <1>2, CustodyInvariant, PTL DEF Spec, CustodyKept, Promise!Spec, Abstract

-----------------------------------------------------------------------------
(* The orders that Lifecycle makes: who gets one (OnlyPaidShipped), that   *)
(* the tables and ShipStation agree (ProcessedHasOrder, StrayIsHeld) and,  *)
(* for runs that do not overlap, that a second order needs a failure       *)
(* (OneOrder).                                                             *)

\* A step of the run s changes no other run and no status.
LEMMA RunStepLocal ==
    ASSUME TypeOK, NEW s \in Run, RunNext(s) \/ BackgroundNext(s) \/ RunFails(s)
    PROVE  /\ \A r \in Run \ {s} : run'[r] = run[r]
           /\ status' = status
  <1>1. status' = status
    BY DEF RunNext, BackgroundNext, RunFails, ReadNext, SkipNext, CommonNext, OrderNext,
           Start, RemoveDuplicates, FetchDetails, FetchThrows, IssuedProcess, IssuedMove,
           IssuedMoveFails, VoidedMove, VoidedRefused, VoidedFails, VoidedDone, BigCommerceRemove,
           CommonProcess, Reject, RejectThrows, CommonDone, CreateOrder,
           CreateOrderLost, CreateOrderRefused, Move, MoveFails, Issue, IssueThrows,
           Finish, Die
  <1>2. PICK state : run' = [run EXCEPT ![s] = state]
    BY DEF RunNext, BackgroundNext, RunFails, ReadNext, SkipNext, CommonNext, OrderNext,
           Start, RemoveDuplicates, FetchDetails, FetchThrows, IssuedProcess, IssuedMove,
           IssuedMoveFails, VoidedMove, VoidedRefused, VoidedFails, VoidedDone, BigCommerceRemove,
           CommonProcess, Reject, RejectThrows, CommonDone, Take, CreateOrder,
           CreateOrderLost, CreateOrderRefused, Move, MoveFails, Issue, IssueThrows,
           Finish, Die, End, Become
  <1>3. run \in [Run -> RunState]
    BY DEF TypeOK, CronTypeOK
  <1> QED
    BY <1>1, <1>2, <1>3

\* Everything but the cron script leaves the runs, the orders and what is processed.
LEMMA OtherStep ==
    ASSUME \/ AuthnetNext /\ UNCHANGED <<backend, run>>
           \/ BackendNext /\ UNCHANGED run
           \/ UNCHANGED vars
    PROVE  UNCHANGED <<run, orders, stray, processed>>
  <1>1. CASE BackendNext
    BY <1>1 DEF BackendNext, HookNext, RequestNext, CreateNewNext, Deliver, ShouldSkip,
                ShouldSkipFails, CreateNewRead, CreateNewSave, InsertCreated,
                CreateNewRefused, CallFails, Restore, RestoreRemove, Delete, vars
  <1>2. CASE AuthnetNext
    BY <1>2 DEF AuthnetNext, Capture, Settle, Void, vars
  <1> QED
    BY <1>1, <1>2 DEF vars

-----------------------------------------------------------------------------
(* What a step of a run does to the orders and to what is recorded.        *)

\* It makes no order, records none and drops none.
Quiet(s) ==
    /\ UNCHANGED <<orders, stray, processed>>
    /\ run'[s].pc = "move" <=> run[s].pc = "move"
    /\ run[s].pc = "move" => run'[s].cur = run[s].cur

\* It makes an order and has the answer.
Made(s) == \E g \in run[s].groups :
    /\ run[s].pc = "order" /\ run'[s].pc = "move" /\ run'[s].cur = g
    /\ orders' = Bump(orders, g)
    /\ UNCHANGED <<stray, processed>>

\* It makes an order and has no answer.
Lost(s) == \E g \in run[s].groups :
    /\ run[s].pc = "order" /\ run'[s].pc = "issue" /\ run'[s].cur = g
    /\ orders' = Bump(orders, g) /\ stray' = Bump(stray, g)
    /\ UNCHANGED processed

\* It records the order it made.
Recorded(s) ==
    /\ run[s].pc = "move" /\ run'[s].pc # "move"
    /\ processed' = processed \cup run[s].cur
    /\ UNCHANGED <<orders, stray>>

\* It forgets the order it made.
Dropped(s) ==
    /\ run[s].pc = "move" /\ run'[s].pc # "move"
    /\ stray' = Bump(stray, run[s].cur)
    /\ UNCHANGED <<orders, processed>>

OrderStep(s) == Quiet(s) \/ Made(s) \/ Lost(s) \/ Recorded(s) \/ Dropped(s)

LEMMA RunOrderStep ==
    ASSUME TypeOK, NEW s \in Run, RunNext(s) \/ BackgroundNext(s) \/ RunFails(s)
    PROVE  OrderStep(s)
  <1>a. run \in [Run -> RunState] /\ run[s] \in RunState
    BY DEF TypeOK, CronTypeOK
  <1> USE <1>a DEF OrderStep, RunState, At, Become
  <1>1. CASE ReadNext(s)
    <2>1. CASE Start(s) \/ RemoveDuplicates(s) \/ FetchDetails(s)
      BY <2>1 DEF Start, NoRun, RemoveDuplicates, DeleteCreated, FetchDetails, Quiet
    <2>2. CASE FetchThrows(s)
      BY <2>2 DEF FetchThrows, End, NoRun, Quiet
    <2> QED
      BY <1>1, <2>1, <2>2 DEF ReadNext
  <1>2. CASE IssuedProcess(s) \/ VoidedDone(s)
    BY <1>2 DEF IssuedProcess, VoidedDone, Quiet
  <1>3. ASSUME NEW t \in Txn, IssuedMove(s, t) \/ IssuedMoveFails(s, t) PROVE OrderStep(s)
    BY <1>3 DEF IssuedMove, IssuedMoveFails, MoveIssued, Quiet
  <1>4. ASSUME NEW t \in Txn, VoidedMove(s, t) \/ VoidedRefused(s, t) \/ VoidedFails(s, t)
        PROVE  OrderStep(s)
    BY <1>4 DEF VoidedMove, VoidedRefused, VoidedFails, MoveIssued, Quiet
  <1>5. ASSUME NEW t \in Txn, BigCommerceRemove(s, t) PROVE OrderStep(s)
    BY <1>5 DEF BigCommerceRemove, DeleteCreated, Quiet
  <1>6. CASE CommonProcess(s) \/ CommonDone(s)
    <2>1. run[s].pc # "move" /\ run'[s].pc # "move"
      BY <1>6 DEF CommonProcess, CommonDone
    <2> QED
      BY <1>6, <2>1 DEF CommonProcess, CommonDone, Quiet
  <1>7. ASSUME NEW g \in run[s].reject, Reject(s, g) \/ RejectThrows(s, g)
        PROVE  OrderStep(s)
    BY <1>7 DEF Reject, RejectThrows, MoveIssued, End, NoRun, Quiet
  <1>8. ASSUME NEW g \in run[s].groups, CreateOrder(s, g) PROVE OrderStep(s)
    BY <1>8 DEF CreateOrder, Take, Made
  <1>9. ASSUME NEW g \in run[s].groups, CreateOrderLost(s, g) PROVE OrderStep(s)
    BY <1>9 DEF CreateOrderLost, Take, Lost
  <1>10. ASSUME NEW g \in run[s].groups, CreateOrderRefused(s, g) PROVE OrderStep(s)
    BY <1>10 DEF CreateOrderRefused, Take, Quiet
  <1>11. CASE Move(s)
    <2>1. run[s].pc = "move" /\ run'[s].pc = "order"
      BY <1>11 DEF Move
    <2> QED
      BY <1>11, <2>1 DEF Move, MoveProcessed, Recorded
  <1>12. CASE MoveFails(s)
    BY <1>12 DEF MoveFails, Dropped
  <1>13. CASE Issue(s)
    <2>1. run[s].pc = "issue" /\ run'[s].pc = "order"
      BY <1>13 DEF Issue
    <2> QED
      BY <1>13, <2>1 DEF Issue, MoveIssued, Quiet
  <1>14. CASE IssueThrows(s) \/ Finish(s)
    BY <1>14 DEF IssueThrows, Finish, End, NoRun, Quiet
  <1>15. CASE Die(s)
    <2>1. run'[s].pc = "idle"
      BY <1>15 DEF Die, End, NoRun
    <2> QED
      BY <1>15, <2>1 DEF Die, Quiet, Dropped
  <1> HIDE DEF OrderStep, RunState, At, Become
  <1> QED
    BY <1>1, <1>2, <1>3, <1>4, <1>5, <1>6, <1>7, <1>8, <1>9, <1>10, <1>11, <1>12, <1>13,
       <1>14, <1>15
       DEF RunNext, SkipNext, CommonNext, OrderNext, BackgroundNext, RunFails

-----------------------------------------------------------------------------
(* Only paid transactions are ordered.                                     *)

\* A settled transaction stays settled.
LEMMA SettledStays ==
    ASSUME TypeOK, [Next]_vars, NEW t \in Txn, status[t] = "settled"
    PROVE  status'[t] = "settled"
  <1>1. CASE AuthnetNext
    BY <1>1 DEF AuthnetNext, Capture, Settle, Void, TypeOK, StoreTypeOK
  <1>2. CASE BackendNext
    BY <1>2 DEF BackendNext, HookNext, RequestNext, CreateNewNext, Deliver, ShouldSkip,
                ShouldSkipFails, CreateNewRead, CreateNewSave, CreateNewRefused, CallFails,
                Restore, RestoreRemove, Delete
  <1>3. CASE CronNext
    BY <1>3, RunStepLocal DEF CronNext
  <1> QED
    BY <1>1, <1>2, <1>3 DEF Next, vars

LEMMA RunPaidStep ==
    ASSUME TypeOK, PaidInv, NEW s \in Run, RunNext(s) \/ BackgroundNext(s) \/ RunFails(s)
    PROVE  RunPaid(s)'
  <1>a. /\ run \in [Run -> RunState] /\ run[s] \in RunState
        /\ run[s].groups \subseteq SUBSET Txn
    BY DEF TypeOK, CronTypeOK, RunState
  <1>b. status' = status /\ Payable' = Payable
    BY RunStepLocal DEF Payable
  <1>c. RunPaid(s)
    BY DEF PaidInv
  <1> USE <1>a, <1>b, <1>c DEF RunPaid, RunState, At, Become
  <1>1. CASE Start(s)
    BY <1>1 DEF Start, NoRun
  <1>2. CASE RemoveDuplicates(s)
    BY <1>2 DEF RemoveDuplicates
  <1>3. CASE FetchDetails(s)
    BY <1>3 DEF FetchDetails
  <1>4. CASE IssuedProcess(s)
    BY <1>4 DEF IssuedProcess
  <1>5. ASSUME NEW t \in Txn, IssuedMove(s, t) \/ IssuedMoveFails(s, t)
        PROVE  RunPaid(s)'
    BY <1>5 DEF IssuedMove, IssuedMoveFails
  <1>6. ASSUME NEW t \in Txn, VoidedMove(s, t) PROVE RunPaid(s)'
    BY <1>6 DEF VoidedMove
  <1>7. ASSUME NEW t \in Txn, VoidedRefused(s, t) \/ VoidedFails(s, t) PROVE RunPaid(s)'
    BY <1>7 DEF VoidedRefused, VoidedFails
  <1>8. CASE VoidedDone(s)
    BY <1>8 DEF VoidedDone
  <1>9. ASSUME NEW t \in Txn, BigCommerceRemove(s, t) PROVE RunPaid(s)'
    BY <1>9 DEF BigCommerceRemove
  <1>10. CASE CommonProcess(s)
    <2> DEFINE approved == {g \in Combine[run[s].batch] : Approved(g, run[s].settled)}
    <2>1. run[s].batch \cap NotApproval = {} /\ run[s].batch \cap BigCommerce = {}
      BY <1>10 DEF CommonProcess
    <2>2. ASSUME NEW g \in approved PROVE g \subseteq Payable
      <3>1. g \subseteq run[s].batch /\ g \subseteq run[s].settled
        BY CronAssumption DEF Approved
      <3> QED
        BY <2>1, <3>1 DEF Payable
    <2>3. /\ run'[s].groups = approved \ Unknown /\ run'[s].pc = "reject"
          /\ run'[s].settled = {} /\ run'[s].cur = run[s].cur
      BY <1>10 DEF CommonProcess
    <2> QED
      BY <2>2, <2>3
  <1>11. ASSUME NEW g \in run[s].reject, Reject(s, g) PROVE RunPaid(s)'
    BY <1>11 DEF Reject
  <1>12. CASE CommonDone(s)
    BY <1>12 DEF CommonDone
  <1>13. ASSUME NEW g \in run[s].groups, NEW label \in {"move", "issue"}, Take(s, g, label)
         PROVE  RunPaid(s)'
    BY <1>13 DEF Take
  <1>14. CASE Move(s) \/ Issue(s)
    <2>1. run'[s] = [run[s] EXCEPT !.pc = "order", !.cur = {}]
      BY <1>14 DEF Move, Issue
    <2>2. /\ run'[s].pc = "order" /\ run'[s].cur = {}
          /\ run'[s].settled = run[s].settled /\ run'[s].groups = run[s].groups
      BY <2>1
    <2> QED
      BY <2>2
  <1>15. CASE MoveFails(s)
    BY <1>15 DEF MoveFails
  <1>16. ASSUME run'[s] = NoRun PROVE RunPaid(s)'
    BY <1>16 DEF NoRun
  <1>17. CASE End(s)
    BY <1>16, <1>17 DEF End
  <1> HIDE DEF RunPaid, RunState, At, Become
  <1> QED
    BY <1>1, <1>2, <1>3, <1>4, <1>5, <1>6, <1>7, <1>8, <1>9, <1>10, <1>11, <1>12, <1>13,
       <1>14, <1>15, <1>17
       DEF RunNext, ReadNext, SkipNext, CommonNext, OrderNext, BackgroundNext, RunFails,
           FetchThrows, RejectThrows, CreateOrder, CreateOrderLost, CreateOrderRefused,
           IssueThrows, Finish, Die

LEMMA PaidOrdersStep ==
    TypeOK /\ PaidInv /\ [Next]_vars => OnlyPaidShipped'
  <1> SUFFICES ASSUME TypeOK, PaidInv, [Next]_vars, NEW t \in Txn, orders'[t] > 0
               PROVE  status'[t] = "settled" /\ t \notin BigCommerce \cup NotApproval
    BY DEF OnlyPaidShipped
  <1>1. ASSUME status[t] = "settled", t \notin BigCommerce \cup NotApproval
        PROVE  status'[t] = "settled" /\ t \notin BigCommerce \cup NotApproval
    BY <1>1, SettledStays
  <1>2. CASE orders'[t] = orders[t]
    BY <1>1, <1>2 DEF PaidInv, OnlyPaidShipped
  <1>3. CASE CronNext
    <2> PICK s \in Run : RunNext(s) \/ BackgroundNext(s) \/ RunFails(s)
      BY <1>3 DEF CronNext
    <2>1. CASE UNCHANGED orders
      BY <1>2, <2>1
    <2>2. CASE Made(s) \/ Lost(s)
      <3> PICK g \in run[s].groups : orders' = Bump(orders, g)
        BY <2>2 DEF Made, Lost
      <3>1. CASE t \in g
        BY <1>1, <3>1 DEF PaidInv, RunPaid, Payable
      <3>2. CASE t \notin g
        BY <1>2, <3>2 DEF Bump
      <3> QED
        BY <3>1, <3>2
    <2> QED
      BY <2>1, <2>2, RunOrderStep DEF OrderStep, Quiet, Recorded, Dropped
  <1> QED
    BY <1>2, <1>3, OtherStep DEF Next

LEMMA PaidStep == TypeOK /\ PaidInv /\ [Next]_vars => PaidInv'
  <1> SUFFICES ASSUME TypeOK, PaidInv, [Next]_vars PROVE \A r \in Run : RunPaid(r)'
    BY PaidOrdersStep DEF PaidInv
  <1> TAKE r \in Run
  <1>1. CASE run'[r] = run[r]
    <2>1. run[r].settled \subseteq Txn
      BY DEF TypeOK, CronTypeOK, RunState
    <2>2. Payable \subseteq Payable'
      BY SettledStays DEF Payable
    <2> QED
      BY <1>1, <2>1, <2>2, SettledStays DEF PaidInv, RunPaid
  <1>2. CASE CronNext
    BY <1>1, <1>2, RunPaidStep, RunStepLocal DEF CronNext
  <1> QED
    BY <1>1, <1>2, OtherStep DEF Next

\* Whatever fails, overlaps or comes twice, an order is made only for transactions
\* that were settled and approved and do not come from BigCommerce.
THEOREM PaidInvariant == Spec => []OnlyPaidShipped
  <1>1. Init => PaidInv
    BY DEF Init, StoreInit, CronInit, NoRun, PaidInv, OnlyPaidShipped, RunPaid
  <1>2. PaidInv => OnlyPaidShipped
    BY DEF PaidInv
  <1> QED
    BY <1>1, <1>2, PaidStep, TypeCorrect, PTL DEF Spec

-----------------------------------------------------------------------------
(* An order the program lost track of is known.                            *)

LEMMA StrayStep ==
    TypeOK /\ CustodyInv /\ StrayIsHeld /\ [Next]_vars => StrayIsHeld'
  <1> SUFFICES ASSUME TypeOK, CustodyInv, StrayIsHeld, [Next]_vars,
                      NEW t \in NonBigCommerce, stray'[t] > 0
               PROVE  Known(t)'
    BY DEF StrayIsHeld, Known
  <1>0. t \in Txn \ BigCommerce
    BY DEF NonBigCommerce
  <1>1. ASSUME Known(t) PROVE Known(t)'
    BY <1>0, <1>1, NextTableStep, KnownStays
  <1>2. CASE stray'[t] = stray[t]
    BY <1>1, <1>2 DEF StrayIsHeld, Known
  <1>3. CASE CronNext
    <2> PICK s \in Run : RunNext(s) \/ BackgroundNext(s) \/ RunFails(s)
      BY <1>3 DEF CronNext
    <2>1. CASE UNCHANGED stray
      BY <1>2, <2>1
    <2>2. ASSUME NEW g, g \subseteq InHand(s), stray' = Bump(stray, g)
          PROVE  Known(t)'
      <3>1. CASE t \in g
        BY <1>0, <1>1, <2>2, <3>1 DEF CustodyInv, HandsKnown
      <3>2. CASE t \notin g
        BY <1>0, <1>2, <2>2, <3>2 DEF Bump
      <3> QED
        BY <3>1, <3>2
    <2>3. run[s].cur \subseteq InHand(s) /\ \A g \in run[s].groups : g \subseteq InHand(s)
      BY DEF InHand
    <2> QED
      BY <2>1, <2>2, <2>3, RunOrderStep DEF OrderStep, Quiet, Made, Lost, Recorded, Dropped
  <1> QED
    BY <1>2, <1>3, OtherStep DEF Next

\* An order whose answer a failure kept from the tables belongs to a transaction
\* that is in a table, or that the operator deleted.
THEOREM StrayInvariant == Spec => []StrayIsHeld
  <1>1. Init => StrayIsHeld
    BY DEF Init, StoreInit, StrayIsHeld, NonBigCommerce
  <1> QED
    BY <1>1, StrayStep, CustodyInvariant, PTL DEF Spec

-----------------------------------------------------------------------------
(* What is processed has an order.                                         *)

LEMMA MoversFinite ==
    ASSUME NEW t PROVE IsFiniteSet(Movers(t)) /\ Cardinality(Movers(t)) \in Nat
  BY CronAssumption, FS_Subset, FS_CardinalityType DEF Movers

\* A run that starts to record an order of t, or ends to, is one of the movers more
\* or less; the others stay.
LEMMA MoversStep ==
    ASSUME TypeOK, NEW s \in Run, RunNext(s) \/ BackgroundNext(s) \/ RunFails(s), NEW t
    PROVE  LET before == run[s].pc = "move" /\ t \in run[s].cur
               after  == run'[s].pc = "move" /\ t \in run'[s].cur
           IN Cardinality(Movers(t)') =
                Cardinality(Movers(t)) + (IF after THEN 1 ELSE 0) - (IF before THEN 1 ELSE 0)
  <1> DEFINE before == run[s].pc = "move" /\ t \in run[s].cur
             after  == run'[s].pc = "move" /\ t \in run'[s].cur
             M == Movers(t)
             N == Movers(t)'
  <1>1. N = {r \in Run : run'[r].pc = "move" /\ t \in run'[r].cur}
    BY DEF Movers
  <1>2. \A r \in Run \ {s} : r \in N <=> r \in M
    BY <1>1, RunStepLocal DEF Movers
  <1>3. /\ M \subseteq Run /\ N \subseteq Run
        /\ s \in M <=> before
        /\ s \in N <=> after
    BY <1>1 DEF Movers
  <1>4. IsFiniteSet(M) /\ Cardinality(M) \in Nat
    BY MoversFinite
  <1> HIDE DEF before, after, M, N
  <1>5. CASE (before /\ after) \/ (~before /\ ~after)
    <2>1. M = N
      BY <1>2, <1>3, <1>5
    <2> QED
      BY <1>4, <1>5, <2>1 DEF before, after, M, N
  <1>6. CASE after /\ ~before
    <2>1. N = M \cup {s} /\ s \notin M
      BY <1>2, <1>3, <1>6
    <2>2. Cardinality(N) = Cardinality(M) + 1
      BY <1>4, <2>1, FS_AddElement
    <2> QED
      BY <1>4, <1>6, <2>2 DEF before, after, M, N
  <1>7. CASE before /\ ~after
    <2>1. N = M \ {s} /\ s \in M
      BY <1>2, <1>3, <1>7
    <2>2. Cardinality(N) = Cardinality(M) - 1
      BY <1>4, <2>1, FS_RemoveElement
    <2> QED
      BY <1>4, <1>7, <2>2 DEF before, after, M, N
  <1> QED
    BY <1>5, <1>6, <1>7

LEMMA BackedStep == TypeOK /\ BackedInv /\ [Next]_vars => BackedInv'
  <1> SUFFICES ASSUME TypeOK, BackedInv, [Next]_vars, NEW t \in Txn
               PROVE  (stray[t] + Cardinality(Movers(t))
                         + (IF t \in processed THEN 1 ELSE 0) <= orders[t])'
    BY DEF BackedInv
  <1>1. /\ stray[t] + Cardinality(Movers(t)) + (IF t \in processed THEN 1 ELSE 0) <= orders[t]
        /\ stray[t] \in Nat /\ orders[t] \in Nat /\ Cardinality(Movers(t)) \in Nat
    BY MoversFinite DEF BackedInv, TypeOK, StoreTypeOK
  <1>2. CASE UNCHANGED <<run, orders, stray, processed>>
    BY <1>1, <1>2 DEF Movers
  <1>3. CASE CronNext
    <2> PICK s \in Run : RunNext(s) \/ BackgroundNext(s) \/ RunFails(s)
      BY <1>3 DEF CronNext
    <2> DEFINE before == run[s].pc = "move" /\ t \in run[s].cur
               after  == run'[s].pc = "move" /\ t \in run'[s].cur
               m == Cardinality(Movers(t))
               n == Cardinality(Movers(t)')
    <2>1. n = m + (IF after THEN 1 ELSE 0) - (IF before THEN 1 ELSE 0)
      BY MoversStep
    <2>2. orders \in [Txn -> Nat] /\ stray \in [Txn -> Nat]
      BY DEF TypeOK, StoreTypeOK
    <2> HIDE DEF m, n
    <2> SUFFICES stray'[t] + n + (IF t \in processed' THEN 1 ELSE 0) <= orders'[t]
      BY DEF n
    <2>3. stray[t] + m + (IF t \in processed THEN 1 ELSE 0) <= orders[t] /\ m \in Nat
      BY <1>1 DEF m
    <2>4. CASE Quiet(s)
      BY <2>1, <2>2, <2>3, <2>4 DEF Quiet
    <2>5. CASE Made(s)
      BY <2>1, <2>2, <2>3, <2>5 DEF Made, Bump
    <2>6. CASE Lost(s)
      BY <2>1, <2>2, <2>3, <2>6 DEF Lost, Bump
    <2>7. CASE Recorded(s)
      BY <2>1, <2>2, <2>3, <2>7 DEF Recorded
    <2>8. CASE Dropped(s)
      BY <2>1, <2>2, <2>3, <2>8 DEF Dropped, Bump
    <2> QED
      BY <2>4, <2>5, <2>6, <2>7, <2>8, RunOrderStep DEF OrderStep
  <1> QED
    BY <1>2, <1>3, OtherStep DEF Next

\* What is in processed, or is about to be, has an order at ShipStation whose answer
\* the program got, however many runs overlap.
THEOREM BackedInvariant == Spec => []ProcessedHasOrder
  <1>1. Init => BackedInv
    <2> SUFFICES ASSUME Init, NEW t \in Txn
                 PROVE  stray[t] + Cardinality(Movers(t))
                          + (IF t \in processed THEN 1 ELSE 0) <= orders[t]
      BY DEF BackedInv
    <2>1. Movers(t) = {}
      BY DEF Init, CronInit, NoRun, Movers
    <2> QED
      BY <2>1, FS_EmptySet DEF Init, StoreInit
  <1>2. TypeOK /\ BackedInv => ProcessedHasOrder
    <2> SUFFICES ASSUME TypeOK, BackedInv, NEW t \in Txn, t \in processed \/ Moving(t)
                 PROVE  orders[t] > stray[t]
      BY DEF ProcessedHasOrder
    <2>1. /\ stray[t] + Cardinality(Movers(t)) + (IF t \in processed THEN 1 ELSE 0) <= orders[t]
          /\ stray[t] \in Nat /\ orders[t] \in Nat /\ Cardinality(Movers(t)) \in Nat
      BY MoversFinite DEF BackedInv, TypeOK, StoreTypeOK
    <2>2. Moving(t) => Cardinality(Movers(t)) # 0
      BY MoversFinite, FS_EmptySet DEF Moving, Movers
    <2> QED
      BY <2>1, <2>2
  <1> QED
    BY <1>1, <1>2, BackedStep, TypeCorrect, PTL DEF Spec

-----------------------------------------------------------------------------
(* One order for each transaction, when runs do not overlap.               *)

SingleRun == \A r, s \in Run : r = s

LEMMA RunFreshStep ==
    ASSUME TypeOK, OneOrderInv,
           NEW s \in Run, RunNext(s) \/ BackgroundNext(s) \/ RunFails(s)
    PROVE  RunFresh(s)'
  <1>a. /\ run \in [Run -> RunState] /\ run[s] \in RunState
        /\ run[s].groups \subseteq SUBSET Txn
    BY DEF TypeOK, CronTypeOK, RunState
  <1>b. RunFresh(s)
    BY DEF OneOrderInv
  <1> USE <1>a, <1>b DEF RunFresh, RunState, At, Become
  <1>1. CASE Start(s)
    BY <1>1 DEF Start, NoRun
  <1>2. CASE RemoveDuplicates(s)
    BY <1>2 DEF RemoveDuplicates, DeleteCreated
  <1>3. CASE FetchDetails(s)
    BY <1>3 DEF FetchDetails
  <1>4. CASE IssuedProcess(s) \/ VoidedDone(s)
    <2>1. CASE IssuedProcess(s)
      BY <2>1 DEF IssuedProcess
    <2>2. CASE VoidedDone(s)
      BY <2>2 DEF VoidedDone
    <2> QED
      BY <1>4, <2>1, <2>2
  <1>5. ASSUME NEW t \in Txn, IssuedMove(s, t) \/ IssuedMoveFails(s, t)
        PROVE  RunFresh(s)'
    BY <1>5 DEF IssuedMove, IssuedMoveFails, MoveIssued
  <1>6. ASSUME NEW t \in Txn, VoidedMove(s, t) PROVE RunFresh(s)'
    BY <1>6 DEF VoidedMove, MoveIssued
  <1>7. ASSUME NEW t \in Txn, VoidedRefused(s, t) \/ VoidedFails(s, t) PROVE RunFresh(s)'
    BY <1>7 DEF VoidedRefused, VoidedFails
  <1>8. ASSUME NEW t \in Txn, BigCommerceRemove(s, t) PROVE RunFresh(s)'
    BY <1>8 DEF BigCommerceRemove, DeleteCreated
  <1>9. CASE CommonProcess(s)
    <2> DEFINE approved == {g \in Combine[run[s].batch] : Approved(g, run[s].settled)}
    <2>1. run[s].batch \in SUBSET Txn /\ run[s].batch \cap processed = {} /\ run[s].cur = {}
      BY <1>9 DEF CommonProcess
    <2>2. /\ \A g \in approved : g \subseteq run[s].batch
          /\ \A g, h \in approved : g = h \/ g \cap h = {}
      BY <2>1, CronAssumption
    <2>3. /\ run'[s].groups = approved \ Unknown /\ run'[s].pc = "reject"
          /\ run'[s].batch = {} /\ run'[s].cur = {} /\ processed' = processed
      BY <1>9, <2>1 DEF CommonProcess
    <2> HIDE DEF approved
    <2> QED
      BY <2>1, <2>2, <2>3
  <1>10. ASSUME NEW g \in run[s].reject, Reject(s, g) PROVE RunFresh(s)'
    BY <1>10 DEF Reject, MoveIssued
  <1>11. CASE CommonDone(s)
    BY <1>11 DEF CommonDone
  <1>12. ASSUME NEW g \in run[s].groups, NEW label \in {"move", "issue"}, Take(s, g, label),
                processed' = processed
         PROVE  RunFresh(s)'
    <2>1. /\ run'[s].pc = label /\ run'[s].cur = g /\ run'[s].groups = run[s].groups \ {g}
          /\ run'[s].batch = run[s].batch /\ run[s].pc = "order"
      BY <1>12 DEF Take
    <2> QED
      BY <1>12, <2>1
  <1>13. CASE Move(s)
    <2>1. /\ run'[s].pc = "order" /\ run'[s].cur = {} /\ run'[s].groups = run[s].groups
          /\ run'[s].batch = run[s].batch /\ run[s].pc = "move"
      BY <1>13 DEF Move
    <2>2. processed' = processed \cup run[s].cur
      BY <1>13 DEF Move, MoveProcessed
    <2> QED
      BY <2>1, <2>2
  <1>14. CASE Issue(s)
    <2>1. /\ run'[s].pc = "order" /\ run'[s].cur = {} /\ run'[s].groups = run[s].groups
          /\ run'[s].batch = run[s].batch /\ run[s].pc = "issue"
      BY <1>14 DEF Issue
    <2>2. processed' = processed
      BY <1>14 DEF Issue, MoveIssued
    <2> QED
      BY <2>1, <2>2
  <1>15. CASE MoveFails(s)
    BY <1>15 DEF MoveFails
  <1>16. CASE End(s)
    BY <1>16 DEF End, NoRun
  <1> HIDE DEF RunFresh, RunState, At, Become
  <1> QED
    BY <1>1, <1>2, <1>3, <1>4, <1>5, <1>6, <1>7, <1>8, <1>9, <1>10, <1>11, <1>12, <1>13,
       <1>14, <1>15, <1>16
       DEF RunNext, ReadNext, SkipNext, CommonNext, OrderNext, BackgroundNext, RunFails,
           FetchThrows, RejectThrows, CreateOrder, CreateOrderLost, CreateOrderRefused,
           IssueThrows, Finish, Die

LEMMA OneOrderStep ==
    ASSUME SingleRun, TypeOK, OneOrderInv, [Next]_vars
    PROVE  OneOrderInv'
  <1>1. CASE UNCHANGED <<run, orders, stray, processed>>
    BY <1>1 DEF OneOrderInv, RunFresh, Moving
  <1>2. CASE CronNext
    <2> PICK s \in Run : RunNext(s) \/ BackgroundNext(s) \/ RunFails(s)
      BY <1>2 DEF CronNext
    <2>1. \A r \in Run : RunFresh(r)'
      <3> TAKE r \in Run
      <3>1. r = s
        BY DEF SingleRun
      <3> QED
        BY <3>1, RunFreshStep
    <2>2. ASSUME NEW t \in Txn
          PROVE  orders'[t] <= stray'[t] + (IF t \in processed' \/ Moving(t)' THEN 1 ELSE 0)
      <3>1. /\ Moving(t) <=> run[s].pc = "move" /\ t \in run[s].cur
            /\ Moving(t)' <=> run'[s].pc = "move" /\ t \in run'[s].cur
        BY DEF SingleRun, Moving
      <3>2. orders \in [Txn -> Nat] /\ stray \in [Txn -> Nat]
        BY DEF TypeOK, StoreTypeOK
      <3>3. orders[t] <= stray[t] + (IF t \in processed \/ Moving(t) THEN 1 ELSE 0)
        BY DEF OneOrderInv
      <3>4. CASE Quiet(s)
        BY <3>1, <3>2, <3>3, <3>4 DEF Quiet
      <3>5. CASE Made(s)
        <4> PICK g \in run[s].groups :
                 /\ run[s].pc = "order" /\ run'[s].pc = "move" /\ run'[s].cur = g
                 /\ orders' = Bump(orders, g)
                 /\ UNCHANGED <<stray, processed>>
          BY <3>5 DEF Made
        <4>1. t \in g => t \notin processed
          BY DEF OneOrderInv, RunFresh
        <4> QED
          BY <3>1, <3>2, <3>3, <4>1 DEF Bump
      <3>6. CASE Lost(s)
        <4> PICK g \in run[s].groups :
                 /\ run[s].pc = "order" /\ run'[s].pc = "issue"
                 /\ orders' = Bump(orders, g) /\ stray' = Bump(stray, g)
                 /\ UNCHANGED processed
          BY <3>6 DEF Lost
        <4> QED
          BY <3>1, <3>2, <3>3 DEF Bump
      <3>7. CASE Recorded(s)
        BY <3>1, <3>2, <3>3, <3>7 DEF Recorded
      <3>8. CASE Dropped(s)
        BY <3>1, <3>2, <3>3, <3>8 DEF Dropped, Bump
      <3> QED
        BY <3>4, <3>5, <3>6, <3>7, <3>8, RunOrderStep DEF OrderStep
    <2> QED
      BY <2>1, <2>2 DEF OneOrderInv
  <1> QED
    BY <1>1, <1>2, OtherStep DEF Next

\* When runs do not overlap, all orders of a transaction but one are due to a failure
\* that kept the program from recording them: restores, redelivered webhooks and the
\* rows that stale reads insert make no second order.
THEOREM OneOrderInvariant == ASSUME SingleRun PROVE Spec => []OneOrder
  <1>1. Init => OneOrderInv
    BY DEF Init, StoreInit, CronInit, NoRun, OneOrderInv, RunFresh
  <1>2. TypeOK /\ OneOrderInv => OneOrder
    <2> SUFFICES ASSUME TypeOK, OneOrderInv, NEW t \in Txn
                 PROVE  orders[t] <= 1 + stray[t]
      BY DEF OneOrder
    <2>1. /\ orders[t] <= stray[t] + (IF t \in processed \/ Moving(t) THEN 1 ELSE 0)
          /\ stray[t] \in Nat /\ orders[t] \in Nat
      BY DEF OneOrderInv, TypeOK, StoreTypeOK
    <2> QED
      BY <2>1
  <1>3. TypeOK /\ OneOrderInv /\ [Next]_vars => OneOrderInv'
    BY OneOrderStep
  <1> QED
    BY <1>1, <1>2, <1>3, TypeCorrect, PTL DEF Spec

=============================================================================
