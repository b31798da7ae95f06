---------------------------- MODULE SessionProofs ----------------------------
(***************************************************************************)
(* Proofs about Session, for any number of runs, pool users and server     *)
(* sessions and any pool size: IInv is inductive, and the three safety     *)
(* properties of the held session are among its conjuncts.                 *)
(***************************************************************************)
EXTENDS Session, TLAPS

USE UsersDiffer, PlacesDiffer, NoneIsNobody

\* The invariant holds when no run has taken the session.
LEMMA InitIInv == Init => IInv
  BY DEF Init, IInv, TypeOK, LockInv, SlotInv, ExecInv, TxInv, PlaceNames,
         OneStatementAtATime, CancelHitsItsTarget, TransactionIsHeld, RunPcs

(* One step per action.  What makes each go through: only the run inside the
   mutex touches the slot (LockInv, SlotInv); the slot's session executes that
   run's statement at most, an idle one nothing (ExecInv); nothing leaves
   "discarded"; and a session found dead holds no transaction (TxInv). *)
LEMMA NextIInv == IInv /\ [Next]_vars => IInv'
<1> SUFFICES ASSUME IInv, [Next]_vars
             PROVE  IInv'
  OBVIOUS
<1> USE DEF IInv, TypeOK, LockInv, SlotInv, ExecInv, TxInv, PlaceNames, RunPcs,
            OneStatementAtATime, CancelHitsItsTarget, TransactionIsHeld
<1>1. ASSUME NEW r \in Runs, StartRun(r)
      PROVE  IInv'
  BY <1>1 DEF StartRun
<1>2. ASSUME NEW r \in Runs, Begin(r)
      PROVE  IInv'
  BY <1>2 DEF Begin
<1>3. ASSUME NEW r \in Runs, AcquireIdle(r)
      PROVE  IInv'
  BY <1>3 DEF AcquireIdle, Usable, Move
<1>4. ASSUME NEW r \in Runs, AcquireNew(r)
      PROVE  IInv'
  BY <1>4 DEF AcquireNew
<1>5. ASSUME NEW r \in Runs, Connect(r)
      PROVE  IInv'
  BY <1>5 DEF Connect, Move
<1>6. ASSUME NEW r \in Runs, AcquireFails(r)
      PROVE  IInv'
  BY <1>6 DEF AcquireFails
<1>7. ASSUME NEW r \in Runs, Identify(r)
      PROVE  IInv'
  BY <1>7 DEF Identify, Move
<1>8. ASSUME NEW r \in Runs, Succeed(r)
      PROVE  IInv'
  BY <1>8 DEF Succeed
<1>9. ASSUME NEW r \in Runs, Fail(r)
      PROVE  IInv'
  BY <1>9 DEF Fail
<1>10. ASSUME NEW r \in Runs, FinishFailed(r)
       PROVE  IInv'
  BY <1>10 DEF FinishFailed, Move
<1>11. ASSUME NEW r \in Runs, DropWaiting(r)
       PROVE  IInv'
  BY <1>11 DEF DropWaiting
<1>12. ASSUME NEW r \in Runs, DropBeginning(r)
       PROVE  IInv'
  BY <1>12 DEF DropBeginning
<1>13. ASSUME NEW r \in Runs, DropGuard(r)
       PROVE  IInv'
  BY <1>13 DEF DropGuard, Move
<1>14. ASSUME NEW u \in PoolUsers, UsePool(u)
       PROVE  IInv'
  BY <1>14 DEF UsePool, CheckOut, Usable, Move
<1>15. ASSUME NEW u \in PoolUsers, NEW s \in Sessions, LeavePool(u, s)
       PROVE  IInv'
  BY <1>15 DEF LeavePool, Move
<1>16. ASSUME NEW s \in Sessions, ReturnToPool(s)
       PROVE  IInv'
  BY <1>16 DEF ReturnToPool, Move
<1>17. ASSUME NEW s \in Sessions, EvictDead(s)
       PROVE  IInv'
  BY <1>17 DEF EvictDead, Move
<1>18. ASSUME NEW s \in Sessions, AnswerNobody(s)
       PROVE  IInv'
  BY <1>18 DEF AnswerNobody
<1>19. ASSUME NEW s \in Sessions, CancelRunning(s)
       PROVE  IInv'
  BY <1>19 DEF CancelRunning
<1>20. ASSUME NEW s \in Sessions, CancelGivesUp(s)
       PROVE  IInv'
  BY <1>20 DEF CancelGivesUp
<1>21. ASSUME NEW s \in Sessions, EndSession(s)
       PROVE  IInv'
  BY <1>21 DEF EndSession
<1>22. ASSUME CloseTakes
       PROVE  IInv'
  BY <1>22 DEF CloseTakes
<1>23. ASSUME ClosePool
       PROVE  IInv'
  BY <1>23 DEF ClosePool
<1>24. ASSUME CloseDone
       PROVE  IInv'
  BY <1>24 DEF CloseDone
<1>25. CASE UNCHANGED vars
  BY <1>25 DEF vars
<1> QED
  BY <1>1, <1>2, <1>3, <1>4, <1>5, <1>6, <1>7, <1>8, <1>9, <1>10, <1>11, <1>12, <1>13,
     <1>14, <1>15, <1>16, <1>17, <1>18, <1>19, <1>20, <1>21, <1>22, <1>23, <1>24, <1>25
     DEF Next, RunStep, DropRun, PoolStep, CloseStep

(* IInv is an invariant: the run inside the mutex owns the slot, and
   a session executes the statements of whoever has it in hand only. *)
THEOREM Invariance == Spec => []IInv
  BY InitIInv, NextIInv, PTL DEF Spec

(* Every variable keeps its type. *)
THEOREM TypeCorrect == Spec => []TypeOK
<1>1. IInv => TypeOK
  BY DEF IInv
<1> QED BY Invariance, <1>1, PTL

(* A statement is never sent to a session that is still executing another: a
   connection left part-way through a response is never used again. *)
THEOREM StatementsDoNotOverlap == Spec => []OneStatementAtATime
<1>1. IInv => OneStatementAtATime
  BY DEF IInv
<1> QED BY Invariance, <1>1, PTL

(* The cancel spawned for a dropped run can stop that run's statement and no
   other, however late it is delivered. *)
THEOREM CancelsHitTheirTarget == Spec => []CancelHitsItsTarget
<1>1. IInv => CancelHitsItsTarget
  BY DEF IInv
<1> QED BY Invariance, <1>1, PTL

(* Until the connection is closed, the user's open transaction is in the held
   session, where the next run executes and no pool user does. *)
THEOREM TransactionsStayHeld == Spec => []TransactionIsHeld
<1>1. IInv => TransactionIsHeld
  BY DEF IInv
<1> QED BY Invariance, <1>1, PTL

=============================================================================
