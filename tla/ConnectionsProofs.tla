------------------------- MODULE ConnectionsProofs -------------------------
(***************************************************************************)
(* Proofs about Connections, for any number of ids, commands and handles,  *)
(* for engines whose close() ends a connection and for the others, and     *)
(* however the commands of an id overlap.  Each conjunct of the inductive  *)
(* invariant has a lemma of its own, with one step per action.             *)
(***************************************************************************)
EXTENDS Connections, TLAPS

USE SomeId, NoneIsNothing
USE DEF At, Goto, End, Connecting, Midway, Phases, Pcs, Profile, maps, store,
        vars

(* A step keeps every variable in its type. *)
LEMMA TypeStep ==
    ASSUME TypeOK, PlaceInv, [Next]_vars
    PROVE  TypeOK'
<1>1. ASSUME NEW k \in Commands, NEW i \in Ids, StartWrite(k, i)
      PROVE  TypeOK'
  BY <1>1 DEF StartWrite, BarredFrom, Settled, Unsettled, TypeOK
<1>2. ASSUME NEW k \in Commands, NEW i \in Ids, StartDisconnect(k, i)
      PROVE  TypeOK'
  BY <1>2 DEF StartDisconnect, TypeOK
<1>3. ASSUME NEW k \in Commands, NEW i \in Ids, NEW h \in Handles,
             NEW p \in Profile, StartConnect(k, i, h, p)
      PROVE  TypeOK'
  BY <1>3 DEF StartConnect, TypeOK
<1>4. ASSUME NEW k \in Commands, Opens(k) PROVE TypeOK'
  BY <1>4 DEF Opens, TypeOK
<1>5. ASSUME NEW k \in Commands, OpenFails(k) PROVE TypeOK'
  <2>1. phase' \in [Handles -> Phases] /\ forwarding' \subseteq Handles
    BY <1>5 DEF OpenFails, TypeOK
  <2>2. {handle', old', barred'} \subseteq [Commands -> Handles \cup {None}]
    BY <1>5 DEF OpenFails, TypeOK
  <2> QED
    BY <1>5, <2>1, <2>2 DEF OpenFails, TypeOK
<1>6. ASSUME NEW k \in Commands, Register(k) PROVE TypeOK'
  BY <1>6 DEF Register, NoteCrossing, Unsettled, TypeOK
<1>7. ASSUME NEW k \in Commands, CloseSession(k) PROVE TypeOK'
  <2>1. phase' \in [Handles -> Phases]
    BY <1>7 DEF CloseSession, TypeOK
  <2>2. old[k] \in Handles
    BY <1>7 DEF CloseSession, TypeOK, PlaceInv
  <2>3. hung' \subseteq Handles
    BY <1>7, <2>2 DEF CloseSession, TypeOK
  <2> QED
    BY <1>7, <2>1, <2>3 DEF CloseSession, TypeOK
<1>8. ASSUME NEW k \in Commands, CloseOld(k) PROVE TypeOK'
  BY <1>8 DEF CloseOld, Closed, TypeOK
<1>9. ASSUME NEW k \in Commands, SetFlag(k) PROVE TypeOK'
  BY <1>9 DEF SetFlag, TypeOK
<1>10. ASSUME NEW k \in Commands, SetTunnel(k) PROVE TypeOK'
  BY <1>10 DEF SetTunnel, TypeOK
<1>11. ASSUME NEW k \in Commands, Remove(k) PROVE TypeOK'
  BY <1>11 DEF Remove, NoteCrossing, Unsettled, TypeOK
<1>12. ASSUME NEW k \in Commands, CloseRemoved(k) PROVE TypeOK'
  BY <1>12 DEF CloseRemoved, Closed, TypeOK
<1>13. ASSUME NEW k \in Commands, Untunnel(k) PROVE TypeOK'
  BY <1>13 DEF Untunnel, TypeOK
<1>14. ASSUME NEW k \in Commands, Unflag(k) PROVE TypeOK'
  BY <1>14 DEF Unflag, TypeOK
<1>15. ASSUME NEW k \in Commands, CheckWritable(k) PROVE TypeOK'
  BY <1>15 DEF CheckWritable, TypeOK
<1>16. ASSUME NEW k \in Commands, RefuseToEdit(k) PROVE TypeOK'
  BY <1>16 DEF RefuseToEdit, TypeOK
<1>17. ASSUME NEW k \in Commands, Lookup(k) PROVE TypeOK'
  BY <1>17 DEF Lookup, TypeOK
<1>18. ASSUME NEW k \in Commands, NotConnected(k) PROVE TypeOK'
  BY <1>18 DEF NotConnected, TypeOK
<1>19. ASSUME NEW k \in Commands, CheckCanRun(k) PROVE TypeOK'
  BY <1>19 DEF CheckCanRun, TypeOK
<1>20. ASSUME NEW k \in Commands, RefuseToRun(k) PROVE TypeOK'
  BY <1>20 DEF RefuseToRun, TypeOK
<1>21. ASSUME NEW k \in Commands, Edit(k) PROVE TypeOK'
  BY <1>21 DEF Edit, EditReaches, TypeOK
<1>22. ASSUME NEW k \in Commands, Run(k) PROVE TypeOK'
  BY <1>22 DEF Run, EditReaches, StatementReaches, TypeOK
<1>23. ASSUME NEW k \in Commands, WriteFails(k) PROVE TypeOK'
  BY <1>23 DEF WriteFails, TypeOK
<1>24. ASSUME NEW k \in Commands, FinishEdit(k) PROVE TypeOK'
  BY <1>24 DEF FinishEdit, TypeOK
<1>25. ASSUME NEW k \in Commands, FinishRun(k) PROVE TypeOK'
  BY <1>25 DEF FinishRun, TypeOK
<1>26. CASE UNCHANGED vars
  BY <1>26 DEF TypeOK
<1> QED
  BY <1>1, <1>2, <1>3, <1>4, <1>5, <1>6, <1>7, <1>8, <1>9, <1>10, <1>11, <1>12,
         <1>13, <1>14, <1>15, <1>16, <1>17, <1>18, <1>19, <1>20, <1>21, <1>22,
         <1>23, <1>24, <1>25, <1>26
    DEF Next, Step

(* A handle that leaves the registry is in the hands of the command that took
   it. *)
LEMMA LeakStep ==
    ASSUME TypeOK, NoHandleLeaks, [Next]_vars
    PROVE  NoHandleLeaks'
<1>1. ASSUME NEW k \in Commands, NEW i \in Ids, StartWrite(k, i)
      PROVE  NoHandleLeaks'
  BY <1>1 DEF StartWrite, BarredFrom, Settled, Unsettled, TypeOK, NoHandleLeaks
<1>2. ASSUME NEW k \in Commands, NEW i \in Ids, StartDisconnect(k, i)
      PROVE  NoHandleLeaks'
  BY <1>2 DEF StartDisconnect, TypeOK, NoHandleLeaks
<1>3. ASSUME NEW k \in Commands, NEW i \in Ids, NEW h \in Handles,
             NEW p \in Profile, StartConnect(k, i, h, p)
      PROVE  NoHandleLeaks'
  BY <1>3 DEF StartConnect, TypeOK, NoHandleLeaks
<1>4. ASSUME NEW k \in Commands, Opens(k) PROVE NoHandleLeaks'
  BY <1>4 DEF Opens, TypeOK, NoHandleLeaks
<1>5. ASSUME NEW k \in Commands, OpenFails(k) PROVE NoHandleLeaks'
  BY <1>5 DEF OpenFails, TypeOK, NoHandleLeaks
<1>6. ASSUME NEW k \in Commands, Register(k) PROVE NoHandleLeaks'
  BY <1>6 DEF Register, NoteCrossing, Unsettled, TypeOK, NoHandleLeaks
<1>7. ASSUME NEW k \in Commands, CloseSession(k) PROVE NoHandleLeaks'
  BY <1>7 DEF CloseSession, TypeOK, NoHandleLeaks
<1>8. ASSUME NEW k \in Commands, CloseOld(k) PROVE NoHandleLeaks'
  BY <1>8 DEF CloseOld, Closed, TypeOK, NoHandleLeaks
<1>9. ASSUME NEW k \in Commands, SetFlag(k) PROVE NoHandleLeaks'
  BY <1>9 DEF SetFlag, TypeOK, NoHandleLeaks
<1>10. ASSUME NEW k \in Commands, SetTunnel(k) PROVE NoHandleLeaks'
  BY <1>10 DEF SetTunnel, TypeOK, NoHandleLeaks
<1>11. ASSUME NEW k \in Commands, Remove(k) PROVE NoHandleLeaks'
  BY <1>11 DEF Remove, NoteCrossing, Unsettled, TypeOK, NoHandleLeaks
<1>12. ASSUME NEW k \in Commands, CloseRemoved(k) PROVE NoHandleLeaks'
  BY <1>12 DEF CloseRemoved, Closed, TypeOK, NoHandleLeaks
<1>13. ASSUME NEW k \in Commands, Untunnel(k) PROVE NoHandleLeaks'
  BY <1>13 DEF Untunnel, TypeOK, NoHandleLeaks
<1>14. ASSUME NEW k \in Commands, Unflag(k) PROVE NoHandleLeaks'
  BY <1>14 DEF Unflag, TypeOK, NoHandleLeaks
<1>15. ASSUME NEW k \in Commands, CheckWritable(k) PROVE NoHandleLeaks'
  BY <1>15 DEF CheckWritable, TypeOK, NoHandleLeaks
<1>16. ASSUME NEW k \in Commands, RefuseToEdit(k) PROVE NoHandleLeaks'
  BY <1>16 DEF RefuseToEdit, TypeOK, NoHandleLeaks
<1>17. ASSUME NEW k \in Commands, Lookup(k) PROVE NoHandleLeaks'
  BY <1>17 DEF Lookup, TypeOK, NoHandleLeaks
<1>18. ASSUME NEW k \in Commands, NotConnected(k) PROVE NoHandleLeaks'
  BY <1>18 DEF NotConnected, TypeOK, NoHandleLeaks
<1>19. ASSUME NEW k \in Commands, CheckCanRun(k) PROVE NoHandleLeaks'
  BY <1>19 DEF CheckCanRun, TypeOK, NoHandleLeaks
<1>20. ASSUME NEW k \in Commands, RefuseToRun(k) PROVE NoHandleLeaks'
  BY <1>20 DEF RefuseToRun, TypeOK, NoHandleLeaks
<1>21. ASSUME NEW k \in Commands, Edit(k) PROVE NoHandleLeaks'
  BY <1>21 DEF Edit, EditReaches, TypeOK, NoHandleLeaks
<1>22. ASSUME NEW k \in Commands, Run(k) PROVE NoHandleLeaks'
  BY <1>22 DEF Run, EditReaches, StatementReaches, TypeOK, NoHandleLeaks
<1>23. ASSUME NEW k \in Commands, WriteFails(k) PROVE NoHandleLeaks'
  BY <1>23 DEF WriteFails, TypeOK, NoHandleLeaks
<1>24. ASSUME NEW k \in Commands, FinishEdit(k) PROVE NoHandleLeaks'
  BY <1>24 DEF FinishEdit, TypeOK, NoHandleLeaks
<1>25. ASSUME NEW k \in Commands, FinishRun(k) PROVE NoHandleLeaks'
  BY <1>25 DEF FinishRun, TypeOK, NoHandleLeaks
<1>26. CASE UNCHANGED vars
  BY <1>26 DEF TypeOK, NoHandleLeaks
<1> QED
  BY <1>1, <1>2, <1>3, <1>4, <1>5, <1>6, <1>7, <1>8, <1>9, <1>10, <1>11, <1>12,
         <1>13, <1>14, <1>15, <1>16, <1>17, <1>18, <1>19, <1>20, <1>21, <1>22,
         <1>23, <1>24, <1>25, <1>26
    DEF Next, Step

(* A handle stays in one place, and its phase says which. *)
LEMMA OwnerStep ==
    ASSUME TypeOK, OwnerInv, PlaceInv, [Next]_vars
    PROVE  OwnerInv'
<1>1. ASSUME NEW k \in Commands, NEW i \in Ids, StartWrite(k, i)
      PROVE  OwnerInv'
  BY <1>1 DEF StartWrite, BarredFrom, Settled, Unsettled, TypeOK, OwnerInv,
         PlaceInv, Owns
<1>2. ASSUME NEW k \in Commands, NEW i \in Ids, StartDisconnect(k, i)
      PROVE  OwnerInv'
  BY <1>2 DEF StartDisconnect, TypeOK, OwnerInv, PlaceInv, Owns
<1>3. ASSUME NEW k \in Commands, NEW i \in Ids, NEW h \in Handles,
             NEW p \in Profile, StartConnect(k, i, h, p)
      PROVE  OwnerInv'
  BY <1>3 DEF StartConnect, TypeOK, OwnerInv, PlaceInv, Owns
<1>4. ASSUME NEW k \in Commands, Opens(k) PROVE OwnerInv'
  BY <1>4 DEF Opens, TypeOK, OwnerInv, PlaceInv, Owns
<1>5. ASSUME NEW k \in Commands, OpenFails(k) PROVE OwnerInv'
  BY <1>5 DEF OpenFails, TypeOK, OwnerInv, PlaceInv, Owns
<1>6. ASSUME NEW k \in Commands, Register(k) PROVE OwnerInv'
  BY <1>6 DEF Register, NoteCrossing, Unsettled, TypeOK, OwnerInv, PlaceInv,
         Owns
<1>7. ASSUME NEW k \in Commands, CloseSession(k) PROVE OwnerInv'
  BY <1>7 DEF CloseSession, TypeOK, OwnerInv, PlaceInv, Owns
<1>8. ASSUME NEW k \in Commands, CloseOld(k) PROVE OwnerInv'
  BY <1>8 DEF CloseOld, Closed, TypeOK, OwnerInv, PlaceInv, Owns
<1>9. ASSUME NEW k \in Commands, SetFlag(k) PROVE OwnerInv'
  BY <1>9 DEF SetFlag, TypeOK, OwnerInv, PlaceInv, Owns
<1>10. ASSUME NEW k \in Commands, SetTunnel(k) PROVE OwnerInv'
  BY <1>10 DEF SetTunnel, TypeOK, OwnerInv, PlaceInv, Owns
<1>11. ASSUME NEW k \in Commands, Remove(k) PROVE OwnerInv'
  <2>1. /\ \A i \in Ids \ {id[k]} : conns'[i] = conns[i]
        /\ conns'[id[k]] = None /\ old'[k] = conns[id[k]] /\ id[k] \in Ids
        /\ \A j \in Commands \ {k} : pc'[j] = pc[j] /\ old'[j] = old[j]
        /\ handle' = handle /\ phase' = phase /\ hung' = hung
        /\ pc[k] = "remove" /\ pc'[k] \in {"untunnel", "close"}
        /\ pc'[k] = "close" <=> conns[id[k]] # None
    BY <1>11 DEF Remove, TypeOK
  <2>2. ASSUME NEW j \in Commands, NEW h \in Handles, Owns(j, h)'
        PROVE  Owns(j, h) \/ (j = k /\ conns[id[k]] = h)
    BY <2>1, <2>2 DEF Owns
  <2>3. ASSUME NEW j \in Commands, NEW h \in Handles, Owns(j, h)'
        PROVE  /\ phase[h] \in CASE pc'[j] = "opening" -> {"opening"}
                                 [] pc'[j] = "register" -> {"open"}
                                 [] OTHER -> {"open", "closed"}
               /\ \A i \in Ids : conns'[i] # h
               /\ \A l \in Commands : Owns(l, h)' => l = j
    BY <2>1, <2>2, <2>3 DEF OwnerInv
  <2>4. ASSUME NEW i \in Ids, NEW h \in Handles, conns'[i] = h
        PROVE  phase[h] = "open" /\ \A j \in Ids : conns'[j] = h => j = i
    BY <2>1, <2>4 DEF OwnerInv
  <2>5. ASSUME NEW h \in hung
        PROVE  /\ CloseEnds /\ phase[h] = "closed"
               /\ \E j \in Commands :
                    pc'[j] \in {"closeOld", "close"} /\ old'[j] = h
    BY <2>1, <2>5 DEF OwnerInv
  <2> QED
    BY <2>1, <2>3, <2>4, <2>5 DEF OwnerInv
<1>12. ASSUME NEW k \in Commands, CloseRemoved(k) PROVE OwnerInv'
  BY <1>12 DEF CloseRemoved, Closed, TypeOK, OwnerInv, PlaceInv, Owns
<1>13. ASSUME NEW k \in Commands, Untunnel(k) PROVE OwnerInv'
  BY <1>13 DEF Untunnel, TypeOK, OwnerInv, PlaceInv, Owns
<1>14. ASSUME NEW k \in Commands, Unflag(k) PROVE OwnerInv'
  BY <1>14 DEF Unflag, TypeOK, OwnerInv, PlaceInv, Owns
<1>15. ASSUME NEW k \in Commands, CheckWritable(k) PROVE OwnerInv'
  BY <1>15 DEF CheckWritable, TypeOK, OwnerInv, PlaceInv, Owns
<1>16. ASSUME NEW k \in Commands, RefuseToEdit(k) PROVE OwnerInv'
  BY <1>16 DEF RefuseToEdit, TypeOK, OwnerInv, PlaceInv, Owns
<1>17. ASSUME NEW k \in Commands, Lookup(k) PROVE OwnerInv'
  BY <1>17 DEF Lookup, TypeOK, OwnerInv, PlaceInv, Owns
<1>18. ASSUME NEW k \in Commands, NotConnected(k) PROVE OwnerInv'
  BY <1>18 DEF NotConnected, TypeOK, OwnerInv, PlaceInv, Owns
<1>19. ASSUME NEW k \in Commands, CheckCanRun(k) PROVE OwnerInv'
  BY <1>19 DEF CheckCanRun, TypeOK, OwnerInv, PlaceInv, Owns
<1>20. ASSUME NEW k \in Commands, RefuseToRun(k) PROVE OwnerInv'
  BY <1>20 DEF RefuseToRun, TypeOK, OwnerInv, PlaceInv, Owns
<1>21. ASSUME NEW k \in Commands, Edit(k) PROVE OwnerInv'
  BY <1>21 DEF Edit, EditReaches, TypeOK, OwnerInv, PlaceInv, Owns
<1>22. ASSUME NEW k \in Commands, Run(k) PROVE OwnerInv'
  BY <1>22 DEF Run, EditReaches, StatementReaches, TypeOK, OwnerInv, PlaceInv,
         Owns
<1>23. ASSUME NEW k \in Commands, WriteFails(k) PROVE OwnerInv'
  BY <1>23 DEF WriteFails, TypeOK, OwnerInv, PlaceInv, Owns
<1>24. ASSUME NEW k \in Commands, FinishEdit(k) PROVE OwnerInv'
  BY <1>24 DEF FinishEdit, TypeOK, OwnerInv, PlaceInv, Owns
<1>25. ASSUME NEW k \in Commands, FinishRun(k) PROVE OwnerInv'
  BY <1>25 DEF FinishRun, TypeOK, OwnerInv, PlaceInv, Owns
<1>26. CASE UNCHANGED vars
  BY <1>26 DEF TypeOK, OwnerInv, PlaceInv, Owns
<1> QED
  BY <1>1, <1>2, <1>3, <1>4, <1>5, <1>6, <1>7, <1>8, <1>9, <1>10, <1>11, <1>12,
         <1>13, <1>14, <1>15, <1>16, <1>17, <1>18, <1>19, <1>20, <1>21, <1>22,
         <1>23, <1>24, <1>25, <1>26
    DEF Next, Step

(* A command has what it works on, and a connect its handle for itself. *)
LEMMA PlaceStep ==
    ASSUME TypeOK, OwnerInv, PlaceInv, [Next]_vars
    PROVE  PlaceInv'
<1>1. ASSUME NEW k \in Commands, NEW i \in Ids, StartWrite(k, i)
      PROVE  PlaceInv'
  BY <1>1 DEF StartWrite, BarredFrom, Settled, Unsettled, TypeOK, OwnerInv,
         PlaceInv, Owns
<1>2. ASSUME NEW k \in Commands, NEW i \in Ids, StartDisconnect(k, i)
      PROVE  PlaceInv'
  BY <1>2 DEF StartDisconnect, TypeOK, OwnerInv, PlaceInv, Owns
<1>3. ASSUME NEW k \in Commands, NEW i \in Ids, NEW h \in Handles,
             NEW p \in Profile, StartConnect(k, i, h, p)
      PROVE  PlaceInv'
  BY <1>3 DEF StartConnect, TypeOK, OwnerInv, PlaceInv, Owns
<1>4. ASSUME NEW k \in Commands, Opens(k) PROVE PlaceInv'
  BY <1>4 DEF Opens, TypeOK, OwnerInv, PlaceInv, Owns
<1>5. ASSUME NEW k \in Commands, OpenFails(k) PROVE PlaceInv'
  BY <1>5 DEF OpenFails, TypeOK, OwnerInv, PlaceInv, Owns
<1>6. ASSUME NEW k \in Commands, Register(k) PROVE PlaceInv'
  BY <1>6 DEF Register, NoteCrossing, Unsettled, TypeOK, OwnerInv, PlaceInv,
         Owns
<1>7. ASSUME NEW k \in Commands, CloseSession(k) PROVE PlaceInv'
  BY <1>7 DEF CloseSession, TypeOK, OwnerInv, PlaceInv, Owns
<1>8. ASSUME NEW k \in Commands, CloseOld(k) PROVE PlaceInv'
  BY <1>8 DEF CloseOld, Closed, TypeOK, OwnerInv, PlaceInv, Owns
<1>9. ASSUME NEW k \in Commands, SetFlag(k) PROVE PlaceInv'
  BY <1>9 DEF SetFlag, TypeOK, OwnerInv, PlaceInv, Owns
<1>10. ASSUME NEW k \in Commands, SetTunnel(k) PROVE PlaceInv'
  BY <1>10 DEF SetTunnel, TypeOK, OwnerInv, PlaceInv, Owns
<1>11. ASSUME NEW k \in Commands, Remove(k) PROVE PlaceInv'
  BY <1>11 DEF Remove, NoteCrossing, Unsettled, TypeOK, OwnerInv, PlaceInv,
         Owns
<1>12. ASSUME NEW k \in Commands, CloseRemoved(k) PROVE PlaceInv'
  BY <1>12 DEF CloseRemoved, Closed, TypeOK, OwnerInv, PlaceInv, Owns
<1>13. ASSUME NEW k \in Commands, Untunnel(k) PROVE PlaceInv'
  BY <1>13 DEF Untunnel, TypeOK, OwnerInv, PlaceInv, Owns
<1>14. ASSUME NEW k \in Commands, Unflag(k) PROVE PlaceInv'
  BY <1>14 DEF Unflag, TypeOK, OwnerInv, PlaceInv, Owns
<1>15. ASSUME NEW k \in Commands, CheckWritable(k) PROVE PlaceInv'
  BY <1>15 DEF CheckWritable, TypeOK, OwnerInv, PlaceInv, Owns
<1>16. ASSUME NEW k \in Commands, RefuseToEdit(k) PROVE PlaceInv'
  BY <1>16 DEF RefuseToEdit, TypeOK, OwnerInv, PlaceInv, Owns
<1>17. ASSUME NEW k \in Commands, Lookup(k) PROVE PlaceInv'
  BY <1>17 DEF Lookup, TypeOK, OwnerInv, PlaceInv, Owns
<1>18. ASSUME NEW k \in Commands, NotConnected(k) PROVE PlaceInv'
  BY <1>18 DEF NotConnected, TypeOK, OwnerInv, PlaceInv, Owns
<1>19. ASSUME NEW k \in Commands, CheckCanRun(k) PROVE PlaceInv'
  BY <1>19 DEF CheckCanRun, TypeOK, OwnerInv, PlaceInv, Owns
<1>20. ASSUME NEW k \in Commands, RefuseToRun(k) PROVE PlaceInv'
  BY <1>20 DEF RefuseToRun, TypeOK, OwnerInv, PlaceInv, Owns
<1>21. ASSUME NEW k \in Commands, Edit(k) PROVE PlaceInv'
  BY <1>21 DEF Edit, EditReaches, TypeOK, OwnerInv, PlaceInv, Owns
<1>22. ASSUME NEW k \in Commands, Run(k) PROVE PlaceInv'
  BY <1>22 DEF Run, EditReaches, StatementReaches, TypeOK, OwnerInv, PlaceInv,
         Owns
<1>23. ASSUME NEW k \in Commands, WriteFails(k) PROVE PlaceInv'
  BY <1>23 DEF WriteFails, TypeOK, OwnerInv, PlaceInv, Owns
<1>24. ASSUME NEW k \in Commands, FinishEdit(k) PROVE PlaceInv'
  BY <1>24 DEF FinishEdit, TypeOK, OwnerInv, PlaceInv, Owns
<1>25. ASSUME NEW k \in Commands, FinishRun(k) PROVE PlaceInv'
  BY <1>25 DEF FinishRun, TypeOK, OwnerInv, PlaceInv, Owns
<1>26. CASE UNCHANGED vars
  BY <1>26 DEF TypeOK, OwnerInv, PlaceInv, Owns
<1> QED
  BY <1>1, <1>2, <1>3, <1>4, <1>5, <1>6, <1>7, <1>8, <1>9, <1>10, <1>11, <1>12,
         <1>13, <1>14, <1>15, <1>16, <1>17, <1>18, <1>19, <1>20, <1>21, <1>22,
         <1>23, <1>24, <1>25, <1>26
    DEF Next, Step

(* Of an id that no commands have crossed on, one command at a time is half-way,
   and it finds the registry as it left it. *)
LEMMA SerialStep ==
    ASSUME TypeOK, PlaceInv, SerialInv, [Next]_vars
    PROVE  SerialInv'
<1>1. ASSUME NEW k \in Commands, NEW i \in Ids, StartWrite(k, i)
      PROVE  SerialInv'
  BY <1>1 DEF StartWrite, BarredFrom, Settled, Unsettled, TypeOK, PlaceInv,
         SerialInv
<1>2. ASSUME NEW k \in Commands, NEW i \in Ids, StartDisconnect(k, i)
      PROVE  SerialInv'
  BY <1>2 DEF StartDisconnect, TypeOK, PlaceInv, SerialInv
<1>3. ASSUME NEW k \in Commands, NEW i \in Ids, NEW h \in Handles,
             NEW p \in Profile, StartConnect(k, i, h, p)
      PROVE  SerialInv'
  BY <1>3 DEF StartConnect, TypeOK, PlaceInv, SerialInv
<1>4. ASSUME NEW k \in Commands, Opens(k) PROVE SerialInv'
  BY <1>4 DEF Opens, TypeOK, PlaceInv, SerialInv
<1>5. ASSUME NEW k \in Commands, OpenFails(k) PROVE SerialInv'
  BY <1>5 DEF OpenFails, TypeOK, PlaceInv, SerialInv
<1>6. ASSUME NEW k \in Commands, Register(k) PROVE SerialInv'
  BY <1>6 DEF Register, NoteCrossing, Unsettled, TypeOK, PlaceInv, SerialInv
<1>7. ASSUME NEW k \in Commands, CloseSession(k) PROVE SerialInv'
  BY <1>7 DEF CloseSession, TypeOK, PlaceInv, SerialInv
<1>8. ASSUME NEW k \in Commands, CloseOld(k) PROVE SerialInv'
  BY <1>8 DEF CloseOld, Closed, TypeOK, PlaceInv, SerialInv
<1>9. ASSUME NEW k \in Commands, SetFlag(k) PROVE SerialInv'
  BY <1>9 DEF SetFlag, TypeOK, PlaceInv, SerialInv
<1>10. ASSUME NEW k \in Commands, SetTunnel(k) PROVE SerialInv'
  BY <1>10 DEF SetTunnel, TypeOK, PlaceInv, SerialInv
<1>11. ASSUME NEW k \in Commands, Remove(k) PROVE SerialInv'
  BY <1>11 DEF Remove, NoteCrossing, Unsettled, TypeOK, PlaceInv, SerialInv
<1>12. ASSUME NEW k \in Commands, CloseRemoved(k) PROVE SerialInv'
  BY <1>12 DEF CloseRemoved, Closed, TypeOK, PlaceInv, SerialInv
<1>13. ASSUME NEW k \in Commands, Untunnel(k) PROVE SerialInv'
  BY <1>13 DEF Untunnel, TypeOK, PlaceInv, SerialInv
<1>14. ASSUME NEW k \in Commands, Unflag(k) PROVE SerialInv'
  BY <1>14 DEF Unflag, TypeOK, PlaceInv, SerialInv
<1>15. ASSUME NEW k \in Commands, CheckWritable(k) PROVE SerialInv'
  BY <1>15 DEF CheckWritable, TypeOK, PlaceInv, SerialInv
<1>16. ASSUME NEW k \in Commands, RefuseToEdit(k) PROVE SerialInv'
  BY <1>16 DEF RefuseToEdit, TypeOK, PlaceInv, SerialInv
<1>17. ASSUME NEW k \in Commands, Lookup(k) PROVE SerialInv'
  BY <1>17 DEF Lookup, TypeOK, PlaceInv, SerialInv
<1>18. ASSUME NEW k \in Commands, NotConnected(k) PROVE SerialInv'
  BY <1>18 DEF NotConnected, TypeOK, PlaceInv, SerialInv
<1>19. ASSUME NEW k \in Commands, CheckCanRun(k) PROVE SerialInv'
  BY <1>19 DEF CheckCanRun, TypeOK, PlaceInv, SerialInv
<1>20. ASSUME NEW k \in Commands, RefuseToRun(k) PROVE SerialInv'
  BY <1>20 DEF RefuseToRun, TypeOK, PlaceInv, SerialInv
<1>21. ASSUME NEW k \in Commands, Edit(k) PROVE SerialInv'
  BY <1>21 DEF Edit, EditReaches, TypeOK, PlaceInv, SerialInv
<1>22. ASSUME NEW k \in Commands, Run(k) PROVE SerialInv'
  BY <1>22 DEF Run, EditReaches, StatementReaches, TypeOK, PlaceInv, SerialInv
<1>23. ASSUME NEW k \in Commands, WriteFails(k) PROVE SerialInv'
  BY <1>23 DEF WriteFails, TypeOK, PlaceInv, SerialInv
<1>24. ASSUME NEW k \in Commands, FinishEdit(k) PROVE SerialInv'
  BY <1>24 DEF FinishEdit, TypeOK, PlaceInv, SerialInv
<1>25. ASSUME NEW k \in Commands, FinishRun(k) PROVE SerialInv'
  BY <1>25 DEF FinishRun, TypeOK, PlaceInv, SerialInv
<1>26. CASE UNCHANGED vars
  BY <1>26 DEF TypeOK, PlaceInv, SerialInv
<1> QED
  BY <1>1, <1>2, <1>3, <1>4, <1>5, <1>6, <1>7, <1>8, <1>9, <1>10, <1>11, <1>12,
         <1>13, <1>14, <1>15, <1>16, <1>17, <1>18, <1>19, <1>20, <1>21, <1>22,
         <1>23, <1>24, <1>25, <1>26
    DEF Next, Step

(* The flag of the registered connection is in place or about to be set. *)
LEMMA FlagStep ==
    ASSUME TypeOK, OwnerInv, PlaceInv, SerialInv, FlagInv, [Next]_vars
    PROVE  FlagInv'
<1>1. ASSUME NEW k \in Commands, NEW i \in Ids, StartWrite(k, i)
      PROVE  FlagInv'
  BY <1>1 DEF StartWrite, BarredFrom, Settled, Unsettled, TypeOK, OwnerInv,
         PlaceInv, SerialInv, FlagInv, Owns
<1>2. ASSUME NEW k \in Commands, NEW i \in Ids, StartDisconnect(k, i)
      PROVE  FlagInv'
  BY <1>2 DEF StartDisconnect, TypeOK, OwnerInv, PlaceInv, SerialInv, FlagInv,
         Owns
<1>3. ASSUME NEW k \in Commands, NEW i \in Ids, NEW h \in Handles,
             NEW p \in Profile, StartConnect(k, i, h, p)
      PROVE  FlagInv'
  BY <1>3 DEF StartConnect, TypeOK, OwnerInv, PlaceInv, SerialInv, FlagInv,
         Owns
<1>4. ASSUME NEW k \in Commands, Opens(k) PROVE FlagInv'
  BY <1>4 DEF Opens, TypeOK, OwnerInv, PlaceInv, SerialInv, FlagInv, Owns
<1>5. ASSUME NEW k \in Commands, OpenFails(k) PROVE FlagInv'
  BY <1>5 DEF OpenFails, TypeOK, FlagInv
<1>6. ASSUME NEW k \in Commands, Register(k) PROVE FlagInv'
  BY <1>6 DEF Register, NoteCrossing, Unsettled, TypeOK, OwnerInv, PlaceInv,
         SerialInv, FlagInv, Owns
<1>7. ASSUME NEW k \in Commands, CloseSession(k) PROVE FlagInv'
  BY <1>7 DEF CloseSession, TypeOK, OwnerInv, PlaceInv, SerialInv, FlagInv,
         Owns
<1>8. ASSUME NEW k \in Commands, CloseOld(k) PROVE FlagInv'
  BY <1>8 DEF CloseOld, Closed, TypeOK, OwnerInv, PlaceInv, SerialInv, FlagInv,
         Owns
<1>9. ASSUME NEW k \in Commands, SetFlag(k) PROVE FlagInv'
  BY <1>9 DEF SetFlag, TypeOK, OwnerInv, PlaceInv, SerialInv, FlagInv, Owns
<1>10. ASSUME NEW k \in Commands, SetTunnel(k) PROVE FlagInv'
  BY <1>10 DEF SetTunnel, TypeOK, OwnerInv, PlaceInv, SerialInv, FlagInv, Owns
<1>11. ASSUME NEW k \in Commands, Remove(k) PROVE FlagInv'
  BY <1>11 DEF Remove, NoteCrossing, Unsettled, TypeOK, OwnerInv, PlaceInv,
         SerialInv, FlagInv, Owns
<1>12. ASSUME NEW k \in Commands, CloseRemoved(k) PROVE FlagInv'
  BY <1>12 DEF CloseRemoved, Closed, TypeOK, OwnerInv, PlaceInv, SerialInv,
         FlagInv, Owns
<1>13. ASSUME NEW k \in Commands, Untunnel(k) PROVE FlagInv'
  BY <1>13 DEF Untunnel, TypeOK, OwnerInv, PlaceInv, SerialInv, FlagInv, Owns
<1>14. ASSUME NEW k \in Commands, Unflag(k) PROVE FlagInv'
  BY <1>14 DEF Unflag, TypeOK, OwnerInv, PlaceInv, SerialInv, FlagInv, Owns
<1>15. ASSUME NEW k \in Commands, CheckWritable(k) PROVE FlagInv'
  BY <1>15 DEF CheckWritable, TypeOK, OwnerInv, PlaceInv, SerialInv, FlagInv,
         Owns
<1>16. ASSUME NEW k \in Commands, RefuseToEdit(k) PROVE FlagInv'
  BY <1>16 DEF RefuseToEdit, TypeOK, OwnerInv, PlaceInv, SerialInv, FlagInv,
         Owns
<1>17. ASSUME NEW k \in Commands, Lookup(k) PROVE FlagInv'
  BY <1>17 DEF Lookup, TypeOK, OwnerInv, PlaceInv, SerialInv, FlagInv, Owns
<1>18. ASSUME NEW k \in Commands, NotConnected(k) PROVE FlagInv'
  BY <1>18 DEF NotConnected, TypeOK, OwnerInv, PlaceInv, SerialInv, FlagInv,
         Owns
<1>19. ASSUME NEW k \in Commands, CheckCanRun(k) PROVE FlagInv'
  BY <1>19 DEF CheckCanRun, TypeOK, OwnerInv, PlaceInv, SerialInv, FlagInv,
         Owns
<1>20. ASSUME NEW k \in Commands, RefuseToRun(k) PROVE FlagInv'
  BY <1>20 DEF RefuseToRun, TypeOK, OwnerInv, PlaceInv, SerialInv, FlagInv,
         Owns
<1>21. ASSUME NEW k \in Commands, Edit(k) PROVE FlagInv'
  BY <1>21 DEF Edit, EditReaches, TypeOK, OwnerInv, PlaceInv, SerialInv,
         FlagInv, Owns
<1>22. ASSUME NEW k \in Commands, Run(k) PROVE FlagInv'
  BY <1>22 DEF Run, EditReaches, StatementReaches, TypeOK, OwnerInv, PlaceInv,
         SerialInv, FlagInv, Owns
<1>23. ASSUME NEW k \in Commands, WriteFails(k) PROVE FlagInv'
  BY <1>23 DEF WriteFails, TypeOK, OwnerInv, PlaceInv, SerialInv, FlagInv, Owns
<1>24. ASSUME NEW k \in Commands, FinishEdit(k) PROVE FlagInv'
  BY <1>24 DEF FinishEdit, TypeOK, OwnerInv, PlaceInv, SerialInv, FlagInv, Owns
<1>25. ASSUME NEW k \in Commands, FinishRun(k) PROVE FlagInv'
  BY <1>25 DEF FinishRun, TypeOK, OwnerInv, PlaceInv, SerialInv, FlagInv, Owns
<1>26. CASE UNCHANGED vars
  BY <1>26 DEF TypeOK, OwnerInv, PlaceInv, SerialInv, FlagInv, Owns
<1> QED
  BY <1>1, <1>2, <1>3, <1>4, <1>5, <1>6, <1>7, <1>8, <1>9, <1>10, <1>11, <1>12,
         <1>13, <1>14, <1>15, <1>16, <1>17, <1>18, <1>19, <1>20, <1>21, <1>22,
         <1>23, <1>24, <1>25, <1>26
    DEF Next, Step

(* The connection a writer is barred from stays flagged while statements reach
   it. *)
LEMMA BarredStep ==
    ASSUME TypeOK, OwnerInv, PlaceInv, SerialInv, FlagInv, BarredInv,
           [Next]_vars
    PROVE  BarredInv'
<1>1. ASSUME NEW k \in Commands, NEW i \in Ids, StartWrite(k, i)
      PROVE  BarredInv'
  <2> SUFFICES ASSUME NEW w \in Commands, barred'[w] # None
               PROVE  StaysOut(w, barred[w])'
    BY DEF BarredInv
  <2>1. CASE w = k
    <3>1. barred'[w] = conns[i] /\ i \notin crossed /\ ~Unsettled(i)
      BY <1>1, <2>1 DEF StartWrite, BarredFrom, Settled, TypeOK
    <3>2. conns[i] \in Handles /\ profile[conns[i]].readOnly
      BY <1>1, <2>1, <3>1 DEF StartWrite, BarredFrom, Settled, TypeOK
    <3>3. phase[conns[i]] = "open" /\ i \in readOnly
      BY <3>1, <3>2 DEF OwnerInv, FlagInv, Unsettled
    <3>4. id'[w] = i /\ pc'[w] \in {"checkFirst", "lookupFirst"}
      BY <1>1, <2>1 DEF StartWrite, TypeOK
    <3> QED
      BY <1>1, <3>1, <3>2, <3>3, <3>4 DEF StartWrite, StaysOut, Live, Writing
  <2>2. CASE w # k
    BY <1>1, <2>2 DEF StartWrite, TypeOK, BarredInv, StaysOut, Live, Writing
  <2> QED
    BY <2>1, <2>2
<1>2. ASSUME NEW k \in Commands, NEW i \in Ids, StartDisconnect(k, i)
      PROVE  BarredInv'
  BY <1>2 DEF StartDisconnect, TypeOK, OwnerInv, PlaceInv, SerialInv, FlagInv,
         BarredInv, StaysOut, Owns, Live, Writing
<1>3. ASSUME NEW k \in Commands, NEW i \in Ids, NEW h \in Handles,
             NEW p \in Profile, StartConnect(k, i, h, p)
      PROVE  BarredInv'
  <2> SUFFICES ASSUME NEW w \in Commands, barred'[w] # None
               PROVE  StaysOut(w, barred[w])'
    BY DEF BarredInv
  <2>1. w # k /\ StaysOut(w, barred[w]) /\ barred[w] # h
    BY <1>3 DEF StartConnect, TypeOK, PlaceInv, BarredInv, StaysOut
  <2> QED
    BY <1>3, <2>1 DEF StartConnect, TypeOK, StaysOut, Live, Writing
<1>4. ASSUME NEW k \in Commands, Opens(k) PROVE BarredInv'
  <2> SUFFICES ASSUME NEW w \in Commands, barred'[w] # None
               PROVE  StaysOut(w, barred[w])'
    BY DEF BarredInv
  <2>1. w # k /\ StaysOut(w, barred[w]) /\ barred[w] # handle[k]
    BY <1>4 DEF Opens, TypeOK, OwnerInv, PlaceInv, BarredInv, StaysOut, Owns
  <2> QED
    BY <1>4, <2>1 DEF Opens, TypeOK, StaysOut, Live, Writing
<1>5. ASSUME NEW k \in Commands, OpenFails(k) PROVE BarredInv'
  BY <1>5 DEF OpenFails, TypeOK, OwnerInv, PlaceInv, SerialInv, FlagInv,
         BarredInv, StaysOut, Owns, Live, Writing
<1>6. ASSUME NEW k \in Commands, Register(k) PROVE BarredInv'
  <2> SUFFICES ASSUME NEW w \in Commands, barred'[w] # None
               PROVE  StaysOut(w, barred[w])'
    BY DEF BarredInv
  <2>1. w # k /\ barred'[w] = barred[w] /\ StaysOut(w, barred[w])
    BY <1>6 DEF Register, NoteCrossing, TypeOK, PlaceInv, BarredInv
  <2>2. id[w] \notin crossed'
    BY <1>6, <2>1 DEF Register, NoteCrossing, TypeOK, StaysOut
  <2>3. CASE id[w] = id[k]
    <3>1. ~Unsettled(id[k])
      BY <1>6, <2>2, <2>3 DEF Register, NoteCrossing, TypeOK
    <3>2. Live(barred[w]) => conns[id[k]] = barred[w]
      BY <2>1, <2>3, <3>1 DEF StaysOut, Unsettled
    <3>3. conns[id[k]] # None => pc'[k] = "closeOld" /\ old'[k] = conns[id[k]]
      BY <1>6 DEF Register, TypeOK
    <3> QED
      BY <1>6, <2>1, <2>2, <2>3, <3>2, <3>3
      DEF Register, TypeOK, StaysOut, Live, Writing
  <2>4. CASE id[w] # id[k]
    BY <1>6, <2>1, <2>2, <2>4 DEF Register, TypeOK, StaysOut, Live, Writing
  <2> QED
    BY <2>3, <2>4
<1>7. ASSUME NEW k \in Commands, CloseSession(k) PROVE BarredInv'
  BY <1>7 DEF CloseSession, TypeOK, OwnerInv, PlaceInv, SerialInv, FlagInv,
         BarredInv, StaysOut, Owns, Live, Writing
<1>8. ASSUME NEW k \in Commands, CloseOld(k) PROVE BarredInv'
  BY <1>8 DEF CloseOld, Closed, TypeOK, OwnerInv, PlaceInv, SerialInv, FlagInv,
         BarredInv, StaysOut, Owns, Live, Writing
<1>9. ASSUME NEW k \in Commands, SetFlag(k) PROVE BarredInv'
  BY <1>9 DEF SetFlag, TypeOK, OwnerInv, PlaceInv, SerialInv, FlagInv,
         BarredInv, StaysOut, Owns, Live, Writing
<1>10. ASSUME NEW k \in Commands, SetTunnel(k) PROVE BarredInv'
  BY <1>10 DEF SetTunnel, TypeOK, OwnerInv, PlaceInv, SerialInv, FlagInv,
         BarredInv, StaysOut, Owns, Live, Writing
<1>11. ASSUME NEW k \in Commands, Remove(k) PROVE BarredInv'
  <2> SUFFICES ASSUME NEW w \in Commands, barred'[w] # None
               PROVE  StaysOut(w, barred[w])'
    BY DEF BarredInv
  <2>1. w # k /\ barred'[w] = barred[w] /\ StaysOut(w, barred[w])
    BY <1>11 DEF Remove, NoteCrossing, TypeOK, PlaceInv, BarredInv
  <2>2. id[w] \notin crossed'
    BY <1>11, <2>1 DEF Remove, NoteCrossing, TypeOK, StaysOut
  <2>3. CASE id[w] = id[k]
    <3>1. ~Unsettled(id[k])
      BY <1>11, <2>2, <2>3 DEF Remove, NoteCrossing, TypeOK
    <3>2. Live(barred[w]) => conns[id[k]] = barred[w]
      BY <2>1, <2>3, <3>1 DEF StaysOut, Unsettled
    <3>3. conns[id[k]] # None => pc'[k] = "close" /\ old'[k] = conns[id[k]]
      BY <1>11 DEF Remove, TypeOK
    <3> QED
      BY <1>11, <2>1, <2>2, <2>3, <3>2, <3>3
      DEF Remove, TypeOK, StaysOut, Live, Writing
  <2>4. CASE id[w] # id[k]
    BY <1>11, <2>1, <2>2, <2>4 DEF Remove, TypeOK, StaysOut, Live, Writing
  <2> QED
    BY <2>3, <2>4
<1>12. ASSUME NEW k \in Commands, CloseRemoved(k) PROVE BarredInv'
  BY <1>12 DEF CloseRemoved, Closed, TypeOK, OwnerInv, PlaceInv, SerialInv,
         FlagInv, BarredInv, StaysOut, Owns, Live, Writing
<1>13. ASSUME NEW k \in Commands, Untunnel(k) PROVE BarredInv'
  BY <1>13 DEF Untunnel, TypeOK, OwnerInv, PlaceInv, SerialInv, FlagInv,
         BarredInv, StaysOut, Owns, Live, Writing
<1>14. ASSUME NEW k \in Commands, Unflag(k) PROVE BarredInv'
  BY <1>14 DEF Unflag, TypeOK, OwnerInv, PlaceInv, SerialInv, FlagInv,
         BarredInv, StaysOut, Owns, Live, Writing
<1>15. ASSUME NEW k \in Commands, CheckWritable(k) PROVE BarredInv'
  BY <1>15 DEF CheckWritable, TypeOK, OwnerInv, PlaceInv, SerialInv, FlagInv,
         BarredInv, StaysOut, Owns, Live, Writing
<1>16. ASSUME NEW k \in Commands, RefuseToEdit(k) PROVE BarredInv'
  BY <1>16 DEF RefuseToEdit, TypeOK, OwnerInv, PlaceInv, SerialInv, FlagInv,
         BarredInv, StaysOut, Owns, Live, Writing
<1>17. ASSUME NEW k \in Commands, Lookup(k) PROVE BarredInv'
  BY <1>17 DEF Lookup, TypeOK, OwnerInv, PlaceInv, SerialInv, FlagInv,
         BarredInv, StaysOut, Owns, Live, Writing
<1>18. ASSUME NEW k \in Commands, NotConnected(k) PROVE BarredInv'
  BY <1>18 DEF NotConnected, TypeOK, OwnerInv, PlaceInv, SerialInv, FlagInv,
         BarredInv, StaysOut, Owns, Live, Writing
<1>19. ASSUME NEW k \in Commands, CheckCanRun(k) PROVE BarredInv'
  BY <1>19 DEF CheckCanRun, TypeOK, OwnerInv, PlaceInv, SerialInv, FlagInv,
         BarredInv, StaysOut, Owns, Live, Writing
<1>20. ASSUME NEW k \in Commands, RefuseToRun(k) PROVE BarredInv'
  BY <1>20 DEF RefuseToRun, TypeOK, OwnerInv, PlaceInv, SerialInv, FlagInv,
         BarredInv, StaysOut, Owns, Live, Writing
<1>21. ASSUME NEW k \in Commands, Edit(k) PROVE BarredInv'
  BY <1>21 DEF Edit, EditReaches, TypeOK, OwnerInv, PlaceInv, SerialInv,
         FlagInv, BarredInv, StaysOut, Owns, Live, Writing
<1>22. ASSUME NEW k \in Commands, Run(k) PROVE BarredInv'
  BY <1>22 DEF Run, EditReaches, StatementReaches, TypeOK, OwnerInv, PlaceInv,
         SerialInv, FlagInv, BarredInv, StaysOut, Owns, Live, Writing
<1>23. ASSUME NEW k \in Commands, WriteFails(k) PROVE BarredInv'
  BY <1>23 DEF WriteFails, TypeOK, OwnerInv, PlaceInv, SerialInv, FlagInv,
         BarredInv, StaysOut, Owns, Live, Writing
<1>24. ASSUME NEW k \in Commands, FinishEdit(k) PROVE BarredInv'
  BY <1>24 DEF FinishEdit, TypeOK, OwnerInv, PlaceInv, SerialInv, FlagInv,
         BarredInv, StaysOut, Owns, Live, Writing
<1>25. ASSUME NEW k \in Commands, FinishRun(k) PROVE BarredInv'
  BY <1>25 DEF FinishRun, TypeOK, OwnerInv, PlaceInv, SerialInv, FlagInv,
         BarredInv, StaysOut, Owns, Live, Writing
<1>26. CASE UNCHANGED vars
  BY <1>26 DEF TypeOK, OwnerInv, PlaceInv, SerialInv, FlagInv, BarredInv,
         StaysOut, Owns, Live, Writing
<1> QED
  BY <1>1, <1>2, <1>3, <1>4, <1>5, <1>6, <1>7, <1>8, <1>9, <1>10, <1>11, <1>12,
         <1>13, <1>14, <1>15, <1>16, <1>17, <1>18, <1>19, <1>20, <1>21, <1>22,
         <1>23, <1>24, <1>25, <1>26
    DEF Next, Step

(* A running forwarder stays registered or with its connect. *)
LEMMA ForwarderStep ==
    ASSUME TypeOK, ForwarderInv, [Next]_vars
    PROVE  ForwarderInv'
<1>1. ASSUME NEW k \in Commands, NEW i \in Ids, StartWrite(k, i)
      PROVE  ForwarderInv'
  BY <1>1 DEF StartWrite, BarredFrom, Settled, Unsettled, TypeOK, ForwarderInv,
         NoForwarderLeaks
<1>2. ASSUME NEW k \in Commands, NEW i \in Ids, StartDisconnect(k, i)
      PROVE  ForwarderInv'
  BY <1>2 DEF StartDisconnect, TypeOK, ForwarderInv, NoForwarderLeaks
<1>3. ASSUME NEW k \in Commands, NEW i \in Ids, NEW h \in Handles,
             NEW p \in Profile, StartConnect(k, i, h, p)
      PROVE  ForwarderInv'
  BY <1>3 DEF StartConnect, TypeOK, ForwarderInv, NoForwarderLeaks
<1>4. ASSUME NEW k \in Commands, Opens(k) PROVE ForwarderInv'
  BY <1>4 DEF Opens, TypeOK, ForwarderInv, NoForwarderLeaks
<1>5. ASSUME NEW k \in Commands, OpenFails(k) PROVE ForwarderInv'
  BY <1>5 DEF OpenFails, TypeOK, ForwarderInv, NoForwarderLeaks
<1>6. ASSUME NEW k \in Commands, Register(k) PROVE ForwarderInv'
  BY <1>6 DEF Register, NoteCrossing, Unsettled, TypeOK, ForwarderInv,
         NoForwarderLeaks
<1>7. ASSUME NEW k \in Commands, CloseSession(k) PROVE ForwarderInv'
  BY <1>7 DEF CloseSession, TypeOK, ForwarderInv, NoForwarderLeaks
<1>8. ASSUME NEW k \in Commands, CloseOld(k) PROVE ForwarderInv'
  BY <1>8 DEF CloseOld, Closed, TypeOK, ForwarderInv, NoForwarderLeaks
<1>9. ASSUME NEW k \in Commands, SetFlag(k) PROVE ForwarderInv'
  BY <1>9 DEF SetFlag, TypeOK, ForwarderInv, NoForwarderLeaks
<1>10. ASSUME NEW k \in Commands, SetTunnel(k) PROVE ForwarderInv'
  BY <1>10 DEF SetTunnel, TypeOK, ForwarderInv, NoForwarderLeaks
<1>11. ASSUME NEW k \in Commands, Remove(k) PROVE ForwarderInv'
  BY <1>11 DEF Remove, NoteCrossing, Unsettled, TypeOK, ForwarderInv,
         NoForwarderLeaks
<1>12. ASSUME NEW k \in Commands, CloseRemoved(k) PROVE ForwarderInv'
  BY <1>12 DEF CloseRemoved, Closed, TypeOK, ForwarderInv, NoForwarderLeaks
<1>13. ASSUME NEW k \in Commands, Untunnel(k) PROVE ForwarderInv'
  BY <1>13 DEF Untunnel, TypeOK, ForwarderInv, NoForwarderLeaks
<1>14. ASSUME NEW k \in Commands, Unflag(k) PROVE ForwarderInv'
  BY <1>14 DEF Unflag, TypeOK, ForwarderInv, NoForwarderLeaks
<1>15. ASSUME NEW k \in Commands, CheckWritable(k) PROVE ForwarderInv'
  BY <1>15 DEF CheckWritable, TypeOK, ForwarderInv, NoForwarderLeaks
<1>16. ASSUME NEW k \in Commands, RefuseToEdit(k) PROVE ForwarderInv'
  BY <1>16 DEF RefuseToEdit, TypeOK, ForwarderInv, NoForwarderLeaks
<1>17. ASSUME NEW k \in Commands, Lookup(k) PROVE ForwarderInv'
  BY <1>17 DEF Lookup, TypeOK, ForwarderInv, NoForwarderLeaks
<1>18. ASSUME NEW k \in Commands, NotConnected(k) PROVE ForwarderInv'
  BY <1>18 DEF NotConnected, TypeOK, ForwarderInv, NoForwarderLeaks
<1>19. ASSUME NEW k \in Commands, CheckCanRun(k) PROVE ForwarderInv'
  BY <1>19 DEF CheckCanRun, TypeOK, ForwarderInv, NoForwarderLeaks
<1>20. ASSUME NEW k \in Commands, RefuseToRun(k) PROVE ForwarderInv'
  BY <1>20 DEF RefuseToRun, TypeOK, ForwarderInv, NoForwarderLeaks
<1>21. ASSUME NEW k \in Commands, Edit(k) PROVE ForwarderInv'
  BY <1>21 DEF Edit, EditReaches, TypeOK, ForwarderInv, NoForwarderLeaks
<1>22. ASSUME NEW k \in Commands, Run(k) PROVE ForwarderInv'
  BY <1>22 DEF Run, EditReaches, StatementReaches, TypeOK, ForwarderInv,
         NoForwarderLeaks
<1>23. ASSUME NEW k \in Commands, WriteFails(k) PROVE ForwarderInv'
  BY <1>23 DEF WriteFails, TypeOK, ForwarderInv, NoForwarderLeaks
<1>24. ASSUME NEW k \in Commands, FinishEdit(k) PROVE ForwarderInv'
  BY <1>24 DEF FinishEdit, TypeOK, ForwarderInv, NoForwarderLeaks
<1>25. ASSUME NEW k \in Commands, FinishRun(k) PROVE ForwarderInv'
  BY <1>25 DEF FinishRun, TypeOK, ForwarderInv, NoForwarderLeaks
<1>26. CASE UNCHANGED vars
  BY <1>26 DEF TypeOK, ForwarderInv, NoForwarderLeaks
<1> QED
  BY <1>1, <1>2, <1>3, <1>4, <1>5, <1>6, <1>7, <1>8, <1>9, <1>10, <1>11, <1>12,
         <1>13, <1>14, <1>15, <1>16, <1>17, <1>18, <1>19, <1>20, <1>21, <1>22,
         <1>23, <1>24, <1>25, <1>26
    DEF Next, Step

(* A tunnel stays with its connection. *)
LEMMA TunnelStep ==
    ASSUME TypeOK, OwnerInv, PlaceInv, SerialInv, TunnelInv, [Next]_vars
    PROVE  TunnelInv'
<1>1. ASSUME NEW k \in Commands, NEW i \in Ids, StartWrite(k, i)
      PROVE  TunnelInv'
  BY <1>1 DEF StartWrite, BarredFrom, Settled, Unsettled, TypeOK, OwnerInv,
         PlaceInv, SerialInv, TunnelInv, Owns
<1>2. ASSUME NEW k \in Commands, NEW i \in Ids, StartDisconnect(k, i)
      PROVE  TunnelInv'
  BY <1>2 DEF StartDisconnect, TypeOK, OwnerInv, PlaceInv, SerialInv,
         TunnelInv, Owns
<1>3. ASSUME NEW k \in Commands, NEW i \in Ids, NEW h \in Handles,
             NEW p \in Profile, StartConnect(k, i, h, p)
      PROVE  TunnelInv'
  BY <1>3 DEF StartConnect, TypeOK, OwnerInv, PlaceInv, SerialInv, TunnelInv,
         Owns
<1>4. ASSUME NEW k \in Commands, Opens(k) PROVE TunnelInv'
  BY <1>4 DEF Opens, TypeOK, OwnerInv, PlaceInv, SerialInv, TunnelInv, Owns
<1>5. ASSUME NEW k \in Commands, OpenFails(k) PROVE TunnelInv'
  BY <1>5 DEF OpenFails, TypeOK, OwnerInv, PlaceInv, SerialInv, TunnelInv, Owns
<1>6. ASSUME NEW k \in Commands, Register(k) PROVE TunnelInv'
  BY <1>6 DEF Register, NoteCrossing, Unsettled, TypeOK, OwnerInv, PlaceInv,
         SerialInv, TunnelInv, Owns
<1>7. ASSUME NEW k \in Commands, CloseSession(k) PROVE TunnelInv'
  BY <1>7 DEF CloseSession, TypeOK, OwnerInv, PlaceInv, SerialInv, TunnelInv,
         Owns
<1>8. ASSUME NEW k \in Commands, CloseOld(k) PROVE TunnelInv'
  BY <1>8 DEF CloseOld, Closed, TypeOK, OwnerInv, PlaceInv, SerialInv,
         TunnelInv, Owns
<1>9. ASSUME NEW k \in Commands, SetFlag(k) PROVE TunnelInv'
  BY <1>9 DEF SetFlag, TypeOK, OwnerInv, PlaceInv, SerialInv, TunnelInv, Owns
<1>10. ASSUME NEW k \in Commands, SetTunnel(k) PROVE TunnelInv'
  <2>1. ASSUME NEW i \in Ids, i \notin crossed, conns[i] # None,
               profile[conns[i]].tunnelled
        PROVE  conns[i] \in forwarding'
    BY <1>10, <2>1
    DEF SetTunnel, TypeOK, PlaceInv, SerialInv, TunnelInv
  <2>2. ASSUME NEW i \in Ids, i \notin crossed, conns[i] = None
        PROVE  \/ tunnels'[i] = None
               \/ \E j \in Commands :
                    id[j] = i /\ pc'[j] \in {"close", "untunnel"}
    BY <1>10, <2>2 DEF SetTunnel, TypeOK, PlaceInv, SerialInv, TunnelInv
  <2>3. ASSUME NEW i \in Ids, tunnels'[i] # None
        PROVE  /\ phase[tunnels'[i]] \in {"open", "closed"}
               /\ \A j \in Ids : conns[j] = tunnels'[i] => j = i
               /\ \A j \in Commands :
                    pc'[j] \in Connecting => handle'[j] # tunnels'[i]
    <3>1. CASE i = id[k] /\ profile[handle[k]].tunnelled
      <4>1. tunnels'[i] = handle[k] /\ handle[k] \in Handles
        BY <1>10, <3>1 DEF SetTunnel, TypeOK, PlaceInv
      <4>2. phase[handle[k]] \in {"open", "closed"}
        BY <1>10 DEF SetTunnel, PlaceInv
      <4> QED
        BY <1>10, <3>1, <4>1, <4>2 DEF SetTunnel, TypeOK, PlaceInv
    <3>2. CASE ~(i = id[k] /\ profile[handle[k]].tunnelled)
      <4>1. tunnels'[i] = tunnels[i]
        BY <1>10, <3>2 DEF SetTunnel, TypeOK
      <4> QED
        BY <1>10, <2>3, <4>1 DEF SetTunnel, TypeOK, TunnelInv
    <3> QED
      BY <3>1, <3>2
  <2>4. ASSUME NEW j \in Commands, pc[j] \in {"opening", "register"},
               profile[handle[j]].tunnelled
        PROVE  handle[j] \in forwarding'
    BY <1>10, <2>4 DEF SetTunnel, TypeOK, PlaceInv, TunnelInv
  <2> QED
    BY <1>10, <2>1, <2>2, <2>3, <2>4 DEF SetTunnel, TypeOK, TunnelInv
<1>11. ASSUME NEW k \in Commands, Remove(k) PROVE TunnelInv'
  BY <1>11 DEF Remove, NoteCrossing, Unsettled, TypeOK, OwnerInv, PlaceInv,
         SerialInv, TunnelInv, Owns
<1>12. ASSUME NEW k \in Commands, CloseRemoved(k) PROVE TunnelInv'
  BY <1>12 DEF CloseRemoved, Closed, TypeOK, OwnerInv, PlaceInv, SerialInv,
         TunnelInv, Owns
<1>13. ASSUME NEW k \in Commands, Untunnel(k) PROVE TunnelInv'
  BY <1>13 DEF Untunnel, TypeOK, OwnerInv, PlaceInv, SerialInv, TunnelInv, Owns
<1>14. ASSUME NEW k \in Commands, Unflag(k) PROVE TunnelInv'
  BY <1>14 DEF Unflag, TypeOK, OwnerInv, PlaceInv, SerialInv, TunnelInv, Owns
<1>15. ASSUME NEW k \in Commands, CheckWritable(k) PROVE TunnelInv'
  BY <1>15 DEF CheckWritable, TypeOK, OwnerInv, PlaceInv, SerialInv, TunnelInv,
         Owns
<1>16. ASSUME NEW k \in Commands, RefuseToEdit(k) PROVE TunnelInv'
  BY <1>16 DEF RefuseToEdit, TypeOK, OwnerInv, PlaceInv, SerialInv, TunnelInv,
         Owns
<1>17. ASSUME NEW k \in Commands, Lookup(k) PROVE TunnelInv'
  BY <1>17 DEF Lookup, TypeOK, OwnerInv, PlaceInv, SerialInv, TunnelInv, Owns
<1>18. ASSUME NEW k \in Commands, NotConnected(k) PROVE TunnelInv'
  BY <1>18 DEF NotConnected, TypeOK, OwnerInv, PlaceInv, SerialInv, TunnelInv,
         Owns
<1>19. ASSUME NEW k \in Commands, CheckCanRun(k) PROVE TunnelInv'
  BY <1>19 DEF CheckCanRun, TypeOK, OwnerInv, PlaceInv, SerialInv, TunnelInv,
         Owns
<1>20. ASSUME NEW k \in Commands, RefuseToRun(k) PROVE TunnelInv'
  BY <1>20 DEF RefuseToRun, TypeOK, OwnerInv, PlaceInv, SerialInv, TunnelInv,
         Owns
<1>21. ASSUME NEW k \in Commands, Edit(k) PROVE TunnelInv'
  BY <1>21 DEF Edit, EditReaches, TypeOK, OwnerInv, PlaceInv, SerialInv,
         TunnelInv, Owns
<1>22. ASSUME NEW k \in Commands, Run(k) PROVE TunnelInv'
  BY <1>22 DEF Run, EditReaches, StatementReaches, TypeOK, OwnerInv, PlaceInv,
         SerialInv, TunnelInv, Owns
<1>23. ASSUME NEW k \in Commands, WriteFails(k) PROVE TunnelInv'
  BY <1>23 DEF WriteFails, TypeOK, OwnerInv, PlaceInv, SerialInv, TunnelInv,
         Owns
<1>24. ASSUME NEW k \in Commands, FinishEdit(k) PROVE TunnelInv'
  BY <1>24 DEF FinishEdit, TypeOK, OwnerInv, PlaceInv, SerialInv, TunnelInv,
         Owns
<1>25. ASSUME NEW k \in Commands, FinishRun(k) PROVE TunnelInv'
  BY <1>25 DEF FinishRun, TypeOK, OwnerInv, PlaceInv, SerialInv, TunnelInv,
         Owns
<1>26. CASE UNCHANGED vars
  BY <1>26 DEF TypeOK, OwnerInv, PlaceInv, SerialInv, TunnelInv, Owns
<1> QED
  BY <1>1, <1>2, <1>3, <1>4, <1>5, <1>6, <1>7, <1>8, <1>9, <1>10, <1>11, <1>12,
         <1>13, <1>14, <1>15, <1>16, <1>17, <1>18, <1>19, <1>20, <1>21, <1>22,
         <1>23, <1>24, <1>25, <1>26
    DEF Next, Step

-----------------------------------------------------------------------------
(* The invariants hold when nothing has been connected. *)
LEMMA Starts ==
    Init => TypeOK /\ NoHandleLeaks /\ ForwarderInv /\ IInv
<1> SUFFICES ASSUME Init PROVE TypeOK /\ NoHandleLeaks /\ ForwarderInv /\ IInv
  OBVIOUS
<1>1. TypeOK
  BY DEF Init, TypeOK
<1>2. NoHandleLeaks /\ ForwarderInv /\ OwnerInv
  BY DEF Init, NoHandleLeaks, ForwarderInv, NoForwarderLeaks, OwnerInv, Owns
<1>3. PlaceInv /\ SerialInv /\ FlagInv /\ BarredInv /\ TunnelInv
  BY DEF Init, PlaceInv, SerialInv, FlagInv, BarredInv, TunnelInv
<1> QED
  BY <1>1, <1>2, <1>3 DEF IInv

(* The inductive invariant always holds. *)
LEMMA InvariantHolds == Spec => []IInv
<1>1. IInv /\ [Next]_vars => IInv'
  BY TypeStep, OwnerStep, PlaceStep, SerialStep, FlagStep, BarredStep,
     TunnelStep DEF IInv
<1>2. Init => IInv
  BY Starts
<1> QED
  BY <1>1, <1>2, PTL DEF Spec

(* Every variable of Connections keeps its type. *)
THEOREM TypeCorrect == Spec => []TypeOK
<1>1. IInv => TypeOK
  BY DEF IInv
<1> QED
  BY <1>1, InvariantHolds, PTL

(* No open connection is ever lost: it is in the registry or in the hands of
   the command that is putting it there or closing it, however connects and
   disconnects of an id overlap. *)
THEOREM HandlesDoNotLeak == Spec => []NoHandleLeaks
<1>1. Init => NoHandleLeaks
  BY Starts
<1> QED
  BY <1>1, TypeCorrect, LeakStep, PTL DEF Spec

(* A running forwarder is registered or belongs to a connect under way, however
   connects and disconnects of an id overlap. *)
THEOREM ForwardersDoNotLeak == Spec => []NoForwarderLeaks
<1>1. Init => ForwarderInv
  BY Starts
<1>2. ForwarderInv => NoForwarderLeaks
  BY DEF ForwarderInv
<1> QED
  BY <1>1, <1>2, TypeCorrect, ForwarderStep, PTL DEF Spec

(* Neither leaks. *)
THEOREM NothingIsLeaked == Spec => []NothingLeaks
<1>1. NoHandleLeaks /\ NoForwarderLeaks => NothingLeaks
  BY DEF NothingLeaks
<1> QED
  BY <1>1, HandlesDoNotLeak, ForwardersDoNotLeak, PTL

(* When a command that crossed no other is done with an id, the read-only set
   is in step with the connection it registered or removed, whatever crossed
   before it and whatever is being opened meanwhile. *)
THEOREM FlagsFollowConnections == Spec => []FlagFollowsConnection
<1>1. IInv => FlagFollowsConnection
  BY DEF IInv, FlagInv, FlagFollowsConnection, Settled, Unsettled
<1> QED
  BY <1>1, InvariantHolds, PTL

(* Likewise a connection made through a tunnel has it, and an id without a
   connection has none. *)
THEOREM TunnelsFollowConnections == Spec => []TunnelFollowsConnection
<1>1. IInv => TunnelFollowsConnection
  BY DEF IInv, TunnelInv, TunnelFollowsConnection, Settled, Unsettled
<1> QED
  BY <1>1, InvariantHolds, PTL

(* So the three maps agree about every id that is settled. *)
THEOREM MapsStayInStep == Spec => []MapsAgree
<1>1. FlagFollowsConnection /\ TunnelFollowsConnection => MapsAgree
  BY DEF MapsAgree
<1> QED
  BY <1>1, FlagsFollowConnections, TunnelsFollowConnections, PTL

(* A writer that asks for a read-only connection of a settled id never writes
   through it, unless commands cross or close() left it usable. *)
THEOREM BarredWritersStayOut == Spec => []BarredWritersNeverWrite
<1>1. IInv => BarredWritersNeverWrite
  <2> SUFFICES ASSUME IInv, NEW k \in Commands, Writing(k),
                      handle[k] = barred[k]
               PROVE  ~CloseEnds /\ phase[handle[k]] = "closed"
    BY DEF BarredWritersNeverWrite
  <2>1. handle[k] # None
    BY DEF IInv, TypeOK, PlaceInv, Writing
  <2> QED
    BY <2>1 DEF IInv, BarredInv, StaysOut
<1> QED
  BY <1>1, InvariantHolds, PTL

=============================================================================
