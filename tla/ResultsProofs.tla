---------------------------- MODULE ResultsProofs ----------------------------
(***************************************************************************)
(* Proofs about ResultStore and ResultStream, for any budget, ceiling and  *)
(* flush size of the store, any batch and channel size and any length of   *)
(* result, and about ResultRegistry, for any number of connections, runs   *)
(* and commands and any bound on what is retained.  Every step of the      *)
(* stream leaves the store alone or is a step of the store, so what is     *)
(* proved of the store is reused; the rest follows the rows, which are 1,  *)
(* 2, 3 and so on: what is in hand, in a channel or shown always goes on   *)
(* where the next place ends.                                              *)
(***************************************************************************)
EXTENDS ResultStream, ResultRegistry, PositionsProofs, SequenceTheorems, TLAPS

-----------------------------------------------------------------------------
(* Sizes.                                                                  *)

\* The least of two numbers.
LEMMA MinOfTwo ==
    ASSUME NEW a \in Int, NEW b \in Int
    PROVE  Min({a, b}) = IF a <= b THEN a ELSE b
<1>1. \E x \in {a, b} : \A y \in {a, b} : x <= y
  OBVIOUS
<1>2. Min({a, b}) \in {a, b} /\ \A y \in {a, b} : Min({a, b}) <= y
  BY <1>1 DEF Min
<1> QED
  BY <1>2

\* The greatest of two numbers.
LEMMA MaxOfTwo ==
    ASSUME NEW a \in Int, NEW b \in Int
    PROVE  Max({a, b}) = IF a <= b THEN b ELSE a
<1>1. \E x \in {a, b} : \A y \in {a, b} : x >= y
  OBVIOUS
<1>2. Max({a, b}) \in {a, b} /\ \A y \in {a, b} : Max({a, b}) >= y
  BY <1>1 DEF Max
<1> QED
  BY <1>2

-----------------------------------------------------------------------------
(* The store, which no step of the stream but a store step changes.        *)

\* What a configuration of a store may hold.
LEMMA BudgetType ==
    ASSUME config \in Configs
    PROVE  /\ Budget \in Nat \ {0}
           /\ config.offload_enabled \in BOOLEAN
           /\ config.max_total_rows \in Nat \ {0}
  BY ConfigsAssumption DEF Budget

(* A flush that succeeds leaves every row past the budget in the file. *)
LEMMA FlushExtends ==
    ASSUME StoreTypeOK, RowsInPlace, stage = "filling",
           NEW rs \in Seq(Nat), NEW n \in Nat,
           n - Len(rs) = total - Len(pending), Budget <= total - Len(pending),
           \A k \in 1 .. Len(rs) : rs[k] = n - Len(rs) + k,
           FlushOk(rs, n)
    PROVE  /\ DOMAIN disk' = Budget .. n - 1
           /\ \A i \in DOMAIN disk' : disk'[i] = i + 1
<1> USE ConfigsAssumption, FlushAssumption
<1> DEFINE i == n - Len(rs)
<1>1. /\ i \in Nat
      /\ Budget \in Nat
      /\ Budget <= i
      /\ i + Len(rs) = n
  BY BudgetType DEF StoreTypeOK
<1>2. DOMAIN disk = Budget .. i - 1 /\ \A j \in DOMAIN disk : disk[j] = j + 1
  BY DEF RowsInPlace
<1>3. disk' = Insert(disk, i, rs)
  BY DEF FlushOk
<1> HIDE DEF i
<1>4. \A k \in 1 .. Len(rs) : rs[k] = i + k
  BY DEF i
<1> DEFINE all == DOMAIN disk \cup i .. i + Len(rs) - 1
<1>5. Len(rs) \in Nat
  OBVIOUS
<1>6. all = Budget .. n - 1
  BY <1>1, <1>2, <1>5
<1>7. DOMAIN disk' = all
  BY <1>3 DEF Insert
<1>8. ASSUME NEW j \in all PROVE disk'[j] = j + 1
  <2>1. disk'[j] = IF j \in DOMAIN disk THEN disk[j] ELSE rs[j - i + 1]
    BY <1>3 DEF Insert
  <2>2. CASE j \in DOMAIN disk
    BY <2>1, <2>2, <1>2
  <2>3. CASE j \notin DOMAIN disk
    <3>1. j \in Int /\ i \in Int /\ j - i + 1 \in 1 .. Len(rs)
      BY <2>3, <1>1, <1>5
    <3>2. rs[j - i + 1] = i + (j - i + 1)
      BY <3>1, <1>4
    <3>3. i + (j - i + 1) = j + 1
      BY <3>1
    <3> QED
      BY <2>1, <2>3, <3>2, <3>3
  <2> QED
    BY <2>2, <2>3
<1> QED
  BY <1>6, <1>7, <1>8

\* A row for which there is room is the next one after those accepted.
LEMMA NextIsNext ==
    ASSUME NonePassedOver, stage = "filling", ~Full
    PROVE  NextRow = total + 1
BY DEF NonePassedOver, NextRow

(* What BufferAndFlush, and a Finalize with rows to write, leave. *)
LEMMA BufferAndFlushExtends ==
    ASSUME StoreTypeOK, NonePassedOver, RowsInPlace, BufferAndFlush(NextRow)
    PROVE  /\ DOMAIN disk' = Budget .. total
           /\ \A i \in DOMAIN disk' : disk'[i] = i + 1
<1> USE ConfigsAssumption, FlushAssumption
<1>0. NextRow = total + 1
  BY NextIsNext DEF BufferAndFlush, Overflows
<1> DEFINE rs == Append(pending, NextRow)
<1>1. /\ rs \in Seq(Nat)
      /\ Len(rs) = Len(pending) + 1
      /\ total \in Nat
      /\ Len(pending) \in Nat
  BY <1>0 DEF StoreTypeOK
<1>2. /\ stage = "filling"
      /\ total >= Budget
      /\ Budget \in Nat
      /\ FlushOk(rs, total + 1)
  BY BudgetType DEF StoreTypeOK, BufferAndFlush, Overflows
<1>3. Budget <= total - Len(pending)
  BY <1>1, <1>2 DEF RowsInPlace
<1>4. (total + 1) - Len(rs) = total - Len(pending)
  BY <1>1
<1>5. \A k \in 1 .. Len(rs) : rs[k] = (total + 1) - Len(rs) + k
  BY <1>0, <1>1, <1>2 DEF RowsInPlace, StoreTypeOK
<1> HIDE DEF rs
<1>6. total + 1 \in Nat /\ (total + 1) - 1 = total
  BY <1>1
<1> QED
  BY <1>1, <1>2, <1>3, <1>4, <1>5, <1>6, FlushExtends

\* So does the last flush, of what is still pending.
LEMMA FinalizeExtends ==
    ASSUME StoreTypeOK, RowsInPlace, Finalize
    PROVE  /\ DOMAIN disk' = Budget .. total - 1
           /\ \A i \in DOMAIN disk' : disk'[i] = i + 1
           /\ pending' = <<>>
           /\ DOMAIN disk' # {} => spill'
<1> USE ConfigsAssumption, FlushAssumption
<1>1. CASE pending = <<>>
  BY <1>1 DEF StoreTypeOK, RowsInPlace, Finalize
<1>2. CASE pending # <<>>
  <2>1. /\ Len(pending) \in Nat \ {0}
        /\ total \in Nat
        /\ pending \in Seq(Nat)
        /\ Budget \in Nat
        /\ stage = "filling"
    BY <1>2, BudgetType DEF StoreTypeOK, Finalize
  <2>2. Budget <= total - Len(pending)
    BY <2>1 DEF RowsInPlace
  <2>3. FlushOk(pending, total)
    BY <1>2 DEF Finalize
  <2>4. \A k \in 1 .. Len(pending) : pending[k] = total - Len(pending) + k
    BY <2>1 DEF RowsInPlace
  <2>5. /\ DOMAIN disk' = Budget .. total - 1
        /\ \A i \in DOMAIN disk' : disk'[i] = i + 1
    BY <2>1, <2>2, <2>3, <2>4, FlushExtends
  <2> QED
    BY <2>3, <2>5 DEF FlushOk
<1> QED
  BY <1>1, <1>2

-----------------------------------------------------------------------------
\* Every step of the store keeps its types.
LEMMA TypeStep ==
    ASSUME StoreTypeOK, NonePassedOver, RowsInPlace, [StoreNext]_storeVars
    PROVE  StoreTypeOK'
<1> USE ConfigsAssumption, FlushAssumption
<1>1. CASE Refuse
  BY <1>1 DEF Refuse, StoreTypeOK, Budget
<1>2. CASE KeepResident(NextRow)
  BY <1>2, BudgetType DEF KeepResident, StoreTypeOK, NextRow, Budget
<1>3. CASE Buffer(NextRow)
  BY <1>3, BudgetType DEF Buffer, Overflows, StoreTypeOK, NextRow, Budget
<1>4. CASE BufferAndFlush(NextRow)
  <2>1. DOMAIN disk' \subseteq Budget' .. total' - 1
    BY <1>4, BudgetType, BufferAndFlushExtends
    DEF BufferAndFlush, StoreTypeOK, Budget
  <2> QED
    BY <1>4, <2>1 DEF BufferAndFlush, FlushOk, StoreTypeOK
<1>5. CASE AppendFails(NextRow)
  <2>1. Append(pending, NextRow) \in Seq(Nat) /\ <<>> \in Seq(Nat)
    BY DEF StoreTypeOK, NextRow
  <2>2. pending' \in {Append(pending, NextRow), <<>>}
    BY <1>5 DEF AppendFails, FlushFails
  <2>3. pending' \in Seq(Nat)
    BY <2>1, <2>2
  <2>4. spill' \in BOOLEAN /\ file' \in {"none", "there", "left"}
    BY <1>5 DEF AppendFails, FlushFails, StoreTypeOK
  <2>5. given' \in Nat
    BY <1>5 DEF AppendFails, StoreTypeOK
  <2> QED
    BY <1>5, <2>3, <2>4, <2>5 DEF AppendFails, FlushFails, StoreTypeOK, Budget
<1>6. CASE Finalize
  <2>1. DOMAIN disk' \subseteq Budget' .. total' - 1
    BY <1>6, FinalizeExtends DEF Finalize, Budget
  <2>2. <<>> \in Seq(Nat)
    OBVIOUS
  <2>3. spill' \in BOOLEAN /\ file' \in {"none", "there", "left"}
    BY <1>6 DEF Finalize, FlushOk, StoreTypeOK
  <2> QED
    BY <1>6, <2>1, <2>2, <2>3, FinalizeExtends DEF Finalize, StoreTypeOK
<1>7. CASE FinalizeFails
  <2>1. pending' \in Seq(Nat)
    <3>1. <<>> \in Seq(Nat)
      OBVIOUS
    <3>2. pending' \in {pending, <<>>}
      BY <1>7 DEF FinalizeFails, FlushFails
    <3> QED
      BY <3>1, <3>2 DEF StoreTypeOK
  <2> QED
    BY <1>7, <2>1 DEF FinalizeFails, FlushFails, StoreTypeOK, Budget
<1>8. CASE Discard
  BY <1>8 DEF Discard, StoreTypeOK, Budget
<1>9. CASE UNCHANGED storeVars
  BY <1>9 DEF storeVars, StoreTypeOK, Budget
<1> QED
  BY <1>1, <1>2, <1>3, <1>4, <1>5, <1>6, <1>7, <1>8, <1>9 DEF StoreNext

\* And every row in its place: the n-th row in memory, in the file or pending.
LEMMA RowsStep ==
    ASSUME StoreTypeOK, NonePassedOver, RowsInPlace, [StoreNext]_storeVars
    PROVE  RowsInPlace'
<1> USE ConfigsAssumption, FlushAssumption
<1> USE BudgetType
<1>1. CASE Refuse
  BY <1>1 DEF Refuse, StoreTypeOK, RowsInPlace, Budget
<1>2. CASE KeepResident(NextRow)
  BY <1>2, NextIsNext DEF KeepResident, StoreTypeOK, RowsInPlace, Budget
<1>3. CASE Buffer(NextRow)
  <2>1. /\ total \in Nat /\ Budget \in Nat /\ total >= Budget /\ pending \in Seq(Nat)
        /\ Len(pending) \in Nat /\ Len(pending) <= total /\ stage = "filling"
        /\ Len(pending) <= IF total > Budget THEN total - Budget ELSE 0
    BY <1>3 DEF Buffer, Overflows, StoreTypeOK, RowsInPlace
  <2>2. /\ pending' = Append(pending, total + 1) /\ total' = total + 1 /\ Budget' = Budget
        /\ Len(pending) + 1 < FlushRows
        /\ UNCHANGED <<memory, disk, spill, stage>>
    BY <1>3, NextIsNext DEF Buffer, Overflows, Budget
  <2>3. /\ Len(pending') = Len(pending) + 1 /\ total' - Len(pending') = total - Len(pending)
        /\ \A n \in 1 .. Len(pending) : pending'[n] = pending[n]
        /\ pending'[Len(pending) + 1] = total + 1
    BY <2>1, <2>2
  <2>4. ASSUME NEW n \in 1 .. Len(pending')
        PROVE  pending'[n] = total' - Len(pending') + n
    <3>1. n \in Nat /\ n <= Len(pending) + 1
      BY <2>1, <2>3
    <3>2. CASE n = Len(pending) + 1
      BY <2>1, <2>2, <2>3, <3>2
    <3>3. CASE n \in 1 .. Len(pending)
      <4>1. pending[n] = total - Len(pending) + n
        BY <2>1, <3>3 DEF RowsInPlace
      <4> QED
        BY <2>1, <2>2, <2>3, <3>3, <4>1
    <3> QED
      BY <2>1, <3>1, <3>2, <3>3
  <2>5. Len(memory) = Budget /\ \A i \in 1 .. Len(memory) : memory[i] = i
    BY <2>1 DEF RowsInPlace
  <2>6. /\ DOMAIN disk = Budget .. total - Len(pending) - 1
        /\ \A i \in DOMAIN disk : disk[i] = i + 1
        /\ DOMAIN disk # {} => spill
    BY <2>1 DEF RowsInPlace
  <2>7. Len(pending') <= IF total' > Budget' THEN total' - Budget' ELSE 0
    BY <2>1, <2>2, <2>3
  <2>8. Len(pending') < FlushRows /\ stage' = "filling"
    BY <2>1, <2>2, <2>3
  <2>9. /\ Len(memory') = IF total' < Budget' THEN total' ELSE Budget'
        /\ \A i \in 1 .. Len(memory') : memory'[i] = i
    BY <2>1, <2>2, <2>5
  <2>10. /\ DOMAIN disk' = Budget' .. total' - Len(pending') - 1
         /\ \A i \in DOMAIN disk' : disk'[i] = i + 1
         /\ DOMAIN disk' # {} => spill'
    BY <2>2, <2>3, <2>6
  <2> QED
    BY <2>4, <2>7, <2>8, <2>9, <2>10 DEF RowsInPlace
<1>4. CASE BufferAndFlush(NextRow)
  BY <1>4, BufferAndFlushExtends
  DEF BufferAndFlush, Overflows, StoreTypeOK, FlushOk, RowsInPlace, Budget
<1>5. CASE AppendFails(NextRow)
  BY <1>5 DEF AppendFails, Overflows, FlushFails, StoreTypeOK, RowsInPlace, Budget
<1>6. CASE Finalize
  <2>1. Len(<<>>) = 0
    OBVIOUS
  <2>2. DOMAIN disk' = Budget' .. total' - Len(pending') - 1
    BY <1>6, <2>1, FinalizeExtends DEF Finalize, StoreTypeOK, Budget
  <2>3. \A n \in 1 .. Len(pending') : FALSE
    BY <1>6, <2>1, FinalizeExtends
  <2>4. total - Budget \in Int /\ FlushRows > 0
    BY DEF StoreTypeOK
  <2>5. Len(pending') <= IF total' > Budget' THEN total' - Budget' ELSE 0
    BY <1>6, <2>1, <2>4, FinalizeExtends DEF Finalize, StoreTypeOK, Budget
  <2> QED
    BY <1>6, <2>1, <2>2, <2>3, <2>4, <2>5, FinalizeExtends
    DEF Finalize, RowsInPlace, Budget
<1>7. CASE FinalizeFails
  BY <1>7 DEF FinalizeFails, FlushFails, StoreTypeOK, RowsInPlace, Budget
<1>8. CASE Discard
  BY <1>8 DEF Discard, StoreTypeOK, RowsInPlace, Budget
<1>9. CASE UNCHANGED storeVars
  BY <1>9 DEF storeVars, StoreTypeOK, RowsInPlace, Budget
<1> QED
  BY <1>1, <1>2, <1>3, <1>4, <1>5, <1>6, <1>7, <1>8, <1>9 DEF StoreNext

\* And no row is passed over while there is room.
LEMMA RoomStep ==
    ASSUME StoreTypeOK, NonePassedOver, [StoreNext]_storeVars
    PROVE  NonePassedOver'
<1>1. given \in Nat /\ total \in Nat
  BY DEF StoreTypeOK
<1>2. CASE Refuse
  BY <1>2 DEF Refuse, NonePassedOver, Full, Budget
<1>3. CASE KeepResident(NextRow) \/ Buffer(NextRow) \/ BufferAndFlush(NextRow)
  BY <1>1, <1>3 DEF KeepResident, Buffer, BufferAndFlush, Overflows, NonePassedOver
<1>4. CASE AppendFails(NextRow) \/ Finalize \/ FinalizeFails \/ Discard
  BY <1>4 DEF AppendFails, Finalize, FinalizeFails, FlushFails, Discard, NonePassedOver
<1>5. CASE UNCHANGED storeVars
  BY <1>5 DEF storeVars, NonePassedOver, Full, Budget
<1> QED
  BY <1>2, <1>3, <1>4, <1>5 DEF StoreNext

\* All three hold of an empty store.
LEMMA StoreInitially == StoreInit => StoreTypeOK /\ NonePassedOver /\ RowsInPlace
<1> USE ConfigsAssumption, FlushAssumption
<1> SUFFICES ASSUME StoreInit PROVE StoreTypeOK /\ NonePassedOver /\ RowsInPlace
  OBVIOUS
<1>1. /\ Budget \in Nat \ {0}
      /\ Len(<<>>) = 0
      /\ DOMAIN <<>> = {}
      /\ Budget .. 0 - 0 - 1 = {}
      /\ <<>> \in Seq(Nat)
  BY BudgetType DEF StoreInit
<1>2. StoreTypeOK
  BY <1>1 DEF StoreInit, StoreTypeOK
<1>3. RowsInPlace
  BY <1>1 DEF StoreInit, RowsInPlace
<1>4. NonePassedOver
  BY DEF StoreInit, NonePassedOver
<1> QED
  BY <1>2, <1>3, <1>4

\* So they hold in every state.
LEMMA Invariance == StoreSpec => [](StoreTypeOK /\ NonePassedOver /\ RowsInPlace)
  BY StoreInitially, TypeStep, RoomStep, RowsStep, PTL DEF StoreSpec

\* A step puts no more rows in memory than the budget.
LEMMA MemoryStep ==
    ASSUME StoreTypeOK, RowsInPlace, RowsInPlace', StoreTypeOK', MemoryIsBounded,
           [StoreNext]_storeVars
    PROVE  MemoryIsBounded'
<1> USE ConfigsAssumption, FlushAssumption
<1>0. Len(memory') <= Budget'
  <2>1. Budget' \in Nat /\ total' \in Nat
    BY DEF StoreTypeOK, Budget
  <2> QED
    BY <2>1 DEF RowsInPlace
<1> USE <1>0
<1>1. CASE Refuse
  BY <1>1 DEF Refuse, StoreTypeOK, RowsInPlace, MemoryIsBounded, NextRow
<1>2. CASE KeepResident(NextRow)
  BY <1>2 DEF KeepResident, StoreTypeOK, RowsInPlace, MemoryIsBounded, NextRow
<1>3. CASE Buffer(NextRow)
  BY <1>3 DEF Buffer, Overflows, StoreTypeOK, RowsInPlace, MemoryIsBounded, NextRow
<1>4. CASE BufferAndFlush(NextRow)
  BY <1>4 DEF BufferAndFlush, FlushOk, Overflows, StoreTypeOK, RowsInPlace, MemoryIsBounded, NextRow
<1>5. CASE AppendFails(NextRow)
  BY <1>5 DEF AppendFails, FlushFails, Overflows, StoreTypeOK, RowsInPlace, MemoryIsBounded, NextRow
<1>6. CASE Finalize
  BY <1>6 DEF Finalize, FlushOk, StoreTypeOK, RowsInPlace, MemoryIsBounded, NextRow
<1>7. CASE FinalizeFails
  BY <1>7 DEF FinalizeFails, FlushFails, StoreTypeOK, RowsInPlace, MemoryIsBounded, NextRow
<1>8. CASE Discard
  BY <1>8 DEF Discard, StoreTypeOK, RowsInPlace, MemoryIsBounded, NextRow
<1>9. CASE UNCHANGED storeVars
  BY <1>9 DEF storeVars, StoreTypeOK, RowsInPlace, MemoryIsBounded, NextRow
<1> QED
  BY <1>1, <1>2, <1>3, <1>4, <1>5, <1>6, <1>7, <1>8, <1>9 DEF StoreNext

\* The cap of the fetch is where the store is full.
LEMMA CapIsFull ==
    ASSUME StoreTypeOK
    PROVE  FetchCap \in Nat /\ (Full <=> total >= FetchCap)
<1>1. /\ Budget \in Nat /\ config.offload_enabled \in BOOLEAN
      /\ config.max_total_rows \in Nat /\ total \in Nat
  BY BudgetType DEF StoreTypeOK
<1>2. Min({Budget, config.max_total_rows})
        = IF Budget <= config.max_total_rows THEN Budget ELSE config.max_total_rows
  BY <1>1, MinOfTwo
<1> QED
  BY <1>1, <1>2 DEF FetchCap, Full

(* How many rows a store that fills has kept, and what it says. *)
CutAtCap ==
    /\ total <= FetchCap
    /\ stage \in {"filling", "final"} =>
        /\ total = IF given <= FetchCap THEN given ELSE FetchCap
        /\ truncated <=> given > FetchCap

\* It is the first part of CutIsReported, without the minimum.
LEMMA CutSpelled ==
    ASSUME StoreTypeOK
    PROVE  CutIsReported <=> CutAtCap /\ (~config.offload_enabled => file = "none")
<1>1. given \in Nat /\ FetchCap \in Nat
  BY CapIsFull DEF StoreTypeOK
<1>2. Min({given, FetchCap}) = IF given <= FetchCap THEN given ELSE FetchCap
  BY <1>1, MinOfTwo
<1> QED
  BY <1>2 DEF CutIsReported, CutAtCap

\* A step that stops at the ceiling says so, and no other does.
LEMMA CutStep ==
    ASSUME StoreTypeOK, NonePassedOver, RowsInPlace, CutAtCap, [StoreNext]_storeVars
    PROVE  CutAtCap'
<1>1. /\ FetchCap \in Nat /\ (Full <=> total >= FetchCap)
      /\ total \in Nat /\ given \in Nat /\ truncated \in BOOLEAN
      /\ stage = "filling" => given = total \/ Full
  BY CapIsFull DEF StoreTypeOK, NonePassedOver
<1>2. ASSUME config' = config PROVE FetchCap' = FetchCap
  BY <1>2 DEF FetchCap, Budget
<1>3. CASE Refuse
  BY <1>1, <1>2, <1>3 DEF Refuse, CutAtCap
<1>4. ASSUME stage = "filling", ~Full, total' = total + 1, given' = given + 1,
             UNCHANGED <<config, truncated, stage>>
      PROVE  CutAtCap'
  BY <1>1, <1>2, <1>4 DEF CutAtCap
<1>5. CASE KeepResident(NextRow) \/ Buffer(NextRow) \/ BufferAndFlush(NextRow)
  BY <1>4, <1>5 DEF KeepResident, Buffer, BufferAndFlush, Overflows
<1>6. CASE AppendFails(NextRow)
  BY <1>1, <1>2, <1>6 DEF AppendFails, FlushFails, CutAtCap
<1>7. CASE Finalize
  BY <1>1, <1>2, <1>7 DEF Finalize, CutAtCap
<1>8. CASE FinalizeFails \/ Discard
  BY <1>1, <1>2, <1>8 DEF FinalizeFails, FlushFails, Discard, CutAtCap
<1>9. CASE UNCHANGED storeVars
  BY <1>1, <1>2, <1>9 DEF storeVars, CutAtCap
<1> QED
  BY <1>3, <1>5, <1>6, <1>7, <1>8, <1>9 DEF StoreNext

\* A store that may not offload never has a row to write.
LEMMA NoFileStep ==
    ASSUME StoreTypeOK, RowsInPlace, CutAtCap, ~config.offload_enabled => file = "none",
           FileGoesWithStore, [StoreNext]_storeVars
    PROVE  ~config'.offload_enabled => file' = "none"
<1> SUFFICES ASSUME ~config'.offload_enabled PROVE file' = "none"
  OBVIOUS
<1>1. config' = config
  BY DEF StoreNext, Refuse, KeepResident, Buffer, BufferAndFlush, AppendFails, Finalize,
     FinalizeFails, Discard, storeVars
<1>2. file = "none" /\ ~spill /\ ~config.offload_enabled
  BY <1>1 DEF FileGoesWithStore
<1>3. ~Overflows
  BY <1>2 DEF Overflows, Full
<1>4. total \in Nat /\ Budget \in Nat /\ Len(pending) \in Nat
  BY BudgetType DEF StoreTypeOK
<1>5. stage = "filling" => pending = <<>> \/ total > Budget
  BY <1>4 DEF RowsInPlace, StoreTypeOK
<1>6. total <= Budget
  <2>1. config.max_total_rows \in Nat
    BY BudgetType DEF StoreTypeOK
  <2>2. Min({Budget, config.max_total_rows})
          = IF Budget <= config.max_total_rows THEN Budget ELSE config.max_total_rows
    BY <1>4, <2>1, MinOfTwo
  <2> QED
    BY <1>2, <1>4, <2>1, <2>2 DEF CutAtCap, FetchCap
<1>7. CASE Refuse \/ KeepResident(NextRow) \/ Discard
  BY <1>2, <1>7 DEF Refuse, KeepResident, Discard
<1>8. CASE Finalize \/ FinalizeFails
  <2>1. stage = "filling"
    BY <1>8 DEF Finalize, FinalizeFails
  <2>2. pending = <<>>
    BY <1>4, <1>6, <1>5, <2>1
  <2> QED
    BY <1>2, <1>8, <2>2 DEF Finalize, FinalizeFails
<1>9. CASE UNCHANGED storeVars
  BY <1>2, <1>9 DEF storeVars
<1> QED
  BY <1>3, <1>7, <1>8, <1>9 DEF StoreNext, Buffer, BufferAndFlush, AppendFails

\* A file is there for as long as the store has it open.
LEMMA FileStep ==
    ASSUME StoreTypeOK, FileGoesWithStore, [StoreNext]_storeVars
    PROVE  FileGoesWithStore'
<1>1. CASE Refuse
  BY <1>1 DEF Refuse, FileGoesWithStore
<1>2. CASE KeepResident(NextRow)
  BY <1>2 DEF KeepResident, FileGoesWithStore
<1>3. CASE Buffer(NextRow)
  BY <1>3 DEF Buffer, Overflows, FileGoesWithStore
<1>4. CASE BufferAndFlush(NextRow)
  BY <1>4 DEF BufferAndFlush, FlushOk, Overflows, FileGoesWithStore
<1>5. ASSUME NEW rs, FlushFails(rs) PROVE FileGoesWithStore'
  BY <1>5 DEF FlushFails, FileGoesWithStore
<1>6. CASE AppendFails(NextRow) \/ FinalizeFails
  BY <1>5, <1>6 DEF AppendFails, FinalizeFails
<1>7. CASE Finalize
  <2>1. CASE UNCHANGED <<spill, file>>
    BY <1>7, <2>1 DEF Finalize, FileGoesWithStore
  <2>2. CASE spill' = TRUE /\ file' = "there"
    BY <1>7, <2>2 DEF Finalize, FileGoesWithStore
  <2> QED
    BY <1>7, <2>1, <2>2 DEF Finalize, FlushOk
<1>8. CASE Discard
  BY <1>8 DEF Discard, FileGoesWithStore
<1>9. CASE UNCHANGED storeVars
  BY <1>9 DEF storeVars, FileGoesWithStore
<1> QED
  BY <1>1, <1>2, <1>3, <1>4, <1>6, <1>7, <1>8, <1>9 DEF StoreNext

-----------------------------------------------------------------------------
(* The store's fields have their types, and the rows of its file are the ones
   past the budget (spill.rs 60-110). *)
THEOREM TypeCorrect == StoreSpec => []StoreTypeOK
  BY Invariance, PTL

(* Every accepted row is where its index says: the first rows in memory, the
   others in the file without a gap, then in the buffer (append and flush,
   spill.rs 124-223). *)
THEOREM RowsStayInPlace == StoreSpec => []RowsInPlace
  BY Invariance, PTL

(* The resident rows stay within the budget and the buffer within a flush,
   failed flushes included (spill.rs 134-150). *)
THEOREM MemoryStaysBounded == StoreSpec => []MemoryIsBounded
<1> USE ConfigsAssumption, FlushAssumption
<1>1. StoreInit => MemoryIsBounded
  <2> SUFFICES ASSUME StoreInit PROVE MemoryIsBounded
    OBVIOUS
  <2>1. Len(<<>>) = 0 /\ Budget \in Nat
    BY BudgetType DEF StoreInit
  <2> QED
    BY <2>1 DEF StoreInit, MemoryIsBounded
<1> QED
  BY <1>1, Invariance, MemoryStep, PTL DEF StoreSpec

(* A store has its file open for as long as it is there, and none once it is gone:
   what stays on the disk is a file the table could not be made in, or one that
   could not be removed (ensure_spill, spill.rs 195-216, close and drop, 273-300). *)
THEOREM FilesGoWithStores == StoreSpec => []FileGoesWithStore
<1>1. StoreInit => FileGoesWithStore
  BY DEF StoreInit, FileGoesWithStore
<1>2. StoreTypeOK /\ FileGoesWithStore /\ [StoreNext]_storeVars => FileGoesWithStore'
  BY FileStep
<1> QED
  BY <1>1, <1>2, Invariance, PTL DEF StoreSpec

(* A result is cut at its cap, never before, and says so exactly then; a store that may
   not offload makes no file (spill.rs 120-148). *)
THEOREM CutsAreReported == StoreSpec => []CutIsReported
<1> DEFINE NoFile == ~config.offload_enabled => file = "none"
<1>1. StoreInit => CutAtCap /\ NoFile
  <2> SUFFICES ASSUME StoreInit PROVE CutAtCap /\ NoFile
    OBVIOUS
  <2>1. FetchCap \in Nat
    BY StoreInitially, CapIsFull
  <2> QED
    BY <2>1 DEF StoreInit, CutAtCap
<1>2. StoreTypeOK /\ NonePassedOver /\ RowsInPlace /\ CutAtCap /\ [StoreNext]_storeVars => CutAtCap'
  BY CutStep
<1>3. StoreTypeOK /\ RowsInPlace /\ CutAtCap /\ NoFile /\ FileGoesWithStore /\ [StoreNext]_storeVars => NoFile'
  BY NoFileStep
<1>4. StoreTypeOK /\ CutAtCap /\ NoFile => CutIsReported
  BY CutSpelled
<1> HIDE DEF NoFile
<1> QED
  BY <1>1, <1>2, <1>3, <1>4, Invariance, FilesGoWithStores, PTL DEF StoreSpec

(* The four together, whatever fails: the table, a write, or the removal of the file. *)
THEOREM StoresAreSound == StoreSpec => []StoreIsSound
<1>1. RowsInPlace /\ MemoryIsBounded /\ CutIsReported /\ FileGoesWithStore => StoreIsSound
  BY DEF StoreIsSound
<1> QED
  BY <1>1, RowsStayInPlace, MemoryStaysBounded, CutsAreReported, FilesGoWithStores, PTL

-----------------------------------------------------------------------------
(* Pages of a store.                                                       *)

(* A store that is gone has no file open; one that was finalised has one if it wrote
   anything. *)
GoneIsClosed == stage = "gone" => ~spill

\* No step opens a file for a store that is gone.
LEMMA GoneStep ==
    ASSUME GoneIsClosed, [StoreNext]_storeVars
    PROVE  GoneIsClosed'
<1>1. CASE stage = "gone"
  BY <1>1 DEF GoneIsClosed, StoreNext, Refuse, KeepResident, Buffer, BufferAndFlush, AppendFails,
     Overflows, Finalize, FinalizeFails, Discard, storeVars
<1>2. CASE stage # "gone" /\ stage' = "gone"
  BY <1>2 DEF GoneIsClosed, StoreNext, Refuse, KeepResident, Buffer, BufferAndFlush, AppendFails,
     FlushFails, Finalize, FinalizeFails, Discard, storeVars
<1> QED
  BY <1>1, <1>2 DEF GoneIsClosed

\* The rows from index a up to b are in the file, each at its index.
InFile(a, b) == \A i \in Nat : a <= i /\ i < b => i \in DOMAIN disk /\ disk[i] = i + 1

(* Where the rows of memory are 1 to m and the file has the next ones up to the end of
   the page, a page is its part of the rows, wherever it falls. *)
LEMMA PageIsExact ==
    ASSUME NEW offset \in Nat, NEW limit \in Nat, total \in Nat,
           memory \in Seq(Nat), Len(memory) <= total,
           DOMAIN disk \subseteq Int,
           \A i \in 1 .. Len(memory) : memory[i] = i,
           InFile(Max({offset, Len(memory)}), WindowEnd(offset, limit))
    PROVE  Window(offset, limit)
              = SubSeq(Nats(total), offset + 1, WindowEnd(offset, limit))
<1> DEFINE end   == WindowEnd(offset, limit)
           m     == Len(memory)
           first == Max({offset, m})
           stop  == Min({end, m})
           S     == {i \in DOMAIN disk : first <= i /\ i < end}
           A     == SubSeq(memory, offset + 1, stop)
           B     == [n \in DOMAIN Ascending(S) |-> disk[Ascending(S)[n]]]
           n     == IF offset < end THEN end - offset ELSE 0
           a     == IF offset < stop THEN stop - offset ELSE 0
           b     == IF first < end THEN end - first ELSE 0
<1>1. m \in Nat
  OBVIOUS
<1> HIDE DEF m
<1>2. end \in Nat /\ end <= total
  BY MinOfTwo DEF WindowEnd
<1> HIDE DEF end
<1>3. first = IF offset <= m THEN m ELSE offset
  BY <1>1, MaxOfTwo
<1>4. stop = IF end <= m THEN end ELSE m
  BY <1>1, <1>2, MinOfTwo
<1> HIDE DEF first, stop
<1>5. /\ first \in Nat /\ stop \in Nat /\ n \in Nat /\ a \in Nat /\ b \in Nat /\ n = a + b
      /\ b # 0 => first = offset + a /\ first + b = end
      /\ b = 0 => ~(first < end)
      /\ first < end => first + b = end
      /\ a # 0 => offset + a <= m /\ offset + a = stop
      /\ a = 0 => ~(offset < stop)
      /\ n # 0 => offset + n = end
      /\ n = 0 => ~(offset < end)
  BY <1>1, <1>2, <1>3, <1>4
<1> HIDE DEF a, b, n
<1>6. Len(A) = a /\ A \in Seq(Nat) /\ \A i \in 1 .. a : A[i] = offset + i
  <2>1. \A i \in offset + 1 .. stop : memory[i] \in Nat /\ memory[i] = i
    BY <1>1, <1>4, <1>5 DEF m
  <2>2. offset + 1 \in Int /\ stop \in Int
    BY <1>5
  <2>3. /\ A \in Seq(Nat)
        /\ Len(A) = IF offset + 1 <= stop THEN stop - (offset + 1) + 1 ELSE 0
        /\ \A i \in 1 .. stop - (offset + 1) + 1 : A[i] = memory[offset + 1 + i - 1]
    BY <2>1, <2>2, SubSeqProperties
  <2> HIDE DEF A
  <2>4. Len(A) = a
    BY <2>3, <1>5
  <2>5. ASSUME NEW i \in 1 .. a PROVE A[i] = offset + i
    <3>1. i \in 1 .. stop - (offset + 1) + 1 /\ offset + 1 + i - 1 = offset + i
      BY <1>5
    <3>2. offset + i \in offset + 1 .. stop
      BY <1>5
    <3> QED
      BY <3>1, <3>2, <2>1, <2>3
  <2> QED
    BY <2>3, <2>4, <2>5
<1>7. Len(B) = b /\ B \in Seq(Nat) /\ \A i \in 1 .. b : B[i] = first + i
  <2>1. \A i \in Nat : first <= i /\ i < end => i \in DOMAIN disk /\ disk[i] = i + 1
    BY DEF first, end, m, InFile
  <2>2. PICK last \in Int : last = first + b - 1
    BY <1>5
  <2>3. S = first .. last
    <3>1. ASSUME NEW i \in S PROVE i \in first .. last
      BY <2>2, <1>2, <1>5
    <3>2. ASSUME NEW i \in first .. last PROVE i \in S
      <4>1. i \in Nat /\ first <= i /\ i < end
        BY <2>2, <1>2, <1>5
      <4> QED
        BY <2>1, <4>1, <1>2, <1>5
    <3> HIDE DEF S
    <3> QED
      BY <3>1, <3>2
  <2>4. last - first + 1 = b /\ first <= last + 1
    BY <2>2, <1>5
  <2> HIDE DEF S
  <2>5. /\ Cardinality(S) = b
        /\ \A k \in 1 .. b : Ascending(S)[k] = first + k - 1
    <3>1. /\ Cardinality(first .. last) = last - first + 1
          /\ \A k \in 1 .. last - first + 1 : Ascending(first .. last)[k] = first + k - 1
      BY <2>4, <1>5, AscendingInterval
    <3> QED
      BY <3>1, <2>3, <2>4
  <2>6. DOMAIN Ascending(S) = 1 .. b
    BY <2>5 DEF Ascending
  <2>7. ASSUME NEW k \in 1 .. b PROVE disk[Ascending(S)[k]] = first + k
    <3>1. first + k - 1 \in Nat /\ first <= first + k - 1 /\ first + k - 1 < end /\ first < end
      BY <1>2, <1>5
    <3>2. disk[first + k - 1] = first + k - 1 + 1
      BY <2>1, <3>1
    <3> QED
      BY <2>5, <3>2, <1>5
  <2>8. B = [k \in 1 .. b |-> first + k]
    BY <2>6, <2>7
  <2>9. \A k \in 1 .. b : first + k \in Nat
    BY <1>5
  <2> HIDE DEF B
  <2> QED
    BY <1>5, <2>8, <2>9
<1>8. Window(offset, limit) = A \o B
  BY DEF Window, A, B, S, first, stop, end, m
<1>9. LET P == SubSeq(Nats(total), offset + 1, end)
      IN  P \in Seq(Nat) /\ Len(P) = n /\ \A k \in 1 .. n : P[k] = offset + k
  <2> DEFINE P == SubSeq(Nats(total), offset + 1, end)
  <2>1. \A i \in offset + 1 .. end : Nats(total)[i] \in Nat /\ Nats(total)[i] = i
    BY <1>2 DEF Nats
  <2>2. offset + 1 \in Int /\ end \in Int
    BY <1>2
  <2>3. /\ P \in Seq(Nat)
        /\ Len(P) = IF offset + 1 <= end THEN end - (offset + 1) + 1 ELSE 0
        /\ \A i \in 1 .. end - (offset + 1) + 1 : P[i] = Nats(total)[offset + 1 + i - 1]
    BY <2>1, <2>2, SubSeqProperties
  <2> HIDE DEF P
  <2>4. Len(P) = n
    BY <2>3, <1>2, <1>5
  <2>5. ASSUME NEW i \in 1 .. n PROVE P[i] = offset + i
    <3>1. i \in 1 .. end - (offset + 1) + 1 /\ offset + 1 + i - 1 = offset + i
      BY <1>2, <1>5
    <3>2. offset + i \in offset + 1 .. end
      BY <1>2, <1>5
    <3> QED
      BY <3>1, <3>2, <2>1, <2>3
  <2> QED
    BY <2>3, <2>4, <2>5 DEF P
<1> HIDE DEF A, B, S
<1>10. PICK Q : Q = SubSeq(Nats(total), offset + 1, end)
  OBVIOUS
<1>11. PICK C : C = A \o B
  OBVIOUS
<1>12. C \in Seq(Nat) /\ Len(C) = n /\ \A k \in 1 .. n : C[k] = offset + k
  <2>1. A \in Seq(Nat) /\ B \in Seq(Nat)
    BY <1>6, <1>7
  <2>2. /\ C \in Seq(Nat)
        /\ Len(C) = Len(A) + Len(B)
        /\ \A k \in 1 .. Len(A) + Len(B) : C[k] = IF k <= Len(A) THEN A[k] ELSE B[k - Len(A)]
    <3>1. /\ A \o B \in Seq(Nat)
          /\ Len(A \o B) = Len(A) + Len(B)
          /\ \A k \in 1 .. Len(A) + Len(B) :
               (A \o B)[k] = IF k <= Len(A) THEN A[k] ELSE B[k - Len(A)]
      BY ONLY <2>1, ConcatProperties
    <3> QED
      BY <3>1, <1>11
  <2>3. ASSUME NEW k \in 1 .. n PROVE C[k] = offset + k
    <3>0. C[k] = IF k <= a THEN A[k] ELSE B[k - a]
      BY <2>2, <1>5, <1>6, <1>7
    <3>1. CASE k <= a
      BY <3>0, <3>1, <1>5, <1>6
    <3>2. CASE k > a
      <4>1. k \in 1 .. a + b /\ k - a \in 1 .. b /\ first = offset + a
        BY <3>2, <1>5
      <4>2. C[k] = B[k - a]
        BY <3>0, <3>2, <1>5
      <4>3. B[k - a] = first + (k - a)
        BY <4>1, <1>7
      <4> QED
        BY <4>1, <4>2, <4>3, <1>5
    <3>3. k \in Nat /\ a \in Nat
      BY <1>5
    <3> QED
      BY <3>1, <3>2, <3>3
  <2> QED
    BY <2>2, <2>3, <1>5, <1>6, <1>7
<1>13. C = Q
  <2>1. C \in Seq(Nat) /\ Len(C) = n /\ \A k \in 1 .. n : C[k] = offset + k
    BY <1>12
  <2>2. Q \in Seq(Nat) /\ Len(Q) = n /\ \A k \in 1 .. n : Q[k] = offset + k
    BY <1>9, <1>10
  <2>3. C = [k \in 1 .. n |-> C[k]] /\ Q = [k \in 1 .. n |-> Q[k]]
    BY <2>1, <2>2
  <2> QED
    BY <2>1, <2>2, <2>3
<1> QED
  BY <1>8, <1>10, <1>11, <1>13 DEF end

\* So every page of a store whose rows are in place, and that is done with them, is exact.
LEMMA InPlaceIsExact ==
    ASSUME StoreTypeOK, RowsInPlace, GoneIsClosed
    PROVE  WindowsAreExact
<1> SUFFICES ASSUME stage \in {"final", "gone"},
                    NEW offset \in 0 .. total, NEW limit \in 0 .. total + 1
             PROVE  IF WindowFails(offset, limit)
                    THEN stage = "gone"
                    ELSE Window(offset, limit)
                            = SubSeq(Nats(total), offset + 1, WindowEnd(offset, limit))
  BY DEF WindowsAreExact
<1> DEFINE end   == WindowEnd(offset, limit)
           first == Max({offset, Len(memory)})
<1>1. /\ total \in Nat /\ Budget \in Nat /\ memory \in Seq(Nat) /\ Len(memory) \in Nat
      /\ offset \in Nat /\ limit \in Nat /\ DOMAIN disk \subseteq Int
      /\ Len(memory) = IF total < Budget THEN total ELSE Budget
      /\ \A i \in 1 .. Len(memory) : memory[i] = i
  BY BudgetType DEF StoreTypeOK, RowsInPlace
<1>2. end \in Nat /\ end <= total
  BY <1>1, MinOfTwo DEF WindowEnd
<1>3. first = IF offset <= Len(memory) THEN Len(memory) ELSE offset
  BY <1>1, MaxOfTwo
<1> HIDE DEF first, end
<1>4. WindowFails(offset, limit) <=> ~spill /\ first < end
  BY DEF WindowFails, first, end
<1>5. CASE stage = "final"
  <2>1. /\ DOMAIN disk = Budget .. total - 1
        /\ \A i \in DOMAIN disk : disk[i] = i + 1
        /\ DOMAIN disk # {} => spill
    <3>1. pending = <<>> /\ Len(<<>>) = 0
      BY <1>5 DEF RowsInPlace
    <3> QED
      BY <3>1, <1>1, <1>5 DEF RowsInPlace
  <2>2. \A i \in Nat : first <= i /\ i < end => i \in DOMAIN disk /\ disk[i] = i + 1
    BY <2>1, <1>1, <1>2, <1>3
  <2>3. first < end => spill
    <3>1. first < end => first \in Nat
      BY <1>1, <1>3
    <3>2. first < end => first \in DOMAIN disk
      BY <3>1, <2>2
    <3> QED
      BY <3>2, <2>1
  <2>4. Window(offset, limit) = SubSeq(Nats(total), offset + 1, WindowEnd(offset, limit))
    <3>1. InFile(Max({offset, Len(memory)}), WindowEnd(offset, limit))
      BY <2>2 DEF first, end, InFile
    <3>2. Len(memory) <= total
      BY <1>1
    <3> QED
      BY <3>1, <3>2, <1>1, PageIsExact
  <2> QED
    BY <2>3, <2>4, <1>4
<1>6. CASE stage = "gone" /\ ~(first < end)
  <2>1. InFile(Max({offset, Len(memory)}), WindowEnd(offset, limit))
    <3>1. \A i \in Nat : ~(first <= i /\ i < end)
      BY <1>1, <1>2, <1>3, <1>6
    <3> QED
      BY <3>1 DEF first, end, InFile
  <2>2. Len(memory) <= total
    BY <1>1
  <2>3. Window(offset, limit) = SubSeq(Nats(total), offset + 1, WindowEnd(offset, limit))
    BY <2>1, <2>2, <1>1, PageIsExact
  <2> QED
    BY <2>3, <1>6
<1>7. CASE stage = "gone" /\ first < end
  BY <1>4, <1>7 DEF GoneIsClosed
<1> QED
  BY <1>5, <1>6, <1>7

(* A page of a finished result is exactly its part of the rows that were accepted, for
   any offset and limit and wherever the boundary between memory and file falls; once
   the store is gone it is that or an error (window, spill.rs 228-268). *)
THEOREM PagesAreExact == StoreSpec => []WindowsAreExact
<1>1. StoreInit => GoneIsClosed
  BY DEF StoreInit, GoneIsClosed
<1>2. StoreSpec => []GoneIsClosed
  BY <1>1, GoneStep, PTL DEF StoreSpec
<1> QED
  BY <1>2, Invariance, InPlaceIsExact, PTL

-----------------------------------------------------------------------------
(* The stream.                                                             *)

USE SizesAssumption

\* The least of three numbers.
LEMMA MinOfThree ==
    ASSUME NEW a \in Int, NEW b \in Int, NEW c \in Int
    PROVE  /\ Min({a, b, c}) \in {a, b, c}
           /\ \A y \in {a, b, c} : Min({a, b, c}) <= y
<1>1. \E x \in {a, b, c} : \A y \in {a, b, c} : x <= y
  OBVIOUS
<1> QED
  BY <1>1 DEF Min

\* The rows of s are those after the first n.
Follows(s, n) == \A i \in 1 .. Len(s) : s[i] = n + i

\* The rows of the events, event by event, are those after the first `from` up to `to`.
Linked(events, from, to) ==
    \E ends \in [0 .. Len(events) -> Nat] :
        /\ ends[0] = from /\ ends[Len(events)] = to
        /\ \A i, j \in 0 .. Len(events) : i <= j => ends[i] <= ends[j]
        /\ \A i \in 1 .. Len(events) :
              /\ Follows(events[i], ends[i - 1])
              /\ ends[i] = ends[i - 1] + Len(events[i])

\* Between two places that meet there is nothing to come, and else something.
LEMMA LinkedNone ==
    ASSUME NEW a \in Nat, NEW b \in Nat
    PROVE  Linked(<<>>, a, b) <=> a = b
<1>1. Len(<<>>) = 0
  OBVIOUS
<1>2. ASSUME a = b PROVE Linked(<<>>, a, b)
  <2> DEFINE ends == [i \in 0 .. 0 |-> a]
  <2>1. ends \in [0 .. 0 -> Nat] /\ ends[0] = a /\ \A i \in 0 .. 0 : ends[i] = a
    OBVIOUS
  <2> HIDE DEF ends
  <2> QED
    BY <1>1, <1>2, <2>1 DEF Linked
<1>3. ASSUME Linked(<<>>, a, b) PROVE a = b
  BY <1>1, <1>3 DEF Linked
<1> QED
  BY <1>2, <1>3

\* Rows to come only lead up.
LEMMA LinkedUp ==
    ASSUME NEW R, NEW events \in Seq(Seq(R)), NEW a \in Nat, NEW b \in Nat, Linked(events, a, b)
    PROVE  a <= b
<1>1. Len(events) \in Nat
  OBVIOUS
<1> QED
  BY <1>1 DEF Linked

\* Sending the next rows, or the header, lengthens the chain at its end.
LEMMA LinkedAppend ==
    ASSUME NEW R, NEW events \in Seq(Seq(R)), NEW e \in Seq(R), NEW a \in Nat, NEW b \in Nat,
           Linked(events, a, b), Follows(e, b)
    PROVE  Linked(Append(events, e), a, b + Len(e))
<1> DEFINE n == Len(events)
           l == Len(e)
           all == Append(events, e)
<1>1. n \in Nat /\ l \in Nat /\ Len(all) = n + 1 /\ all[n + 1] = e /\ \A i \in 1 .. n : all[i] = events[i]
  OBVIOUS
<1>2. PICK ends \in [0 .. n -> Nat] :
        /\ ends[0] = a /\ ends[n] = b
        /\ \A i, j \in 0 .. n : i <= j => ends[i] <= ends[j]
        /\ \A i \in 1 .. n : Follows(events[i], ends[i - 1]) /\ ends[i] = ends[i - 1] + Len(events[i])
  BY DEF Linked
<1> DEFINE more == [i \in 0 .. n + 1 |-> IF i = n + 1 THEN b + l ELSE ends[i]]
<1> HIDE DEF n, l, all
<1>3. more \in [0 .. n + 1 -> Nat] /\ more[0] = a /\ more[n + 1] = b + l /\ \A i \in 0 .. n : more[i] = ends[i]
  BY <1>1, <1>2
<1>4. \A i, j \in 0 .. n + 1 : i <= j => more[i] <= more[j]
  <2>1. \A i \in 0 .. n : more[i] <= b
    BY <1>1, <1>2, <1>3
  <2> QED
    BY <1>1, <1>2, <1>3, <2>1
<1> HIDE DEF more
<1>5. ASSUME NEW i \in 1 .. n + 1
      PROVE  Follows(all[i], more[i - 1]) /\ more[i] = more[i - 1] + Len(all[i])
  <2>1. CASE i = n + 1
    BY <1>1, <1>2, <1>3, <2>1 DEF l
  <2>2. CASE i # n + 1
    <3>1. i \in 1 .. n /\ i - 1 \in 0 .. n
      BY <1>1, <2>2
    <3>2. all[i] = events[i] /\ more[i] = ends[i] /\ more[i - 1] = ends[i - 1]
      BY SMTT(30), <1>1, <1>3, <3>1
    <3>3. Follows(events[i], ends[i - 1]) /\ ends[i] = ends[i - 1] + Len(events[i])
      BY <1>2, <3>1
    <3> QED
      BY <3>2, <3>3
  <2> QED
    BY <2>1, <2>2
<1>6. Linked(all, a, b + l)
  BY <1>1, <1>3, <1>4, <1>5 DEF Linked
<1> QED
  BY <1>6 DEF all, l

\* Receiving the first event shortens the chain at its beginning.
LEMMA LinkedTail ==
    ASSUME NEW R, NEW events \in Seq(Seq(R)), events # <<>>, NEW a \in Nat, NEW b \in Nat,
           Linked(events, a, b)
    PROVE  Follows(Head(events), a) /\ Linked(Tail(events), a + Len(Head(events)), b)
<1> DEFINE n == Len(events)
           rest == Tail(events)
<1>1. n \in Nat \ {0} /\ Len(rest) = n - 1 /\ Head(events) = events[1]
      /\ \A i \in 1 .. n - 1 : rest[i] = events[i + 1]
  OBVIOUS
<1>2. PICK ends \in [0 .. n -> Nat] :
        /\ ends[0] = a /\ ends[n] = b
        /\ \A i, j \in 0 .. n : i <= j => ends[i] <= ends[j]
        /\ \A i \in 1 .. n : Follows(events[i], ends[i - 1]) /\ ends[i] = ends[i - 1] + Len(events[i])
  BY DEF Linked
<1> HIDE DEF n, rest
<1>3. Follows(events[1], a) /\ ends[1] = a + Len(events[1])
  <2>1. 1 \in 1 .. n /\ 1 - 1 = 0
    BY <1>1
  <2> QED
    BY <1>2, <2>1
<1> DEFINE fewer == [i \in 0 .. n - 1 |-> ends[i + 1]]
<1>4. \A i \in 0 .. n - 1 : i + 1 \in 0 .. n
  BY <1>1
<1>5. fewer \in [0 .. n - 1 -> Nat] /\ \A i \in 0 .. n - 1 : fewer[i] = ends[i + 1]
  BY <1>2, <1>4
<1>6. fewer[0] = ends[1] /\ fewer[n - 1] = b
  BY <1>1, <1>2, <1>5
<1> HIDE DEF fewer
<1>7. \A i, j \in 0 .. n - 1 : i <= j => fewer[i] <= fewer[j]
  BY <1>1, <1>2, <1>4, <1>5
<1>8. ASSUME NEW i \in 1 .. n - 1
      PROVE  Follows(rest[i], fewer[i - 1]) /\ fewer[i] = fewer[i - 1] + Len(rest[i])
  <2>1. i \in 0 .. n - 1 /\ i - 1 \in 0 .. n - 1 /\ i + 1 \in 1 .. n /\ (i + 1) - 1 = i /\ (i - 1) + 1 = i
    BY <1>1
  <2>2. fewer[i - 1] = ends[i] /\ fewer[i] = ends[i + 1] /\ rest[i] = events[i + 1]
    BY <1>1, <1>5, <2>1
  <2>3. Follows(events[i + 1], ends[i]) /\ ends[i + 1] = ends[i] + Len(events[i + 1])
    BY <1>2, <2>1
  <2> QED
    BY <2>2, <2>3
<1>9. Linked(rest, ends[1], b)
  BY <1>1, <1>5, <1>6, <1>7, <1>8 DEF Linked
<1> QED
  BY <1>1, <1>3, <1>9 DEF rest

\* The variables of the stream have their types, of any length.
StreamTyped ==
    /\ yields \in 0 .. MaxRows /\ fetched \in 0 .. MaxRows /\ seen \in Nat
    /\ batch \in Seq(1 .. MaxRows) /\ event \in Seq(1 .. MaxRows) /\ shown \in Seq(1 .. MaxRows)
    /\ channel \in Seq(Seq(1 .. MaxRows)) /\ uiChannel \in Seq(Seq(1 .. MaxRows))
    /\ Len(channel) <= ChannelSize /\ Len(uiChannel) <= ChannelSize
    /\ fetch \in {"idle", "fetching", "ok", "error"}
    /\ consumer \in {"receive", "forward", "append", "done", "failed"}
    /\ forwarder \in {"up", "done", "gone"}
    /\ result \in {"none", "ok", "error"} /\ reply \in {"none", "ok", "error"}

\* Who has ended, and what that says of the others.
PhaseInv ==
    /\ fetch = "ok" => columnsSent /\ batch = <<>> /\ fetched = Min({yields, FetchCap})
    /\ returned => fetch \in {"ok", "error"}
    /\ consumer \in {"receive", "done"} => event = <<>>
    /\ consumer = "done" => channel = <<>> /\ returned
    /\ consumer # "failed" /\ result = "none" => stage = "filling"
    /\ forwarder = "done" => uiChannel = <<>> /\ consumer \in {"done", "failed"}
    /\ forwarder = "gone" => uiChannel = <<>>
    /\ result # "none" => consumer \in {"done", "failed"} /\ returned
    /\ result = "ok" => fetch = "ok" /\ consumer = "done" /\ stage = "final"
    /\ reply # "none" => result # "none" /\ forwarder # "up"
    /\ reply = "ok" => result = "ok" /\ forwarder = "done"

\* e is among the events.
Holds(events, e) == \E i \in 1 .. Len(events) : events[i] = e

\* The columns are on their way to the window until they are there.
HeaderInv ==
    columnsSent /\ consumer # "failed" /\ forwarder # "gone" =>
        \/ header
        \/ Holds(channel, Header)
        \/ consumer = "forward" /\ event = Header
        \/ Holds(uiChannel, Header)

\* The rows on their way: those in hand follow the ones in the store, those in the
\* channel follow them up to the last that was sent, and the batch follows that.
Sent(sent) ==
    /\ Linked(channel, total + Len(event), sent)
    /\ fetch # "error" => sent + Len(batch) = fetched /\ Follows(batch, sent)

\* Every row fetched is in the store, in hand, in the channel or in the batch.
RowsInv ==
    /\ seen = total
    /\ fetched <= yields /\ fetched <= FetchCap
    /\ consumer # "failed" =>
        /\ Follows(event, total)
        /\ \E sent \in 0 .. fetched : Sent(sent)

\* The rows passed on to the window: those of the page the consumer has seen.
Passed ==
    LET n == IF consumer = "append" THEN total + Len(event) ELSE total
    IN  IF n < Budget THEN n ELSE Budget

\* The first `due` rows were passed on: what is on its way follows what is shown.
Due(due) ==
    /\ due <= Budget
    /\ Linked(uiChannel, Len(shown), due)
    /\ consumer # "failed" /\ forwarder # "gone" => due = Passed

\* Some number of rows were passed on, and what is shown is a beginning of them.
PageInv == Follows(shown, 0) /\ \E due \in 0 .. fetched : Due(due)

\* The inductive invariant of the stream.
StreamIInv ==
    StreamTyped /\ StoreTypeOK /\ NonePassedOver /\ RowsInPlace /\ PhaseInv /\ HeaderInv /\ RowsInv /\ PageInv

\* The budget, the ceiling and the cap of the fetch are sizes, and the cap is one of
\* the other two: the ceiling where the result may be offloaded.
LEMMA Sizes ==
    ASSUME StoreTypeOK
    PROVE  /\ Budget \in Nat \ {0} /\ config.offload_enabled \in BOOLEAN
           /\ config.max_total_rows \in Nat \ {0} /\ FetchCap \in Nat
           /\ FetchCap <= config.max_total_rows /\ FetchCap \in {Budget, config.max_total_rows}
           /\ ~config.offload_enabled => FetchCap <= Budget
<1>1. /\ Budget \in Nat \ {0} /\ config.offload_enabled \in BOOLEAN
      /\ config.max_total_rows \in Nat \ {0}
  BY BudgetType DEF StoreTypeOK
<1>2. Min({Budget, config.max_total_rows})
        = IF Budget <= config.max_total_rows THEN Budget ELSE config.max_total_rows
  BY <1>1, MinOfTwo
<1> QED
  BY <1>1, <1>2 DEF FetchCap

\* What the run is about does not change.
LEMMA SettingsStay ==
    ASSUME [StreamNext]_streamVars
    PROVE  config' = config /\ yields' = yields /\ Budget' = Budget /\ FetchCap' = FetchCap
<1>1. SUFFICES config' = config /\ yields' = yields
  BY DEF Budget, FetchCap
<1>2. CASE Start
  BY <1>2 DEF Start, storeVars, fetchVars, consumerVars, uiVars, cancelVars
<1>3. CASE Refused
  BY <1>3 DEF Refused, storeVars, fetchVars, consumerVars, uiVars, cancelVars
<1>4. CASE FetchColumns
  BY <1>4 DEF FetchColumns, Room, storeVars, fetchVars, consumerVars, uiVars, cancelVars
<1>5. CASE FetchRow
  BY <1>5 DEF FetchRow, storeVars, fetchVars, consumerVars, uiVars, cancelVars
<1>6. CASE SendBatch
  BY <1>6 DEF SendBatch, Room, storeVars, fetchVars, consumerVars, uiVars, cancelVars
<1>7. CASE FetchEnds
  BY <1>7 DEF FetchEnds, AtEnd, Room, storeVars, fetchVars, consumerVars, uiVars, cancelVars
<1>8. CASE FetchCancelled
  BY <1>8 DEF FetchCancelled, Drop, storeVars, fetchVars, consumerVars, uiVars, cancelVars
<1>9. CASE FetchUnheard
  BY <1>9 DEF FetchUnheard, Drop, storeVars, fetchVars, consumerVars, uiVars, cancelVars
<1>10. CASE FetchFails
  BY <1>10 DEF FetchFails, Drop, storeVars, fetchVars, consumerVars, uiVars, cancelVars
<1>11. CASE FetchReturns
  BY <1>11 DEF FetchReturns, storeVars, fetchVars, consumerVars, uiVars, cancelVars
<1>12. CASE Cancel
  BY <1>12 DEF Cancel, storeVars, fetchVars, consumerVars, uiVars, cancelVars
<1>13. CASE Receive
  BY <1>13 DEF Receive, storeVars, fetchVars, consumerVars, uiVars, cancelVars
<1>14. CASE ReceiveEnd
  BY <1>14 DEF ReceiveEnd, storeVars, fetchVars, consumerVars, uiVars, cancelVars
<1>15. CASE ForwardColumns
  BY <1>15 DEF ForwardColumns, SendToWindow, storeVars, fetchVars, consumerVars, uiVars, cancelVars
<1>16. CASE ForwardRows
  BY <1>16 DEF ForwardRows, SendToWindow, storeVars, fetchVars, consumerVars, uiVars, cancelVars
<1>17. CASE AppendNext
  BY <1>17 DEF AppendNext, KeepResident, Buffer, BufferAndFlush, Overflows, FlushOk, storeVars, fetchVars, consumerVars, uiVars, cancelVars
<1>18. CASE AppendDone
  BY <1>18 DEF AppendDone, storeVars, fetchVars, consumerVars, uiVars, cancelVars
<1>19. CASE AppendError
  BY <1>19 DEF AppendError, AppendFails, FlushFails, Overflows, storeVars, fetchVars, consumerVars, uiVars, cancelVars
<1>20. CASE Deliver
  BY <1>20 DEF Deliver, storeVars, fetchVars, consumerVars, uiVars, cancelVars
<1>21. CASE DeliverFails
  BY <1>21 DEF DeliverFails, storeVars, fetchVars, consumerVars, uiVars, cancelVars
<1>22. CASE DeliverEnd
  BY <1>22 DEF DeliverEnd, storeVars, fetchVars, consumerVars, uiVars, cancelVars
<1>23. CASE Complete
  BY <1>23 DEF Complete, Joined, Finalize, FlushOk, storeVars, fetchVars, consumerVars, uiVars, cancelVars
<1>24. CASE CompleteFails
  BY <1>24 DEF CompleteFails, Joined, FinalizeFails, FlushFails, storeVars, fetchVars, consumerVars, uiVars, cancelVars
<1>25. CASE GiveUp
  BY <1>25 DEF GiveUp, Joined, Discard, storeVars, fetchVars, consumerVars, uiVars, cancelVars
<1>26. CASE DropStore
  BY <1>26 DEF DropStore, Discard, storeVars, fetchVars, consumerVars, uiVars, cancelVars
<1>27. CASE Reply
  BY <1>27 DEF Reply, storeVars, fetchVars, consumerVars, uiVars, cancelVars
<1>28. CASE UNCHANGED streamVars
  BY <1>28 DEF streamVars, storeVars, fetchVars, consumerVars, uiVars, cancelVars
<1> QED
  BY <1>2, <1>3, <1>4, <1>5, <1>6, <1>7, <1>8, <1>9, <1>10, <1>11, <1>12, <1>13, <1>14, <1>15, <1>16, <1>17, <1>18, <1>19, <1>20, <1>21, <1>22, <1>23, <1>24, <1>25, <1>26, <1>27, <1>28
  DEF StreamNext, Progress

\* What the consumer passes on of an event are its first rows, as many as the page has
\* room for (the `seen` counter of set 0, runner.rs).
LEMMA TakeIs ==
    ASSUME StreamTyped, StoreTypeOK, RowsInv
    PROVE  /\ Take \in 0 .. Len(event)
           /\ Take = IF total >= Budget THEN 0
                     ELSE IF Budget - total <= Len(event) THEN Budget - total ELSE Len(event)
<1>1. seen = total /\ total \in Nat /\ Budget \in Nat /\ Len(event) \in Nat
  BY Sizes DEF StreamTyped, StoreTypeOK, RowsInv
<1>2. Min({Budget - seen, Len(event)})
        = IF Budget - seen <= Len(event) THEN Budget - seen ELSE Len(event)
  BY <1>1, MinOfTwo
<1> QED
  BY <1>1, <1>2 DEF Take

\* An event sent where there is room leaves the channel within its size.
LEMMA RoomForOne ==
    ASSUME NEW R, NEW events \in Seq(Seq(R)), NEW e \in Seq(R), Len(events) < ChannelSize
    PROVE  Append(events, e) \in Seq(Seq(R)) /\ Len(Append(events, e)) <= ChannelSize
  OBVIOUS

\* A channel holds what it held, and what is sent.
LEMMA HoldsAppend ==
    ASSUME NEW R, NEW events \in Seq(Seq(R)), NEW d \in Seq(R), NEW e
    PROVE  Holds(Append(events, d), e) <=> Holds(events, e) \/ d = e
<1> DEFINE n == Len(events)
<1>1. n \in Nat /\ Len(Append(events, d)) = n + 1 /\ Append(events, d)[n + 1] = d
      /\ \A i \in 1 .. n : Append(events, d)[i] = events[i]
  OBVIOUS
<1> QED
  BY <1>1 DEF Holds

\* What a channel holds is received, or still held.
LEMMA HoldsTail ==
    ASSUME NEW R, NEW events \in Seq(Seq(R)), events # <<>>, NEW e, Holds(events, e)
    PROVE  Head(events) = e \/ Holds(Tail(events), e)
<1> DEFINE n == Len(events)
<1>1. n \in Nat \ {0} /\ Len(Tail(events)) = n - 1 /\ Head(events) = events[1]
      /\ \A i \in 1 .. n - 1 : Tail(events)[i] = events[i + 1]
  OBVIOUS
<1>2. PICK i \in 1 .. n : events[i] = e
  BY DEF Holds
<1>3. CASE i = 1
  BY <1>1, <1>2, <1>3
<1>4. CASE i # 1
  <2>1. i - 1 \in 1 .. n - 1 /\ (i - 1) + 1 = i
    BY <1>1, <1>4
  <2> QED
    BY <1>1, <1>2, <2>1 DEF Holds
<1> QED
  BY <1>3, <1>4

\* The rows one after the other from a place on: one more, one less, two runs of them
\* one after the other, and the first of them.
LEMMA FollowsAppend ==
    ASSUME NEW S, NEW s \in Seq(S), NEW n \in Nat, Follows(s, n), n + Len(s) + 1 \in S
    PROVE  Follows(Append(s, n + Len(s) + 1), n)
  BY DEF Follows

\* A sequence that goes on from a place still does without its first row,
LEMMA FollowsTail ==
    ASSUME NEW S, NEW s \in Seq(S), s # <<>>, NEW n \in Nat, Follows(s, n)
    PROVE  Follows(Tail(s), n + 1)
<1>1. Len(s) \in Nat \ {0} /\ Len(Tail(s)) = Len(s) - 1
      /\ \A i \in 1 .. Len(s) - 1 : Tail(s)[i] = s[i + 1]
  OBVIOUS
<1> QED
  BY <1>1 DEF Follows

\* with another that goes on where it ends,
LEMMA FollowsConcat ==
    ASSUME NEW S, NEW r \in Seq(S), NEW s \in Seq(S), Follows(r, 0), Follows(s, Len(r))
    PROVE  Follows(r \o s, 0)
<1>1. Len(r) \in Nat /\ Len(s) \in Nat /\ Len(r \o s) = Len(r) + Len(s)
      /\ \A i \in 1 .. Len(r) + Len(s) : (r \o s)[i] = IF i <= Len(r) THEN r[i] ELSE s[i - Len(r)]
  OBVIOUS
<1>2. ASSUME NEW i \in 1 .. Len(r \o s) PROVE (r \o s)[i] = 0 + i
  <2>1. CASE i <= Len(r)
    BY <1>1, <2>1 DEF Follows
  <2>2. CASE i > Len(r)
    <3>1. i - Len(r) \in 1 .. Len(s)
      BY <1>1, <2>2
    <3> QED
      BY <1>1, <2>2, <3>1 DEF Follows
  <2> QED
    BY <1>1, <2>1, <2>2
<1> QED
  BY <1>2 DEF Follows

\* or up to any of its rows.
LEMMA FollowsPart ==
    ASSUME NEW S, NEW s \in Seq(S), NEW n \in Nat, Follows(s, n), NEW k \in 0 .. Len(s)
    PROVE  SubSeq(s, 1, k) \in Seq(S) /\ Len(SubSeq(s, 1, k)) = k /\ Follows(SubSeq(s, 1, k), n)
<1>1. Len(SubSeq(s, 1, k)) = k /\ \A i \in 1 .. k : SubSeq(s, 1, k)[i] = s[i]
  OBVIOUS
<1>2. SubSeq(s, 1, k) \in Seq(S)
  OBVIOUS
<1> QED
  BY <1>1, <1>2 DEF Follows

\* The store accepts the row after the ones it has, or ends.
LEMMA StoreStep ==
    ASSUME StreamTyped, StoreTypeOK, NonePassedOver, PhaseInv, RowsInv, [StreamNext]_streamVars
    PROVE  [StoreNext]_storeVars
<1>1. CASE Start
  BY <1>1 DEF Start, storeVars, fetchVars, consumerVars, uiVars, cancelVars
<1>2. CASE Refused
  BY <1>2 DEF Refused, storeVars, fetchVars, consumerVars, uiVars, cancelVars
<1>3. CASE FetchColumns
  BY <1>3 DEF FetchColumns, Room, storeVars, fetchVars, consumerVars, uiVars, cancelVars
<1>4. CASE FetchRow
  BY <1>4 DEF FetchRow, storeVars, fetchVars, consumerVars, uiVars, cancelVars
<1>5. CASE SendBatch
  BY <1>5 DEF SendBatch, Room, storeVars, fetchVars, consumerVars, uiVars, cancelVars
<1>6. CASE FetchEnds
  BY <1>6 DEF FetchEnds, AtEnd, Room, storeVars, fetchVars, consumerVars, uiVars, cancelVars
<1>7. CASE FetchCancelled
  BY <1>7 DEF FetchCancelled, Drop, storeVars, fetchVars, consumerVars, uiVars, cancelVars
<1>8. CASE FetchUnheard
  BY <1>8 DEF FetchUnheard, Drop, storeVars, fetchVars, consumerVars, uiVars, cancelVars
<1>9. CASE FetchFails
  BY <1>9 DEF FetchFails, Drop, storeVars, fetchVars, consumerVars, uiVars, cancelVars
<1>10. CASE FetchReturns
  BY <1>10 DEF FetchReturns, storeVars, fetchVars, consumerVars, uiVars, cancelVars
<1>11. CASE Cancel
  BY <1>11 DEF Cancel, storeVars, fetchVars, consumerVars, uiVars, cancelVars
<1>12. CASE Receive
  BY <1>12 DEF Receive, storeVars, fetchVars, consumerVars, uiVars, cancelVars
<1>13. CASE ReceiveEnd
  BY <1>13 DEF ReceiveEnd, storeVars, fetchVars, consumerVars, uiVars, cancelVars
<1>14. CASE ForwardColumns
  BY <1>14 DEF ForwardColumns, SendToWindow, storeVars, fetchVars, consumerVars, uiVars, cancelVars
<1>15. CASE ForwardRows
  BY <1>15 DEF ForwardRows, SendToWindow, storeVars, fetchVars, consumerVars, uiVars, cancelVars
<1>16. CASE AppendNext
  <2>1. event # <<>> /\ consumer # "failed"
    BY <1>16 DEF AppendNext
  <2>2. Head(event) = NextRow /\ NextRow <= MaxRows
    <3>1. 1 \in 1 .. Len(event) /\ Head(event) = event[1] /\ event[1] \in 1 .. MaxRows
      BY <2>1 DEF StreamTyped
    <3>2. event[1] = total + 1
      BY <2>1, <3>1 DEF RowsInv, Follows
    <3>3. stage = "filling" /\ ~Full
      BY <1>16 DEF AppendNext, KeepResident, Buffer, BufferAndFlush, AppendFails, Overflows
    <3> QED
      BY <3>1, <3>2, <3>3, NextIsNext
  <2>3. KeepResident(NextRow) \/ Buffer(NextRow) \/ BufferAndFlush(NextRow)
    BY <1>16, <2>2 DEF AppendNext
  <2> QED
    BY <2>2, <2>3 DEF StoreNext
<1>17. CASE AppendDone
  BY <1>17 DEF AppendDone, storeVars, fetchVars, consumerVars, uiVars, cancelVars
<1>18. CASE AppendError
  <2>1. event # <<>> /\ consumer # "failed"
    BY <1>18 DEF AppendError
  <2>2. Head(event) = NextRow /\ NextRow <= MaxRows
    <3>1. 1 \in 1 .. Len(event) /\ Head(event) = event[1] /\ event[1] \in 1 .. MaxRows
      BY <2>1 DEF StreamTyped
    <3>2. event[1] = total + 1
      BY <2>1, <3>1 DEF RowsInv, Follows
    <3>3. stage = "filling" /\ ~Full
      BY <1>18 DEF AppendError, KeepResident, Buffer, BufferAndFlush, AppendFails, Overflows
    <3> QED
      BY <3>1, <3>2, <3>3, NextIsNext
  <2>3. AppendFails(NextRow)
    BY <1>18, <2>2 DEF AppendError
  <2> QED
    BY <2>2, <2>3 DEF StoreNext
<1>19. CASE Deliver
  BY <1>19 DEF Deliver, storeVars, fetchVars, consumerVars, uiVars, cancelVars
<1>20. CASE DeliverFails
  BY <1>20 DEF DeliverFails, storeVars, fetchVars, consumerVars, uiVars, cancelVars
<1>21. CASE DeliverEnd
  BY <1>21 DEF DeliverEnd, storeVars, fetchVars, consumerVars, uiVars, cancelVars
<1>22. CASE Complete
  BY <1>22 DEF Complete, StoreNext
<1>23. CASE CompleteFails
  BY <1>23 DEF CompleteFails, StoreNext
<1>24. CASE GiveUp
  BY <1>24 DEF GiveUp, StoreNext
<1>25. CASE DropStore
  BY <1>25 DEF DropStore, StoreNext
<1>26. CASE Reply
  BY <1>26 DEF Reply, storeVars, fetchVars, consumerVars, uiVars, cancelVars
<1>27. CASE UNCHANGED streamVars
  BY <1>27 DEF streamVars, storeVars, fetchVars, consumerVars, uiVars, cancelVars
<1> QED
  BY <1>1, <1>2, <1>3, <1>4, <1>5, <1>6, <1>7, <1>8, <1>9, <1>10, <1>11, <1>12, <1>13, <1>14, <1>15, <1>16, <1>17, <1>18, <1>19, <1>20, <1>21, <1>22, <1>23, <1>24, <1>25, <1>26, <1>27
  DEF StreamNext, Progress

\* No step gives a variable of the stream another type, or a channel more events than it holds.
LEMMA StreamTypeStep ==
    ASSUME StreamTyped, StoreTypeOK, PhaseInv, RowsInv, [StreamNext]_streamVars
    PROVE  StreamTyped'
<1> USE DEF StreamTyped
<1>1. <<>> \in Seq(1 .. MaxRows) /\ <<>> \in Seq(Seq(1 .. MaxRows)) /\ Len(<<>>) = 0
  OBVIOUS
<1>2. CASE Start
  BY <1>2, <1>1 DEF Start, storeVars, fetchVars, consumerVars, uiVars, cancelVars
<1>3. CASE Refused
  BY <1>3, <1>1 DEF Refused, storeVars, fetchVars, consumerVars, uiVars, cancelVars
<1>4. CASE FetchColumns
  BY <1>4, <1>1 DEF FetchColumns, Room, Header, storeVars, fetchVars, consumerVars, uiVars, cancelVars
<1>5. CASE FetchRow
  BY <1>5, <1>1 DEF FetchRow, storeVars, fetchVars, consumerVars, uiVars, cancelVars
<1>6. CASE SendBatch
  BY <1>6, <1>1 DEF SendBatch, Room, storeVars, fetchVars, consumerVars, uiVars, cancelVars
<1>7. CASE FetchEnds
  <2>1. channel' = channel \/ (Room /\ channel' = Append(channel, batch))
    BY <1>7 DEF FetchEnds
  <2>2. channel' \in Seq(Seq(1 .. MaxRows)) /\ Len(channel') <= ChannelSize
    BY ZenonT(60), <2>1, RoomForOne DEF Room
  <2> QED
    BY <1>7, <1>1, <2>2 DEF FetchEnds, storeVars, consumerVars, uiVars, cancelVars
<1>8. CASE FetchCancelled
  BY <1>8, <1>1 DEF FetchCancelled, Drop, storeVars, fetchVars, consumerVars, uiVars, cancelVars
<1>9. CASE FetchUnheard
  BY <1>9, <1>1 DEF FetchUnheard, Drop, storeVars, fetchVars, consumerVars, uiVars, cancelVars
<1>10. CASE FetchFails
  BY <1>10, <1>1 DEF FetchFails, Drop, storeVars, fetchVars, consumerVars, uiVars, cancelVars
<1>11. CASE FetchReturns
  BY <1>11, <1>1 DEF FetchReturns, storeVars, fetchVars, consumerVars, uiVars, cancelVars
<1>12. CASE Cancel
  BY <1>12, <1>1 DEF Cancel, storeVars, fetchVars, consumerVars, uiVars, cancelVars
<1>13. CASE Receive
  BY <1>13, <1>1 DEF Receive, storeVars, fetchVars, consumerVars, uiVars, cancelVars
<1>14. CASE ReceiveEnd
  BY <1>14, <1>1 DEF ReceiveEnd, storeVars, fetchVars, consumerVars, uiVars, cancelVars
<1>15. CASE ForwardColumns
  <2>1. uiChannel' = uiChannel \/ (Len(uiChannel) < ChannelSize /\ uiChannel' = Append(uiChannel, <<>>))
    BY <1>15 DEF ForwardColumns, SendToWindow, Header
  <2>2. uiChannel' \in Seq(Seq(1 .. MaxRows)) /\ Len(uiChannel') <= ChannelSize
    <3>1. Append(uiChannel, <<>>) \in Seq(Seq(1 .. MaxRows))
      BY <1>1
    <3> QED
      BY <1>1, <2>1, <3>1, RoomForOne
  <2> QED
    BY <1>15, <1>1, <2>2 DEF ForwardColumns, storeVars, fetchVars, cancelVars
<1>16. CASE ForwardRows
  <2> DEFINE part == SubSeq(event, 1, Take)
  <2>1. uiChannel' = uiChannel \/ (Len(uiChannel) < ChannelSize /\ uiChannel' = Append(uiChannel, part))
    <3> HIDE DEF StreamTyped, PhaseInv
    <3> QED
      BY <1>16 DEF ForwardRows, SendToWindow
  <2>2. part \in Seq(1 .. MaxRows)
    <3>1. event \in Seq(1 .. MaxRows) /\ Take \in 0 .. Len(event)
      BY TakeIs
    <3> HIDE DEF StreamTyped, PhaseInv
    <3> QED
      BY <3>1
  <2> HIDE DEF part
  <2>3. uiChannel' \in Seq(Seq(1 .. MaxRows)) /\ Len(uiChannel') <= ChannelSize
    BY ZenonT(60), <2>1, <2>2, RoomForOne
  <2> QED
    BY <1>16, <1>1, <2>3 DEF ForwardRows, storeVars, fetchVars, cancelVars
<1>17. CASE AppendNext
  BY <1>17, <1>1 DEF AppendNext, KeepResident, Buffer, BufferAndFlush, Overflows, FlushOk, storeVars, fetchVars, consumerVars, uiVars, cancelVars
<1>18. CASE AppendDone
  BY <1>18, <1>1 DEF AppendDone, storeVars, fetchVars, consumerVars, uiVars, cancelVars
<1>19. CASE AppendError
  BY <1>19, <1>1 DEF AppendError, AppendFails, FlushFails, Overflows, storeVars, fetchVars, consumerVars, uiVars, cancelVars
<1>20. CASE Deliver
  BY <1>20, <1>1 DEF Deliver, storeVars, fetchVars, consumerVars, uiVars, cancelVars
<1>21. CASE DeliverFails
  BY <1>21, <1>1 DEF DeliverFails, storeVars, fetchVars, consumerVars, uiVars, cancelVars
<1>22. CASE DeliverEnd
  BY <1>22, <1>1 DEF DeliverEnd, storeVars, fetchVars, consumerVars, uiVars, cancelVars
<1>23. CASE Complete
  BY <1>23, <1>1 DEF Complete, Joined, Finalize, FlushOk, storeVars, fetchVars, consumerVars, uiVars, cancelVars
<1>24. CASE CompleteFails
  BY <1>24, <1>1 DEF CompleteFails, Joined, FinalizeFails, FlushFails, storeVars, fetchVars, consumerVars, uiVars, cancelVars
<1>25. CASE GiveUp
  BY <1>25, <1>1 DEF GiveUp, Joined, Discard, storeVars, fetchVars, consumerVars, uiVars, cancelVars
<1>26. CASE DropStore
  BY <1>26, <1>1 DEF DropStore, Discard, storeVars, fetchVars, consumerVars, uiVars, cancelVars
<1>27. CASE Reply
  BY <1>27, <1>1 DEF Reply, storeVars, fetchVars, consumerVars, uiVars, cancelVars
<1>28. CASE UNCHANGED streamVars
  BY <1>28, <1>1 DEF streamVars, storeVars, fetchVars, consumerVars, uiVars, cancelVars
<1> QED
  BY <1>2, <1>3, <1>4, <1>5, <1>6, <1>7, <1>8, <1>9, <1>10, <1>11, <1>12, <1>13, <1>14, <1>15, <1>16, <1>17, <1>18, <1>19, <1>20, <1>21, <1>22, <1>23, <1>24, <1>25, <1>26, <1>27, <1>28
  DEF StreamNext, Progress

\* None ends before those it waits for: the run after its fetch and its consumer, the
\* reply after the forwarding task.
LEMMA PhaseStep ==
    ASSUME StreamTyped, StoreTypeOK, PhaseInv, RowsInv, [StreamNext]_streamVars
    PROVE  PhaseInv'
<1>1. yields' = yields /\ FetchCap' = FetchCap /\ FetchCap \in Nat
  BY SettingsStay, Sizes
<1> USE DEF StreamTyped, PhaseInv
<1>2. CASE Start
  BY <1>2, <1>1 DEF Start, storeVars, fetchVars, consumerVars, uiVars, cancelVars
<1>3. CASE Refused
  BY <1>3, <1>1 DEF Refused, storeVars, fetchVars, consumerVars, uiVars, cancelVars
<1>4. CASE FetchColumns
  BY <1>4, <1>1 DEF FetchColumns, Room, storeVars, fetchVars, consumerVars, uiVars, cancelVars
<1>5. CASE FetchRow
  BY <1>5, <1>1 DEF FetchRow, storeVars, fetchVars, consumerVars, uiVars, cancelVars
<1>6. CASE SendBatch
  BY <1>6, <1>1 DEF SendBatch, Room, storeVars, fetchVars, consumerVars, uiVars, cancelVars
<1>7. CASE FetchEnds
  <2>1. fetched = Min({yields, FetchCap})
    <3>1. Min({yields, FetchCap}) = IF yields <= FetchCap THEN yields ELSE FetchCap
      <4>1. yields \in Int /\ FetchCap \in Int
        BY <1>1
      <4> QED
        BY <4>1, MinOfTwo
    <3> QED
      BY <1>7, <1>1, <3>1 DEF FetchEnds, AtEnd, RowsInv
  <2>2. consumer # "done"
    BY <1>7 DEF FetchEnds
  <2> QED
    BY <1>7, <1>1, <2>1, <2>2 DEF FetchEnds, AtEnd, storeVars, consumerVars, uiVars, cancelVars
<1>8. CASE FetchCancelled
  BY <1>8, <1>1 DEF FetchCancelled, Drop, storeVars, fetchVars, consumerVars, uiVars, cancelVars
<1>9. CASE FetchUnheard
  BY <1>9, <1>1 DEF FetchUnheard, Drop, storeVars, fetchVars, consumerVars, uiVars, cancelVars
<1>10. CASE FetchFails
  BY <1>10, <1>1 DEF FetchFails, Drop, storeVars, fetchVars, consumerVars, uiVars, cancelVars
<1>11. CASE FetchReturns
  BY <1>11, <1>1 DEF FetchReturns, storeVars, fetchVars, consumerVars, uiVars, cancelVars
<1>12. CASE Cancel
  BY <1>12, <1>1 DEF Cancel, storeVars, fetchVars, consumerVars, uiVars, cancelVars
<1>13. CASE Receive
  BY <1>13, <1>1 DEF Receive, storeVars, fetchVars, consumerVars, uiVars, cancelVars
<1>14. CASE ReceiveEnd
  BY <1>14, <1>1 DEF ReceiveEnd, storeVars, fetchVars, consumerVars, uiVars, cancelVars
<1>15. CASE ForwardColumns
  <2>1. /\ forwarder # "done" /\ consumer = "forward" /\ consumer' = "receive" /\ event' = event /\ event = <<>>
        /\ forwarder = "gone" => uiChannel' = uiChannel
    BY <1>15 DEF ForwardColumns, SendToWindow, Header
  <2> QED
    BY <1>15, <1>1, <2>1 DEF ForwardColumns, storeVars, fetchVars, cancelVars
<1>16. CASE ForwardRows
  BY <1>16, <1>1 DEF ForwardRows, SendToWindow, storeVars, fetchVars, consumerVars, uiVars, cancelVars
<1>17. CASE AppendNext
  BY <1>17, <1>1 DEF AppendNext, KeepResident, Buffer, BufferAndFlush, Overflows, FlushOk, storeVars, fetchVars, consumerVars, uiVars, cancelVars
<1>18. CASE AppendDone
  BY <1>18, <1>1 DEF AppendDone, storeVars, fetchVars, consumerVars, uiVars, cancelVars
<1>19. CASE AppendError
  BY <1>19, <1>1 DEF AppendError, AppendFails, FlushFails, Overflows, storeVars, fetchVars, consumerVars, uiVars, cancelVars
<1>20. CASE Deliver
  BY <1>20, <1>1 DEF Deliver, storeVars, fetchVars, consumerVars, uiVars, cancelVars
<1>21. CASE DeliverFails
  BY <1>21, <1>1 DEF DeliverFails, storeVars, fetchVars, consumerVars, uiVars, cancelVars
<1>22. CASE DeliverEnd
  BY <1>22, <1>1 DEF DeliverEnd, storeVars, fetchVars, consumerVars, uiVars, cancelVars
<1>23. CASE Complete
  BY <1>23, <1>1 DEF Complete, Joined, Finalize, FlushOk, storeVars, fetchVars, consumerVars, uiVars, cancelVars
<1>24. CASE CompleteFails
  BY <1>24, <1>1 DEF CompleteFails, Joined, FinalizeFails, FlushFails, storeVars, fetchVars, consumerVars, uiVars, cancelVars
<1>25. CASE GiveUp
  BY <1>25, <1>1 DEF GiveUp, Joined, Discard, storeVars, fetchVars, consumerVars, uiVars, cancelVars
<1>26. CASE DropStore
  BY <1>26, <1>1 DEF DropStore, Discard, storeVars, fetchVars, consumerVars, uiVars, cancelVars
<1>27. CASE Reply
  BY <1>27, <1>1 DEF Reply, storeVars, fetchVars, consumerVars, uiVars, cancelVars
<1>28. CASE UNCHANGED streamVars
  BY <1>28, <1>1 DEF streamVars, storeVars, fetchVars, consumerVars, uiVars, cancelVars
<1> QED
  BY <1>2, <1>3, <1>4, <1>5, <1>6, <1>7, <1>8, <1>9, <1>10, <1>11, <1>12, <1>13, <1>14, <1>15, <1>16, <1>17, <1>18, <1>19, <1>20, <1>21, <1>22, <1>23, <1>24, <1>25, <1>26, <1>27, <1>28
  DEF StreamNext, Progress

\* The columns are passed from channel to channel until the window has them.
LEMMA HeaderStep ==
    ASSUME StreamTyped, StoreTypeOK, PhaseInv, RowsInv, HeaderInv, [StreamNext]_streamVars
    PROVE  HeaderInv'
<1> USE DEF StreamTyped, PhaseInv, HeaderInv
<1>1. CASE Start
  BY <1>1 DEF Start, storeVars, fetchVars, consumerVars, uiVars, cancelVars
<1>2. CASE Refused
  BY <1>2 DEF Refused, storeVars, fetchVars, consumerVars, uiVars, cancelVars
<1>3. CASE FetchColumns
  <2>1. Header \in Seq(1 .. MaxRows)
    BY DEF Header
  <2>2. Holds(channel', Header)
    BY <1>3, <2>1, HoldsAppend DEF FetchColumns
  <2> QED
    BY <2>2
<1>4. CASE FetchRow
  BY <1>4 DEF FetchRow, storeVars, fetchVars, consumerVars, uiVars, cancelVars
<1>5. CASE SendBatch
  <2>1. Holds(channel, Header) => Holds(channel', Header)
    BY <1>5, HoldsAppend DEF SendBatch
  <2> QED
    BY <1>5, <2>1 DEF SendBatch, storeVars, consumerVars, uiVars, cancelVars
<1>6. CASE FetchEnds
  <2>1. Holds(channel, Header) => Holds(channel', Header)
    <3>1. channel' = channel \/ channel' = Append(channel, batch)
      BY <1>6 DEF FetchEnds
    <3>2. channel \in Seq(Seq(1 .. MaxRows)) /\ batch \in Seq(1 .. MaxRows)
      OBVIOUS
    <3> HIDE DEF StreamTyped, PhaseInv, HeaderInv
    <3> QED
      BY ZenonT(60), <3>1, <3>2, HoldsAppend
  <2> QED
    BY <1>6, <2>1 DEF FetchEnds, storeVars, consumerVars, uiVars, cancelVars
<1>7. CASE FetchCancelled
  BY <1>7 DEF FetchCancelled, Drop, storeVars, fetchVars, consumerVars, uiVars, cancelVars
<1>8. CASE FetchUnheard
  BY <1>8 DEF FetchUnheard, Drop, storeVars, fetchVars, consumerVars, uiVars, cancelVars
<1>9. CASE FetchFails
  BY <1>9 DEF FetchFails, Drop, storeVars, fetchVars, consumerVars, uiVars, cancelVars
<1>10. CASE FetchReturns
  BY <1>10 DEF FetchReturns, storeVars, fetchVars, consumerVars, uiVars, cancelVars
<1>11. CASE Cancel
  BY <1>11 DEF Cancel, storeVars, fetchVars, consumerVars, uiVars, cancelVars
<1>12. CASE Receive
  <2>1. Holds(channel, Header) => event' = Header \/ Holds(channel', Header)
    BY <1>12, HoldsTail DEF Receive
  <2> QED
    BY <1>12, <2>1 DEF Receive, storeVars, fetchVars, uiVars, cancelVars
<1>13. CASE ReceiveEnd
  BY <1>13 DEF ReceiveEnd, storeVars, fetchVars, consumerVars, uiVars, cancelVars
<1>14. CASE ForwardColumns
  <2>1. Header \in Seq(1 .. MaxRows)
    BY DEF Header
  <2>2. forwarder' = "gone" \/ Holds(uiChannel', Header)
    <3>1. forwarder' = "gone" \/ uiChannel' = Append(uiChannel, Header)
      BY <1>14 DEF ForwardColumns, SendToWindow
    <3>2. uiChannel \in Seq(Seq(1 .. MaxRows))
      OBVIOUS
    <3> HIDE DEF StreamTyped, PhaseInv, HeaderInv
    <3>3. Holds(Append(uiChannel, Header), Header)
      BY <2>1, <3>2, HoldsAppend
    <3> QED
      BY <3>1, <3>3
  <2> QED
    BY <2>2
<1>15. CASE ForwardRows
  <2>1. SubSeq(event, 1, Take) \in Seq(1 .. MaxRows)
    BY SMTT(30), TakeIs
  <2>2. Holds(uiChannel, Header) => Holds(uiChannel', Header)
    <3>1. uiChannel' = uiChannel \/ uiChannel' = Append(uiChannel, SubSeq(event, 1, Take))
      <4> HIDE DEF StreamTyped, PhaseInv, HeaderInv
      <4> QED
        BY <1>15 DEF ForwardRows, SendToWindow
    <3>2. uiChannel \in Seq(Seq(1 .. MaxRows))
      OBVIOUS
    <3> HIDE DEF StreamTyped, PhaseInv, HeaderInv
    <3>3. Holds(uiChannel, Header) => Holds(Append(uiChannel, SubSeq(event, 1, Take)), Header)
      BY <2>1, <3>2, HoldsAppend
    <3> QED
      BY <3>1, <3>3
  <2> QED
    BY <1>15, <2>2 DEF ForwardRows, storeVars, fetchVars, cancelVars
<1>16. CASE AppendNext
  BY <1>16 DEF AppendNext, KeepResident, Buffer, BufferAndFlush, Overflows, FlushOk, storeVars, fetchVars, consumerVars, uiVars, cancelVars
<1>17. CASE AppendDone
  BY <1>17 DEF AppendDone, storeVars, fetchVars, consumerVars, uiVars, cancelVars
<1>18. CASE AppendError
  BY <1>18 DEF AppendError, AppendFails, FlushFails, Overflows, storeVars, fetchVars, consumerVars, uiVars, cancelVars
<1>19. CASE Deliver
  <2>1. Holds(uiChannel, Header) => header' \/ Holds(uiChannel', Header)
    BY <1>19, HoldsTail DEF Deliver
  <2> QED
    BY <1>19, <2>1 DEF Deliver, storeVars, fetchVars, consumerVars, cancelVars
<1>20. CASE DeliverFails
  BY <1>20 DEF DeliverFails, storeVars, fetchVars, consumerVars, uiVars, cancelVars
<1>21. CASE DeliverEnd
  BY <1>21 DEF DeliverEnd, storeVars, fetchVars, consumerVars, uiVars, cancelVars
<1>22. CASE Complete
  BY <1>22 DEF Complete, Joined, Finalize, FlushOk, storeVars, fetchVars, consumerVars, uiVars, cancelVars
<1>23. CASE CompleteFails
  BY <1>23 DEF CompleteFails, Joined, FinalizeFails, FlushFails, storeVars, fetchVars, consumerVars, uiVars, cancelVars
<1>24. CASE GiveUp
  BY <1>24 DEF GiveUp, Joined, Discard, storeVars, fetchVars, consumerVars, uiVars, cancelVars
<1>25. CASE DropStore
  BY <1>25 DEF DropStore, Discard, storeVars, fetchVars, consumerVars, uiVars, cancelVars
<1>26. CASE Reply
  BY <1>26 DEF Reply, storeVars, fetchVars, consumerVars, uiVars, cancelVars
<1>27. CASE UNCHANGED streamVars
  BY <1>27 DEF streamVars, storeVars, fetchVars, consumerVars, uiVars, cancelVars
<1> QED
  BY <1>1, <1>2, <1>3, <1>4, <1>5, <1>6, <1>7, <1>8, <1>9, <1>10, <1>11, <1>12, <1>13, <1>14, <1>15, <1>16, <1>17, <1>18, <1>19, <1>20, <1>21, <1>22, <1>23, <1>24, <1>25, <1>26, <1>27
  DEF StreamNext, Progress

\* No step loses, repeats or reorders a row between the driver and the store.
LEMMA RowsInvStep ==
    ASSUME StreamTyped, StoreTypeOK, PhaseInv, RowsInv, [StreamNext]_streamVars
    PROVE  RowsInv'
<1>1. yields' = yields /\ FetchCap' = FetchCap /\ FetchCap \in Nat /\ total \in Nat
      /\ fetched \in Nat /\ Len(batch) \in Nat /\ Len(event) \in Nat
  BY SettingsStay, Sizes DEF StoreTypeOK, StreamTyped
<1> USE DEF StreamTyped, PhaseInv, RowsInv, Sent
<1>2. CASE Start
  BY <1>2, <1>1 DEF Start, storeVars, fetchVars, consumerVars, uiVars, cancelVars
<1>3. CASE Refused
  BY <1>3, <1>1 DEF Refused, storeVars, fetchVars, consumerVars, uiVars, cancelVars
<1>4. CASE FetchColumns
  <2>1. consumer # "failed" /\ channel' = Append(channel, Header) /\ Header \in Seq(1 .. MaxRows)
        /\ Len(Header) = 0 /\ Follows(Header, 0)
    BY <1>4 DEF FetchColumns, Room, Header, Follows
  <2>2. PICK sent \in 0 .. fetched : Sent(sent)
    BY <2>1
  <2>3. Linked(channel', total + Len(event), sent)
    <3>1. Follows(Header, sent)
      BY DEF Header, Follows
    <3>2. Linked(Append(channel, Header), total + Len(event), sent + Len(Header))
      <4>1. total + Len(event) \in Nat /\ sent \in Nat
        BY <1>1
      <4> QED
        BY <2>1, <2>2, <3>1, <4>1, LinkedAppend
    <3> QED
      BY <2>1, <2>2, <3>2
  <2>4. UNCHANGED <<yields, fetch, fetched, batch, total, event, seen, consumer>>
    BY <1>4 DEF FetchColumns, storeVars, consumerVars
  <2>5. Sent(sent)'
    BY <2>2, <2>3, <2>4
  <2> QED
    BY <1>1, <2>2, <2>4, <2>5
<1>5. CASE FetchRow
  <2>1. /\ fetched' = fetched + 1 /\ batch' = Append(batch, fetched + 1) /\ fetch = "fetching"
        /\ fetched < yields /\ fetched < FetchCap
        /\ UNCHANGED <<yields, fetch, channel, total, event, seen, consumer>>
    BY <1>5 DEF FetchRow, storeVars, consumerVars
  <2>2. ASSUME consumer # "failed" PROVE \E sent \in 0 .. fetched' : Sent(sent)'
    <3>1. PICK sent \in 0 .. fetched : Sent(sent)
      BY <2>2
    <3>2. sent + Len(batch) = fetched /\ Follows(batch, sent) /\ fetched + 1 \in 1 .. MaxRows
      BY <1>1, <2>1, <3>1
    <3>3. Follows(batch', sent) /\ Len(batch') = Len(batch) + 1
      <4>1. sent \in Nat /\ sent + Len(batch) + 1 = fetched + 1
        <5> HIDE DEF StreamTyped, PhaseInv, RowsInv, Sent
        <5> QED
          BY <1>1, <3>2
      <4>2. Follows(Append(batch, sent + Len(batch) + 1), sent)
        BY <3>2, <4>1, FollowsAppend
      <4> QED
        BY <2>1, <4>1, <4>2
    <3>4. Sent(sent)'
      BY SMTT(30), <2>1, <3>1, <3>2, <3>3
    <3> QED
      BY <2>1, <3>1, <3>4
  <2> QED
    BY <1>1, <2>1, <2>2
<1>6. CASE SendBatch
  <2>1. /\ channel' = Append(channel, batch) /\ batch' = <<>> /\ fetch = "fetching" /\ consumer # "failed"
        /\ UNCHANGED <<yields, fetch, fetched, total, event, seen, consumer>>
    BY <1>6 DEF SendBatch, Room, storeVars, consumerVars
  <2>2. PICK sent \in 0 .. fetched : Sent(sent)
    BY <2>1
  <2>3. sent + Len(batch) = fetched /\ Follows(batch, sent)
    BY <2>1, <2>2
  <2>4. Linked(channel', total + Len(event), fetched)
    BY SMTT(30), <1>1, <2>1, <2>2, <2>3, LinkedAppend
  <2>5. Sent(fetched)'
    <3>1. Len(<<>>) = 0 /\ Follows(<<>>, fetched)
      BY DEF Follows
    <3> QED
      BY <2>1, <2>4, <3>1
  <2> QED
    BY <1>1, <2>1, <2>5
<1>7. CASE FetchEnds
  <2>1. /\ channel' = IF batch = <<>> THEN channel ELSE Append(channel, batch)
        /\ batch' = <<>> /\ fetch = "fetching"
        /\ UNCHANGED <<yields, fetched, total, event, seen, consumer>>
    BY <1>7 DEF FetchEnds, storeVars, consumerVars
  <2>2. ASSUME consumer # "failed" PROVE Sent(fetched)'
    <3>1. PICK sent \in 0 .. fetched : Sent(sent)
      BY <2>2
    <3>2. sent + Len(batch) = fetched /\ Follows(batch, sent)
      BY <2>1, <3>1
    <3>3. Linked(channel', total + Len(event), fetched)
      <4>1. CASE batch = <<>>
        BY <2>1, <3>1, <3>2, <4>1
      <4>2. CASE batch # <<>>
        BY <1>1, <2>1, <3>1, <3>2, <4>2, LinkedAppend
      <4> QED
        BY <4>1, <4>2
    <3>4. Len(<<>>) = 0 /\ Follows(<<>>, fetched)
      BY DEF Follows
    <3> QED
      BY <2>1, <3>3, <3>4
  <2>3. consumer # "failed" => \E sent \in 0 .. fetched' : Sent(sent)'
    <3>1. fetched' \in 0 .. fetched' /\ fetched' = fetched
      BY <1>1, <2>1
    <3> HIDE DEF Sent, StreamTyped, PhaseInv, RowsInv
    <3> QED
      BY <2>2, <3>1
  <2> HIDE DEF Sent
  <2> QED
    BY <1>1, <2>1, <2>3
<1>8. CASE FetchCancelled
  BY <1>8, <1>1 DEF FetchCancelled, Drop, storeVars, fetchVars, consumerVars, uiVars, cancelVars
<1>9. CASE FetchUnheard
  BY <1>9, <1>1 DEF FetchUnheard, Drop, storeVars, fetchVars, consumerVars, uiVars, cancelVars
<1>10. CASE FetchFails
  BY <1>10, <1>1 DEF FetchFails, Drop, storeVars, fetchVars, consumerVars, uiVars, cancelVars
<1>11. CASE FetchReturns
  BY <1>11, <1>1 DEF FetchReturns, storeVars, fetchVars, consumerVars, uiVars, cancelVars
<1>12. CASE Cancel
  BY <1>12, <1>1 DEF Cancel, storeVars, fetchVars, consumerVars, uiVars, cancelVars
<1>13. CASE Receive
  <2>1. /\ consumer = "receive" /\ channel # <<>> /\ event' = Head(channel) /\ channel' = Tail(channel)
        /\ consumer' = "forward" /\ event = <<>> /\ Len(event) = 0
        /\ UNCHANGED <<yields, fetch, fetched, batch, total, seen>>
    BY <1>13 DEF Receive, storeVars, fetchVars
  <2>2. PICK sent \in 0 .. fetched : Sent(sent)
    BY <2>1
  <2>3. Follows(event', total) /\ Linked(channel', total + Len(event'), sent)
    BY <1>1, <2>1, <2>2, LinkedTail
  <2>4. Sent(sent)'
    BY <2>1, <2>2, <2>3
  <2> QED
    BY <1>1, <2>1, <2>2, <2>3, <2>4
<1>14. CASE ReceiveEnd
  BY <1>14, <1>1 DEF ReceiveEnd, storeVars, fetchVars, consumerVars, uiVars, cancelVars
<1>15. CASE ForwardColumns
  BY <1>15, <1>1 DEF ForwardColumns, SendToWindow, storeVars, fetchVars, consumerVars, uiVars, cancelVars
<1>16. CASE ForwardRows
  BY <1>16, <1>1 DEF ForwardRows, SendToWindow, storeVars, fetchVars, consumerVars, uiVars, cancelVars
<1>17. CASE AppendNext
  <2>1. /\ consumer = "append" /\ event # <<>> /\ event' = Tail(event) /\ seen' = seen + 1 /\ total' = total + 1
        /\ UNCHANGED <<yields, fetch, fetched, batch, channel, consumer>>
    BY <1>17 DEF AppendNext, KeepResident, Buffer, BufferAndFlush, fetchVars
  <2>2. PICK sent \in 0 .. fetched : Sent(sent)
    BY <2>1
  <2>3. Follows(event', total') /\ total' + Len(event') = total + Len(event)
    BY <1>1, <2>1, FollowsTail
  <2>4. Sent(sent)'
    BY <2>1, <2>2, <2>3
  <2> QED
    BY <1>1, <2>1, <2>2, <2>3, <2>4
<1>18. CASE AppendDone
  BY <1>18, <1>1 DEF AppendDone, storeVars, fetchVars, consumerVars, uiVars, cancelVars
<1>19. CASE AppendError
  BY <1>19, <1>1 DEF AppendError, AppendFails, FlushFails, Overflows, storeVars, fetchVars, consumerVars, uiVars, cancelVars
<1>20. CASE Deliver
  BY <1>20, <1>1 DEF Deliver, storeVars, fetchVars, consumerVars, uiVars, cancelVars
<1>21. CASE DeliverFails
  BY <1>21, <1>1 DEF DeliverFails, storeVars, fetchVars, consumerVars, uiVars, cancelVars
<1>22. CASE DeliverEnd
  BY <1>22, <1>1 DEF DeliverEnd, storeVars, fetchVars, consumerVars, uiVars, cancelVars
<1>23. CASE Complete
  BY <1>23, <1>1 DEF Complete, Joined, Finalize, FlushOk, storeVars, fetchVars, consumerVars, uiVars, cancelVars
<1>24. CASE CompleteFails
  BY <1>24, <1>1 DEF CompleteFails, Joined, FinalizeFails, FlushFails, storeVars, fetchVars, consumerVars, uiVars, cancelVars
<1>25. CASE GiveUp
  BY <1>25, <1>1 DEF GiveUp, Joined, Discard, storeVars, fetchVars, consumerVars, uiVars, cancelVars
<1>26. CASE DropStore
  BY <1>26, <1>1 DEF DropStore, Discard, storeVars, fetchVars, consumerVars, uiVars, cancelVars
<1>27. CASE Reply
  BY <1>27, <1>1 DEF Reply, storeVars, fetchVars, consumerVars, uiVars, cancelVars
<1>28. CASE UNCHANGED streamVars
  BY <1>28, <1>1 DEF streamVars, storeVars, fetchVars, consumerVars, uiVars, cancelVars
<1> QED
  BY <1>2, <1>3, <1>4, <1>5, <1>6, <1>7, <1>8, <1>9, <1>10, <1>11, <1>12, <1>13, <1>14, <1>15, <1>16, <1>17, <1>18, <1>19, <1>20, <1>21, <1>22, <1>23, <1>24, <1>25, <1>26, <1>27, <1>28
  DEF StreamNext, Progress

\* No step loses, repeats or reorders a row between the consumer and the window.
LEMMA PageStep ==
    ASSUME StreamTyped, StoreTypeOK, PhaseInv, RowsInv, PageInv, [StreamNext]_streamVars
    PROVE  PageInv'
<1>1. Budget' = Budget /\ Budget \in Nat /\ total \in Nat
      /\ fetched \in Nat /\ Len(shown) \in Nat /\ Len(event) \in Nat
  BY SettingsStay, Sizes DEF StoreTypeOK, StreamTyped
<1> USE DEF StreamTyped, PhaseInv, RowsInv, PageInv, Due, Passed
<1>2. CASE Start
  BY <1>2, <1>1 DEF Start, storeVars, fetchVars, consumerVars, uiVars, cancelVars
<1>3. CASE Refused
  BY <1>3, <1>1 DEF Refused, storeVars, fetchVars, consumerVars, uiVars, cancelVars
<1>4. CASE FetchColumns
  BY <1>4, <1>1 DEF FetchColumns, Room, storeVars, fetchVars, consumerVars, uiVars, cancelVars
<1>5. CASE FetchRow
  <2>1. /\ fetched' = fetched + 1
        /\ UNCHANGED <<config, total, event, consumer, uiChannel, shown, forwarder>>
    BY <1>5 DEF FetchRow, storeVars, consumerVars, uiVars
  <2>2. PICK due \in 0 .. fetched : Due(due)
    OBVIOUS
  <2>3. Due(due)' /\ due \in 0 .. fetched'
    BY <1>1, <2>1, <2>2
  <2> QED
    BY <2>1, <2>3
<1>6. CASE SendBatch
  BY <1>6, <1>1 DEF SendBatch, Room, storeVars, fetchVars, consumerVars, uiVars, cancelVars
<1>7. CASE FetchEnds
  BY <1>7, <1>1 DEF FetchEnds, AtEnd, Room, storeVars, fetchVars, consumerVars, uiVars, cancelVars
<1>8. CASE FetchCancelled
  BY <1>8, <1>1 DEF FetchCancelled, Drop, storeVars, fetchVars, consumerVars, uiVars, cancelVars
<1>9. CASE FetchUnheard
  BY <1>9, <1>1 DEF FetchUnheard, Drop, storeVars, fetchVars, consumerVars, uiVars, cancelVars
<1>10. CASE FetchFails
  BY <1>10, <1>1 DEF FetchFails, Drop, storeVars, fetchVars, consumerVars, uiVars, cancelVars
<1>11. CASE FetchReturns
  BY <1>11, <1>1 DEF FetchReturns, storeVars, fetchVars, consumerVars, uiVars, cancelVars
<1>12. CASE Cancel
  BY <1>12, <1>1 DEF Cancel, storeVars, fetchVars, consumerVars, uiVars, cancelVars
<1>13. CASE Receive
  BY <1>13, <1>1 DEF Receive, storeVars, fetchVars, consumerVars, uiVars, cancelVars
<1>14. CASE ReceiveEnd
  BY <1>14, <1>1 DEF ReceiveEnd, storeVars, fetchVars, consumerVars, uiVars, cancelVars
<1>15. CASE ForwardColumns
  <2>1. /\ consumer = "forward" /\ consumer' = "receive" /\ event = <<>>
        /\ UNCHANGED <<config, total, event, fetched, shown, forwarder>>
        /\ \/ forwarder = "gone" /\ uiChannel' = uiChannel
           \/ uiChannel' = Append(uiChannel, Header)
    BY <1>15 DEF ForwardColumns, SendToWindow, Header, storeVars, fetchVars
  <2>2. PICK due \in 0 .. fetched : Due(due)
    OBVIOUS
  <2>3. Linked(uiChannel', Len(shown), due)
    <3>1. Header \in Seq(1 .. MaxRows) /\ Len(Header) = 0 /\ Follows(Header, due)
      BY DEF Header, Follows
    <3>2. Linked(Append(uiChannel, Header), Len(shown), due + Len(Header))
      <4>1. due \in Nat /\ Len(shown) \in Nat
        OBVIOUS
      <4> QED
        BY <2>2, <3>1, <4>1, LinkedAppend
    <3>3. due + Len(Header) = due
      BY <3>1
    <3> QED
      BY <2>1, <2>2, <3>2, <3>3
  <2>4. Due(due)'
    BY <1>1, <2>1, <2>2, <2>3
  <2> QED
    BY <2>1, <2>2, <2>4
<1>16. CASE ForwardRows
  <2> DEFINE part == SubSeq(event, 1, Take)
  <2>1. /\ consumer = "forward" /\ consumer' = "append"
        /\ UNCHANGED <<config, total, event, fetched, shown, forwarder>>
        /\ IF Take > 0 /\ forwarder # "gone" THEN uiChannel' = Append(uiChannel, part) ELSE uiChannel' = uiChannel
    BY <1>16 DEF ForwardRows, SendToWindow, storeVars, fetchVars
  <2>2. PICK due \in 0 .. fetched : Due(due)
    OBVIOUS
  <2>3. total + Len(event) <= fetched
    <3>1. PICK sent \in 0 .. fetched : Linked(channel, total + Len(event), sent)
      BY <2>1 DEF Sent
    <3>2. total + Len(event) <= sent
      BY <1>1, <3>1, LinkedUp
    <3> QED
      BY <1>1, <3>1, <3>2
  <2>4. Take \in 0 .. Len(event) /\ Len(event) \in Nat
        /\ Take = IF total >= Budget THEN 0
                  ELSE IF Budget - total <= Len(event) THEN Budget - total ELSE Len(event)
    BY TakeIs
  <2>5. CASE Take > 0 /\ forwarder # "gone"
    <3>1. due = total
      BY <1>1, <2>1, <2>2, <2>4, <2>5
    <3>2. part \in Seq(1 .. MaxRows) /\ Len(part) = Take /\ Follows(part, due)
      <4>1. event \in Seq(1 .. MaxRows) /\ Follows(event, due) /\ due \in Nat
        BY <1>1, <2>1, <3>1
      <4>2. Take \in 0 .. Len(event)
        BY <2>4
      <4> HIDE DEF StreamTyped, PhaseInv, RowsInv, PageInv, Due, Passed
      <4> QED
        BY <4>1, <4>2, FollowsPart
    <3>3. Linked(uiChannel', Len(shown), total + Take)
      <4>1. due \in Nat /\ Len(shown) \in Nat /\ uiChannel' = Append(uiChannel, part)
        BY <1>1, <2>1, <2>5
      <4> HIDE DEF part
      <4> QED
        BY <2>2, <3>1, <3>2, <4>1, LinkedAppend
    <3>4. total + Take \in 0 .. fetched /\ total + Take <= Budget
      <4> HIDE DEF StreamTyped, PhaseInv, RowsInv, PageInv, Due, Passed
      <4> QED
        BY <1>1, <2>3, <2>4, <2>5
    <3>5. Passed' = total + Take
      BY <1>1, <2>1, <2>4, <2>5
    <3>6. ASSUME NEW n \in 0 .. fetched, n = total + Take PROVE Due(n)'
      <4> HIDE DEF Passed
      <4> QED
        BY <1>1, <2>1, <3>3, <3>4, <3>5, <3>6
    <3> HIDE DEF Due
    <3> QED
      BY <2>1, <3>4, <3>6
  <2>6. CASE ~(Take > 0 /\ forwarder # "gone")
    <3>1. forwarder # "gone" => Passed' = Passed
      BY <1>1, <2>1, <2>4, <2>6
    <3>2. Due(due)'
      BY <1>1, <2>1, <2>2, <2>6, <3>1
    <3> QED
      BY <2>1, <2>2, <3>2
  <2> QED
    BY <2>5, <2>6
<1>17. CASE AppendNext
  <2>1. /\ consumer = "append" /\ event # <<>> /\ event' = Tail(event) /\ total' = total + 1
        /\ UNCHANGED <<fetched, uiChannel, shown, forwarder, consumer>>
    BY <1>17 DEF AppendNext, KeepResident, Buffer, BufferAndFlush, fetchVars, uiVars
  <2>2. Passed' = Passed
    BY <1>1, <2>1
  <2>3. PICK due \in 0 .. fetched : Due(due)
    OBVIOUS
  <2>4. Due(due)'
    BY <1>1, <2>1, <2>2, <2>3
  <2> QED
    BY <2>1, <2>3, <2>4
<1>18. CASE AppendDone
  BY <1>18, <1>1 DEF AppendDone, storeVars, fetchVars, consumerVars, uiVars, cancelVars
<1>19. CASE AppendError
  BY <1>19, <1>1 DEF AppendError, AppendFails, FlushFails, Overflows, storeVars, fetchVars, consumerVars, uiVars, cancelVars
<1>20. CASE Deliver
  <2>1. /\ uiChannel # <<>> /\ shown' = shown \o Head(uiChannel) /\ uiChannel' = Tail(uiChannel)
        /\ UNCHANGED <<config, total, event, fetched, forwarder, consumer>>
    BY <1>20 DEF Deliver, storeVars, fetchVars, consumerVars
  <2>2. PICK due \in 0 .. fetched : Due(due)
    OBVIOUS
  <2>3. Head(uiChannel) \in Seq(1 .. MaxRows) /\ due \in Nat
    BY <1>1, <2>1
  <2>4. Head(uiChannel) \in Seq(1 .. MaxRows) /\ Len(shown) \in Nat
        /\ Follows(Head(uiChannel), Len(shown))
        /\ Linked(Tail(uiChannel), Len(shown) + Len(Head(uiChannel)), due)
    BY <1>1, <2>1, <2>2, <2>3, LinkedTail
  <2>5. Follows(shown', 0) /\ Len(shown') = Len(shown) + Len(Head(uiChannel))
    BY <2>1, <2>4, FollowsConcat
  <2>6. Due(due)'
    BY <1>1, <2>1, <2>2, <2>4, <2>5
  <2> QED
    BY <2>1, <2>2, <2>5, <2>6
<1>21. CASE DeliverFails
  <2>1. uiChannel' = <<>> /\ forwarder' = "gone" /\ UNCHANGED <<config, fetched, shown>>
    BY <1>21 DEF DeliverFails, storeVars, fetchVars
  <2>2. PICK due \in 0 .. fetched : Due(due)
    OBVIOUS
  <2>3. Len(shown) \in Nat /\ Len(shown) <= due
    BY SMTT(30), <2>2, LinkedUp
  <2>4. Linked(uiChannel', Len(shown), Len(shown))
    BY <2>1, <2>3, LinkedNone
  <2>5. Due(Len(shown))'
    BY <1>1, <2>1, <2>2, <2>3, <2>4
  <2> QED
    BY <2>1, <2>2, <2>3, <2>5
<1>22. CASE DeliverEnd
  BY <1>22, <1>1 DEF DeliverEnd, storeVars, fetchVars, consumerVars, uiVars, cancelVars
<1>23. CASE Complete
  BY <1>23, <1>1 DEF Complete, Joined, Finalize, FlushOk, storeVars, fetchVars, consumerVars, uiVars, cancelVars
<1>24. CASE CompleteFails
  BY <1>24, <1>1 DEF CompleteFails, Joined, FinalizeFails, FlushFails, storeVars, fetchVars, consumerVars, uiVars, cancelVars
<1>25. CASE GiveUp
  BY <1>25, <1>1 DEF GiveUp, Joined, Discard, storeVars, fetchVars, consumerVars, uiVars, cancelVars
<1>26. CASE DropStore
  BY <1>26, <1>1 DEF DropStore, Discard, storeVars, fetchVars, consumerVars, uiVars, cancelVars
<1>27. CASE Reply
  BY <1>27, <1>1 DEF Reply, storeVars, fetchVars, consumerVars, uiVars, cancelVars
<1>28. CASE UNCHANGED streamVars
  BY <1>28, <1>1 DEF streamVars, storeVars, fetchVars, consumerVars, uiVars, cancelVars
<1> QED
  BY <1>2, <1>3, <1>4, <1>5, <1>6, <1>7, <1>8, <1>9, <1>10, <1>11, <1>12, <1>13, <1>14, <1>15, <1>16, <1>17, <1>18, <1>19, <1>20, <1>21, <1>22, <1>23, <1>24, <1>25, <1>26, <1>27, <1>28
  DEF StreamNext, Progress

\* The invariant holds before the fetch begins, and every step keeps it.
LEMMA StreamInitially == StreamInit => StreamIInv
<1> SUFFICES ASSUME StreamInit PROVE StreamIInv
  OBVIOUS
<1>1. StoreTypeOK /\ NonePassedOver /\ RowsInPlace
  BY StoreInitially DEF StreamInit
<1>2. <<>> \in Seq(1 .. MaxRows) /\ <<>> \in Seq(Seq(1 .. MaxRows)) /\ Len(<<>>) = 0
  OBVIOUS
<1>3. StreamTyped
  BY <1>2 DEF StreamInit, StreamTyped, Header
<1>4. PhaseInv
  BY DEF StreamInit, StoreInit, PhaseInv, Header
<1>5. HeaderInv
  BY DEF StreamInit, HeaderInv
<1>6. Linked(<<>>, 0, 0) /\ Follows(<<>>, 0)
  BY <1>2, LinkedNone DEF Follows
<1>7. RowsInv
  <2>1. Sent(0)
    BY <1>2, <1>6 DEF StreamInit, StoreInit, Sent, Header
  <2>2. yields \in Nat /\ FetchCap \in Nat /\ fetched = 0 /\ total = 0 /\ seen = 0 /\ event = <<>>
    BY <1>1, Sizes DEF StreamInit, StoreInit, Header
  <2> QED
    BY <1>6, <2>1, <2>2 DEF RowsInv
<1>8. PageInv
  <2>1. Budget \in Nat
    BY <1>1, Sizes
  <2>2. consumer = "receive" /\ total = 0 /\ fetched = 0 /\ uiChannel = <<>> /\ shown = <<>>
    BY DEF StreamInit, StoreInit
  <2>3. Due(0)
    BY <1>2, <1>6, <2>1, <2>2 DEF Due, Passed
  <2> QED
    BY <1>6, <2>2, <2>3 DEF PageInv
<1> QED
  BY <1>1, <1>3, <1>4, <1>5, <1>7, <1>8 DEF StreamIInv

\* Every step of the stream keeps the invariant.
LEMMA StreamStep == StreamIInv /\ [StreamNext]_streamVars => StreamIInv'
<1> SUFFICES ASSUME StreamIInv, [StreamNext]_streamVars PROVE StreamIInv'
  OBVIOUS
<1> USE DEF StreamIInv
<1>1. StoreTypeOK' /\ NonePassedOver' /\ RowsInPlace'
  BY StoreStep, TypeStep, RoomStep, RowsStep
<1>2. StreamTyped' /\ PhaseInv' /\ HeaderInv'
  BY StreamTypeStep, PhaseStep, HeaderStep
<1>3. RowsInv' /\ PageInv'
  BY RowsInvStep, PageStep
<1> QED
  BY <1>1, <1>2, <1>3

\* So it holds in every state.
LEMMA StreamInvariance == StreamSpec => []StreamIInv
  BY StreamInitially, StreamStep, PTL DEF StreamSpec

-----------------------------------------------------------------------------
(* How much is held.                                                       *)

\* No event is longer than a batch.
Short(events) == \A i \in 1 .. Len(events) : Len(events[i]) <= BatchRows

\* What is under way comes in pieces no longer than a batch.
SizesInv ==
    /\ Len(batch) <= BatchRows /\ Len(event) <= BatchRows
    /\ Short(channel) /\ Short(uiChannel)

\* Sending a short event leaves only short ones,
LEMMA ShortAppend ==
    ASSUME NEW R, NEW events \in Seq(Seq(R)), NEW e \in Seq(R), Short(events), Len(e) <= BatchRows
    PROVE  Short(Append(events, e))
<1> DEFINE n == Len(events)
<1>1. n \in Nat /\ Len(Append(events, e)) = n + 1 /\ Append(events, e)[n + 1] = e
      /\ \A i \in 1 .. n : Append(events, e)[i] = events[i]
  OBVIOUS
<1> QED
  BY <1>1 DEF Short

\* and so does receiving one, which is short too.
LEMMA ShortTail ==
    ASSUME NEW R, NEW events \in Seq(Seq(R)), events # <<>>, Short(events)
    PROVE  Short(Tail(events)) /\ Len(Head(events)) <= BatchRows
<1> DEFINE n == Len(events)
<1>1. n \in Nat \ {0} /\ Len(Tail(events)) = n - 1 /\ Head(events) = events[1]
      /\ \A i \in 1 .. n - 1 : Tail(events)[i] = events[i + 1]
  OBVIOUS
<1> HIDE DEF n
<1>2. ASSUME NEW i \in 1 .. n - 1 PROVE Len(Tail(events)[i]) <= BatchRows
  <2>1. i + 1 \in 1 .. n
    BY <1>1
  <2> QED
    BY <1>1, <2>1 DEF Short, n
<1>3. 1 \in 1 .. n
  BY <1>1
<1> QED
  BY <1>1, <1>2, <1>3 DEF Short, n

\* The rows of short events are no more than the events times a batch.
LEMMA RowsOfShortEvents ==
    ASSUME NEW R, NEW events \in Seq(Seq(R)), Short(events), Len(events) <= ChannelSize
    PROVE  RowsIn(events) \in Nat /\ RowsIn(events) <= ChannelSize * BatchRows
<1> DEFINE places == UNION {{i} \X DOMAIN events[i] : i \in DOMAIN events}
           box == (1 .. ChannelSize) \X (1 .. BatchRows)
<1>1. ChannelSize \in Nat /\ BatchRows \in Nat
  BY SizesAssumption
<1>2. /\ IsFiniteSet(1 .. ChannelSize) /\ Cardinality(1 .. ChannelSize) = ChannelSize
      /\ IsFiniteSet(1 .. BatchRows) /\ Cardinality(1 .. BatchRows) = BatchRows
  BY <1>1, SizesAssumption, FS_Interval
<1>3. IsFiniteSet(box) /\ Cardinality(box) = ChannelSize * BatchRows
  <2> DEFINE S == 1 .. ChannelSize
             T == 1 .. BatchRows
  <2> HIDE DEF S, T
  <2>1. IsFiniteSet(S) /\ IsFiniteSet(T)
    BY <1>2 DEF S, T
  <2>2. IsFiniteSet(S \X T) /\ Cardinality(S \X T) = Cardinality(S) * Cardinality(T)
    BY ONLY <2>1, FS_Product
  <2> QED
    BY ONLY <1>2, <2>2 DEF S, T, box
<1>4. places \subseteq box
  <2> SUFFICES ASSUME NEW i \in DOMAIN events, NEW j \in DOMAIN events[i]
               PROVE  i \in 1 .. ChannelSize /\ j \in 1 .. BatchRows
    OBVIOUS
  <2>1. DOMAIN events = 1 .. Len(events) /\ Len(events) \in Nat
    OBVIOUS
  <2>2. events[i] \in Seq(R)
    BY <2>1
  <2>3. DOMAIN events[i] = 1 .. Len(events[i]) /\ Len(events[i]) \in Nat
    BY <2>2
  <2>4. Len(events[i]) <= BatchRows
    BY <2>1 DEF Short
  <2> QED
    BY <1>1, <2>1, <2>3, <2>4
<1>5. IsFiniteSet(places) /\ Cardinality(places) <= Cardinality(box)
  BY <1>3, <1>4, FS_Subset
<1>6. Cardinality(places) \in Nat
  BY <1>5, FS_CardinalityType
<1> QED
  BY <1>3, <1>5, <1>6 DEF RowsIn

\* The rows of a chain are no more than the rows up to its end.
LEMMA RowsOfChain ==
    ASSUME NEW R, NEW events \in Seq(Seq(R)), NEW a \in Nat, NEW b \in Nat, Linked(events, a, b)
    PROVE  RowsIn(events) <= b
<1> DEFINE places == UNION {{i} \X DOMAIN events[i] : i \in DOMAIN events}
<1>1. DOMAIN events = 1 .. Len(events) /\ Len(events) \in Nat
  OBVIOUS
<1>2. \A i \in 1 .. Len(events) :
        events[i] \in Seq(R) /\ DOMAIN events[i] = 1 .. Len(events[i]) /\ Len(events[i]) \in Nat
  OBVIOUS
<1>3. PICK ends \in [0 .. Len(events) -> Nat] :
        /\ ends[0] = a /\ ends[Len(events)] = b
        /\ \A i, j \in 0 .. Len(events) : i <= j => ends[i] <= ends[j]
        /\ \A i \in 1 .. Len(events) : ends[i] = ends[i - 1] + Len(events[i])
  BY DEF Linked
<1> DEFINE row == [p \in places |-> ends[p[1] - 1] + p[2]]
<1>4. ASSUME NEW p \in places
      PROVE  /\ p = <<p[1], p[2]>> /\ p[1] \in 1 .. Len(events) /\ p[2] \in 1 .. Len(events[p[1]])
             /\ ends[p[1] - 1] \in Nat /\ ends[p[1]] \in Nat /\ Len(events[p[1]]) \in Nat
             /\ row[p] = ends[p[1] - 1] + p[2] /\ ends[p[1]] = ends[p[1] - 1] + Len(events[p[1]])
             /\ ends[p[1]] <= b
  <2>1. PICK i \in DOMAIN events : p \in {i} \X DOMAIN events[i]
    OBVIOUS
  <2>2. p = <<p[1], p[2]>> /\ p[1] = i /\ p[2] \in DOMAIN events[i] /\ i \in 1 .. Len(events)
    BY <1>1, <2>1
  <2>3. i - 1 \in 0 .. Len(events) /\ i \in 0 .. Len(events) /\ Len(events) \in 0 .. Len(events) /\ i <= Len(events)
    BY <1>1, <2>2
  <2> QED
    BY <1>2, <1>3, <2>2, <2>3
<1>5. row \in [places -> 1 .. b]
  <2> SUFFICES ASSUME NEW p \in places PROVE row[p] \in 1 .. b
    OBVIOUS
  <2> DEFINE i == p[1]
             j == p[2]
             l == Len(events[p[1]])
  <2>1. /\ ends[i - 1] \in Nat /\ l \in Nat /\ j \in 1 .. l
        /\ row[p] = ends[i - 1] + j /\ ends[i - 1] + l <= b
    BY <1>4
  <2> HIDE DEF i, j, l, row, places
  <2> QED
    BY <2>1
<1> HIDE DEF row, places
<1>6. ASSUME NEW p \in places, NEW q \in places, p[1] < q[1]
      PROVE  row[p] < row[q]
  <2>1. p[1] \in 1 .. Len(events) /\ q[1] \in 1 .. Len(events)
    BY <1>4
  <2>2. p[1] \in 0 .. Len(events) /\ q[1] - 1 \in 0 .. Len(events) /\ p[1] <= q[1] - 1
    <3> DEFINE i == p[1]
               k == q[1]
               n == Len(events)
    <3>1. n \in Nat /\ i \in 1 .. n /\ k \in 1 .. n /\ i < k
      BY ONLY <1>1, <1>6, <2>1
    <3> HIDE DEF i, k, n
    <3>2. i \in 0 .. n /\ k - 1 \in 0 .. n /\ i <= k - 1
      BY ONLY <3>1
    <3> QED
      BY ONLY <3>2 DEF i, k, n
  <2>3. ends[p[1]] <= ends[q[1] - 1] /\ ends[p[1]] \in Nat /\ ends[q[1] - 1] \in Nat
    BY <1>3, <2>2
  <2>4. row[p] <= ends[p[1]] /\ row[p] \in Nat
    <3> DEFINE l == Len(events[p[1]])
    <3>1. /\ row[p] = ends[p[1] - 1] + p[2] /\ ends[p[1]] = ends[p[1] - 1] + l
          /\ ends[p[1] - 1] \in Nat /\ l \in Nat /\ p[2] \in 1 .. l
      BY <1>4
    <3> HIDE DEF l
    <3> QED
      BY <3>1
  <2>5. row[q] = ends[q[1] - 1] + q[2] /\ q[2] \in Nat \ {0}
    <3> DEFINE l == Len(events[q[1]])
    <3>1. row[q] = ends[q[1] - 1] + q[2] /\ l \in Nat /\ q[2] \in 1 .. l
      BY <1>4
    <3> HIDE DEF l
    <3> QED
      BY <3>1
  <2> QED
    BY <2>3, <2>4, <2>5
<1>7. ASSUME NEW p \in places, NEW q \in places, row[p] = row[q]
      PROVE  p = q
  <2>1. p[1] \in Nat /\ q[1] \in Nat /\ row[p] \in Nat /\ row[q] \in Nat
    <3>1. p[1] \in 1 .. Len(events) /\ q[1] \in 1 .. Len(events)
      BY <1>4
    <3>2. row[p] \in 1 .. b /\ row[q] \in 1 .. b
      BY ONLY <1>5, p \in places, q \in places
    <3> DEFINE i == p[1]
               k == q[1]
               n == Len(events)
    <3>3. i \in Nat /\ k \in Nat
      <4>1. i \in 1 .. n /\ k \in 1 .. n
        BY <3>1
      <4> HIDE DEF i, k, n
      <4> QED
        BY ONLY <4>1
    <3>4. row[p] \in Nat /\ row[q] \in Nat
      BY ONLY <3>2, b \in Nat
    <3> QED
      BY ONLY <3>3, <3>4
  <2>2. p[1] = q[1]
    <3>1. row[p] < row[q] \/ row[q] < row[p] => FALSE
      BY ONLY <1>7, <2>1
    <3>2. ~(p[1] < q[1]) /\ ~(q[1] < p[1])
      BY ONLY <1>6, <3>1, p \in places, q \in places
    <3> DEFINE i == p[1]
               k == q[1]
    <3>3. i \in Nat /\ k \in Nat /\ ~(i < k) /\ ~(k < i)
      BY ONLY <2>1, <3>2
    <3> HIDE DEF i, k
    <3>4. i = k
      BY ONLY <3>3
    <3> QED
      BY <3>4 DEF i, k
  <2>3. p[2] = q[2]
    <3>1. /\ row[p] = ends[p[1] - 1] + p[2] /\ row[q] = ends[q[1] - 1] + q[2]
          /\ ends[p[1] - 1] \in Nat
      BY <1>4
    <3>2. \A r \in places : r[2] \in Nat
      <4> SUFFICES ASSUME NEW r \in places PROVE r[2] \in Nat
        OBVIOUS
      <4> DEFINE l == Len(events[r[1]])
      <4>1. l \in Nat /\ r[2] \in 1 .. l
        BY <1>4
      <4> HIDE DEF l
      <4> QED
        BY <4>1
    <3>3. p[2] \in Nat /\ q[2] \in Nat
      BY <3>2
    <3>4. ends[q[1] - 1] = ends[p[1] - 1]
      BY <2>2
    <3> DEFINE x == p[2]
               y == q[2]
               e == ends[p[1] - 1]
    <3>5. x \in Nat /\ y \in Nat /\ e \in Nat
      BY <3>1, <3>3
    <3>6. e + x = e + y
      BY <1>7, <3>1, <3>4
    <3> HIDE DEF x, y, e
    <3>7. x = y
      BY <3>5, <3>6
    <3> QED
      BY <3>7 DEF x, y
  <2> QED
    BY <1>4, <2>2, <2>3
<1>8. row \in Injection(places, 1 .. b)
  BY <1>5, <1>7 DEF Injection, IsInjective
<1>9. IsFiniteSet(1 .. b) /\ Cardinality(1 .. b) = b
  BY FS_Interval
<1>10. Cardinality(places) <= b
  BY <1>8, <1>9, FS_Injection
<1> QED
  BY <1>10 DEF RowsIn, places

\* It holds when nothing is under way,
LEMMA SizesInitially == StreamInit => SizesInv
<1> SUFFICES ASSUME StreamInit PROVE SizesInv
  OBVIOUS
<1>1. Len(<<>>) <= BatchRows
  BY SizesAssumption
<1>2. Short(<<>>)
  BY DEF Short
<1> QED
  BY <1>1, <1>2 DEF StreamInit, SizesInv, Header

\* a step fetches up to a batch, and passes on what was fetched together, or a part of it.
LEMMA SizesStep ==
    ASSUME StreamTyped, StoreTypeOK, RowsInv, SizesInv, [StreamNext]_streamVars
    PROVE  SizesInv'
<1>1. /\ BatchRows \in Nat /\ <<>> \in Seq(1 .. MaxRows) /\ Len(<<>>) = 0
      /\ Len(<<>>) <= BatchRows
      /\ batch \in Seq(1 .. MaxRows) /\ event \in Seq(1 .. MaxRows)
      /\ channel \in Seq(Seq(1 .. MaxRows)) /\ uiChannel \in Seq(Seq(1 .. MaxRows))
  BY SizesAssumption DEF StreamTyped
<1>2. Short(<<>>)
  BY DEF Short
<1>3. ASSUME UNCHANGED <<batch, event, channel, uiChannel>> PROVE SizesInv'
  BY <1>3 DEF SizesInv, Short
<1>4. CASE Start
  BY <1>4, <1>3 DEF Start, storeVars, fetchVars, consumerVars, uiVars, cancelVars
<1>5. CASE Refused
  BY <1>5, <1>3 DEF Refused, storeVars, fetchVars, consumerVars, uiVars, cancelVars
<1>6. CASE FetchColumns
  <2>1. /\ channel' = Append(channel, <<>>) /\ UNCHANGED <<batch, event, uiChannel>>
    BY <1>6 DEF FetchColumns, Header, consumerVars, uiVars
  <2>2. Short(Append(channel, <<>>))
    BY <1>1, ShortAppend DEF SizesInv
  <2> QED
    BY <2>1, <2>2 DEF SizesInv, Short
<1>7. CASE FetchRow
  <2>1. /\ Len(batch) < BatchRows /\ UNCHANGED <<channel, event, uiChannel>>
        /\ batch' = Append(batch, fetched')
    BY <1>7 DEF FetchRow, consumerVars, uiVars
  <2>2. Len(batch') = Len(batch) + 1 /\ Len(batch) \in Nat
    BY <1>1, <2>1
  <2>3. Len(batch') <= BatchRows
    BY <1>1, <2>1, <2>2
  <2> QED
    BY <2>1, <2>3 DEF SizesInv, Short
<1>8. CASE SendBatch
  <2>1. /\ channel' = Append(channel, batch) /\ batch' = <<>> /\ UNCHANGED <<event, uiChannel>>
    BY <1>8 DEF SendBatch, consumerVars, uiVars
  <2>2. Short(Append(channel, batch))
    BY <1>1, ShortAppend DEF SizesInv
  <2> QED
    BY <1>1, <2>1, <2>2 DEF SizesInv, Short
<1>9. CASE FetchEnds
  <2>1. /\ channel' = channel \/ channel' = Append(channel, batch)
        /\ batch' = <<>> /\ UNCHANGED <<event, uiChannel>>
    BY <1>9 DEF FetchEnds, consumerVars, uiVars
  <2>2. Short(Append(channel, batch)) /\ Short(channel)
    BY <1>1, ShortAppend DEF SizesInv
  <2>3. Short(channel')
    BY <2>1, <2>2
  <2> QED
    BY <1>1, <2>1, <2>3 DEF SizesInv, Short
<1>10. ASSUME FetchCancelled \/ FetchUnheard \/ FetchFails PROVE SizesInv'
  <2>1. batch' = <<>> /\ UNCHANGED <<event, channel, uiChannel>>
    BY <1>10 DEF FetchCancelled, FetchUnheard, FetchFails, Drop, consumerVars, uiVars
  <2> QED
    BY <1>1, <2>1 DEF SizesInv, Short
<1>11. CASE FetchReturns
  BY <1>11, <1>3 DEF FetchReturns, storeVars, fetchVars, consumerVars, uiVars, cancelVars
<1>12. CASE Cancel
  BY <1>12, <1>3 DEF Cancel, storeVars, fetchVars, consumerVars, uiVars, cancelVars
<1>13. CASE Receive
  <2>1. /\ channel # <<>> /\ event' = Head(channel) /\ channel' = Tail(channel)
        /\ UNCHANGED <<batch, uiChannel>>
    BY <1>13 DEF Receive, fetchVars, uiVars
  <2>2. Short(Tail(channel)) /\ Len(Head(channel)) <= BatchRows
    BY <1>1, <2>1, ShortTail DEF SizesInv
  <2> QED
    BY <2>1, <2>2 DEF SizesInv, Short
<1>14. CASE ReceiveEnd
  BY <1>14, <1>3 DEF ReceiveEnd, storeVars, fetchVars, consumerVars, uiVars, cancelVars
<1>15. CASE ForwardColumns
  <2>1. /\ uiChannel' = uiChannel \/ uiChannel' = Append(uiChannel, <<>>)
        /\ UNCHANGED <<batch, event, channel>>
    BY <1>15 DEF ForwardColumns, SendToWindow, Header, fetchVars
  <2>2. Short(Append(uiChannel, <<>>)) /\ Short(uiChannel)
    BY <1>1, ShortAppend DEF SizesInv
  <2>3. Short(uiChannel')
    BY <2>1, <2>2
  <2> QED
    BY <2>1, <2>3 DEF SizesInv, Short
<1>16. CASE ForwardRows
  <2> DEFINE part == SubSeq(event, 1, Take)
  <2>1. /\ uiChannel' = uiChannel \/ uiChannel' = Append(uiChannel, part)
        /\ UNCHANGED <<batch, event, channel>>
    BY <1>16 DEF ForwardRows, SendToWindow, fetchVars
  <2>2. part \in Seq(1 .. MaxRows) /\ Len(part) <= BatchRows
    <3>1. Take \in 0 .. Len(event) /\ Len(event) <= BatchRows
      BY TakeIs DEF SizesInv
    <3> QED
      BY <1>1, <3>1
  <2> HIDE DEF part
  <2>3. Short(Append(uiChannel, part)) /\ Short(uiChannel)
    BY <1>1, <2>2, ShortAppend DEF SizesInv
  <2>4. Short(uiChannel')
    BY <2>1, <2>3
  <2> QED
    BY <2>1, <2>4 DEF SizesInv, Short
<1>17. CASE AppendNext
  <2>1. event # <<>> /\ event' = Tail(event) /\ UNCHANGED <<batch, channel, uiChannel>>
    BY <1>17 DEF AppendNext, fetchVars, uiVars
  <2>2. Len(Tail(event)) = Len(event) - 1 /\ Len(event) \in Nat
    BY <1>1, <2>1
  <2>3. Len(event') <= BatchRows
    BY <1>1, <2>1, <2>2 DEF SizesInv
  <2> QED
    BY <2>1, <2>3 DEF SizesInv, Short
<1>18. CASE AppendDone
  BY <1>18, <1>3 DEF AppendDone, storeVars, fetchVars, consumerVars, uiVars, cancelVars
<1>19. CASE AppendError
  <2>1. channel' = <<>> /\ UNCHANGED <<batch, event, uiChannel>>
    BY <1>19 DEF AppendError, fetchVars, uiVars
  <2> QED
    BY <1>2, <2>1 DEF SizesInv, Short
<1>20. CASE Deliver
  <2>1. /\ uiChannel # <<>> /\ uiChannel' = Tail(uiChannel) /\ UNCHANGED <<batch, event, channel>>
    BY <1>20 DEF Deliver, fetchVars, consumerVars
  <2>2. Short(Tail(uiChannel))
    BY <1>1, <2>1, ShortTail DEF SizesInv
  <2> QED
    BY <2>1, <2>2 DEF SizesInv, Short
<1>21. CASE DeliverFails
  <2>1. uiChannel' = <<>> /\ UNCHANGED <<batch, event, channel>>
    BY <1>21 DEF DeliverFails, fetchVars, consumerVars
  <2> QED
    BY <1>2, <2>1 DEF SizesInv, Short
<1>22. CASE DeliverEnd
  BY <1>22, <1>3 DEF DeliverEnd, storeVars, fetchVars, consumerVars, uiVars, cancelVars
<1>23. CASE Complete
  BY <1>23, <1>3 DEF Complete, storeVars, fetchVars, consumerVars, uiVars, cancelVars
<1>24. CASE CompleteFails
  BY <1>24, <1>3 DEF CompleteFails, storeVars, fetchVars, consumerVars, uiVars, cancelVars
<1>25. CASE GiveUp
  BY <1>25, <1>3 DEF GiveUp, storeVars, fetchVars, consumerVars, uiVars, cancelVars
<1>26. CASE DropStore
  BY <1>26, <1>3 DEF DropStore, storeVars, fetchVars, consumerVars, uiVars, cancelVars
<1>27. CASE Reply
  BY <1>27, <1>3 DEF Reply, storeVars, fetchVars, consumerVars, uiVars, cancelVars
<1>28. CASE UNCHANGED streamVars
  BY <1>28, <1>3 DEF streamVars, storeVars, fetchVars, consumerVars, uiVars, cancelVars
<1> QED
  BY <1>4, <1>5, <1>6, <1>7, <1>8, <1>9, <1>10, <1>11, <1>12, <1>13, <1>14, <1>15, <1>16, <1>17, <1>18, <1>19, <1>20, <1>21, <1>22, <1>23, <1>24, <1>25, <1>26, <1>27, <1>28
  DEF StreamNext, Progress

\* No events, no rows.
LEMMA RowsOfNone == RowsIn(<<>>) = 0
<1>1. {{i} \X DOMAIN (<<>>)[i] : i \in DOMAIN <<>>} = {}
  OBVIOUS
<1>2. UNION {} = {}
  OBVIOUS
<1> QED
  BY <1>1, <1>2, FS_EmptySet DEF RowsIn

\* What is held is in the store, in hand, in a batch or in a channel, and each of them
\* is bounded.
LEMMA PiecesAreBounded ==
    ASSUME StreamTyped, StoreTypeOK, PhaseInv, RowsInv, PageInv, SizesInv, MemoryIsBounded
    PROVE  HeldRowsAreBounded
<1>1. /\ BatchRows \in Nat /\ ChannelSize \in Nat /\ FlushRows \in Nat /\ Budget \in Nat
  BY SizesAssumption, FlushAssumption, Sizes
<1>2. /\ Len(memory) \in Nat /\ Len(pending) \in Nat
      /\ Len(memory) <= Budget /\ Len(pending) <= FlushRows
  BY DEF StoreTypeOK, MemoryIsBounded
<1>3. /\ Len(batch) \in Nat /\ Len(event) \in Nat
      /\ Len(batch) <= BatchRows /\ Len(event) <= BatchRows
  BY DEF StreamTyped, SizesInv
<1>4. RowsIn(channel) \in Nat /\ RowsIn(channel) <= ChannelSize * BatchRows
  BY RowsOfShortEvents DEF StreamTyped, SizesInv
<1>5. RowsIn(uiChannel) \in Nat /\ RowsIn(uiChannel) <= ChannelSize * BatchRows
  BY RowsOfShortEvents DEF StreamTyped, SizesInv
<1>6. Copied \in Nat /\ Copied <= BatchRows /\ RowsIn(uiChannel) + Copied <= Budget
  <2>1. PICK due \in 0 .. fetched : Due(due)
    BY DEF PageInv
  <2>2. /\ uiChannel \in Seq(Seq(1 .. MaxRows)) /\ Len(shown) \in Nat /\ due \in Nat
        /\ total \in Nat /\ seen = total
    BY <2>1 DEF StreamTyped, StoreTypeOK, RowsInv
  <2>3. RowsIn(uiChannel) <= due /\ due <= Budget
    BY <2>1, <2>2, RowsOfChain DEF Due
  <2>4. CASE consumer # "forward"
    BY <1>1, <1>5, <2>2, <2>3, <2>4 DEF Copied
  <2>5. CASE consumer = "forward"
    <3>1. Copied = IF total < Budget
                   THEN IF Budget - total <= Len(event) THEN Budget - total ELSE Len(event)
                   ELSE 0
      <4>1. Budget - total \in Int /\ Len(event) \in Int
        BY <1>1, <1>3, <2>2
      <4>2. Min({Budget - total, Len(event)})
              = IF Budget - total <= Len(event) THEN Budget - total ELSE Len(event)
        BY <4>1, MinOfTwo
      <4> QED
        BY <1>1, <2>2, <2>5, <4>2 DEF Copied, Take
    <3>2. RowsIn(uiChannel) <= IF total < Budget THEN total ELSE Budget
      <4>1. CASE forwarder = "up"
        BY <2>1, <2>3, <2>5, <4>1 DEF Due, Passed
      <4>2. CASE forwarder \in {"done", "gone"}
        <5>1. uiChannel = <<>>
          BY <2>5, <4>2 DEF PhaseInv
        <5> QED
          BY <5>1, <1>1, <2>2, RowsOfNone
      <4> QED
        BY <4>1, <4>2 DEF StreamTyped
    <3> QED
      BY ONLY <1>1, <1>3, <1>5, <2>2, <3>1, <3>2
  <2> QED
    BY <2>4, <2>5
<1>7. PICK most \in Nat : most = ChannelSize * BatchRows
  BY <1>1
<1>8. /\ BatchRows * (1 + ChannelSize) = BatchRows + most
      /\ BatchRows * (2 + ChannelSize) = 2 * BatchRows + most
  BY <1>1, <1>7
<1>9. Min({Budget, BatchRows + most}) = IF Budget <= BatchRows + most THEN Budget ELSE BatchRows + most
  BY <1>1, <1>7, MinOfTwo
<1> DEFINE page == Min({Budget, BatchRows * (1 + ChannelSize)})
           pieces == BatchRows * (2 + ChannelSize)
           sent == RowsIn(channel)
           passed == RowsIn(uiChannel)
<1>10. page \in Nat /\ passed + Copied <= page
  BY <1>1, <1>5, <1>6, <1>7, <1>8, <1>9
<1>11. /\ sent \in Nat /\ passed \in Nat /\ sent <= most /\ pieces = 2 * BatchRows + most
  BY <1>4, <1>5, <1>7, <1>8
<1> SUFFICES Len(memory) + Len(pending) + Len(batch) + Len(event) + sent + passed + Copied
               <= Budget + FlushRows + pieces + page
  BY DEF HeldRowsAreBounded, RowsHeld
<1> HIDE DEF page, pieces, sent, passed
<1> QED
  BY <1>1, <1>2, <1>3, <1>6, <1>7, <1>10, <1>11

(* "Browsing a result far larger than RAM stays flat in memory" (spill.rs 5-9): for any
   length of result, the rows held are bounded by the budget, a flush and what the
   channels and their ends hold. *)
THEOREM HeldRowsStayBounded == StreamSpec => []HeldRowsAreBounded
<1>1. StreamInit => SizesInv /\ MemoryIsBounded
  <2> SUFFICES ASSUME StreamInit PROVE MemoryIsBounded
    BY SizesInitially
  <2>1. Len(<<>>) = 0 /\ Budget \in Nat /\ FlushRows \in Nat
    BY StreamInitially, Sizes, FlushAssumption DEF StreamIInv
  <2> QED
    BY <2>1 DEF StreamInit, StoreInit, MemoryIsBounded
<1>2. StreamIInv /\ StreamIInv' /\ SizesInv /\ MemoryIsBounded /\ [StreamNext]_streamVars
        => SizesInv' /\ MemoryIsBounded'
  BY StoreStep, MemoryStep, SizesStep DEF StreamIInv
<1>3. StreamIInv /\ SizesInv /\ MemoryIsBounded => HeldRowsAreBounded
  BY PiecesAreBounded DEF StreamIInv
<1> QED
  BY <1>1, <1>2, <1>3, StreamInvariance, PTL DEF StreamSpec

\* What has ended has passed everything on.
LEMMA DoneHasAll ==
    ASSUME StreamIInv, result = "ok", forwarder = "done"
    PROVE  /\ stage = "final" /\ total = Min({yields, FetchCap}) /\ header
           /\ total \in Nat /\ Follows(shown, 0)
           /\ Len(shown) = IF total < Budget THEN total ELSE Budget
<1> USE DEF StreamIInv
<1>1. /\ fetch = "ok" /\ consumer = "done" /\ stage = "final"
      /\ columnsSent /\ batch = <<>> /\ fetched = Min({yields, FetchCap})
      /\ event = <<>> /\ channel = <<>> /\ uiChannel = <<>>
  BY DEF PhaseInv
<1>2. total \in Nat /\ Len(shown) \in Nat /\ Budget \in Nat /\ Len(<<>>) = 0 /\ fetched \in Nat
  BY Sizes DEF StoreTypeOK, StreamTyped
<1>3. total = fetched
  <2>1. PICK sent \in 0 .. fetched : Sent(sent)
    BY <1>1 DEF RowsInv
  <2>2. Linked(<<>>, total, sent) /\ sent = fetched
    BY <1>1, <1>2, <2>1 DEF Sent
  <2> QED
    BY <1>2, <2>2, LinkedNone
<1>4. Follows(shown, 0) /\ Len(shown) = IF total < Budget THEN total ELSE Budget
  <2>1. PICK due \in 0 .. fetched : Due(due)
    BY DEF PageInv
  <2>2. Linked(<<>>, Len(shown), due) /\ due = Passed
    BY <1>1, <2>1 DEF Due
  <2>3. Passed = IF total < Budget THEN total ELSE Budget
    BY <1>1 DEF Passed
  <2>4. due \in Nat
    BY <1>2
  <2>5. Len(shown) = due
    BY <1>2, <2>2, <2>4, LinkedNone
  <2> QED
    BY <2>2, <2>3, <2>5 DEF PageInv
<1>5. header
  <2>1. ~Holds(<<>>, Header)
    BY <1>2 DEF Holds
  <2> QED
    BY <1>1, <2>1 DEF HeaderInv
<1> QED
  BY <1>1, <1>2, <1>3, <1>4, <1>5

\* As many rows one after the other from the same place on are the same rows.
LEMMA RowsAreOne ==
    ASSUME NEW R, NEW r \in Seq(R), NEW S, NEW s \in Seq(S), Len(r) = Len(s), Follows(r, 0), Follows(s, 0)
    PROVE  r = s
<1>1. \A i \in 1 .. Len(r) : r[i] = s[i]
  BY DEF Follows
<1>2. DOMAIN r = 1 .. Len(r) /\ DOMAIN s = 1 .. Len(s) /\ r = [i \in DOMAIN r |-> r[i]] /\ s = [i \in DOMAIN s |-> s[i]]
  OBVIOUS
<1> QED
  BY <1>1, <1>2

\* The store never refuses a row of the stream.
LEMMA UncutStep ==
    ASSUME ~truncated, [StreamNext]_streamVars
    PROVE  ~truncated'
<1>1. ASSUME UNCHANGED storeVars PROVE ~truncated'
  BY <1>1 DEF storeVars
<1>2. CASE AppendNext \/ AppendError
  BY <1>2 DEF AppendNext, AppendError, KeepResident, Buffer, BufferAndFlush, AppendFails
<1>3. CASE Complete \/ CompleteFails \/ GiveUp \/ DropStore
  BY <1>3 DEF Complete, CompleteFails, GiveUp, DropStore, Finalize, FinalizeFails, Discard
<1>4. CASE Start \/ Refused \/ FetchColumns \/ FetchRow \/ SendBatch \/ FetchEnds
           \/ FetchCancelled \/ FetchUnheard \/ FetchReturns
  BY <1>1, <1>4 DEF Start, Refused, FetchColumns, FetchRow, SendBatch, FetchEnds,
       FetchCancelled, FetchUnheard, FetchReturns, Drop
<1>5. CASE Receive \/ ReceiveEnd \/ ForwardColumns \/ ForwardRows \/ AppendDone
           \/ Deliver \/ DeliverEnd \/ Reply
  BY <1>1, <1>5 DEF Receive, ReceiveEnd, ForwardColumns, ForwardRows, AppendDone,
       Deliver, DeliverEnd, Reply
<1>6. CASE FetchFails \/ Cancel \/ DeliverFails \/ UNCHANGED streamVars
  BY <1>1, <1>6 DEF FetchFails, Drop, Cancel, DeliverFails, streamVars
<1> QED
  BY <1>2, <1>3, <1>4, <1>5, <1>6 DEF StreamNext, Progress

\* For any budget, ceiling, batch size and channel size, however the fetch, the consumer,
\* the forwarding task and a cancellation interleave: a row that was fetched is never
\* refused by the store, and a run that replies ok has kept every row up to the cap and
\* shown the window its columns and its first page (run_query_spill_impl, runner.rs).
THEOREM StreamsStaySound == StreamSpec => []StreamIsSound
<1>1. StreamIInv /\ ~truncated => StreamIsSound
  <2> SUFFICES ASSUME StreamIInv, ~truncated PROVE StreamIsSound
    OBVIOUS
  <2> USE DEF StreamIInv
  <2>1. StreamTypeOK
    <3>1. result = "none" => reply = "none"
      BY DEF PhaseInv, StreamTyped
    <3> QED
      BY <3>1 DEF StreamTypeOK, StreamTyped
  <2>2. NothingIsRefused
    <3> SUFFICES ASSUME consumer = "append", event # <<>> PROVE ~Full
      BY DEF NothingIsRefused
    <3>1. PICK sent \in 0 .. fetched : Linked(channel, total + Len(event), sent)
      BY DEF RowsInv, Sent
    <3>2. total \in Nat /\ Len(event) \in Nat \ {0} /\ fetched \in Nat /\ channel \in Seq(Seq(1 .. MaxRows))
      BY DEF StoreTypeOK, StreamTyped
    <3>3. total + Len(event) <= sent /\ sent \in Nat
      BY <3>1, <3>2, LinkedUp
    <3>4. fetched <= FetchCap
      BY DEF RowsInv
    <3>5. total < FetchCap
      BY <3>1, <3>2, <3>3, <3>4, Sizes
    <3> QED
      BY <3>2, <3>5, Sizes DEF Full
  <2>3. DoneMeansComplete
    <3> SUFFICES ASSUME reply = "ok" PROVE /\ stage = "final" /\ total = Min({yields, FetchCap})
                                           /\ Reported <=> yields > FetchCap
                                           /\ header /\ shown = memory
      BY DEF DoneMeansComplete
    <3>1. memory \in Seq(Nat) /\ shown \in Seq(1 .. MaxRows)
      BY DEF StoreTypeOK, StreamTyped
    <3>2. result = "ok" /\ forwarder = "done"
      BY DEF StreamIInv, PhaseInv
    <3>3. Follows(memory, 0) /\ Len(memory) = IF total < Budget THEN total ELSE Budget
      BY <3>1 DEF RowsInPlace, Follows
    <3>4. shown = memory
      BY <3>2, <3>1, <3>3, DoneHasAll, RowsAreOne
    <3>5. yields \in Nat /\ fetched \in Nat /\ FetchCap \in Nat
      BY Sizes DEF StreamTyped
    <3>6. fetched = Min({yields, FetchCap})
      BY <3>2 DEF PhaseInv
    <3>7. Min({yields, FetchCap}) = IF yields <= FetchCap THEN yields ELSE FetchCap
      BY <3>5, MinOfTwo
    <3>8. Reported <=> yields > FetchCap
      BY <3>5, <3>6, <3>7 DEF Reported
    <3> QED
      BY <3>2, <3>4, <3>8, DoneHasAll
  <2> QED
    BY <2>1, <2>2, <2>3 DEF StreamIsSound
<1>2. StreamInit => ~truncated
  BY DEF StreamInit, StoreInit
<1> QED
  BY <1>1, <1>2, UncutStep, StreamInvariance, PTL DEF StreamSpec

\* The first page is as long as the statement, the budget and the ceiling let it be.
LEMMA FirstPageIs ==
    ASSUME StoreTypeOK, StreamTyped
    PROVE  \E p \in 0 .. MaxRows :
              /\ FirstPage = Nats(p) /\ p \in {yields, Budget, config.max_total_rows}
              /\ p <= yields /\ p <= Budget /\ p <= config.max_total_rows
<1> DEFINE p == Min({yields, Budget, config.max_total_rows})
<1>1. yields \in Nat /\ yields <= MaxRows /\ Budget \in Nat /\ config.max_total_rows \in Nat
  BY Sizes DEF StreamTyped
<1>2. /\ p \in {yields, Budget, config.max_total_rows}
      /\ p <= yields /\ p <= Budget /\ p <= config.max_total_rows
  <2>1. yields \in Int /\ Budget \in Int /\ config.max_total_rows \in Int
    BY <1>1
  <2> QED
    BY <2>1, MinOfThree
<1>3. FirstPage = Nats(p)
  BY DEF FirstPage
<1> HIDE DEF p
<1>4. p \in 0 .. MaxRows
  BY <1>1, <1>2
<1> QED
  BY <1>2, <1>3, <1>4

\* The rows of a page follow one another.
LEMMA NatsFollow ==
    ASSUME NEW p \in Nat
    PROVE  Nats(p) \in Seq(Nat) /\ Len(Nats(p)) = p /\ Follows(Nats(p), 0)
  BY DEF Nats, Follows

\* What the window sees of a run implements PagedResult: the first page grows row by row
\* in order, nothing is shown after the reply, and ok is only said once the page is whole
\* (db_run_query_spill, commands.rs).
THEOREM PagePromiseIsKept == StreamSpec => KeepsPagePromise
<1>1. StreamInit => Promised!Init
  <2> SUFFICES ASSUME StreamInit PROVE Promised!Init
    OBVIOUS
  <2>1. \E p \in 0 .. MaxRows : FirstPage = Nats(p)
    BY StreamInitially, FirstPageIs DEF StreamIInv
  <2> QED
    BY <2>1 DEF Promised!Init, StreamInit
<1>2. StreamIInv /\ [StreamNext]_streamVars => [Promised!Next]_(Promised!vars)
  <2> SUFFICES ASSUME StreamIInv, [StreamNext]_streamVars
               PROVE  Promised!Next \/ UNCHANGED <<FirstPage, shown, reply>>
    BY DEF Promised!vars
  <2>1. UNCHANGED FirstPage
    BY SettingsStay DEF FirstPage
  <2>2. PICK p \in 0 .. MaxRows :
              /\ FirstPage = Nats(p) /\ p \in {yields, Budget, config.max_total_rows}
              /\ p <= yields /\ p <= Budget /\ p <= config.max_total_rows
    BY FirstPageIs DEF StreamIInv
  <2>3. p \in Nat
    OBVIOUS
  <2>4. CASE Deliver
    <3>1. /\ uiChannel # <<>> /\ shown' = shown \o Head(uiChannel) /\ reply' = reply /\ forwarder = "up"
      BY <2>4 DEF Deliver
    <3>2. reply = "none"
      BY <3>1 DEF StreamIInv, PhaseInv
    <3>3. /\ shown \in Seq(1 .. MaxRows) /\ uiChannel \in Seq(Seq(1 .. MaxRows))
          /\ Head(uiChannel) \in Seq(1 .. MaxRows) /\ Len(shown) \in Nat /\ Len(Head(uiChannel)) \in Nat
      BY <3>1 DEF StreamIInv, StreamTyped
    <3>4. CASE Head(uiChannel) = <<>>
      BY <2>1, <3>1, <3>3, <3>4
    <3>5. CASE Head(uiChannel) # <<>>
      <4> DEFINE n == Len(shown) + Len(Head(uiChannel))
      <4>1. shown' \in Seq(1 .. MaxRows) /\ Len(shown') = n /\ n \in Nat /\ n > Len(shown)
        BY <3>1, <3>3, <3>5
      <4>2. Follows(shown', 0) /\ StreamIInv'
        BY StreamStep DEF StreamIInv, PageInv
      <4>3. n <= p
        <5>1. PICK due \in 0 .. fetched' : Due(due)'
          BY <4>2 DEF StreamIInv, PageInv
        <5>2. Linked(uiChannel', n, due) /\ due <= Budget /\ uiChannel' \in Seq(Seq(1 .. MaxRows))
              /\ fetched' = fetched /\ fetched \in Nat /\ fetched <= yields /\ fetched <= FetchCap
          BY <4>1, <4>2, <5>1, <2>4, SettingsStay DEF Due, Deliver, fetchVars, StreamIInv, StreamTyped, RowsInv
        <5>3. n <= due /\ due \in Nat
          BY <4>1, <5>1, <5>2, LinkedUp
        <5>4. FetchCap <= config.max_total_rows /\ FetchCap \in Nat /\ Budget \in Nat
              /\ config.max_total_rows \in Nat /\ yields \in Nat
          BY Sizes DEF StreamIInv, StreamTyped
        <5> HIDE DEF n
        <5> QED
          BY <2>2, <2>3, <4>1, <5>1, <5>2, <5>3, <5>4
      <4> HIDE DEF n
      <4>4. Nats(p) \in Seq(Nat) /\ Len(Nats(p)) = p /\ Follows(Nats(p), 0)
        BY <2>3, NatsFollow
      <4>5. n \in 0 .. Len(Nats(p)) /\ 0 \in Nat
        BY <2>3, <4>1, <4>3, <4>4
      <4>6. LET part == SubSeq(Nats(p), 1, n)
            IN  part \in Seq(Nat) /\ Len(part) = n /\ Follows(part, 0)
        BY <4>4, <4>5, FollowsPart
      <4>7. shown' = SubSeq(FirstPage, 1, n)
        BY <2>2, <4>1, <4>2, <4>6, RowsAreOne
      <4>8. n \in Len(shown) + 1 .. Len(FirstPage)
        BY <2>2, <2>3, <3>3, <4>1, <4>3, <4>4
      <4> QED
        BY <2>1, <3>1, <3>2, <4>7, <4>8 DEF Promised!Next, Promised!Grow
    <3> QED
      BY <3>4, <3>5
  <2>5. CASE Reply
    <3>1. reply = "none" /\ shown' = shown /\ reply' \in {"ok", "error"}
          /\ (reply' = "ok" => result = "ok" /\ forwarder' = forwarder)
      <4>1. result # "none" /\ result \in {"none", "ok", "error"}
        BY <2>5 DEF Reply, StreamIInv, StreamTyped
      <4> QED
        BY <2>5, <4>1 DEF Reply, uiVars
    <3>2. CASE reply' = "error"
      BY <2>1, <3>1, <3>2 DEF Promised!Next, Promised!Fail
    <3>3. CASE reply' = "ok"
      <4>1. result = "ok" /\ forwarder = "done" /\ shown' = shown
        BY <2>5, <3>1, <3>3 DEF Reply, StreamIInv, StreamTyped
      <4>2. /\ total = Min({yields, FetchCap}) /\ Follows(shown, 0)
            /\ Len(shown) = IF total < Budget THEN total ELSE Budget
        BY <4>1, DoneHasAll
      <4>3. /\ yields \in Nat /\ Budget \in Nat /\ FetchCap \in Nat /\ config.max_total_rows \in Nat
            /\ FetchCap <= config.max_total_rows /\ FetchCap \in {Budget, config.max_total_rows}
        BY Sizes DEF StreamIInv, StreamTyped
      <4>4. Min({yields, FetchCap}) = IF yields <= FetchCap THEN yields ELSE FetchCap
        BY <4>3, MinOfTwo
      <4>5. Len(shown) = p
        BY <2>2, <2>3, <4>2, <4>3, <4>4
      <4>6. shown \in Seq(1 .. MaxRows)
        BY DEF StreamIInv, StreamTyped
      <4>7. shown = FirstPage
        BY <2>2, <2>3, <4>2, <4>5, <4>6, NatsFollow, RowsAreOne
      <4> QED
        BY <2>1, <3>1, <3>3, <4>7 DEF Promised!Next, Promised!Done
    <3> QED
      BY <3>1, <3>2, <3>3
  <2>6. CASE ~Deliver /\ ~Reply
    <3>1. UNCHANGED <<shown, reply>>
      <4> HIDE DEF StreamIInv
      <4>1. CASE UNCHANGED streamVars
        BY <4>1 DEF streamVars, uiVars
      <4>2. CASE Start \/ Refused \/ FetchColumns \/ FetchRow \/ SendBatch \/ FetchEnds
                 \/ FetchCancelled \/ FetchUnheard \/ FetchReturns
        BY <4>2 DEF Start, Refused, FetchColumns, FetchRow, SendBatch, FetchEnds,
             FetchCancelled, FetchUnheard, FetchReturns, Drop, uiVars
      <4>3. CASE Receive \/ ReceiveEnd \/ ForwardColumns \/ ForwardRows
                 \/ AppendNext \/ AppendDone \/ AppendError
        BY <4>3 DEF Receive, ReceiveEnd, ForwardColumns, ForwardRows, AppendNext, AppendDone,
             AppendError, uiVars
      <4>4. CASE DeliverEnd \/ Complete \/ CompleteFails \/ GiveUp \/ DropStore
        BY <4>4 DEF DeliverEnd, Complete, CompleteFails, GiveUp, DropStore, uiVars
      <4>5. CASE FetchFails \/ Cancel \/ DeliverFails
        BY <4>5 DEF FetchFails, Drop, Cancel, DeliverFails, uiVars
      <4> QED
        BY <2>6, <4>1, <4>2, <4>3, <4>4, <4>5 DEF StreamNext, Progress
    <3> QED
      BY <2>1, <3>1
  <2> QED
    BY <2>4, <2>5, <2>6
<1> QED
  BY <1>1, <1>2, StreamInvariance, PTL DEF StreamSpec, KeepsPagePromise, Promised!Spec

-----------------------------------------------------------------------------
(* The registry of the stores.  Each conjunct of its inductive invariant   *)
(* has a lemma of its own, with one step per action.                       *)

USE SomeConn, NoneIsNothing, Distinct
USE DEF InFlight, Of, InHand

(* A step keeps every variable in its type. *)
LEMMA RegistryTypeStep ==
    ASSUME TypeOK, [Next]_vars
    PROVE  TypeOK'
<1>1. ASSUME NEW c \in Conns, Connect(c) PROVE TypeOK'
  BY <1>1 DEF Connect, TypeOK
<1>2. ASSUME NEW s \in Stores, NEW c \in Conns, StartRun(s, c) PROVE TypeOK'
  BY <1>2 DEF StartRun, TypeOK
<1>3. ASSUME NEW s \in Stores, RunFails(s) PROVE TypeOK'
  BY <1>3 DEF RunFails, TypeOK
<1>4. ASSUME NEW s \in Stores, Number(s) PROVE TypeOK'
  BY <1>4 DEF Number, TypeOK
<1>5. ASSUME NEW s \in Stores, Register(s) PROVE TypeOK'
  BY <1>5 DEF Register, TypeOK
<1>6. ASSUME NEW s \in Stores, RegisterAndEvict(s) PROVE TypeOK'
  BY <1>6 DEF RegisterAndEvict, TypeOK
<1>7. ASSUME NEW s \in Stores, CloseEvicted(s) PROVE TypeOK'
  BY <1>7 DEF CloseEvicted, TypeOK
<1>8. ASSUME NEW k \in Commands, BeginRead(k) PROVE TypeOK'
  BY <1>8 DEF BeginRead, TypeOK
<1>9. ASSUME NEW k \in Commands, EndRead(k) PROVE TypeOK'
  BY <1>9 DEF EndRead, TypeOK
<1>10. ASSUME NEW k \in Commands, ReleaseAllOf(k) PROVE TypeOK'
  BY <1>10 DEF ReleaseAllOf, TypeOK
<1>11. ASSUME NEW k \in Commands, CloseTaken(k) PROVE TypeOK'
  BY <1>11 DEF CloseTaken, TypeOK
<1>12. ASSUME NEW k \in Commands, EndClosing(k) PROVE TypeOK'
  BY <1>12 DEF EndClosing, TypeOK
<1>13. ASSUME NEW k \in Commands, NEW s \in Stores, FindStore(k, s) PROVE
       TypeOK'
  BY <1>13 DEF FindStore, TypeOK
<1>14. ASSUME NEW k \in Commands, NEW s \in Stores, Release(k, s) PROVE TypeOK'
  BY <1>14 DEF Release, TypeOK
<1>15. ASSUME NEW k \in Commands, NEW c \in Conns, StartDisconnect(k, c) PROVE
       TypeOK'
  BY <1>15 DEF StartDisconnect, TypeOK
<1>16. CASE UNCHANGED vars
  BY <1>16 DEF vars, TypeOK
<1> QED
  BY <1>1, <1>2, <1>3, <1>4, <1>5, <1>6, <1>7, <1>8, <1>9, <1>10, <1>11,
         <1>12, <1>13, <1>14, <1>15, <1>16 DEF Next, Finish, Continue

(* A store stays in one place. *)
LEMMA PlaceStep ==
    ASSUME TypeOK, PlaceInv, [Next]_vars
    PROVE  PlaceInv'
<1>1. ASSUME NEW c \in Conns, Connect(c) PROVE PlaceInv'
  BY <1>1 DEF Connect, TypeOK, PlaceInv
<1>2. ASSUME NEW s \in Stores, NEW c \in Conns, StartRun(s, c) PROVE PlaceInv'
  BY <1>2 DEF StartRun, TypeOK, PlaceInv
<1>3. ASSUME NEW s \in Stores, RunFails(s) PROVE PlaceInv'
  BY <1>3 DEF RunFails, TypeOK, PlaceInv
<1>4. ASSUME NEW s \in Stores, Number(s) PROVE PlaceInv'
  BY <1>4 DEF Number, TypeOK, PlaceInv
<1>5. ASSUME NEW s \in Stores, Register(s) PROVE PlaceInv'
  BY <1>5 DEF Register, TypeOK, PlaceInv
<1>6. ASSUME NEW s \in Stores, RegisterAndEvict(s) PROVE PlaceInv'
  BY <1>6 DEF RegisterAndEvict, TypeOK, PlaceInv
<1>7. ASSUME NEW s \in Stores, CloseEvicted(s) PROVE PlaceInv'
  BY <1>7 DEF CloseEvicted, TypeOK, PlaceInv
<1>8. ASSUME NEW k \in Commands, BeginRead(k) PROVE PlaceInv'
  BY <1>8 DEF BeginRead, TypeOK, PlaceInv
<1>9. ASSUME NEW k \in Commands, EndRead(k) PROVE PlaceInv'
  BY <1>9 DEF EndRead, TypeOK, PlaceInv
<1>10. ASSUME NEW k \in Commands, ReleaseAllOf(k) PROVE PlaceInv'
  BY <1>10 DEF ReleaseAllOf, TypeOK, PlaceInv
<1>11. ASSUME NEW k \in Commands, CloseTaken(k) PROVE PlaceInv'
  BY <1>11 DEF CloseTaken, TypeOK, PlaceInv
<1>12. ASSUME NEW k \in Commands, EndClosing(k) PROVE PlaceInv'
  BY <1>12 DEF EndClosing, TypeOK, PlaceInv
<1>13. ASSUME NEW k \in Commands, NEW s \in Stores, FindStore(k, s) PROVE
       PlaceInv'
  BY <1>13 DEF FindStore, TypeOK, PlaceInv
<1>14. ASSUME NEW k \in Commands, NEW s \in Stores, Release(k, s) PROVE
       PlaceInv'
  BY <1>14 DEF Release, TypeOK, PlaceInv
<1>15. ASSUME NEW k \in Commands, NEW c \in Conns, StartDisconnect(k, c) PROVE
       PlaceInv'
  BY <1>15 DEF StartDisconnect, TypeOK, PlaceInv
<1>16. CASE UNCHANGED vars
  BY <1>16 DEF vars, TypeOK, PlaceInv
<1> QED
  BY <1>1, <1>2, <1>3, <1>4, <1>5, <1>6, <1>7, <1>8, <1>9, <1>10, <1>11,
         <1>12, <1>13, <1>14, <1>15, <1>16 DEF Next, Finish, Continue

(* A store that leaves the registry is in the hands of the command that took
   it. *)
LEMMA LeakStep ==
    ASSUME TypeOK, PlaceInv, NoStoreLeaks, [Next]_vars
    PROVE  NoStoreLeaks'
<1>1. ASSUME NEW c \in Conns, Connect(c) PROVE NoStoreLeaks'
  BY <1>1 DEF Connect, TypeOK, PlaceInv, NoStoreLeaks
<1>2. ASSUME NEW s \in Stores, NEW c \in Conns, StartRun(s, c) PROVE
       NoStoreLeaks'
  BY <1>2 DEF StartRun, TypeOK, PlaceInv, NoStoreLeaks
<1>3. ASSUME NEW s \in Stores, RunFails(s) PROVE NoStoreLeaks'
  BY <1>3 DEF RunFails, TypeOK, PlaceInv, NoStoreLeaks
<1>4. ASSUME NEW s \in Stores, Number(s) PROVE NoStoreLeaks'
  BY <1>4 DEF Number, TypeOK, PlaceInv, NoStoreLeaks
<1>5. ASSUME NEW s \in Stores, Register(s) PROVE NoStoreLeaks'
  BY <1>5 DEF Register, TypeOK, PlaceInv, NoStoreLeaks
<1>6. ASSUME NEW s \in Stores, RegisterAndEvict(s) PROVE NoStoreLeaks'
  BY <1>6 DEF RegisterAndEvict, TypeOK, PlaceInv, NoStoreLeaks
<1>7. ASSUME NEW s \in Stores, CloseEvicted(s) PROVE NoStoreLeaks'
  BY <1>7 DEF CloseEvicted, TypeOK, PlaceInv, NoStoreLeaks
<1>8. ASSUME NEW k \in Commands, BeginRead(k) PROVE NoStoreLeaks'
  BY <1>8 DEF BeginRead, TypeOK, PlaceInv, NoStoreLeaks
<1>9. ASSUME NEW k \in Commands, EndRead(k) PROVE NoStoreLeaks'
  BY <1>9 DEF EndRead, TypeOK, PlaceInv, NoStoreLeaks
<1>10. ASSUME NEW k \in Commands, ReleaseAllOf(k) PROVE NoStoreLeaks'
  BY <1>10 DEF ReleaseAllOf, TypeOK, PlaceInv, NoStoreLeaks
<1>11. ASSUME NEW k \in Commands, CloseTaken(k) PROVE NoStoreLeaks'
  BY <1>11 DEF CloseTaken, TypeOK, PlaceInv, NoStoreLeaks
<1>12. ASSUME NEW k \in Commands, EndClosing(k) PROVE NoStoreLeaks'
  BY <1>12 DEF EndClosing, TypeOK, PlaceInv, NoStoreLeaks
<1>13. ASSUME NEW k \in Commands, NEW s \in Stores, FindStore(k, s) PROVE
       NoStoreLeaks'
  BY <1>13 DEF FindStore, TypeOK, PlaceInv, NoStoreLeaks
<1>14. ASSUME NEW k \in Commands, NEW s \in Stores, Release(k, s) PROVE
       NoStoreLeaks'
  BY <1>14 DEF Release, TypeOK, PlaceInv, NoStoreLeaks
<1>15. ASSUME NEW k \in Commands, NEW c \in Conns, StartDisconnect(k, c) PROVE
       NoStoreLeaks'
  BY <1>15 DEF StartDisconnect, TypeOK, PlaceInv, NoStoreLeaks
<1>16. CASE UNCHANGED vars
  BY <1>16 DEF vars, TypeOK, PlaceInv, NoStoreLeaks
<1> QED
  BY <1>1, <1>2, <1>3, <1>4, <1>5, <1>6, <1>7, <1>8, <1>9, <1>10, <1>11,
         <1>12, <1>13, <1>14, <1>15, <1>16 DEF Next, Finish, Continue

(* A run that outlives the release of the results of its connection is late. *)
LEMMA LateStep ==
    ASSUME TypeOK, PlaceInv, LateInv, [Next]_vars
    PROVE  LateInv'
<1>1. ASSUME NEW c \in Conns, Connect(c) PROVE LateInv'
  BY <1>1 DEF Connect, TypeOK, PlaceInv, LateInv
<1>2. ASSUME NEW s \in Stores, NEW c \in Conns, StartRun(s, c) PROVE LateInv'
  BY <1>2 DEF StartRun, TypeOK, PlaceInv, LateInv
<1>3. ASSUME NEW s \in Stores, RunFails(s) PROVE LateInv'
  BY <1>3 DEF RunFails, TypeOK, PlaceInv, LateInv
<1>4. ASSUME NEW s \in Stores, Number(s) PROVE LateInv'
  BY <1>4 DEF Number, TypeOK, PlaceInv, LateInv
<1>5. ASSUME NEW s \in Stores, Register(s) PROVE LateInv'
  BY <1>5 DEF Register, TypeOK, PlaceInv, LateInv
<1>6. ASSUME NEW s \in Stores, RegisterAndEvict(s) PROVE LateInv'
  BY <1>6 DEF RegisterAndEvict, TypeOK, PlaceInv, LateInv
<1>7. ASSUME NEW s \in Stores, CloseEvicted(s) PROVE LateInv'
  BY <1>7 DEF CloseEvicted, TypeOK, PlaceInv, LateInv
<1>8. ASSUME NEW k \in Commands, BeginRead(k) PROVE LateInv'
  BY <1>8 DEF BeginRead, TypeOK, PlaceInv, LateInv
<1>9. ASSUME NEW k \in Commands, EndRead(k) PROVE LateInv'
  BY <1>9 DEF EndRead, TypeOK, PlaceInv, LateInv
<1>10. ASSUME NEW k \in Commands, ReleaseAllOf(k) PROVE LateInv'
  BY <1>10 DEF ReleaseAllOf, TypeOK, PlaceInv, LateInv
<1>11. ASSUME NEW k \in Commands, CloseTaken(k) PROVE LateInv'
  BY <1>11 DEF CloseTaken, TypeOK, PlaceInv, LateInv
<1>12. ASSUME NEW k \in Commands, EndClosing(k) PROVE LateInv'
  BY <1>12 DEF EndClosing, TypeOK, PlaceInv, LateInv
<1>13. ASSUME NEW k \in Commands, NEW s \in Stores, FindStore(k, s) PROVE
       LateInv'
  BY <1>13 DEF FindStore, TypeOK, PlaceInv, LateInv
<1>14. ASSUME NEW k \in Commands, NEW s \in Stores, Release(k, s) PROVE
       LateInv'
  BY <1>14 DEF Release, TypeOK, PlaceInv, LateInv
<1>15. ASSUME NEW k \in Commands, NEW c \in Conns, StartDisconnect(k, c) PROVE
       LateInv'
  BY <1>15 DEF StartDisconnect, TypeOK, PlaceInv, LateInv
<1>16. CASE UNCHANGED vars
  BY <1>16 DEF vars, TypeOK, PlaceInv, LateInv
<1> QED
  BY <1>1, <1>2, <1>3, <1>4, <1>5, <1>6, <1>7, <1>8, <1>9, <1>10, <1>11,
         <1>12, <1>13, <1>14, <1>15, <1>16 DEF Next, Finish, Continue

-----------------------------------------------------------------------------
\* The invariant holds in every state.
LEMMA RegistryInvariance == Spec => []IInv
<1>1. Init => IInv
  BY DEF Init, IInv, TypeOK, PlaceInv, NoStoreLeaks, LateInv
<1>2. IInv /\ [Next]_vars => IInv'
  BY RegistryTypeStep, PlaceStep, LeakStep, LateStep DEF IInv
<1> QED
  BY <1>1, <1>2, PTL DEF Spec

(* Every variable of ResultRegistry keeps its type. *)
THEOREM RegistryTypeCorrect == Spec => []TypeOK
BY RegistryInvariance, PTL DEF IInv

(* A result that can be found in the registry has not been closed. *)
THEOREM RetainedStayOpen == Spec => []RetainedAreOpen
<1>1. IInv => RetainedAreOpen
  BY DEF IInv, PlaceInv, RetainedAreOpen
<1> QED
  BY <1>1, RegistryInvariance, PTL

(* No open store is lost by the registry and by every command. *)
THEOREM StoresDoNotLeak == Spec => []NoStoreLeaks
BY RegistryInvariance, PTL DEF IInv

(* What a disconnect leaves behind is the results of runs that were still under
   way when it released the others. *)
THEOREM OnlyLateRunsRemain == Spec => []OnlyLateResultsRemain
<1>1. IInv => OnlyLateResultsRemain
  BY DEF IInv, TypeOK, LateInv, OnlyLateResultsRemain
<1> QED
  BY <1>1, RegistryInvariance, PTL

-----------------------------------------------------------------------------
(* The bound, which is inductive with the finiteness of the registry. *)
Bounded == IsFiniteSet(results) /\ RetainedAreBounded

\* A registry that loses results stays bounded,
LEMMA FewerStayBounded ==
    ASSUME Bounded, results' \subseteq results
    PROVE  Bounded'
BY FS_Subset, FS_CardinalityType, MaxAssumption DEF Bounded, RetainedAreBounded

\* and one that takes a result in evicts another when it is full.
LEMMA BoundStep ==
    ASSUME TypeOK, Bounded, [Next]_vars
    PROVE  Bounded'
<1>1. ASSUME NEW s \in Stores, Register(s) PROVE Bounded'
  BY <1>1, FS_AddElement DEF Register, Bounded, RetainedAreBounded
<1>2. ASSUME NEW s \in Stores, RegisterAndEvict(s) PROVE Bounded'
  <2>1. PICK o \in results \cup {s} : results' = (results \cup {s}) \ {o}
    BY <1>2 DEF RegisterAndEvict
  <2>2. /\ IsFiniteSet(results \cup {s})
        /\ Cardinality(results \cup {s}) <= MaxRetained + 1
    <3>1. Cardinality(results) \in Nat /\ Cardinality(results) <= MaxRetained
      BY FS_CardinalityType DEF Bounded, RetainedAreBounded
    <3>2. /\ IsFiniteSet(results \cup {s})
          /\ Cardinality(results \cup {s}) =
               IF s \in results THEN Cardinality(results) ELSE
                      Cardinality(results) + 1
      BY FS_AddElement DEF Bounded
    <3> QED
      BY <3>1, <3>2, MaxAssumption
  <2>3. /\ IsFiniteSet(results')
        /\ Cardinality(results') = Cardinality(results \cup {s}) - 1
    BY <2>1, <2>2, FS_RemoveElement
  <2> QED
    BY <2>2, <2>3, FS_CardinalityType, MaxAssumption DEF Bounded,
           RetainedAreBounded
<1>3. ASSUME NEW s \in Stores, RunFails(s) \/ Number(s) \/ CloseEvicted(s)
      PROVE  results' = results
  BY <1>3 DEF RunFails, Number, CloseEvicted
<1>4. ASSUME NEW s \in Stores, NEW c \in Conns, StartRun(s, c) \/ Connect(c)
      PROVE  results' = results
  BY <1>4 DEF StartRun, Connect
<1>5. ASSUME NEW k \in Commands, Continue(k) PROVE results' \subseteq results
  BY <1>5 DEF Continue, BeginRead, EndRead, ReleaseAllOf, CloseTaken,
         EndClosing
<1>6. ASSUME NEW k \in Commands, NEW s \in Stores, FindStore(k, s) \/
       Release(k, s)
      PROVE  results' \subseteq results
  BY <1>6 DEF FindStore, Release
<1>7. ASSUME NEW k \in Commands, NEW c \in Conns, StartDisconnect(k, c)
      PROVE  results' = results
  BY <1>7 DEF StartDisconnect
<1>8. ASSUME NEW c \in Conns, Connect(c) PROVE results' = results
  BY <1>8 DEF Connect
<1>9. CASE UNCHANGED vars
  BY <1>9, FewerStayBounded DEF vars
<1> QED
  BY <1>1, <1>2, <1>3, <1>4, <1>5, <1>6, <1>7, <1>8, <1>9, FewerStayBounded
     DEF Next, Finish

(* The registry never holds more than the bound, whatever the order in which
   runs end. *)
THEOREM RetainedStayBounded == Spec => []RetainedAreBounded
<1>1. Init => Bounded
  BY FS_EmptySet, MaxAssumption DEF Init, Bounded, RetainedAreBounded
<1>2. Bounded => RetainedAreBounded
  BY DEF Bounded
<1>3. Spec => []TypeOK
  BY RegistryTypeCorrect
<1> QED
  BY <1>1, <1>2, <1>3, BoundStep, PTL DEF Spec

(* The four together. *)
THEOREM RegistriesAreSound == Spec => []RegistryIsSound
<1>1. /\ RetainedAreOpen /\ NoStoreLeaks /\ RetainedAreBounded
      /\ OnlyLateResultsRemain
      => RegistryIsSound
  BY DEF RegistryIsSound
<1> QED
  BY <1>1, RetainedStayOpen, StoresDoNotLeak, RetainedStayBounded, OnlyLateRunsRemain, PTL
=============================================================================
