---------------------------- MODULE ResultStore ----------------------------
(***************************************************************************)
(* The store behind one large result (db/spill.rs): the first rows stay in *)
(* memory, the others are buffered and written, a batch at a time, to a    *)
(* temporary SQLite file.  The operators below are the store's methods;    *)
(* ResultStream drives them.                                               *)
(***************************************************************************)
EXTENDS Integers, SequencesExt, Positions

CONSTANTS Configs,        (* the SpillConfigs a run may ask for            *)
          FlushRows       (* SPILL_FLUSH_ROWS                              *)

ASSUME ConfigsAssumption ==
    Configs \subseteq [memory_budget : Nat \ {0}, offload_enabled : BOOLEAN,
                       max_total_rows : Nat \ {0}]
ASSUME FlushAssumption == FlushRows \in Nat \ {0}

VARIABLES
    config,     (* SpillConfig                                             *)
    memory,     (* the resident rows                                       *)
    total,      (* rows accepted                                           *)
    truncated,  (* ResultStore::truncated                                  *)
    given,      (* rows handed to append, the refused ones with the others *)
    pending,    (* rows waiting for a flush; they follow the last on disk  *)
    disk,       (* [index -> row], the rows of the file                    *)
    spill,      (* is the file open?                                       *)
    file,       (* "none"; "there", to be removed with the store; "left"   *)
                (* on the disk for good                                    *)
    stage       (* "filling", "final", "failed", "gone"                    *)

storeVars ==
    <<config, memory, total, truncated, given, pending, disk, spill, file, stage>>

Budget == config.memory_budget

(* SpillConfig::fetch_cap *)
FetchCap ==
    IF config.offload_enabled THEN config.max_total_rows
    ELSE Min({Budget, config.max_total_rows})

StoreInit ==
    /\ config \in Configs
    /\ memory = <<>>
    /\ total = 0
    /\ truncated = FALSE
    /\ given = 0
    /\ pending = <<>>
    /\ disk = <<>>
    /\ spill = FALSE
    /\ file = "none"
    /\ stage = "filling"

(* The rows rs from index i on, added to the table d. *)
Insert(d, i, rs) ==
    [j \in DOMAIN d \cup i .. i + Len(rs) - 1 |->
        IF j \in DOMAIN d THEN d[j] ELSE rs[j - i + 1]]

-----------------------------------------------------------------------------
(* flush: the rows rs, the last of the first n accepted, go to the file. *)
FlushOk(rs, n) ==
    /\ disk' = Insert(disk, n - Len(rs), rs)
    /\ pending' = <<>>
    /\ spill' = TRUE
    /\ file' = "there"

(* ensure_spill fails to open a file, or to create the table in the one it has
   made, which nothing removes then; or the write fails, when the rows have been
   taken out of the buffer already. *)
FlushFails(rs) ==
    /\ \/ ~spill /\ pending' = rs /\ file' \in {file, "left"} /\ UNCHANGED spill
       \/ pending' = <<>> /\ spill' = TRUE /\ file' = "there"
    /\ stage' = "failed"
    /\ UNCHANGED disk

(* Mutated: off by one. *)
FullLate ==
    \/ total > config.max_total_rows
    \/ total >= Budget /\ ~config.offload_enabled

Full ==
    \/ total >= config.max_total_rows
    \/ total >= Budget /\ ~config.offload_enabled

(* append, one row of the batch at a time. *)
Refuse ==
    /\ stage = "filling"
    /\ Full
    /\ truncated' = TRUE
    /\ given' = given + 1
    /\ UNCHANGED <<config, memory, total, pending, disk, spill, file, stage>>

KeepResident(row) ==
    /\ stage = "filling"
    /\ ~Full
    /\ total < Budget
    /\ memory' = Append(memory, row)
    /\ total' = total + 1
    /\ given' = given + 1
    /\ UNCHANGED <<config, truncated, pending, disk, spill, file, stage>>

Overflows == stage = "filling" /\ ~Full /\ total >= Budget

Buffer(row) ==
    /\ Overflows
    /\ Len(pending) + 1 < FlushRows
    /\ pending' = Append(pending, row)
    /\ total' = total + 1
    /\ given' = given + 1
    /\ UNCHANGED <<config, memory, truncated, disk, spill, file, stage>>

BufferAndFlush(row) ==
    /\ Overflows
    /\ Len(pending) + 1 >= FlushRows
    /\ FlushOk(Append(pending, row), total + 1)
    /\ total' = total + 1
    /\ given' = given + 1
    /\ UNCHANGED <<config, memory, truncated, stage>>

AppendFails(row) ==
    /\ Overflows
    /\ Len(pending) + 1 >= FlushRows
    /\ FlushFails(Append(pending, row))
    /\ given' = given + 1
    /\ UNCHANGED <<config, memory, total, truncated>>

(* Mutated: the rows still buffered are not written. *)
FinalizeOnly ==
    /\ stage = "filling"
    /\ stage' = "final"
    /\ UNCHANGED <<config, memory, total, truncated, given, pending, disk, spill, file>>

(* finalize *)
Finalize ==
    /\ stage = "filling"
    /\ stage' = "final"
    /\ IF pending = <<>> THEN UNCHANGED <<disk, pending, spill, file>>
                         ELSE FlushOk(pending, total)
    /\ UNCHANGED <<config, memory, total, truncated, given>>

FinalizeFails ==
    /\ stage = "filling"
    /\ pending # <<>>
    /\ FlushFails(pending)
    /\ UNCHANGED <<config, memory, total, truncated, given>>

(* close, and drop: the file goes with the store that has it open, unless it
   cannot be removed, which is passed over. *)
Discard ==
    /\ stage # "gone"
    /\ stage' = "gone"
    /\ spill' = FALSE
    /\ IF spill THEN file' \in {"none", "left"} ELSE UNCHANGED file
    /\ UNCHANGED <<config, memory, total, truncated, given, pending, disk>>

-----------------------------------------------------------------------------
(* window: the rows from offset on, at most limit of them; the resident ones
   from memory, the others in the order of their index from the file.  It fails
   where it needs the file and the file is not open. *)
WindowEnd(offset, limit) == Min({offset + limit, total})

WindowFails(offset, limit) ==
    ~spill /\ Max({offset, Len(memory)}) < WindowEnd(offset, limit)

Window(offset, limit) ==
    LET end == WindowEnd(offset, limit)
        first == Max({offset, Len(memory)})
        order == Ascending({i \in DOMAIN disk : first <= i /\ i < end})
    IN  SubSeq(memory, offset + 1, Min({end, Len(memory)}))
            \o [n \in DOMAIN order |-> disk[order[n]]]

-----------------------------------------------------------------------------
(* A store by itself, given the rows 1, 2, 3 and so on. *)
CONSTANT MaxRows   (* bound: rows a statement yields *)

NextRow == given + 1

StoreNext ==
    \/ /\ NextRow <= MaxRows
       /\ \/ Refuse \/ KeepResident(NextRow) \/ Buffer(NextRow)
          \/ BufferAndFlush(NextRow) \/ AppendFails(NextRow)
    \/ Finalize
    \/ FinalizeFails
    \/ Discard

StoreSpec == StoreInit /\ [][StoreNext]_storeVars

-----------------------------------------------------------------------------
(* Properties *)

Nats(n) == [i \in 1 .. n |-> i]

StoreTypeOK ==
    /\ config \in Configs
    /\ memory \in Seq(Nat)
    /\ total \in Nat
    /\ truncated \in BOOLEAN
    /\ given \in Nat
    /\ pending \in Seq(Nat)
    /\ DOMAIN disk \subseteq Budget .. total - 1
    /\ spill \in BOOLEAN
    /\ file \in {"none", "there", "left"}
    /\ stage \in {"filling", "final", "failed", "gone"}

(* A page of a finished result is the rows that were accepted, in their order,
   wherever the boundary between memory and file falls; after the file is gone
   it is that or an error, never other rows (spill.rs 228-268). *)
WindowsAreExact ==
    stage \in {"final", "gone"} =>
        \A offset \in 0 .. total, limit \in 0 .. total + 1 :
            IF WindowFails(offset, limit)
            THEN stage = "gone"
            ELSE Window(offset, limit)
                    = SubSeq(Nats(total), offset + 1, WindowEnd(offset, limit))

(* What stays in memory does not grow with the result: "the resident `Vec`
   never grows past the budget", and the buffer holds one flush at most. *)
MemoryIsBounded == Len(memory) <= Budget /\ Len(pending) <= FlushRows

(* While rows come, and of the finished result: the store keeps every row up to
   the ceiling of its configuration and none past it, and says that it was cut
   exactly when it was given more (spill.rs 120-148).  Without offload it makes
   no file. *)
CutIsReported ==
    /\ total <= FetchCap
    /\ stage \in {"filling", "final"} =>
        total = Min({given, FetchCap}) /\ (truncated <=> given > FetchCap)
    /\ ~config.offload_enabled => file = "none"

(* The file a store writes is open for as long as the store is there and not
   after: a store that is gone leaves a file only where the table could not be
   made in it, or where removing it failed (spill.rs 195-216, 273-300). *)
FileGoesWithStore ==
    /\ file = "there" <=> spill
    /\ stage = "gone" => ~spill

(* The inductive strengthening of the above: the row at index i is row i + 1,
   in memory, in the file or in the buffer, with no index missing between. *)
RowsInPlace ==
    /\ Len(memory) = IF total < Budget THEN total ELSE Budget
    /\ \A i \in 1 .. Len(memory) : memory[i] = i
    /\ stage \in {"filling", "final"} =>
        /\ DOMAIN disk = Budget .. total - Len(pending) - 1
        /\ \A i \in DOMAIN disk : disk[i] = i + 1
        /\ \A n \in 1 .. Len(pending) : pending[n] = total - Len(pending) + n
        /\ Len(pending) <= IF total > Budget THEN total - Budget ELSE 0
        /\ Len(pending) < FlushRows
        /\ DOMAIN disk # {} => spill
    /\ stage = "final" => pending = <<>>

(* No row is passed over while there is room. *)
NonePassedOver == stage = "filling" => given = total \/ Full

(* What a store promises while it is filled, read and dropped, whatever fails:
   every row has its place, memory stays bounded, the cut is where the
   configuration says and is told, and the file goes with the store unless the
   disk refuses (spill.rs 120-300). *)
StoreIsSound == RowsInPlace /\ MemoryIsBounded /\ CutIsReported /\ FileGoesWithStore
=============================================================================
