---------------------------- MODULE ResultStream ----------------------------
(***************************************************************************)
(* A run that keeps its whole result (db_run_query_spill, runner.rs        *)
(* 277-489): the fetch reads rows from the driver and sends them in        *)
(* batches to the consumer, which passes the first page on to the window   *)
(* and puts every row into the store; the command forwards the page to the *)
(* window.  All three run at once, over channels of fixed size, while the  *)
(* run may be cancelled or time out, the store fail and the window go.     *)
(*                                                                         *)
(* One result set; its rows are 1, 2, 3 and so on.  An event is a batch of *)
(* rows, and the empty sequence is the column header, since no empty batch *)
(* is ever sent.                                                           *)
(***************************************************************************)
EXTENDS ResultStore

CONSTANTS BatchRows,    (* STREAM_BATCH_ROWS                               *)
          ChannelSize   (* both channels hold this many events             *)

ASSUME SizesAssumption ==
    BatchRows \in Nat \ {0} /\ ChannelSize \in Nat \ {0} /\ MaxRows \in Nat

VARIABLES
    yields,       (* how many rows the statement has                       *)
    fetch,        (* "idle"; "fetching"; then "ok" or "error"              *)
    returned,     (* has the fetch given its result back, and its sender?  *)
    columnsSent,
    batch,
    fetched,      (* row_count of stream_capped                            *)
    channel,      (* fetch to consumer                                     *)
    consumer,     (* "receive", "forward", "append", "done", "failed"      *)
    event,        (* what the consumer has in hand                         *)
    seen,         (* set0_seen                                             *)
    uiChannel,    (* consumer to window                                    *)
    forwarder,    (* "up"; "done"; "gone" once the window is               *)
    header,       (* has the window seen the columns?                      *)
    shown,        (* the rows the window has seen                          *)
    registered,   (* is the token in DbState.cancels?                      *)
    cancelled,    (* is the token cancelled?                               *)
    answer,       (* what db_cancel said: "none", "true", "false"          *)
    result,       (* of run_query_spill_impl: "none", "ok", "error"        *)
    reply         (* of the command                                        *)

fetchVars == <<fetch, returned, columnsSent, batch, fetched>>
consumerVars == <<consumer, event, seen>>
uiVars == <<uiChannel, forwarder, header, shown>>
cancelVars == <<registered, cancelled, answer>>
streamVars == <<storeVars, yields, fetchVars, channel, consumerVars, uiVars,
                cancelVars, result, reply>>

Header == <<>>

StreamInit ==
    /\ StoreInit
    /\ yields \in 0 .. MaxRows
    /\ fetch = "idle" /\ returned = FALSE /\ columnsSent = FALSE
    /\ batch = <<>> /\ fetched = 0
    /\ channel = <<>>
    /\ consumer = "receive" /\ event = Header /\ seen = 0
    /\ uiChannel = <<>> /\ forwarder = "up" /\ header = FALSE /\ shown = <<>>
    /\ registered = FALSE /\ cancelled = FALSE /\ answer = "none"
    /\ result = "none"
    /\ reply = "none"

-----------------------------------------------------------------------------
(* The fetch: stream_capped under tokio::select! and with_timeout.  It is
   dropped where it stands when the time is over, and at its next poll once the
   token is cancelled; it looks at the token itself before every row. *)

(* The token goes into the map before the statement is sent. *)
Start ==
    /\ fetch = "idle"
    /\ fetch' = "fetching"
    /\ registered' = TRUE
    /\ UNCHANGED <<storeVars, yields, returned, columnsSent, batch, fetched,
                   channel, consumerVars, uiVars, cancelled, answer, result,
                   reply>>

(* Not connected, or barred from writing. *)
Refused ==
    /\ fetch = "idle"
    /\ fetch' = "error"
    /\ UNCHANGED <<storeVars, yields, returned, columnsSent, batch, fetched,
                   channel, consumerVars, uiVars, cancelVars, result, reply>>

Room == consumer # "failed" /\ Len(channel) < ChannelSize

FetchColumns ==
    /\ fetch = "fetching" /\ ~columnsSent
    /\ Room
    /\ channel' = Append(channel, Header)
    /\ columnsSent' = TRUE
    /\ UNCHANGED <<storeVars, yields, fetch, returned, batch, fetched,
                   consumerVars, uiVars, cancelVars, result, reply>>

FetchRow ==
    /\ fetch = "fetching" /\ columnsSent /\ ~cancelled
    /\ Len(batch) < BatchRows
    /\ fetched < yields /\ fetched < FetchCap
    /\ fetched' = fetched + 1
    /\ batch' = Append(batch, fetched')
    /\ UNCHANGED <<storeVars, yields, fetch, returned, columnsSent, channel,
                   consumerVars, uiVars, cancelVars, result, reply>>

(* Mutated: the channel is not bounded. *)
SendBatchAtOnce ==
    /\ fetch = "fetching"
    /\ Len(batch) = BatchRows
    /\ consumer # "failed"
    /\ channel' = Append(channel, batch)
    /\ batch' = <<>>
    /\ UNCHANGED <<storeVars, yields, fetch, returned, columnsSent, fetched,
                   consumerVars, uiVars, cancelVars, result, reply>>

SendBatch ==
    /\ fetch = "fetching"
    /\ Len(batch) = BatchRows
    /\ Room
    /\ channel' = Append(channel, batch)
    /\ batch' = <<>>
    /\ UNCHANGED <<storeVars, yields, fetch, returned, columnsSent, fetched,
                   consumerVars, uiVars, cancelVars, result, reply>>

AtEnd ==
    /\ columnsSent
    /\ Len(batch) < BatchRows
    /\ fetched = yields \/ fetched = FetchCap

(* Mutated: the rows of the last, short batch are forgotten. *)
FetchEndsEarly ==
    /\ fetch = "fetching" /\ AtEnd
    /\ fetch' = "ok"
    /\ batch' = <<>>
    /\ UNCHANGED <<storeVars, yields, returned, columnsSent, fetched, channel,
                   consumerVars, uiVars, cancelVars, result, reply>>

FetchEnds ==
    /\ fetch = "fetching" /\ AtEnd
    /\ IF batch = <<>> THEN UNCHANGED channel
                       ELSE Room /\ channel' = Append(channel, batch)
    /\ fetch' = "ok"
    /\ batch' = <<>>
    /\ UNCHANGED <<storeVars, yields, returned, columnsSent, fetched,
                   consumerVars, uiVars, cancelVars, result, reply>>

Drop(outcome) ==
    /\ fetch = "fetching"
    /\ fetch' = outcome
    /\ batch' = <<>>
    /\ UNCHANGED <<storeVars, yields, returned, columnsSent, fetched, channel,
                   consumerVars, uiVars, cancelVars, result, reply>>

(* The statement fails, or times out. *)
FetchFails == Drop("error")

FetchCancelled == cancelled /\ Drop("error")

(* "stream receiver closed" *)
FetchUnheard == consumer = "failed" /\ Drop("error")

(* The token is taken out of the map, then the fetch gives back its sender. *)
FetchReturns ==
    /\ fetch \in {"ok", "error"}
    /\ ~returned
    /\ returned' = TRUE
    /\ registered' = FALSE
    /\ UNCHANGED <<storeVars, yields, fetch, columnsSent, batch, fetched, channel,
                   consumerVars, uiVars, cancelled, answer, result, reply>>

(* cancel_query_impl *)
Cancel ==
    /\ answer = "none"
    /\ answer' = IF registered THEN "true" ELSE "false"
    /\ cancelled' = (cancelled \/ registered)
    /\ registered' = FALSE
    /\ UNCHANGED <<storeVars, yields, fetchVars, channel, consumerVars, uiVars,
                   result, reply>>

-----------------------------------------------------------------------------
(* The consumer *)

Receive ==
    /\ consumer = "receive"
    /\ channel # <<>>
    /\ event' = Head(channel)
    /\ channel' = Tail(channel)
    /\ consumer' = "forward"
    /\ UNCHANGED <<storeVars, yields, fetchVars, seen, uiVars, cancelVars,
                   result, reply>>

ReceiveEnd ==
    /\ consumer = "receive"
    /\ channel = <<>> /\ returned
    /\ consumer' = "done"
    /\ UNCHANGED <<storeVars, yields, fetchVars, channel, event, seen, uiVars,
                   cancelVars, result, reply>>

(* Mutated: the whole batch is passed on while the page has room. *)
TakeAll == IF seen < Budget THEN Len(event) ELSE 0

(* The part of the batch that belongs to the resident page. *)
Take == IF seen < Budget THEN Min({Budget - seen, Len(event)}) ELSE 0

(* send(..).await, whose failure is ignored *)
SendToWindow(e) ==
    \/ forwarder = "gone" /\ UNCHANGED uiChannel
    \/ forwarder = "up" /\ Len(uiChannel) < ChannelSize /\ uiChannel' = Append(uiChannel, e)

ForwardColumns ==
    /\ consumer = "forward" /\ event = Header
    /\ SendToWindow(Header)
    /\ consumer' = "receive"
    /\ UNCHANGED <<storeVars, yields, fetchVars, channel, event, seen, forwarder,
                   header, shown, cancelVars, result, reply>>

ForwardRows ==
    /\ consumer = "forward" /\ event # Header
    /\ IF Take > 0 THEN SendToWindow(SubSeq(event, 1, Take)) ELSE UNCHANGED uiChannel
    /\ consumer' = "append"
    /\ UNCHANGED <<storeVars, yields, fetchVars, channel, event, seen, forwarder,
                   header, shown, cancelVars, result, reply>>

(* The fetch stops at fetch_cap, so the store never refuses a row here: see
   NothingIsRefused. *)
AppendNext ==
    /\ consumer = "append" /\ event # <<>>
    /\ \/ KeepResident(Head(event))
       \/ Buffer(Head(event))
       \/ BufferAndFlush(Head(event))
    /\ event' = Tail(event)
    /\ seen' = seen + 1
    /\ UNCHANGED <<yields, fetchVars, channel, consumer, uiVars, cancelVars,
                   result, reply>>

AppendDone ==
    /\ consumer = "append" /\ event = <<>>
    /\ consumer' = "receive"
    /\ UNCHANGED <<storeVars, yields, fetchVars, channel, event, seen, uiVars,
                   cancelVars, result, reply>>

(* Mutated: the receiver outlives the consumer. *)
AppendErrorKept ==
    /\ consumer = "append" /\ event # <<>>
    /\ AppendFails(Head(event))
    /\ consumer' = "done"
    /\ UNCHANGED <<yields, fetchVars, channel, event, seen, uiVars, cancelVars,
                   result, reply>>

(* The consumer ends, and the receiver with it. *)
AppendError ==
    /\ consumer = "append" /\ event # <<>>
    /\ AppendFails(Head(event))
    /\ consumer' = "failed"
    /\ channel' = <<>>
    /\ UNCHANGED <<yields, fetchVars, event, seen, uiVars, cancelVars, result,
                   reply>>

-----------------------------------------------------------------------------
(* The command's forwarding loop *)

Deliver ==
    /\ forwarder = "up"
    /\ uiChannel # <<>>
    /\ header' = (header \/ Head(uiChannel) = Header)
    /\ shown' = shown \o Head(uiChannel)
    /\ uiChannel' = Tail(uiChannel)
    /\ UNCHANGED <<storeVars, yields, fetchVars, channel, consumerVars, forwarder,
                   cancelVars, result, reply>>

(* The window is gone; the loop ends, and the receiver with it. *)
DeliverFails ==
    /\ forwarder = "up"
    /\ uiChannel # <<>>
    /\ forwarder' = "gone"
    /\ uiChannel' = <<>>
    /\ UNCHANGED <<storeVars, yields, fetchVars, channel, consumerVars, header,
                   shown, cancelVars, result, reply>>

DeliverEnd ==
    /\ forwarder = "up"
    /\ uiChannel = <<>> /\ consumer \in {"done", "failed"}
    /\ forwarder' = "done"
    /\ UNCHANGED <<storeVars, yields, fetchVars, channel, consumerVars, uiChannel,
                   header, shown, cancelVars, result, reply>>

-----------------------------------------------------------------------------
(* run_query_spill_impl after the join, and the command's reply *)

Joined == returned /\ consumer \in {"done", "failed"} /\ result = "none"

Complete ==
    /\ Joined /\ consumer = "done" /\ fetch = "ok"
    /\ Finalize
    /\ result' = "ok"
    /\ UNCHANGED <<yields, fetchVars, channel, consumerVars, uiVars, cancelVars,
                   reply>>

CompleteFails ==
    /\ Joined /\ consumer = "done" /\ fetch = "ok"
    /\ FinalizeFails
    /\ result' = "error"
    /\ UNCHANGED <<yields, fetchVars, channel, consumerVars, uiVars, cancelVars,
                   reply>>

(* The store is dropped on the way out. *)
GiveUp ==
    /\ Joined /\ (consumer = "failed" \/ fetch = "error")
    /\ Discard
    /\ result' = "error"
    /\ UNCHANGED <<yields, fetchVars, channel, consumerVars, uiVars, cancelVars,
                   reply>>

DropStore ==
    /\ result = "error" /\ Discard
    /\ UNCHANGED <<yields, fetchVars, channel, consumerVars, uiVars, cancelVars,
                   result, reply>>

(* Mutated: the command does not wait for the window to see the page. *)
ReplyEarly ==
    /\ reply = "none"
    /\ result # "none"
    /\ reply' = IF forwarder = "gone" THEN "error" ELSE result
    /\ UNCHANGED <<storeVars, yields, fetchVars, channel, consumerVars, uiVars,
                   cancelVars, result>>

Reply ==
    /\ reply = "none"
    /\ result # "none" /\ forwarder # "up"
    /\ reply' = IF forwarder = "gone" THEN "error" ELSE result
    /\ UNCHANGED <<storeVars, yields, fetchVars, channel, consumerVars, uiVars,
                   cancelVars, result>>

(* What the run says of itself: rows were refused by the store, or the fetch
   stopped at its cap with a row in hand (runner.rs 475, stream.rs 140-143). *)
Reported == truncated \/ fetched < yields

-----------------------------------------------------------------------------
Progress ==
    \/ FetchColumns \/ FetchRow \/ SendBatch \/ FetchEnds
    \/ FetchCancelled \/ FetchUnheard \/ FetchReturns
    \/ Receive \/ ReceiveEnd \/ ForwardColumns \/ ForwardRows
    \/ AppendNext \/ AppendDone \/ AppendError
    \/ Deliver \/ DeliverEnd
    \/ Complete \/ CompleteFails \/ GiveUp \/ DropStore \/ Reply

StreamNext == Start \/ Refused \/ Progress \/ FetchFails \/ Cancel \/ DeliverFails

StreamSpec == StreamInit /\ [][StreamNext]_streamVars

(* The futures of a run are driven as long as one of them can go on. *)
StreamFairness == WF_streamVars(Progress)

FairStreamSpec == StreamSpec /\ StreamFairness

-----------------------------------------------------------------------------
(* Properties *)

StreamTypeOK ==
    /\ StoreTypeOK
    /\ {batch, event, shown} \subseteq Seq(1 .. MaxRows)
    /\ {channel, uiChannel} \subseteq Seq(Seq(1 .. MaxRows))
    /\ Len(channel) <= ChannelSize /\ Len(uiChannel) <= ChannelSize
    /\ fetch \in {"idle", "fetching", "ok", "error"}
    /\ consumer \in {"receive", "forward", "append", "done", "failed"}
    /\ forwarder \in {"up", "done", "gone"}
    /\ {result, reply} \subseteq {"none", "ok", "error"}
    /\ result = "none" => reply = "none"

(* The window is shown the first page of the result, in order, and all of it
   before the run is reported as done (runner.rs 407-461, commands.rs 426-452). *)
FirstPage == Nats(Min({yields, Budget, config.max_total_rows}))

Promised == INSTANCE PagedResult WITH
    Pages <- {Nats(n) : n \in 0 .. MaxRows}, page <- FirstPage

KeepsPagePromise == Promised!Spec

(* The caps of the fetch and of the store agree: the store never refuses a row
   that was fetched, so `append`'s "stop early" answer may be ignored. *)
NothingIsRefused == consumer = "append" /\ event # <<>> /\ stage = "filling" => ~Full

(* A run that is reported as done has kept the whole result, cut only by its
   cap and then said to be, and what it says is resident is what the window was
   shown, columns and rows, so paging goes on where the page ends (runner.rs
   467-488). *)
DoneMeansComplete ==
    reply = "ok" =>
        /\ stage = "final" /\ total = Min({yields, FetchCap})
        /\ Reported <=> yields > FetchCap
        /\ header /\ shown = memory

(* Nothing that was fetched is lost on the way to a run reported as done. *)
StreamIsSound == StreamTypeOK /\ NothingIsRefused /\ DoneMeansComplete

(* "Browsing a result far larger than RAM stays flat in memory" (spill.rs
   5-9): the rows held at any moment are bounded by the budget, one flush and
   what the channels and their ends hold, the page's copy of the rows in hand
   with them, whatever the statement yields. The rows of events are counted by
   their places: which event, and where in it. *)
RowsIn(events) == Cardinality(UNION {{i} \X DOMAIN events[i] : i \in DOMAIN events})

(* rows[..take].to_vec(), until it is in the channel *)
Copied == IF consumer = "forward" THEN Take ELSE 0

RowsHeld ==
    Len(memory) + Len(pending) + Len(batch) + Len(event) + RowsIn(channel)
        + RowsIn(uiChannel) + Copied

HeldRowsAreBounded ==
    RowsHeld <= Budget + FlushRows + BatchRows * (2 + ChannelSize)
                  + Min({Budget, BatchRows * (1 + ChannelSize)})

(* Every run is answered: the two channels and the store never leave the
   fetch, the consumer and the forwarding loop waiting on one another, whether
   the run is cancelled, the store fails or the window goes. *)
RunIsAnswered == fetch # "idle" ~> reply # "none"

=============================================================================
