------------------------------ MODULE MCResults ------------------------------
(***************************************************************************)
(* Small instances, for TLC, of one result's store (every small budget and *)
(* ceiling), of a run that fills a store while its rows are shown (a page  *)
(* of one row or three, a result that is kept whole, cut at the ceiling,   *)
(* or cut at the page), and of the registry of the stores.  A behaviour is *)
(* one of `part`; what the part does not use stays in an initial state, in *)
(* which none of its fair actions is enabled.                              *)
(***************************************************************************)
EXTENDS ResultStream, ResultRegistry

VARIABLE part

resultVars == <<part, streamVars, vars>>

MCConfigs ==
    [memory_budget : 1 .. 3, offload_enabled : BOOLEAN, max_total_rows : 1 .. 13]

ConfigsOf(p) ==
    CASE p = "store"    -> [memory_budget : 1 .. 3, offload_enabled : BOOLEAN,
                            max_total_rows : 1 .. 6]
      [] p = "stream"   -> [memory_budget : {1}, offload_enabled : BOOLEAN,
                            max_total_rows : {13}]
                           \cup [memory_budget : {3}, offload_enabled : {TRUE},
                                 max_total_rows : {5}]
      [] p = "registry" -> [memory_budget : {1}, offload_enabled : {TRUE},
                            max_total_rows : {1}]

ResultsInit ==
    /\ part \in {"store", "stream", "registry"}
    /\ StreamInit /\ Init
    /\ config \in ConfigsOf(part)
    /\ part # "stream" => yields = 0

OtherStreamVars == <<yields, fetchVars, channel, consumerVars, uiVars, cancelVars,
                     result, reply>>

ResultsNext ==
    /\ UNCHANGED part
    /\ \/ part = "store" /\ StoreNext /\ UNCHANGED <<OtherStreamVars, vars>>
       \/ part = "stream" /\ StreamNext /\ UNCHANGED vars
       \/ part = "registry" /\ Next /\ UNCHANGED streamVars

ResultsSpec ==
    ResultsInit /\ [][ResultsNext]_resultVars /\ Fairness /\ StreamFairness
=============================================================================
