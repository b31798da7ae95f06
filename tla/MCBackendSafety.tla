--------------------------- MODULE MCBackendSafety ---------------------------
(***************************************************************************)
(* Small instances, for TLC, of the metadata cache and of the extension    *)
(* store, which share nothing: a behaviour is one of `part`, and what the  *)
(* part does not use stays in an initial state.  Connections, refresh      *)
(* slots, statement slots, extensions and operations are interchangeable.  *)
(***************************************************************************)
EXTENDS MCMetadataRefresh, ExtensionStore

VARIABLE part

safetyVars == <<part, vars, extVars>>

SafetyInit ==
    /\ part \in {"metadata", "extensions"}
    /\ Init /\ ExtInit
    /\ \A i \in Ids : registry[i] = Installed(1) /\ catalog[i] = 2

SafetyNext ==
    /\ UNCHANGED part
    /\ \/ part = "metadata" /\ Next /\ UNCHANGED extVars
       \/ part = "extensions" /\ ExtNext /\ UNCHANGED vars

SafetySpec == SafetyInit /\ [][SafetyNext]_safetyVars

SafetySymmetry == Symmetry \cup Permutations(Ids) \cup Permutations(Slots)
=============================================================================
