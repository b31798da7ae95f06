------------------------- MODULE MCMetadataRefresh -------------------------
(* Model-checking instance of MetadataRefresh: refresh slots and statement
   slots are interchangeable, and so are connections. *)
EXTENDS MetadataRefresh, TLC

Symmetry ==
    Permutations(Connections) \cup Permutations(Tasks) \cup Permutations(Runs)

=============================================================================
