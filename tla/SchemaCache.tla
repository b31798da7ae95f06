----------------------------- MODULE SchemaCache -----------------------------
(***************************************************************************)
(* What the backend's metadata cache promises its readers, with none of    *)
(* its machinery.  Each connection's database has a schema version that    *)
(* grows with every committed change.  `floor` is the newest change a      *)
(* client of this application has been told about (its run has returned).  *)
(* The cache may be empty at any time, but a snapshot it holds is never    *)
(* older than the floor.  MetadataRefresh is shown to implement this.      *)
(***************************************************************************)
EXTENDS Naturals

CONSTANTS Connections,  (* connection ids                                  *)
          None          (* no snapshot                                     *)

VARIABLES schema,       (* [Connections -> version the server is at]       *)
          floor,        (* [Connections -> newest acknowledged version]    *)
          cache         (* [Connections -> version of the snapshot, None]  *)

cacheVars == <<schema, floor, cache>>

CacheTypeOK ==
    /\ schema \in [Connections -> Nat]
    /\ floor \in [Connections -> Nat]
    /\ cache \in [Connections -> Nat \cup {None}]

CacheInit ==
    /\ schema = [c \in Connections |-> 0]
    /\ floor = [c \in Connections |-> 0]
    /\ cache = [c \in Connections |-> None]

(* Some client of the database commits a schema change. *)
Commit(c) ==
    /\ schema' = [schema EXCEPT ![c] = @ + 1]
    /\ UNCHANGED <<floor, cache>>

(* A client is told of every change up to v, and the snapshot goes. *)
Acknowledge(c, v) ==
    /\ floor' = [floor EXCEPT ![c] = v]
    /\ cache' = [cache EXCEPT ![c] = None]
    /\ UNCHANGED schema

(* A snapshot is installed; it may miss recent changes, never old ones. *)
Fill(c, v) ==
    /\ cache' = [cache EXCEPT ![c] = v]
    /\ UNCHANGED <<schema, floor>>

(* The snapshot is thrown away. *)
Drop(c) ==
    /\ cache' = [cache EXCEPT ![c] = None]
    /\ UNCHANGED <<schema, floor>>

CacheNext ==
    \E c \in Connections :
        \/ Commit(c)
        \/ Drop(c)
        \/ \E v \in floor[c]..schema[c] : Acknowledge(c, v) \/ Fill(c, v)

CacheSpec == CacheInit /\ [][CacheNext]_cacheVars

=============================================================================
