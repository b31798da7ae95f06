--------------------------- MODULE MCConnections ---------------------------
(***************************************************************************)
(* A small instance of Connections, for TLC.  A behaviour is one of        *)
(* `part`: three commands about one connection that is opened once, or two *)
(* commands about two connections of which one may replace the other.      *)
(* Liveness is checked, so there is no symmetry.                           *)
(***************************************************************************)
EXTENDS Connections

CONSTANTS h2, k3

VARIABLE part

PartInit == part \in {"three commands", "two handles"} /\ Init

PartNext ==
    /\ UNCHANGED part
    /\ Next
    /\ part = "three commands" => phase'[h2] = "unused"
    /\ part = "two handles" => pc'[k3] = "idle"

PartSpec ==
    /\ PartInit /\ [][PartNext]_<<part, vars>>
    /\ Fairness
=============================================================================
