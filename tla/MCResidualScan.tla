--------------------------- MODULE MCResidualScan ---------------------------
(* Instance of ResidualScan for TLC. *)
EXTENDS ResidualScan

CONSTANTS e1, e2, c1, c2

MCEncoder == {e1, e2}
MCCluster == {c1, c2}
=============================================================================
