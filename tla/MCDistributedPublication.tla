---------------------- MODULE MCDistributedPublication ----------------------
(* Instance of DistributedPublication for TLC.  The workers are equal, and *)
(* every property of the run is about one behaviour and no liveness.       *)
EXTENDS DistributedPublication, TLC

CONSTANTS j1, w1, w2

MCJob == {j1}
MCWorker == {w1, w2}

WorkersEqual == Permutations(MCWorker)
=============================================================================
