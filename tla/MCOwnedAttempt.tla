--------------------------- MODULE MCOwnedAttempt ---------------------------
(* Instances of OwnedAttempt for TLC: two deliveries of the same job, taken *)
(* by one worker process.                                                   *)
EXTENDS OwnedAttempt, TLC

CONSTANTS j1, w1, t1, t2

MCJob == {j1}
MCTask == {t1, t2}
MCJobOf == [t \in MCTask |-> j1]

OneWorker == {w1}
SameHost == [t \in MCTask |-> w1]

\* Tasks of the same process are interchangeable.
TaskSymmetry == Permutations(MCTask)
=============================================================================
