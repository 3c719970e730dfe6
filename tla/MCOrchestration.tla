--------------------------- MODULE MCOrchestration ---------------------------
(* Instances of Orchestration for TLC. *)
EXTENDS Orchestration, TLC

CONSTANTS r1, r2

One == {r1}
Both == {r1, r2}
RenditionSymmetry == Permutations(Planned)
=============================================================================
