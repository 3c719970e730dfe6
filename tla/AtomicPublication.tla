------------------------- MODULE AtomicPublication -------------------------
(***************************************************************************)
(* What a viewer may rely on: attempts become complete one by one, in any  *)
(* order and never incomplete again, and a job is switched once, from no   *)
(* output at all to the output of a complete attempt.                      *)
(***************************************************************************)
EXTENDS Naturals

CONSTANT MaxAttempts   \* attempts of a job are 1..MaxAttempts

VARIABLES
  complete,    \* attempts with a master and everything it refers to
  published    \* the attempt playback shows, 0 before there is one

publicationVars == <<complete, published>>

PublicationInit == complete = {} /\ published = 0

MakeComplete(a) ==
  /\ complete' = complete \cup {a}
  /\ UNCHANGED published

Switch(a) ==
  /\ published = 0
  /\ a \in complete
  /\ published' = a
  /\ UNCHANGED complete

PublicationNext == \E a \in 1..MaxAttempts : MakeComplete(a) \/ Switch(a)

PublicationSpec == PublicationInit /\ [][PublicationNext]_publicationVars
=============================================================================
