----------------------------- MODULE MCDelivery -----------------------------
(* Instance of Delivery for TLC: a message with the records of two jobs, or *)
(* two messages that name the same job, one of them with a record that      *)
(* cannot be parsed; a cli process and a distributed one.                   *)
EXTENDS Delivery, TLC

CONSTANTS j1, j2, w1, w2, m1, m2, s1, s2

MCJob == {j1, j2}
MCWorker == {w1, w2}
MCMessage == {m1, m2}
MCSlot == {s1, s2}
MCContents ==
  { (m1 :> <<j1, j2>>) @@ (m2 :> <<>>),
    (m1 :> <<j1, Malformed>>) @@ (m2 :> <<j1>>) }
MCSlotWorker == (s1 :> w1) @@ (s2 :> w2)
MixedModes == (w1 :> "cli") @@ (w2 :> "distributed")
=============================================================================
