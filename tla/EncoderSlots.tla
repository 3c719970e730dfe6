---------------------------- MODULE EncoderSlots ----------------------------
(***************************************************************************)
(* What the coordination of distributed attempts promises to the encoder   *)
(* cluster: the encoders of one job never exceed a cap.  Encoders are      *)
(* launched for one attempt at a time, and a later attempt takes over only *)
(* when those that are left and those it will launch fit under the cap.    *)
(* How that is found out belongs to Orchestration.                         *)
(***************************************************************************)
EXTENDS Naturals, FiniteSets

CONSTANTS
  Attempts,   \* the attempt numbers of a job are 1..Attempts
  Planned,    \* renditions an attempt encodes, one encoder each
  Cap         \* MAX_ACTIVE_CHILD_ENCODERS

VARIABLES
  launcher,   \* the attempt encoders are launched for, 0 before the first
  live        \* encoders that run: pairs of an attempt and a rendition

slotVars == <<launcher, live>>

SlotInit == launcher = 0 /\ live = {}

TakeOver(a) ==
  /\ a > launcher
  /\ launcher' = a
  /\ Cardinality(live) + Cardinality(Planned) <= Cap
  /\ UNCHANGED live

LaunchEncoder(r) ==
  /\ launcher # 0
  /\ live' = live \cup {<<launcher, r>>}
  /\ UNCHANGED launcher

EndEncoder(e) ==
  /\ live' = live \ {e}
  /\ UNCHANGED launcher

SlotNext ==
  \/ \E a \in 1..Attempts : TakeOver(a)
  \/ \E r \in Planned : LaunchEncoder(r)
  \/ \E e \in live : EndEncoder(e)

SlotSpec == SlotInit /\ [][SlotNext]_slotVars
=============================================================================
