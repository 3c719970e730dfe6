------------------------------ MODULE Delivery ------------------------------
(***************************************************************************)
(* Deliveries: how workers take messages from the source queue, process    *)
(* the records of each and decide what becomes of the message.  A message  *)
(* is delivered at least once; each delivery acquires all its records,     *)
(* works through them in order and finally deletes the message, delays it, *)
(* or leaves it to its visibility timeout and, in the end, to the          *)
(* dead-letter queue.                                                      *)
(*                                                                         *)
(* An attempt is seen only through its last statement here: what happens   *)
(* between acquisition and end, statement by statement, is OwnedAttempt.   *)
(* Time is not measured: a visibility timeout or a lease may end at any    *)
(* moment, as after heartbeats that came too late.                         *)
(***************************************************************************)
EXTENDS JobLease, Sequences

CONSTANTS
  Message,      \* messages of the source queue
  Contents,     \* what the messages may hold, one of these per behaviour
  Malformed,    \* a record that names no job
  Slot,         \* concurrent deliveries the deployment can handle
  SlotWorker,   \* SlotWorker[s]: the process of slot s
  ModeOf,       \* ModeOf[w]: the mode process w acquires in
  MaxReceives   \* maxReceiveCount of the source queue

ASSUME DeliveryAssumption ==
  /\ Message # {}
  /\ Malformed \notin Job
  /\ \A c \in Contents : c \in [Message -> Seq(Job \cup {Malformed})]
  /\ SlotWorker \in [Slot -> Worker]
  /\ ModeOf \in [Worker -> JobMode]
  /\ MaxReceives \in Nat \ {0}

VARIABLES
  records, \* records[m]: the jobs the records of m name, in order; none: no message
  queue,   \* queue[m]: where message m is, and how often it was received
  slot     \* slot[s]: the delivery under way in slot s

deliveryVars == <<jobs, queue, slot>>

QueueState == [ at: {"absent", "visible", "hidden", "deleted", "dead"}, receives: 0..MaxReceives ]

\* What acquisition says of a record: the attempt acquired, or 0 and why not.
Disposition == [ attempt: 0..MaxAttempts, done: BOOLEAN ]

Acquired(a) == [attempt |-> a, done |-> FALSE]

NotAcquired(completed) == [attempt |-> 0, done |-> completed]

SlotState ==
  [ pc     : {"idle", "claim", "acquire", "process", "settle"},
    msg    : Message,
    receipt: 0..MaxReceives,   \* the receive this delivery belongs to
    got    : Seq(Disposition), \* one per record looked at
    next   : Nat \ {0},        \* the record to look at
    ack    : BOOLEAN,          \* acknowledge
    retry  : BOOLEAN,          \* retry_delay is set
    lost   : BOOLEAN ]         \* the heartbeat of the delivery has failed

DeliveryTypeOK ==
  /\ LeaseTypeOK
  /\ records \in Contents
  /\ queue \in [Message -> QueueState]
  /\ slot \in [Slot -> SlotState]
  /\ \A s \in Slot : slot[s].next <= Len(records[slot[s].msg]) + 1

\* A delivery before its first record.
Fresh(pc, m, receipt) ==
  [ pc |-> pc, msg |-> m, receipt |-> receipt, got |-> <<>>, next |-> 1,
    ack |-> TRUE, retry |-> FALSE, lost |-> FALSE ]

Idle(m) == Fresh("idle", m, 0)

NoMessage == CHOOSE m \in Message : TRUE

\* An event names a job the API has inserted, or one that is not in the table.
DeliveryInit ==
  /\ jobs \in [Job -> {AbsentRow, [AbsentRow EXCEPT !.status = "UPLOADING"]}]
  /\ records \in Contents
  /\ queue = [m \in Message |->
                [at |-> IF records[m] = <<>> THEN "absent" ELSE "visible", receives |-> 0]]
  /\ slot = [s \in Slot |-> Idle(NoMessage)]

-----------------------------------------------------------------------------
(* The source queue.                                                       *)

\* A delivery begins: the message is hidden from the other slots.
ReceiveMessage(s, m) ==
  /\ slot[s].pc = "idle"
  /\ queue[m].at = "visible"
  /\ queue[m].receives < MaxReceives
  /\ queue' = [queue EXCEPT ![m] =
                 [at |-> "hidden", receives |-> @.receives + 1]]
  /\ slot' = [slot EXCEPT ![s] =
                Fresh("claim", m, queue[m].receives + 1)]
  /\ UNCHANGED jobs

\* Faulty variant: the queue waits for one receive more than it allows.
RedriveLate(m) ==
  /\ queue[m].at = "visible"
  /\ queue[m].receives > MaxReceives
  /\ queue' = [queue EXCEPT ![m].at = "dead"]
  /\ UNCHANGED <<jobs, slot>>

\* A message received as often as allowed goes to the dead-letter queue.
Redrive(m) ==
  /\ queue[m].at = "visible"
  /\ queue[m].receives >= MaxReceives
  /\ queue' = [queue EXCEPT ![m].at = "dead"]
  /\ UNCHANGED <<jobs, slot>>

VisibilityEnds(m) ==
  /\ queue[m].at = "hidden"
  /\ queue' = [queue EXCEPT ![m].at = "visible"]
  /\ UNCHANGED <<jobs, slot>>

-----------------------------------------------------------------------------
(* Acquisition: every record of the message before any is processed.  A    *)
(* statement applies and says so, is refused, or fails with its effect in  *)
(* doubt.                                                                  *)

RecordOf(s) == records[slot[s].msg][slot[s].next]

WorkerOf(s) == SlotWorker[s]

\* The record is dealt with; acquisition goes on with the next one.
Disposed(s, d) ==
  LET last == slot[s].next = Len(records[slot[s].msg])
  IN slot' = [slot EXCEPT ![s].got = Append(@, d),
                          ![s].next = IF last THEN 1 ELSE @ + 1,
                          ![s].pc = IF last THEN "process" ELSE "claim"]

ClaimRecord(s) ==
  /\ slot[s].pc = "claim"
  /\ LET j == RecordOf(s)
     IN \/ j = Malformed /\ Disposed(s, NotAcquired(FALSE)) /\ UNCHANGED jobs
        \/ /\ j # Malformed
           /\ IF CanClaim(j) THEN ClaimUpload(j) ELSE UNCHANGED jobs
           /\ slot' = [slot EXCEPT ![s].pc = "acquire"]
        \/ /\ j # Malformed
           /\ UNCHANGED jobs \/ ClaimUpload(j)
           /\ Disposed(s, NotAcquired(FALSE))
  /\ UNCHANGED queue

AcquireRecord(s) ==
  /\ slot[s].pc = "acquire"
  /\ LET j == RecordOf(s)
         m == ModeOf[WorkerOf(s)]
     IN \/ /\ AcquireLease(j, WorkerOf(s), m)
           /\ Disposed(s, Acquired(jobs[j].attempt + 1))
        \/ /\ ~CanAcquire(j, m)
           /\ Disposed(s, NotAcquired(Refusal(j) = "COMPLETED"))
           /\ UNCHANGED jobs
        \/ /\ UNCHANGED jobs \/ AcquireLease(j, WorkerOf(s), m)
           /\ Disposed(s, NotAcquired(FALSE))
  /\ UNCHANGED queue

\* The acquisition runs into its deadline, the process shuts down or dies.
DropDelivery(s) ==
  /\ slot[s].pc # "idle"
  /\ slot' = [slot EXCEPT ![s] = Idle(slot[s].msg)]
  /\ UNCHANGED <<jobs, queue>>

-----------------------------------------------------------------------------
(* The records in order.                                                   *)

Current(s) == slot[s].got[slot[s].next]

Processing(s) ==
  slot[s].pc = "process" /\ slot[s].next <= Len(slot[s].got)

\* Faulty variant: a record that is busy elsewhere counts as dealt with.
SkipRecordBusy(s) ==
  /\ Processing(s)
  /\ Current(s).attempt = 0
  /\ slot' = [slot EXCEPT ![s].next = @ + 1]
  /\ UNCHANGED <<jobs, queue>>

\* A record that was not acquired holds the message back unless its job had
\* been COMPLETED before.
SkipRecord(s) ==
  /\ Processing(s)
  /\ Current(s).attempt = 0
  /\ slot' = [slot EXCEPT ![s].next = @ + 1, ![s].ack = @ /\ Current(s).done]
  /\ UNCHANGED <<jobs, queue>>

Working(s) ==
  Processing(s) /\ Current(s).attempt > 0 /\ ~slot[s].lost

CompletedRow(j, w, a) ==
  \/ ModeOf[w] = "cli" /\ Complete(j, w)
  \/ ModeOf[w] = "distributed" /\ CompleteDistributed(j, w, a, a)

CompleteRecord(s) ==
  /\ Working(s)
  /\ CompletedRow(RecordOf(s), WorkerOf(s), Current(s).attempt)
  /\ slot' = [slot EXCEPT ![s].next = @ + 1]
  /\ UNCHANGED queue

FailedRow(j, w, a) ==
  IF a < MaxAttempts THEN ReleaseForRetry(j, w) ELSE FailJob(j, w)

\* A failed attempt is released for a retry, or fails the job for good; the
\* delivery goes on with the other records.
FailRecord(s) ==
  /\ Working(s)
  /\ FailedRow(RecordOf(s), WorkerOf(s), Current(s).attempt)
  /\ slot' = [slot EXCEPT ![s].next = @ + 1, ![s].ack = FALSE,
                ![s].retry = @ \/ Current(s).attempt < MaxAttempts]
  /\ UNCHANGED queue

InDoubt(s) ==
  /\ Working(s)
  /\ \/ UNCHANGED jobs
     \/ CompletedRow(RecordOf(s), WorkerOf(s), Current(s).attempt)
     \/ FailedRow(RecordOf(s), WorkerOf(s), Current(s).attempt)

\* Faulty variant: the retry delay of an earlier record is kept.
GiveUpUncertainKeepsDelay(s) ==
  /\ InDoubt(s)
  /\ slot' = [slot EXCEPT ![s].pc = "settle", ![s].ack = FALSE]
  /\ UNCHANGED queue

\* The last statement was refused or failed, or the attempt panicked: the
\* delivery stops and lets the attempt, if it is still there, expire.
GiveUpUncertain(s) ==
  /\ InDoubt(s)
  /\ slot' = [slot EXCEPT ![s].pc = "settle", ![s].ack = FALSE, ![s].retry = FALSE]
  /\ UNCHANGED queue

\* The heartbeat exists only if something was acquired.
LoseOwnership(s) ==
  /\ slot[s].pc \in {"process", "settle"}
  /\ \E i \in DOMAIN slot[s].got : slot[s].got[i].attempt > 0
  /\ ~slot[s].lost
  /\ slot' = [slot EXCEPT ![s].lost = TRUE]
  /\ UNCHANGED <<jobs, queue>>

StopLost(s) ==
  /\ Processing(s)
  /\ Current(s).attempt > 0
  /\ slot[s].lost
  /\ slot' = [slot EXCEPT ![s].pc = "settle", ![s].ack = FALSE]
  /\ UNCHANGED <<jobs, queue>>

AllLookedAt(s) ==
  /\ slot[s].pc = "process"
  /\ slot[s].next > Len(slot[s].got)
  /\ slot' = [slot EXCEPT ![s].pc = "settle"]
  /\ UNCHANGED <<jobs, queue>>

-----------------------------------------------------------------------------
(* The end of a delivery.                                                  *)

\* A delay leaves the message hidden, a delete takes it away.  A receipt of an
\* earlier receive may still serve, or not.
Update(s) ==
  LET m == slot[s].msg
  IN /\ ~slot[s].lost /\ ~slot[s].retry /\ slot[s].ack
     /\ queue[m].at \in {"visible", "hidden"}
     /\ queue' = [queue EXCEPT ![m].at = "deleted"]

\* The update is made, with or without an answer; or it is not made because
\* the heartbeat was lost, because it fails, or because none is due.
Settle(s) ==
  /\ slot[s].pc = "settle"
  /\ Update(s) \/ UNCHANGED queue
  /\ slot' = [slot EXCEPT ![s] = Idle(slot[s].msg)]
  /\ UNCHANGED jobs

PassTime ==
  /\ LeaseTick
  /\ UNCHANGED <<queue, slot>>

DeliveryStep(s) ==
  \/ ClaimRecord(s) \/ AcquireRecord(s)
  \/ SkipRecord(s) \/ CompleteRecord(s) \/ FailRecord(s) \/ GiveUpUncertain(s)
  \/ StopLost(s) \/ AllLookedAt(s) \/ Settle(s)

DeliveryNext ==
  /\ \/ \E s \in Slot :
          \/ DeliveryStep(s) \/ DropDelivery(s) \/ LoseOwnership(s)
          \/ \E m \in Message : ReceiveMessage(s, m)
     \/ \E m \in Message : VisibilityEnds(m) \/ Redrive(m)
     \/ PassTime
  /\ UNCHANGED records

DeliverySpec == DeliveryInit /\ [][DeliveryNext]_<<deliveryVars, records>>

-----------------------------------------------------------------------------
(* Properties.                                                             *)

\* A message is acknowledged only when every record in it is durably done:
\* nothing that is busy, failed, unknown or in doubt disappears with it.
DeletedMeansCompleted ==
  \A m \in Message : queue[m].at = "deleted" =>
    \A i \in DOMAIN records[m] :
      records[m][i] # Malformed /\ jobs[records[m][i]].status = "COMPLETED"

\* A delivery asks for the retry delay only when no attempt it acquired still
\* owns its row: the message never comes back early into its own lease.
DelayOnlyWhenReleased ==
  \A s \in Slot :
    slot[s].pc = "settle" /\ slot[s].retry /\ ~slot[s].lost =>
      \A i \in DOMAIN slot[s].got :
        LET j == records[slot[s].msg][i]
        IN slot[s].got[i].attempt > 0 =>
             ~(HeldBy(j, WorkerOf(s)) /\ jobs[j].attempt = slot[s].got[i].attempt)

\* Workers poll, visibility timeouts end, the queue redrives, and a delivery
\* that can take a step takes one (LockReleased and DeliveryEnds of
\* OwnedAttempt say why it can).
DeliveryFairness ==
  /\ \A s \in Slot : WF_deliveryVars(DeliveryStep(s))
  /\ \A m \in Message :
       /\ WF_deliveryVars(\E s \in Slot : ReceiveMessage(s, m))
       /\ WF_deliveryVars(VisibilityEnds(m))
       /\ WF_deliveryVars(Redrive(m))

FairDeliverySpec == DeliverySpec /\ DeliveryFairness

\* A poisoned message cannot circulate for ever: every message is acknowledged
\* or isolated, whatever fails, crashes or comes back.
MessageSettles ==
  \A m \in Message : <>(queue[m].at \in {"absent", "deleted", "dead"})
=============================================================================
