---------------------------- MODULE JobLifecycle ----------------------------
(***************************************************************************)
(* What the encoding job table promises to everybody who reads a job: the  *)
(* five public statuses of job-status.schema.json and the graph between    *)
(* them, with the number of attempts already spent.  Workers, leases and   *)
(* modes do not appear: they belong to JobLease, which implements this     *)
(* module.                                                                 *)
(***************************************************************************)
EXTENDS Naturals

CONSTANTS
  Job,         \* identifiers of encoding jobs
  MaxAttempts  \* WORKER_MAXIMUM_ATTEMPTS, the A of the reliability contract

VARIABLES
  status,      \* status[j]: "ABSENT" until the API inserts the row of j
  used         \* used[j]: attempts of j that have been started

lifecycleVars == <<status, used>>

PublicStatus == {"UPLOADING", "QUEUED", "PROCESSING", "COMPLETED", "FAILED"}

TerminalStatus == {"COMPLETED", "FAILED"}

LifecycleTypeOK ==
  /\ status \in [Job -> PublicStatus \cup {"ABSENT"}]
  /\ used \in [Job -> 0..MaxAttempts]

\* Rows of an older deployment may be present, in any status, when the
\* attempt counter is introduced with value 0.
LifecycleInit ==
  /\ status \in [Job -> PublicStatus \cup {"ABSENT"}]
  /\ used = [j \in Job |-> 0]

Move(j, from, to) ==
  /\ status[j] \in from
  /\ status' = [status EXCEPT ![j] = to]

Insert(j) == Move(j, {"ABSENT"}, "UPLOADING") /\ UNCHANGED used

Enqueue(j) == Move(j, {"UPLOADING"}, "QUEUED") /\ UNCHANGED used

\* An attempt starts from the queue, or in place of one that went silent.
StartAttempt(j) ==
  /\ used[j] < MaxAttempts
  /\ Move(j, {"QUEUED", "PROCESSING"}, "PROCESSING")
  /\ used' = [used EXCEPT ![j] = @ + 1]

Requeue(j) ==
  /\ used[j] < MaxAttempts
  /\ Move(j, {"PROCESSING"}, "QUEUED")
  /\ UNCHANGED used

Succeed(j) == Move(j, {"PROCESSING"}, "COMPLETED") /\ UNCHANGED used

\* Only an exhausted job fails.
GiveUp(j) ==
  /\ used[j] = MaxAttempts
  /\ Move(j, {"PROCESSING"}, "FAILED")
  /\ UNCHANGED used

LifecycleNext ==
  \E j \in Job :
    \/ Insert(j) \/ Enqueue(j) \/ StartAttempt(j)
    \/ Requeue(j) \/ Succeed(j) \/ GiveUp(j)

LifecycleSpec == LifecycleInit /\ [][LifecycleNext]_lifecycleVars
=============================================================================
