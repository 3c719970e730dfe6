------------------------------ MODULE JobLease ------------------------------
(***************************************************************************)
(* The jobs table in PostgreSQL: every statement the API and the worker    *)
(* execute against a row is one action, and any worker may execute any of  *)
(* them at any time (the clients' own discipline is in OwnedAttempt and    *)
(* Delivery).  A row keeps what the statements read or write; bookkeeping  *)
(* columns (timestamps, the text of a failure) are left out.               *)
(*                                                                         *)
(* Time.  lease_expires_at is kept as the number of ticks left until it is *)
(* reached, so that "lease_expires_at > CURRENT_TIMESTAMP" is lease > 0    *)
(* and equality is expired; Tick is the passing of database time.          *)
(***************************************************************************)
EXTENDS Naturals

CONSTANTS
  Job,          \* identifiers of encoding jobs
  Worker,       \* worker_id values: one per worker process
  NoWorker,     \* worker_id IS NULL
  LeaseTicks,   \* the lease duration L, in ticks
  MaxAttempts   \* the attempt limit A every worker is configured with

ASSUME LeaseAssumption ==
  /\ LeaseTicks \in Nat \ {0}
  /\ MaxAttempts \in Nat \ {0}
  /\ NoWorker \notin Worker

VARIABLE jobs   \* jobs[j]: the row of job j

Status == {"UPLOADING", "QUEUED", "PROCESSING", "COMPLETED", "FAILED"}

Terminal == {"COMPLETED", "FAILED"}

JobMode == {"cli", "distributed"}

\* published_manifest_key is NULL (0) or the canonical master key of one
\* attempt, which the number of that attempt stands for.
Row == [ status : Status \cup {"ABSENT"},
         mode   : JobMode \cup {"unset"},
         owner  : Worker \cup {NoWorker},
         lease  : 0..LeaseTicks,
         attempt: 0..MaxAttempts,
         pointer: 0..MaxAttempts ]

LeaseTypeOK == jobs \in [Job -> Row]

AbsentRow == [ status |-> "ABSENT", mode |-> "unset", owner |-> NoWorker,
               lease |-> 0, attempt |-> 0, pointer |-> 0 ]

\* Migrations 0002 and 0003 add the lease columns empty and mark every row
\* that exists by then as a cli job, in whatever status it is.
LegacyRows == { [AbsentRow EXCEPT !.status = s, !.mode = "cli"] : s \in Status }

LeaseInit == jobs \in [Job -> LegacyRows \cup {AbsentRow}]

-----------------------------------------------------------------------------
(* Predicates of the statements' WHERE clauses.                            *)

Live(j) == jobs[j].lease > 0

HeldBy(j, w) ==
  /\ jobs[j].owner = w
  /\ jobs[j].status = "PROCESSING"
  /\ Live(j)

Unheld(j) == jobs[j].owner = NoWorker \/ ~Live(j)

(* Faulty variants of the predicates and updates below.  They are no part  *)
(* of the specification: each shows that a property notices the fault.     *)

\* An acquisition that forgets the attempt limit.
AcquirableBeyondLimit(j, m) ==
  /\ jobs[j].status \in {"QUEUED", "PROCESSING"}
  /\ jobs[j].mode \in {"unset", m}
  /\ Unheld(j)

\* An acquisition that forgets to look at the present lease.
AcquirableWhileHeld(j, m) ==
  /\ jobs[j].status \in {"QUEUED", "PROCESSING"}
  /\ jobs[j].mode \in {"unset", m}
  /\ jobs[j].attempt < MaxAttempts

\* A renewal that does not ask whether the lease still runs.
RenewableWhenLapsed(j, w) ==
  jobs[j].owner = w /\ jobs[j].status = "PROCESSING"

\* A cli completion without its mode predicate.
CompletableInAnyMode(j, w) == HeldBy(j, w) /\ jobs[j].pointer = 0

\* A terminal failure on any attempt.
FailableEarly(j, w) == HeldBy(j, w)

-----------------------------------------------------------------------------
CanClaim(j) == jobs[j].status = "UPLOADING"

CanAcquire(j, m) ==
  /\ jobs[j].status \in {"QUEUED", "PROCESSING"}
  /\ jobs[j].mode \in {"unset", m}
  /\ jobs[j].attempt < MaxAttempts
  /\ Unheld(j)

CanRenew(j, w) == HeldBy(j, w)

CanRelease(j, w) == HeldBy(j, w) /\ jobs[j].attempt < MaxAttempts

CanComplete(j, w) ==
  /\ HeldBy(j, w)
  /\ jobs[j].mode = "cli"
  /\ jobs[j].pointer = 0

\* The call is refused before the statement unless the key is the canonical
\* key of the caller's attempt a, which is not 0.
CanCompleteDistributed(j, w, a, key) ==
  /\ a # 0 /\ key = a
  /\ HeldBy(j, w)
  /\ jobs[j].attempt = a
  /\ jobs[j].mode = "distributed"
  /\ jobs[j].pointer = 0

CanFail(j, w) == HeldBy(j, w) /\ jobs[j].attempt >= MaxAttempts

\* The disposition an acquisition reports when it acquires nothing.  A free
\* job held back only by its mode is reported busy, like a leased one.
Refusal(j) ==
  IF jobs[j].status = "ABSENT" THEN "UNKNOWN_OR_MISMATCHED"
  ELSE IF jobs[j].status \in Terminal THEN jobs[j].status
  ELSE IF ~Live(j) /\ jobs[j].attempt >= MaxAttempts THEN "ATTEMPT_EXHAUSTED"
  ELSE "BUSY"

-----------------------------------------------------------------------------
(* The statements, as they change the row they apply to.                   *)

InsertJob(j) ==
  /\ jobs[j].status = "ABSENT"
  /\ jobs' = [jobs EXCEPT ![j].status = "UPLOADING"]

ClaimUpload(j) ==
  /\ CanClaim(j)
  /\ jobs' = [jobs EXCEPT ![j].status = "QUEUED"]

\* COALESCE(mode, $6): the first acquisition chooses the mode.
AcquiredRow(r, w, m) ==
  [ status |-> "PROCESSING", mode |-> IF r.mode = "unset" THEN m ELSE r.mode,
    owner |-> w, lease |-> LeaseTicks, attempt |-> r.attempt + 1,
    pointer |-> r.pointer ]

AcquireLease(j, w, m) ==
  /\ CanAcquire(j, m)
  /\ jobs' = [jobs EXCEPT ![j] = AcquiredRow(@, w, m)]

RenewLease(j, w) ==
  /\ CanRenew(j, w)
  /\ jobs' = [jobs EXCEPT ![j].lease = LeaseTicks]

\* Every statement that ends an attempt also clears the owner and the lease.
EndedRow(r, to, key) ==
  [ status |-> to, mode |-> r.mode, owner |-> NoWorker, lease |-> 0,
    attempt |-> r.attempt, pointer |-> key ]

ReleaseForRetry(j, w) ==
  /\ CanRelease(j, w)
  /\ jobs' = [jobs EXCEPT ![j] = EndedRow(@, "QUEUED", @.pointer)]

Complete(j, w) ==
  /\ CanComplete(j, w)
  /\ jobs' = [jobs EXCEPT ![j] = EndedRow(@, "COMPLETED", @.pointer)]

CompleteDistributed(j, w, a, key) ==
  /\ CanCompleteDistributed(j, w, a, key)
  /\ jobs' = [jobs EXCEPT ![j] = EndedRow(@, "COMPLETED", key)]

FailJob(j, w) ==
  /\ CanFail(j, w)
  /\ jobs' = [jobs EXCEPT ![j] = EndedRow(@, "FAILED", @.pointer)]

\* One tick less on every lease that has not expired.
AgedRow(r) == [r EXCEPT !.lease = IF @ > 0 THEN @ - 1 ELSE 0]

LeaseTick ==
  /\ \E j \in Job : Live(j)
  /\ jobs' = [j \in Job |-> AgedRow(jobs[j])]

LeaseNext ==
  \/ \E j \in Job : InsertJob(j) \/ ClaimUpload(j)
  \/ \E j \in Job, w \in Worker, m \in JobMode : AcquireLease(j, w, m)
  \/ \E j \in Job, w \in Worker :
       RenewLease(j, w) \/ ReleaseForRetry(j, w) \/ Complete(j, w) \/ FailJob(j, w)
  \/ \E j \in Job, w \in Worker, a, key \in 0..MaxAttempts :
       CompleteDistributed(j, w, a, key)
  \/ LeaseTick

LeaseSpec == LeaseInit /\ [][LeaseNext]_jobs

-----------------------------------------------------------------------------
(* Properties.                                                             *)

\* An owner and a running lease belong to a job in PROCESSING whose mode and
\* attempt are fixed: no row is owned in a status in which nobody works on it
\* (the checks of migration 0002, which postgres.rs must never run into).
OwnedOnlyWhileProcessing ==
  \A j \in Job :
    /\ jobs[j].owner = NoWorker => ~Live(j)
    /\ jobs[j].owner # NoWorker =>
         /\ jobs[j].status = "PROCESSING"
         /\ jobs[j].mode # "unset"
         /\ jobs[j].attempt > 0

\* A COMPLETED job always has the one location the playback endpoint accepts:
\* the fixed key of a cli job, which has no pointer, or the pointer written
\* for the very attempt the row counts.  Nothing else carries a pointer.
PlaybackResolvable ==
  \A j \in Job :
    /\ jobs[j].pointer # 0 => jobs[j].status = "COMPLETED"
    /\ jobs[j].status = "COMPLETED" =>
         \/ jobs[j].mode = "cli" /\ jobs[j].pointer = 0
         \/ /\ jobs[j].mode = "distributed"
            /\ jobs[j].attempt > 0
            /\ jobs[j].pointer = jobs[j].attempt

\* An expired lease starts running again only as a new attempt: no renewal,
\* however late, and no release brings back an attempt that lapsed.
LapsedLeaseNeverRevived ==
  [][\A j \in Job : (~Live(j) /\ Live(j)') =>
        jobs'[j].attempt = jobs[j].attempt + 1]_jobs

\* While a lease runs nobody takes the job over: the owner changes only when
\* the attempt ends, and the attempt count does not move.
LiveLeaseNotStolen ==
  [][\A j \in Job : Live(j) =>
        /\ jobs'[j].attempt = jobs[j].attempt
        /\ jobs'[j].owner # jobs[j].owner =>
             jobs'[j].owner = NoWorker /\ jobs'[j].status # "PROCESSING"]_jobs

\* The mode chosen by the first acquisition survives every retry, release and
\* reacquisition, also by workers deployed in the other mode.
ModeImmutable ==
  [][\A j \in Job : jobs[j].mode # "unset" => jobs'[j].mode = jobs[j].mode]_jobs

\* The table implements the public life cycle of a job.
Lifecycle == INSTANCE JobLifecycle
               WITH status <- [j \in Job |-> jobs[j].status],
                    used   <- [j \in Job |-> jobs[j].attempt]

ImplementsLifecycle == Lifecycle!LifecycleSpec
=============================================================================
