# A verification model of the streaming video service

The service takes an MP4 from a browser, encodes it to HLS and plays it back. A Go
API creates a video and its encoding job in PostgreSQL and hands out a presigned
upload; S3 announces the upload through SQS; Rust workers receive the message, own
the job for one *attempt* under a lease, encode and publish the output, and
acknowledge the message. What has to be right is the ownership of attempts: several
workers, late replies, redeliveries and crashes must never expose wrong output, lose
a job or process it for ever.

Paths below are relative to `src/app/` unless they begin with `src/`; the worker
crates are in `backend/worker/crates/` and are named by crate and file.

## 1. Inventory

| component | state | operations | interacts with |
|---|---|---|---|
| jobs table (`persistence/src/postgres.rs`, migrations) | one row per job: status, mode, worker_id, lease_expires_at, attempt, published_manifest_key | claim, acquire, renew, release, complete, complete distributed, fail; insert by the API | all workers, API |
| lease acquisition (`worker/src/acquisition.rs`, `event.rs`) | none | parse a notification; claim and acquire each record under the jobs mutex | jobs table |
| heartbeat (`worker/src/heartbeat.rs`) | local lease and visibility deadlines, activity flags, `ownership_lost` | renew every owned record, extend visibility, watchdog, revoke on exit | jobs table, queue, attempt |
| owned attempt (`worker/src/retry.rs`, `publish.rs`) | work directory, position in the pipeline | download, encode, publish, complete, release, fail | jobs table, bucket, heartbeat |
| message completion (`worker/src/completion.rs`) | `acknowledge`, `retry_delay`, record index | the record loop, end of a delivery | all of the above, queue |
| source queue (`queue/src/sqs.rs`, Terraform) | messages, receive counts, visibility, dead letters | receive, delete, change visibility, redrive | completion, receive loop |
| receive loop (`worker/src/runtime.rs`, `protection.rs`, `main.rs`) | task set, pending receive, ECS protection | dispatch, renew protection, drain, abort | completion, ECS agent |
| finalizer (`worker/src/finalizer.rs`) | none | validate child results, write the master, complete | bucket, jobs table |
| orchestration (`worker/src/orchestration.rs`, `sfn.rs`) | executions named by job and attempt | start, recover, poll, cancel, bound earlier children | Step Functions, finalizer |
| child encoder (`worker/src/encoder.rs`) | none | encode one rendition, write its result | bucket |
| disk budget and limits (`encoding/src/limits.rs`) | reserved bytes | reserve, release, sample | attempts of a process |
| HLS encoding (`encoding/src/runtime.rs`, `worker/src/encoder.rs`) | work directories, FFmpeg processes | probe, encode, check the output | attempts, child encoders |
| object storage (`storage/src`) | none | bounded reads, uploads with deadlines | attempts, encoders, finalizer |
| start-up and supervision (`worker/src/main.rs`, `lib.rs`, `persistence/src/tls.rs`) | settings, database connection, signal handler | read the configuration, open, supervise, exit | receive loop, database |
| API (`backend/api`) | videos and jobs rows | create, status, playback | database, S3 |
| frontend (`frontend/src`) | one upload in a tab | create, upload, poll, play | API |
| infrastructure, end-to-end drivers, `src/agent` | | | not part of the running service |

What is hard here, with the lines, is the list `hazards` of `PROJECT.json`. In
short: a process has one `worker_id`, one database connection and one mutex for all
its deliveries, and the statements that end an attempt name the process only; a
dropped future leaves its statement or upload behind; leases are kept by two clocks;
messages are delivered again while their job is owned; the process itself is
protected for a limited time.

What makes the components right:

* *jobs table*: a lapsed lease never runs again without a new attempt, a live one is
  never taken over, ended rows are unowned, the mode is chosen once, a COMPLETED row
  has the location playback accepts.
* *heartbeat and attempt*: a working attempt whose own clock is running owns its
  row; nothing left behind ends a running attempt of another delivery; the manifest
  never precedes its segments; COMPLETED means that the output is there; the mutex
  is always released and deliveries end.
* *deliveries*: a deleted message is durably done in all its records; a delay is
  asked for only when nothing acquired is still owned; every message settles.
* *orchestration*: the encoders of one job that can be accounted for stay under a cap
  over all its attempts, only an own execution that succeeded completes the job, the
  deadline ends every coordinator, a lost attempt asks for its execution to be
  stopped; a count of the encoders left by an earlier attempt misses none that has
  an ARN and is still running.
* *encoders and finalizer*: playback is switched once, from nothing to a master of
  one attempt with everything it leads to stored, and none of it ever changes; an
  intact rendition is accepted, and the master says what is stored, whatever was
  claimed.
* *local work*: attempts do not take the disk from each other, the budget is what
  they hold, and they end.
* *receive loop and process*: a place for every message that may come, protection as
  long as there are tasks, no counted receive dropped, shutdown completes whatever
  the connection does, no message is asked for without a database, and a
  configuration that can be refused is refused before anything is opened.

## 2. Modules

| module | models | extends |
|---|---|---|
| `JobLifecycle` | abstract: the public statuses and spent attempts of a job | |
| `JobLease` | the jobs table, one action per statement | |
| `OwnedAttempt` | deliveries of one record statement by statement: mutex, connection, replies, uploads, heartbeat, clocks, crashes | `JobLease` |
| `Delivery` | messages with several records, the record loop, queue, redelivery, dead letters | `JobLease` |
| `WorkerPool` | `run_protected` and ECS task protection | |
| `EncoderSlots` | abstract: encoders of a job under a cap, one launching attempt at a time | |
| `Orchestration` | `OrchestrationBridge::run` of all attempts of a job, Step Functions and ECS around it | |
| `ResidualScan` | the calls behind one step of `Orchestration`: counting the encoders of an ended execution | |
| `AtomicPublication` | abstract: attempts become complete, playback is switched once | |
| `DistributedPublication` | child encoders and finalizers of overlapping attempts, the bucket, the row | `JobLease` |
| `RenditionMedia` | one rendition as data: encoder's checks, claims, finalizer's inspection, master entry | |
| `LocalWork` | cli attempts on a machine: budget, limits, FFmpeg, directories, storage and executor | |
| `Heartbeat` | the heartbeat of a delivery with several records, timed, and the last call to the queue | |
| `WorkerProcess` | a process from its environment to its exit code | `WorkerPool` |
| `...Proofs` | theorems about the module of that name; `WorkerProcessProofs` also about `WorkerPool`, `OrchestrationProofs` about `ResidualScan`, `EncodingProofs` about `LocalWork` and `RenditionMedia` | it, `TLAPS` |
| `MC...` | instances for TLC | |

Which composes which: `JobLease` is the row under `OwnedAttempt`, `Delivery` and
`DistributedPublication`, each of which takes its statements as they are and adds
who sends them; `WorkerProcess` runs the loop of `WorkerPool` between start-up and
exit. The others stand beside these and open one of their steps: `Heartbeat` the
clocks of a delivery, `ResidualScan` the step `CountResidual` of `Orchestration`,
`RenditionMedia` what `DistributedPublication` takes as one object, `LocalWork` the
pipeline that is a single wait in `OwnedAttempt`.

**JobLease.** A row is a record with the columns that predicates read. The lease is
the number of ticks left, so `lease_expires_at > now` is `lease > 0` and `<= now` is
`lease = 0`; `LeaseTick` lets the database's time pass. `published_manifest_key` is
0 for NULL or the number of the attempt whose canonical key it is: the code refuses
every other key before the statement. Any worker may run any statement at any time,
which is more than the worker code does; what holds here needs only the SQL. Rows of
an older deployment (mode `cli`, attempt 0, any status) are initial rows, as
migrations 0002 and 0003 leave them.

**OwnedAttempt.** A *task* is the handling of one record by a process. Its `pc`
follows `acquire_notification`, `process_with_cleanup` or `run_distributed`, and
`beat` its heartbeat, with one record. `conn[w]` is the queue of statements process
`w` has sent; `Execute` applies the oldest, answers, or fails with the effect in
doubt. When a future is dropped (`Abandon`: deadline, loss, shutdown, panic) its
mutex guard is released and its statement is either withdrawn or left to be executed
without a reader. Uploads are in `writes` until they land or are lost, also when the
task that sent them is gone. A cli attempt writes `CliObjects` objects under a
prefix shared by all attempts; a distributed one writes its master under a prefix of
its own (its children's objects are external). Time is one `Tick` for all clocks.
`PromptWatchdog` makes an overdue watchdog act before anything else, as on a machine
that is not starved. `LocalDeadlineSound` and `RunningAttemptNotEnded` depend on it,
since the flag is what the checkpoints of statements and uploads read; the order of
the output does not. The mutexes for storage and encoder are in `LocalWork`.

**Delivery.** An attempt is reduced to its last statement; in return a message has
several records, which are all acquired before any is processed, and dispositions,
`acknowledge`, `retry_delay`, redelivery and the redrive policy are there in full.
Time is not measured: visibility and leases may end at any moment (`Heartbeat` is
where it is). A slot is a place for one delivery in a process; a slot without one
forgets everything but its number.

**WorkerPool.** Whole seconds with the constants of the code. The loop is polled
when one of its timers is due (`Due`), so no second passes before.

**WorkerProcess.** A setting is the class of values the code tells apart; numbers
are kept. `main` is a sequence of stages, each with the checks of what it opens, and
ends in an exit code with the stage that caused it. Inside the stage `pool` the
steps of `WorkerPool` happen while `main` polls it (`Polled`: the `select!` is
biased, and a connection that stopped is seen first); the connection may stop at any
moment, a signal kills the process until its handler is installed and asks for a
shutdown afterwards, and `supervise_database` turns a stopped connection into a
shutdown and waits for the loop.

**Orchestration.** One coordinator per attempt of a job; a `pc` is a call it awaits.
What the code does between two awaits, its checks for a signal and for `deadline_at`
included, belongs to the step that ends the first of them; the `...Head` operators
say where the code goes from there. Begin with the residual of earlier attempts:
`inspecting`, `cancelling_prior` and `counting` are one pass over them, a pass that
met a running or unknown execution is `pending` and does not count, and
`cancelling_priors` is the way out. `starting`, `resolving` and `resolving_last` are
the tries of `start_or_attach`, then `polling`, `finalizing` and `cancelling`. What
a coordinator returns is left out: the row of the job is given back or lost, and in
both cases the next attempt may `Begin`. The environment: `exec[a]` and
`child[a][r]` are Step Functions and ECS. A start whose answer is an error, or that
is dropped, had its effect or had none; a describe may miss an execution that exists
`Misses` times; a stop may have no effect. Three constants switch on what no code
here can rule out: `Foreign` are names somebody else has taken, `LateStart` lets a
start take effect after it was given up, `LateRecord` lets an encoder run before its
ARN is in the history, or without. An execution that begins when the row no longer
counts its attempt is `Overdue`. The encoders a coordinator can account for are
`Accounted`: they run, they have an ARN in the history, and their execution is not
overdue. The state machine's own definition (`terraform-compute/orchestration.tf`)
gives `Schedule`, `Launch` and `EndExecution`.

**ResidualScan.** The execution has ended, so its history is fixed: for each encoder
the page with a trace of it and the page with its ARN, either of which may be
missing. `ReadPage`, `DescribeChunk` and `StopOne` are the calls; a failed one ends
the scan without an answer. Meanwhile encoders start, end and are forgotten by ECS.
The variable `alive` remembers who ran when the scan was called, for
`CountBracketed`.

**DistributedPublication.** `enc[a][r]` is the encoder of a rendition launched for
attempt `a`: segments, playlist and result go up in this order, each when the one
before was answered, and what was sent takes effect at any time, more than once, or
never. `fin[a]` is the finalizer, which reads every object of every rendition, sends
the master, and completes the row under the mutex; `lost` is the flag it looks at,
at the same checkpoints. Attempts overlap, the row sees every statement of every
worker beside. The payload's identities are enumerated, so that only
`validate_payload` keeps one attempt from writing under the prefix of another.

**RenditionMedia.** A source and what FFmpeg makes of it are chosen; the encoder
checks them, scales and computes as it does (integers in u32 and u64, and the
product in f64), writes `result.json`; the objects are changed or not; the finalizer
inspects and computes for itself, and the entry of the master is what it found.
Texts are reduced to what both programs read of them: EXTINF lines, references, tags
with a URI, and what ffprobe reports. What is selected from a playlist is selected
by its position (`Selected`), which TLC and the provers both take.

**LocalWork.** Units of disk; what is in use is counted unit by unit, as the files
of each attempt (`Used`). An attempt measures the free space before it locks the
budget, downloads under the storage mutex, encodes under the executor mutex, where
`Look` is the sample every 100 ms, and uploads under the storage mutex again;
everything it may fail on is `PipelineEnds`. A dropped attempt gives its reservation
back and goes, while its FFmpeg, killed and not waited for, may write on, so that
its directory cannot be removed.

**Heartbeat.** Every deadline is the ticks left until then, on both sides: `lease`
and `visible` at the servers, `local` and `deadline` in the process. A call takes up
to `latency` ticks, one latency per behaviour, and is applied at any of them;
`budget` is the deadline it will set when it succeeds. The cadence skips ticks that
come while a cycle is due. A dropped call stays in `stray`. In the cli mode an
attempt retires from the heartbeat under the mutex of its last statement, and that
is what is modelled.

## 3. Runs

`tlc -config X.cfg M`; all with `CHECK_DEADLOCK FALSE` where the system may stop
(jobs and messages end, bounded attempts are used up).

| run | bounds | shows |
|---|---|---|
| `attempt` | one process, 2 deliveries of one job in the modes cli and distributed, lease 2, limit 2, 2 objects, symmetric tasks | `LocalDeadlineSound`, `RunningAttemptNotEnded`, `ManifestLast`, `CompletedOutputStored`: abandoned statements, late replies and uploads in flight never end or expose the wrong attempt |
| `attempt_liveness` | cli, lease 1, limit 2, 1 object, late watchdog and silent database allowed | `LockReleased`, `DeliveryEnds` |
| `delivery` | one message with the records of two jobs, or two that share a job, one of them with a malformed record besides; a cli and a distributed slot; lease 1, limit 2, 2 receives | `DeletedMeansCompleted`, `DelayOnlyWhenReleased`, `MessageSettles` |
| `worker_process` | concurrency 2, lifetimes 20 and 24 s, update 4, drain 5, pause 10; environments that meet and miss every bound by one | `TasksProtected`, `CountedNotDropped`, `SettingsRefusedFirst`, `NothingReceivedBlind`, `NoTaskLeftBehind`, `ProcessStops` |
| `orchestration` | 2 attempts, 2 symmetric renditions, cap 2, 1 try, 2 confirmations, 1 miss, late records | `ChildBound`, refinement of `EncoderSlots` (`ImplementsSlots`) |
| `orchestration_liveness` | 2 attempts, 1 rendition, cap 1; the first name is taken, late starts, late records | `CompletedBySuccess`, `BridgeReturns` |
| `residual_scan` | 2 encoders, 2 clusters and ARNs without one, 2 pages, batches of 1 | `CountBracketed`, `NeverClearedBlindly`, `ResidualsEnd` |
| `publication` | 1 job, 2 workers, lease 2, limit 2, 2 renditions of 1 segment | types, `PlaybackResolvable`, `LapsedLeaseNeverRevived`, `LiveLeaseNotStolen`, refinement of `JobLifecycle`; `PublishedPlayable`, `MasterImmutable`, refinement of `AtomicPublication` |
| `rendition_media` | both ceilings; dimensions at, above and below them, odd, zero, and two that the floating point product rounds below; lengths, durations and limits around each other; up to 2 references; u32 of 15 | `SuccessfulEncodeAccepted`, `VariantTruthful`, `ClaimsConfirmed` |
| `local_work` | 3 attempts, disk 5, temporary 2, source 1, reserve 1, 2 units between looks | `ReserveKept`, `BudgetExact`, `WorkEnds` |
| `heartbeat` | 2 records, lease 6, visibility 7, interval 3, delay 2, latency 1 or 7 | `BeliefSound`, `EndCostsNobody`, `PromptNeverLate`, `RetryScheduleKept` |
| `orchestration_loss` | as `orchestration_liveness` without the faults outside | a claim of the documents that the code does not keep, section 6 |

Two deliveries of one job are enough for every conflict in which one actor's late
step meets another's state: in one process they share the mutex, the connection and
`worker_id`, and what a delivery of another process could do besides is refused by
the predicates that `publication` checks with every statement of two workers. A
limit of 2 gives a first and a last attempt. A lease of 2 ticks lets time pass
between a renewal's request and its reply without ending the lease. In `delivery`,
one record in two messages gives busy, completed and failed dispositions. Two
lifetimes in the pool: the least that is accepted, and one with more room. In the
orchestration two attempts make an earlier and a later one, and two renditions under
a cap of two leave no slack. Two confirmations have a first and a last one (the code
has three, and relies on `Misses < Confirmations`). One try of a start has the start
and the last look; a second one, of the code's three, repeats the first, and the
proof has any number. Starts that take effect late stay with
`orchestration_liveness` and the proof: with them as well the states are too many.
Two encoders on two pages or one, in batches of one, make every order of reading,
ending and describing; that the count adds up over more is proved. Two renditions of
one segment have a first and a last object and a first and a last rendition, and two
attempts let the late uploads of one land beside the other's; more of each is
proved. The disk of 5 is what two attempts and the reserve take to the unit, so that
a third one is refused and any file beyond a reservation shows. In `heartbeat` a
latency of 1 is the longest for which the calls still fit between two beats (the
premise `Prompt` of `PromptNeverLate`, met with equality), and one of 7 outlasts
every deadline.

*Fairness.* `FairAttemptSpec`: time passes, timers that are due fire, tasks that can
run do; the mutex is strong fair for waiters because tokio's `Mutex` queues them.
The database and the bucket owe nothing: no fairness for `Execute` or `WriteLands`.
The watchdog is only weakly fair. `FairDeliverySpec`: a slot that can step does,
workers poll, visibility ends, SQS redrives. `FairProcessSpec`: the loop and the
supervisor are polled and time passes; message tasks owe nothing until they are
aborted, and neither signals nor the connection owe anything. `WorkFairness`:
measuring, reserving and removing end, a pipeline ends within its wall time whoever
it waits for, and the last statement is answered or its connection fails; no mutex
is promised to anybody. `AnsweredSpec`: `until_deadline` ends the calls it wraps
once the deadline has passed, and StopExecution, which it does not wrap, answers; no
other call owes an answer. Without the second half `BridgeReturns` does not hold:
`cancel(name).await` has no deadline (`worker/src/orchestration.rs:535`).
`FairScanSpec`: a coordinator that still has something to count calls again, calls
are answered if they are made often enough, and an encoder that was told to stop
stops. The other specifications state no fairness: their properties are about
safety.

## 4. Proofs

`JobLeaseProofs` (every set of jobs and workers, lease, limit): the inductive
invariant is the type invariant with `OwnedOnlyWhileProcessing` and
`PlaybackResolvable`. The second needs the first: that a row without an owner has no
lease is what makes `Unheld` imply that nobody works on it, and that an owned row
has a mode and attempt is what makes the pointer of a completed row the right one.
From it follow `LeaseTypes`, `OwnedRows`, `PlaybackRows`, the action properties
`NoRevival`, `NoTheft`, `ModeChosenOnce`, and `TableImplementsLifecycle`: every
statement is a step of the life cycle or a stutter. What the life cycle promises,
that an end is final, no attempt is given back and a job fails only with its
attempts used up, is proved of `JobLifecycle` and so holds of the table
(`EndsAreFinal`), and of whoever makes only steps of the table
(`TableKeepsPromises`).

`WorkerProcessProofs` (every concurrency, lifetimes and constants with
`LifetimeAssumption`: half a least lifetime is longer than an update and the drain;
every set of environments): of the loop first. `TasksProtected` is not inductive.
`MarginInv` says how much protection is left wherever there may be tasks: more than
what is left until the renewal plus the reserve while waiting, the reserve less the
time already spent in an update, and the drain less the time already drained.
`GuardedInv` says where the loop is unprotected it has no tasks. With the numbers of
the code the reserve leaves one second.

Then of the process. `ProcessRunsPool`: whatever `main`, the supervisor and the
signals do, the loop makes its own steps or none, so that the theorems about the
loop hold of the process (`ProcessProtected`, `ProcessKeepsCounted`). `ProcessInv`
adds what is known at each stage: every stage after the first has an accepted
configuration (`SettingsInv`), the loop is untouched until the start is over
(`StartInv`), a loop whose connection was over before its first poll goes straight
to its drain (`BlindInv`), and only a drained loop is returned from (`ReturnInv`).
From these follow `SettingsChecked`, `BlindProcessIdle` and `ReturnsDrained`.

`OrchestrationProofs` (any number of attempts, renditions, cap, tries and
confirmations, and whichever of the three faults happen): `ChildBound` by itself is
not inductive, since it says nothing of the encoders an execution is still going to
launch, nor of what a coordinator has found so far. The parts of the invariant:
`Quiet(n)`: no execution before attempt n runs, but for overdue ones; `Clear(a)`:
besides, the accounted encoders of those attempts and the renditions of a fit under
the cap. `Executions`: whatever attempt was started in time, or has a start pending
that may still land in time, is clear. `Children`: encoders belong to started
executions. `Knows`: a pass that is not pending has found everything before `prior`
quiet and counted at least its accounted encoders, and a coordinator that starts or
resolves is clear. `Misled`: describes without a result are no more than misses,
hence the last confirmation is true of every execution that was not overdue.
`Place`: an attempt before the current one has been told to stop, so that it starts
nothing in time any more. An earlier attempt can therefore only lose accounted
encoders, and `Clear` is kept by every step. The bound follows because only the last
attempt started in time (`Launcher`) adds to them.

`ChildBoundHolds` and `OrchestrationImplementsSlots` have no premise. What they are
about is `Accounted`, since of two kinds of encoders the code makes no count. One
without an ARN beside one that has one is neither counted nor stopped
(`sfn.rs:448` refuses an answer only when no ARN at all was found). And three
describes within a second do not prove that a start given up never lands
(`orchestration.rs:616`): it may do so behind the last look for it, and then its
encoders run beside those of the next attempt. Either takes the number of all
encoders above the cap; section 6 names the document that promises otherwise. What
the theorems say is that neither spreads: the accounted encoders keep under the cap
and take turns as before beside them. `AllEncodersBounded` joins the two: whenever
every encoder that runs is accounted for, the cap holds of all of them together.

`SuccessfulCompletion`, that a job is completed only for an execution that has
succeeded with every encoder's output, has no premise either, and nor have the types
(`OrchestrationTyped`). `SuccessInv` says that a coordinator at the finalizer has
seen an execution of its own attempt succeed, that an execution under a name
somebody else has taken is never polled, and that what has succeeded stays so, with
the outcome of its encoders.

`ResidualScan`, in the same module (any number of encoders, clusters and pages,
every batch): a scan only ever removes from what it has not described and adds to
what it has counted, and an encoder with an ARN that runs at the end ran at the
beginning. So whoever ran all along is still to be described or is counted, and
whoever is counted ran when the scan was called and was told to stop.

`OwnedAttemptProofs` (any number of processes, deliveries and objects, every lease
and limit, both modes) has three layers. *The protocol*: `ProtocolInv` says what is
on a connection and who waits for it: a task has one exchange under way on each
side, a reply has one reader at most, attempts are counted from 1, and the table
makes steps of `JobLease` only (`AttemptKeepsTable`), so that its promises hold
(`AttemptKeepsPromises`); the types follow. *The deadline*: `LocalDeadlineSound` is
not inductive, since a lease is granted before the task hears of it and renewed
while it works. `DeadlineInv` says that nobody else has an attempt somebody has or
is being granted (`AttemptsUnique`), that what ends an attempt was sent by the task
that is done with it (`EndingsPast`), that no statement which names only the process
and belongs to an older attempt of the job is on the connection of a task that works
(`NoOlder`: the connection is a queue, and the acquisition was behind it), and that
the row covers the local deadline of a task that runs, the budget of a renewal whose
answer is on the way, and the grant of an acquisition the task has not heard of.
These two theorems assume `PromptWatchdog`; without it TLC finds both properties
violated. *The output*: `OutputInv` says that what a task has published is stored,
that no upload under way is ahead of its task, that objects are stored in the order
of the manifest under every prefix, and that a completion is sent only behind the
last of them. It takes no watchdog: whatever is late, the order is kept by who waits
for whom.

`DistributedPublicationProofs` (any number of workers, attempts, renditions and
segments): `PublicationUsesTable` takes every step to a step of `JobLease` or a
stutter, so that the theorems about the table hold here. For the rest the chain is:
uploads go up in order and under the encoder's own prefix, hence whoever finds a
result finds everything it names (`ResultsAreLast`); a finalizer has read the result
of every rendition before its own, hence what lies behind it is whole; a master is
sent only behind the last, hence stored masters are whole; the row is completed only
with a stored one, by the attempt that holds it. `MasterImmutable` is about what a
stored master leads to, the objects of its renditions, and needs in addition that a
late upload writes again what is there. In the refinement of `AtomicPublication` an
attempt is complete when its master and every object of its renditions are stored
(`CompleteAttempts`); the invariant makes these the attempts with a master.
`SwitchedOnce` carries over what it promises: what a viewer is shown was complete
from the first, down to the last object, and is shown for ever.

`DeliveryProofs` (any number of messages, records, processes and slots): what a
delivery has learnt of a row stays true long enough. COMPLETED is absorbing,
attempts only grow, and an attempt that has lost its row never holds it again;
`DeliveryInvariant` relates each slot's dispositions, `acknowledge` and
`retry_delay` to the rows through these three, and the two properties are what it
says at the last step. `DeliveryTypes` bounds where a delivery can be in its
message, and `DeliveryKeepsTable` takes every step to a step of `JobLease` or a
stutter, whose promises therefore hold (`DeliveryKeepsPromises`).

`HeartbeatProofs` (any number of records, every interval, lease, visibility and
latency the settings allow): the invariant `BeatInv` has the parts `Times`,
`RunsDown` (a call carries the deadline it will set, run down by what it has taken,
so that a late answer promises no more than the server gave), `Covered`, `Tracked`,
`Exclusive` (who is about to end an attempt is not renewing one: the mutex) and
`LastCalls` (a heartbeat that was joined sends nothing). `RetrySchedulesAreKept`
rests on the last: what the queue may still apply after the retry delay is the one
extension that was under way at the join, and the process adds nothing to it.

`PromptHeartbeats` needs one more invariant, `PromptInv`, under the premise `Prompt`
that all calls of a cycle fit between two ticks of the cadence. A cycle begins with
a tick and is no further behind than its calls may have taken (`OnTime`); what it
has renewed was granted in full after it began, and the rest in the cycle before
(`Ahead`). So the oldest deadline is at most one interval and one cycle old, and
`Prompt` says that this is less than the lease and the visibility. `HeartbeatTypes`
keeps every time within what was asked for; it needs `RunsDown`, without which a
late answer could set a deadline beyond it.

`EncodingProofs`: of `LocalWork` (any number of attempts, every limit). `BudgetInv`
adds to `BudgetExact` which stages an attempt can hold a reservation in, without
which giving back could be done twice. For `ReserveKept`, `SpaceInv` says that the
files in use fit on the disk and that, as long as anybody holds a reservation, the
reservations and the reserve do together (`Backed`): admission compares them with
free space it has measured before, however stale, and that was never more than the
disk. Two hypotheses: the attempts are finitely many, or the disk could not be
counted, and `Disk >= Reserve`, since on a smaller disk the reserve is missing
before anybody works.

Of `RenditionMedia` (every set of dimensions, durations, sizes and limits with
`MediaAssumption`): `MediaInv` relates what is uploaded to what the encoder checked,
and an accepted rendition to what the finalizer read. That an intact rendition is
accepted (`EncodesAreAccepted`) then is arithmetic about two computations of the
same numbers: lemmas about the division of the bandwidth, about the scaled
dimensions, which stay within the ceiling, and about the peak rate, which both take
over the same segments. `VariantsAreTruthful` says that the master's entry is true
of what is stored, whatever was claimed, and `ClaimsAreConfirmed` that for an intact
rendition it is what was claimed.

Assumptions are the named `ASSUME`s of the modules, and TLC evaluates them.

Every invariant, every action property and every refinement of the runs is stated by
a theorem. Only model-checked is what depends on fairness, which the prover does not
reach: `LockReleased`, `DeliveryEnds`, `MessageSettles`, `ProcessStops`,
`BridgeReturns`, `ResidualsEnd` and `WorkEnds`; and `LossCancels`, which does not
hold (section 6). No run checks what is stated by `ModeChosenOnce`, `EndsAreFinal`,
`SwitchedOnce`, `AllEncodersBounded`, `RequestsHavePlace`, `OwnedRows` or, but for
`PublicationTypeOK`, the types: they need no small instance beside their proof. The
library's induction theorems take an operator as a parameter, which these provers do
not instantiate; where a proof needs a least member of a set it takes it from the
well-foundedness of the naturals (`WFMin`), and what is on the disk is counted as a
set of units (`Used`), so that the theorems about finite sets serve.

## 5. Not modelled

* The text of events and S3 keys, SDK calls and their error types, FFmpeg's command
  line, logging: conversions and I/O without shared state. `mark_processing` and
  `set_status`, which no running code calls.
* DescribeTasks answers late or lacks a task that runs: `ResidualScan` takes the
  state ECS reports as the state there is.
* The distributed mode in `Heartbeat`: its attempts retire outside the mutex
  (section 6), and what that costs is one more delivery.
* The API's handlers, which keep no state between requests; the row they insert and
  the rows they show are in `JobLease`. The frontend, one browser tab with one
  upload.
* Terraform beyond the state machine and the redrive policy, workflows, end-to-end
  drivers, test doubles (`worker/src/fakes.rs`, `persistence/src/postgres_live.rs`)
  and `src/agent`: not part of the running service.

## 6. Where documents and code differ

1. `orchestration_loss` shows it: "On loss of either the SQS visibility heartbeat or
   the database lease heartbeat, mark local ownership lost and attempt Step
   Functions execution cancellation on a best-effort basis."
   (`src/specs/tasks/phase3-23-worker-orchestration-bridge.md:76`). While an
   uncertain start is resolved, a denied or failed look returns without `cancel`,
   also when the start has taken effect and ownership is lost
   (`worker/src/orchestration.rs:730`).
2. "The attempt retires under this same lock after its state update."
   (`worker/src/heartbeat.rs:434`). A distributed attempt is retired by its caller
   after the mutex was released (`worker/src/completion.rs:408`).
3. "Do not permit a stale or different worker to renew, release, complete, or fail
   the current attempt." (`src/specs/tasks/phase2-02-job-lease-persistence.md:48`).
   The predicates name the process: an abandoned acquisition in front of a stale
   completion on the same connection is completed by it. `RunningAttemptNotEnded`
   shows that no attempt somebody works on is ended this way.
4. "Total temporary usage and free space are checked every 100 ms during encoding
   and again before publication" (`docs/runbooks/worker-scaling.md:438`). The last
   look is at the size of the directory only (`encoding/src/limits.rs:226`);
   `ReserveKept` holds all the same, since what it misses is a file nobody has
   reserved.

5. "Residual running children across those executions plus the new renditions must
   still fit the two-encoder-per-parent cap. If any prior execution cannot be
   inspected, or the combined bound cannot be established before the deadline, it
   does not start a new execution" (`docs/runbooks/distributed-encoding.md:26`). A
   history that names some of the encoders it requested counts as inspected, and the
   others are not among the residual (`worker/src/sfn.rs:448`); an execution three
   describes have not found counts as none (`worker/src/orchestration.rs:616`).
   `ChildBound` is the part of the claim that holds.

The last four are read off the code, no run is about them.

Not claimed anywhere here: that an upload in flight is revoked with its lease
(`worker/src/publish.rs:59` says that it is not; `ManifestLast` and
`CompletedOutputStored` hold all the same).

## 7. Plan

1. *Done*: every component of the worker (parsing and the two adapters in part),
   with the modules, runs and proofs above; a theorem for every invariant of the
   runs.
2. `VideoApi`: creation, status and playback over `JobLease`, with the worker's
   statements between the two queries of a request; then the frontend's poll against
   it.
3. `src/agent`, the repository's development automation: a cycle that must survive a
   crash at every step without a second delivery, and a bounded review loop. It is
   not part of the service and comes last.
