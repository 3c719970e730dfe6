---------------------------- MODULE ResidualScan ----------------------------
(***************************************************************************)
(* How a coordinator counts the encoders that an ended execution has left   *)
(* behind (sfn.rs): it reads the history page by page for the ARNs of ECS   *)
(* tasks, asks ECS for their state in batches of one cluster, tells those   *)
(* that have not stopped to stop and answers how many they were.  All the   *)
(* while encoders go on, stop, and are forgotten by ECS.  Orchestration     *)
(* sees all of this as one step, CountResidual.                            *)
(*                                                                         *)
(* The execution has ended, so its history does not grow any more.  A page  *)
(* is what it shows of each encoder: that a task was requested, and its ARN *)
(* (in the output of its submission, or in the cause of its failure).       *)
(***************************************************************************)
EXTENDS Naturals, FiniteSets

CONSTANTS
  Encoder,     \* ECS tasks the execution has requested
  Cluster,     \* clusters that ARNs name
  NoCluster,   \* an ARN of the old format names none
  Pages,       \* pages of the history
  Batch        \* ECS_DESCRIBE_BATCH

ASSUME ScanAssumption ==
  /\ IsFiniteSet(Encoder)
  /\ NoCluster \notin Cluster
  /\ Pages \in Nat \ {0} /\ Batch \in Nat \ {0}

VARIABLES
  requested,  \* requested[e]: the page with a trace of e, 0 if there is none
  named,      \* named[e]: the page with the ARN of e, 0 if there is none
  cluster,    \* cluster[e]: the cluster its ARN names
  task,       \* task[e]: what ECS knows of e
  pc,         \* the call that is awaited, or how the scan has ended
  page,       \* the page that is read next
  saw,        \* saw_ecs_task
  arns,       \* ARNs collected so far
  todo,       \* ARNs not described yet
  residual,   \* encoders found alive
  told,       \* encoders this scan has told to stop
  stopping,   \* encoders any scan has told to stop
  alive       \* encoders that ran with a known ARN when the scan was called

history == <<requested, named, cluster>>
scanVars == <<pc, page, saw, arns, todo, residual, told, stopping, alive>>
residualVars == <<history, task, scanVars>>

Page == 0..Pages

\* "pending" is not requested from ECS yet; "running" is every status but
\* STOPPED; ECS forgets a task after a while.
TaskState == {"never", "pending", "running", "stopped", "forgotten"}

ScanTypeOK ==
  /\ requested \in [Encoder -> Page] /\ named \in [Encoder -> Page]
  /\ cluster \in [Encoder -> Cluster \cup {NoCluster}]
  /\ task \in [Encoder -> TaskState]
  /\ pc \in {"idle", "history", "describe", "stop", "answered", "failed"}
  /\ page \in 1..Pages /\ saw \in BOOLEAN
  /\ arns \subseteq Encoder /\ todo \subseteq arns
  /\ residual \subseteq arns /\ told \subseteq residual
  /\ stopping \subseteq Encoder /\ alive \subseteq Encoder

\* A task has its ARN from the moment it was requested, the history may learn
\* it later or, when the execution has been stopped in between, never.
PossibleTasks(e) ==
  IF requested[e] = 0 THEN {"never"}
  ELSE IF named[e] = 0 THEN {"never", "pending", "running", "stopped"}
  ELSE {"running", "stopped", "forgotten"}

ScanInit ==
  /\ requested \in [Encoder -> Page] /\ named \in [Encoder -> Page]
  /\ \A e \in Encoder : named[e] = 0 \/ requested[e] \in 1..named[e]
  /\ cluster \in [Encoder -> Cluster \cup {NoCluster}]
  /\ task \in [Encoder -> TaskState]
  /\ \A e \in Encoder : task[e] \in PossibleTasks(e)
  /\ pc = "idle" /\ page = 1 /\ saw = FALSE
  /\ arns = {} /\ todo = {} /\ residual = {} /\ told = {}
  /\ stopping = {} /\ alive = {}

\* Encoders that run and whose ARN the history knows.
LiveRecorded == {e \in Encoder : named[e] # 0 /\ task[e] = "running"}

-----------------------------------------------------------------------------
(* residual_running_children                                               *)

\* Every look at an earlier attempt is a new call.
Call ==
  /\ pc \in {"idle", "answered", "failed"}
  /\ pc' = "history" /\ page' = 1 /\ saw' = FALSE
  /\ arns' = {} /\ todo' = {} /\ residual' = {} /\ told' = {}
  /\ alive' = LiveRecorded
  /\ UNCHANGED <<history, task, stopping>>

NamedOn(k) == {e \in Encoder : named[e] = k}

\* scan_history_event: an event of ECS leaves a trace with or without an ARN.
SeenOn(k) == \E e \in Encoder : k \in {requested[e], named[e]}

\* Faulty variant: whoever has left no ARN has not run.
AfterHistoryTrusting(seen, found) ==
  IF found = {} THEN "answered"
  ELSE IF \E e \in found : cluster[e] = NoCluster THEN "failed"
  ELSE "describe"

\* finish_history_task_scan and the grouping by cluster: traces of tasks
\* without a single ARN, or an ARN without a cluster, cannot be resolved.
AfterHistory(seen, found) ==
  IF found = {} THEN IF seen THEN "failed" ELSE "answered"
  ELSE IF \E e \in found : cluster[e] = NoCluster THEN "failed"
  ELSE "describe"

ReadPage ==
  /\ pc = "history"
  /\ saw' = (saw \/ SeenOn(page))
  /\ arns' = arns \cup NamedOn(page)
  /\ IF page < Pages
     THEN pc' = "history" /\ page' = page + 1 /\ UNCHANGED todo
     ELSE pc' = AfterHistory(saw', arns') /\ page' = 1 /\ todo' = arns'
  /\ UNCHANGED <<history, task, residual, told, stopping, alive>>

\* Faulty variant: only the first batch of a cluster is described.
LeftAfterFirst(chunk) ==
  {e \in todo : \A d \in chunk : cluster[d] # cluster[e]}

LeftAfter(chunk) == todo \ chunk

\* A batch is of one cluster, and full if the cluster has as many left.
IsBatch(chunk) ==
  LET k == cluster[CHOOSE e \in chunk : TRUE]
      rest == {e \in todo : cluster[e] = k}
  IN /\ chunk \subseteq rest
     /\ Cardinality(chunk) = IF Cardinality(rest) < Batch THEN Cardinality(rest) ELSE Batch

\* Faulty variant: a task that is MISSING is taken for one that runs.
AliveUnlessStopped(chunk) == {e \in chunk : task[e] # "stopped"}

\* classify_live_tasks: what has stopped or is MISSING is no residual.
Alive(chunk) == {e \in chunk : task[e] \notin {"stopped", "forgotten"}}

DescribeChunk ==
  /\ pc = "describe"
  /\ \E chunk \in (SUBSET todo) \ {{}} :
       /\ IsBatch(chunk)
       /\ todo' = LeftAfter(chunk)
       /\ residual' = residual \cup Alive(chunk)
  /\ pc' = IF todo' # {} THEN "describe" ELSE IF residual' = {} THEN "answered" ELSE "stop"
  /\ UNCHANGED <<history, task, page, saw, arns, told, stopping, alive>>

AfterStop(all) == IF all = residual THEN "answered" ELSE "stop"

\* StopTask is best effort: its answer is ignored.
StopOne ==
  /\ pc = "stop"
  /\ \E e \in residual \ told :
       /\ told' = told \cup {e}
       /\ stopping' \in {stopping, stopping \cup {e}}
  /\ pc' = AfterStop(told')
  /\ UNCHANGED <<history, task, page, saw, arns, todo, residual, alive>>

\* An error of a page or of a batch (an answer with a blank, a failure other
\* than MISSING, or not about every ARN asked for); or the caller's deadline.
ScanFails ==
  /\ pc \in {"history", "describe", "stop"}
  /\ pc' = "failed"
  /\ UNCHANGED <<history, task, page, saw, arns, todo, residual, told, stopping, alive>>

-----------------------------------------------------------------------------
(* ECS                                                                     *)

Becomes(e, from, to) ==
  /\ task[e] = from
  /\ task' = [task EXCEPT ![e] = to]
  /\ UNCHANGED <<history, scanVars>>

TaskStarts(e) == Becomes(e, "pending", "running")

TaskStops(e) == Becomes(e, "running", "stopped")

TaskForgotten(e) == Becomes(e, "stopped", "forgotten")

ScanNext ==
  \/ Call \/ ReadPage \/ DescribeChunk \/ StopOne \/ ScanFails
  \/ \E e \in Encoder : TaskStarts(e) \/ TaskStops(e) \/ TaskForgotten(e)

ScanSpec == ScanInit /\ [][ScanNext]_residualVars

\* The coordinator looks again and again, and neither Step Functions nor ECS
\* refuses for ever; a task that was told to stop stops, and some request to
\* stop arrives.
FairScanSpec ==
  /\ ScanSpec
  /\ WF_residualVars(Call)
  /\ SF_residualVars(ReadPage) /\ SF_residualVars(DescribeChunk)
  /\ \A e \in Encoder :
       /\ SF_residualVars(StopOne /\ e \in stopping' \ stopping)
       /\ WF_residualVars(e \in stopping /\ TaskStops(e))
  /\ SF_residualVars(StopOne)

-----------------------------------------------------------------------------
(* Properties.                                                             *)

\* The answer may be taken for a count at one instant of the call, although
\* history and batches are read one after the other while encoders end: it
\* counts every recorded encoder that still runs, and none that had ended
\* before the call.  And none is merely counted: this scan has told it to stop.
CountBracketed ==
  pc = "answered" =>
    /\ LiveRecorded \subseteq residual /\ residual \subseteq alive
    /\ told = residual

\* An execution is never cleared blindly: an answer without any ARN means
\* that no encoder runs or is still to come, not even one without an ARN.
\* An encoder without an ARN is overlooked only beside one that has its own.
NeverClearedBlindly ==
  pc = "answered" /\ arns = {} =>
    \A e \in Encoder : task[e] \notin {"pending", "running"}

\* Residual encoders do not hold the next attempt back for ever: from some
\* point on every answer is that nobody is left.
ResidualsEnd == <>[](pc = "answered" => residual = {})
=============================================================================
