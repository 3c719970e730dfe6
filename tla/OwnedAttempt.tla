---------------------------- MODULE OwnedAttempt ----------------------------
(***************************************************************************)
(* Owned attempts: what a worker process does with a record between its    *)
(* receipt and the end of the attempt, against the jobs table of JobLease. *)
(* A task is the handling of one record.  It acquires the job, publishes   *)
(* the output object by object and ends the attempt, while its heartbeat   *)
(* renews the lease.  All tasks of a process share one worker_id, one      *)
(* database connection and the mutex in front of it.                       *)
(*                                                                         *)
(* Statements are executed in the order in which they were sent.  A future *)
(* dropped while it waits for a reply leaves its statement behind: it may  *)
(* have been sent, and then it is executed all the same.  An upload that   *)
(* is dropped may likewise still reach the bucket.                         *)
(*                                                                         *)
(* Deadlines are kept as ticks left, like leases.  Clocks run at the same  *)
(* rate; nothing says when a step happens after it became possible.        *)
(***************************************************************************)
EXTENDS JobLease, Integers, Sequences

CONSTANTS
  Task,            \* deliveries of a record
  Host,            \* Host[t]: the worker process that handles t
  JobOf,           \* JobOf[t]: the job its record names
  Modes,           \* modes a deployment may acquire in
  CliObjects,      \* objects a cli worker writes per attempt, the manifest last
  PromptWatchdog   \* a passed lease deadline is acted upon before all else

ASSUME AttemptAssumption ==
  /\ Host \in [Task -> Worker]
  /\ JobOf \in [Task -> Job]
  /\ Modes \subseteq JobMode
  /\ CliObjects \in Nat \ {0}
  /\ PromptWatchdog \in BOOLEAN

VARIABLES
  mode,      \* the mode of this deployment, the same for all its processes
  task,      \* task[t]: the local state of task t and of its heartbeat
  jobsLock,  \* jobsLock[w]: who holds the mutex around the connection of w
  conn,      \* conn[w]: statements of w the database has not executed yet
  replies,   \* replies the waiting side has not read yet
  writes,    \* uploads on their way to the output bucket
  stored     \* objects in the output bucket

attemptVars == <<jobs, task, jobsLock, conn, replies, writes, stored>>

\* A distributed worker writes the master only; its encoders write the rest.
NObjects == IF mode = "cli" THEN CliObjects ELSE 1

Side == {"main", "heartbeat"}

Object == 1..NObjects

Manifest == NObjects

Free == <<>>

TaskState ==
  [ pc     : {"idle", "lock", "claim", "acquire", "work", "put",
              "finishLock", "finish", "failLock", "fail", "retire", "done"},
    attempt: 0..MaxAttempts,    \* the attempt it acquired
    next   : 1..NObjects + 1,   \* the next object to publish
    lost   : BOOLEAN,           \* the ownership_lost flag
    active : BOOLEAN,           \* the heartbeat still tracks this attempt
    local  : 0..LeaseTicks,     \* ticks left until the local lease deadline
    beat   : {"off", "wait", "lock", "renew"},
    budget : 0..LeaseTicks ]    \* deadline if the renewal under way succeeds

Statement ==
  [ op: {"claim", "acquire", "renew", "release", "complete", "fail"},
    task: Task, side: Side, attempt: 0..MaxAttempts, awaited: BOOLEAN ]

Reply == [ task: Task, side: Side, result: {"applied", "refused", "error"},
           attempt: 0..MaxAttempts ]

Write == [ task: Task, attempt: 1..MaxAttempts, object: Object ]

AttemptTypeOK ==
  /\ LeaseTypeOK
  /\ mode \in Modes
  /\ task \in [Task -> TaskState]
  /\ jobsLock \in [Worker -> {Free} \cup (Task \X Side)]
  /\ conn \in [Worker -> Seq(Statement)]
  /\ replies \subseteq Reply
  /\ writes \subseteq Write
  /\ stored \in [Job -> SUBSET ((0..MaxAttempts) \X Object)]

AttemptInit ==
  /\ mode \in Modes
  /\ jobs = [j \in Job |-> [AbsentRow EXCEPT !.status = "UPLOADING"]]
  /\ task = [t \in Task |->
       [ pc |-> "idle", attempt |-> 0, next |-> 1, lost |-> FALSE,
         active |-> FALSE, local |-> 0, beat |-> "off", budget |-> 0 ]]
  /\ jobsLock = [w \in Worker |-> Free]
  /\ conn = [w \in Worker |-> <<>>]
  /\ replies = {}
  /\ writes = {}
  /\ stored = [j \in Job |-> {}]

-----------------------------------------------------------------------------
(* The mutex, the connection and the database.                             *)

LockIsFree(t) == jobsLock[Host[t]] = Free

Lock(t, side) == jobsLock' = [jobsLock EXCEPT ![Host[t]] = <<t, side>>]

Unlock(t) == jobsLock' = [jobsLock EXCEPT ![Host[t]] = Free]

Send(t, side, op) ==
  conn' = [conn EXCEPT ![Host[t]] = Append(@,
            [ op |-> op, task |-> t, side |-> side,
              attempt |-> task[t].attempt, awaited |-> TRUE ])]

\* The side s of task t reads the reply r to the statement it waits for.
Receive(t, side, r) ==
  /\ r \in replies
  /\ r.task = t /\ r.side = side
  /\ replies' = replies \ {r}

Awaits(s, t, sides) == s.task = t /\ s.side \in sides /\ s.awaited

\* A statement that was sent, with nobody to read its reply.
Unread(q, t, sides) ==
  [i \in 1..Len(q) |-> IF Awaits(q[i], t, sides) THEN [q[i] EXCEPT !.awaited = FALSE]
                                                 ELSE q[i]]

\* A statement that was not sent: the mutex is held until its reply, so that
\* it is the last one.
Withdrawn(q, t, sides) ==
  IF q # <<>> /\ Awaits(q[Len(q)], t, sides) THEN SubSeq(q, 1, Len(q) - 1) ELSE q

\* Dropping futures of t: the guard is dropped with them, the statement was
\* sent or not, and nobody reads its reply.
Abandon(t, sides) ==
  /\ conn' \in { [conn EXCEPT ![Host[t]] = Unread(@, t, sides)],
                 [conn EXCEPT ![Host[t]] = Withdrawn(@, t, sides)] }
  /\ replies' = {r \in replies : ~(r.task = t /\ r.side \in sides)}
  /\ jobsLock' = [jobsLock EXCEPT ![Host[t]] =
                    IF @ \in {t} \X sides THEN Free ELSE @]

Applies(s, j, w) ==
  \/ s.op = "claim"    /\ CanClaim(j)
  \/ s.op = "acquire"  /\ CanAcquire(j, mode)
  \/ s.op = "renew"    /\ CanRenew(j, w)
  \/ s.op = "release"  /\ CanRelease(j, w)
  \/ s.op = "fail"     /\ CanFail(j, w)
  \/ s.op = "complete" /\ mode = "cli" /\ CanComplete(j, w)
  \/ s.op = "complete" /\ mode = "distributed"
                       /\ CanCompleteDistributed(j, w, s.attempt, s.attempt)

Apply(s, j, w) ==
  \/ s.op = "claim"    /\ ClaimUpload(j)
  \/ s.op = "acquire"  /\ AcquireLease(j, w, mode)
  \/ s.op = "renew"    /\ RenewLease(j, w)
  \/ s.op = "release"  /\ ReleaseForRetry(j, w)
  \/ s.op = "fail"     /\ FailJob(j, w)
  \/ s.op = "complete" /\ mode = "cli" /\ Complete(j, w)
  \/ s.op = "complete" /\ mode = "distributed"
                       /\ CompleteDistributed(j, w, s.attempt, s.attempt)

\* The database executes the oldest statement of w, or the connection fails
\* before or after it did.
Execute(w) ==
  /\ conn[w] # <<>>
  /\ LET s == Head(conn[w])
         j == JobOf[s.task]
         Answer(result) ==
           replies' = IF s.awaited
             THEN replies \cup {[ task |-> s.task, side |-> s.side, result |-> result,
                                  attempt |-> jobs'[j].attempt ]}
             ELSE replies
     IN /\ conn' = [conn EXCEPT ![w] = Tail(@)]
        /\ \/ Applies(s, j, w) /\ Apply(s, j, w) /\ Answer("applied")
           \/ ~Applies(s, j, w) /\ UNCHANGED jobs /\ Answer("refused")
           \/ Applies(s, j, w) /\ Apply(s, j, w) /\ Answer("error")
           \/ UNCHANGED jobs /\ Answer("error")
  /\ UNCHANGED <<task, jobsLock, writes, stored>>

-----------------------------------------------------------------------------
(* Acquisition: process_delivery and acquire_notification.                 *)

\* The local deadline runs from before the first statement is sent.
Start(t) ==
  /\ task[t].pc = "idle"
  /\ task' = [task EXCEPT ![t].pc = "lock", ![t].local = LeaseTicks]
  /\ UNCHANGED <<jobs, jobsLock, conn, replies, writes, stored>>

ClaimUnderLock(t) ==
  /\ task[t].pc = "lock"
  /\ LockIsFree(t)
  /\ Lock(t, "main")
  /\ Send(t, "main", "claim")
  /\ task' = [task EXCEPT ![t].pc = "claim"]
  /\ UNCHANGED <<jobs, replies, writes, stored>>

\* Whether the upload was claimed now or earlier makes no difference.
ClaimReply(t) ==
  /\ task[t].pc = "claim"
  /\ \E r \in replies :
       /\ Receive(t, "main", r)
       /\ \/ /\ r.result # "error"
             /\ Send(t, "main", "acquire")
             /\ task' = [task EXCEPT ![t].pc = "acquire"]
             /\ UNCHANGED jobsLock
          \/ /\ r.result = "error"
             /\ Unlock(t)
             /\ task' = [task EXCEPT ![t].pc = "done"]
             /\ UNCHANGED conn
  /\ UNCHANGED <<jobs, writes, stored>>

\* An acquisition that comes back after the deadline is not worked on: the
\* row stays owned until its lease expires.
AcquireReply(t) ==
  /\ task[t].pc = "acquire"
  /\ Unlock(t)
  /\ \E r \in replies :
       /\ Receive(t, "main", r)
       /\ task' = [task EXCEPT ![t] =
            IF r.result = "applied" /\ @.local > 0
              THEN [@ EXCEPT !.pc = "work", !.attempt = r.attempt,
                             !.active = TRUE, !.beat = "wait"]
              ELSE [@ EXCEPT !.pc = "done"]]
  /\ UNCHANGED <<jobs, conn, writes, stored>>

\* Faulty variant: only the wait for the mutex can be given up.
DropAcquisitionWaiting(t) ==
  /\ task[t].pc = "lock"
  /\ Abandon(t, {"main"})
  /\ task' = [task EXCEPT ![t].pc = "done"]
  /\ UNCHANGED <<jobs, writes, stored>>

\* The acquisition is dropped at its deadline, or by a shutdown.
DropAcquisition(t) ==
  /\ task[t].pc \in {"lock", "claim", "acquire"}
  /\ Abandon(t, {"main"})
  /\ task' = [task EXCEPT ![t].pc = "done"]
  /\ UNCHANGED <<jobs, writes, stored>>

-----------------------------------------------------------------------------
(* The attempt: process_with_cleanup, publish_hls_with_checkpoint and, in  *)
(* distributed mode, run_distributed with the finalizer.                   *)

\* A cli attempt that is over retires its heartbeat before it leaves the
\* mutex; a distributed one is retired by its caller, later.
OverPc == IF mode = "cli" THEN "done" ELSE "retire"

Retired(r) == [r EXCEPT !.pc = OverPc, !.active = IF mode = "cli" THEN FALSE ELSE @]

\* The next upload of the publication loop.
PutObject(t, object) ==
  /\ task[t].pc = "work"
  /\ task[t].next <= NObjects
  /\ task' = [task EXCEPT ![t].pc = "put"]
  /\ writes' = writes \cup
       {[ task |-> t, attempt |-> task[t].attempt, object |-> object ]}
  /\ UNCHANGED <<jobs, jobsLock, conn, replies, stored>>

BeginPutReversed(t) == ~task[t].lost /\ PutObject(t, NObjects + 1 - task[t].next)

\* Ownership is checked right before every upload.
BeginPut(t) == ~task[t].lost /\ PutObject(t, task[t].next)

\* A checkpoint finds the flag set.
NoticeLoss(t) ==
  /\ task[t].pc \in {"work", "failLock"}
  /\ task[t].lost
  /\ task' = [task EXCEPT ![t].pc = OverPc]
  /\ UNCHANGED <<jobs, jobsLock, conn, replies, writes, stored>>

\* Anything else goes wrong in the pipeline or it runs out of time.  The
\* execution deadline of a distributed attempt also covers its completion.
AttemptFails(t) ==
  /\ task[t].pc \in {"work", "put"} \cup
       (IF mode = "cli" THEN {} ELSE {"finishLock", "finish"})
  /\ Abandon(t, {"main"})
  /\ task' = [task EXCEPT ![t].pc = IF task[t].lost THEN OverPc ELSE "failLock"]
  /\ UNCHANGED <<jobs, writes, stored>>

Finish(t) ==
  /\ task[t].pc = "work"
  /\ mode = "distributed" => ~task[t].lost
  /\ task' = [task EXCEPT ![t].pc = "finishLock"]
  /\ UNCHANGED <<jobs, jobsLock, conn, replies, writes, stored>>

\* Faulty variant: done before the manifest.
FinishPipelineEarly(t) == task[t].next >= NObjects /\ Finish(t)

FinishPipeline(t) == task[t].next > NObjects /\ Finish(t)

\* With the mutex in hand, an attempt sends its last statement.
SendLast(t, op, pc) ==
  /\ Lock(t, "main")
  /\ Send(t, "main", op)
  /\ task' = [task EXCEPT ![t].pc = pc]

LeaveLost(t) ==
  /\ task[t].lost
  /\ task' = [task EXCEPT ![t].pc = OverPc]
  /\ UNCHANGED <<jobsLock, conn>>

\* Faulty variant: the flag is not looked at under the mutex.
CompleteUnderLockUnchecked(t) ==
  /\ task[t].pc = "finishLock"
  /\ LockIsFree(t)
  /\ SendLast(t, "complete", "finish")
  /\ UNCHANGED <<jobs, replies, writes, stored>>

\* The cli worker looks at the flag once more when it has the mutex.
CompleteUnderLock(t) ==
  /\ task[t].pc = "finishLock"
  /\ LockIsFree(t)
  /\ \/ mode = "cli" /\ LeaveLost(t)
     \/ ~(mode = "cli" /\ task[t].lost) /\ SendLast(t, "complete", "finish")
  /\ UNCHANGED <<jobs, replies, writes, stored>>

CompleteReply(t) ==
  /\ task[t].pc = "finish"
  /\ Unlock(t)
  /\ \E r \in replies :
       /\ Receive(t, "main", r)
       /\ task' = [task EXCEPT ![t] =
            IF mode = "distributed" /\ r.result = "error" /\ ~@.lost
              THEN [@ EXCEPT !.pc = "failLock"]
              ELSE Retired(@)]
  /\ UNCHANGED <<jobs, conn, writes, stored>>

LastResort(t) == IF task[t].attempt < MaxAttempts THEN "release" ELSE "fail"

FailUnderLock(t) ==
  /\ task[t].pc = "failLock"
  /\ LockIsFree(t)
  /\ \/ LeaveLost(t)
     \/ ~task[t].lost /\ SendLast(t, LastResort(t), "fail")
  /\ UNCHANGED <<jobs, replies, writes, stored>>

FailReply(t) ==
  /\ task[t].pc = "fail"
  /\ Unlock(t)
  /\ \E r \in replies : Receive(t, "main", r)
  /\ task' = [task EXCEPT ![t] = Retired(@)]
  /\ UNCHANGED <<jobs, conn, writes, stored>>

Retire(t) ==
  /\ task[t].pc = "retire"
  /\ task' = [task EXCEPT ![t].pc = "done", ![t].active = FALSE]
  /\ UNCHANGED <<jobs, jobsLock, conn, replies, writes, stored>>

Attempting(t) ==
  task[t].pc \in {"work", "put", "finishLock", "finish", "failLock", "fail"}

\* Faulty variant: the loss is noticed only between calls.
DropLostAttemptBetweenCalls(t) ==
  /\ mode = "cli"
  /\ task[t].pc \in {"work", "put"}
  /\ task[t].lost
  /\ Abandon(t, {"main"})
  /\ task' = [task EXCEPT ![t].pc = "done"]
  /\ UNCHANGED <<jobs, writes, stored>>

\* A lost cli attempt is dropped wherever it is; a distributed one is not.
DropLostAttempt(t) ==
  /\ mode = "cli"
  /\ Attempting(t)
  /\ task[t].lost
  /\ Abandon(t, {"main"})
  /\ task' = [task EXCEPT ![t].pc = "done"]
  /\ UNCHANGED <<jobs, writes, stored>>

\* A shutdown drops the attempt; a caught panic retires it as well.
StopAttempt(t) ==
  /\ Attempting(t)
  /\ Abandon(t, {"main"})
  /\ \E active \in {task[t].active, task[t].active /\ mode # "cli"} :
       task' = [task EXCEPT ![t].pc = "done", ![t].active = active]
  /\ UNCHANGED <<jobs, writes, stored>>

-----------------------------------------------------------------------------
(* The heartbeat: start_with_context and renew_tick.                       *)

\* The watchdog looks at the lease only while the attempt is active.
Overdue(t) ==
  task[t].beat # "off" /\ task[t].active /\ task[t].local = 0

\* The budget of a renewal starts before its request.
BeginRenewal(t) ==
  /\ task[t].beat = "wait"
  /\ task[t].active /\ ~Overdue(t)
  /\ task' = [task EXCEPT ![t].beat = "lock", ![t].budget = LeaseTicks]
  /\ UNCHANGED <<jobs, jobsLock, conn, replies, writes, stored>>

\* The attempt may have retired while the heartbeat waited for the mutex.
RenewUnderLock(t) ==
  /\ task[t].beat = "lock"
  /\ LockIsFree(t) /\ ~Overdue(t)
  /\ \/ /\ task[t].active
        /\ Lock(t, "heartbeat")
        /\ Send(t, "heartbeat", "renew")
        /\ task' = [task EXCEPT ![t].beat = "renew"]
     \/ /\ ~task[t].active
        /\ task' = [task EXCEPT ![t].beat = "wait", ![t].local = task[t].budget]
        /\ UNCHANGED <<jobsLock, conn>>
  /\ UNCHANGED <<jobs, replies, writes, stored>>

\* Faulty variant: the budget starts with the reply.
RenewedFromResponse(r) == [r EXCEPT !.beat = "wait", !.local = LeaseTicks]

Renewed(r) == [r EXCEPT !.beat = "wait", !.local = r.budget]

RevokedOf(r) == [r EXCEPT !.beat = "off", !.lost = TRUE]

RenewReply(t) ==
  /\ task[t].beat = "renew"
  /\ Unlock(t)
  /\ \E r \in replies :
       /\ Receive(t, "heartbeat", r)
       /\ task' = [task EXCEPT ![t] =
            IF r.result = "applied" /\ ~Overdue(t) THEN Renewed(@) ELSE RevokedOf(@)]
  /\ UNCHANGED <<jobs, conn, writes, stored>>

\* However the heartbeat ends, it takes the permission to process with it.
Revoke(t) ==
  /\ task[t].beat # "off"
  /\ Abandon(t, {"heartbeat"})
  /\ task' = [task EXCEPT ![t] = RevokedOf(@)]
  /\ UNCHANGED <<jobs, writes, stored>>

WatchdogFires(t) == Overdue(t) /\ Revoke(t)

\* The visibility deadline passes or its extension fails.
LoseVisibility(t) == task[t].pc # "done" /\ Revoke(t)

\* The delivery cancels and joins the heartbeat of an attempt that is over.
JoinHeartbeat(t) == task[t].pc = "done" /\ Revoke(t)

-----------------------------------------------------------------------------
(* The bucket, time, and the end of a process.                             *)

Prefix(a) == IF mode = "cli" THEN 0 ELSE a

\* An upload reaches the bucket; the task goes on if it still waits for it.
WriteLands(x) ==
  LET waiting == /\ task[x.task].pc = "put" /\ task[x.task].next = x.object
  IN /\ x \in writes
     /\ writes' = writes \ {x}
     /\ stored' = [stored EXCEPT ![JobOf[x.task]] =
                     @ \cup {<<Prefix(x.attempt), x.object>>}]
     /\ task' = [task EXCEPT ![x.task] =
                   IF waiting THEN [@ EXCEPT !.pc = "work", !.next = x.object + 1]
                              ELSE @]
     /\ UNCHANGED <<jobs, jobsLock, conn, replies>>

WriteIsLost(x) ==
  /\ x \in writes
  /\ task[x.task].pc # "put"
  /\ writes' = writes \ {x}
  /\ UNCHANGED <<jobs, task, jobsLock, conn, replies, stored>>

Less(n) == IF n > 0 THEN n - 1 ELSE 0

Tick ==
  /\ (\E j \in Job : Live(j)) \/ \E t \in Task : task[t].local + task[t].budget > 0
  /\ jobs' = [j \in Job |-> AgedRow(jobs[j])]
  /\ task' = [t \in Task |->
       [task[t] EXCEPT !.local = Less(@), !.budget = Less(@)]]
  /\ UNCHANGED <<jobsLock, conn, replies, writes, stored>>

Crash(w) ==
  LET dead == {t \in Task : Host[t] = w}
  IN /\ \E t \in dead : task[t].pc # "done"
     /\ task' = [t \in Task |-> IF t \in dead
                   THEN [task[t] EXCEPT !.pc = "done", !.beat = "off"] ELSE task[t]]
     /\ jobsLock' = [jobsLock EXCEPT ![w] = Free]
     /\ \/ conn' = [conn EXCEPT ![w] = <<>>]
        \/ conn' = [conn EXCEPT ![w] =
                      [i \in 1..Len(@) |-> [@[i] EXCEPT !.awaited = FALSE]]]
     /\ replies' = {r \in replies : r.task \notin dead}
     /\ UNCHANGED <<jobs, writes, stored>>

OtherNext ==
  \/ \E t \in Task :
       \/ Start(t) \/ ClaimUnderLock(t) \/ ClaimReply(t) \/ AcquireReply(t)
       \/ DropAcquisition(t)
       \/ BeginPut(t) \/ NoticeLoss(t) \/ AttemptFails(t) \/ FinishPipeline(t)
       \/ CompleteUnderLock(t) \/ CompleteReply(t)
       \/ FailUnderLock(t) \/ FailReply(t) \/ Retire(t)
       \/ DropLostAttempt(t) \/ StopAttempt(t)
       \/ BeginRenewal(t) \/ RenewUnderLock(t) \/ RenewReply(t)
       \/ LoseVisibility(t) \/ JoinHeartbeat(t)
  \/ \E w \in Worker : Execute(w) \/ Crash(w)
  \/ \E x \in writes : WriteLands(x) \/ WriteIsLost(x)
  \/ Tick

AttemptNext ==
  /\ \/ \E t \in Task : WatchdogFires(t)
     \/ (PromptWatchdog => \A t \in Task : ~Overdue(t)) /\ OtherNext
  /\ UNCHANGED mode

AttemptSpec == AttemptInit /\ [][AttemptNext]_<<attemptVars, mode>>

-----------------------------------------------------------------------------
(* Properties.                                                             *)

\* The attempt t works for is the one the row grants to its process.
Granted(t) ==
  /\ HeldBy(JobOf[t], Host[t])
  /\ jobs[JobOf[t]].attempt = task[t].attempt

\* While its own clock says that the lease runs, an attempt that works does
\* own the row: the deadline kept by the heartbeat never outlives the lease,
\* whatever requests and replies are delayed, dropped or executed late.
LocalDeadlineSound ==
  \A t \in Task :
    /\ task[t].pc \in {"work", "put"}
    /\ task[t].active /\ ~task[t].lost
    /\ task[t].local > 0
    => Granted(t)

Sent(w) == {conn[w][i] : i \in 1..Len(conn[w])}

\* The oldest statement s of w ends the attempt of its job once executed.
AboutToEnd(w, s) ==
  /\ conn[w] # <<>> /\ s = Head(conn[w])
  /\ s.op \in {"release", "complete", "fail"}
  /\ Applies(s, JobOf[s.task], w)

\* Statements name the process, not the attempt.  Still, what an attempt
\* leaves behind on the connection never ends an attempt that another task of
\* the same process is working on.
RunningAttemptNotEnded ==
  \A t \in Task : Attempting(t) /\ Granted(t) =>
    \A s \in Sent(Host[t]) :
      AboutToEnd(Host[t], s) /\ JobOf[s.task] = JobOf[t]
        => s.attempt = task[t].attempt

\* The manifest in the bucket never refers to a segment that is not there,
\* with retries and abandoned uploads writing under the same prefix.
ManifestLast ==
  \A j \in Job, a \in 0..MaxAttempts :
    <<a, Manifest>> \in stored[j] => \A o \in Object : <<a, o>> \in stored[j]

\* A COMPLETED job has all its output under the prefix that playback uses.
CompletedOutputStored ==
  \A j \in Job : jobs[j].status = "COMPLETED" =>
    \A o \in Object : <<jobs[j].pointer, o>> \in stored[j]

-----------------------------------------------------------------------------
(* Liveness.  Timers fire and runnable tasks run, and the mutex is handed   *)
(* out in the order of requests (tokio's Mutex is fair), so that who waits  *)
(* for a mutex that is free again and again gets it.  The database and the  *)
(* bucket owe nothing: no fairness for Execute or WriteLands.               *)

DropOverdueAcquisition(t) == task[t].local = 0 /\ DropAcquisition(t)

\* The wall time of a pipeline is bounded in both modes.
PipelineTimesOut(t) == task[t].pc \in {"work", "put"} /\ AttemptFails(t)

AttemptFairness ==
  /\ WF_attemptVars(Tick)
  /\ \A t \in Task :
       /\ WF_attemptVars(DropOverdueAcquisition(t))
       /\ WF_attemptVars(PipelineTimesOut(t))
       /\ SF_attemptVars(CompleteUnderLock(t))
       /\ SF_attemptVars(FailUnderLock(t))
       /\ WF_attemptVars(Retire(t))
       /\ WF_attemptVars(DropLostAttempt(t))
       /\ WF_attemptVars(WatchdogFires(t))
       /\ WF_attemptVars(JoinHeartbeat(t))

FairAttemptSpec == AttemptSpec /\ AttemptFairness

\* Whoever holds the mutex lets go of it, also when the database stays silent.
LockReleased ==
  \A w \in Worker : jobsLock[w] # Free ~> jobsLock[w] = Free

\* Every delivery that was started comes to an end.
DeliveryEnds ==
  \A t \in Task : task[t].pc # "idle" ~> task[t].pc = "done"

=============================================================================
