--------------------------- MODULE JobLeaseProofs ---------------------------
(***************************************************************************)
(* Proofs about the jobs table, for any set of jobs and workers, any lease *)
(* duration and any attempt limit.                                         *)
(***************************************************************************)
EXTENDS JobLease, TLAPS

\* The three invariants together are inductive; none of the last two is alone.
LeaseInv == LeaseTypeOK /\ OwnedOnlyWhileProcessing /\ PlaybackResolvable

\* A row changes in a step only by one statement on that row, or by time.
RowStep(j) ==
  \/ InsertJob(j) \/ ClaimUpload(j)
  \/ \E w \in Worker, m \in JobMode : AcquireLease(j, w, m)
  \/ \E w \in Worker :
       RenewLease(j, w) \/ ReleaseForRetry(j, w) \/ Complete(j, w) \/ FailJob(j, w)
  \/ \E w \in Worker, a, key \in 0..MaxAttempts : CompleteDistributed(j, w, a, key)

\* Every step is one statement on one row, or time.
LEMMA NextIsRowStep == LeaseNext <=> (\E j \in Job : RowStep(j)) \/ LeaseTick
  BY DEF LeaseNext, RowStep

\* The new value r of the row of j, and every other row left alone.
RowUpdate(j, r) == jobs' = [jobs EXCEPT ![j] = r]

\* One row's share of the invariant.
RowInv(r) ==
  /\ r \in Row
  /\ r.owner = NoWorker => ~(r.lease > 0)
  /\ r.owner # NoWorker => r.status = "PROCESSING" /\ r.mode # "unset" /\ r.attempt > 0
  /\ r.pointer # 0 => r.status = "COMPLETED"
  /\ r.status = "COMPLETED" =>
       \/ r.mode = "cli" /\ r.pointer = 0
       \/ r.mode = "distributed" /\ r.attempt > 0 /\ r.pointer = r.attempt

\* The invariant says the same of every row.
LEMMA InvByRow == LeaseInv <=> DOMAIN jobs = Job /\ jobs = [j \in Job |-> jobs[j]]
                                 /\ \A j \in Job : RowInv(jobs[j])
  BY DEF LeaseInv, LeaseTypeOK, OwnedOnlyWhileProcessing, PlaybackResolvable,
         RowInv, Live

\* And after a step.
LEMMA InvByRowPrimed ==
  ASSUME jobs' = [j \in Job |-> jobs'[j]], \A j \in Job : RowInv(jobs'[j])
  PROVE  LeaseInv'
  BY DEF LeaseInv, LeaseTypeOK, OwnedOnlyWhileProcessing, PlaybackResolvable,
         RowInv, Live

\* The rows a worker may find when it starts.
LEMMA InitialRow ==
  ASSUME NEW r \in LegacyRows \cup {AbsentRow}
  PROVE  \E s \in Status \cup {"ABSENT"}, m \in {"cli", "unset"} :
           /\ s # "ABSENT" => m = "cli"
           /\ r = [status |-> s, mode |-> m, owner |-> NoWorker,
                   lease |-> 0, attempt |-> 0, pointer |-> 0]
  <1>1. CASE r = AbsentRow
    BY <1>1 DEF AbsentRow
  <1>2. CASE r \in LegacyRows
    <2>1. PICK s \in Status : r = [AbsentRow EXCEPT !.status = s, !.mode = "cli"]
      BY <1>2 DEF LegacyRows
    <2>2. r = [status |-> s, mode |-> "cli", owner |-> NoWorker,
               lease |-> 0, attempt |-> 0, pointer |-> 0]
      BY <2>1 DEF AbsentRow
    <2>3. QED BY <2>2
  <1>3. QED BY <1>1, <1>2

\* Types, row consistency and playback resolution hold initially.
LEMMA InitInv == LeaseInit => LeaseInv
  <1> SUFFICES ASSUME LeaseInit PROVE LeaseInv
    OBVIOUS
  <1>1. ASSUME NEW r \in LegacyRows \cup {AbsentRow}
        PROVE  RowInv(r)
    BY <1>1, InitialRow, LeaseAssumption DEF RowInv, Row, Status, JobMode
  <1>2. jobs = [j \in Job |-> jobs[j]] /\ \A j \in Job : RowInv(jobs[j])
    BY <1>1 DEF LeaseInit
  <1>3. QED
    BY <1>2, InvByRow

\* How one statement may move a row from o to r, status and attempts apart.
LeaseMove(o, r) ==
  /\ (~(o.lease > 0) /\ r.lease > 0) => r.attempt = o.attempt + 1
  /\ o.lease > 0 =>
       /\ r.attempt = o.attempt
       /\ r.owner # o.owner => r.owner = NoWorker /\ r.status # "PROCESSING"
  /\ o.mode # "unset" => r.mode = o.mode

\* The same move seen through status and attempt only: one action of the
\* public life cycle, or none.
StatusMove(o, r) ==
  \/ r.status = o.status /\ r.attempt = o.attempt
  \/ o.status = "ABSENT" /\ r.status = "UPLOADING" /\ r.attempt = o.attempt
  \/ o.status = "UPLOADING" /\ r.status = "QUEUED" /\ r.attempt = o.attempt
  \/ /\ o.status \in {"QUEUED", "PROCESSING"} /\ r.status = "PROCESSING"
     /\ o.attempt < MaxAttempts /\ r.attempt = o.attempt + 1
  \/ /\ o.status = "PROCESSING" /\ r.status = "QUEUED"
     /\ o.attempt < MaxAttempts /\ r.attempt = o.attempt
  \/ o.status = "PROCESSING" /\ r.status = "COMPLETED" /\ r.attempt = o.attempt
  \/ /\ o.status = "PROCESSING" /\ r.status = "FAILED"
     /\ o.attempt = MaxAttempts /\ r.attempt = o.attempt

GoodMove(o, r) == RowInv(r) /\ LeaseMove(o, r) /\ StatusMove(o, r)

\* A statement keeps the invariant of its row and moves it as allowed.
LEMMA RowStepMove ==
  ASSUME LeaseInv, NEW j \in Job, RowStep(j)
  PROVE  \E r : GoodMove(jobs[j], r) /\ RowUpdate(j, r)
  <1> USE LeaseAssumption
  <1>0. RowInv(jobs[j]) /\ LeaseTypeOK
    BY InvByRow DEF LeaseInv
  <1>1. CASE InsertJob(j)
    <2> DEFINE r == [jobs[j] EXCEPT !.status = "UPLOADING"]
    <2>1. RowUpdate(j, r)
      BY <1>1 DEF InsertJob, RowUpdate
    <2>2. GoodMove(jobs[j], r)
      BY <1>0, <1>1 DEF InsertJob, GoodMove, LeaseMove, StatusMove, RowInv, Row, Status
    <2>3. QED BY <2>1, <2>2
  <1>2. CASE ClaimUpload(j)
    <2> DEFINE r == [jobs[j] EXCEPT !.status = "QUEUED"]
    <2>1. RowUpdate(j, r)
      BY <1>2 DEF ClaimUpload, RowUpdate
    <2>2. GoodMove(jobs[j], r)
      BY <1>0, <1>2 DEF ClaimUpload, CanClaim, GoodMove, LeaseMove, StatusMove, RowInv, Row, Status
    <2>3. QED BY <2>1, <2>2
  <1>3. CASE \E w \in Worker, m \in JobMode : AcquireLease(j, w, m)
    <2> PICK w \in Worker, m \in JobMode : AcquireLease(j, w, m)
      BY <1>3
    <2> DEFINE r == AcquiredRow(jobs[j], w, m)
    <2>1. RowUpdate(j, r)
      BY DEF AcquireLease, RowUpdate
    <2>2. GoodMove(jobs[j], r)
      BY <1>0 DEF AcquireLease, CanAcquire, Unheld, Live, AcquiredRow, GoodMove, LeaseMove, StatusMove, RowInv, Row, Status, JobMode
    <2>3. QED BY <2>1, <2>2
  <1>4. CASE \E w \in Worker : RenewLease(j, w)
    <2> PICK w \in Worker : RenewLease(j, w)
      BY <1>4
    <2> DEFINE r == [jobs[j] EXCEPT !.lease = LeaseTicks]
    <2>1. RowUpdate(j, r)
      BY DEF RenewLease, RowUpdate
    <2>2. GoodMove(jobs[j], r)
      BY <1>0 DEF RenewLease, CanRenew, HeldBy, Live, GoodMove, LeaseMove, StatusMove, RowInv, Row
    <2>3. QED BY <2>1, <2>2
  <1> DEFINE ended(to, key) == EndedRow(jobs[j], to, key)
  <1>5. CASE \E w \in Worker : ReleaseForRetry(j, w)
    <2> PICK w \in Worker : ReleaseForRetry(j, w)
      BY <1>5
    <2>1. RowUpdate(j, ended("QUEUED", jobs[j].pointer))
      BY DEF ReleaseForRetry, RowUpdate
    <2>2. GoodMove(jobs[j], ended("QUEUED", jobs[j].pointer))
      BY <1>0 DEF ReleaseForRetry, CanRelease, HeldBy, Live, EndedRow, GoodMove, LeaseMove, StatusMove, RowInv, Row, Status
    <2>3. QED BY <2>1, <2>2
  <1>6. CASE \E w \in Worker : Complete(j, w)
    <2> PICK w \in Worker : Complete(j, w)
      BY <1>6
    <2>1. RowUpdate(j, ended("COMPLETED", jobs[j].pointer))
      BY DEF Complete, RowUpdate
    <2>2. GoodMove(jobs[j], ended("COMPLETED", jobs[j].pointer))
      BY <1>0 DEF Complete, CanComplete, HeldBy, Live, EndedRow, GoodMove, LeaseMove, StatusMove, RowInv, Row, Status
    <2>3. QED BY <2>1, <2>2
  <1>7. CASE \E w \in Worker : FailJob(j, w)
    <2> PICK w \in Worker : FailJob(j, w)
      BY <1>7
    <2>1. RowUpdate(j, ended("FAILED", jobs[j].pointer))
      BY DEF FailJob, RowUpdate
    <2>2. GoodMove(jobs[j], ended("FAILED", jobs[j].pointer))
      BY <1>0 DEF FailJob, CanFail, HeldBy, Live, EndedRow, GoodMove, LeaseMove, StatusMove, RowInv, Row, Status
    <2>3. QED BY <2>1, <2>2
  <1>8. CASE \E w \in Worker, a, key \in 0..MaxAttempts : CompleteDistributed(j, w, a, key)
    <2> PICK w \in Worker, a \in 0..MaxAttempts, key \in 0..MaxAttempts :
               CompleteDistributed(j, w, a, key)
      BY <1>8
    <2>1. RowUpdate(j, ended("COMPLETED", key))
      BY DEF CompleteDistributed, RowUpdate
    <2>2. GoodMove(jobs[j], ended("COMPLETED", key))
      BY <1>0 DEF CompleteDistributed, CanCompleteDistributed, HeldBy, Live, EndedRow, GoodMove, LeaseMove, StatusMove, RowInv, Row, Status
    <2>3. QED BY <2>1, <2>2
  <1>9. QED
    BY <1>1, <1>2, <1>3, <1>4, <1>5, <1>6, <1>7, <1>8 DEF RowStep

\* The invariant is inductive.
LEMMA NextInv == LeaseInv /\ [LeaseNext]_jobs => LeaseInv'
  <1> SUFFICES ASSUME LeaseInv, [LeaseNext]_jobs PROVE LeaseInv'
    OBVIOUS
  <1>0. DOMAIN jobs = Job /\ jobs = [j \in Job |-> jobs[j]] /\ \A j \in Job : RowInv(jobs[j])
    BY InvByRow
  <1>1. ASSUME NEW j \in Job, RowStep(j)
        PROVE  LeaseInv'
    <2>1. PICK r : RowInv(r) /\ RowUpdate(j, r)
      BY <1>1, RowStepMove DEF GoodMove
    <2>2. jobs' = [i \in Job |-> jobs'[i]] /\ \A i \in Job : RowInv(jobs'[i])
      BY <1>0, <2>1 DEF RowUpdate
    <2>3. QED BY <2>2, InvByRowPrimed
  <1>2. CASE LeaseTick
    <2>1. ASSUME NEW j \in Job PROVE RowInv(AgedRow(jobs[j]))
      BY <1>0, LeaseAssumption DEF RowInv, AgedRow, Row
    <2>2. jobs' = [j \in Job |-> AgedRow(jobs[j])]
      BY <1>2 DEF LeaseTick
    <2>3. QED BY <2>1, <2>2, InvByRowPrimed
  <1>3. CASE UNCHANGED jobs
    BY <1>3 DEF LeaseInv, LeaseTypeOK, OwnedOnlyWhileProcessing, PlaybackResolvable, Live
  <1>4. QED
    BY <1>1, <1>2, <1>3, NextIsRowStep

\* Every reachable row has the types of its columns, is owned only while
\* somebody works on it, and can be played back once it is COMPLETED.
THEOREM LeaseInvariant == LeaseSpec => []LeaseInv
  <1>1. QED BY InitInv, NextInv, PTL DEF LeaseSpec

\* Every column keeps to its values, whatever statements workers send.
THEOREM LeaseTypes == LeaseSpec => []LeaseTypeOK
  <1>1. LeaseInv => LeaseTypeOK BY DEF LeaseInv
  <1>2. QED BY <1>1, LeaseInvariant, PTL

\* A row has an owner only while it is in PROCESSING and one of its attempts runs.
THEOREM OwnedRows == LeaseSpec => []OwnedOnlyWhileProcessing
  <1>1. LeaseInv => OwnedOnlyWhileProcessing BY DEF LeaseInv
  <1>2. QED BY <1>1, LeaseInvariant, PTL

\* Playback finds the output of every completed job in one place.
THEOREM PlaybackRows == LeaseSpec => []PlaybackResolvable
  <1>1. LeaseInv => PlaybackResolvable BY DEF LeaseInv
  <1>2. QED BY <1>1, LeaseInvariant, PTL
-----------------------------------------------------------------------------
\* A step of the table as every single row sees it.
LEMMA StepByRow ==
  ASSUME LeaseInv, [LeaseNext]_jobs, NEW i \in Job
  PROVE  \/ GoodMove(jobs[i], jobs'[i])
         \/ jobs'[i] = AgedRow(jobs[i])
         \/ jobs'[i] = jobs[i]
  <1>0. jobs = [j \in Job |-> jobs[j]]
    BY InvByRow
  <1>1. ASSUME NEW j \in Job, RowStep(j)
        PROVE  GoodMove(jobs[i], jobs'[i]) \/ jobs'[i] = jobs[i]
    <2>1. PICK r : GoodMove(jobs[j], r) /\ RowUpdate(j, r)
      BY <1>1, RowStepMove
    <2>2. QED BY <1>0, <2>1 DEF RowUpdate
  <1>2. CASE LeaseTick
    BY <1>2 DEF LeaseTick
  <1>3. CASE UNCHANGED jobs
    BY <1>3
  <1>4. QED
    BY <1>1, <1>2, <1>3, NextIsRowStep

\* Aging moves a row less than any statement does.
LEMMA AgedMove ==
  ASSUME NEW o \in Row
  PROVE  /\ LeaseMove(o, AgedRow(o))
         /\ AgedRow(o).status = o.status
         /\ AgedRow(o).attempt = o.attempt
  BY LeaseAssumption DEF LeaseMove, AgedRow, Row

\* In every step every row moves as LeaseMove allows.
LEMMA LeaseMoves ==
  ASSUME LeaseInv, [LeaseNext]_jobs, NEW i \in Job
  PROVE  LeaseMove(jobs[i], jobs'[i])
  <1>1. jobs[i] \in Row
    BY InvByRow DEF RowInv
  <1>2. LeaseMove(jobs[i], jobs[i])
    BY <1>1 DEF LeaseMove, Row
  <1>3. QED
    BY <1>1, <1>2, StepByRow, AgedMove DEF GoodMove

\* No renewal and no release restarts a lease that has run out.
THEOREM NoRevival == LeaseSpec => LapsedLeaseNeverRevived
  <1>1. LeaseInv /\ [LeaseNext]_jobs =>
          [\A j \in Job : (~Live(j) /\ Live(j)') =>
              jobs'[j].attempt = jobs[j].attempt + 1]_jobs
    BY LeaseMoves DEF LeaseMove, Live
  <1>2. QED
    BY <1>1, LeaseInvariant, PTL DEF LeaseSpec, LapsedLeaseNeverRevived

\* A running lease ends only with its attempt.
THEOREM NoTheft == LeaseSpec => LiveLeaseNotStolen
  <1>1. LeaseInv /\ [LeaseNext]_jobs =>
          [\A j \in Job : Live(j) =>
             /\ jobs'[j].attempt = jobs[j].attempt
             /\ jobs'[j].owner # jobs[j].owner =>
                  jobs'[j].owner = NoWorker /\ jobs'[j].status # "PROCESSING"]_jobs
    BY LeaseMoves DEF LeaseMove, Live
  <1>2. QED
    BY <1>1, LeaseInvariant, PTL DEF LeaseSpec, LiveLeaseNotStolen

\* The mode of a job is chosen once.
THEOREM ModeChosenOnce == LeaseSpec => ModeImmutable
  <1>1. LeaseInv /\ [LeaseNext]_jobs =>
          [\A j \in Job : jobs[j].mode # "unset" => jobs'[j].mode = jobs[j].mode]_jobs
    BY LeaseMoves DEF LeaseMove
  <1>2. QED
    BY <1>1, LeaseInvariant, PTL DEF LeaseSpec, ModeImmutable

\* Initially every status is a public one or ABSENT, and no attempt is used.
LEMMA LifecycleInits == LeaseInit => Lifecycle!LifecycleInit
  <1> SUFFICES ASSUME LeaseInit PROVE Lifecycle!LifecycleInit
    OBVIOUS
  <1>1. ASSUME NEW j \in Job
        PROVE  jobs[j].attempt = 0 /\ jobs[j].status \in Lifecycle!PublicStatus \cup {"ABSENT"}
    BY InitialRow DEF LeaseInit, Status, Lifecycle!PublicStatus
  <1>2. QED
    BY <1>1 DEF Lifecycle!LifecycleInit

\* A statement on row j is one action of the life cycle of j.
LEMMA LifecycleStep ==
  ASSUME LeaseInv, NEW j \in Job, NEW r, GoodMove(jobs[j], r), RowUpdate(j, r)
  PROVE  [Lifecycle!LifecycleNext]_(Lifecycle!lifecycleVars)
  <1> DEFINE st == [i \in Job |-> jobs[i].status]
             us == [i \in Job |-> jobs[i].attempt]
  <1>0. jobs = [i \in Job |-> jobs[i]] /\ RowInv(jobs[j])
    BY InvByRow
  <1>1. st[j] = jobs[j].status /\ us[j] = jobs[j].attempt
    OBVIOUS
  <1>2. st' = [st EXCEPT ![j] = r.status] /\ us' = [us EXCEPT ![j] = r.attempt]
    BY <1>0 DEF RowUpdate
  <1>3. r.attempt = jobs[j].attempt => us' = us
    BY <1>0 DEF RowUpdate
  <1>4. CASE r.status = jobs[j].status /\ r.attempt = jobs[j].attempt
    <2>1. st' = st
      BY <1>0, <1>4 DEF RowUpdate
    <2>2. QED BY <2>1, <1>3, <1>4 DEF Lifecycle!lifecycleVars
  <1>5. CASE jobs[j].status = "ABSENT" /\ r.status = "UPLOADING"
            /\ r.attempt = jobs[j].attempt
    <2>1. Lifecycle!Insert(j)
      BY <1>0, <1>1, <1>2, <1>3, <1>5 DEF Lifecycle!Insert, Lifecycle!Move
    <2>2. QED BY <2>1 DEF Lifecycle!LifecycleNext
  <1>6. CASE jobs[j].status = "UPLOADING" /\ r.status = "QUEUED"
            /\ r.attempt = jobs[j].attempt
    <2>1. Lifecycle!Enqueue(j)
      BY <1>0, <1>1, <1>2, <1>3, <1>6 DEF Lifecycle!Enqueue, Lifecycle!Move
    <2>2. QED BY <2>1 DEF Lifecycle!LifecycleNext
  <1>7. CASE /\ jobs[j].status \in {"QUEUED", "PROCESSING"} /\ r.status = "PROCESSING"
            /\ jobs[j].attempt < MaxAttempts /\ r.attempt = jobs[j].attempt + 1
    <2>1. Lifecycle!StartAttempt(j)
      BY <1>0, <1>1, <1>2, <1>3, <1>7 DEF Lifecycle!StartAttempt, Lifecycle!Move
    <2>2. QED BY <2>1 DEF Lifecycle!LifecycleNext
  <1>8. CASE /\ jobs[j].status = "PROCESSING" /\ r.status = "QUEUED"
            /\ jobs[j].attempt < MaxAttempts /\ r.attempt = jobs[j].attempt
    <2>1. Lifecycle!Requeue(j)
      BY <1>0, <1>1, <1>2, <1>3, <1>8 DEF Lifecycle!Requeue, Lifecycle!Move
    <2>2. QED BY <2>1 DEF Lifecycle!LifecycleNext
  <1>9. CASE jobs[j].status = "PROCESSING" /\ r.status = "COMPLETED"
            /\ r.attempt = jobs[j].attempt
    <2>1. Lifecycle!Succeed(j)
      BY <1>0, <1>1, <1>2, <1>3, <1>9 DEF Lifecycle!Succeed, Lifecycle!Move
    <2>2. QED BY <2>1 DEF Lifecycle!LifecycleNext
  <1>10. CASE /\ jobs[j].status = "PROCESSING" /\ r.status = "FAILED"
             /\ jobs[j].attempt = MaxAttempts /\ r.attempt = jobs[j].attempt
    <2>1. Lifecycle!GiveUp(j)
      BY <1>0, <1>1, <1>2, <1>3, <1>10 DEF Lifecycle!GiveUp, Lifecycle!Move
    <2>2. QED BY <2>1 DEF Lifecycle!LifecycleNext
  <1>11. QED
    BY <1>4, <1>5, <1>6, <1>7, <1>8, <1>9, <1>10 DEF GoodMove, StatusMove

\* So every step of the table is one of the life cycle, or changes nothing that
\* the life cycle sees.
LEMMA StepOfLifecycle ==
  ASSUME LeaseInv, [LeaseNext]_jobs
  PROVE  [Lifecycle!LifecycleNext]_(Lifecycle!lifecycleVars)
  <1>1. CASE \E j \in Job : RowStep(j)
    BY <1>1, RowStepMove, LifecycleStep
  <1>2. CASE LeaseTick
    <2>1. \A j \in Job : /\ jobs'[j].status = jobs[j].status
                         /\ jobs'[j].attempt = jobs[j].attempt
      BY <1>2, InvByRow, AgedMove DEF LeaseTick, RowInv
    <2>2. QED BY <2>1 DEF Lifecycle!lifecycleVars
  <1>3. CASE UNCHANGED jobs
    BY <1>3 DEF Lifecycle!lifecycleVars
  <1>4. QED
    BY <1>1, <1>2, <1>3, NextIsRowStep

\* The table implements the life cycle.
THEOREM TableImplementsLifecycle == LeaseSpec => ImplementsLifecycle
  <1>1. LeaseInv /\ [LeaseNext]_jobs => [Lifecycle!LifecycleNext]_(Lifecycle!lifecycleVars)
    BY StepOfLifecycle
  <1>2. QED
    BY <1>1, LifecycleInits, LeaseInvariant, PTL
    DEF LeaseSpec, ImplementsLifecycle, Lifecycle!LifecycleSpec

-----------------------------------------------------------------------------
(* What the life cycle promises, which the table has to keep.              *)

\* In a step an end is final, no attempt is given back, and a job fails only
\* with all its attempts used.
JobPromise(j) ==
  /\ jobs[j].status \in Lifecycle!TerminalStatus =>
       jobs'[j].status = jobs[j].status /\ jobs'[j].attempt = jobs[j].attempt
  /\ jobs[j].attempt <= jobs'[j].attempt
  /\ jobs[j].status # "FAILED" /\ jobs'[j].status = "FAILED" =>
       jobs'[j].attempt = MaxAttempts

\* Every step keeps the promise of every job.
PromisesKept == [][\A j \in Job : JobPromise(j)]_jobs

\* An action of the life cycle moves one job along.
LEMMA MovedAlong ==
  ASSUME NEW j \in Job, NEW from, NEW to, Lifecycle!Move(j, from, to), NEW i \in Job
  PROVE  /\ jobs[j].status \in from
         /\ jobs'[i].status = IF i = j THEN to ELSE jobs[i].status
  <1> DEFINE st == [k \in Job |-> jobs[k].status]
  <1>1. st[j] \in from /\ st' = [st EXCEPT ![j] = to]
    BY DEF Lifecycle!Move
  <1>2. st'[i] = IF i = j THEN to ELSE st[i]
    BY <1>1
  <1>3. QED BY <1>1, <1>2

\* Every action of the life cycle keeps the promise.
LEMMA LifecycleKeepsPromise ==
  ASSUME LeaseTypeOK, [Lifecycle!LifecycleNext]_(Lifecycle!lifecycleVars), NEW i \in Job
  PROVE  JobPromise(i)
  <1> DEFINE us == [k \in Job |-> jobs[k].attempt]
  <1>0. us[i] = jobs[i].attempt /\ us'[i] = jobs'[i].attempt /\ us[i] \in Nat
    BY LeaseAssumption DEF LeaseTypeOK, Row
  <1>1. CASE UNCHANGED Lifecycle!lifecycleVars
    <2>1. [k \in Job |-> jobs[k].status]' = [k \in Job |-> jobs[k].status] /\ us' = us
      BY <1>1 DEF Lifecycle!lifecycleVars
    <2>2. jobs'[i].status = jobs[i].status
      BY <2>1
    <2>3. QED BY <1>0, <2>1, <2>2 DEF JobPromise
  <1>2. ASSUME NEW j \in Job, Lifecycle!Insert(j) \/ Lifecycle!Enqueue(j) \/ Lifecycle!Requeue(j)
        PROVE  JobPromise(i)
    <2>1. /\ us' = us
          /\ jobs[j].status \in {"ABSENT", "UPLOADING", "PROCESSING"}
          /\ jobs'[i].status = jobs[i].status \/ (i = j /\ jobs'[i].status # "FAILED")
      BY <1>2, MovedAlong DEF Lifecycle!Insert, Lifecycle!Enqueue, Lifecycle!Requeue
    <2>2. QED BY <1>0, <2>1 DEF JobPromise, Lifecycle!TerminalStatus
  <1>3. ASSUME NEW j \in Job, Lifecycle!StartAttempt(j) PROVE JobPromise(i)
    <2>1. /\ us' = [us EXCEPT ![j] = @ + 1]
          /\ jobs[j].status \in {"QUEUED", "PROCESSING"}
          /\ jobs'[i].status = IF i = j THEN "PROCESSING" ELSE jobs[i].status
      BY <1>3, MovedAlong DEF Lifecycle!StartAttempt
    <2>2. us'[i] = IF i = j THEN us[i] + 1 ELSE us[i]
      BY <2>1
    <2>3. QED BY <1>0, <2>1, <2>2 DEF JobPromise, Lifecycle!TerminalStatus
  <1>4. ASSUME NEW j \in Job, Lifecycle!Succeed(j) PROVE JobPromise(i)
    <2>1. /\ us' = us
          /\ jobs[j].status = "PROCESSING"
          /\ jobs'[i].status = IF i = j THEN "COMPLETED" ELSE jobs[i].status
      BY <1>4, MovedAlong DEF Lifecycle!Succeed
    <2>2. QED BY <1>0, <2>1 DEF JobPromise, Lifecycle!TerminalStatus
  <1>5. ASSUME NEW j \in Job, Lifecycle!GiveUp(j) PROVE JobPromise(i)
    <2>1. /\ us' = us /\ us[j] = MaxAttempts
          /\ jobs[j].status = "PROCESSING"
          /\ jobs'[i].status = IF i = j THEN "FAILED" ELSE jobs[i].status
      BY <1>5, MovedAlong DEF Lifecycle!GiveUp
    <2>2. QED BY <1>0, <2>1 DEF JobPromise, Lifecycle!TerminalStatus
  <1>6. QED
    BY <1>1, <1>2, <1>3, <1>4, <1>5 DEF Lifecycle!LifecycleNext

\* A job that is COMPLETED or FAILED stays so, whatever statements arrive late
\* or twice, and only one whose attempts are used up fails.
THEOREM EndsAreFinal == LeaseSpec => PromisesKept
  <1>1. LeaseTypeOK /\ [Lifecycle!LifecycleNext]_(Lifecycle!lifecycleVars) =>
          [\A j \in Job : JobPromise(j)]_jobs
    BY LifecycleKeepsPromise
  <1>2. QED
    BY <1>1, LeaseTypes, TableImplementsLifecycle, PTL
       DEF ImplementsLifecycle, Lifecycle!LifecycleSpec, PromisesKept

\* Nobody who only makes steps of the table breaks what it promises, wherever
\* they begin.
THEOREM TableKeepsPromises ==
  []LeaseInv /\ [][LeaseNext]_jobs =>
    PromisesKept /\ LapsedLeaseNeverRevived /\ LiveLeaseNotStolen
  <1>1. LeaseInv /\ [LeaseNext]_jobs =>
          /\ [\A j \in Job : JobPromise(j)]_jobs
          /\ [\A j \in Job : (~Live(j) /\ Live(j)') =>
                jobs'[j].attempt = jobs[j].attempt + 1]_jobs
          /\ [\A j \in Job : Live(j) =>
                /\ jobs'[j].attempt = jobs[j].attempt
                /\ jobs'[j].owner # jobs[j].owner =>
                     jobs'[j].owner = NoWorker /\ jobs'[j].status # "PROCESSING"]_jobs
    <2> SUFFICES ASSUME LeaseInv, [LeaseNext]_jobs
                 PROVE  \A j \in Job :
                          /\ JobPromise(j)
                          /\ (~Live(j) /\ Live(j)') => jobs'[j].attempt = jobs[j].attempt + 1
                          /\ Live(j) =>
                               /\ jobs'[j].attempt = jobs[j].attempt
                               /\ jobs'[j].owner # jobs[j].owner =>
                                    /\ jobs'[j].owner = NoWorker
                                    /\ jobs'[j].status # "PROCESSING"
      OBVIOUS
    <2>1. \A j \in Job : JobPromise(j)
      BY StepOfLifecycle, LifecycleKeepsPromise DEF LeaseInv
    <2>2. \A j \in Job : LeaseMove(jobs[j], jobs'[j])
      BY LeaseMoves
    <2>3. QED
      BY <2>1, <2>2 DEF LeaseMove, Live
  <1>2. QED
    BY <1>1, PTL DEF PromisesKept, LapsedLeaseNeverRevived, LiveLeaseNotStolen
=============================================================================
