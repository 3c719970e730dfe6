------------------------- MODULE OwnedAttemptProofs -------------------------
(***************************************************************************)
(* Theorems about OwnedAttempt, in three layers.                           *)
(*                                                                         *)
(* 1. ProtocolInv: what a process does on its connection.  One exchange at *)
(*    a time, one reader at most, and the table makes steps of JobLease    *)
(*    only.  The type invariant follows.                                   *)
(* 2. DeadlineInv: who works on which attempt, and until when.  Attempts   *)
(*    are unique, what ends an attempt was sent by the task that is done   *)
(*    with it, and a task that may work by its own clock may work by the   *)
(*    row.  It takes a watchdog that is never late (PromptWatchdog): TLC   *)
(*    finds both properties of this layer violated without one.            *)
(* 3. OutputInv: what is in the bucket when.  It needs no watchdog.        *)
(***************************************************************************)
EXTENDS OwnedAttempt, JobLeaseProofs, SequenceTheorems

-----------------------------------------------------------------------------
(* The queue of a connection.                                              *)

\* A statement once nobody reads its reply.
LEMMA NotAwaited ==
  ASSUME NEW s \in Statement
  PROVE  /\ [s EXCEPT !.awaited = FALSE] \in Statement
         /\ [s EXCEPT !.awaited = FALSE].awaited = FALSE
         /\ [s EXCEPT !.awaited = FALSE].op = s.op
         /\ [s EXCEPT !.awaited = FALSE].task = s.task
         /\ [s EXCEPT !.awaited = FALSE].side = s.side
         /\ [s EXCEPT !.awaited = FALSE].attempt = s.attempt
  BY DEF Statement

\* Dropping a future that has sent its statement changes only what becomes of
\* the reply.
LEMMA UnreadSeq ==
  ASSUME NEW q \in Seq(Statement), NEW t, NEW sides
  PROVE  /\ Unread(q, t, sides) \in Seq(Statement)
         /\ Len(Unread(q, t, sides)) = Len(q)
         /\ \A i \in 1..Len(q) :
              Unread(q, t, sides)[i] = IF Awaits(q[i], t, sides)
                                       THEN [q[i] EXCEPT !.awaited = FALSE] ELSE q[i]
  <1> DEFINE e(i) == IF Awaits(q[i], t, sides) THEN [q[i] EXCEPT !.awaited = FALSE]
                                               ELSE q[i]
  <1>1. Len(q) \in Nat
    BY LenProperties
  <1>2. \A i \in 1..Len(q) : e(i) \in Statement
    BY NotAwaited, ElementOfSeq
  <1>3. Unread(q, t, sides) = [i \in 1..Len(q) |-> e(i)]
    BY DEF Unread
  <1> HIDE DEF e
  <1>4. [i \in 1..Len(q) |-> e(i)] \in Seq(Statement)
    BY <1>1, <1>2
  <1>5. Len([i \in 1..Len(q) |-> e(i)]) = Len(q)
    BY <1>1
  <1>6. QED
    BY <1>3, <1>4, <1>5 DEF e

\* Dropping one that has not sent it yet takes back the last statement.
LEMMA WithdrawnSeq ==
  ASSUME NEW q \in Seq(Statement), NEW t, NEW sides
  PROVE  /\ Withdrawn(q, t, sides) \in Seq(Statement)
         /\ Len(Withdrawn(q, t, sides)) <= Len(q)
         /\ \A i \in 1..Len(Withdrawn(q, t, sides)) : Withdrawn(q, t, sides)[i] = q[i]
         /\ Len(Withdrawn(q, t, sides)) = Len(q) =>
              q = <<>> \/ ~Awaits(q[Len(q)], t, sides)
  <1>1. CASE q # <<>> /\ Awaits(q[Len(q)], t, sides)
    <2>1. Len(q) \in Nat \ {0}
      BY <1>1, EmptySeq
    <2>2. \A i \in 1..Len(q) - 1 : q[i] \in Statement
      BY <2>1, ElementOfSeq
    <2> DEFINE n == Len(q) - 1
    <2>3. n \in Nat /\ 1 \in Int /\ n \in Int
      BY <2>1
    <2>4. Withdrawn(q, t, sides) = SubSeq(q, 1, n)
      BY <1>1 DEF Withdrawn
    <2>5. Len(q) = n + 1
      BY <2>1
    <2> HIDE DEF n
    <2>6. /\ SubSeq(q, 1, n) \in Seq(Statement)
          /\ Len(SubSeq(q, 1, n)) = IF 1 <= n THEN n - 1 + 1 ELSE 0
          /\ \A i \in 1..n - 1 + 1 : SubSeq(q, 1, n)[i] = q[1 + i - 1]
      BY <2>2, <2>3, SubSeqProperties DEF n
    <2>7. n - 1 + 1 = n /\ \A i \in 1..n : 1 + i - 1 = i
      BY <2>3
    <2>8. QED BY <2>3, <2>4, <2>5, <2>6, <2>7
  <1>2. CASE ~(q # <<>> /\ Awaits(q[Len(q)], t, sides))
    <2>1. Withdrawn(q, t, sides) = q
      BY <1>2 DEF Withdrawn
    <2>2. QED BY <2>1, <1>2, LenProperties
  <1>3. QED BY <1>1, <1>2

-----------------------------------------------------------------------------
(* The table.                                                              *)

\* What a worker executes is a statement of the table.
LEMMA ApplyIsRowStep ==
  ASSUME AttemptTypeOK, NEW s \in Statement, NEW j \in Job, NEW w \in Worker, Apply(s, j, w)
  PROVE  RowStep(j)
  <1>1. mode \in JobMode /\ s.attempt \in 0..MaxAttempts
    BY AttemptAssumption DEF AttemptTypeOK, Statement
  <1>2. QED BY <1>1 DEF Apply, RowStep

\* Time passes for the table as well.
LEMMA TickIsTableStep ==
  ASSUME LeaseInv, jobs' = [j \in Job |-> AgedRow(jobs[j])]
  PROVE  [LeaseNext]_jobs
  <1>1. CASE \E j \in Job : Live(j)
    BY <1>1 DEF LeaseNext, LeaseTick
  <1>2. CASE ~\E j \in Job : Live(j)
    <2>1. \A j \in Job : AgedRow(jobs[j]) = jobs[j]
      BY <1>2, InvByRow DEF RowInv, Row, AgedRow, Live
    <2>2. QED BY <2>1, InvByRow
  <1>3. QED BY <1>1, <1>2

\* The execution of a statement changes the row of its job at most.
LEMMA ExecuteFrame ==
  ASSUME NEW w \in Worker, Execute(w)
  PROVE  /\ conn[w] # <<>>
         /\ task' = task /\ jobsLock' = jobsLock /\ writes' = writes /\ stored' = stored
         /\ UNCHANGED jobs \/ Apply(Head(conn[w]), JobOf[Head(conn[w]).task], w)
  BY Zenon DEF Execute

\* Whatever a process does, the table makes one of its own steps.
LEMMA TableStep ==
  ASSUME LeaseInv, AttemptTypeOK, AttemptNext
  PROVE  [LeaseNext]_jobs
  <1>1. ASSUME NEW w \in Worker, Execute(w) PROVE [LeaseNext]_jobs
    <2> DEFINE s == Head(conn[w])
    <2>1. s \in Statement
      BY <1>1, ExecuteFrame, HeadTailProperties DEF AttemptTypeOK
    <2>2. JobOf[s.task] \in Job
      BY <2>1, AttemptAssumption DEF Statement
    <2>3. Apply(s, JobOf[s.task], w) \/ UNCHANGED jobs
      BY <1>1, ExecuteFrame
    <2> HIDE DEF s
    <2>4. QED BY <2>1, <2>2, <2>3, ApplyIsRowStep, NextIsRowStep
  <1>2. ASSUME Tick PROVE [LeaseNext]_jobs
    BY <1>2, TickIsTableStep DEF Tick
  <1>3. ASSUME NEW w \in Worker, Crash(w) PROVE UNCHANGED jobs
    BY <1>3 DEF Crash
  <1>4. ASSUME NEW x \in writes, WriteLands(x) \/ WriteIsLost(x) PROVE UNCHANGED jobs
    BY <1>4 DEF WriteLands, WriteIsLost
  <1>5. ASSUME NEW t \in Task,
               \/ Start(t) \/ ClaimUnderLock(t) \/ ClaimReply(t) \/ AcquireReply(t)
               \/ DropAcquisition(t) \/ BeginPut(t) \/ NoticeLoss(t) \/ AttemptFails(t)
               \/ FinishPipeline(t) \/ CompleteUnderLock(t) \/ CompleteReply(t)
               \/ FailUnderLock(t) \/ FailReply(t) \/ Retire(t) \/ DropLostAttempt(t)
               \/ StopAttempt(t) \/ BeginRenewal(t) \/ RenewUnderLock(t) \/ RenewReply(t)
               \/ LoseVisibility(t) \/ JoinHeartbeat(t) \/ WatchdogFires(t)
        PROVE  UNCHANGED jobs
    BY <1>5, ZenonT(30)
       DEF Start, ClaimUnderLock, ClaimReply, AcquireReply, DropAcquisition, BeginPut,
       PutObject, NoticeLoss, AttemptFails, FinishPipeline, Finish, CompleteUnderLock,
       CompleteReply, FailUnderLock, FailReply, Retire, DropLostAttempt, StopAttempt,
       BeginRenewal, RenewUnderLock, RenewReply, LoseVisibility, JoinHeartbeat,
       WatchdogFires, Revoke
  <1>6. QED
    BY <1>1, <1>2, <1>3, <1>4, <1>5 DEF AttemptNext, OtherNext

-----------------------------------------------------------------------------
(* Where a task can be.                                                    *)

\* Before it has acquired the job a task has nothing to lose; while it works
\* on an attempt its heartbeat runs, or has revoked it; it ends only what it
\* has published.
PhaseOf(r) ==
  /\ r.pc \in {"idle", "lock", "claim", "acquire"} =>
       r.attempt = 0 /\ r.next = 1 /\ ~r.lost /\ ~r.active /\ r.beat = "off"
  /\ r.pc \in {"work", "put", "finishLock", "finish", "failLock", "fail"} =>
       r.active /\ r.attempt # 0 /\ (r.lost \/ r.beat # "off")
  /\ r.pc = "put" => r.next <= NObjects
  /\ r.pc \in {"finishLock", "finish"} => r.next > NObjects

\* A task and the state of all tasks in order.
TaskOK(r) == r \in TaskState /\ PhaseOf(r)

TasksOK == task = [t \in Task |-> task[t]] /\ \A t \in Task : TaskOK(task[t])

\* The mode of the deployment does not change, nor what it determines.
LEMMA SameMode ==
  ASSUME mode' = mode
  PROVE  NObjects' = NObjects /\ Object' = Object /\ Manifest' = Manifest
         /\ TaskState' = TaskState /\ Write' = Write /\ OverPc' = OverPc
         /\ \A r : PhaseOf(r)' <=> PhaseOf(r)
  BY DEF NObjects, Object, Manifest, TaskState, Write, OverPc, PhaseOf

\* There is at least the manifest to write.
LEMMA ObjectsPositive ==
  ASSUME AttemptTypeOK
  PROVE  NObjects \in Nat \ {0}
  BY AttemptAssumption DEF NObjects, AttemptTypeOK

\* The steps of a task that leave its attempt, its clocks and its output alone
\* and move it only forward.
Forward(p, q) ==
  \/ p = "lock" /\ q \in {"claim", "done"}
  \/ p = "claim" /\ q \in {"acquire", "done"}
  \/ p = "acquire" /\ q = "done"
  \/ p = "work" /\ q \in {"put", "finishLock"}
  \/ p = "finishLock" /\ q = "finish"
  \/ p \in {"work", "put", "finishLock", "finish"} /\ q = "failLock"
  \/ p = "failLock" /\ q = "fail"
  \/ /\ p \in {"work", "put", "finishLock", "finish", "failLock", "fail", "retire"}
     /\ q \in {"retire", "done"}

\* What such a step does to the state of its task.
Ordinary(o, r) ==
  /\ r.attempt = o.attempt /\ r.next = o.next
  /\ r.local = o.local /\ r.budget = o.budget
  /\ o.lost => r.lost
  /\ r.active => o.active
  /\ r.pc = o.pc \/ Forward(o.pc, r.pc)

\* Only task t moves.
Alone(t) ==
  /\ task' = [u \in Task |-> task'[u]]
  /\ \A u \in Task : u # t => task'[u] = task[u]

OrdinaryStep(t) == Alone(t) /\ TaskOK(task'[t]) /\ Ordinary(task[t], task'[t])

\* One task takes a step that keeps it in order.
LEMMA OneMoves ==
  ASSUME TasksOK, NEW t \in Task, NEW r, task' = [task EXCEPT ![t] = r],
         TaskOK(r), Ordinary(task[t], r)
  PROVE  OrdinaryStep(t)
  BY DEF TasksOK, OrdinaryStep, Alone

\* Task t goes to p, and nothing else about it changes.
GoesTo(t, p) ==
  /\ task' = [task EXCEPT ![t].pc = p]
  /\ Forward(task[t].pc, p)
  /\ p = "put" => task[t].next <= NObjects
  /\ p = "finishLock" => task[t].next > NObjects

LEMMA GoingIsOrdinary ==
  ASSUME TasksOK, NEW t \in Task, NEW p, GoesTo(t, p)
  PROVE  OrdinaryStep(t)
  <1> DEFINE o == task[t]
             r == [o EXCEPT !.pc = p]
  <1>1. o \in TaskState /\ PhaseOf(o)
    BY DEF TasksOK, TaskOK
  <1>2. task' = [task EXCEPT ![t] = r]
    BY DEF GoesTo
  <1>3. Forward(o.pc, p) /\ (p = "put" => o.next <= NObjects)
        /\ (p = "finishLock" => o.next > NObjects)
    BY DEF GoesTo
  <1> HIDE DEF o
  <1>4. TaskOK(r)
    BY <1>1, <1>3 DEF TaskOK, TaskState, PhaseOf, Forward
  <1>5. Ordinary(o, r)
    BY <1>1, <1>3 DEF Ordinary, TaskState
  <1> HIDE DEF r
  <1>6. QED BY <1>2, <1>4, <1>5, OneMoves DEF o

\* Task t leaves its attempt.
Leaves(t) ==
  \E p \in {"retire", "done"}, active \in {FALSE, task[t].active} :
    /\ task' = [task EXCEPT ![t] = [@ EXCEPT !.pc = p, !.active = active]]
    /\ Forward(task[t].pc, p)

LEMMA LeavingIsOrdinary ==
  ASSUME TasksOK, NEW t \in Task, Leaves(t)
  PROVE  OrdinaryStep(t)
  <1> DEFINE o == task[t]
  <1>1. o \in TaskState /\ PhaseOf(o)
    BY DEF TasksOK, TaskOK
  <1>2. PICK p \in {"retire", "done"}, active \in {FALSE, o.active} :
          /\ task' = [task EXCEPT ![t] = [o EXCEPT !.pc = p, !.active = active]]
          /\ Forward(o.pc, p)
    BY DEF Leaves
  <1> DEFINE r == [o EXCEPT !.pc = p, !.active = active]
  <1>3. task' = [task EXCEPT ![t] = r]
    BY <1>2
  <1> HIDE DEF o
  <1>4. TaskOK(r)
    BY <1>1, <1>2 DEF TaskOK, TaskState, PhaseOf
  <1>5. Ordinary(o, r)
    BY <1>1, <1>2 DEF Ordinary, TaskState
  <1> HIDE DEF r
  <1>6. QED BY <1>3, <1>4, <1>5, OneMoves DEF o

\* The end of an attempt, retired or handed back to be.
LEMMA RetiredLeaves ==
  ASSUME NEW t \in Task, task' = [task EXCEPT ![t] = Retired(@)],
         task[t].pc \in {"finish", "fail"}
  PROVE  Leaves(t)
  <1> DEFINE p == OverPc
             active == IF mode = "cli" THEN FALSE ELSE task[t].active
  <1>1. task' = [task EXCEPT ![t] = [@ EXCEPT !.pc = p, !.active = active]]
    BY DEF Retired
  <1>2. Forward(task[t].pc, p) /\ p \in {"retire", "done"} /\ active \in {FALSE, task[t].active}
    BY DEF Forward, OverPc
  <1> HIDE DEF p, active
  <1>3. QED BY <1>1, <1>2 DEF Leaves

\* A revoked task is in order: what it lost, it may.
LEMMA RevokedInOrder ==
  ASSUME NEW o \in TaskState, PhaseOf(o), o.beat # "off"
  PROVE  TaskOK(RevokedOf(o))
  <1> DEFINE r == RevokedOf(o)
  <1>1. r \in TaskState
    BY DEF TaskState, RevokedOf
  <1>2. r.pc = o.pc /\ r.attempt = o.attempt /\ r.next = o.next /\ r.active = o.active
        /\ r.lost = TRUE
    BY DEF TaskState, RevokedOf
  <1>3. o.pc \notin {"idle", "lock", "claim", "acquire"}
    BY DEF PhaseOf
  <1> HIDE DEF r
  <1>4. TaskOK(r)
    BY <1>1, <1>2, <1>3 DEF TaskOK, PhaseOf
  <1>5. QED BY <1>4 DEF r

\* So is one whose process crashed, and one whose clocks have moved.
LEMMA EndedInOrder ==
  ASSUME NEW o, TaskOK(o)
  PROVE  TaskOK([o EXCEPT !.pc = "done", !.beat = "off"])
  <1> DEFINE r == [o EXCEPT !.pc = "done", !.beat = "off"]
  <1>1. r \in TaskState /\ r.pc = "done"
    BY DEF TaskOK, TaskState
  <1> HIDE DEF r
  <1>2. TaskOK(r)
    BY <1>1 DEF TaskOK, PhaseOf
  <1>3. QED BY <1>2 DEF r

LEMMA TickedInOrder ==
  ASSUME NEW o \in TaskState, PhaseOf(o),
         NEW l \in 0..LeaseTicks, NEW b \in 0..LeaseTicks
  PROVE  TaskOK([o EXCEPT !.local = l, !.budget = b])
  <1> DEFINE r == [o EXCEPT !.local = l, !.budget = b]
  <1>1. r \in TaskState
    BY DEF TaskState
  <1>2. /\ r.pc = o.pc /\ r.attempt = o.attempt /\ r.next = o.next
        /\ r.lost = o.lost /\ r.active = o.active /\ r.beat = o.beat
    BY DEF TaskState
  <1> HIDE DEF r
  <1>3. TaskOK(r)
    BY <1>1, <1>2 DEF TaskOK, PhaseOf
  <1>4. QED BY <1>3 DEF r

LEMMA RevokingIsOrdinary ==
  ASSUME TasksOK, NEW t \in Task, Revoke(t)
  PROVE  OrdinaryStep(t)
  <1> DEFINE o == task[t]
             r == RevokedOf(o)
  <1>1. o \in TaskState /\ PhaseOf(o) /\ o.beat # "off"
    BY DEF TasksOK, TaskOK, Revoke
  <1>2. task' = [task EXCEPT ![t] = r]
    BY DEF Revoke
  <1> HIDE DEF o
  <1>3. TaskOK(r)
    BY <1>1, RevokedInOrder
  <1>4. Ordinary(o, r)
    BY <1>1 DEF Ordinary, TaskState, RevokedOf
  <1> HIDE DEF r
  <1>5. QED BY <1>2, <1>3, <1>4, OneMoves DEF o

\* The steps of a task that are of that kind.
LEMMA OrdinarySteps ==
  ASSUME AttemptTypeOK, TasksOK, NEW t \in Task,
         \/ ClaimUnderLock(t) \/ ClaimReply(t)
         \/ DropAcquisition(t) \/ BeginPut(t) \/ NoticeLoss(t) \/ AttemptFails(t)
         \/ FinishPipeline(t) \/ CompleteUnderLock(t) \/ CompleteReply(t)
         \/ FailUnderLock(t) \/ FailReply(t) \/ Retire(t) \/ DropLostAttempt(t)
         \/ StopAttempt(t)
         \/ LoseVisibility(t) \/ JoinHeartbeat(t) \/ WatchdogFires(t)
  PROVE  OrdinaryStep(t)
  <1>1. CASE \E p : GoesTo(t, p)
    BY <1>1, GoingIsOrdinary
  <1>2. CASE Leaves(t)
    BY <1>2, LeavingIsOrdinary
  <1>3. CASE Revoke(t)
    BY <1>3, RevokingIsOrdinary
  <1> USE DEF GoesTo, Forward, OverPc, Leaves
  <1>4. CASE ClaimUnderLock(t)
    <2>1. GoesTo(t, "claim")
      BY <1>4 DEF ClaimUnderLock
    <2>2. QED BY <2>1, <1>1
  <1>5. CASE ClaimReply(t)
    <2>1. GoesTo(t, "acquire") \/ GoesTo(t, "done")
      BY <1>5 DEF ClaimReply
    <2>2. QED BY <2>1, <1>1
  <1>6. CASE DropAcquisition(t)
    <2>1. GoesTo(t, "done")
      BY <1>6 DEF DropAcquisition
    <2>2. QED BY <2>1, <1>1
  <1>7. CASE BeginPut(t)
    <2>1. GoesTo(t, "put")
      BY <1>7 DEF BeginPut, PutObject
    <2>2. QED BY <2>1, <1>1
  <1>8. CASE NoticeLoss(t)
    <2>1. GoesTo(t, OverPc)
      BY <1>8 DEF NoticeLoss
    <2>2. QED BY <2>1, <1>1
  <1>9. CASE AttemptFails(t)
    <2>1. GoesTo(t, IF task[t].lost THEN OverPc ELSE "failLock")
      BY <1>9 DEF AttemptFails
    <2>2. QED BY <2>1, <1>1
  <1>10. CASE FinishPipeline(t)
    <2>1. GoesTo(t, "finishLock")
      BY <1>10 DEF FinishPipeline, Finish
    <2>2. QED BY <2>1, <1>1
  <1>11. CASE CompleteUnderLock(t)
    <2>1. GoesTo(t, OverPc) \/ GoesTo(t, "finish")
      BY <1>11 DEF CompleteUnderLock, SendLast, LeaveLost
    <2>2. QED BY <2>1, <1>1
  <1>12. CASE CompleteReply(t)
    <2>1. CASE task' = [task EXCEPT ![t] = [@ EXCEPT !.pc = "failLock"]]
      <3>1. GoesTo(t, "failLock")
        BY <1>12, <2>1 DEF CompleteReply
      <3>2. QED BY <3>1, <1>1
    <2>2. CASE task' = [task EXCEPT ![t] = Retired(@)]
      <3>1. task[t].pc = "finish"
        BY <1>12 DEF CompleteReply
      <3>2. QED BY <2>2, <3>1, <1>2, RetiredLeaves
    <2>3. QED BY <1>12, <2>1, <2>2 DEF CompleteReply
  <1>13. CASE FailUnderLock(t)
    <2>1. GoesTo(t, OverPc) \/ GoesTo(t, "fail")
      BY <1>13 DEF FailUnderLock, SendLast, LeaveLost
    <2>2. QED BY <2>1, <1>1
  <1>14. CASE FailReply(t)
    <2>1. task[t].pc = "fail" /\ task' = [task EXCEPT ![t] = Retired(@)]
      BY <1>14 DEF FailReply
    <2>2. QED BY <2>1, <1>2, RetiredLeaves
  <1>15. CASE Retire(t)
    BY <1>15, <1>2 DEF Retire
  <1>16. CASE DropLostAttempt(t)
    <2>1. GoesTo(t, "done")
      BY <1>16 DEF DropLostAttempt, Attempting
    <2>2. QED BY <2>1, <1>1
  <1>17. CASE StopAttempt(t)
    BY <1>17, <1>2 DEF StopAttempt, Attempting
  <1>18. QED
    BY <1>3, <1>4, <1>5, <1>6, <1>7, <1>8, <1>9, <1>10, <1>11, <1>12, <1>13, <1>14, <1>15,
       <1>16, <1>17 DEF LoseVisibility, JoinHeartbeat, WatchdogFires

-----------------------------------------------------------------------------
(* The mutex and the connection: at most one exchange is under way on the  *)
(* connection of a process.                                                *)

\* The side of task t waits for the reply to a statement op.
Waits(t, side, op) ==
  IF side = "main"
  THEN \/ task[t].pc = op /\ op \in {"claim", "acquire", "fail"}
       \/ task[t].pc = "finish" /\ op = "complete"
       \/ task[t].pc = "fail" /\ op = "release"
  ELSE task[t].beat = "renew" /\ op = "renew"

\* Only the last statement of a connection can have a reader, who holds the
\* mutex.
StatementOK(w, s, last) ==
  /\ Host[s.task] = w
  /\ s.awaited =>
       /\ last
       /\ jobsLock[w] = <<s.task, s.side>>
       /\ Waits(s.task, s.side, s.op)
       /\ \A r \in replies : Host[r.task] # w

\* At most one statement per connection has a reader.
OneStatement ==
  \A w \in Worker : \A i \in 1..Len(conn[w]) :
    StatementOK(w, conn[w][i], i = Len(conn[w]))

\* A reply that can still be read is the only one of its process, and nothing
\* was sent after the statement it answers.
OneReply ==
  \A r \in replies :
    /\ conn[Host[r.task]] = <<>>
    /\ jobsLock[Host[r.task]] = <<r.task, r.side>>
    /\ IF r.side = "main" THEN task[r.task].pc \in {"claim", "acquire", "finish", "fail"}
                          ELSE task[r.task].beat = "renew"
    /\ \A q \in replies : Host[q.task] = Host[r.task] => q = r

\* The types of what the processes and the database exchange.
CommTypes ==
  /\ jobsLock \in [Worker -> {Free} \cup (Task \X Side)]
  /\ conn \in [Worker -> Seq(Statement)]
  /\ replies \subseteq Reply

Comm == CommTypes /\ OneStatement /\ OneReply

\* What a step of task t does to them: nothing, ...
Quiet(t) ==
  /\ UNCHANGED <<jobsLock, conn, replies>>
  /\ task[t].pc \in {"claim", "acquire", "finish", "fail"} => task'[t].pc = task[t].pc
  /\ task[t].beat = "renew" => task'[t].beat = "renew"

\* An attempt is ended by the task that works on it, from the right place.
MaySend(t, op) ==
  /\ op = "complete" => task[t].pc = "finishLock" /\ (mode = "cli" => ~task[t].lost)
  /\ op \in {"release", "fail"} => task[t].pc = "failLock" /\ ~task[t].lost

\* ... send a statement under the mutex, ...
Asks(t, side, op) ==
  /\ MaySend(t, op)
  /\ LockIsFree(t)
  /\ Lock(t, side)
  /\ Send(t, side, op)
  /\ UNCHANGED replies
  /\ Waits(t, side, op)'

\* ... send the second statement of an acquisition, ...
AsksAgain(t, r) ==
  /\ Receive(t, "main", r)
  /\ Send(t, "main", "acquire")
  /\ UNCHANGED jobsLock
  /\ task'[t].pc = "acquire"

\* ... read a reply and leave the mutex, ...
Hears(t, side, r) ==
  /\ Receive(t, side, r)
  /\ Unlock(t)
  /\ UNCHANGED conn

\* ... or drop what one of its sides was waiting for.
GivesUp(t, side) ==
  /\ Abandon(t, {side})
  /\ side = "main" => task'[t].beat = task[t].beat
  /\ side = "heartbeat" => task'[t].pc = task[t].pc

\* The steps a task makes by itself.
TaskNext(t) ==
  \/ Start(t) \/ ClaimUnderLock(t) \/ ClaimReply(t) \/ AcquireReply(t)
  \/ DropAcquisition(t)
  \/ BeginPut(t) \/ NoticeLoss(t) \/ AttemptFails(t) \/ FinishPipeline(t)
  \/ CompleteUnderLock(t) \/ CompleteReply(t)
  \/ FailUnderLock(t) \/ FailReply(t) \/ Retire(t)
  \/ DropLostAttempt(t) \/ StopAttempt(t)
  \/ BeginRenewal(t) \/ RenewUnderLock(t) \/ RenewReply(t)
  \/ LoseVisibility(t) \/ JoinHeartbeat(t) \/ WatchdogFires(t)

\* The statements sent under a mutex that was free.
Ask == { "claim", "renew", "release", "complete", "fail" }

\* These are all.
Communication(t) ==
  \/ Quiet(t)
  \/ \E side \in Side, op \in Ask : Asks(t, side, op)
  \/ \E r \in replies : AsksAgain(t, r)
  \/ \E side \in Side, r \in replies : Hears(t, side, r)
  \/ \E side \in Side : GivesUp(t, side)

\* Every step of a task uses the connection in one of these ways.
LEMMA Communicates ==
  ASSUME TasksOK, NEW t \in Task, TaskNext(t)
  PROVE  Communication(t)
  <1> USE DEF TasksOK, TaskOK, TaskState
  <1>1. CASE Start(t)
    <2>1. Quiet(t) BY <1>1 DEF Start, Quiet
    <2>2. QED BY <2>1 DEF Communication
  <1>2. CASE ClaimUnderLock(t)
    <2>1. Asks(t, "main", "claim") BY <1>2 DEF ClaimUnderLock, Asks, MaySend, Waits
    <2>2. QED BY <2>1 DEF Communication, Ask, Side
  <1>3. CASE ClaimReply(t)
    <2>1. PICK r \in replies : AsksAgain(t, r) \/ Hears(t, "main", r)
      BY <1>3 DEF ClaimReply, AsksAgain, Hears
    <2>2. QED BY <2>1 DEF Communication, Side
  <1>4. CASE AcquireReply(t)
    <2>1. PICK r \in replies : Hears(t, "main", r)
      BY <1>4 DEF AcquireReply, Hears
    <2>2. QED BY <2>1 DEF Communication, Side
  <1>5. CASE DropAcquisition(t)
    <2>1. GivesUp(t, "main") BY <1>5 DEF DropAcquisition, GivesUp
    <2>2. QED BY <2>1 DEF Communication, Side
  <1>6. CASE BeginPut(t)
    <2>1. Quiet(t) BY <1>6 DEF BeginPut, PutObject, Quiet
    <2>2. QED BY <2>1 DEF Communication
  <1>7. CASE NoticeLoss(t)
    <2>1. Quiet(t) BY <1>7 DEF NoticeLoss, Quiet
    <2>2. QED BY <2>1 DEF Communication
  <1>8. CASE AttemptFails(t)
    <2>1. GivesUp(t, "main") BY <1>8 DEF AttemptFails, GivesUp
    <2>2. QED BY <2>1 DEF Communication, Side
  <1>9. CASE FinishPipeline(t)
    <2>1. Quiet(t) BY <1>9 DEF FinishPipeline, Finish, Quiet
    <2>2. QED BY <2>1 DEF Communication
  <1>10. CASE CompleteUnderLock(t)
    <2>1. CASE LeaveLost(t)
      <3>1. Quiet(t) BY <1>10, <2>1 DEF CompleteUnderLock, LeaveLost, Quiet
      <3>2. QED BY <3>1 DEF Communication
    <2>2. CASE SendLast(t, "complete", "finish")
      <3>1. Asks(t, "main", "complete")
        <4>1. MaySend(t, "complete")
          BY <1>10, <2>2 DEF CompleteUnderLock, SendLast, LeaveLost, MaySend, OverPc
        <4>2. QED BY <1>10, <2>2, <4>1 DEF CompleteUnderLock, SendLast, Asks, Waits
      <3>2. QED BY <3>1 DEF Communication, Ask, Side
    <2>3. QED BY <1>10, <2>1, <2>2 DEF CompleteUnderLock
  <1>11. CASE CompleteReply(t)
    <2>1. PICK r \in replies : Hears(t, "main", r)
      BY <1>11 DEF CompleteReply, Hears
    <2>2. QED BY <2>1 DEF Communication, Side
  <1>12. CASE FailUnderLock(t)
    <2>1. CASE LeaveLost(t)
      <3>1. Quiet(t) BY <1>12, <2>1 DEF FailUnderLock, LeaveLost, Quiet
      <3>2. QED BY <3>1 DEF Communication
    <2>2. CASE SendLast(t, LastResort(t), "fail")
      <3>1. PICK op \in {"release", "fail"} : LastResort(t) = op
        BY DEF LastResort
      <3>2. (task[t].pc)' = "fail"
        BY <2>2 DEF SendLast
      <3>3. Waits(t, "main", op)'
        BY <3>1, <3>2 DEF Waits
      <3>4. MaySend(t, op)
        BY <1>12, <2>2, <3>1, <3>2 DEF FailUnderLock, LeaveLost, MaySend, OverPc
      <3>5. Asks(t, "main", op)
        BY <1>12, <2>2, <3>1, <3>3, <3>4 DEF FailUnderLock, SendLast, Asks
      <3>6. QED BY <3>1, <3>5 DEF Communication, Ask, Side
    <2>3. QED BY <1>12, <2>1, <2>2 DEF FailUnderLock
  <1>13. CASE FailReply(t)
    <2>1. PICK r \in replies : Hears(t, "main", r)
      BY <1>13 DEF FailReply, Hears
    <2>2. QED BY <2>1 DEF Communication, Side
  <1>14. CASE Retire(t)
    <2>1. Quiet(t) BY <1>14 DEF Retire, Quiet
    <2>2. QED BY <2>1 DEF Communication
  <1>15. CASE DropLostAttempt(t)
    <2>1. GivesUp(t, "main") BY <1>15 DEF DropLostAttempt, GivesUp
    <2>2. QED BY <2>1 DEF Communication, Side
  <1>16. CASE StopAttempt(t)
    <2>1. GivesUp(t, "main") BY <1>16 DEF StopAttempt, GivesUp
    <2>2. QED BY <2>1 DEF Communication, Side
  <1>17. CASE BeginRenewal(t)
    <2>1. Quiet(t) BY <1>17 DEF BeginRenewal, Quiet
    <2>2. QED BY <2>1 DEF Communication
  <1>18. CASE RenewUnderLock(t)
    <2>1. CASE task[t].active
      <3>1. Asks(t, "heartbeat", "renew")
        BY <1>18, <2>1 DEF RenewUnderLock, Asks, MaySend, Waits
      <3>2. QED BY <3>1 DEF Communication, Ask, Side
    <2>2. CASE ~task[t].active
      <3>1. Quiet(t) BY <1>18, <2>2 DEF RenewUnderLock, Quiet
      <3>2. QED BY <3>1 DEF Communication
    <2>3. QED BY <2>1, <2>2
  <1>19. CASE RenewReply(t)
    <2>1. PICK r \in replies : Hears(t, "heartbeat", r)
      BY <1>19 DEF RenewReply, Hears
    <2>2. QED BY <2>1 DEF Communication, Side
  <1>20. CASE LoseVisibility(t) \/ JoinHeartbeat(t) \/ WatchdogFires(t)
    <2>1. Revoke(t) BY <1>20 DEF LoseVisibility, JoinHeartbeat, WatchdogFires
    <2>2. GivesUp(t, "heartbeat") BY <2>1 DEF Revoke, RevokedOf, GivesUp
    <2>3. QED BY <2>2 DEF Communication, Side
  <1>21. QED
    BY <1>1, <1>2, <1>3, <1>4, <1>5, <1>6, <1>7, <1>8, <1>9, <1>10, <1>11, <1>12, <1>13,
       <1>14, <1>15, <1>16, <1>17, <1>18, <1>19, <1>20 DEF TaskNext

\* The new end of a connection, and what was there before.
LEMMA SendSeq ==
  ASSUME TasksOK, CommTypes, NEW t \in Task, NEW side \in Side,
         NEW op \in Ask \cup {"acquire"}, Send(t, side, op)
  PROVE  LET q == conn[Host[t]]
         IN /\ conn' \in [Worker -> Seq(Statement)]
            /\ \A w \in Worker : w # Host[t] => conn'[w] = conn[w]
            /\ Len(q) \in Nat
            /\ Len(conn'[Host[t]]) = Len(q) + 1
            /\ \A i \in 1..Len(q) : conn'[Host[t]][i] = q[i]
            /\ conn'[Host[t]][Len(q) + 1] =
                 [ op |-> op, task |-> t, side |-> side,
                   attempt |-> task[t].attempt, awaited |-> TRUE ]
  <1> DEFINE q == conn[Host[t]]
             s == [ op |-> op, task |-> t, side |-> side,
                    attempt |-> task[t].attempt, awaited |-> TRUE ]
  <1>1. Host[t] \in Worker /\ q \in Seq(Statement)
    BY AttemptAssumption DEF CommTypes
  <1>2. s \in Statement
    BY DEF Statement, Ask, TasksOK, TaskOK, TaskState
  <1>3. conn' = [conn EXCEPT ![Host[t]] = Append(q, s)]
    BY DEF Send
  <1> HIDE DEF q, s
  <1>4. /\ Append(q, s) \in Seq(Statement) /\ Len(Append(q, s)) = Len(q) + 1
        /\ \A i \in 1..Len(q) : Append(q, s)[i] = q[i]
        /\ Append(q, s)[Len(q) + 1] = s
        /\ Len(q) \in Nat
    BY <1>1, <1>2, AppendProperties, LenProperties
  <1>5. QED
    BY <1>1, <1>3, <1>4 DEF CommTypes, q, s

\* Two statements that differ at most in who reads the reply.
SameStatement(s, u) ==
  s.op = u.op /\ s.task = u.task /\ s.side = u.side /\ s.attempt = u.attempt

\* What remains of a connection when the futures of t are dropped.
LEMMA AbandonSeq ==
  ASSUME CommTypes, OneStatement, NEW t \in Task, NEW side \in Side, Abandon(t, {side})
  PROVE  LET q == conn[Host[t]]
             p == conn'[Host[t]]
         IN /\ conn' \in [Worker -> Seq(Statement)]
            /\ \A w \in Worker : w # Host[t] => conn'[w] = conn[w]
            /\ Len(q) \in Nat /\ Len(p) \in Nat /\ Len(p) <= Len(q)
            /\ \A i \in 1..Len(p) :
                 /\ SameStatement(p[i], q[i])
                 /\ p[i].awaited => q[i].awaited /\ ~Awaits(q[i], t, {side})
  <1> DEFINE q == conn[Host[t]]
  <1>1. Host[t] \in Worker /\ q \in Seq(Statement) /\ Len(q) \in Nat
    BY AttemptAssumption, LenProperties DEF CommTypes
  <1>2. \A i \in 1..Len(q) : q[i] \in Statement
    BY <1>1, ElementOfSeq
  <1>3. CASE conn' = [conn EXCEPT ![Host[t]] = Unread(q, t, {side})]
    <2>1. conn'[Host[t]] = Unread(q, t, {side})
      BY <1>1, <1>3 DEF CommTypes
    <2>2. /\ conn' \in [Worker -> Seq(Statement)]
          /\ \A w \in Worker : w # Host[t] => conn'[w] = conn[w]
      BY <1>1, <1>3, UnreadSeq DEF CommTypes
    <2>3. Len(conn'[Host[t]]) = Len(q)
      BY <1>1, <2>1, UnreadSeq
    <2>4. ASSUME NEW i \in 1..Len(q)
          PROVE  /\ SameStatement(conn'[Host[t]][i], q[i])
                 /\ conn'[Host[t]][i].awaited => q[i].awaited /\ ~Awaits(q[i], t, {side})
      <3>1. conn'[Host[t]][i] = IF Awaits(q[i], t, {side})
                                THEN [q[i] EXCEPT !.awaited = FALSE] ELSE q[i]
        BY <1>1, <2>1, UnreadSeq
      <3>2. CASE Awaits(q[i], t, {side})
        BY <1>2, <3>1, <3>2, NotAwaited DEF SameStatement
      <3>3. CASE ~Awaits(q[i], t, {side})
        BY <3>1, <3>3 DEF SameStatement
      <3>4. QED BY <3>2, <3>3
    <2>5. \A i \in 1..Len(conn'[Host[t]]) :
            /\ SameStatement(conn'[Host[t]][i], q[i])
            /\ conn'[Host[t]][i].awaited => q[i].awaited /\ ~Awaits(q[i], t, {side})
      BY <2>3, <2>4
    <2>6. Len(conn'[Host[t]]) \in Nat /\ Len(conn'[Host[t]]) <= Len(q)
      BY <1>1, <2>3
    <2>7. QED BY <1>1, <2>2, <2>5, <2>6 DEF SameStatement
  <1>4. CASE conn' = [conn EXCEPT ![Host[t]] = Withdrawn(q, t, {side})]
    <2>1. conn'[Host[t]] = Withdrawn(q, t, {side})
      BY <1>1, <1>4 DEF CommTypes
    <2>2. /\ conn' \in [Worker -> Seq(Statement)]
          /\ \A w \in Worker : w # Host[t] => conn'[w] = conn[w]
      BY <1>1, <1>4, WithdrawnSeq DEF CommTypes
    <2>3. /\ Len(conn'[Host[t]]) \in Nat /\ Len(conn'[Host[t]]) <= Len(q)
          /\ \A i \in 1..Len(conn'[Host[t]]) : conn'[Host[t]][i] = q[i]
          /\ Len(conn'[Host[t]]) = Len(q) => q = <<>> \/ ~Awaits(q[Len(q)], t, {side})
      BY <1>1, <2>1, WithdrawnSeq, LenProperties
    <2>4. ASSUME NEW i \in 1..Len(conn'[Host[t]]), q[i].awaited
          PROVE  ~Awaits(q[i], t, {side})
      <3>1. i \in 1..Len(q)
        BY <1>1, <2>3
      <3>2. i = Len(q)
        BY <1>1, <2>4, <3>1 DEF OneStatement, StatementOK
      <3>3. Len(conn'[Host[t]]) = Len(q) /\ q # <<>>
        BY <1>1, <2>3, <3>1, <3>2, EmptySeq
      <3>4. QED BY <2>3, <3>2, <3>3
    <2>5. QED BY <1>1, <2>2, <2>3, <2>4 DEF SameStatement
  <1>5. QED
    BY <1>3, <1>4 DEF Abandon

\* A statement on a connection is one, and belongs to a task of its process.
LEMMA StatementOf ==
  ASSUME Comm, NEW w \in Worker, NEW i \in 1..Len(conn[w])
  PROVE  /\ conn[w] \in Seq(Statement) /\ Len(conn[w]) \in Nat
         /\ conn[w][i] \in Statement /\ conn[w][i].task \in Task
         /\ conn[w][i].side \in Side /\ Host[conn[w][i].task] = w
  <1>1. conn[w] \in Seq(Statement)
    BY DEF Comm, CommTypes
  <1>2. Len(conn[w]) \in Nat /\ conn[w][i] \in Statement
    BY <1>1, ElementOfSeq, LenProperties
  <1>3. QED BY <1>1, <1>2 DEF Comm, OneStatement, StatementOK, Statement

\* The statements of a connection that a step does not touch keep their order.
LEMMA StatementKept ==
  ASSUME Comm, NEW w \in Worker, NEW i \in 1..Len(conn[w]),
         conn'[w] = conn[w], jobsLock'[w] = jobsLock[w],
         task'[conn[w][i].task] = task[conn[w][i].task],
         \A r \in replies' : r \in replies \/ Host[r.task] # w
  PROVE  StatementOK(w, conn[w][i], i = Len(conn[w]))'
  <1>1. PICK s : s = conn[w][i]
    OBVIOUS
  <1>2. PICK last \in BOOLEAN : last = (i = Len(conn[w]))
    OBVIOUS
  <1>3. StatementOK(w, s, last)
    BY <1>1, <1>2 DEF Comm, OneStatement
  <1>4. task'[s.task] = task[s.task]
    BY <1>1
  <1>5. StatementOK(w, s, last)'
    <2>1. Waits(s.task, s.side, s.op) => Waits(s.task, s.side, s.op)'
      BY <1>4 DEF Waits
    <2>2. QED BY <1>3, <2>1 DEF StatementOK
  <1>6. s = conn'[w][i] /\ last = (i = Len(conn'[w]))
    BY <1>1, <1>2
  <1>7. QED BY <1>5, <1>6

\* So do the replies of the processes that a step does not touch.
LEMMA RepliesUndisturbed ==
  ASSUME OneReply,
         \A r \in replies' :
           /\ r \in replies
           /\ conn'[Host[r.task]] = conn[Host[r.task]]
           /\ jobsLock'[Host[r.task]] = jobsLock[Host[r.task]]
           /\ task'[r.task] = task[r.task]
  PROVE  OneReply'
  <1>1. ASSUME NEW r \in replies'
        PROVE  /\ conn'[Host[r.task]] = <<>>
               /\ jobsLock'[Host[r.task]] = <<r.task, r.side>>
               /\ IF r.side = "main"
                  THEN task'[r.task].pc \in {"claim", "acquire", "finish", "fail"}
                  ELSE task'[r.task].beat = "renew"
    BY <1>1 DEF OneReply
  <1>2. \A r, q \in replies' : Host[q.task] = Host[r.task] => q = r
    BY DEF OneReply
  <1>3. QED BY <1>1, <1>2 DEF OneReply

\* A step that leaves the connection alone keeps the exchange in order.
LEMMA QuietComm ==
  ASSUME Comm, NEW t \in Task, Alone(t), Quiet(t)
  PROVE  Comm'
  <1> USE DEF Quiet
  <1>1. CommTypes'
    BY DEF Comm, CommTypes
  <1>2. ASSUME NEW u \in Task, NEW side \in Side, NEW op, Waits(u, side, op)
        PROVE  Waits(u, side, op)'
    BY <1>2 DEF Waits, Alone
  <1>3. OneStatement'
    <2>1. ASSUME NEW w \in Worker, NEW i \in 1..Len(conn[w])
          PROVE  StatementOK(w, conn[w][i], i = Len(conn[w]))'
      <3>1. PICK s \in Statement : s = conn[w][i]
        BY StatementOf
      <3>2. StatementOK(w, s, i = Len(conn[w])) /\ s.task \in Task /\ s.side \in Side
        BY <3>1, StatementOf DEF Comm, OneStatement
      <3>3. s.awaited => Waits(s.task, s.side, s.op)'
        BY <3>2, <1>2 DEF StatementOK
      <3>4. QED BY <3>1, <3>2, <3>3 DEF StatementOK, Waits
    <2>2. QED BY <2>1 DEF OneStatement
  <1>4. OneReply'
    <2>1. ASSUME NEW r \in replies
          PROVE  /\ conn[Host[r.task]] = <<>>
                 /\ jobsLock[Host[r.task]] = <<r.task, r.side>>
                 /\ \A q \in replies : Host[q.task] = Host[r.task] => q = r
      BY DEF Comm, OneReply
    <2>2. ASSUME NEW r \in replies, r.side = "main"
          PROVE  task'[r.task].pc \in {"claim", "acquire", "finish", "fail"}
      <3>1. task[r.task].pc \in {"claim", "acquire", "finish", "fail"}
        BY <2>2 DEF Comm, OneReply
      <3>2. r.task \in Task
        BY DEF Comm, CommTypes, Reply
      <3>3. QED BY <3>1, <3>2 DEF Alone
    <2>3. ASSUME NEW r \in replies, r.side # "main"
          PROVE  task'[r.task].beat = "renew"
      <3>1. task[r.task].beat = "renew"
        BY <2>3 DEF Comm, OneReply
      <3>2. r.task \in Task
        BY DEF Comm, CommTypes, Reply
      <3>3. QED BY <3>1, <3>2 DEF Alone
    <2>4. replies' = replies /\ conn' = conn /\ jobsLock' = jobsLock
      OBVIOUS
    <2>5. QED BY <2>1, <2>2, <2>3, <2>4 DEF OneReply
  <1>5. QED BY <1>1, <1>3, <1>4 DEF Comm

\* A statement is sent with nothing else under way: the mutex was free.
LEMMA AsksComm ==
  ASSUME TasksOK, Comm, NEW t \in Task, Alone(t), NEW side \in Side, NEW op \in Ask,
         Asks(t, side, op)
  PROVE  Comm'
  <1> DEFINE h == Host[t]
  <1>0. h \in Worker /\ jobsLock[h] = Free /\ replies' = replies
    BY AttemptAssumption DEF Asks, LockIsFree
  <1>1. /\ jobsLock' \in [Worker -> {Free} \cup (Task \X Side)]
        /\ jobsLock'[h] = <<t, side>>
        /\ \A w \in Worker : w # h => jobsLock'[w] = jobsLock[w]
    BY <1>0 DEF Asks, Lock, Comm, CommTypes
  <1>2. /\ conn' \in [Worker -> Seq(Statement)]
        /\ \A w \in Worker : w # h => conn'[w] = conn[w]
        /\ Len(conn[h]) \in Nat
        /\ Len(conn'[h]) = Len(conn[h]) + 1
        /\ \A i \in 1..Len(conn[h]) : conn'[h][i] = conn[h][i]
        /\ conn'[h][Len(conn[h]) + 1] =
             [ op |-> op, task |-> t, side |-> side,
               attempt |-> task[t].attempt, awaited |-> TRUE ]
    BY SendSeq DEF Asks, Comm
  <1>3. CommTypes'
    BY <1>0, <1>1, <1>2 DEF Comm, CommTypes
  <1>4. \A u \in Task : \A s : <<u, s>> # Free
    BY DEF Free
  <1>5. \A r \in replies : r.task \in Task /\ Host[r.task] # h
    <2>1. ASSUME NEW r \in replies
          PROVE  r.task \in Task /\ jobsLock[Host[r.task]] = <<r.task, r.side>>
      BY DEF Comm, CommTypes, OneReply, Reply
    <2>2. QED BY <1>0, <1>4, <2>1
  <1>6. ASSUME NEW i \in 1..Len(conn[h])
        PROVE  ~conn[h][i].awaited /\ Host[conn[h][i].task] = h
    <2>1. conn[h][i].task \in Task /\ Host[conn[h][i].task] = h
      BY <1>0, StatementOf
    <2>2. jobsLock[h] # <<conn[h][i].task, conn[h][i].side>>
      BY <1>0, <1>4, <2>1
    <2>3. StatementOK(h, conn[h][i], i = Len(conn[h]))
      BY <1>0 DEF Comm, OneStatement
    <2>4. QED BY <2>1, <2>2, <2>3 DEF StatementOK
  <1>7. ASSUME NEW w \in Worker, NEW i \in 1..Len(conn'[w])
        PROVE  StatementOK(w, conn[w][i], i = Len(conn[w]))'
    <2>1. CASE w = h /\ i = Len(conn[h]) + 1
      <3>1. Waits(t, side, op)'
        BY DEF Asks
      <3>2. /\ conn'[w][i] = [ op |-> op, task |-> t, side |-> side,
                               attempt |-> task[t].attempt, awaited |-> TRUE ]
            /\ i = Len(conn'[w]) /\ Host[t] = w /\ jobsLock'[w] = <<t, side>>
            /\ \A r \in replies' : Host[r.task] # w
        BY <1>0, <1>1, <1>2, <1>5, <2>1
      <3>3. QED BY <3>1, <3>2 DEF StatementOK, Waits
    <2>2. CASE w = h /\ i \in 1..Len(conn[h])
      <3>1. conn'[w][i] = conn[h][i] /\ ~conn[h][i].awaited /\ Host[conn[h][i].task] = h
        BY <1>0, <1>2, <1>6, <2>2
      <3>2. QED BY <3>1, <2>2 DEF StatementOK
    <2>3. CASE w # h
      <3>1. conn'[w] = conn[w] /\ jobsLock'[w] = jobsLock[w]
        BY <1>1, <1>2, <2>3
      <3>2. conn[w][i].task \in Task /\ Host[conn[w][i].task] = w
        BY <1>7, <3>1, StatementOf
      <3>3. task'[conn[w][i].task] = task[conn[w][i].task]
        BY <2>3, <3>2 DEF Alone
      <3>4. \A r \in replies' : r \in replies
        BY <1>0
      <3>5. QED BY <1>7, <3>1, <3>3, <3>4, StatementKept
    <2>4. i \in 1..Len(conn[w]) \/ (w = h /\ i = Len(conn[h]) + 1)
      BY <1>2, <1>7
    <2>5. QED BY <2>1, <2>2, <2>3, <2>4
  <1>8. OneStatement'
    BY <1>7 DEF OneStatement
  <1>9. OneReply'
    <2>1. ASSUME NEW r \in replies
          PROVE  /\ conn'[Host[r.task]] = conn[Host[r.task]]
                 /\ jobsLock'[Host[r.task]] = jobsLock[Host[r.task]]
                 /\ task'[r.task] = task[r.task]
      <3>1. r.task \in Task /\ Host[r.task] \in Worker /\ Host[r.task] # h
        BY <1>5, AttemptAssumption
      <3>2. QED BY <1>1, <1>2, <3>1 DEF Alone
    <2>2. QED BY <1>0, <2>1, RepliesUndisturbed DEF Comm
  <1>10. QED BY <1>3, <1>8, <1>9 DEF Comm

\* Whoever reads a reply finds the connection empty and no other reply.
LEMMA ReplyFound ==
  ASSUME Comm, NEW r \in replies
  PROVE  /\ r \in Reply /\ r.task \in Task /\ r.side \in Side /\ Host[r.task] \in Worker
         /\ conn[Host[r.task]] = <<>> /\ Len(conn[Host[r.task]]) = 0
         /\ jobsLock[Host[r.task]] = <<r.task, r.side>>
         /\ \A q \in replies : Host[q.task] = Host[r.task] => q = r
  BY AttemptAssumption DEF Comm, CommTypes, OneReply, Reply

\* The second statement of an acquisition follows the reply to the first one.
LEMMA AsksAgainComm ==
  ASSUME TasksOK, Comm, NEW t \in Task, Alone(t), NEW r \in replies, AsksAgain(t, r)
  PROVE  Comm'
  <1> DEFINE h == Host[t]
  <1>0. /\ h \in Worker /\ r.task = t /\ r.side = "main" /\ replies' = replies \ {r}
        /\ jobsLock' = jobsLock
    BY AttemptAssumption DEF AsksAgain, Receive
  <1>1. /\ jobsLock[h] = <<t, "main">> /\ Len(conn[h]) = 0
        /\ \A q \in replies' : q \in replies /\ q.task \in Task /\ Host[q.task] # h
    BY <1>0, ReplyFound
  <1>2. /\ conn' \in [Worker -> Seq(Statement)]
        /\ \A w \in Worker : w # h => conn'[w] = conn[w]
        /\ Len(conn'[h]) = 1
        /\ conn'[h][1] =
             [ op |-> "acquire", task |-> t, side |-> "main",
               attempt |-> task[t].attempt, awaited |-> TRUE ]
    <2>1. "main" \in Side /\ "acquire" \in Ask \cup {"acquire"}
      BY DEF Side
    <2>2. Send(t, "main", "acquire") /\ CommTypes
      BY DEF AsksAgain, Comm
    <2>3. /\ conn' \in [Worker -> Seq(Statement)]
          /\ \A w \in Worker : w # h => conn'[w] = conn[w]
          /\ Len(conn'[h]) = Len(conn[h]) + 1
          /\ conn'[h][Len(conn[h]) + 1] =
               [ op |-> "acquire", task |-> t, side |-> "main",
                 attempt |-> task[t].attempt, awaited |-> TRUE ]
      BY <2>1, <2>2, SendSeq
    <2>4. Len(conn[h]) + 1 = 1
      BY <1>1
    <2>5. QED BY <2>3, <2>4
  <1>3. CommTypes'
    BY <1>0, <1>2 DEF Comm, CommTypes
  <1>4. ASSUME NEW w \in Worker, NEW i \in 1..Len(conn'[w])
        PROVE  StatementOK(w, conn[w][i], i = Len(conn[w]))'
    <2>1. CASE w = h
      <3>0. i = 1
        <4>1. Len(conn'[w]) = 1
          BY <1>2, <2>1
        <4>2. QED BY <1>4, <4>1
      <3>1. task'[t].pc = "acquire"
        BY DEF AsksAgain
      <3>2. /\ conn'[w][i] = [ op |-> "acquire", task |-> t, side |-> "main",
                               attempt |-> task[t].attempt, awaited |-> TRUE ]
            /\ i = Len(conn'[w]) /\ Host[t] = w /\ jobsLock'[w] = <<t, "main">>
            /\ \A q \in replies' : Host[q.task] # w
        BY <1>0, <1>1, <1>2, <2>1, <3>0
      <3>3. QED BY <3>1, <3>2 DEF StatementOK, Waits
    <2>2. CASE w # h
      <3>1. conn'[w] = conn[w]
        BY <1>2, <2>2
      <3>2. conn[w][i].task \in Task /\ Host[conn[w][i].task] = w
        BY <1>4, <3>1, StatementOf
      <3>3. task'[conn[w][i].task] = task[conn[w][i].task]
        BY <2>2, <3>2 DEF Alone
      <3>4. jobsLock'[w] = jobsLock[w] /\ \A q \in replies' : q \in replies
        BY <1>0, <1>1
      <3>5. QED BY <1>4, <3>1, <3>3, <3>4, StatementKept
    <2>3. QED BY <2>1, <2>2
  <1>5. OneStatement'
    BY <1>4 DEF OneStatement
  <1>6. OneReply'
    <2>1. ASSUME NEW q \in replies'
          PROVE  /\ q \in replies /\ conn'[Host[q.task]] = conn[Host[q.task]]
                 /\ jobsLock'[Host[q.task]] = jobsLock[Host[q.task]]
                 /\ task'[q.task] = task[q.task]
      <3>1. /\ q \in replies /\ q.task \in Task
            /\ Host[q.task] \in Worker /\ Host[q.task] # h
        BY <1>1, AttemptAssumption
      <3>2. QED BY <1>0, <1>2, <3>1 DEF Alone
    <2>2. QED BY <2>1, RepliesUndisturbed DEF Comm
  <1>7. QED BY <1>3, <1>5, <1>6 DEF Comm

\* The mutex is left when its one reply has been read.
LEMMA HearsComm ==
  ASSUME TasksOK, Comm, NEW t \in Task, Alone(t), NEW side \in Side, NEW r \in replies,
         Hears(t, side, r)
  PROVE  Comm'
  <1> DEFINE h == Host[t]
  <1>0. /\ h \in Worker /\ r.task = t /\ r.side = side /\ replies' = replies \ {r}
        /\ conn' = conn
    BY AttemptAssumption DEF Hears, Receive
  <1>1. /\ Len(conn[h]) = 0
        /\ \A q \in replies' : q \in replies /\ q.task \in Task /\ Host[q.task] # h
    BY <1>0, ReplyFound
  <1>2. /\ jobsLock' \in [Worker -> {Free} \cup (Task \X Side)]
        /\ \A w \in Worker : w # h => jobsLock'[w] = jobsLock[w]
    BY <1>0 DEF Hears, Unlock, Comm, CommTypes
  <1>3. CommTypes'
    BY <1>0, <1>2 DEF Comm, CommTypes
  <1>4. ASSUME NEW w \in Worker, NEW i \in 1..Len(conn[w])
        PROVE  StatementOK(w, conn[w][i], i = Len(conn[w]))'
    <2>1. w # h
      BY <1>1, <1>4
    <2>2. conn[w][i].task \in Task /\ Host[conn[w][i].task] = w
      BY <1>4, StatementOf
    <2>3. task'[conn[w][i].task] = task[conn[w][i].task]
      BY <2>1, <2>2 DEF Alone
    <2>4. /\ conn'[w] = conn[w] /\ jobsLock'[w] = jobsLock[w]
          /\ \A q \in replies' : q \in replies
      BY <1>0, <1>1, <1>2, <2>1
    <2>5. QED BY <1>4, <2>3, <2>4, StatementKept
  <1>5. OneStatement'
    BY <1>0, <1>4 DEF OneStatement
  <1>6. OneReply'
    <2>1. ASSUME NEW q \in replies'
          PROVE  /\ q \in replies /\ conn'[Host[q.task]] = conn[Host[q.task]]
                 /\ jobsLock'[Host[q.task]] = jobsLock[Host[q.task]]
                 /\ task'[q.task] = task[q.task]
      <3>1. /\ q \in replies /\ q.task \in Task
            /\ Host[q.task] \in Worker /\ Host[q.task] # h
        BY <1>1, AttemptAssumption
      <3>2. QED BY <1>0, <1>2, <3>1 DEF Alone
    <2>2. QED BY <2>1, RepliesUndisturbed DEF Comm
  <1>7. QED BY <1>3, <1>5, <1>6 DEF Comm

\* What a dropped future leaves on the connection has no reader any more.
LEMMA GivesUpComm ==
  ASSUME TasksOK, Comm, NEW t \in Task, Alone(t), NEW side \in Side, GivesUp(t, side)
  PROVE  Comm'
  <1> DEFINE h == Host[t]
  <1>0. /\ h \in Worker /\ Abandon(t, {side})
        /\ \A r : r \in replies' <=> r \in replies /\ ~(r.task = t /\ r.side = side)
    BY AttemptAssumption DEF GivesUp, Abandon
  <1>1. /\ conn' \in [Worker -> Seq(Statement)]
        /\ \A w \in Worker : w # h => conn'[w] = conn[w]
        /\ Len(conn[h]) \in Nat /\ Len(conn'[h]) \in Nat /\ Len(conn'[h]) <= Len(conn[h])
        /\ \A i \in 1..Len(conn'[h]) :
             /\ SameStatement(conn'[h][i], conn[h][i])
             /\ conn'[h][i].awaited =>
                  conn[h][i].awaited /\ ~Awaits(conn[h][i], t, {side})
    BY <1>0, AbandonSeq DEF Comm
  <1>2. /\ jobsLock' \in [Worker -> {Free} \cup (Task \X Side)]
        /\ \A w \in Worker : w # h => jobsLock'[w] = jobsLock[w]
        /\ \A u \in Task, d \in Side :
             jobsLock[h] = <<u, d>> /\ ~(u = t /\ d = side) => jobsLock'[h] = jobsLock[h]
    BY <1>0 DEF Abandon, Comm, CommTypes
  <1>3. CommTypes'
    BY <1>0, <1>1, <1>2 DEF Comm, CommTypes
  <1>4. ASSUME NEW u \in Task, NEW d \in Side, ~(u = t /\ d = side)
        PROVE  /\ d = "main" => task'[u].pc = task[u].pc
               /\ d # "main" => task'[u].beat = task[u].beat
    BY <1>4 DEF Alone, GivesUp, Side
  <1>5. ASSUME NEW w \in Worker, NEW i \in 1..Len(conn'[w])
        PROVE  StatementOK(w, conn[w][i], i = Len(conn[w]))'
    <2>1. CASE w = h
      <3> DEFINE s == conn[h][i]
      <3>0. i \in 1..Len(conn'[h])
        BY <1>5, <2>1
      <3>1. i \in 1..Len(conn[h]) /\ SameStatement(conn'[h][i], s)
            /\ (conn'[h][i].awaited => s.awaited /\ ~Awaits(s, t, {side}))
        <4>1. i \in 1..Len(conn[h])
          BY <1>1, <3>0
        <4>2. QED BY <1>1, <3>0, <4>1, Zenon
      <3>2. StatementOK(w, s, i = Len(conn[h])) /\ s.task \in Task /\ s.side \in Side
        BY <2>1, <3>1, StatementOf DEF Comm, OneStatement
      <3>3. CASE ~conn'[h][i].awaited
        BY <2>1, <3>1, <3>2, <3>3 DEF StatementOK, SameStatement
      <3>4. CASE conn'[h][i].awaited
        <4>1. s.awaited /\ ~(s.task = t /\ s.side = side)
          BY <3>1, <3>4 DEF Awaits
        <4>2. i = Len(conn'[h])
          BY <1>1, <1>5, <2>1, <3>2, <4>1 DEF StatementOK
        <4>3. jobsLock'[h] = <<s.task, s.side>>
          BY <1>2, <2>1, <3>2, <4>1 DEF StatementOK
        <4>4. \A r \in replies' : Host[r.task] # h
          BY <1>0, <2>1, <3>2, <4>1 DEF StatementOK
        <4>5. Waits(s.task, s.side, s.op)
          BY <3>2, <4>1 DEF StatementOK
        <4>6. /\ conn'[h][i].task = s.task /\ conn'[h][i].side = s.side
              /\ conn'[h][i].op = s.op
          BY <3>1 DEF SameStatement
        <4>7. /\ s.side = "main" => task'[s.task].pc = task[s.task].pc
              /\ s.side # "main" => task'[s.task].beat = task[s.task].beat
          BY <1>4, <3>2, <4>1
        <4>8. Host[s.task] = w
          BY <3>2 DEF StatementOK
        <4> HIDE DEF s
        <4>9. QED BY <2>1, <4>2, <4>3, <4>4, <4>5, <4>6, <4>7, <4>8 DEF StatementOK, Waits
      <3>5. QED BY <3>3, <3>4
    <2>2. CASE w # h
      <3>1. conn'[w] = conn[w] /\ jobsLock'[w] = jobsLock[w]
        BY <1>1, <1>2, <2>2
      <3>2. conn[w][i].task \in Task /\ Host[conn[w][i].task] = w
        BY <1>5, <3>1, StatementOf
      <3>3. task'[conn[w][i].task] = task[conn[w][i].task]
        BY <2>2, <3>2 DEF Alone
      <3>4. \A r \in replies' : r \in replies
        BY <1>0
      <3>5. QED BY <1>5, <3>1, <3>3, <3>4, StatementKept
    <2>3. QED BY <2>1, <2>2
  <1>6. OneStatement'
    BY <1>5 DEF OneStatement
  <1>7. OneReply'
    <2>1. ASSUME NEW r \in replies'
          PROVE  /\ conn'[Host[r.task]] = <<>>
                 /\ jobsLock'[Host[r.task]] = <<r.task, r.side>>
                 /\ IF r.side = "main"
                    THEN task'[r.task].pc \in {"claim", "acquire", "finish", "fail"}
                    ELSE task'[r.task].beat = "renew"
      <3>1. /\ r \in replies /\ ~(r.task = t /\ r.side = side)
            /\ r.task \in Task /\ r.side \in Side
        BY <1>0, ReplyFound
      <3>2. /\ conn[Host[r.task]] = <<>> /\ Len(conn[Host[r.task]]) = 0
            /\ jobsLock[Host[r.task]] = <<r.task, r.side>>
        BY <3>1, ReplyFound
      <3>3. Host[r.task] \in Worker
        BY <3>1, AttemptAssumption
      <3>4. conn'[Host[r.task]] = <<>>
        <4>1. CASE Host[r.task] = h
          <5>1. conn'[h] \in Seq(Statement) /\ Len(conn'[h]) = 0
            BY <1>0, <1>1, <3>2, <4>1
          <5>2. QED BY <4>1, <5>1, EmptySeq
        <4>2. CASE Host[r.task] # h
          BY <1>1, <3>2, <3>3, <4>2
        <4>3. QED BY <4>1, <4>2
      <3>5. jobsLock'[Host[r.task]] = <<r.task, r.side>>
        BY <1>2, <3>1, <3>2, <3>3
      <3>6. QED BY <1>4, <3>1, <3>4, <3>5 DEF Comm, OneReply
    <2>2. \A r, q \in replies' : Host[q.task] = Host[r.task] => q = r
      BY <1>0, ReplyFound
    <2>3. QED BY <2>1, <2>2 DEF OneReply
  <1>8. QED BY <1>3, <1>6, <1>7 DEF Comm

\* The statement the database executes, and what is left of the connection.
LEMMA ExecuteSeq ==
  ASSUME Comm, NEW w \in Worker, Execute(w)
  PROVE  LET s == Head(conn[w])
         IN /\ s = conn[w][1] /\ s \in Statement /\ 1 \in 1..Len(conn[w])
            /\ Len(conn[w]) \in Nat
            /\ conn' \in [Worker -> Seq(Statement)]
            /\ \A v \in Worker : v # w => conn'[v] = conn[v]
            /\ Len(conn'[w]) = Len(conn[w]) - 1
            /\ \A i \in 1..Len(conn'[w]) : conn'[w][i] = conn[w][i + 1]
  <1> DEFINE q == conn[w]
  <1>1. q \in Seq(Statement) /\ q # <<>>
    <2>1. q # <<>>
      BY ExecuteFrame
    <2>2. QED BY <2>1 DEF Comm, CommTypes
  <1>2. conn' = [conn EXCEPT ![w] = Tail(q)]
    BY Zenon DEF Execute
  <1>3. conn \in [Worker -> Seq(Statement)]
    BY DEF Comm, CommTypes
  <1> HIDE DEF q
  <1>4. /\ Head(q) = q[1] /\ Head(q) \in Statement /\ Tail(q) \in Seq(Statement)
        /\ Len(Tail(q)) = Len(q) - 1
        /\ \A i \in 1..Len(Tail(q)) : Tail(q)[i] = q[i + 1]
        /\ Len(q) \in Nat \ {0}
    BY <1>1, HeadTailProperties, EmptySeq
  <1>5. conn' \in [Worker -> Seq(Statement)] /\ conn'[w] = Tail(q)
        /\ \A v \in Worker : v # w => conn'[v] = conn[v]
    BY <1>2, <1>3, <1>4
  <1>6. QED
    BY <1>4, <1>5 DEF q

\* The reply, if somebody reads it.
ReplyTo(s, result) ==
  [task |-> s.task, side |-> s.side, result |-> result, attempt |-> jobs[JobOf[s.task]].attempt]

\* A statement is answered if somebody waits for the answer, and not otherwise.
LEMMA ExecuteReply ==
  ASSUME Comm, LeaseTypeOK', NEW w \in Worker, Execute(w), NEW s, s = Head(conn[w])
  PROVE  IF s.awaited
         THEN \E result \in {"applied", "refused", "error"} :
                /\ ReplyTo(s, result)' \in Reply
                /\ replies' = replies \cup {ReplyTo(s, result)'}
                /\ result = "applied" =>
                     Applies(s, JobOf[s.task], w) /\ Apply(s, JobOf[s.task], w)
         ELSE replies' = replies
  <1>1. s \in Statement
    BY ExecuteSeq, Zenon
  <1>2. s.task \in Task /\ s.side \in Side /\ JobOf[s.task] \in Job
    BY <1>1, AttemptAssumption DEF Statement
  <1>3. jobs'[JobOf[s.task]].attempt \in 0..MaxAttempts
    BY <1>2 DEF LeaseTypeOK, Row
  <1>4. CASE s.awaited
    <2>1. PICK result \in {"applied", "refused", "error"} :
            /\ replies' = replies \cup
                 {[ task |-> s.task, side |-> s.side, result |-> result,
                    attempt |-> jobs'[JobOf[s.task]].attempt ]}
            /\ result = "applied" =>
                 Applies(s, JobOf[s.task], w) /\ Apply(s, JobOf[s.task], w)
      BY <1>4, Zenon DEF Execute
    <2>2. QED BY <1>2, <1>3, <1>4, <2>1 DEF ReplyTo, Reply
  <1>5. CASE ~s.awaited
    BY <1>5 DEF Execute
  <1>6. QED BY <1>4, <1>5

\* The answer goes to the one who holds the mutex.
LEMMA ExecuteComm ==
  ASSUME TasksOK, Comm, LeaseTypeOK', NEW w \in Worker, Execute(w)
  PROVE  Comm'
  <1> PICK s : s = Head(conn[w])
    OBVIOUS
  <1>1. /\ s = conn[w][1] /\ s \in Statement /\ 1 \in 1..Len(conn[w])
        /\ Len(conn[w]) \in Nat
        /\ conn' \in [Worker -> Seq(Statement)]
        /\ \A v \in Worker : v # w => conn'[v] = conn[v]
        /\ Len(conn'[w]) = Len(conn[w]) - 1
        /\ \A i \in 1..Len(conn'[w]) : conn'[w][i] = conn[w][i + 1]
    BY ExecuteSeq, Zenon
  <1>2. task' = task /\ jobsLock' = jobsLock
    BY ExecuteFrame
  <1>3. /\ s.task \in Task /\ s.side \in Side /\ Host[s.task] = w
        /\ StatementOK(w, s, 1 = Len(conn[w]))
    <2>1. conn[w][1].task \in Task /\ conn[w][1].side \in Side /\ Host[conn[w][1].task] = w
      BY <1>1, StatementOf
    <2>2. StatementOK(w, conn[w][1], 1 = Len(conn[w]))
      BY <1>1 DEF Comm, OneStatement
    <2>3. QED BY <1>1, <2>1, <2>2
  <1>4. CASE ~s.awaited
    <2>1. replies' = replies
      BY <1>4, ExecuteReply
    <2>2. CommTypes'
      BY <1>1, <1>2, <2>1 DEF Comm, CommTypes
    <2>3. ASSUME NEW v \in Worker, NEW i \in 1..Len(conn'[v])
          PROVE  StatementOK(v, conn[v][i], i = Len(conn[v]))'
      <3>1. CASE v # w
        <4>1. conn'[v] = conn[v]
          BY <1>1, <3>1
        <4>2. /\ jobsLock'[v] = jobsLock[v] /\ task'[conn[v][i].task] = task[conn[v][i].task]
              /\ \A r \in replies' : r \in replies
          BY <1>2, <2>1
        <4>3. QED BY <2>3, <4>1, <4>2, StatementKept
      <3>2. CASE v = w
        <4>1. i + 1 \in 1..Len(conn[w]) /\ conn'[v][i] = conn[w][i + 1]
          BY <1>1, <2>3, <3>2
        <4>2. StatementOK(w, conn[w][i + 1], i + 1 = Len(conn[w]))
          BY <4>1 DEF Comm, OneStatement
        <4>3. i + 1 = Len(conn[w]) => i = Len(conn'[v])
          BY <1>1, <2>3, <3>2
        <4>4. QED BY <1>2, <2>1, <3>2, <4>1, <4>2, <4>3 DEF StatementOK, Waits
      <3>3. QED BY <3>1, <3>2
    <2>4. OneStatement'
      BY <2>3 DEF OneStatement
    <2>5. ASSUME NEW r \in replies PROVE Host[r.task] # w
      <3>1. Len(conn[Host[r.task]]) = 0
        BY ReplyFound
      <3>2. QED BY <1>1, <3>1
    <2>6. OneReply'
      BY <1>1, <1>2, <2>1, <2>5, ReplyFound DEF Comm, OneReply
    <2>7. QED BY <2>2, <2>4, <2>6 DEF Comm
  <1>5. CASE s.awaited
    <2>1. PICK result : /\ ReplyTo(s, result)' \in Reply
                        /\ replies' = replies \cup {ReplyTo(s, result)'}
      BY <1>5, ExecuteReply
    <2>2. /\ Len(conn[w]) = 1 /\ jobsLock[w] = <<s.task, s.side>>
          /\ Waits(s.task, s.side, s.op) /\ \A r \in replies : Host[r.task] # w
      BY <1>3, <1>5 DEF StatementOK
    <2>3. conn'[w] = <<>> /\ Len(conn'[w]) = 0
      BY <1>1, <2>2, EmptySeq
    <2>4. CommTypes'
      BY <1>1, <1>2, <2>1 DEF Comm, CommTypes
    <2>5. ReplyTo(s, result)'.task = s.task /\ ReplyTo(s, result)'.side = s.side
      BY DEF ReplyTo
    <2>6. ASSUME NEW v \in Worker, NEW i \in 1..Len(conn'[v])
          PROVE  StatementOK(v, conn[v][i], i = Len(conn[v]))'
      <3>1. v # w
        BY <2>3, <2>6
      <3>2. conn'[v] = conn[v]
        BY <1>1, <3>1
      <3>3. StatementOK(v, conn[v][i], i = Len(conn[v]))
        BY <2>6, <3>2 DEF Comm, OneStatement
      <3>4. \A r \in replies' : Host[r.task] = v => r \in replies
        BY <1>3, <2>1, <2>5, <3>1
      <3>5. QED BY <1>2, <3>2, <3>3, <3>4 DEF StatementOK, Waits
    <2>7. OneStatement'
      BY <2>6 DEF OneStatement
    <2>8. ASSUME NEW r \in replies'
          PROVE  /\ conn'[Host[r.task]] = <<>>
                 /\ jobsLock'[Host[r.task]] = <<r.task, r.side>>
                 /\ IF r.side = "main"
                    THEN task'[r.task].pc \in {"claim", "acquire", "finish", "fail"}
                    ELSE task'[r.task].beat = "renew"
                 /\ \A q \in replies' : Host[q.task] = Host[r.task] => q = r
      <3>1. CASE r \in replies
        <4>1. Host[r.task] # w /\ Host[r.task] \in Worker
          BY <2>2, <3>1, ReplyFound
        <4>2. QED
          BY <1>1, <1>2, <1>3, <2>1, <2>5, <3>1, <4>1 DEF Comm, OneReply
      <3>2. CASE r = ReplyTo(s, result)'
        <4>1. r.task = s.task /\ r.side = s.side
          BY <2>5, <3>2
        <4>2. \A q \in replies' : Host[q.task] = Host[r.task] => q = r
          BY <1>3, <2>1, <2>2, <3>2, <4>1
        <4>3. QED BY <1>2, <1>3, <2>2, <2>3, <4>1, <4>2 DEF Waits, Side
      <3>3. QED BY <2>1, <3>1, <3>2
    <2>9. OneReply'
      BY <2>8 DEF OneReply
    <2>10. QED BY <2>4, <2>7, <2>9 DEF Comm
  <1>6. QED BY <1>4, <1>5

\* A crash leaves statements on the connection of its process at most.
LEMMA CrashSeq ==
  ASSUME Comm, NEW w \in Worker, Crash(w)
  PROVE  /\ conn' \in [Worker -> Seq(Statement)]
         /\ \A v \in Worker : v # w => conn'[v] = conn[v]
         /\ Len(conn[w]) \in Nat /\ Len(conn'[w]) \in Nat /\ Len(conn'[w]) <= Len(conn[w])
         /\ \A i \in 1..Len(conn'[w]) :
              SameStatement(conn'[w][i], conn[w][i]) /\ ~conn'[w][i].awaited
  <1> DEFINE q == conn[w]
             e(i) == [q[i] EXCEPT !.awaited = FALSE]
             p == [i \in 1..Len(q) |-> e(i)]
  <1>1. q \in Seq(Statement) /\ Len(q) \in Nat /\ conn \in [Worker -> Seq(Statement)]
    BY LenProperties DEF Comm, CommTypes
  <1>2. \A i \in 1..Len(q) : q[i] \in Statement
    BY <1>1, ElementOfSeq
  <1>3. \A i \in 1..Len(q) : e(i) \in Statement /\ SameStatement(e(i), q[i]) /\ ~e(i).awaited
    BY <1>2, NotAwaited DEF SameStatement
  <1>4. conn' = [conn EXCEPT ![w] = <<>>] \/ conn' = [conn EXCEPT ![w] = p]
    BY DEF Crash
  <1>5. CASE conn' = [conn EXCEPT ![w] = <<>>]
    <2>1. <<>> \in Seq(Statement) /\ Len(<<>>) = 0
      BY EmptySeq
    <2>2. conn' \in [Worker -> Seq(Statement)] /\ conn'[w] = <<>>
          /\ \A v \in Worker : v # w => conn'[v] = conn[v]
      BY <1>1, <1>5, <2>1
    <2>3. QED BY <1>1, <2>1, <2>2
  <1>6. CASE conn' = [conn EXCEPT ![w] = p]
    <2> HIDE DEF q, e
    <2>1. p \in Seq(Statement)
      BY <1>1, <1>3
    <2>2. Len(p) = Len(q)
      BY <1>1
    <2>3. \A i \in 1..Len(q) : p[i] = e(i)
      OBVIOUS
    <2> HIDE DEF p
    <2>4. conn' \in [Worker -> Seq(Statement)] /\ conn'[w] = p
          /\ \A v \in Worker : v # w => conn'[v] = conn[v]
      BY <1>1, <1>6, <2>1
    <2>5. \A i \in 1..Len(p) : SameStatement(p[i], q[i]) /\ ~p[i].awaited
      BY <1>3, <2>2, <2>3
    <2>6. QED BY <1>1, <2>2, <2>4, <2>5 DEF q
  <1>7. QED BY <1>4, <1>5, <1>6

\* What a crash does to the tasks.
LEMMA CrashTasks ==
  ASSUME TasksOK, NEW w \in Worker, Crash(w)
  PROVE  /\ task' = [t \in Task |-> task'[t]]
         /\ \A t \in Task : Host[t] # w => task'[t] = task[t]
         /\ \A t \in Task : Host[t] = w =>
              task'[t] = [task[t] EXCEPT !.pc = "done", !.beat = "off"]
  BY DEF Crash

\* A crash takes every reader of the process with it.
LEMMA CrashComm ==
  ASSUME TasksOK, Comm, NEW w \in Worker, Crash(w)
  PROVE  Comm'
  <1>1. /\ conn' \in [Worker -> Seq(Statement)]
        /\ \A v \in Worker : v # w => conn'[v] = conn[v]
        /\ Len(conn[w]) \in Nat /\ Len(conn'[w]) \in Nat /\ Len(conn'[w]) <= Len(conn[w])
        /\ \A i \in 1..Len(conn'[w]) :
             SameStatement(conn'[w][i], conn[w][i]) /\ ~conn'[w][i].awaited
    BY CrashSeq
  <1>2. \A t \in Task : Host[t] # w => task'[t] = task[t]
    BY CrashTasks
  <1>3. /\ jobsLock' \in [Worker -> {Free} \cup (Task \X Side)]
        /\ \A v \in Worker : v # w => jobsLock'[v] = jobsLock[v]
    BY DEF Crash, Comm, CommTypes
  <1>4. \A r \in replies' : r \in replies /\ r.task \in Task /\ Host[r.task] # w
    BY DEF Crash, Comm, CommTypes, Reply
  <1>5. CommTypes'
    BY <1>1, <1>3, <1>4 DEF Comm, CommTypes
  <1>6. ASSUME NEW v \in Worker, NEW i \in 1..Len(conn'[v])
        PROVE  StatementOK(v, conn[v][i], i = Len(conn[v]))'
    <2>1. CASE v = w
      <3>1. i \in 1..Len(conn[w]) /\ i \in 1..Len(conn'[w])
        BY <1>1, <1>6, <2>1
      <3>2. conn'[w][i].task = conn[w][i].task /\ ~conn'[w][i].awaited
        BY <1>1, <3>1 DEF SameStatement
      <3>3. Host[conn[w][i].task] = w
        BY <3>1, StatementOf
      <3>4. QED BY <2>1, <3>2, <3>3 DEF StatementOK
    <2>2. CASE v # w
      <3>1. conn'[v] = conn[v] /\ jobsLock'[v] = jobsLock[v]
        BY <1>1, <1>3, <2>2
      <3>2. conn[v][i].task \in Task /\ Host[conn[v][i].task] = v
        BY <1>6, <3>1, StatementOf
      <3>3. task'[conn[v][i].task] = task[conn[v][i].task]
        BY <1>2, <2>2, <3>2
      <3>4. StatementOK(v, conn[v][i], i = Len(conn[v]))
        BY <1>6, <3>1 DEF Comm, OneStatement
      <3>5. \A q \in replies' : q \in replies
        BY <1>4
      <3>6. QED BY <3>1, <3>3, <3>4, <3>5 DEF StatementOK, Waits
    <2>3. QED BY <2>1, <2>2
  <1>7. OneStatement'
    BY <1>6 DEF OneStatement
  <1>8. OneReply'
    <2>1. ASSUME NEW q \in replies'
          PROVE  /\ q \in replies /\ conn'[Host[q.task]] = conn[Host[q.task]]
                 /\ jobsLock'[Host[q.task]] = jobsLock[Host[q.task]]
                 /\ task'[q.task] = task[q.task]
      <3>1. /\ q \in replies /\ q.task \in Task
            /\ Host[q.task] \in Worker /\ Host[q.task] # w
        BY <1>4, AttemptAssumption
      <3>2. QED BY <1>1, <1>2, <1>3, <3>1
    <2>2. QED BY <2>1, RepliesUndisturbed DEF Comm
  <1>9. QED BY <1>5, <1>7, <1>8 DEF Comm

\* Time moves nobody.
LEMMA TickComm ==
  ASSUME TasksOK, Comm, Tick
  PROVE  Comm'
  <1>1. UNCHANGED <<jobsLock, conn, replies>>
    BY DEF Tick
  <1>2. \A t \in Task : task'[t].pc = task[t].pc /\ task'[t].beat = task[t].beat
    BY DEF Tick, TasksOK, TaskOK, TaskState
  <1>3. CommTypes'
    BY <1>1 DEF Comm, CommTypes
  <1>4. ASSUME NEW w \in Worker, NEW i \in 1..Len(conn[w])
        PROVE  StatementOK(w, conn[w][i], i = Len(conn[w]))'
    <2>1. StatementOK(w, conn[w][i], i = Len(conn[w])) /\ conn[w][i].task \in Task
      BY <1>4, StatementOf DEF Comm, OneStatement
    <2>2. QED BY <1>1, <1>2, <2>1 DEF StatementOK, Waits
  <1>5. OneStatement'
    BY <1>1, <1>4 DEF OneStatement
  <1>6. OneReply'
    BY <1>1, <1>2, ReplyFound DEF Comm, OneReply
  <1>7. QED BY <1>3, <1>5, <1>6 DEF Comm

-----------------------------------------------------------------------------
(* The invariant of the protocol.                                          *)

\* The reply r tells its task that it has acquired the job.
Grants(r) == r.side = "main" /\ r.result = "applied" /\ task[r.task].pc = "acquire"

\* Attempts are counted from 1.
GrantsPositive == \A r \in replies : Grants(r) => r.attempt # 0

\* Table, tasks, connections and bucket are in order.
ProtocolInv ==
  /\ LeaseInv
  /\ mode \in Modes
  /\ TasksOK
  /\ Comm
  /\ GrantsPositive
  /\ writes \subseteq Write
  /\ stored \in [Job -> SUBSET ((0..MaxAttempts) \X Object)]

\* The type invariant is part of it.
LEMMA ProtocolTypes == ProtocolInv => AttemptTypeOK
  BY DEF ProtocolInv, LeaseInv, TasksOK, TaskOK, Comm, CommTypes, AttemptTypeOK

\* The other steps of a task.
LEMMA AcquireSteps ==
  ASSUME ProtocolInv, NEW t \in Task, AcquireReply(t)
  PROVE  \/ OrdinaryStep(t)
         \/ \E r \in replies :
              /\ Grants(r) /\ r.task = t /\ replies' = replies \ {r}
              /\ Alone(t) /\ TaskOK(task'[t])
              /\ task[t].local > 0
              /\ task'[t] = [task[t] EXCEPT !.pc = "work", !.attempt = r.attempt,
                                            !.active = TRUE, !.beat = "wait"]
  <1>1. PICK r \in replies :
          /\ Receive(t, "main", r)
          /\ task' = [task EXCEPT ![t] =
               IF r.result = "applied" /\ @.local > 0
                 THEN [@ EXCEPT !.pc = "work", !.attempt = r.attempt,
                                !.active = TRUE, !.beat = "wait"]
                 ELSE [@ EXCEPT !.pc = "done"]]
    BY DEF AcquireReply, Receive
  <1>2. task[t].pc = "acquire" /\ TaskOK(task[t]) /\ TasksOK
    BY DEF AcquireReply, ProtocolInv, TasksOK
  <1>3. CASE r.result = "applied" /\ task[t].local > 0
    <2>1. /\ r.task = t /\ r.side = "main" /\ replies' = replies \ {r} /\ r \in Reply
          /\ r.attempt # 0
      BY <1>1, <1>2, <1>3, ReplyFound DEF Receive, ProtocolInv, GrantsPositive, Grants
    <2>2. /\ task'[t] = [task[t] EXCEPT !.pc = "work", !.attempt = r.attempt,
                                        !.active = TRUE, !.beat = "wait"]
          /\ Alone(t)
      BY <1>1, <1>2, <1>3 DEF TasksOK, Alone
    <2>3. TaskOK(task'[t])
      <3> DEFINE o == task[t]
                 a == r.attempt
                 n == [o EXCEPT !.pc = "work", !.attempt = a, !.active = TRUE, !.beat = "wait"]
      <3>1. o \in TaskState /\ a \in 0..MaxAttempts /\ a # 0
        BY <1>2, <2>1 DEF TaskOK, Reply
      <3>2. task'[t] = n
        BY <2>2
      <3> HIDE DEF o, a
      <3>3. n \in TaskState
        BY <3>1 DEF TaskState
      <3>4. n.pc = "work" /\ n.attempt = a /\ n.active = TRUE /\ n.beat = "wait"
        BY <3>1 DEF TaskState
      <3> HIDE DEF n
      <3>5. QED BY <3>1, <3>2, <3>3, <3>4 DEF TaskOK, PhaseOf
    <2>4. QED BY <1>2, <1>3, <2>1, <2>2, <2>3 DEF Grants
  <1>4. CASE ~(r.result = "applied" /\ task[t].local > 0)
    <2>1. task' = [task EXCEPT ![t] = [@ EXCEPT !.pc = "done"]]
      BY <1>1, <1>4
    <2>2. QED
      BY <1>2, <2>1 DEF OrdinaryStep, Alone, TasksOK, TaskOK, TaskState, PhaseOf,
         Ordinary, Forward
  <1>5. QED BY <1>3, <1>4

\* A start sets the deadline of the acquisition, ...
LEMMA StartStep ==
  ASSUME TasksOK, NEW t \in Task, Start(t)
  PROVE  /\ Alone(t) /\ TaskOK(task'[t])
         /\ task'[t] = [task[t] EXCEPT !.pc = "lock", !.local = LeaseTicks]
  <1>1. task[t].pc = "idle" /\ TaskOK(task[t]) /\ LeaseTicks \in 0..LeaseTicks
    BY LeaseAssumption DEF Start, TasksOK
  <1>2. task'[t] = [task[t] EXCEPT !.pc = "lock", !.local = LeaseTicks] /\ Alone(t)
    BY DEF Start, Alone, TasksOK
  <1>3. TaskOK(task'[t])
    BY <1>1, <1>2 DEF TaskOK, TaskState, PhaseOf
  <1>4. QED BY <1>2, <1>3

\* ... a renewal its budget, ...
LEMMA BeginRenewalStep ==
  ASSUME TasksOK, NEW t \in Task, BeginRenewal(t)
  PROVE  /\ Alone(t) /\ TaskOK(task'[t])
         /\ task'[t] = [task[t] EXCEPT !.beat = "lock", !.budget = LeaseTicks]
  <1>1. task[t].beat = "wait" /\ TaskOK(task[t]) /\ LeaseTicks \in 0..LeaseTicks
    BY LeaseAssumption DEF BeginRenewal, TasksOK
  <1>2. task'[t] = [task[t] EXCEPT !.beat = "lock", !.budget = LeaseTicks] /\ Alone(t)
    BY DEF BeginRenewal, Alone, TasksOK
  <1>3. TaskOK(task'[t])
    BY <1>1, <1>2 DEF TaskOK, TaskState, PhaseOf
  <1>4. QED BY <1>2, <1>3

\* ... which counts at once when the attempt is over; ...
LEMMA RenewUnderLockStep ==
  ASSUME TasksOK, NEW t \in Task, RenewUnderLock(t)
  PROVE  /\ Alone(t) /\ TaskOK(task'[t])
         /\ \/ task[t].active /\ task'[t] = [task[t] EXCEPT !.beat = "renew"]
            \/ ~task[t].active
               /\ task'[t] = [task[t] EXCEPT !.beat = "wait", !.local = task[t].budget]
  BY DEF RenewUnderLock, Alone, TasksOK, TaskOK, TaskState, PhaseOf

\* ... otherwise it counts if the renewal was applied, and the attempt is lost if not.
LEMMA RenewReplyStep ==
  ASSUME TasksOK, NEW t \in Task, RenewReply(t)
  PROVE  /\ Alone(t) /\ TaskOK(task'[t])
         /\ \/ /\ \E r \in replies : /\ r.task = t /\ r.side = "heartbeat"
                                     /\ r.result = "applied"
                                     /\ replies' = replies \ {r}
               /\ task'[t] = Renewed(task[t])
            \/ task'[t] = RevokedOf(task[t])
  <1>1. PICK r \in replies :
          /\ Receive(t, "heartbeat", r)
          /\ task' = [task EXCEPT ![t] =
               IF r.result = "applied" /\ ~Overdue(t) THEN Renewed(@) ELSE RevokedOf(@)]
    BY DEF RenewReply, Receive
  <1>2. task[t].beat = "renew"
    BY DEF RenewReply
  <1>3. CASE r.result = "applied" /\ ~Overdue(t)
    <2>1. task' = [task EXCEPT ![t] = Renewed(@)]
      BY <1>1, <1>3
    <2>2. task'[t] = Renewed(task[t]) /\ Alone(t)
      BY <2>1 DEF Alone, TasksOK
    <2>3. TaskOK(task'[t])
      BY <1>2, <2>2 DEF TasksOK, TaskOK, TaskState, PhaseOf, Renewed
    <2>4. QED BY <1>1, <1>3, <2>2, <2>3 DEF Receive
  <1>4. CASE ~(r.result = "applied" /\ ~Overdue(t))
    <2>1. task' = [task EXCEPT ![t] = RevokedOf(@)]
      BY <1>1, <1>4
    <2>2. task'[t] = RevokedOf(task[t]) /\ Alone(t)
      BY <2>1 DEF Alone, TasksOK
    <2>3. TaskOK(task'[t])
      <3> DEFINE o == task[t]
      <3>1. o \in TaskState /\ PhaseOf(o) /\ o.beat # "off"
        BY <1>2 DEF TasksOK, TaskOK
      <3>2. task'[t] = RevokedOf(o)
        BY <2>2
      <3> HIDE DEF o
      <3>3. QED BY <3>1, <3>2, RevokedInOrder
    <2>4. QED BY <2>2, <2>3
  <1>5. QED BY <1>3, <1>4

\* Every step of a task changes its own state only, and keeps it in order.
LEMMA TaskSteps ==
  ASSUME ProtocolInv, NEW t \in Task, TaskNext(t)
  PROVE  Alone(t) /\ TaskOK(task'[t])
  <1>1. TasksOK /\ AttemptTypeOK
    BY ProtocolTypes DEF ProtocolInv
  <1>2. CASE AcquireReply(t)
    BY <1>2, AcquireSteps DEF OrdinaryStep
  <1>3. CASE Start(t) \/ BeginRenewal(t) \/ RenewUnderLock(t) \/ RenewReply(t)
    BY <1>1, <1>3, StartStep, BeginRenewalStep, RenewUnderLockStep, RenewReplyStep
  <1>4. QED BY <1>1, <1>2, <1>3, OrdinarySteps DEF TaskNext, OrdinaryStep

\* An upload moves the task that waits for it.
LEMMA WriteLandsStep ==
  ASSUME ProtocolInv, NEW x \in writes, WriteLands(x)
  PROVE  /\ x.task \in Task /\ Alone(x.task) /\ TaskOK(task'[x.task])
         /\ Quiet(x.task)
         /\ \/ task'[x.task] = task[x.task]
            \/ /\ task[x.task].pc = "put" /\ task[x.task].next = x.object
               /\ task'[x.task] = [task[x.task] EXCEPT !.pc = "work", !.next = x.object + 1]
  <1>1. x \in Write /\ x.task \in Task /\ x.object \in 1..NObjects
    BY DEF ProtocolInv, Write, Object
  <1>2. NObjects \in Nat \ {0}
    BY ObjectsPositive, ProtocolTypes
  <1>3. TasksOK /\ TaskOK(task[x.task])
    BY <1>1 DEF ProtocolInv, TasksOK
  <1>4. CASE task[x.task].pc = "put" /\ task[x.task].next = x.object
    <2>1. task'[x.task] = [task[x.task] EXCEPT !.pc = "work", !.next = x.object + 1]
          /\ Alone(x.task)
      BY <1>1, <1>3, <1>4 DEF WriteLands, TasksOK, Alone
    <2>2. TaskOK(task'[x.task])
      <3>1. x.object + 1 \in 1..NObjects + 1
        BY <1>1, <1>2
      <3>2. QED BY <1>3, <1>4, <2>1, <3>1 DEF TaskOK, TaskState, PhaseOf
    <2>3. Quiet(x.task)
      BY <1>3, <1>4, <2>1 DEF WriteLands, Quiet, TaskOK, TaskState
    <2>4. QED BY <1>1, <1>4, <2>1, <2>2, <2>3
  <1>5. CASE ~(task[x.task].pc = "put" /\ task[x.task].next = x.object)
    <2>1. task'[x.task] = task[x.task] /\ Alone(x.task)
      BY <1>1, <1>3, <1>5 DEF WriteLands, TasksOK, Alone
    <2>2. QED BY <1>1, <1>3, <2>1 DEF WriteLands, Quiet
  <1>6. QED BY <1>4, <1>5

\* A reply that is still there after a step of t finds its reader where it was.
LEMMA RepliesKept ==
  ASSUME ProtocolInv, NEW t \in Task, TaskNext(t), NEW r \in replies'
  PROVE  /\ r \in replies /\ r.task \in Task
         /\ r.side = "main" => task'[r.task].pc = task[r.task].pc
         /\ r.side # "main" => task'[r.task].beat = task[r.task].beat
  <1>1. Comm /\ TasksOK
    BY DEF ProtocolInv
  <1>2. Communication(t) /\ Alone(t)
    BY <1>1, Communicates, TaskSteps
  <1>3. CASE Quiet(t)
    <2>1. r \in replies
      BY <1>3 DEF Quiet
    <2>2. /\ r.task \in Task
          /\ IF r.side = "main" THEN task[r.task].pc \in {"claim", "acquire", "finish", "fail"}
                                ELSE task[r.task].beat = "renew"
      BY <1>1, <2>1, ReplyFound DEF Comm, OneReply
    <2>3. CASE r.task = t
      BY <1>3, <2>1, <2>2, <2>3 DEF Quiet
    <2>4. CASE r.task # t
      BY <1>2, <2>1, <2>2, <2>4 DEF Alone
    <2>5. QED BY <2>3, <2>4
  <1>4. CASE \E side \in Side, op \in Ask : Asks(t, side, op)
    <2>1. r \in replies /\ jobsLock[Host[t]] = Free
      BY <1>4 DEF Asks, LockIsFree
    <2>2. r.task \in Task /\ jobsLock[Host[r.task]] = <<r.task, r.side>>
      BY <1>1, <2>1, ReplyFound
    <2>3. <<r.task, r.side>> # Free
      BY DEF Free
    <2>4. r.task # t
      BY <2>1, <2>2, <2>3
    <2>5. QED BY <1>2, <2>1, <2>2, <2>4 DEF Alone
  <1>5. CASE \E q \in replies, side \in Side : AsksAgain(t, q) \/ Hears(t, side, q)
    <2>1. PICK q \in replies : q.task = t /\ replies' = replies \ {q}
      BY <1>5 DEF AsksAgain, Hears, Receive
    <2>2. r \in replies /\ r.task \in Task /\ r.task # t
      BY <1>1, <2>1, ReplyFound
    <2>3. QED BY <1>2, <2>2 DEF Alone
  <1>6. CASE \E side \in Side : GivesUp(t, side)
    <2>1. PICK side \in Side : GivesUp(t, side)
      BY <1>6
    <2>2. r \in replies /\ ~(r.task = t /\ r.side = side)
      BY <2>1 DEF GivesUp, Abandon
    <2>3. r.task \in Task /\ r.side \in Side
      BY <1>1, <2>2, ReplyFound
    <2>4. CASE r.task = t
      BY <2>1, <2>2, <2>3, <2>4 DEF GivesUp, Side
    <2>5. CASE r.task # t
      BY <1>2, <2>2, <2>3, <2>5 DEF Alone
    <2>6. QED BY <2>4, <2>5
  <1>7. QED BY <1>2, <1>3, <1>4, <1>5, <1>6 DEF Communication, Side

\* Only an acquisition is answered to a task that acquires.
LEMMA NewGrant ==
  ASSUME ProtocolInv, LeaseTypeOK', NEW w \in Worker, Execute(w), NEW r \in replies', r \notin replies,
         NEW s, s = Head(conn[w])
  PROVE  /\ s \in Statement /\ s.awaited /\ r.task = s.task /\ r.side = s.side
         /\ Host[s.task] = w /\ Waits(s.task, s.side, s.op)
         /\ r.attempt = jobs'[JobOf[s.task]].attempt
         /\ r.result = "applied" => Apply(s, JobOf[s.task], w)
         /\ jobsLock[w] = <<s.task, s.side>>
         /\ \A q \in replies : Host[q.task] # w
         /\ replies' = replies \cup {r}
  <1>1. s \in Statement /\ s = conn[w][1] /\ 1 \in 1..Len(conn[w]) /\ Comm
    BY ExecuteSeq DEF ProtocolInv
  <1>2. s.awaited
    BY <1>1, ExecuteReply
  <1>3. PICK result \in {"applied", "refused", "error"} :
           /\ ReplyTo(s, result)' \in Reply
           /\ replies' = replies \cup {ReplyTo(s, result)'}
           /\ result = "applied" => Applies(s, JobOf[s.task], w) /\ Apply(s, JobOf[s.task], w)
    BY <1>1, <1>2, ExecuteReply
  <1>4. r = ReplyTo(s, result)'
    BY <1>3
  <1>5. /\ r.task = s.task /\ r.side = s.side /\ r.result = result
        /\ r.attempt = jobs'[JobOf[s.task]].attempt
    BY <1>4 DEF ReplyTo
  <1>6. StatementOK(w, s, 1 = Len(conn[w]))
    BY <1>1 DEF Comm, OneStatement
  <1>7. QED BY <1>1, <1>2, <1>3, <1>4, <1>5, <1>6 DEF StatementOK

\* A granted acquisition was executed in this very step.
LEMMA GrantOf ==
  ASSUME ProtocolInv, LeaseTypeOK', NEW w \in Worker, Execute(w), NEW r \in replies', r \notin replies,
         Grants(r)', NEW s, s = Head(conn[w])
  PROVE  AcquireLease(JobOf[s.task], w, mode)
  <1>1. task' = task
    BY ExecuteFrame
  <1>2. /\ Waits(s.task, "main", s.op) /\ task[s.task].pc = "acquire"
        /\ Apply(s, JobOf[s.task], w)
    BY <1>1, NewGrant DEF Grants
  <1>3. s.op = "acquire"
    BY <1>2 DEF Waits
  <1>4. QED BY <1>2, <1>3 DEF Apply

\* No task is granted attempt 0.
LEMMA GrantsPositiveStep ==
  ASSUME ProtocolInv, LeaseInv', AttemptNext
  PROVE  GrantsPositive'
  <1>0. /\ LeaseTypeOK' /\ LeaseTypeOK /\ Comm
        /\ \A r \in replies : r \in Reply /\ r.task \in Task
    BY ReplyFound DEF LeaseInv, ProtocolInv
  <1>1. ASSUME NEW t \in Task, TaskNext(t) PROVE GrantsPositive'
    BY <1>1, RepliesKept DEF GrantsPositive, Grants, ProtocolInv
  <1>2. ASSUME NEW w \in Worker, Execute(w) PROVE GrantsPositive'
    <2>1. task' = task
      BY <1>2, ExecuteFrame
    <2>2. ASSUME NEW r \in replies', Grants(r)', r \notin replies
          PROVE  r.attempt # 0
      <3>1. PICK s : s = Head(conn[w])
        OBVIOUS
      <3>2. /\ AcquireLease(JobOf[s.task], w, mode)
            /\ r.attempt = jobs'[JobOf[s.task]].attempt
            /\ s \in Statement
        BY <1>0, <1>2, <2>2, <3>1, GrantOf, NewGrant
      <3>3. JobOf[s.task] \in Job
        BY <3>2, AttemptAssumption DEF Statement
      <3>4. /\ jobs'[JobOf[s.task]].attempt = jobs[JobOf[s.task]].attempt + 1
            /\ jobs[JobOf[s.task]].attempt \in Nat
        BY <1>0, <3>2, <3>3, LeaseAssumption DEF AcquireLease, AcquiredRow, LeaseTypeOK, Row
      <3>5. QED BY <3>2, <3>4
    <2>3. QED BY <2>1, <2>2 DEF GrantsPositive, Grants, ProtocolInv
  <1>3. ASSUME NEW w \in Worker, Crash(w) PROVE GrantsPositive'
    <2>1. \A r \in replies' : r \in replies /\ Host[r.task] # w
      BY <1>0, <1>3 DEF Crash
    <2>2. \A r \in replies' : task'[r.task] = task[r.task]
      BY <1>0, <1>3, <2>1, CrashTasks DEF ProtocolInv
    <2>3. QED BY <2>1, <2>2 DEF GrantsPositive, Grants, ProtocolInv
  <1>4. ASSUME NEW x \in writes, WriteLands(x) PROVE GrantsPositive'
    <2>1. x.task \in Task /\ Alone(x.task) /\ Quiet(x.task) /\ replies' = replies
      BY <1>4, WriteLandsStep DEF Quiet
    <2>2. ASSUME NEW r \in replies, task'[r.task].pc = "acquire"
          PROVE  task[r.task].pc = "acquire"
      <3>1. r.task # x.task => task'[r.task] = task[r.task]
        BY <1>0, <2>1 DEF Alone
      <3>2. task'[x.task] = task[x.task]
            \/ task'[x.task] = [task[x.task] EXCEPT !.pc = "work", !.next = x.object + 1]
        BY <1>4, WriteLandsStep
      <3>3. TaskOK(task[x.task])
        BY <2>1 DEF ProtocolInv, TasksOK
      <3>4. QED BY <2>2, <3>1, <3>2, <3>3 DEF TaskOK, TaskState
    <2>3. QED BY <2>1, <2>2 DEF GrantsPositive, Grants, ProtocolInv
  <1>5. ASSUME NEW x \in writes, WriteIsLost(x) PROVE GrantsPositive'
    BY <1>5 DEF WriteIsLost, GrantsPositive, Grants, ProtocolInv
  <1>6. CASE Tick
    <2>1. replies' = replies /\ \A t \in Task : task'[t].pc = task[t].pc
      BY <1>6 DEF Tick, ProtocolInv, TasksOK, TaskOK, TaskState
    <2>2. QED BY <1>0, <2>1 DEF GrantsPositive, Grants, ProtocolInv
  <1>7. QED
    BY <1>1, <1>2, <1>3, <1>4, <1>5, <1>6 DEF AttemptNext, OtherNext, TaskNext

\* Uploads are of objects of the attempt of their task.
LEMMA WritesStep ==
  ASSUME ProtocolInv, AttemptNext
  PROVE  writes' \subseteq Write
  <1>1. ASSUME NEW t \in Task, BeginPut(t) PROVE writes' \subseteq Write
    <2>1. TaskOK(task[t])
      BY DEF ProtocolInv, TasksOK
    <2>2. task[t].attempt \in 1..MaxAttempts /\ task[t].next \in Object
      BY <1>1, <2>1, LeaseAssumption
      DEF BeginPut, PutObject, TaskOK, TaskState, PhaseOf, Object
    <2>3. QED BY <1>1, <2>2 DEF BeginPut, PutObject, ProtocolInv, Write
  <1>2. ASSUME NEW t \in Task, TaskNext(t), ~BeginPut(t) PROVE UNCHANGED writes
    BY <1>2 DEF TaskNext, Start, ClaimUnderLock, ClaimReply, AcquireReply, DropAcquisition,
       NoticeLoss, AttemptFails, FinishPipeline, Finish, CompleteUnderLock,
       CompleteReply, FailUnderLock, FailReply, Retire, DropLostAttempt, StopAttempt,
       BeginRenewal, RenewUnderLock, RenewReply, LoseVisibility, JoinHeartbeat,
       WatchdogFires, Revoke
  <1>3. QED
    BY <1>1, <1>2, ExecuteFrame DEF AttemptNext, OtherNext, TaskNext, ProtocolInv,
       Crash, WriteLands, WriteIsLost, Tick

\* Only an upload that lands changes the bucket.
LEMMA StoredStep ==
  ASSUME AttemptNext, ~\E x \in writes : WriteLands(x)
  PROVE  UNCHANGED stored
  <1>1. ASSUME NEW t \in Task, TaskNext(t) PROVE UNCHANGED stored
    BY <1>1 DEF TaskNext, Start, ClaimUnderLock, ClaimReply, AcquireReply, DropAcquisition,
       BeginPut, PutObject, NoticeLoss, AttemptFails, FinishPipeline, Finish,
       CompleteUnderLock, CompleteReply, FailUnderLock, FailReply, Retire, DropLostAttempt,
       StopAttempt, BeginRenewal, RenewUnderLock, RenewReply, LoseVisibility,
       JoinHeartbeat, WatchdogFires, Revoke
  <1>2. QED
    BY <1>1, ExecuteFrame DEF AttemptNext, OtherNext, TaskNext, Crash, WriteIsLost, Tick

\* The bucket keeps its type.
LEMMA StoredTypeStep ==
  ASSUME ProtocolInv, AttemptNext
  PROVE  stored' \in [Job -> SUBSET ((0..MaxAttempts) \X Object)]
  <1>1. ASSUME NEW x \in writes, WriteLands(x)
        PROVE  stored' \in [Job -> SUBSET ((0..MaxAttempts) \X Object)]
    <2>1. x \in Write /\ JobOf[x.task] \in Job
      BY AttemptAssumption DEF ProtocolInv, Write
    <2>2. <<Prefix(x.attempt), x.object>> \in (0..MaxAttempts) \X Object
      BY <2>1, LeaseAssumption DEF Write, Prefix
    <2>3. QED BY <1>1, <2>1, <2>2 DEF WriteLands, ProtocolInv
  <1>2. QED BY <1>1, StoredStep DEF ProtocolInv

\* A change of one task.
LEMMA AloneTasks ==
  ASSUME TasksOK, NEW t \in Task, Alone(t), TaskOK(task'[t]), mode' = mode
  PROVE  TasksOK'
  <1>1. TaskState' = TaskState /\ \A r : PhaseOf(r)' <=> PhaseOf(r)
    BY SameMode
  <1>2. \A u \in Task : TaskOK(task'[u])
    BY DEF Alone, TasksOK
  <1>3. \A u \in Task : TaskOK(task[u])'
    BY <1>1, <1>2 DEF TaskOK, PhaseOf
  <1>4. QED BY <1>3 DEF TasksOK, Alone

\* Every step leaves all tasks in order, ...
LEMMA TasksStep ==
  ASSUME ProtocolInv, AttemptNext
  PROVE  TasksOK'
  <1>0. TasksOK /\ mode' = mode
    BY DEF ProtocolInv, AttemptNext
  <1>1. ASSUME NEW t \in Task, TaskNext(t) PROVE TasksOK'
    BY <1>0, <1>1, TaskSteps, AloneTasks
  <1>2. ASSUME NEW w \in Worker, Crash(w) PROVE TasksOK'
    <2>1. \A t \in Task : TaskOK([task[t] EXCEPT !.pc = "done", !.beat = "off"])
      BY <1>0, EndedInOrder DEF TasksOK
    <2>2. /\ task' = [t \in Task |-> task'[t]]
          /\ \A t \in Task : task'[t] = task[t]
               \/ task'[t] = [task[t] EXCEPT !.pc = "done", !.beat = "off"]
      BY <1>0, <1>2, CrashTasks
    <2>3. \A t \in Task : TaskOK(task'[t])
      BY <1>0, <2>1, <2>2 DEF TasksOK
    <2>4. QED BY <1>0, <2>2, <2>3, SameMode DEF TasksOK, TaskOK, PhaseOf
  <1>3. CASE Tick
    <2>1. ASSUME NEW t \in Task
          PROVE  TaskOK([task[t] EXCEPT !.local = Less(@), !.budget = Less(@)])
      <3> DEFINE o == task[t]
                 l == Less(o.local)
                 b == Less(o.budget)
      <3>1. o \in TaskState /\ PhaseOf(o)
        BY <1>0 DEF TasksOK, TaskOK
      <3>2. l \in 0..LeaseTicks /\ b \in 0..LeaseTicks
        BY <3>1, LeaseAssumption DEF TaskState, Less
      <3> HIDE DEF o, l, b
      <3>3. TaskOK([o EXCEPT !.local = l, !.budget = b])
        BY <3>1, <3>2, TickedInOrder
      <3>4. QED BY <3>3 DEF o, l, b
    <2>2. /\ task' = [t \in Task |-> task'[t]]
          /\ \A t \in Task : TaskOK(task'[t])
      BY <1>3, <2>1 DEF Tick
    <2>3. QED BY <1>0, <2>2, SameMode DEF TasksOK, TaskOK, PhaseOf
  <1>4. ASSUME NEW x \in writes, WriteLands(x) PROVE TasksOK'
    BY <1>0, <1>4, WriteLandsStep, AloneTasks
  <1>5. CASE task' = task
    BY <1>0, <1>5, SameMode DEF TasksOK, TaskOK, PhaseOf
  <1>6. QED
    BY <1>1, <1>2, <1>3, <1>4, <1>5, ExecuteFrame
    DEF AttemptNext, OtherNext, TaskNext, WriteIsLost

\* ... the exchange on every connection, ...
LEMMA CommStep ==
  ASSUME ProtocolInv, LeaseInv', AttemptNext
  PROVE  Comm'
  <1>0. TasksOK /\ Comm /\ LeaseTypeOK'
    BY DEF ProtocolInv, LeaseInv
  <1>1. ASSUME NEW t \in Task, TaskNext(t) PROVE Comm'
    <2>1. Communication(t) /\ Alone(t)
      BY <1>0, <1>1, Communicates, TaskSteps
    <2>2. QED
      BY <1>0, <2>1, QuietComm, AsksComm, AsksAgainComm, HearsComm, GivesUpComm
      DEF Communication
  <1>2. ASSUME NEW x \in writes, WriteLands(x) PROVE Comm'
    BY <1>0, <1>2, WriteLandsStep, QuietComm
  <1>3. ASSUME NEW x \in writes, WriteIsLost(x) PROVE Comm'
    BY <1>0, <1>3 DEF WriteIsLost, Comm, CommTypes, OneStatement, StatementOK, Waits, OneReply
  <1>4. QED
    BY <1>0, <1>1, <1>2, <1>3, ExecuteComm, CrashComm, TickComm
    DEF AttemptNext, OtherNext, TaskNext

\* ... and so the protocol as a whole.
LEMMA ProtocolStep ==
  ASSUME ProtocolInv, [AttemptNext]_<<attemptVars, mode>>
  PROVE  ProtocolInv'
  <1>1. CASE AttemptNext
    <2>1. LeaseInv'
      BY <1>1, TableStep, ProtocolTypes, NextInv DEF ProtocolInv
    <2>2. mode' = mode
      BY <1>1 DEF AttemptNext
    <2>3. QED
      BY <1>1, <2>1, <2>2, SameMode, TasksStep, CommStep, GrantsPositiveStep, WritesStep,
         StoredTypeStep
      DEF ProtocolInv
  <1>2. CASE UNCHANGED <<attemptVars, mode>>
    <2>1. /\ jobs' = jobs /\ mode' = mode /\ task' = task /\ jobsLock' = jobsLock
          /\ conn' = conn /\ replies' = replies /\ writes' = writes /\ stored' = stored
      BY <1>2 DEF attemptVars
    <2>2. LeaseInv'
      BY <2>1, NextInv DEF ProtocolInv
    <2>3. TasksOK'
      BY <2>1, SameMode DEF ProtocolInv, TasksOK, TaskOK, PhaseOf
    <2>4. Comm' /\ GrantsPositive'
      <3>1. CommTypes' /\ OneReply' /\ GrantsPositive'
        BY <2>1 DEF ProtocolInv, Comm, CommTypes, OneReply, GrantsPositive, Grants
      <3>2. ASSUME NEW w \in Worker, NEW i \in 1..Len(conn[w])
            PROVE  StatementOK(w, conn[w][i], i = Len(conn[w]))'
        <4>1. StatementOK(w, conn[w][i], i = Len(conn[w]))
          BY <3>2 DEF ProtocolInv, Comm, OneStatement
        <4>2. QED BY <2>1, <4>1 DEF StatementOK, Waits
      <3>3. OneStatement'
        BY <2>1, <3>2 DEF OneStatement
      <3>4. QED BY <3>1, <3>3 DEF Comm
    <2>5. QED BY <2>1, <2>2, <2>3, <2>4, SameMode DEF ProtocolInv
  <1>3. QED BY <1>1, <1>2

\* It holds when nothing has been sent yet.
LEMMA ProtocolInit ==
  ASSUME AttemptInit
  PROVE  ProtocolInv
  <1>1. LeaseInv
    BY LeaseAssumption DEF AttemptInit, AbsentRow, LeaseInv, LeaseTypeOK, Row, Status,
       OwnedOnlyWhileProcessing, PlaybackResolvable, Live
  <1>2. TasksOK
    BY LeaseAssumption, AttemptAssumption
    DEF AttemptInit, TasksOK, TaskOK, TaskState, PhaseOf, NObjects
  <1>3. Comm
    <2>1. <<>> \in Seq(Statement) /\ Len(<<>>) = 0
      BY EmptySeq
    <2>2. CommTypes
      BY <2>1 DEF AttemptInit, CommTypes, Free
    <2>3. OneStatement
      BY <2>1 DEF AttemptInit, OneStatement
    <2>4. OneReply
      BY DEF AttemptInit, OneReply
    <2>5. QED BY <2>2, <2>3, <2>4 DEF Comm
  <1>4. QED
    BY <1>1, <1>2, <1>3 DEF AttemptInit, ProtocolInv, GrantsPositive

\* On every connection at most one exchange is under way, and its one reply goes
\* to the one who holds the mutex, whatever is dropped, lost or crashes.
THEOREM AttemptProtocol == AttemptSpec => []ProtocolInv
  <1>1. QED BY ProtocolInit, ProtocolStep, PTL DEF AttemptSpec

\* AttemptTypeOK, for all values of the constants: in particular the attempts of
\* a row and the objects of a task stay in their bounds.
THEOREM AttemptTypes == AttemptSpec => []AttemptTypeOK
  <1>1. QED BY ProtocolTypes, AttemptProtocol, PTL

-----------------------------------------------------------------------------
(* Who works on which attempt.                                             *)

\* Task t has acquired attempt a, or will learn so when it reads its reply.
Has(t, a) ==
  /\ a # 0
  /\ \/ task[t].attempt = a
     \/ \E r \in replies : Grants(r) /\ r.task = t /\ r.attempt = a

\* The row counts every attempt that somebody has, and nobody else has it.
AttemptsUnique ==
  \A t \in Task, a \in 1..MaxAttempts : Has(t, a) =>
    /\ a <= jobs[JobOf[t]].attempt
    /\ \A u \in Task : u # t /\ JobOf[u] = JobOf[t] => ~Has(u, a)

\* The statements that end an attempt.
Ending == {"release", "complete", "fail"}

\* Where the sender of an ending statement can be by now.
Past(op) ==
  IF op = "complete" THEN {"finish", "failLock", "fail", "retire", "done"}
                     ELSE {"fail", "retire", "done"}

\* A statement that ends an attempt is about the attempt of its task, which
\* has stopped working on it.
EndingsPast ==
  \A w \in Worker : \A s \in Sent(w) : s.op \in Ending =>
    /\ s.attempt = task[s.task].attempt
    /\ task[s.task].pc \in Past(s.op)

\* A statement after a step of t was there before, or is what t has sent.
NewStatement(t, s) ==
  /\ s.task = t /\ s.attempt = task[t].attempt
  /\ s.op \in Ending => MaySend(t, s.op) /\ Waits(t, s.side, s.op)' /\ s.side \in Side

\* A step of a task adds one statement of its own at the most.
LEMMA SentByTask ==
  ASSUME ProtocolInv, NEW t \in Task, TaskNext(t), NEW w \in Worker, NEW s \in Sent(w)'
  PROVE  \/ \E u \in Sent(w) : SameStatement(s, u)
         \/ w = Host[t] /\ NewStatement(t, s)
  <1>0. Comm /\ TasksOK /\ CommTypes /\ OneStatement
    BY DEF ProtocolInv, Comm
  <1>1. Communication(t)
    BY <1>0, Communicates
  <1>2. PICK i \in 1..Len(conn'[w]) : s = conn'[w][i]
    BY DEF Sent
  <1>3. ASSUME conn'[w] = conn[w] PROVE \E u \in Sent(w) : SameStatement(s, u)
    BY <1>2, <1>3 DEF Sent, SameStatement
  <1>4. CASE Quiet(t) \/ \E side \in Side, r \in replies : Hears(t, side, r)
    BY <1>3, <1>4 DEF Quiet, Hears
  <1>5. CASE \E side \in Side, op \in Ask : Asks(t, side, op)
    <2>1. PICK side \in Side, op \in Ask : Asks(t, side, op)
      BY <1>5
    <2>2. LET q == conn[Host[t]]
          IN /\ conn' \in [Worker -> Seq(Statement)]
             /\ \A v \in Worker : v # Host[t] => conn'[v] = conn[v]
             /\ Len(q) \in Nat
             /\ Len(conn'[Host[t]]) = Len(q) + 1
             /\ \A k \in 1..Len(q) : conn'[Host[t]][k] = q[k]
             /\ conn'[Host[t]][Len(q) + 1] =
                  [ op |-> op, task |-> t, side |-> side,
                    attempt |-> task[t].attempt, awaited |-> TRUE ]
      BY <1>0, <2>1, SendSeq DEF Asks
    <2>3. CASE w = Host[t] /\ i = Len(conn[w]) + 1
      <3>1. s = [ op |-> op, task |-> t, side |-> side,
                  attempt |-> task[t].attempt, awaited |-> TRUE ]
        BY <1>2, <2>2, <2>3
      <3>2. MaySend(t, op) /\ Waits(t, side, op)'
        BY <2>1 DEF Asks
      <3>3. NewStatement(t, s)
        BY <3>1, <3>2 DEF NewStatement
      <3>4. QED BY <2>3, <3>3
    <2>4. CASE w = Host[t] /\ i \in 1..Len(conn[w])
      <3>1. s = conn[w][i]
        BY <1>2, <2>2, <2>4
      <3>2. QED BY <2>4, <3>1 DEF Sent, SameStatement
    <2>5. CASE w # Host[t]
      BY <1>3, <2>2, <2>5
    <2>6. QED BY <1>2, <2>2, <2>3, <2>4, <2>5
  <1>6. CASE \E r \in replies : AsksAgain(t, r)
    <2>1. PICK r \in replies : AsksAgain(t, r)
      BY <1>6
    <2>2. Send(t, "main", "acquire") /\ "main" \in Side
      BY <2>1 DEF AsksAgain, Side
    <2>3. LET q == conn[Host[t]]
          IN /\ conn' \in [Worker -> Seq(Statement)]
             /\ \A v \in Worker : v # Host[t] => conn'[v] = conn[v]
             /\ Len(q) \in Nat
             /\ Len(conn'[Host[t]]) = Len(q) + 1
             /\ \A k \in 1..Len(q) : conn'[Host[t]][k] = q[k]
             /\ conn'[Host[t]][Len(q) + 1] =
                  [ op |-> "acquire", task |-> t, side |-> "main",
                    attempt |-> task[t].attempt, awaited |-> TRUE ]
      BY <1>0, <2>2, SendSeq
    <2>4. CASE w = Host[t] /\ i = Len(conn[w]) + 1
      <3>1. s = [ op |-> "acquire", task |-> t, side |-> "main",
                  attempt |-> task[t].attempt, awaited |-> TRUE ]
        BY <1>2, <2>3, <2>4
      <3>2. QED BY <2>4, <3>1 DEF NewStatement, Ending
    <2>5. CASE w = Host[t] /\ i \in 1..Len(conn[w])
      <3>1. s = conn[w][i]
        BY <1>2, <2>3, <2>5
      <3>2. QED BY <2>5, <3>1 DEF Sent, SameStatement
    <2>6. CASE w # Host[t]
      BY <1>3, <2>3, <2>6
    <2>7. QED BY <1>2, <2>3, <2>4, <2>5, <2>6
  <1>7. CASE \E side \in Side : GivesUp(t, side)
    <2>1. PICK side \in Side : GivesUp(t, side)
      BY <1>7
    <2>2. Abandon(t, {side})
      BY <2>1 DEF GivesUp
    <2>3. /\ \A v \in Worker : v # Host[t] => conn'[v] = conn[v]
          /\ Len(conn[Host[t]]) \in Nat /\ Len(conn'[Host[t]]) \in Nat
          /\ Len(conn'[Host[t]]) <= Len(conn[Host[t]])
          /\ \A k \in 1..Len(conn'[Host[t]]) : SameStatement(conn'[Host[t]][k], conn[Host[t]][k])
      BY <1>0, <2>2, AbandonSeq
    <2>4. CASE w # Host[t]
      BY <1>3, <2>3, <2>4
    <2>5. CASE w = Host[t]
      <3>1. i \in 1..Len(conn[w]) /\ i \in 1..Len(conn'[w])
        BY <1>2, <2>3, <2>5
      <3>2. SameStatement(s, conn[w][i])
        BY <1>2, <2>3, <2>5, <3>1
      <3>3. QED BY <3>1, <3>2 DEF Sent
    <2>6. QED BY <2>4, <2>5
  <1>8. QED BY <1>1, <1>4, <1>5, <1>6, <1>7 DEF Communication

\* Other steps send nothing.
LEMMA SentByOthers ==
  ASSUME ProtocolInv, NEW w \in Worker, NEW s \in Sent(w)',
         \/ \E v \in Worker : Execute(v) \/ Crash(v)
         \/ \E x \in writes : WriteLands(x) \/ WriteIsLost(x)
         \/ Tick
  PROVE  \E u \in Sent(w) : SameStatement(s, u)
  <1>0. Comm
    BY DEF ProtocolInv
  <1>1. PICK i \in 1..Len(conn'[w]) : s = conn'[w][i]
    BY DEF Sent
  <1>2. CASE conn'[w] = conn[w]
    BY <1>1, <1>2 DEF Sent, SameStatement
  <1>3. CASE Execute(w)
    <2>1. /\ Len(conn[w]) \in Nat /\ Len(conn'[w]) = Len(conn[w]) - 1
          /\ \A k \in 1..Len(conn'[w]) : conn'[w][k] = conn[w][k + 1]
      BY <1>0, <1>3, ExecuteSeq
    <2>2. i + 1 \in 1..Len(conn[w]) /\ s = conn[w][i + 1]
      BY <1>1, <2>1
    <2>3. QED BY <2>2 DEF Sent, SameStatement
  <1>4. CASE Crash(w)
    <2>1. /\ Len(conn[w]) \in Nat /\ Len(conn'[w]) \in Nat /\ Len(conn'[w]) <= Len(conn[w])
          /\ \A k \in 1..Len(conn'[w]) : SameStatement(conn'[w][k], conn[w][k])
      BY <1>0, <1>4, CrashSeq
    <2>2. i \in 1..Len(conn[w]) /\ SameStatement(s, conn[w][i])
      BY <1>1, <2>1
    <2>3. QED BY <2>2 DEF Sent
  <1>5. CASE \E v \in Worker : v # w /\ (Execute(v) \/ Crash(v))
    <2>1. conn'[w] = conn[w]
      BY <1>0, <1>5, ExecuteSeq, CrashSeq
    <2>2. QED BY <1>2, <2>1
  <1>6. CASE \/ \E x \in writes : WriteLands(x) \/ WriteIsLost(x)
             \/ Tick
    BY <1>2, <1>6 DEF WriteLands, WriteIsLost, Tick
  <1>7. QED BY <1>3, <1>4, <1>5, <1>6

\* What is not a step of one task.
OtherStep ==
  \/ \E v \in Worker : Execute(v) \/ Crash(v)
  \/ \E x \in writes : WriteLands(x) \/ WriteIsLost(x)
  \/ Tick

\* Every step is one of a task or another one.
LEMMA NextCases ==
  AttemptNext => mode' = mode /\ ((\E t \in Task : TaskNext(t)) \/ OtherStep)
  BY DEF AttemptNext, OtherNext, TaskNext, OtherStep

\* A task keeps its attempt and moves on, or it acquires one.
LEMMA TaskMoves ==
  ASSUME ProtocolInv, NEW t \in Task, TaskNext(t)
  PROVE  \/ /\ task'[t].attempt = task[t].attempt
            /\ \/ task'[t].pc = task[t].pc
               \/ Forward(task[t].pc, task'[t].pc)
               \/ task[t].pc = "idle" /\ task'[t].pc = "lock"
         \/ /\ task[t].pc = "acquire" /\ task'[t].pc = "work"
            /\ \E r \in replies : Grants(r) /\ r.task = t /\ replies' = replies \ {r}
                                  /\ task'[t].attempt = r.attempt
  <1>0. TasksOK /\ AttemptTypeOK /\ TaskOK(task[t])
    BY ProtocolTypes DEF ProtocolInv, TasksOK
  <1>1. CASE OrdinaryStep(t)
    BY <1>1 DEF OrdinaryStep, Ordinary
  <1>2. CASE AcquireReply(t)
    <2>1. ASSUME NEW r \in replies, Grants(r), r.task = t,
                 task'[t] = [task[t] EXCEPT !.pc = "work", !.attempt = r.attempt,
                                            !.active = TRUE, !.beat = "wait"]
          PROVE  task[t].pc = "acquire" /\ task'[t].pc = "work" /\ task'[t].attempt = r.attempt
      BY <1>0, <2>1 DEF Grants, TaskOK, TaskState
    <2>2. QED BY <1>1, <1>2, <2>1, AcquireSteps
  <1>3. CASE Start(t)
    <2>1. task'[t] = [task[t] EXCEPT !.pc = "lock", !.local = LeaseTicks]
          /\ task[t].pc = "idle"
      BY <1>0, <1>3, StartStep DEF Start
    <2>2. QED BY <1>0, <2>1 DEF TaskOK, TaskState
  <1>4. CASE BeginRenewal(t) \/ RenewUnderLock(t) \/ RenewReply(t)
    <2>1. \/ task'[t] = [task[t] EXCEPT !.beat = "lock", !.budget = LeaseTicks]
          \/ task'[t] = [task[t] EXCEPT !.beat = "renew"]
          \/ task'[t] = [task[t] EXCEPT !.beat = "wait", !.local = task[t].budget]
          \/ task'[t] = Renewed(task[t])
          \/ task'[t] = RevokedOf(task[t])
      BY <1>0, <1>4, BeginRenewalStep, RenewUnderLockStep, RenewReplyStep
    <2>2. task'[t].pc = task[t].pc /\ task'[t].attempt = task[t].attempt
      BY <1>0, <2>1 DEF TaskOK, TaskState, Renewed, RevokedOf
    <2>3. QED BY <2>2
  <1>5. QED BY <1>0, <1>1, <1>2, <1>3, <1>4, OrdinarySteps DEF TaskNext

\* What the other steps do to a task.
LEMMA OtherMoves ==
  ASSUME ProtocolInv, OtherStep, NEW t \in Task
  PROVE  /\ task'[t].attempt = task[t].attempt
         /\ \/ task'[t].pc = task[t].pc
            \/ task'[t].pc = "done"
            \/ task[t].pc = "put" /\ task'[t].pc = "work"
  <1>0. TasksOK /\ TaskOK(task[t])
    BY DEF ProtocolInv, TasksOK
  <1>1. CASE \E w \in Worker : Crash(w)
    <2>1. task'[t] = task[t] \/ task'[t] = [task[t] EXCEPT !.pc = "done", !.beat = "off"]
      BY <1>0, <1>1, CrashTasks
    <2>2. QED BY <1>0, <2>1 DEF TaskOK, TaskState
  <1>2. CASE \E x \in writes : WriteLands(x)
    <2>1. PICK x \in writes : WriteLands(x)
      BY <1>2
    <2>2. task'[t] = task[t] \/
          (task[t].pc = "put" /\
           task'[t] = [task[t] EXCEPT !.pc = "work", !.next = x.object + 1])
      BY <2>1, WriteLandsStep DEF Alone
    <2>3. QED BY <1>0, <2>2 DEF TaskOK, TaskState
  <1>3. CASE Tick
    <2>1. task'[t] = [task[t] EXCEPT !.local = Less(@), !.budget = Less(@)]
      BY <1>3 DEF Tick
    <2>2. QED BY <1>0, <2>1 DEF TaskOK, TaskState
  <1>4. CASE \/ \E w \in Worker : Execute(w)
             \/ \E x \in writes : WriteIsLost(x)
    BY <1>4, ExecuteFrame DEF WriteIsLost
  <1>5. QED BY <1>1, <1>2, <1>3, <1>4 DEF OtherStep

\* What is past stays past.
LEMMA PastKept ==
  ASSUME ProtocolInv, AttemptNext, NEW u \in Task, NEW op \in Ending, task[u].pc \in Past(op)
  PROVE  task'[u].attempt = task[u].attempt /\ task'[u].pc \in Past(op)
  <1>1. ASSUME NEW t \in Task, TaskNext(t)
        PROVE  task'[u].attempt = task[u].attempt /\ task'[u].pc \in Past(op)
    <2>1. CASE u # t
      BY <1>1, <2>1, TaskSteps DEF Alone
    <2>2. CASE u = t
      BY <1>1, <2>2, TaskMoves DEF Past, Forward
    <2>3. QED BY <2>1, <2>2
  <1>2. CASE OtherStep
    BY <1>2, OtherMoves DEF Past
  <1>3. QED BY <1>1, <1>2, NextCases

\* A statement on a connection belongs to a task of its process.
LEMMA SentIsStatement ==
  ASSUME Comm, NEW w \in Worker, NEW s \in Sent(w)
  PROVE  s \in Statement /\ s.task \in Task /\ Host[s.task] = w
  BY StatementOf DEF Sent

\* What ends an attempt is sent once its task is done with it.
LEMMA EndingsStep ==
  ASSUME ProtocolInv, EndingsPast, AttemptNext
  PROVE  EndingsPast'
  <1>0. Comm
    BY DEF ProtocolInv
  <1>1. SUFFICES ASSUME NEW w \in Worker, NEW s \in Sent(w)', s.op \in Ending
                 PROVE  /\ s.attempt = task'[s.task].attempt
                        /\ task'[s.task].pc \in Past(s.op)
    BY DEF EndingsPast
  <1>2. CASE \E u \in Sent(w) : SameStatement(s, u)
    <2>1. PICK u \in Sent(w) : SameStatement(s, u)
      BY <1>2
    <2>2. u.op = s.op /\ u.task = s.task /\ u.attempt = s.attempt /\ u.task \in Task
      BY <1>0, <2>1, SentIsStatement DEF SameStatement
    <2>3. u.attempt = task[u.task].attempt /\ task[u.task].pc \in Past(u.op)
      BY <1>1, <2>2 DEF EndingsPast
    <2>4. QED BY <1>1, <2>2, <2>3, PastKept
  <1>3. ASSUME NEW t \in Task, TaskNext(t), NewStatement(t, s)
        PROVE  s.attempt = task'[s.task].attempt /\ task'[s.task].pc \in Past(s.op)
    <2>1. /\ s.task = t /\ s.attempt = task[t].attempt
          /\ MaySend(t, s.op) /\ Waits(t, s.side, s.op)' /\ s.side \in Side
      BY <1>1, <1>3 DEF NewStatement
    <2>2. task[t].pc \in {"finishLock", "failLock"}
      BY <1>1, <2>1 DEF MaySend, Ending
    <2>3. task'[t].attempt = task[t].attempt
      BY <1>3, <2>2, TaskMoves
    <2>4. task'[t].pc \in Past(s.op)
      BY <1>1, <2>1 DEF Waits, Past, Ending, Side
    <2>5. QED BY <2>1, <2>3, <2>4
  <1>4. QED
    BY <1>2, <1>3, NextCases, SentByTask, SentByOthers DEF OtherStep

\* The attempts of a row only grow.
LEMMA RowAttemptsGrow ==
  ASSUME LeaseInv, [LeaseNext]_jobs, NEW j \in Job
  PROVE  jobs[j].attempt \in Nat /\ jobs'[j].attempt \in Nat
         /\ jobs[j].attempt <= jobs'[j].attempt
  <1>1. LeaseInv'
    BY NextInv
  <1>2. jobs[j] \in Row /\ jobs'[j] \in Row
    BY <1>1 DEF LeaseInv, LeaseTypeOK
  <1>3. jobs[j].attempt \in Nat /\ jobs'[j].attempt \in Nat
    BY <1>2, LeaseAssumption DEF Row
  <1>4. CASE GoodMove(jobs[j], jobs'[j])
    BY <1>3, <1>4 DEF GoodMove, StatusMove
  <1>5. CASE jobs'[j] = AgedRow(jobs[j])
    BY <1>2, <1>3, <1>5, AgedMove
  <1>6. QED BY <1>3, <1>4, <1>5, StepByRow

\* Nobody comes to have an attempt except by the execution of an acquisition.
LEMMA HasKept ==
  ASSUME ProtocolInv, AttemptNext, NEW u \in Task, NEW a, Has(u, a)', ~Has(u, a)
  PROVE  \E w \in Worker : \E s \in Statement :
           /\ u = s.task /\ Host[u] = w
           /\ AcquireLease(JobOf[u], w, mode)
           /\ a = jobs'[JobOf[u]].attempt
           /\ \E r \in replies' \ replies : r.task = u /\ replies' = replies \cup {r}
  <1>0. LeaseTypeOK' /\ Comm
    BY TableStep, NextInv, ProtocolTypes DEF ProtocolInv, LeaseInv
  <1>1. ASSUME NEW t \in Task, TaskNext(t) PROVE FALSE
    <2>1. a # 0 /\ ~(task[u].attempt = a)
      BY DEF Has
    <2>2. CASE task'[u].attempt = a
      <3>1. u = t
        BY <1>1, <2>1, <2>2, TaskSteps DEF Alone
      <3>2. \E r \in replies : Grants(r) /\ r.task = u /\ r.attempt = a
        BY <1>1, <2>1, <2>2, <3>1, TaskMoves
      <3>3. QED BY <2>1, <3>2 DEF Has
    <2>3. CASE \E r \in replies' : Grants(r)' /\ r.task = u /\ r.attempt = a
      <3>1. PICK r \in replies' : Grants(r)' /\ r.task = u /\ r.attempt = a
        BY <2>3
      <3>2. r \in replies /\ Grants(r)
        BY <1>1, <3>1, RepliesKept DEF Grants
      <3>3. QED BY <2>1, <3>1, <3>2 DEF Has
    <2>4. QED BY <2>2, <2>3 DEF Has
  <1>2. CASE OtherStep
    <2>1. a # 0 /\ ~(task'[u].attempt = a)
      BY <1>2, OtherMoves DEF Has
    <2>2. PICK r \in replies' : Grants(r)' /\ r.task = u /\ r.attempt = a
      BY <2>1 DEF Has
    <2>3. task'[u].pc = "acquire" /\ r.side = "main" /\ r.result = "applied"
      BY <2>2 DEF Grants
    <2>4. task[u].pc = "acquire"
      BY <1>2, <2>3, OtherMoves
    <2>5. r \notin replies
      BY <2>1, <2>2, <2>3, <2>4 DEF Has, Grants
    <2>6. PICK w \in Worker : Execute(w)
      BY <1>2, <2>2, <2>5 DEF OtherStep, Crash, WriteLands, WriteIsLost, Tick
    <2>7. PICK s : s = Head(conn[w])
      OBVIOUS
    <2>8. /\ s \in Statement /\ r.task = s.task /\ Host[s.task] = w
          /\ r.attempt = jobs'[JobOf[s.task]].attempt
          /\ replies' = replies \cup {r}
      BY <1>0, <2>2, <2>5, <2>6, <2>7, NewGrant
    <2>9. AcquireLease(JobOf[s.task], w, mode)
      BY <1>0, <2>2, <2>5, <2>6, <2>7, GrantOf
    <2>10. QED BY <2>2, <2>5, <2>8, <2>9
  <1>3. QED BY <1>1, <1>2, NextCases

\* An attempt is nobody's but of the task that acquired it.
LEMMA AttemptsStep ==
  ASSUME ProtocolInv, AttemptsUnique, AttemptNext
  PROVE  AttemptsUnique'
  <1>0. LeaseInv /\ [LeaseNext]_jobs
    BY TableStep, ProtocolTypes DEF ProtocolInv
  <1> SUFFICES ASSUME NEW t \in Task, NEW a \in 1..MaxAttempts, Has(t, a)'
               PROVE  /\ a <= jobs'[JobOf[t]].attempt
                      /\ \A u \in Task : u # t /\ JobOf[u] = JobOf[t] => ~Has(u, a)'
    BY DEF AttemptsUnique
  <1>1. JobOf[t] \in Job /\ a \in Nat
    BY AttemptAssumption, LeaseAssumption
  <1>2. /\ jobs[JobOf[t]].attempt \in Nat /\ jobs'[JobOf[t]].attempt \in Nat
        /\ jobs[JobOf[t]].attempt <= jobs'[JobOf[t]].attempt
    BY <1>0, <1>1, RowAttemptsGrow
  <1>3. ASSUME NEW u \in Task, Has(u, a)', ~Has(u, a), JobOf[u] = JobOf[t]
        PROVE  /\ a = jobs'[JobOf[t]].attempt /\ a = jobs[JobOf[t]].attempt + 1
               /\ \E r \in replies' \ replies : r.task = u /\ replies' = replies \cup {r}
    <2>1. PICK w \in Worker, s \in Statement :
            /\ u = s.task /\ AcquireLease(JobOf[u], w, mode)
            /\ a = jobs'[JobOf[u]].attempt
            /\ \E r \in replies' \ replies : r.task = u /\ replies' = replies \cup {r}
      BY <1>3, HasKept
    <2>2. jobs'[JobOf[t]].attempt = jobs[JobOf[t]].attempt + 1
      BY <1>0, <1>1, <1>3, <2>1
      DEF AcquireLease, AcquiredRow, LeaseInv, LeaseTypeOK
    <2>3. QED BY <1>3, <2>1, <2>2
  <1>4. a <= jobs'[JobOf[t]].attempt
    <2>1. CASE Has(t, a)
      BY <1>1, <1>2, <2>1 DEF AttemptsUnique
    <2>2. CASE ~Has(t, a)
      BY <1>1, <1>2, <1>3, <2>2
    <2>3. QED BY <2>1, <2>2
  <1>5. ASSUME NEW u \in Task, u # t, JobOf[u] = JobOf[t], Has(u, a)'
        PROVE  FALSE
    <2>1. CASE Has(t, a) /\ Has(u, a)
      BY <1>5, <2>1 DEF AttemptsUnique
    <2>2. CASE Has(t, a) /\ ~Has(u, a)
      <3>1. a <= jobs[JobOf[t]].attempt
        BY <2>2 DEF AttemptsUnique
      <3>2. a = jobs[JobOf[t]].attempt + 1
        BY <1>3, <1>5, <2>2
      <3>3. QED BY <1>1, <1>2, <3>1, <3>2
    <2>3. CASE ~Has(t, a) /\ Has(u, a)
      <3>1. a <= jobs[JobOf[t]].attempt
        BY <1>5, <2>3 DEF AttemptsUnique
      <3>2. a = jobs[JobOf[t]].attempt + 1
        BY <1>3, <2>3
      <3>3. QED BY <1>1, <1>2, <3>1, <3>2
    <2>4. CASE ~Has(t, a) /\ ~Has(u, a)
      \* One step executes one statement.
      <3>1. PICK r \in replies' \ replies : r.task = t /\ replies' = replies \cup {r}
        BY <1>3, <2>4
      <3>2. PICK q \in replies' \ replies : q.task = u /\ replies' = replies \cup {q}
        BY <1>3, <1>5, <2>4
      <3>3. r = q
        BY <3>1, <3>2
      <3>4. QED BY <1>5, <3>1, <3>2, <3>3
    <2>5. QED BY <2>1, <2>2, <2>3, <2>4
  <1>6. QED BY <1>4, <1>5

-----------------------------------------------------------------------------
(* The local deadline and the lease.                                       *)

\* Statements that name the process and not the attempt.
NamesProcess(s) == s.op \in {"release", "fail"} \/ (s.op = "complete" /\ mode = "cli")

\* No such statement of an older attempt is on the connection of a task that
\* works on the same job.
NoOlder ==
  \A t \in Task : Attempting(t) =>
    \A s \in Sent(Host[t]) :
      JobOf[s.task] = JobOf[t] /\ NamesProcess(s) => task[t].attempt <= s.attempt

\* The row grants attempt a to the process of t for at least n more ticks.
Covers(t, a, n) ==
  /\ HeldBy(JobOf[t], Host[t])
  /\ jobs[JobOf[t]].attempt = a
  /\ n <= jobs[JobOf[t]].lease

\* By its own clock t may work.
Running(t) ==
  /\ task[t].pc \in {"work", "put", "finishLock", "finish", "failLock"}
  /\ ~task[t].lost /\ 0 < task[t].local

\* The completion of t was executed and t does not know it yet.
Finished(t) ==
  /\ task[t].pc \in {"finish", "failLock"}
  /\ jobs[JobOf[t]].status = "COMPLETED"
  /\ jobs[JobOf[t]].attempt = task[t].attempt

\* Who may work by its own clock may work by the row.
RunningEntitled ==
  \A t \in Task : Running(t) => Covers(t, task[t].attempt, task[t].local) \/ Finished(t)

\* A renewal was granted for at least the budget that t has kept for it.
RenewalEntitled ==
  \A r \in replies :
    r.side = "heartbeat" /\ r.result = "applied" /\ Running(r.task) =>
      Covers(r.task, task[r.task].attempt, task[r.task].budget) \/ Finished(r.task)

\* So was an acquisition that t has not heard of.
GrantEntitled ==
  \A r \in replies :
    Grants(r) /\ 0 < task[r.task].local => Covers(r.task, r.attempt, task[r.task].local)

\* The inductive invariant of the deadline.
DeadlineInv ==
  /\ ProtocolInv /\ AttemptsUnique /\ EndingsPast
  /\ NoOlder /\ RunningEntitled /\ RenewalEntitled /\ GrantEntitled

\* The row of a job that is held, while a statement is executed.
LEMMA HeldRowKept ==
  ASSUME DeadlineInv, NEW w \in Worker, Execute(w), NEW s, s = Head(conn[w]),
         NEW t \in Task, NEW a, NEW n \in 0..LeaseTicks, Covers(t, a, n),
         Host[t] # w \/ (Attempting(t) /\ task[t].attempt = a)
  PROVE  \/ Covers(t, a, n)'
         \/ /\ s.op \in Ending /\ s.task = t /\ s \in Sent(w)
            /\ s.op = "complete" =>
                 jobs'[JobOf[t]].status = "COMPLETED" /\ jobs'[JobOf[t]].attempt = a
  <1> DEFINE j == JobOf[t]
  <1>0. ProtocolInv /\ Comm /\ LeaseTypeOK /\ TasksOK
    BY DEF DeadlineInv, ProtocolInv, LeaseInv
  <1>1. j \in Job /\ Host[t] \in Worker /\ jobs[j] \in Row
    BY <1>0, AttemptAssumption DEF LeaseTypeOK
  <1>2. /\ jobs[j].owner = Host[t] /\ jobs[j].status = "PROCESSING"
        /\ jobs[j].lease > 0 /\ jobs[j].attempt = a /\ n <= jobs[j].lease
    BY DEF Covers, HeldBy, Live
  <1>3. s \in Statement /\ s \in Sent(w) /\ s.task \in Task /\ Host[s.task] = w
    <2>1. s \in Statement /\ s = conn[w][1] /\ 1 \in 1..Len(conn[w])
      BY <1>0, ExecuteSeq
    <2>2. s \in Sent(w)
      BY <2>1 DEF Sent
    <2>3. QED BY <1>0, <2>1, <2>2, SentIsStatement
  <1>4. UNCHANGED jobs \/ Apply(s, JobOf[s.task], w)
    BY ExecuteFrame
  <1>5. CASE UNCHANGED jobs
    BY <1>5, Zenon DEF Covers, HeldBy, Live
  <1>6. CASE JobOf[s.task] # j /\ Apply(s, JobOf[s.task], w)
    <2>1. jobs'[j] = jobs[j]
      BY <1>0, <1>1, <1>6, Zenon
      DEF Apply, ClaimUpload, AcquireLease, RenewLease, ReleaseForRetry, FailJob, Complete,
          CompleteDistributed, LeaseTypeOK
    <2>2. QED BY <2>1 DEF Covers, HeldBy, Live
  <1>7. CASE JobOf[s.task] = j /\ Apply(s, j, w)
    <2>1. ~CanClaim(j) /\ ~CanAcquire(j, mode)
      BY <1>1, <1>2, LeaseAssumption DEF CanClaim, CanAcquire, Unheld, Live
    <2>2. CASE RenewLease(j, w)
      <3>1. jobs'[j] = [jobs[j] EXCEPT !.lease = LeaseTicks]
        BY <1>0, <1>1, <2>2 DEF RenewLease, LeaseTypeOK
      <3>2. /\ jobs'[j].owner = Host[t] /\ jobs'[j].status = "PROCESSING"
            /\ jobs'[j].lease = LeaseTicks /\ jobs'[j].attempt = a
        BY <1>1, <1>2, <3>1 DEF Row
      <3>3. LeaseTicks > 0 /\ n <= LeaseTicks
        BY LeaseAssumption
      <3>4. QED BY <3>2, <3>3 DEF Covers, HeldBy, Live
    <2>3. CASE \/ s.op = "release" /\ ReleaseForRetry(j, w)
               \/ s.op = "fail" /\ FailJob(j, w)
               \/ s.op = "complete" /\ mode = "cli" /\ Complete(j, w)
               \/ s.op = "complete" /\ CompleteDistributed(j, w, s.attempt, s.attempt)
      <3>1. jobs[j].owner = w /\ s.op \in Ending
        BY <2>3 DEF ReleaseForRetry, CanRelease, FailJob, CanFail, Complete, CanComplete,
           CompleteDistributed, CanCompleteDistributed, HeldBy, Ending
      <3>2. w = Host[t] /\ Attempting(t) /\ task[t].attempt = a
        BY <1>2, <3>1
      <3>3. s.attempt = task[s.task].attempt
        BY <1>3, <3>1 DEF DeadlineInv, EndingsPast
      <3>4. task[t] \in TaskState /\ task[s.task] \in TaskState
            /\ a \in Nat /\ a # 0 /\ s.attempt \in 0..MaxAttempts
        BY <1>0, <1>3, <3>2, <3>3, LeaseAssumption
        DEF TasksOK, TaskOK, TaskState, PhaseOf, Attempting
      <3>5. a <= s.attempt
        <4>1. CASE NamesProcess(s)
          BY <1>3, <1>7, <3>2, <4>1 DEF DeadlineInv, NoOlder
        <4>2. CASE ~NamesProcess(s)
          <5>1. CompleteDistributed(j, w, s.attempt, s.attempt)
            BY <2>3, <4>2 DEF NamesProcess
          <5>2. jobs[j].attempt = s.attempt
            BY <5>1 DEF CompleteDistributed, CanCompleteDistributed
          <5>3. QED BY <1>2, <3>4, <5>2
        <4>3. QED BY <4>1, <4>2
      <3>6. s.attempt \in 1..MaxAttempts
        BY <3>4, <3>5, LeaseAssumption
      <3>7. Has(s.task, s.attempt) /\ Has(t, a)
        BY <3>2, <3>3, <3>4, <3>5, <3>6 DEF Has
      <3>8. s.attempt <= a
        BY <1>2, <1>3, <1>7, <3>6, <3>7 DEF DeadlineInv, AttemptsUnique
      <3>9. s.attempt = a
        BY <3>4, <3>5, <3>6, <3>8
      <3>10. s.task = t
        BY <1>3, <1>7, <3>6, <3>7, <3>9 DEF DeadlineInv, AttemptsUnique
      <3>11. s.op = "complete" => jobs'[j].status = "COMPLETED" /\ jobs'[j].attempt = a
        <4>1. ASSUME s.op = "complete"
              PROVE  \E key : jobs' = [jobs EXCEPT ![j] = EndedRow(@, "COMPLETED", key)]
          BY <2>3, <4>1 DEF Complete, CompleteDistributed
        <4>2. ASSUME NEW key, jobs' = [jobs EXCEPT ![j] = EndedRow(@, "COMPLETED", key)]
              PROVE  jobs'[j].status = "COMPLETED" /\ jobs'[j].attempt = a
          <5>1. jobs'[j] = EndedRow(jobs[j], "COMPLETED", key)
            BY <1>0, <1>1, <4>2 DEF LeaseTypeOK
          <5>2. QED BY <1>2, <5>1 DEF EndedRow
        <4>3. QED BY <4>1, <4>2
      <3>12. QED BY <1>3, <3>1, <3>10, <3>11
    <2>4. QED
      BY <1>7, <2>1, <2>2, <2>3 DEF Apply, ClaimUpload, AcquireLease
  <1>8. QED BY <1>4, <1>5, <1>6, <1>7

\* A COMPLETED row stays as it is.
LEMMA CompletedKept ==
  ASSUME LeaseInv, [LeaseNext]_jobs, NEW j \in Job, jobs[j].status = "COMPLETED"
  PROVE  jobs'[j].status = "COMPLETED" /\ jobs'[j].attempt = jobs[j].attempt
  <1>1. jobs[j] \in Row
    BY DEF LeaseInv, LeaseTypeOK
  <1>2. CASE GoodMove(jobs[j], jobs'[j])
    BY <1>2 DEF GoodMove, StatusMove
  <1>3. CASE jobs'[j] = AgedRow(jobs[j])
    BY <1>1, <1>3, AgedMove
  <1>4. QED BY <1>2, <1>3, StepByRow

\* How a step of t moves what its deadline depends on.
KeepsClock(o, r) ==
  /\ r.attempt = o.attempt /\ r.local = o.local
  /\ o.lost => r.lost
  /\ r.pc = o.pc \/ Forward(o.pc, r.pc)

\* A step of a task keeps its deadline, or has it from a grant or a renewal that
\* was in time, or begins an acquisition, or is of an attempt that is over.
LEMMA ClockMoves ==
  ASSUME ProtocolInv, NEW t \in Task, TaskNext(t)
  PROVE  \/ /\ KeepsClock(task[t], task'[t])
            /\ task'[t].budget = task[t].budget \/ task'[t].beat = "lock"
         \/ task'[t].pc = "lock" /\ task'[t].attempt = 0
         \/ \E r \in replies :
              /\ Grants(r) /\ r.task = t /\ replies' = replies \ {r}
              /\ 0 < task[t].local /\ task'[t].local = task[t].local
              /\ task'[t].pc = "work" /\ task'[t].attempt = r.attempt
              /\ task'[t].beat = "wait"
         \/ /\ ~task[t].active /\ task'[t].pc = task[t].pc
            /\ task'[t].attempt = task[t].attempt /\ task[t].beat = "lock"
         \/ \E r \in replies :
              /\ r.task = t /\ r.side = "heartbeat" /\ r.result = "applied"
              /\ replies' = replies \ {r}
              /\ task[t].active => 0 < task[t].local
              /\ task'[t].local = task[t].budget /\ task'[t].pc = task[t].pc
              /\ task'[t].attempt = task[t].attempt /\ task'[t].lost = task[t].lost
              /\ task'[t].beat = "wait" /\ task[t].beat = "renew"
  <1>0. TasksOK /\ AttemptTypeOK /\ TaskOK(task[t])
    BY ProtocolTypes DEF ProtocolInv, TasksOK
  <1>1. CASE OrdinaryStep(t)
    BY <1>1 DEF OrdinaryStep, Ordinary, KeepsClock
  <1>2. CASE AcquireReply(t)
    <2>1. ASSUME NEW r \in replies, Grants(r), r.task = t,
                 task'[t] = [task[t] EXCEPT !.pc = "work", !.attempt = r.attempt,
                                            !.active = TRUE, !.beat = "wait"]
          PROVE  /\ task'[t].pc = "work" /\ task'[t].attempt = r.attempt
                 /\ task'[t].local = task[t].local /\ task'[t].beat = "wait"
      BY <1>0, <2>1 DEF TaskOK, TaskState
    <2>2. CASE ~OrdinaryStep(t)
      <3>1. PICK r \in replies :
              /\ Grants(r) /\ r.task = t /\ replies' = replies \ {r}
              /\ task[t].local > 0
              /\ task'[t] = [task[t] EXCEPT !.pc = "work", !.attempt = r.attempt,
                                            !.active = TRUE, !.beat = "wait"]
        BY <1>2, <2>2, AcquireSteps
      <3>2. 0 < task[t].local
        BY <1>0, <3>1, LeaseAssumption DEF TaskOK, TaskState
      <3>3. QED BY <2>1, <3>1, <3>2
    <2>3. QED BY <1>1, <2>2
  <1>3. CASE Start(t)
    <2>1. task'[t] = [task[t] EXCEPT !.pc = "lock", !.local = LeaseTicks]
          /\ task[t].pc = "idle"
      BY <1>0, <1>3, StartStep DEF Start
    <2>2. task'[t].pc = "lock" /\ task'[t].attempt = 0
      BY <1>0, <2>1 DEF TaskOK, TaskState, PhaseOf
    <2>3. QED BY <2>2
  <1>4. CASE BeginRenewal(t)
    <2>1. task'[t] = [task[t] EXCEPT !.beat = "lock", !.budget = LeaseTicks]
      BY <1>0, <1>4, BeginRenewalStep
    <2>2. KeepsClock(task[t], task'[t]) /\ task'[t].beat = "lock"
      BY <1>0, <2>1 DEF TaskOK, TaskState, KeepsClock
    <2>3. QED BY <2>2
  <1>5. CASE RenewUnderLock(t)
    <2>1. CASE task'[t] = [task[t] EXCEPT !.beat = "renew"]
      <3>1. KeepsClock(task[t], task'[t]) /\ task'[t].budget = task[t].budget
        BY <1>0, <2>1 DEF TaskOK, TaskState, KeepsClock
      <3>2. QED BY <3>1
    <2>2. CASE ~task[t].active
               /\ task'[t] = [task[t] EXCEPT !.beat = "wait", !.local = task[t].budget]
      <3>1. task'[t].pc = task[t].pc /\ task'[t].attempt = task[t].attempt
            /\ task[t].beat = "lock"
        BY <1>0, <1>5, <2>2 DEF TaskOK, TaskState, RenewUnderLock
      <3>2. QED BY <2>2, <3>1
    <2>3. QED BY <1>0, <1>5, <2>1, <2>2, RenewUnderLockStep
  <1>6. CASE RenewReply(t)
    <2>1. task[t].beat = "renew"
      BY <1>6 DEF RenewReply
    <2>2. CASE task'[t] = RevokedOf(task[t])
      <3>1. KeepsClock(task[t], task'[t]) /\ task'[t].budget = task[t].budget
        BY <1>0, <2>2 DEF TaskOK, TaskState, KeepsClock, RevokedOf
      <3>2. QED BY <3>1
    <2>3. CASE task'[t] = Renewed(task[t]) /\ task'[t] # RevokedOf(task[t])
      <3>1. PICK r \in replies :
              /\ Receive(t, "heartbeat", r)
              /\ task' = [task EXCEPT ![t] =
                   IF r.result = "applied" /\ ~Overdue(t) THEN Renewed(@) ELSE RevokedOf(@)]
        BY <1>6 DEF RenewReply, Receive
      <3>2. r.result = "applied" /\ ~Overdue(t)
        BY <1>0, <2>3, <3>1 DEF TasksOK
      <3>3. task[t].active => 0 < task[t].local
        BY <1>0, <2>1, <3>2, LeaseAssumption DEF Overdue, TaskOK, TaskState
      <3>4. /\ task'[t].local = task[t].budget /\ task'[t].pc = task[t].pc
            /\ task'[t].attempt = task[t].attempt /\ task'[t].lost = task[t].lost
            /\ task'[t].beat = "wait"
        BY <1>0, <2>3 DEF TaskOK, TaskState, Renewed
      <3>5. QED BY <2>1, <3>1, <3>2, <3>3, <3>4 DEF Receive
    <2>4. QED BY <1>0, <1>6, <2>2, <2>3, RenewReplyStep
  <1>7. QED BY <1>0, <1>1, <1>2, <1>3, <1>4, <1>5, <1>6, OrdinarySteps DEF TaskNext

\* A task does not touch the table.
LEMMA TaskNextTable ==
  ASSUME NEW t \in Task, TaskNext(t)
  PROVE  UNCHANGED jobs
  BY DEF TaskNext, Start, ClaimUnderLock, ClaimReply, AcquireReply, DropAcquisition, BeginPut,
     PutObject, NoticeLoss, AttemptFails, FinishPipeline, Finish, CompleteUnderLock,
     CompleteReply, FailUnderLock, FailReply, Retire, DropLostAttempt, StopAttempt,
     BeginRenewal, RenewUnderLock, RenewReply, LoseVisibility, JoinHeartbeat,
     WatchdogFires, Revoke

\* A step of a task leaves the rows alone: what they granted is still granted.
LEMMA TaskEntitled ==
  ASSUME DeadlineInv, NEW t \in Task, TaskNext(t)
  PROVE  RunningEntitled' /\ RenewalEntitled' /\ GrantEntitled'
  <1>0. /\ ProtocolInv /\ TasksOK /\ Comm /\ Alone(t) /\ jobs' = jobs
        /\ RunningEntitled /\ RenewalEntitled /\ GrantEntitled
    BY TaskSteps, TaskNextTable DEF DeadlineInv, ProtocolInv
  <1>1. TaskOK(task[t]) /\ TaskOK(task'[t])
    BY <1>0, TaskSteps DEF TasksOK
  <1>2. \A u \in Task : \A a, n : Covers(u, a, n)' <=> Covers(u, a, n)
    BY <1>0 DEF Covers, HeldBy, Live
  <1>3. ASSUME KeepsClock(task[t], task'[t]), Running(t)'
        PROVE  Running(t) /\ (Finished(t) => Finished(t)')
    BY <1>0, <1>1, <1>3 DEF KeepsClock, Running, Finished, Forward, TaskOK, TaskState
  <1>4. ASSUME Running(t)'
        PROVE  Covers(t, task'[t].attempt, task'[t].local) \/ Finished(t)'
    <2>1. CASE KeepsClock(task[t], task'[t])
      BY <1>0, <1>3, <1>4, <2>1 DEF RunningEntitled, KeepsClock
    <2>2. CASE task'[t].pc = "lock"
      BY <1>4, <2>2 DEF Running
    <2>3. CASE \E r \in replies :
                 /\ Grants(r) /\ r.task = t
                 /\ 0 < task[t].local /\ task'[t].local = task[t].local
                 /\ task'[t].attempt = r.attempt
      BY <1>0, <2>3 DEF GrantEntitled
    <2>4. CASE ~task[t].active /\ task'[t].pc = task[t].pc
      BY <1>1, <1>4, <2>4 DEF Running, TaskOK, PhaseOf
    <2>5. CASE \E r \in replies :
                 /\ r.task = t /\ r.side = "heartbeat" /\ r.result = "applied"
                 /\ task[t].active => 0 < task[t].local
                 /\ task'[t].local = task[t].budget /\ task'[t].pc = task[t].pc
                 /\ task'[t].attempt = task[t].attempt /\ task'[t].lost = task[t].lost
      <3>1. Running(t)
        BY <1>1, <1>4, <2>5 DEF Running, TaskOK, PhaseOf
      <3>2. Finished(t) => Finished(t)'
        BY <1>0, <2>5 DEF Finished
      <3>3. QED BY <1>0, <2>5, <3>1, <3>2 DEF RenewalEntitled
    <2>6. QED BY <1>0, <2>1, <2>2, <2>3, <2>4, <2>5, ClockMoves
  <1>5. RunningEntitled'
    <2>1. ASSUME NEW u \in Task, u # t, Running(u)'
          PROVE  Covers(u, task'[u].attempt, task'[u].local) \/ Finished(u)'
      <3>1. task'[u] = task[u]
        BY <1>0, <2>1 DEF Alone
      <3>2. Running(u) /\ (Finished(u) => Finished(u)')
        BY <1>0, <2>1, <3>1 DEF Running, Finished
      <3>3. QED BY <1>0, <3>1, <3>2 DEF RunningEntitled
    <2>2. QED BY <1>2, <1>4, <2>1 DEF RunningEntitled, Covers, HeldBy, Live
  <1>6. RenewalEntitled'
    <2>1. SUFFICES ASSUME NEW r \in replies', r.side = "heartbeat", r.result = "applied",
                          Running(r.task)'
                   PROVE  Covers(r.task, task'[r.task].attempt, task'[r.task].budget)
                          \/ Finished(r.task)'
      BY <1>0 DEF RenewalEntitled, Covers, HeldBy, Live
    <2>2. r \in replies /\ r.task \in Task /\ task'[r.task].beat = task[r.task].beat
      BY <1>0, <2>1, RepliesKept
    <2>3. task[r.task].beat = "renew"
      BY <1>0, <2>1, <2>2 DEF Comm, OneReply
    <2>4. CASE r.task # t
      <3>1. task'[r.task] = task[r.task]
        BY <1>0, <2>2, <2>4 DEF Alone
      <3>2. Running(r.task) /\ (Finished(r.task) => Finished(r.task)')
        BY <1>0, <2>1, <3>1 DEF Running, Finished
      <3>3. QED BY <1>0, <2>1, <2>2, <3>1, <3>2 DEF RenewalEntitled
    <2>5. CASE r.task = t
      <3>1. CASE KeepsClock(task[t], task'[t]) /\ task'[t].budget = task[t].budget
        BY <1>0, <1>3, <2>1, <2>2, <2>5, <3>1 DEF RenewalEntitled, KeepsClock
      <3>2. ~(task'[t].beat \in {"lock", "wait"}) /\ ~(task[t].beat = "lock")
            /\ ~(task'[t].pc = "lock")
        BY <2>1, <2>2, <2>3, <2>5 DEF Running
      <3>3. QED BY <1>0, <3>1, <3>2, ClockMoves
    <2>6. QED BY <2>4, <2>5
  <1>7. GrantEntitled'
    <2>1. SUFFICES ASSUME NEW r \in replies', Grants(r)', 0 < task'[r.task].local
                   PROVE  Covers(r.task, r.attempt, task'[r.task].local)
      BY <1>0 DEF GrantEntitled, Covers, HeldBy, Live
    <2>2. r \in replies /\ r.task \in Task /\ Grants(r)
      BY <1>0, <2>1, RepliesKept DEF Grants
    <2>3. task'[r.task].local = task[r.task].local
      <3>1. CASE r.task # t
        BY <1>0, <2>2, <3>1 DEF Alone
      <3>2. CASE r.task = t
        <4>1. task[t].pc = "acquire" /\ task'[t].pc = "acquire"
          BY <2>1, <2>2, <3>2 DEF Grants
        <4>2. task[t].beat = "off"
          BY <1>1, <4>1 DEF TaskOK, PhaseOf
        <4>3. KeepsClock(task[t], task'[t])
          BY <1>0, <4>1, <4>2, ClockMoves
        <4>4. QED BY <3>2, <4>3 DEF KeepsClock
      <3>3. QED BY <3>1, <3>2
    <2>4. QED BY <1>0, <2>1, <2>2, <2>3 DEF GrantEntitled
  <1>8. QED BY <1>5, <1>6, <1>7

\* What a task was granted it keeps while a statement is executed, unless it
\* is its own completion.
LEMMA ExecuteKeeps ==
  ASSUME DeadlineInv, AttemptNext, NEW w \in Worker, Execute(w),
         NEW t \in Task, Running(t), NEW a, a = task[t].attempt,
         NEW n \in 0..LeaseTicks, Covers(t, a, n) \/ Finished(t)
  PROVE  Covers(t, a, n)' \/ Finished(t)'
  <1>0. /\ ProtocolInv /\ LeaseInv /\ [LeaseNext]_jobs /\ task' = task /\ JobOf[t] \in Job
        /\ Attempting(t)
    BY TableStep, ProtocolTypes, ExecuteFrame, AttemptAssumption
    DEF DeadlineInv, ProtocolInv, Running, Attempting
  <1>1. CASE Finished(t)
    BY <1>0, <1>1, CompletedKept DEF Finished
  <1>2. CASE Covers(t, a, n)
    <2>1. PICK s : s = Head(conn[w])
      OBVIOUS
    <2>2. CASE ~Covers(t, a, n)'
      <3>1. /\ s.op \in Ending /\ s.task = t /\ s \in Sent(w)
            /\ s.op = "complete" => jobs'[JobOf[t]].status = "COMPLETED"
                                    /\ jobs'[JobOf[t]].attempt = a
        BY <1>0, <1>2, <2>1, <2>2, HeldRowKept
      <3>2. task[t].pc \in Past(s.op)
        BY <3>1 DEF DeadlineInv, EndingsPast
      <3>3. s.op = "complete" /\ task[t].pc \in {"finish", "failLock"}
        BY <3>1, <3>2 DEF Past, Running, Ending
      <3>4. QED BY <1>0, <3>1, <3>3 DEF Finished
    <2>3. QED BY <2>2
  <1>3. QED BY <1>1, <1>2

\* The execution of a statement gives nobody more than it grants.
LEMMA ExecuteEntitled ==
  ASSUME DeadlineInv, AttemptNext, NEW w \in Worker, Execute(w)
  PROVE  RunningEntitled' /\ RenewalEntitled' /\ GrantEntitled'
  <1>0. /\ ProtocolInv /\ Comm /\ TasksOK /\ task' = task /\ LeaseTypeOK /\ LeaseTypeOK'
        /\ RunningEntitled /\ RenewalEntitled /\ GrantEntitled
    BY TableStep, ProtocolTypes, NextInv, ExecuteFrame DEF DeadlineInv, ProtocolInv, LeaseInv
  <1>1. PICK s : s = Head(conn[w])
    OBVIOUS
  <1>2. \A t \in Task : /\ Running(t)' <=> Running(t)
                        /\ task[t].local \in 0..LeaseTicks /\ task[t].budget \in 0..LeaseTicks
    BY <1>0 DEF Running, TasksOK, TaskOK, TaskState
  <1>3. RunningEntitled'
    <2>1. ASSUME NEW t \in Task, Running(t)
          PROVE  (Covers(t, task[t].attempt, task[t].local) \/ Finished(t))'
      <3>1. PICK a, n : a = task[t].attempt /\ n = task[t].local
        OBVIOUS
      <3>2. Covers(t, a, n) \/ Finished(t)
        BY <1>0, <2>1, <3>1 DEF RunningEntitled
      <3>3. Covers(t, a, n)' \/ Finished(t)'
        BY <1>2, <2>1, <3>1, <3>2, ExecuteKeeps
      <3>4. QED BY <1>0, <3>1, <3>3 DEF Covers
    <2>2. QED BY <1>2, <2>1 DEF RunningEntitled
  <1>4. RenewalEntitled'
    <2>1. ASSUME NEW r \in replies', r.side = "heartbeat", r.result = "applied",
                 Running(r.task)
          PROVE  (Covers(r.task, task[r.task].attempt, task[r.task].budget)
                  \/ Finished(r.task))'
      <3>1. PICK t, a, n : t = r.task /\ a = task[t].attempt /\ n = task[t].budget
        OBVIOUS
      <3>2. CASE r \in replies
        <4>1. t \in Task /\ Running(t)
          BY <1>0, <2>1, <3>1, <3>2 DEF Comm, CommTypes, Reply
        <4>2. Covers(t, a, n) \/ Finished(t)
          BY <1>0, <2>1, <3>1, <3>2 DEF RenewalEntitled
        <4>3. Covers(t, a, n)' \/ Finished(t)'
          BY <1>2, <3>1, <4>1, <4>2, ExecuteKeeps
        <4>4. QED BY <1>0, <3>1, <4>3 DEF Covers
      <3>3. CASE r \notin replies
        <4>1. /\ s \in Statement /\ t = s.task /\ s.side = "heartbeat" /\ Host[t] = w
              /\ Waits(s.task, s.side, s.op) /\ Apply(s, JobOf[t], w)
          BY <1>0, <1>1, <2>1, <3>1, <3>3, NewGrant
        <4>2. s.op = "renew" /\ t \in Task /\ JobOf[t] \in Job
          BY <4>1, AttemptAssumption DEF Waits, Statement
        <4>3. RenewLease(JobOf[t], w)
          BY <4>1, <4>2 DEF Apply
        <4>4. jobs[JobOf[t]].attempt = a
          BY <1>0, <2>1, <3>1, <4>2, <4>3
          DEF RunningEntitled, Covers, Finished, RenewLease, CanRenew, HeldBy
        <4>5. /\ jobs[JobOf[t]] \in Row /\ jobs[JobOf[t]].owner = w
              /\ jobs[JobOf[t]].status = "PROCESSING"
              /\ jobs'[JobOf[t]] = [jobs[JobOf[t]] EXCEPT !.lease = LeaseTicks]
          BY <1>0, <4>2, <4>3 DEF LeaseTypeOK, RenewLease, CanRenew, HeldBy
        <4>6. /\ jobs'[JobOf[t]].owner = w /\ jobs'[JobOf[t]].status = "PROCESSING"
              /\ jobs'[JobOf[t]].lease = LeaseTicks /\ jobs'[JobOf[t]].attempt = a
          BY <4>4, <4>5 DEF Row
        <4>7. LeaseTicks > 0 /\ n <= LeaseTicks
          BY <1>2, <3>1, <4>2, LeaseAssumption
        <4>8. QED BY <1>0, <3>1, <4>1, <4>6, <4>7 DEF Covers, HeldBy, Live
      <3>4. QED BY <3>2, <3>3
    <2>2. \A r \in replies' : Running(r.task)' <=> Running(r.task)
      BY <1>0 DEF Running
    <2>3. QED BY <2>1, <2>2 DEF RenewalEntitled
  <1>5. GrantEntitled'
    <2>1. ASSUME NEW r \in replies', Grants(r)', 0 < task[r.task].local
          PROVE  Covers(r.task, r.attempt, task[r.task].local)'
      <3>1. PICK t, n : t = r.task /\ n = task[t].local
        OBVIOUS
      <3>2. Grants(r)
        BY <1>0, <2>1 DEF Grants
      <3>3. CASE r \in replies
        <4>1. t \in Task /\ conn[Host[t]] = <<>>
          BY <1>0, <3>1, <3>3 DEF Comm, CommTypes, OneReply, Reply
        <4>2. Host[t] # w
          BY <4>1, ExecuteFrame
        <4>3. Covers(t, r.attempt, n)
          BY <1>0, <2>1, <3>1, <3>2, <3>3 DEF GrantEntitled
        <4>4. s.task = t /\ s \in Sent(w) => FALSE
          BY <1>0, <4>2, SentIsStatement
        <4>5. Covers(t, r.attempt, n)'
          BY <1>1, <1>2, <3>1, <4>1, <4>2, <4>3, <4>4, HeldRowKept
        <4>6. QED BY <1>0, <3>1, <4>5 DEF Covers
      <3>4. CASE r \notin replies
        <4>1. /\ s \in Statement /\ t = s.task /\ Host[t] = w
              /\ r.attempt = jobs'[JobOf[t]].attempt
          BY <1>0, <1>1, <2>1, <3>1, <3>4, NewGrant
        <4>2. AcquireLease(JobOf[t], w, mode) /\ t \in Task /\ JobOf[t] \in Job
          BY <1>0, <1>1, <2>1, <3>4, <4>1, GrantOf, AttemptAssumption DEF Statement
        <4>3. jobs'[JobOf[t]] = AcquiredRow(jobs[JobOf[t]], w, mode)
          BY <1>0, <4>2 DEF LeaseTypeOK, AcquireLease
        <4>4. /\ jobs'[JobOf[t]].owner = w /\ jobs'[JobOf[t]].status = "PROCESSING"
              /\ jobs'[JobOf[t]].lease = LeaseTicks
          BY <4>3 DEF AcquiredRow
        <4>5. LeaseTicks > 0 /\ n <= LeaseTicks
          BY <1>2, <3>1, <4>2, LeaseAssumption
        <4>6. QED BY <1>0, <3>1, <4>1, <4>4, <4>5 DEF Covers, HeldBy, Live
      <3>5. QED BY <3>3, <3>4
    <2>2. QED BY <1>0, <2>1 DEF GrantEntitled
  <1>6. QED BY <1>3, <1>4, <1>5

\* A tick takes as much from the lease as from the deadline.
LEMMA TickKeeps ==
  ASSUME DeadlineInv, Tick, NEW t \in Task, NEW a, NEW n \in 0..LeaseTicks,
         NEW m \in 0..LeaseTicks, Covers(t, a, n), Covers(t, a, m), 0 < Less(m)
  PROVE  Covers(t, a, Less(n))'
  <1>1. JobOf[t] \in Job /\ jobs[JobOf[t]] \in Row
    BY AttemptAssumption DEF DeadlineInv, ProtocolInv, LeaseInv, LeaseTypeOK
  <1>2. jobs'[JobOf[t]] = AgedRow(jobs[JobOf[t]])
    BY <1>1 DEF Tick
  <1>3. /\ jobs'[JobOf[t]].owner = jobs[JobOf[t]].owner
        /\ jobs'[JobOf[t]].status = jobs[JobOf[t]].status
        /\ jobs'[JobOf[t]].attempt = jobs[JobOf[t]].attempt
        /\ jobs'[JobOf[t]].lease = IF jobs[JobOf[t]].lease > 0
                                   THEN jobs[JobOf[t]].lease - 1 ELSE 0
        /\ jobs[JobOf[t]].lease \in 0..LeaseTicks
    BY <1>1, <1>2 DEF AgedRow, Row
  <1>4. n <= jobs[JobOf[t]].lease /\ m <= jobs[JobOf[t]].lease /\ m > 1
    BY LeaseAssumption DEF Covers, Less
  <1>5. Less(n) <= jobs'[JobOf[t]].lease /\ jobs'[JobOf[t]].lease > 0
    BY <1>3, <1>4, LeaseAssumption DEF Less
  <1>6. QED BY <1>3, <1>5 DEF Covers, HeldBy, Live

\* Time takes nothing from a deadline that it does not take from the lease.
LEMMA TickEntitled ==
  ASSUME DeadlineInv, Tick
  PROVE  RunningEntitled' /\ RenewalEntitled' /\ GrantEntitled'
  <1>0. /\ ProtocolInv /\ Comm /\ LeaseTypeOK /\ TasksOK /\ replies' = replies
        /\ RunningEntitled /\ RenewalEntitled /\ GrantEntitled
    BY DEF DeadlineInv, ProtocolInv, LeaseInv, Tick
  <1>1. ASSUME NEW t \in Task
        PROVE  /\ task'[t].pc = task[t].pc /\ task'[t].attempt = task[t].attempt
               /\ task'[t].lost = task[t].lost
               /\ task'[t].local = Less(task[t].local)
               /\ task'[t].budget = Less(task[t].budget)
               /\ task[t].local \in 0..LeaseTicks /\ task[t].budget \in 0..LeaseTicks
    <2>1. task[t] \in TaskState
      BY <1>0 DEF TasksOK, TaskOK
    <2>2. task'[t] = [task[t] EXCEPT !.local = Less(@), !.budget = Less(@)]
      BY DEF Tick
    <2>3. QED BY <2>1, <2>2 DEF TaskState
  <1>2. ASSUME NEW t \in Task, Running(t)'
        PROVE  Running(t) /\ 0 < Less(task[t].local)
    BY <1>1, <1>2, LeaseAssumption DEF Running, Less
  <1>3. ASSUME NEW t \in Task, Finished(t) PROVE Finished(t)'
    <2>1. JobOf[t] \in Job /\ jobs[JobOf[t]] \in Row
      BY <1>0, AttemptAssumption DEF LeaseTypeOK
    <2>2. jobs'[JobOf[t]].status = jobs[JobOf[t]].status
          /\ jobs'[JobOf[t]].attempt = jobs[JobOf[t]].attempt
      BY <2>1, AgedMove DEF Tick
    <2>3. QED BY <1>1, <1>3, <2>2 DEF Finished
  <1>4. ASSUME NEW t \in Task, NEW n \in 0..LeaseTicks, Running(t)',
               Covers(t, task[t].attempt, n) \/ Finished(t),
               NEW a, a = task[t].attempt
        PROVE  Covers(t, a, Less(n))' \/ Finished(t)'
    <2>1. Running(t) /\ 0 < Less(task[t].local)
      BY <1>2, <1>4
    <2>2. PICK m : m = task[t].local
      OBVIOUS
    <2>3. Covers(t, a, m) \/ Finished(t)
      BY <1>0, <1>4, <2>1, <2>2 DEF RunningEntitled
    <2>4. CASE Covers(t, a, m) /\ Covers(t, a, n)
      <3>1. m \in 0..LeaseTicks /\ 0 < Less(m)
        BY <1>1, <2>1, <2>2
      <3>2. QED BY <2>4, <3>1, TickKeeps
    <2>5. QED BY <1>3, <1>4, <2>3, <2>4
  <1>5. RunningEntitled'
    <2>1. ASSUME NEW t \in Task, Running(t)'
          PROVE  (Covers(t, task[t].attempt, task[t].local) \/ Finished(t))'
      <3>1. PICK a, n : a = task[t].attempt /\ n = task[t].local
        OBVIOUS
      <3>2. Covers(t, task[t].attempt, n) \/ Finished(t)
        BY <1>0, <1>2, <2>1, <3>1 DEF RunningEntitled
      <3>3. Covers(t, a, Less(n))' \/ Finished(t)'
        BY <1>1, <1>4, <2>1, <3>1, <3>2
      <3>4. QED BY <1>1, <3>1, <3>3 DEF Covers
    <2>2. QED BY <2>1 DEF RunningEntitled
  <1>6. RenewalEntitled'
    <2>1. ASSUME NEW r \in replies, r.side = "heartbeat", r.result = "applied",
                 Running(r.task)'
          PROVE  (Covers(r.task, task[r.task].attempt, task[r.task].budget)
                  \/ Finished(r.task))'
      <3>1. PICK t, a, n : t = r.task /\ a = task[t].attempt /\ n = task[t].budget
        OBVIOUS
      <3>2. t \in Task
        BY <1>0, <3>1 DEF Comm, CommTypes, Reply
      <3>3. Covers(t, task[t].attempt, n) \/ Finished(t)
        BY <1>0, <1>2, <2>1, <3>1, <3>2 DEF RenewalEntitled
      <3>4. Covers(t, a, Less(n))' \/ Finished(t)'
        BY <1>1, <1>4, <2>1, <3>1, <3>2, <3>3
      <3>5. QED BY <1>1, <3>1, <3>2, <3>4 DEF Covers
    <2>2. QED BY <1>0, <2>1 DEF RenewalEntitled
  <1>7. GrantEntitled'
    <2>1. ASSUME NEW r \in replies, Grants(r)', 0 < task'[r.task].local
          PROVE  Covers(r.task, r.attempt, task[r.task].local)'
      <3>1. PICK t, n : t = r.task /\ n = task[t].local
        OBVIOUS
      <3>2. t \in Task
        BY <1>0, <3>1 DEF Comm, CommTypes, Reply
      <3>3. Grants(r) /\ 0 < n /\ 0 < Less(n) /\ n \in 0..LeaseTicks
        BY <1>1, <2>1, <3>1, <3>2, LeaseAssumption DEF Grants, Less
      <3>4. Covers(t, r.attempt, n)
        BY <1>0, <3>1, <3>3 DEF GrantEntitled
      <3>5. Covers(t, r.attempt, Less(n))'
        BY <3>2, <3>3, <3>4, TickKeeps
      <3>6. QED BY <1>1, <3>1, <3>2, <3>5 DEF Covers
    <2>2. QED BY <1>0, <2>1 DEF GrantEntitled
  <1>8. QED BY <1>5, <1>6, <1>7

\* Steps that leave the rows and the clocks alone and start nobody's work.
LEMMA StillEntitled ==
  ASSUME DeadlineInv, jobs' = jobs, replies' \subseteq replies,
         \A t \in Task :
           /\ task'[t].attempt = task[t].attempt /\ task'[t].lost = task[t].lost
           /\ task'[t].local = task[t].local /\ task'[t].budget = task[t].budget
           /\ \/ task'[t].pc = task[t].pc \/ task'[t].pc = "done"
              \/ task[t].pc = "put" /\ task'[t].pc = "work"
  PROVE  RunningEntitled' /\ RenewalEntitled' /\ GrantEntitled'
  <1>0. /\ \A r \in replies : r.task \in Task
        /\ RunningEntitled /\ RenewalEntitled /\ GrantEntitled
    BY DEF DeadlineInv, ProtocolInv, Comm, CommTypes, Reply
  <1>1. \A t \in Task : \A a, n : Covers(t, a, n)' <=> Covers(t, a, n)
    BY DEF Covers, HeldBy, Live
  <1>2. ASSUME NEW t \in Task, Running(t)'
        PROVE  Running(t) /\ (Finished(t) => Finished(t)')
    BY <1>2 DEF Running, Finished
  <1>3. RunningEntitled'
    BY <1>0, <1>1, <1>2 DEF RunningEntitled, Covers, HeldBy, Live
  <1>4. RenewalEntitled'
    BY <1>0, <1>1, <1>2 DEF RenewalEntitled, Covers, HeldBy, Live
  <1>5. GrantEntitled'
    BY <1>0, <1>1 DEF GrantEntitled, Grants, Covers, HeldBy, Live
  <1>6. QED BY <1>3, <1>4, <1>5

\* No step of the database, the bucket, the clock or a crash takes from a task
\* what its deadline promises.
LEMMA OtherEntitled ==
  ASSUME DeadlineInv, AttemptNext, OtherStep
  PROVE  RunningEntitled' /\ RenewalEntitled' /\ GrantEntitled'
  <1>0. ProtocolInv /\ TasksOK /\ \A t \in Task : task[t] \in TaskState
    BY DEF DeadlineInv, ProtocolInv, TasksOK, TaskOK
  <1>1. CASE \E w \in Worker : Crash(w)
    <2>1. jobs' = jobs /\ replies' \subseteq replies
      BY <1>1 DEF Crash
    <2>2. \A t \in Task : task'[t] = task[t]
                          \/ task'[t] = [task[t] EXCEPT !.pc = "done", !.beat = "off"]
      BY <1>0, <1>1, CrashTasks
    <2>3. \A t \in Task :
            /\ task'[t].attempt = task[t].attempt /\ task'[t].lost = task[t].lost
            /\ task'[t].local = task[t].local /\ task'[t].budget = task[t].budget
            /\ task'[t].pc = task[t].pc \/ task'[t].pc = "done"
      <3>1. ASSUME NEW t \in Task, NEW o \in TaskState, o = task[t]
            PROVE  /\ task'[t].attempt = o.attempt /\ task'[t].lost = o.lost
                   /\ task'[t].local = o.local /\ task'[t].budget = o.budget
                   /\ task'[t].pc = o.pc \/ task'[t].pc = "done"
        BY <2>2, <3>1 DEF TaskState
      <3>2. QED BY <1>0, <3>1
    <2>4. QED BY <2>1, <2>3, StillEntitled
  <1>2. CASE \E x \in writes : WriteLands(x)
    <2>1. PICK x \in writes : WriteLands(x)
      BY <1>2
    <2>2. jobs' = jobs /\ replies' \subseteq replies
      BY <2>1 DEF WriteLands
    <2>3. \A t \in Task : task'[t] = task[t] \/
            (task[t].pc = "put" /\
             task'[t] = [task[t] EXCEPT !.pc = "work", !.next = x.object + 1])
      BY <1>0, <2>1, WriteLandsStep DEF Alone
    <2>4. ASSUME NEW t \in Task
          PROVE  /\ task'[t].attempt = task[t].attempt /\ task'[t].lost = task[t].lost
                 /\ task'[t].local = task[t].local /\ task'[t].budget = task[t].budget
                 /\ \/ task'[t].pc = task[t].pc
                    \/ task[t].pc = "put" /\ task'[t].pc = "work"
      <3>1. CASE task'[t] = [task[t] EXCEPT !.pc = "work", !.next = x.object + 1]
                 /\ task[t].pc = "put"
        BY <1>0, <3>1 DEF TaskState
      <3>2. QED BY <2>3, <3>1
    <2>5. QED BY <2>2, <2>4, StillEntitled
  <1>3. CASE \E x \in writes : WriteIsLost(x)
    BY <1>3, StillEntitled DEF WriteIsLost
  <1>4. QED BY <1>1, <1>2, <1>3, ExecuteEntitled, TickEntitled DEF OtherStep

\* With a watchdog that never comes late, a task that sends its last statement
\* may still work.
LEMMA SenderRuns ==
  ASSUME PromptWatchdog, DeadlineInv, AttemptNext, NEW v \in Task, TaskNext(v),
         NEW s, NewStatement(v, s), NamesProcess(s)
  PROVE  Running(v) /\ task[v].pc \in {"finishLock", "failLock"}
  <1>0. TasksOK /\ AttemptTypeOK /\ TaskOK(task[v])
    BY ProtocolTypes DEF DeadlineInv, ProtocolInv, TasksOK
  <1>1. /\ s.op \in Ending /\ MaySend(v, s.op) /\ Waits(v, s.side, s.op)' /\ s.side \in Side
        /\ task[v].pc \in {"finishLock", "failLock"} /\ ~task[v].lost
    BY DEF NewStatement, NamesProcess, Ending, MaySend
  <1>2. task'[v].pc # task[v].pc
    BY <1>1 DEF Waits, Ending, Side
  <1>3. ASSUME NEW t \in Task, WatchdogFires(t) PROVE FALSE
    <2>1. task' = [task EXCEPT ![t] = RevokedOf(@)]
      BY <1>3 DEF WatchdogFires, Revoke
    <2>2. task'[v].pc = task[v].pc
      BY <1>0, <2>1 DEF TasksOK, TaskOK, TaskState, RevokedOf
    <2>3. QED BY <1>2, <2>2
  <1>4. ~Overdue(v)
    BY <1>3 DEF AttemptNext
  <1>5. task[v].active /\ task[v].beat # "off"
    BY <1>0, <1>1 DEF TaskOK, PhaseOf
  <1>6. 0 < task[v].local
    BY <1>0, <1>4, <1>5, LeaseAssumption DEF Overdue, TaskOK, TaskState
  <1>7. QED BY <1>1, <1>6 DEF Running

\* A task that works after a step worked on the same attempt before, or it has
\* just acquired it and nothing is on the connection.
LEMMA AttemptingKept ==
  ASSUME ProtocolInv, AttemptNext, NEW t \in Task, Attempting(t)', Sent(Host[t]) # {}
  PROVE  Attempting(t) /\ task'[t].attempt = task[t].attempt
  <1>1. ASSUME NEW v \in Task, TaskNext(v)
        PROVE  Attempting(t) /\ task'[t].attempt = task[t].attempt
    <2>1. CASE v # t
      BY <1>1, <2>1, TaskSteps DEF Alone, Attempting
    <2>2. CASE v = t
      <3>1. ASSUME NEW r \in replies, r.task = t PROVE FALSE
        <4>1. conn[Host[t]] = <<>> /\ Len(<<>>) = 0
          BY <3>1, EmptySeq DEF ProtocolInv, Comm, OneReply
        <4>2. QED BY <4>1 DEF Sent
      <3>2. /\ task'[t].attempt = task[t].attempt
            /\ \/ task'[t].pc = task[t].pc
               \/ Forward(task[t].pc, task'[t].pc)
               \/ task[t].pc = "idle" /\ task'[t].pc = "lock"
        BY <1>1, <2>2, <3>1, TaskMoves
      <3>3. QED BY <3>2 DEF Attempting, Forward
    <2>3. QED BY <2>1, <2>2
  <1>2. CASE OtherStep
    BY <1>2, OtherMoves DEF Attempting
  <1>3. QED BY <1>1, <1>2, NextCases

\* A task that may still work has the last attempt of its job, so that what it
\* sends is not older than what any task of its process works on.
LEMMA NoOlderStep ==
  ASSUME PromptWatchdog, DeadlineInv, AttemptNext
  PROVE  NoOlder'
  <1>0. ProtocolInv /\ Comm /\ TasksOK /\ mode' = mode
    BY DEF DeadlineInv, ProtocolInv, AttemptNext
  <1> SUFFICES ASSUME NEW t \in Task, Attempting(t)', NEW s \in Sent(Host[t])',
                      JobOf[s.task] = JobOf[t], NamesProcess(s)
               PROVE  task'[t].attempt <= s.attempt
    BY <1>0 DEF NoOlder, NamesProcess
  <1>1. Host[t] \in Worker
    BY AttemptAssumption
  <1>2. CASE \E u \in Sent(Host[t]) : SameStatement(s, u)
    <2>1. PICK u \in Sent(Host[t]) : SameStatement(s, u)
      BY <1>2
    <2>2. u.op = s.op /\ u.task = s.task /\ u.attempt = s.attempt
      BY <2>1 DEF SameStatement
    <2>3. Attempting(t) /\ task'[t].attempt = task[t].attempt
      BY <1>0, <2>1, AttemptingKept
    <2>4. QED BY <2>1, <2>2, <2>3 DEF DeadlineInv, NoOlder, NamesProcess
  <1>3. ASSUME NEW v \in Task, TaskNext(v), Host[v] = Host[t], NewStatement(v, s)
        PROVE  task'[t].attempt <= s.attempt
    <2>1. Running(v) /\ task[v].pc \in {"finishLock", "failLock"}
      BY <1>3, SenderRuns
    <2>2. s.attempt = task[v].attempt /\ s.task = v
      BY <1>3 DEF NewStatement
    <2>3. TaskOK(task[v]) /\ TaskOK(task[t])
      BY <1>0 DEF TasksOK
    <2>4. CASE v = t
      <3>1. task'[t].attempt = task[t].attempt
        BY <1>0, <1>3, <2>1, <2>4, TaskMoves
      <3>2. task[t].attempt \in Nat
        BY <2>3, LeaseAssumption DEF TaskOK, TaskState
      <3>3. QED BY <2>2, <2>4, <3>1, <3>2
    <2>5. CASE v # t
      <3>1. task'[t] = task[t]
        BY <1>0, <1>3, <2>5, TaskSteps DEF Alone
      <3>2. Attempting(t)
        BY <3>1 DEF Attempting
      <3>3. task[t].attempt \in 1..MaxAttempts
        BY <2>3, <3>2, LeaseAssumption DEF TaskOK, TaskState, PhaseOf, Attempting
      <3>4. task[t].attempt <= jobs[JobOf[t]].attempt
        BY <3>3 DEF DeadlineInv, AttemptsUnique, Has
      <3>5. jobs[JobOf[v]].attempt = task[v].attempt
        BY <2>1 DEF DeadlineInv, RunningEntitled, Covers, Finished
      <3>6. QED BY <2>2, <3>1, <3>4, <3>5
    <2>6. QED BY <2>4, <2>5
  <1>4. QED
    BY <1>0, <1>1, <1>2, <1>3, NextCases, SentByTask, SentByOthers DEF OtherStep

\* All of it is kept by every step ...
LEMMA DeadlineStep ==
  ASSUME PromptWatchdog, DeadlineInv, [AttemptNext]_<<attemptVars, mode>>
  PROVE  DeadlineInv'
  <1>1. CASE AttemptNext
    <2>1. ProtocolInv' /\ AttemptsUnique' /\ EndingsPast' /\ NoOlder'
      BY <1>1, ProtocolStep, AttemptsStep, EndingsStep, NoOlderStep DEF DeadlineInv
    <2>2. RunningEntitled' /\ RenewalEntitled' /\ GrantEntitled'
      BY <1>1, NextCases, TaskEntitled, OtherEntitled
    <2>3. QED BY <2>1, <2>2 DEF DeadlineInv
  <1>2. CASE UNCHANGED <<attemptVars, mode>>
    <2>1. /\ jobs' = jobs /\ mode' = mode /\ task' = task /\ conn' = conn /\ replies' = replies
      BY <1>2 DEF attemptVars
    <2>2. ProtocolInv'
      BY <1>2, ProtocolStep DEF DeadlineInv
    <2>3. AttemptsUnique'
      BY <2>1 DEF DeadlineInv, AttemptsUnique, Has, Grants
    <2>4. EndingsPast' /\ NoOlder'
      BY <2>1 DEF DeadlineInv, EndingsPast, NoOlder, Sent, Attempting, NamesProcess
    <2>5. RunningEntitled' /\ RenewalEntitled' /\ GrantEntitled'
      BY <2>1, StillEntitled
    <2>6. QED BY <2>2, <2>3, <2>4, <2>5 DEF DeadlineInv
  <1>3. QED BY <1>1, <1>2

\* ... and holds at the start.
LEMMA DeadlineInit ==
  ASSUME AttemptInit
  PROVE  DeadlineInv
  <1>1. ProtocolInv
    BY ProtocolInit
  <1>2. \A w \in Worker : Sent(w) = {}
    BY EmptySeq DEF AttemptInit, Sent
  <1>3. AttemptsUnique /\ EndingsPast
    BY <1>2 DEF AttemptInit, AttemptsUnique, Has, EndingsPast
  <1>4. NoOlder /\ RunningEntitled /\ RenewalEntitled /\ GrantEntitled
    BY DEF AttemptInit, NoOlder, Attempting, RunningEntitled, Running, RenewalEntitled,
       GrantEntitled
  <1>5. QED BY <1>1, <1>3, <1>4 DEF DeadlineInv

\* With a prompt watchdog, no attempt outlives its lease by its own clock, and
\* what is left on the connection never ends a younger attempt: the invariant
\* that the two properties below follow from.
THEOREM AttemptDeadline ==
  ASSUME PromptWatchdog
  PROVE  AttemptSpec => []DeadlineInv
  <1>1. AttemptInit => DeadlineInv
    BY DeadlineInit
  <1>2. DeadlineInv /\ [AttemptNext]_<<attemptVars, mode>> => DeadlineInv'
    BY DeadlineStep
  <1>3. QED BY <1>1, <1>2, PTL DEF AttemptSpec

\* LocalDeadlineSound, for every number of processes, tasks and jobs, and for
\* leases of any length: while its own clock says that the lease runs, an
\* attempt that works owns the row.
THEOREM DeadlineSound ==
  ASSUME PromptWatchdog
  PROVE  AttemptSpec => []LocalDeadlineSound
  <1>1. DeadlineInv => LocalDeadlineSound
    <2>1. ASSUME DeadlineInv, NEW t \in Task, task[t].pc \in {"work", "put"},
                 ~task[t].lost, task[t].local > 0
          PROVE  Granted(t)
      <3>1. 0 < task[t].local
        BY <2>1, LeaseAssumption DEF DeadlineInv, ProtocolInv, TasksOK, TaskOK, TaskState
      <3>2. Running(t) /\ ~Finished(t)
        BY <2>1, <3>1 DEF Running, Finished
      <3>3. QED BY <2>1, <3>2 DEF DeadlineInv, RunningEntitled, Covers, Granted
    <2>2. QED BY <2>1 DEF LocalDeadlineSound
  <1>2. QED BY <1>1, AttemptDeadline, PTL

\* RunningAttemptNotEnded: the statements that an earlier attempt has left
\* behind name the process only, and still never end a later attempt of it.
THEOREM RunningNotEnded ==
  ASSUME PromptWatchdog
  PROVE  AttemptSpec => []RunningAttemptNotEnded
  <1>1. ASSUME DeadlineInv, NEW t \in Task, Attempting(t), Granted(t),
               NEW s \in Sent(Host[t]), AboutToEnd(Host[t], s), JobOf[s.task] = JobOf[t]
        PROVE  s.attempt = task[t].attempt
    <2>0. ProtocolInv /\ Comm /\ TasksOK /\ Host[t] \in Worker
      BY <1>1, AttemptAssumption DEF DeadlineInv, ProtocolInv
    <2>1. /\ jobs[JobOf[t]].attempt = task[t].attempt /\ s.op \in Ending
          /\ Applies(s, JobOf[t], Host[t])
      BY <1>1 DEF Granted, AboutToEnd, Ending
    <2>2. s \in Statement /\ s.task \in Task
      BY <1>1, <2>0, SentIsStatement
    <2>3. s.attempt = task[s.task].attempt
      BY <1>1, <2>0, <2>1 DEF DeadlineInv, EndingsPast
    <2>4. task[t].attempt \in 1..MaxAttempts /\ s.attempt \in 0..MaxAttempts
      BY <1>1, <2>0, <2>2, LeaseAssumption
      DEF TasksOK, TaskOK, TaskState, PhaseOf, Attempting, Statement
    <2>5. CASE NamesProcess(s)
      <3>1. task[t].attempt <= s.attempt
        BY <1>1, <2>5 DEF DeadlineInv, NoOlder
      <3>2. s.attempt \in 1..MaxAttempts
        BY <2>4, <3>1, LeaseAssumption
      <3>3. s.attempt <= jobs[JobOf[t]].attempt
        BY <1>1, <2>2, <2>3, <3>2 DEF DeadlineInv, AttemptsUnique, Has
      <3>4. QED BY <2>1, <2>4, <3>1, <3>3, LeaseAssumption
    <2>6. CASE ~NamesProcess(s)
      <3>1. CanCompleteDistributed(JobOf[t], Host[t], s.attempt, s.attempt)
        BY <2>1, <2>6 DEF Applies, NamesProcess, Ending
      <3>2. QED BY <2>1, <3>1 DEF CanCompleteDistributed
    <2>7. QED BY <2>5, <2>6
  <1>2. DeadlineInv => RunningAttemptNotEnded
    BY <1>1 DEF RunningAttemptNotEnded
  <1>3. QED BY <1>2, AttemptDeadline, PTL

-----------------------------------------------------------------------------
(* The output.  Nothing here depends on the watchdog.                      *)

\* What a task has published is in the bucket.
TasksPublished ==
  \A t \in Task : \A o \in Object :
    o < task[t].next => <<Prefix(task[t].attempt), o>> \in stored[JobOf[t]]

\* An upload under way is of the attempt of its task and not ahead of it.
UploadsInOrder ==
  \A x \in writes :
    x.attempt = task[x.task].attempt /\ x.object <= task[x.task].next

\* Under every prefix, objects reach the bucket in the order of the manifest.
StoredInOrder ==
  \A j \in Job, a \in 0..MaxAttempts, o, p \in Object :
    <<a, o>> \in stored[j] /\ p < o => <<a, p>> \in stored[j]

\* A completion is sent when all output is in the bucket.
CompletionsBacked ==
  \A w \in Worker : \A s \in Sent(w) : s.op = "complete" =>
    \A o \in Object : <<Prefix(s.attempt), o>> \in stored[JobOf[s.task]]

\* The inductive invariant of the output.
OutputInv ==
  /\ ProtocolInv
  /\ TasksPublished /\ UploadsInOrder /\ StoredInOrder
  /\ CompletionsBacked /\ CompletedOutputStored

\* The bucket only grows, and only an upload adds to it.
LEMMA StoredGrows ==
  ASSUME ProtocolInv, AttemptNext, NEW j \in Job
  PROVE  stored[j] \subseteq stored'[j]
  <1>1. CASE \E x \in writes : WriteLands(x)
    <2>1. stored \in [Job -> SUBSET ((0..MaxAttempts) \X Object)]
      BY DEF ProtocolInv
    <2>2. PICK x \in writes :
            stored' = [stored EXCEPT ![JobOf[x.task]] =
                         @ \cup {<<Prefix(x.attempt), x.object>>}]
      BY <1>1 DEF WriteLands
    <2>3. QED BY <2>1, <2>2
  <1>2. QED BY <1>1, StoredStep

\* No step of a task moves it on in the manifest: the upload that lands does.
LEMMA NextKept ==
  ASSUME ProtocolInv, NEW t \in Task, TaskNext(t)
  PROVE  task'[t].next = task[t].next
  <1>0. TasksOK /\ AttemptTypeOK /\ task[t] \in TaskState
    BY ProtocolTypes DEF ProtocolInv, TasksOK, TaskOK
  <1>1. CASE OrdinaryStep(t)
    BY <1>1 DEF OrdinaryStep, Ordinary
  <1>2. CASE AcquireReply(t)
    <2>1. ASSUME NEW r \in replies,
                 task'[t] = [task[t] EXCEPT !.pc = "work", !.attempt = r.attempt,
                                            !.active = TRUE, !.beat = "wait"]
          PROVE  task'[t].next = task[t].next
      <3>1. PICK o \in TaskState : o = task[t]
        BY <1>0
      <3>2. PICK a : a = r.attempt
        OBVIOUS
      <3>3. [o EXCEPT !.pc = "work", !.attempt = a, !.active = TRUE, !.beat = "wait"].next
              = o.next
        BY DEF TaskState
      <3>4. QED BY <2>1, <3>1, <3>2, <3>3
    <2>2. OrdinaryStep(t) \/ \E r \in replies :
            task'[t] = [task[t] EXCEPT !.pc = "work", !.attempt = r.attempt,
                                       !.active = TRUE, !.beat = "wait"]
      BY <1>2, AcquireSteps, Zenon
    <2>3. QED BY <1>1, <2>1, <2>2
  <1>3. CASE Start(t) \/ BeginRenewal(t) \/ RenewUnderLock(t) \/ RenewReply(t)
    <2>1. \/ task'[t] = [task[t] EXCEPT !.pc = "lock", !.local = LeaseTicks]
          \/ task'[t] = [task[t] EXCEPT !.beat = "lock", !.budget = LeaseTicks]
          \/ task'[t] = [task[t] EXCEPT !.beat = "renew"]
          \/ task'[t] = [task[t] EXCEPT !.beat = "wait", !.local = task[t].budget]
          \/ task'[t] = Renewed(task[t])
          \/ task'[t] = RevokedOf(task[t])
      BY <1>0, <1>3, StartStep, BeginRenewalStep, RenewUnderLockStep, RenewReplyStep
    <2>2. QED BY <1>0, <2>1 DEF TaskState, Renewed, RevokedOf
  <1>4. QED BY <1>0, <1>1, <1>2, <1>3, OrdinarySteps DEF TaskNext

\* A task that acquires an attempt has published nothing and uploads nothing.
LEMMA AttemptKept ==
  ASSUME ProtocolInv, UploadsInOrder, NEW t \in Task, TaskNext(t),
         task'[t].attempt # task[t].attempt
  PROVE  task[t].next = 1 /\ \A x \in writes : x.task # t
  <1>1. task[t].pc = "acquire" /\ TaskOK(task[t])
    BY TaskMoves DEF ProtocolInv, TasksOK
  <1>2. task[t].attempt = 0 /\ task[t].next = 1
    BY <1>1 DEF TaskOK, PhaseOf
  <1>3. ASSUME NEW x \in writes, x.task = t PROVE FALSE
    <2>1. x.attempt \in 1..MaxAttempts /\ x.attempt = 0
      BY <1>2, <1>3 DEF UploadsInOrder, ProtocolInv, Write
    <2>2. QED BY <2>1, LeaseAssumption
  <1>4. QED BY <1>2, <1>3

\* What a task uploads is the next object of its attempt.
LEMMA WritesOf ==
  ASSUME ProtocolInv, NEW t \in Task, TaskNext(t), NEW x \in writes', x \notin writes
  PROVE  x.task = t /\ x.attempt = task[t].attempt /\ x.object = task[t].next
         /\ task'[t].attempt = task[t].attempt
  <1>1. TasksOK
    BY DEF ProtocolInv
  <1>2. BeginPut(t)
    BY DEF TaskNext, Start, ClaimUnderLock, ClaimReply, AcquireReply, DropAcquisition,
       NoticeLoss, AttemptFails, FinishPipeline, Finish, CompleteUnderLock, CompleteReply,
       FailUnderLock, FailReply, Retire, DropLostAttempt, StopAttempt, BeginRenewal,
       RenewUnderLock, RenewReply, LoseVisibility, JoinHeartbeat, WatchdogFires, Revoke
  <1>3. /\ writes' = writes \cup
             {[ task |-> t, attempt |-> task[t].attempt, object |-> task[t].next ]}
        /\ task[t].pc = "work"
    BY <1>2 DEF BeginPut, PutObject
  <1>4. task'[t].attempt = task[t].attempt
    BY <1>3, TaskMoves
  <1>5. QED BY <1>3, <1>4

\* The bucket is not the business of a task.
LEMMA TaskNextBucket ==
  ASSUME NEW t \in Task, TaskNext(t)
  PROVE  UNCHANGED stored
  BY DEF TaskNext, Start, ClaimUnderLock, ClaimReply, AcquireReply, DropAcquisition, BeginPut,
     PutObject, NoticeLoss, AttemptFails, FinishPipeline, Finish, CompleteUnderLock,
     CompleteReply, FailUnderLock, FailReply, Retire, DropLostAttempt, StopAttempt,
     BeginRenewal, RenewUnderLock, RenewReply, LoseVisibility, JoinHeartbeat,
     WatchdogFires, Revoke

\* A task publishes in order, and completes when it has published everything.
LEMMA TaskOutput ==
  ASSUME OutputInv, mode' = mode, NEW t \in Task, TaskNext(t)
  PROVE  /\ TasksPublished' /\ UploadsInOrder' /\ StoredInOrder'
         /\ CompletionsBacked' /\ CompletedOutputStored'
  <1>0. /\ ProtocolInv /\ TasksPublished /\ UploadsInOrder /\ StoredInOrder
        /\ CompletionsBacked /\ CompletedOutputStored /\ TasksOK /\ AttemptTypeOK
        /\ Alone(t) /\ stored' = stored /\ jobs' = jobs
        /\ Object' = Object /\ \A a : Prefix(a)' = Prefix(a)
    BY ProtocolTypes, TaskSteps, TaskNextBucket, TaskNextTable, SameMode
    DEF OutputInv, ProtocolInv, Prefix
  <1>1. \A u \in Task : task'[u].next = task[u].next
    BY <1>0, NextKept DEF Alone
  <1>2. \A u \in Task : \/ task'[u].attempt = task[u].attempt
                        \/ task[u].next = 1 /\ \A x \in writes : x.task # u
    BY <1>0, AttemptKept DEF Alone
  <1>3. TasksPublished'
    <2>1. ASSUME NEW u \in Task, NEW o \in Object, o < task[u].next
          PROVE  <<Prefix(task'[u].attempt), o>> \in stored[JobOf[u]]
      <3>1. CASE task'[u].attempt = task[u].attempt
        BY <1>0, <2>1, <3>1 DEF TasksPublished
      <3>2. CASE task[u].next = 1
        BY <1>0, <2>1, <3>2, ObjectsPositive DEF Object
      <3>3. QED BY <1>2, <3>1, <3>2
    <2>2. QED BY <1>0, <1>1, <2>1 DEF TasksPublished, Prefix
  <1>4. UploadsInOrder'
    <2>1. ASSUME NEW x \in writes'
          PROVE  x.attempt = task'[x.task].attempt /\ x.object <= task'[x.task].next
      <3>1. CASE x \in writes
        <4>1. x.task \in Task
          BY <1>0, <3>1 DEF ProtocolInv, Write
        <4>2. QED BY <1>0, <1>1, <1>2, <3>1, <4>1 DEF UploadsInOrder
      <3>2. CASE x \notin writes
        <4>1. /\ x.task = t /\ x.attempt = task'[t].attempt /\ x.object = task[t].next
          BY <1>0, <3>2, WritesOf
        <4>2. task[t].next \in 1..NObjects + 1 /\ NObjects \in Nat
          BY <1>0, ObjectsPositive DEF TasksOK, TaskOK, TaskState
        <4>3. QED BY <1>1, <4>1, <4>2
      <3>3. QED BY <3>1, <3>2
    <2>2. QED BY <2>1 DEF UploadsInOrder
  <1>5. CompletionsBacked'
    <2>1. ASSUME NEW w \in Worker, NEW s \in Sent(w)', s.op = "complete", NEW o \in Object
          PROVE  <<Prefix(s.attempt), o>> \in stored[JobOf[s.task]]
      <3>1. CASE \E u \in Sent(w) : SameStatement(s, u)
        <4>1. PICK u \in Sent(w) : SameStatement(s, u)
          BY <3>1
        <4>2. u.op = s.op /\ u.task = s.task /\ u.attempt = s.attempt
          BY <4>1 DEF SameStatement
        <4>3. QED BY <1>0, <2>1, <4>1, <4>2 DEF CompletionsBacked
      <3>2. CASE NewStatement(t, s)
        <4>1. /\ s.task = t /\ s.attempt = task[t].attempt
              /\ task[t].pc = "finishLock"
          BY <2>1, <3>2 DEF NewStatement, Ending, MaySend
        <4>2. task[t].next \in 1..NObjects + 1 /\ NObjects \in Nat /\ task[t].next > NObjects
          BY <1>0, <4>1, ObjectsPositive DEF TasksOK, TaskOK, TaskState, PhaseOf
        <4>3. o < task[t].next
          BY <2>1, <4>2 DEF Object
        <4>4. QED BY <1>0, <4>1, <4>3 DEF TasksPublished
      <3>3. QED BY <1>0, <3>1, <3>2, SentByTask
    <2>2. QED BY <1>0, <2>1 DEF CompletionsBacked, Prefix
  <1>6. StoredInOrder' /\ CompletedOutputStored'
    BY <1>0 DEF StoredInOrder, CompletedOutputStored
  <1>7. QED BY <1>3, <1>4, <1>5, <1>6

\* The object that an upload adds is the next one of its prefix, or older.
LEMMA LandedOutput ==
  ASSUME OutputInv, mode' = mode, NEW x \in writes, WriteLands(x)
  PROVE  /\ TasksPublished' /\ UploadsInOrder' /\ StoredInOrder'
         /\ CompletionsBacked' /\ CompletedOutputStored'
  <1>0. /\ ProtocolInv /\ TasksPublished /\ UploadsInOrder /\ StoredInOrder
        /\ CompletionsBacked /\ CompletedOutputStored /\ TasksOK /\ AttemptTypeOK
        /\ jobs' = jobs /\ conn' = conn /\ writes' \subseteq writes
        /\ Object' = Object /\ \A a : Prefix(a)' = Prefix(a)
    BY ProtocolTypes, SameMode DEF OutputInv, ProtocolInv, Prefix, WriteLands
  <1>1. /\ x.task \in Task /\ x.object \in Object /\ JobOf[x.task] \in Job
        /\ x.attempt = task[x.task].attempt /\ x.object <= task[x.task].next
        /\ NObjects \in Nat
    BY <1>0, AttemptAssumption, ObjectsPositive DEF UploadsInOrder, ProtocolInv, Write
  <1>2. \A j \in Job : stored'[j] = IF j = JobOf[x.task]
                         THEN stored[j] \cup {<<Prefix(x.attempt), x.object>>} ELSE stored[j]
    BY <1>0, <1>1 DEF WriteLands, ProtocolInv
  <1>3. ASSUME NEW u \in Task
        PROVE  /\ task'[u].attempt = task[u].attempt
               /\ \/ task'[u].next = task[u].next
                  \/ u = x.task /\ task[u].next = x.object /\ task'[u].next = x.object + 1
               /\ task[u].next \in 1..NObjects + 1
    <2>1. task[u] \in TaskState
      BY <1>0 DEF TasksOK, TaskOK
    <2>2. CASE task'[u] = [task[u] EXCEPT !.pc = "work", !.next = x.object + 1]
               /\ u = x.task /\ task[u].next = x.object
      BY <2>1, <2>2 DEF TaskState
    <2>3. CASE task'[u] = task[u]
      BY <2>1, <2>3 DEF TaskState
    <2>4. QED BY <1>0, <2>2, <2>3, WriteLandsStep DEF Alone
  <1>4. TasksPublished'
    <2>1. ASSUME NEW u \in Task, NEW o \in Object, o < task'[u].next
          PROVE  <<Prefix(task'[u].attempt), o>> \in stored'[JobOf[u]]
      <3>1. JobOf[u] \in Job /\ o \in Int /\ x.object \in Int
        BY <1>1, AttemptAssumption DEF Object
      <3>2. CASE o < task[u].next
        BY <1>0, <1>2, <1>3, <2>1, <3>1, <3>2 DEF TasksPublished
      <3>3. CASE ~(o < task[u].next)
        <4>1. u = x.task /\ o = x.object
          BY <1>3, <2>1, <3>1, <3>3
        <4>2. task'[u].attempt = x.attempt
          BY <1>1, <1>3, <4>1
        <4>3. <<Prefix(x.attempt), x.object>> \in stored'[JobOf[x.task]]
          BY <1>1, <1>2
        <4>4. QED BY <4>1, <4>2, <4>3
      <3>4. QED BY <3>2, <3>3
    <2>2. QED BY <1>0, <2>1 DEF TasksPublished, Prefix
  <1>5. UploadsInOrder'
    <2>1. ASSUME NEW y \in writes
          PROVE  y.attempt = task'[y.task].attempt /\ y.object <= task'[y.task].next
      <3>1. y.task \in Task /\ y.object \in Int /\ x.object \in Int
        BY <1>0, <1>1 DEF ProtocolInv, Write, Object
      <3>2. y.attempt = task[y.task].attempt /\ y.object <= task[y.task].next
        BY <1>0, <2>1 DEF UploadsInOrder
      <3>3. QED BY <1>1, <1>3, <3>1, <3>2
    <2>2. QED BY <1>0, <2>1 DEF UploadsInOrder
  <1>6. StoredInOrder'
    <2>1. ASSUME NEW j \in Job, NEW a \in 0..MaxAttempts, NEW o \in Object, NEW p \in Object,
                 <<a, o>> \in stored'[j], p < o
          PROVE  <<a, p>> \in stored'[j]
      <3>1. CASE <<a, o>> \in stored[j]
        BY <1>0, <1>2, <2>1, <3>1 DEF StoredInOrder
      <3>2. CASE <<a, o>> \notin stored[j]
        <4>0. stored'[j] # stored[j]
          BY <2>1, <3>2
        <4>1. j = JobOf[x.task] /\ a = Prefix(x.attempt) /\ o = x.object
          <5>1. j = JobOf[x.task]
                /\ stored'[j] = stored[j] \cup {<<Prefix(x.attempt), x.object>>}
            BY <1>2, <4>0
          <5>2. <<a, o>> = <<Prefix(x.attempt), x.object>>
            BY <2>1, <3>2, <5>1
          <5>3. QED BY <5>1, <5>2
        <4>2. p < task[x.task].next
          BY <1>1, <1>3, <2>1, <4>1 DEF Object
        <4>3. <<Prefix(x.attempt), p>> \in stored[j]
          BY <1>0, <1>1, <2>1, <4>1, <4>2 DEF TasksPublished
        <4>4. QED BY <1>2, <2>1, <4>1, <4>3
      <3>3. QED BY <3>1, <3>2
    <2>2. QED BY <1>0, <2>1 DEF StoredInOrder
  <1>7. \A j \in Job : stored[j] \subseteq stored'[j]
    BY <1>2
  <1>8. CompletionsBacked'
    <2>1. ASSUME NEW w \in Worker, NEW s \in Sent(w), s.op = "complete", NEW o \in Object
          PROVE  <<Prefix(s.attempt), o>> \in stored'[JobOf[s.task]]
      <3>1. JobOf[s.task] \in Job
        BY <1>0, SentIsStatement, AttemptAssumption DEF ProtocolInv
      <3>2. QED BY <1>0, <1>7, <2>1, <3>1 DEF CompletionsBacked
    <2>2. QED BY <1>0, <2>1 DEF CompletionsBacked, Prefix, Sent
  <1>9. CompletedOutputStored'
    BY <1>0, <1>7 DEF CompletedOutputStored
  <1>10. QED BY <1>4, <1>5, <1>6, <1>8, <1>9

\* A row becomes COMPLETED by a completion, and its pointer is to the output of
\* the attempt that it ends.
LEMMA CompletedBacked ==
  ASSUME OutputInv, AttemptNext, OtherStep, NEW j \in Job, jobs'[j].status = "COMPLETED",
         NEW o \in Object
  PROVE  <<jobs'[j].pointer, o>> \in stored[j]
  <1>0. /\ ProtocolInv /\ Comm /\ jobs[j] \in Row /\ LeaseTypeOK
        /\ CompletionsBacked /\ CompletedOutputStored
    BY DEF OutputInv, ProtocolInv, LeaseInv, LeaseTypeOK
  <1>1. ASSUME jobs'[j].status = jobs[j].status /\ jobs'[j].pointer = jobs[j].pointer
        PROVE  <<jobs'[j].pointer, o>> \in stored[j]
    BY <1>0, <1>1 DEF CompletedOutputStored
  <1>2. CASE Tick
    <2>1. jobs'[j] = AgedRow(jobs[j])
      BY <1>2 DEF Tick
    <2>2. QED BY <1>0, <1>1, <2>1 DEF AgedRow, Row
  <1>3. ASSUME NEW w \in Worker, Execute(w) PROVE <<jobs'[j].pointer, o>> \in stored[j]
    <2>1. PICK s : s = Head(conn[w])
      OBVIOUS
    <2>2. s \in Sent(w)
      <3>1. s = conn[w][1] /\ 1 \in 1..Len(conn[w])
        BY <1>0, <1>3, <2>1, ExecuteSeq
      <3>2. QED BY <3>1 DEF Sent
    <2>3. CASE Apply(s, JobOf[s.task], w) /\ JobOf[s.task] # j
      <3>1. jobs'[j] = jobs[j]
        BY <1>0, <2>3
        DEF Apply, ClaimUpload, AcquireLease, RenewLease, ReleaseForRetry, FailJob, Complete,
            CompleteDistributed, LeaseTypeOK
      <3>2. QED BY <1>1, <3>1
    <2>4. CASE Apply(s, j, w) /\ JobOf[s.task] = j
      <3>1. CASE s.op = "complete" /\ mode = "cli" /\ Complete(j, w)
        <4>1. jobs'[j] = EndedRow(jobs[j], "COMPLETED", jobs[j].pointer) /\ jobs[j].pointer = 0
          BY <1>0, <3>1 DEF Complete, CanComplete, LeaseTypeOK
        <4>2. jobs'[j].pointer = Prefix(s.attempt)
          BY <3>1, <4>1 DEF EndedRow, Prefix
        <4>3. QED BY <1>0, <2>2, <2>4, <3>1, <4>2 DEF CompletionsBacked
      <3>2. CASE s.op = "complete" /\ mode = "distributed"
                 /\ CompleteDistributed(j, w, s.attempt, s.attempt)
        <4>1. jobs'[j] = EndedRow(jobs[j], "COMPLETED", s.attempt)
          BY <1>0, <3>2 DEF CompleteDistributed, LeaseTypeOK
        <4>2. jobs'[j].pointer = Prefix(s.attempt)
          BY <3>2, <4>1 DEF EndedRow, Prefix
        <4>3. QED BY <1>0, <2>2, <2>4, <3>2, <4>2 DEF CompletionsBacked
      <3>3. CASE ClaimUpload(j) \/ AcquireLease(j, w, mode) \/ RenewLease(j, w)
                 \/ ReleaseForRetry(j, w) \/ FailJob(j, w)
        <4>1. jobs'[j].status # "COMPLETED"
          BY <1>0, <3>3
          DEF ClaimUpload, CanClaim, AcquireLease, AcquiredRow, RenewLease, CanRenew, HeldBy,
              ReleaseForRetry, FailJob, EndedRow, LeaseTypeOK, Row
        <4>2. QED BY <4>1
      <3>4. QED BY <2>4, <3>1, <3>2, <3>3 DEF Apply
    <2>5. CASE UNCHANGED jobs
      BY <1>1, <2>5
    <2>6. QED BY <1>3, <2>1, <2>3, <2>4, <2>5, ExecuteFrame
  <1>4. CASE UNCHANGED jobs
    BY <1>1, <1>4
  <1>5. QED BY <1>2, <1>3, <1>4 DEF OtherStep, Crash, WriteLands, WriteIsLost

\* The other steps add nothing to the output.
LEMMA OtherOutput ==
  ASSUME OutputInv, AttemptNext, OtherStep, ~\E x \in writes : WriteLands(x)
  PROVE  /\ TasksPublished' /\ UploadsInOrder' /\ StoredInOrder'
         /\ CompletionsBacked' /\ CompletedOutputStored'
  <1>0. /\ ProtocolInv /\ TasksPublished /\ UploadsInOrder /\ StoredInOrder
        /\ CompletionsBacked /\ TasksOK /\ stored' = stored /\ writes' \subseteq writes
        /\ Object' = Object /\ \A a : Prefix(a)' = Prefix(a)
    BY SameMode, StoredStep, ExecuteFrame
    DEF OutputInv, ProtocolInv, Prefix, AttemptNext, OtherStep, Crash, WriteIsLost, Tick
  <1>1. ASSUME NEW u \in Task
        PROVE  task'[u].attempt = task[u].attempt /\ task'[u].next = task[u].next
    <2>1. task[u] \in TaskState
      BY <1>0 DEF TasksOK, TaskOK
    <2>2. \/ task'[u] = task[u]
          \/ task'[u] = [task[u] EXCEPT !.pc = "done", !.beat = "off"]
          \/ task'[u] = [task[u] EXCEPT !.local = Less(@), !.budget = Less(@)]
      BY <1>0, CrashTasks, ExecuteFrame DEF OtherStep, WriteIsLost, Tick
    <2>3. QED BY <2>1, <2>2 DEF TaskState
  <1>2. TasksPublished' /\ StoredInOrder'
    BY <1>0, <1>1 DEF TasksPublished, StoredInOrder, Prefix
  <1>3. UploadsInOrder'
    <2>1. \A x \in writes : x.task \in Task
      BY <1>0 DEF ProtocolInv, Write
    <2>2. QED BY <1>0, <1>1, <2>1 DEF UploadsInOrder
  <1>4. CompletionsBacked'
    <2>1. ASSUME NEW w \in Worker, NEW s \in Sent(w)', s.op = "complete", NEW o \in Object
          PROVE  <<Prefix(s.attempt), o>> \in stored[JobOf[s.task]]
      <3>1. PICK u \in Sent(w) : SameStatement(s, u)
        BY <1>0, <2>1, SentByOthers DEF OtherStep
      <3>2. u.op = s.op /\ u.task = s.task /\ u.attempt = s.attempt
        BY <3>1 DEF SameStatement
      <3>3. QED BY <1>0, <2>1, <3>1, <3>2 DEF CompletionsBacked
    <2>2. QED BY <1>0, <2>1 DEF CompletionsBacked, Prefix
  <1>5. CompletedOutputStored'
    BY <1>0, CompletedBacked DEF CompletedOutputStored
  <1>6. QED BY <1>2, <1>3, <1>4, <1>5

\* Every step keeps the output in order.
LEMMA OutputStep ==
  ASSUME OutputInv, [AttemptNext]_<<attemptVars, mode>>
  PROVE  OutputInv'
  <1>1. ProtocolInv'
    BY ProtocolStep DEF OutputInv
  <1>2. CASE AttemptNext
    <2>1. mode' = mode
      BY <1>2 DEF AttemptNext
    <2>2. /\ TasksPublished' /\ UploadsInOrder' /\ StoredInOrder'
          /\ CompletionsBacked' /\ CompletedOutputStored'
      BY <1>2, <2>1, NextCases, TaskOutput, LandedOutput, OtherOutput
    <2>3. QED BY <1>1, <2>2 DEF OutputInv
  <1>3. CASE UNCHANGED <<attemptVars, mode>>
    <2>1. /\ jobs' = jobs /\ mode' = mode /\ task' = task /\ conn' = conn
          /\ writes' = writes /\ stored' = stored /\ Object' = Object
          /\ \A a : Prefix(a)' = Prefix(a)
      BY <1>3, SameMode DEF attemptVars, Prefix
    <2>2. TasksPublished' /\ UploadsInOrder' /\ StoredInOrder' /\ CompletedOutputStored'
      BY <2>1 DEF OutputInv, TasksPublished, UploadsInOrder, StoredInOrder,
         CompletedOutputStored, Prefix
    <2>3. CompletionsBacked'
      BY <2>1 DEF OutputInv, CompletionsBacked, Sent, Prefix
    <2>4. QED BY <1>1, <2>2, <2>3 DEF OutputInv
  <1>4. QED BY <1>2, <1>3

\* Whatever the watchdog does, the output of an attempt reaches the bucket in
\* order and is there before the completion is sent: the invariant behind the
\* next two theorems.
THEOREM AttemptOutput == AttemptSpec => []OutputInv
  <1>1. ASSUME AttemptInit PROVE OutputInv
    <2>1. ProtocolInv
      BY <1>1, ProtocolInit
    <2>2. \A w \in Worker : Sent(w) = {}
      BY <1>1, EmptySeq DEF AttemptInit, Sent
    <2>3. TasksPublished
      BY <1>1, <2>1, ProtocolTypes, ObjectsPositive DEF AttemptInit, TasksPublished, Object
    <2>4. UploadsInOrder /\ StoredInOrder /\ CompletionsBacked /\ CompletedOutputStored
      BY <1>1, <2>2 DEF AttemptInit, UploadsInOrder, StoredInOrder, CompletionsBacked,
         CompletedOutputStored, AbsentRow
    <2>5. QED BY <2>1, <2>3, <2>4 DEF OutputInv
  <1>2. QED BY <1>1, OutputStep, PTL DEF AttemptSpec

\* ManifestLast: a manifest in the bucket refers only to segments that are
\* there, with any number of attempts writing under one prefix.
THEOREM ManifestComesLast == AttemptSpec => []ManifestLast
  <1>1. OutputInv => ManifestLast
    <2>1. ASSUME OutputInv, NEW j \in Job, NEW a \in 0..MaxAttempts,
                 <<a, Manifest>> \in stored[j], NEW o \in Object
          PROVE  <<a, o>> \in stored[j]
      <3>1. NObjects \in Nat \ {0}
        BY <2>1, ProtocolTypes, ObjectsPositive DEF OutputInv
      <3>2. Manifest \in Object /\ (o = Manifest \/ o < Manifest)
        BY <3>1 DEF Manifest, Object
      <3>3. QED BY <2>1, <3>2 DEF OutputInv, StoredInOrder
    <2>2. QED BY <2>1 DEF ManifestLast
  <1>2. QED BY <1>1, AttemptOutput, PTL

\* CompletedOutputStored: a COMPLETED job has all its output under the prefix
\* that playback uses.
THEOREM CompletedHasOutput == AttemptSpec => []CompletedOutputStored
  <1>1. QED BY AttemptOutput, PTL DEF OutputInv

-----------------------------------------------------------------------------
(* The table once more.                                                    *)

\* Whatever the processes, their connections and the clock do together, the
\* jobs table only makes the steps of JobLease.
THEOREM AttemptKeepsTable == AttemptSpec => [][LeaseNext]_jobs
  <1>1. ProtocolInv /\ [AttemptNext]_<<attemptVars, mode>> => [LeaseNext]_jobs
    BY TableStep, ProtocolTypes DEF ProtocolInv, attemptVars
  <1>2. QED BY <1>1, AttemptProtocol, PTL DEF AttemptSpec

\* So the promises of the table hold whatever late, lost or repeated statements
\* arrive: an ended job stays ended, no attempt is given back, no lease is revived
\* or stolen.
THEOREM AttemptKeepsPromises ==
  AttemptSpec => PromisesKept /\ LapsedLeaseNeverRevived /\ LiveLeaseNotStolen
  <1>1. ProtocolInv => LeaseInv
    BY DEF ProtocolInv
  <1>2. QED BY <1>1, AttemptProtocol, AttemptKeepsTable, TableKeepsPromises, PTL
=============================================================================
