------------------------- MODULE WorkerProcessProofs -------------------------
(***************************************************************************)
(* Proofs about WorkerPool for every concurrency, every set of lifetimes   *)
(* and all time constants that satisfy LifetimeAssumption, and about       *)
(* WorkerProcess for every set of environments besides.  The process takes *)
(* the loop only through steps of its own (ProcessRunsPool), so what holds *)
(* of the loop holds of the process.                                       *)
(***************************************************************************)
EXTENDS WorkerProcess, TLAPS

\* What a failed renewal and a drain may take.
Reserve == UpdateTimeout + GracePeriod

Waiting == {"top", "full", "receive"}

\* Where the loop is without protection, it has no message task.
GuardedInv ==
  /\ Cloud /\ running > 0 => phase \notin {"unprotect", "pause", "leave", "done"}
  /\ Cloud /\ running > 0 /\ phase \in Waiting \cup {"protect"} => protected
  /\ Cloud /\ phase \in {"full", "receive"} => protected
  /\ Cloud /\ phase = "protect" /\ resume # "top" => protected
  /\ phase = "unprotect" => running = 0
  /\ phase = "pause" => running = 0 /\ ~protected

\* How much protection is left wherever there may be message tasks.
MarginInv ==
  /\ Cloud /\ protected /\ phase \in Waiting => left > renew + Reserve
  /\ Cloud /\ protected /\ phase = "protect" =>
       clock <= UpdateTimeout /\ left + clock > Reserve
  /\ Cloud /\ running > 0 /\ phase = "drain" =>
       clock <= GracePeriod /\ left + clock > GracePeriod
  /\ Cloud /\ running > 0 /\ phase = "abort" => left > 0

\* A request is under way exactly where the loop waits for it.
RequestInv ==
  /\ request # "none" =>
       phase = "receive" \/ (phase = "protect" /\ resume = "receive")
  /\ (phase = "receive" \/ (phase = "protect" /\ resume = "receive")) =>
       running < MaxConcurrency

PoolInv == PoolTypeOK /\ GuardedInv /\ MarginInv /\ RequestInv

-----------------------------------------------------------------------------
(* Facts about the confirmed lifetimes.                                    *)

\* Half of any accepted lifetime is more than the reserve.
LEMMA LifetimeMargin ==
  ASSUME NEW r \in Lifetime
  PROVE  /\ r \in Nat /\ RenewAfter(r) \in Nat
         /\ r > RenewAfter(r) + Reserve
PROOF
<1>1. r \in Nat /\ MinLifetime \in Nat /\ r >= MinLifetime
  BY PoolAssumption
<1>2. UpdateTimeout \in Nat \ {0} /\ GracePeriod \in Nat \ {0}
  BY PoolAssumption
<1>3. r \div 2 \in Nat /\ r - r \div 2 >= MinLifetime - MinLifetime \div 2
  BY <1>1, SMT
<1>4. MinLifetime - MinLifetime \div 2 > UpdateTimeout + GracePeriod
  BY LifetimeAssumption
<1> QED
  BY <1>1, <1>2, <1>3, <1>4, SMT DEF RenewAfter, Reserve

\* A period that has just begun is not over.
LEMMA FreshClock ==
  ASSUME NEW l \in Nat, NEW c \in Nat, NEW g \in Nat, l > g, c = 0
  PROVE  c <= g /\ l + c > g
PROOF
  OBVIOUS

-----------------------------------------------------------------------------
(* The invariant is inductive.                                             *)

\* The loop starts without a task, unprotected.
LEMMA PoolInitial == PoolInit => PoolInv
PROOF
<1> SUFFICES ASSUME PoolInit PROVE PoolInv
  OBVIOUS
<1>1. PoolTypeOK
  <2>1. shutdown \in BOOLEAN /\ failed \in BOOLEAN /\ protected \in BOOLEAN
    BY Zenon DEF PoolInit
  <2>2. running \in 0..MaxConcurrency /\ left \in Nat /\ renew \in Nat /\ clock \in Nat
    BY PoolAssumption DEF PoolInit
  <2> QED
    BY <2>1, <2>2 DEF PoolInit, PoolTypeOK
<1>2. GuardedInv /\ MarginInv
  BY DEF PoolInit, GuardedInv, MarginInv, Waiting
<1>3. RequestInv
  BY DEF PoolInit, RequestInv
<1> QED
  BY <1>1, <1>2, <1>3 DEF PoolInv

\* No step of the loop, of its timers or of ECS leaves the invariant.
LEMMA PoolInductive == PoolInv /\ [PoolNext]_poolVars => PoolInv'
PROOF
<1> SUFFICES ASSUME PoolInv, [PoolNext]_poolVars PROVE PoolInv'
  OBVIOUS
<1> USE PoolAssumption DEF PoolInv
<1>1. CASE Top
  <2>1. PoolTypeOK'
    BY <1>1 DEF PoolTypeOK, RequestInv, Top
  <2>2. GuardedInv'
    BY <1>1 DEF GuardedInv, PoolTypeOK, Waiting, Top
  <2>3. MarginInv'
    BY <1>1 DEF MarginInv, GuardedInv, PoolTypeOK, Waiting, Reserve, Top
  <2>4. RequestInv'
    BY <1>1 DEF RequestInv, PoolTypeOK, Top
  <2> QED
    BY <2>1, <2>2, <2>3, <2>4
<1>2. CASE NoticeShutdown
  <2>1. PoolTypeOK'
    BY <1>2 DEF PoolTypeOK, RequestInv, NoticeShutdown, Break
  <2>2. GuardedInv'
    BY <1>2 DEF GuardedInv, PoolTypeOK, Waiting, NoticeShutdown, Break
  <2>3. MarginInv'
    BY <1>2 DEF MarginInv, GuardedInv, PoolTypeOK, Waiting, Reserve, NoticeShutdown, Break
  <2>4. RequestInv'
    BY <1>2 DEF RequestInv, PoolTypeOK, NoticeShutdown, Break
  <2> QED
    BY <2>1, <2>2, <2>3, <2>4
<1>3. CASE BeginProtect
  <2>1. PoolTypeOK'
    BY <1>3 DEF PoolTypeOK, RequestInv, BeginProtect
  <2>2. GuardedInv'
    BY <1>3 DEF GuardedInv, PoolTypeOK, Waiting, BeginProtect
  <2>3. MarginInv'
    BY <1>3 DEF MarginInv, GuardedInv, PoolTypeOK, Waiting, Reserve, BeginProtect
  <2>4. RequestInv'
    BY <1>3 DEF RequestInv, PoolTypeOK, BeginProtect
  <2> QED
    BY <2>1, <2>2, <2>3, <2>4
<1>4. CASE Protected
  <2>r. PICK r \in Lifetime : left' = r /\ renew' = RenewAfter(r)
    BY <1>4 DEF Protected
  <2>m. r \in Nat /\ RenewAfter(r) \in Nat /\ r > RenewAfter(r) + Reserve
    BY LifetimeMargin
  <2>1. PoolTypeOK'
    BY <1>4, <2>r, <2>m DEF PoolTypeOK, RequestInv, Protected
  <2>2. GuardedInv'
    BY <1>4, <2>r, <2>m DEF GuardedInv, PoolTypeOK, Waiting, Protected
  <2>3. MarginInv'
    BY <1>4, <2>r, <2>m DEF MarginInv, GuardedInv, PoolTypeOK, Waiting, Reserve, Protected
  <2>4. RequestInv'
    BY <1>4, <2>r, <2>m DEF RequestInv, PoolTypeOK, Protected
  <2> QED
    BY <2>1, <2>2, <2>3, <2>4
<1>5. CASE ProtectFails
  <2>r. left' \in Nat /\ (left' = left \/ left' > Reserve)
    BY <1>5, LifetimeMargin DEF ProtectFails, PoolTypeOK, Reserve
  <2>1. PoolTypeOK'
    BY <1>5, <2>r DEF PoolTypeOK, RequestInv, ProtectFails, Break
  <2>2. GuardedInv'
    BY <1>5, <2>r DEF GuardedInv, PoolTypeOK, Waiting, ProtectFails, Break
  <2>3. MarginInv'
    <3>1. phase = "protect" /\ phase' = "drain" /\ clock' = 0 /\ running' = running
      BY <1>5 DEF ProtectFails, Break
    <3>2. Cloud /\ running > 0 => left > GracePeriod
      BY <3>1 DEF MarginInv, GuardedInv, PoolTypeOK, Reserve
    <3>3. Cloud /\ running > 0 => left' > GracePeriod
      BY <2>r, <3>2 DEF Reserve
    <3>4. phase' \notin Waiting \cup {"protect", "abort"}
      BY <3>1 DEF Waiting
    <3>5. SUFFICES ASSUME Cloud, running > 0
                   PROVE  clock' <= GracePeriod /\ left' + clock' > GracePeriod
      BY <3>1, <3>4 DEF MarginInv
    <3>6. left' \in Nat /\ clock' \in Nat /\ GracePeriod \in Nat
      BY <2>r, <3>1
    <3>7. left' > GracePeriod /\ clock' = 0
      BY <3>1, <3>3, <3>5
    <3> QED
      BY <3>6, <3>7, FreshClock
  <2>4. RequestInv'
    BY <1>5, <2>r DEF RequestInv, PoolTypeOK, ProtectFails, Break
  <2> QED
    BY <2>1, <2>2, <2>3, <2>4
<1>6. CASE Unprotect
  <2>1. PoolTypeOK'
    <3>1. left' \in Nat /\ clock' \in Nat /\ running' \in 0..MaxConcurrency
          /\ renew' \in Nat /\ phase' \in {"pause", "drain"} /\ resume' = resume
          /\ request' \in {request, "none"} /\ shutdown' = shutdown
      BY <1>6 DEF PoolTypeOK, Unprotect, Break
    <3>2. protected' \in BOOLEAN /\ failed' \in BOOLEAN
      BY <1>6, Zenon DEF PoolTypeOK, Unprotect, Break
    <3> QED
      BY <3>1, <3>2 DEF PoolTypeOK
  <2>2. GuardedInv'
    BY <1>6 DEF GuardedInv, PoolTypeOK, Waiting, Unprotect, Break
  <2>3. MarginInv'
    BY <1>6 DEF MarginInv, GuardedInv, PoolTypeOK, Waiting, Reserve, Unprotect, Break
  <2>4. RequestInv'
    BY <1>6 DEF RequestInv, PoolTypeOK, Unprotect, Break
  <2> QED
    BY <2>1, <2>2, <2>3, <2>4
<1>7. CASE PauseEnds
  <2>1. PoolTypeOK'
    BY <1>7 DEF PoolTypeOK, RequestInv, PauseEnds
  <2>2. GuardedInv'
    BY <1>7 DEF GuardedInv, PoolTypeOK, Waiting, PauseEnds
  <2>3. MarginInv'
    BY <1>7 DEF MarginInv, GuardedInv, PoolTypeOK, Waiting, Reserve, PauseEnds
  <2>4. RequestInv'
    BY <1>7 DEF RequestInv, PoolTypeOK, PauseEnds
  <2> QED
    BY <2>1, <2>2, <2>3, <2>4
<1>8. CASE GraceEnds
  <2>1. PoolTypeOK'
    BY <1>8 DEF PoolTypeOK, RequestInv, GraceEnds
  <2>2. GuardedInv'
    BY <1>8 DEF GuardedInv, PoolTypeOK, Waiting, GraceEnds
  <2>3. MarginInv'
    BY <1>8 DEF MarginInv, GuardedInv, PoolTypeOK, Waiting, Reserve, GraceEnds
  <2>4. RequestInv'
    BY <1>8 DEF RequestInv, PoolTypeOK, GraceEnds
  <2> QED
    BY <2>1, <2>2, <2>3, <2>4
<1>9. CASE Drained
  <2>1. PoolTypeOK'
    BY <1>9 DEF PoolTypeOK, RequestInv, Drained
  <2>2. GuardedInv'
    BY <1>9 DEF GuardedInv, PoolTypeOK, Waiting, Drained
  <2>3. MarginInv'
    BY <1>9 DEF MarginInv, GuardedInv, PoolTypeOK, Waiting, Reserve, Drained
  <2>4. RequestInv'
    BY <1>9 DEF RequestInv, PoolTypeOK, Drained
  <2> QED
    BY <2>1, <2>2, <2>3, <2>4
<1>10. CASE Leave
  <2>1. PoolTypeOK'
    BY <1>10 DEF PoolTypeOK, RequestInv, Leave
  <2>2. GuardedInv'
    BY <1>10 DEF GuardedInv, PoolTypeOK, Waiting, Leave
  <2>3. MarginInv'
    BY <1>10 DEF MarginInv, GuardedInv, PoolTypeOK, Waiting, Reserve, Leave
  <2>4. RequestInv'
    BY <1>10 DEF RequestInv, PoolTypeOK, Leave
  <2> QED
    BY <2>1, <2>2, <2>3, <2>4
<1>11. CASE Second
  <2>1. PoolTypeOK'
    BY <1>11 DEF PoolTypeOK, RequestInv, Second, Due, Less, Counting
  <2>2. GuardedInv'
    BY <1>11 DEF GuardedInv, PoolTypeOK, Waiting, Second, Due, Less, Counting
  <2>3. MarginInv'
    BY <1>11 DEF MarginInv, GuardedInv, PoolTypeOK, Waiting, Reserve, Second, Due, Less, Counting
  <2>4. RequestInv'
    BY <1>11 DEF RequestInv, PoolTypeOK, Second, Due, Less, Counting
  <2> QED
    BY <2>1, <2>2, <2>3, <2>4
<1>12. ASSUME NEW error \in BOOLEAN, TaskEnds(error) PROVE PoolInv'
  <2>1. PoolTypeOK'
    BY <1>12 DEF PoolTypeOK, RequestInv, TaskEnds, Reaped, Break
  <2>2. GuardedInv'
    BY <1>12 DEF GuardedInv, PoolTypeOK, Waiting, TaskEnds, Reaped, Break
  <2>3. MarginInv'
    BY <1>12 DEF MarginInv, GuardedInv, PoolTypeOK, Waiting, Reserve, TaskEnds, Reaped, Break
  <2>4. RequestInv'
    BY <1>12 DEF RequestInv, PoolTypeOK, TaskEnds, Reaped, Break
  <2> QED
    BY <2>1, <2>2, <2>3, <2>4
<1>13. ASSUME NEW error \in BOOLEAN, EmptyReceive(error) PROVE PoolInv'
  <2>1. PoolTypeOK'
    BY <1>13 DEF PoolTypeOK, RequestInv, EmptyReceive, Break
  <2>2. GuardedInv'
    BY <1>13 DEF GuardedInv, PoolTypeOK, Waiting, EmptyReceive, Break
  <2>3. MarginInv'
    BY <1>13 DEF MarginInv, GuardedInv, PoolTypeOK, Waiting, Reserve, EmptyReceive, Break
  <2>4. RequestInv'
    BY <1>13 DEF RequestInv, PoolTypeOK, EmptyReceive, Break
  <2> QED
    BY <2>1, <2>2, <2>3, <2>4
<1>14. ASSUME NEW error \in BOOLEAN, DrainOne(error) PROVE PoolInv'
  <2>1. PoolTypeOK'
    BY <1>14 DEF PoolTypeOK, RequestInv, DrainOne
  <2>2. GuardedInv'
    BY <1>14 DEF GuardedInv, PoolTypeOK, Waiting, DrainOne
  <2>3. MarginInv'
    BY <1>14 DEF MarginInv, GuardedInv, PoolTypeOK, Waiting, Reserve, DrainOne
  <2>4. RequestInv'
    BY <1>14 DEF RequestInv, PoolTypeOK, DrainOne
  <2> QED
    BY <2>1, <2>2, <2>3, <2>4
<1>15. CASE CountReceive
  <2>1. PoolTypeOK'
    BY <1>15 DEF PoolTypeOK, RequestInv, CountReceive
  <2>2. GuardedInv'
    BY <1>15 DEF GuardedInv, PoolTypeOK, Waiting, CountReceive
  <2>3. MarginInv'
    BY <1>15 DEF MarginInv, GuardedInv, PoolTypeOK, Waiting, Reserve, CountReceive
  <2>4. RequestInv'
    BY <1>15 DEF RequestInv, PoolTypeOK, CountReceive
  <2> QED
    BY <2>1, <2>2, <2>3, <2>4
<1>16. CASE Dispatch
  <2>1. PoolTypeOK'
    BY <1>16 DEF PoolTypeOK, RequestInv, Dispatch
  <2>2. GuardedInv'
    BY <1>16 DEF GuardedInv, PoolTypeOK, Waiting, Dispatch
  <2>3. MarginInv'
    BY <1>16 DEF MarginInv, GuardedInv, PoolTypeOK, Waiting, Reserve, Dispatch
  <2>4. RequestInv'
    BY <1>16 DEF RequestInv, PoolTypeOK, Dispatch
  <2> QED
    BY <2>1, <2>2, <2>3, <2>4
<1>17. CASE ReceiveFails
  <2>1. PoolTypeOK'
    BY <1>17 DEF PoolTypeOK, RequestInv, ReceiveFails, Break
  <2>2. GuardedInv'
    BY <1>17 DEF GuardedInv, PoolTypeOK, Waiting, ReceiveFails, Break
  <2>3. MarginInv'
    BY <1>17 DEF MarginInv, GuardedInv, PoolTypeOK, Waiting, Reserve, ReceiveFails, Break
  <2>4. RequestInv'
    BY <1>17 DEF RequestInv, PoolTypeOK, ReceiveFails, Break
  <2> QED
    BY <2>1, <2>2, <2>3, <2>4
<1>18. CASE RequestShutdown
  <2>1. PoolTypeOK'
    BY <1>18 DEF PoolTypeOK, RequestInv, RequestShutdown
  <2>2. GuardedInv'
    BY <1>18 DEF GuardedInv, PoolTypeOK, Waiting, RequestShutdown
  <2>3. MarginInv'
    BY <1>18 DEF MarginInv, GuardedInv, PoolTypeOK, Waiting, Reserve, RequestShutdown
  <2>4. RequestInv'
    BY <1>18 DEF RequestInv, PoolTypeOK, RequestShutdown
  <2> QED
    BY <2>1, <2>2, <2>3, <2>4
<1>19. CASE UNCHANGED poolVars
  BY <1>19 DEF poolVars, PoolTypeOK, GuardedInv, MarginInv, RequestInv, Waiting
<1> QED
  BY <1>1, <1>2, <1>3, <1>4, <1>5, <1>6, <1>7, <1>8, <1>9, <1>10, <1>11, <1>12, <1>13, <1>14, <1>15, <1>16, <1>17, <1>18, <1>19 DEF PoolNext, LoopStep

\* The inductive invariant holds throughout.
THEOREM PoolInvariant == PoolSpec => []PoolInv
PROOF
<1>1. PoolInit => PoolInv
  BY PoolInitial
<1>2. PoolInv /\ [PoolNext]_poolVars => PoolInv'
  BY PoolInductive
<1> QED
  BY <1>1, <1>2, PTL DEF PoolSpec

-----------------------------------------------------------------------------
(* What a reader wants to know.                                            *)

\* The state of the loop stays within its types: in particular, never more
\* message tasks than MaxConcurrency.
THEOREM PoolTypes == PoolSpec => []PoolTypeOK
PROOF
<1>1. PoolInv => PoolTypeOK
  BY DEF PoolInv
<1> QED
  BY <1>1, PoolInvariant, PTL

\* The protection outlives the message tasks, for every lifetime the agent
\* confirms and every time constants with enough reserve.
THEOREM ProtectionOutlivesTasks == PoolSpec => []TasksProtected
PROOF
<1>1. PoolInv => TasksProtected
  BY PoolAssumption
     DEF PoolInv, PoolTypeOK, GuardedInv, MarginInv, Waiting, Reserve, TasksProtected
<1> QED
  BY <1>1, PoolInvariant, PTL

\* No request is sent without a place for the message it may bring.
THEOREM RequestsHavePlace == PoolSpec => []PlaceForRequest
PROOF
<1>1. PoolInv => PlaceForRequest
  BY DEF PoolInv, RequestInv, PlaceForRequest
<1> QED
  BY <1>1, PoolInvariant, PTL

\* Only a stop of the process drops a receive that SQS has counted.
THEOREM CountedReceivesSurvive == PoolSpec => CountedNotDropped
PROOF
<1>1. PoolInv /\ [PoolNext]_poolVars =>
        [request = "counted" /\ request' = "none"
           => running' = running + 1 \/ phase' = "drain"]_poolVars
  <2> SUFFICES ASSUME PoolInv, PoolNext, request = "counted", request' = "none"
               PROVE  running' = running + 1 \/ phase' = "drain"
    OBVIOUS
  <2> QED
    BY DEF PoolNext, LoopStep, PoolInv, PoolTypeOK, RequestInv, Top, NoticeShutdown,
           BeginProtect, Protected, ProtectFails, Unprotect, PauseEnds, GraceEnds,
           Drained, Leave, Second, TaskEnds, Reaped, EmptyReceive, DrainOne,
           CountReceive, Dispatch, ReceiveFails, RequestShutdown, Break
<1> QED
  BY <1>1, PoolInvariant, PTL DEF PoolSpec, CountedNotDropped

-----------------------------------------------------------------------------
(* The process around the loop.                                            *)

Configured == StartStages \ {"config"}

\* Every stage after the first has settings the configuration accepts.
SettingsInv ==
  /\ stage \in StartStages => env \in Environments
  /\ stage \in Configured => ConfigAccepted(env)
  /\ SettingsRefusedFirst

\* Until the process has started, its loop has not been touched.
StartInv ==
  stage \in StartStages =>
    /\ phase = "top" /\ running = 0 /\ request = "none"
    /\ ~early /\ ~supervised

\* A loop whose connection was over before it was polled first is not polled
\* before it has been told to stop: it goes straight to its drain.
BlindInv ==
  /\ supervised => shutdown
  /\ early =>
       /\ connection = "stopped" /\ running = 0 /\ request = "none"
       /\ phase \in {"top", "drain", "leave", "done"}
       /\ ~supervised => phase = "top"

\* A drained loop has no task, and only a drained loop is returned from.
ReturnInv ==
  /\ phase \in {"leave", "done"} => running = 0
  /\ stage # "exited" => exit.why = "running"
  /\ NoTaskLeftBehind

ProcessInv ==
  PoolInv /\ ProcessTypeOK /\ SettingsInv /\ StartInv /\ BlindInv /\ ReturnInv

\* Whatever the process does to the loop is a step of the loop: to stop it
\* again changes nothing.
LEMMA ProcessPoolStep ==
  ASSUME shutdown \in BOOLEAN, [ProcessNext]_allVars
  PROVE  [PoolNext]_poolVars
PROOF
<1>1. CASE PoolStep
  BY <1>1 DEF PoolStep, PoolNext
<1>2. CASE Supervise
  <2>1. StopPool
    BY <1>2 DEF Supervise
  <2>2. CASE shutdown
    BY <2>1, <2>2 DEF StopPool, poolVars
  <2>3. CASE ~shutdown
    BY <2>1, <2>3 DEF StopPool, RequestShutdown, PoolNext
  <2> QED
    BY <2>2, <2>3
<1>3. CASE Signalled
  BY <1>3 DEF Signalled, PoolNext
<1>4. CASE StartStep \/ ReturnFromPool \/ InstallHandler \/ Killed \/ ConnectionStops
  BY <1>4 DEF StartStep, Configure, OpenQueues, ConnectDatabase, OpenStorage,
              MakeHeartbeat, MakeProcessor, AttachOrchestration, StartPool,
              ReturnFromPool, InstallHandler, Killed, ConnectionStops, Rest
<1>5. CASE UNCHANGED allVars
  BY <1>5 DEF allVars
<1> QED
  BY <1>1, <1>2, <1>3, <1>4, <1>5 DEF ProcessNext

\* The constructors after the configuration repeat bounds it has checked.
LEMMA AcceptedOnce ==
  ASSUME NEW e \in Environments, ConfigAccepted(e)
  PROVE  /\ HeartbeatSettingsOK(e) /\ RetrySettingsOK(e)
         /\ e.mode = "ecs" => AgentOK(e)
PROOF
<1>1. /\ e.interval \in Nat /\ e.visibility \in Nat /\ e.lease \in Nat
      /\ e.delay \in Nat /\ e.attempts \in Nat
  BY EnvironmentAssumption
<1>2. e.interval > 0 /\ e.visibility > 0 /\ e.lease > 0 /\ e.delay > 0 /\ e.attempts > 0
  BY DEF ConfigAccepted, Positive
<1>3. HeartbeatSettingsOK(e)
  BY <1>2 DEF ConfigAccepted, IntervalsOK, HeartbeatSettingsOK
<1>4. RetrySettingsOK(e)
  <2>1. e.attempts <= 10 /\ e.delay <= MaxSeconds
    BY DEF ConfigAccepted, RetriesOK
  <2>2. e.attempts \in 1..10
    BY <1>1, <1>2, <2>1
  <2>3. MaxSeconds \in Nat
    BY DEF MaxSeconds
  <2>4. e.delay \in 1..MaxSeconds
    BY <1>1, <1>2, <2>1, <2>3
  <2> QED
    BY <2>2, <2>4 DEF RetrySettingsOK
<1>5. e.mode = "ecs" => AgentOK(e)
  BY Zenon DEF ConfigAccepted
<1> QED
  BY <1>3, <1>4, <1>5

\* The process starts with a loop that has not run.
LEMMA ProcessInitial == ProcessInit => ProcessInv
PROOF
<1> SUFFICES ASSUME ProcessInit PROVE ProcessInv
  OBVIOUS
<1>1. PoolInv
  BY PoolInitial DEF ProcessInit
<1>2. ProcessTypeOK
  BY <1>1 DEF ProcessInit, ProcessTypeOK, PoolInv, StartStages, Ended
<1>3. SettingsInv /\ StartInv /\ BlindInv /\ ReturnInv
  BY DEF ProcessInit, PoolInit, SettingsInv, StartInv, BlindInv, ReturnInv, Configured,
         StartStages, SettingsRefusedFirst, NoTaskLeftBehind, Ended
<1> QED
  BY <1>1, <1>2, <1>3 DEF ProcessInv

\* The steps of start-up keep the invariant: only a refused configuration, the
\* database and the state machine end it.
LEMMA StartInductive ==
  ASSUME ProcessInv, StartStep, PoolInv'
  PROVE  ProcessInv'
PROOF
<1> USE DEF ProcessInv
<1>u. /\ UNCHANGED poolVars /\ handler' = handler /\ supervised' = supervised
      /\ stage \in StartStages
  BY DEF StartStep, Configure, OpenQueues, ConnectDatabase, OpenStorage, MakeHeartbeat,
         MakeProcessor, AttachOrchestration, StartPool, Rest, StartStages
<1>e. env \in Environments
  BY <1>u DEF SettingsInv
<1>1. ProcessTypeOK'
  <2>1. stage' \in StartStages \cup {"pool", "exited"} /\ env' \in Environments \cup {NoSettings}
    BY <1>e DEF StartStep, Configure, OpenQueues, ConnectDatabase, OpenStorage,
         MakeHeartbeat, MakeProcessor, AttachOrchestration, StartPool, Rest, StartStages,
         Exit, Proceed
  <2>2. /\ connection' \in {"none", "open", "stopped"}
        /\ handler' \in BOOLEAN /\ supervised' \in BOOLEAN
    BY <1>u DEF ProcessTypeOK, StartStep, Configure, OpenQueues, ConnectDatabase,
         OpenStorage, MakeHeartbeat, MakeProcessor, AttachOrchestration, StartPool, Rest
  <2>3. early' \in BOOLEAN
    BY <1>u DEF ProcessTypeOK, StartStep, Configure, OpenQueues, ConnectDatabase,
         OpenStorage, MakeHeartbeat, MakeProcessor, AttachOrchestration, StartPool, Rest
  <2>4. exit' \in [code: {0, 1, 143}, why: StartStages \cup {"running", "signal", "handler",
                                                          "agent", "connection", "pool"}]
    BY DEF ProcessTypeOK, StartStep, Configure, OpenQueues, ConnectDatabase,
         OpenStorage, MakeHeartbeat, MakeProcessor, AttachOrchestration, StartPool, Rest,
         Exit, Proceed, Ended, StartStages
  <2> QED
    BY <2>1, <2>2, <2>3, <2>4 DEF ProcessTypeOK, PoolInv
<1>2. SettingsInv'
  <2>1. CASE Configure
    BY <1>e, <2>1 DEF Configure, Exit, Proceed, Ended, SettingsInv, SettingsRefusedFirst,
       Configured, StartStages
  <2>2. CASE OpenQueues \/ OpenStorage
    BY <1>e, <2>2 DEF OpenQueues, OpenStorage, Proceed, SettingsInv, SettingsRefusedFirst,
       Configured, StartStages
  <2>3. CASE ConnectDatabase
    BY <1>e, <2>3 DEF ConnectDatabase, Exit, Proceed, Ended, SettingsInv,
       SettingsRefusedFirst, Configured, StartStages
  <2>4. CASE MakeHeartbeat \/ MakeProcessor
    <3>1. HeartbeatSettingsOK(env) /\ RetrySettingsOK(env)
      BY <1>e, <2>4, AcceptedOnce DEF MakeHeartbeat, MakeProcessor, SettingsInv, Configured,
         StartStages
    <3> QED
      BY <1>e, <2>4, <3>1 DEF MakeHeartbeat, MakeProcessor, Proceed, SettingsInv,
         SettingsRefusedFirst, Configured, StartStages
  <2>5. CASE AttachOrchestration
    BY <1>e, <2>5 DEF AttachOrchestration, Exit, Proceed, Ended, SettingsInv,
       SettingsRefusedFirst, Configured, StartStages
  <2>6. CASE StartPool
    <3>1. ~(Cloud /\ ~AgentOK(env))
      BY <1>e, <2>6, AcceptedOnce DEF StartPool, PoolMode, SettingsInv, Configured,
         StartStages
    <3> QED
      BY <2>6, <3>1 DEF StartPool, SettingsInv, SettingsRefusedFirst, Configured,
         StartStages
  <2> QED
    BY <2>1, <2>2, <2>3, <2>4, <2>5, <2>6 DEF StartStep
<1>3. StartInv'
  BY <1>u DEF StartInv, poolVars, StartStep, Configure, OpenQueues, ConnectDatabase,
     OpenStorage, MakeHeartbeat, MakeProcessor, AttachOrchestration, StartPool, Rest,
     StartStages
<1>4. BlindInv'
  <2>1. phase' = "top" /\ running' = 0 /\ request' = "none" /\ ~supervised'
    BY <1>u DEF StartInv, poolVars
  <2>2. early' => connection' = "stopped"
    BY <1>u DEF StartInv, StartStep, Configure, OpenQueues, ConnectDatabase,
       OpenStorage, MakeHeartbeat, MakeProcessor, AttachOrchestration, StartPool, Rest
  <2> QED
    BY <2>1, <2>2 DEF BlindInv
<1>5. ReturnInv'
  <2>1. phase' = "top"
    BY <1>u DEF StartInv, poolVars
  <2>2. /\ stage' # "exited" => exit' = exit
        /\ exit'.why \notin {"pool", "connection"}
    BY <1>u DEF ReturnInv, StartStages, StartStep, Configure, OpenQueues, ConnectDatabase,
       OpenStorage, MakeHeartbeat, MakeProcessor, AttachOrchestration, StartPool, Rest,
       Exit, Proceed, Ended
  <2> QED
    BY <1>u, <2>1, <2>2 DEF ReturnInv, NoTaskLeftBehind, StartStages
<1> QED
  BY <1>1, <1>2, <1>3, <1>4, <1>5

\* A loop that is not polled before the connection neither asks for a message
\* nor has a task.
LEMMA PoolStepInductive ==
  ASSUME ProcessInv, PoolStep, PoolInv'
  PROVE  ProcessInv'
PROOF
<1> USE DEF ProcessInv
<1>u. stage = "pool" /\ UNCHANGED processVars
  BY DEF PoolStep
<1>1. ProcessTypeOK'
  BY <1>u DEF ProcessTypeOK, PoolInv, processVars
<1>2. SettingsInv' /\ StartInv'
  BY <1>u DEF SettingsInv, SettingsRefusedFirst, StartInv, processVars, Configured,
     StartStages
<1>3. BlindInv'
  <2>1. shutdown' = shutdown
    BY DEF PoolStep, LoopStep, Top, NoticeShutdown, BeginProtect, Protected, ProtectFails,
       Unprotect, PauseEnds, GraceEnds, Drained, Leave, Second, TaskEnds, Reaped,
       EmptyReceive, DrainOne, CountReceive, Dispatch, ReceiveFails, Break
  <2>2. ASSUME early PROVE /\ running' = 0 /\ request' = "none"
                           /\ phase' \in {"top", "drain", "leave", "done"}
                           /\ ~supervised => phase' = "top"
    <3>1. CASE Polled /\ LoopStep
      <4>1. supervised /\ shutdown
        BY <2>2, <3>1 DEF Polled, BlindInv
      <4>2. /\ running = 0 /\ request = "none"
            /\ phase \in {"top", "drain", "leave", "done"}
        BY <2>2 DEF BlindInv
      <4>3. CASE NoticeShutdown
        BY <4>1, <4>2, <4>3 DEF NoticeShutdown, Break
      <4>4. CASE Drained \/ Leave
        BY <4>1, <4>2, <4>4 DEF Drained, Leave
      <4>5. ~Top /\ ~BeginProtect /\ ~Protected /\ ~ProtectFails /\ ~Unprotect
            /\ ~PauseEnds /\ ~GraceEnds
        <5>1. ~Top /\ ~BeginProtect
          BY <4>1 DEF Top, BeginProtect
        <5>2. phase \notin {"protect", "unprotect", "pause"}
          BY <4>2
        <5>3. ~(running > 0)
          BY <4>2
        <5> QED
          BY <5>1, <5>2, <5>3, Zenon DEF Protected, ProtectFails, Unprotect, PauseEnds,
             GraceEnds
      <4> QED
        BY <3>1, <4>1, <4>3, <4>4, <4>5 DEF LoopStep
    <3>2. CASE Second
      BY <2>2, <3>2 DEF Second, BlindInv
    <3>3. CASE \E error \in BOOLEAN : TaskEnds(error) \/ EmptyReceive(error) \/ DrainOne(error)
      BY <2>2, <3>3 DEF BlindInv, TaskEnds, Reaped, EmptyReceive, DrainOne
    <3>4. CASE Dispatch \/ ReceiveFails \/ CountReceive
      BY <2>2, <3>4 DEF BlindInv, Dispatch, ReceiveFails, CountReceive
    <3> QED
      BY <3>1, <3>2, <3>3, <3>4 DEF PoolStep
  <2> QED
    BY <1>u, <2>1, <2>2 DEF BlindInv, processVars
<1>4. ReturnInv'
  <2>1. phase' \in {"leave", "done"} => running' = 0
    BY DEF ReturnInv, PoolInv, PoolTypeOK, PoolStep, LoopStep, Top, NoticeShutdown,
       BeginProtect, Protected, ProtectFails, Unprotect, PauseEnds, GraceEnds, Drained,
       Leave, Second, TaskEnds, Reaped, EmptyReceive, DrainOne, CountReceive, Dispatch,
       ReceiveFails, Break
  <2> QED
    BY <1>u, <2>1 DEF ReturnInv, NoTaskLeftBehind, processVars
<1> QED
  BY <1>1, <1>2, <1>3, <1>4

\* The end of the connection, the signals and the return from the loop.
LEMMA EndingInductive ==
  ASSUME ProcessInv, PoolInv',
         Supervise \/ ReturnFromPool \/ InstallHandler \/ Killed \/ Signalled
           \/ ConnectionStops
  PROVE  ProcessInv'
PROOF
<1> USE DEF ProcessInv
<1>1. CASE Supervise
  <2>1. ProcessTypeOK'
    BY <1>1 DEF Supervise, ProcessTypeOK, PoolInv
  <2>2. SettingsInv' /\ StartInv'
    BY <1>1 DEF Supervise, SettingsInv, SettingsRefusedFirst, StartInv, Configured,
       StartStages
  <2>3. BlindInv' /\ ReturnInv'
    BY <1>1 DEF Supervise, StopPool, BlindInv, ReturnInv, NoTaskLeftBehind
  <2> QED
    BY <2>1, <2>2, <2>3
<1>2. CASE ReturnFromPool
  <2>1. request = "none" /\ running = 0
    BY <1>2 DEF ReturnFromPool, PoolOver, PoolInv, RequestInv, ReturnInv
  <2>2. ProcessTypeOK'
    BY <1>2 DEF ReturnFromPool, Rest, Exit, Ended, ProcessTypeOK, PoolInv
  <2>3. SettingsInv' /\ StartInv'
    BY <1>2 DEF ReturnFromPool, Rest, Exit, Ended, SettingsInv, SettingsRefusedFirst,
       StartInv, Configured, StartStages
  <2>4. BlindInv'
    BY <1>2 DEF ReturnFromPool, Rest, poolVars, BlindInv
  <2>5. ReturnInv'
    <3>1. CASE supervised
      BY <1>2, <2>1, <3>1 DEF ReturnFromPool, Rest, Exit, Ended, poolVars, ReturnInv,
         NoTaskLeftBehind
    <3>2. CASE ~supervised /\ failed
      BY <1>2, <2>1, <3>2 DEF ReturnFromPool, Rest, Exit, Ended, poolVars, ReturnInv,
         NoTaskLeftBehind
    <3>3. CASE ~supervised /\ ~failed
      BY <1>2, <2>1, <3>3 DEF ReturnFromPool, Rest, Exit, Ended, poolVars, ReturnInv,
         NoTaskLeftBehind
    <3> QED
      BY <3>1, <3>2, <3>3
  <2> QED
    BY <2>2, <2>3, <2>4, <2>5
<1>3. CASE InstallHandler \/ Killed
  <2>1. ProcessTypeOK'
    <3>1. CASE InstallHandler
      <4>1. handler' \in BOOLEAN /\ early' \in BOOLEAN /\ supervised' \in BOOLEAN
        BY <3>1, Zenon DEF InstallHandler, ProcessTypeOK
      <4>2. /\ env' \in Environments \cup {NoSettings}
            /\ stage' \in {"pool", "exited"} /\ connection' = connection
            /\ exit' \in {exit, Ended(1, "handler")}
        BY <3>1 DEF InstallHandler, Exit, ProcessTypeOK
      <4> QED
        BY <4>1, <4>2 DEF Ended, ProcessTypeOK, PoolInv
    <3>2. CASE Killed
      BY <3>2 DEF Killed, Rest, Exit, Ended, ProcessTypeOK, PoolInv
    <3> QED
      BY <1>3, <3>1, <3>2
  <2>2. SettingsInv' /\ StartInv'
    BY <1>3 DEF InstallHandler, Killed, Rest, Exit, Ended, SettingsInv,
       SettingsRefusedFirst, StartInv, Configured, StartStages
  <2>3. BlindInv'
    BY <1>3 DEF InstallHandler, Killed, Rest, poolVars, BlindInv
  <2>4. ReturnInv'
    BY <1>3 DEF InstallHandler, Killed, Rest, Exit, Ended, poolVars, ReturnInv,
       NoTaskLeftBehind, Alive
  <2> QED
    BY <2>1, <2>2, <2>3, <2>4
<1>4. CASE Signalled
  <2>1. ProcessTypeOK'
    BY <1>4 DEF Signalled, processVars, ProcessTypeOK, PoolInv
  <2>2. SettingsInv' /\ StartInv'
    BY <1>4 DEF Signalled, processVars, SettingsInv, SettingsRefusedFirst, StartInv,
       Configured, StartStages
  <2>3. BlindInv' /\ ReturnInv'
    BY <1>4 DEF Signalled, RequestShutdown, processVars, BlindInv, ReturnInv,
       NoTaskLeftBehind
  <2> QED
    BY <2>1, <2>2, <2>3
<1>5. CASE ConnectionStops
  <2>1. ProcessTypeOK'
    BY <1>5 DEF ConnectionStops, ProcessTypeOK, PoolInv
  <2>2. SettingsInv' /\ StartInv'
    BY <1>5 DEF ConnectionStops, poolVars, SettingsInv, SettingsRefusedFirst, StartInv,
       Configured, StartStages
  <2>3. BlindInv' /\ ReturnInv'
    BY <1>5 DEF ConnectionStops, poolVars, BlindInv, ReturnInv, NoTaskLeftBehind
  <2> QED
    BY <2>1, <2>2, <2>3
<1> QED
  BY <1>1, <1>2, <1>3, <1>4, <1>5

\* No step of the process leaves the invariant.
LEMMA ProcessInductive == ProcessInv /\ [ProcessNext]_allVars => ProcessInv'
PROOF
<1> SUFFICES ASSUME ProcessInv, [ProcessNext]_allVars PROVE ProcessInv'
  OBVIOUS
<1>1. [PoolNext]_poolVars
  BY ProcessPoolStep DEF ProcessInv, PoolInv, PoolTypeOK
<1>2. PoolInv'
  BY <1>1, PoolInductive DEF ProcessInv
<1>3. CASE UNCHANGED allVars
  BY <1>2, <1>3 DEF allVars, poolVars, processVars, ProcessInv, PoolInv, ProcessTypeOK,
     SettingsInv, SettingsRefusedFirst, StartInv, BlindInv, ReturnInv, NoTaskLeftBehind
<1> QED
  BY <1>2, <1>3, StartInductive, PoolStepInductive, EndingInductive DEF ProcessNext

\* The inductive invariant of the process holds throughout.
THEOREM ProcessInvariant == ProcessSpec => []ProcessInv
PROOF
<1> QED
  BY ProcessInitial, ProcessInductive, PTL DEF ProcessSpec

\* The process implements the loop: from its start to its exit, also when the
\* connection stops or a signal arrives, it does to the loop only what the loop
\* may do by itself.
THEOREM ProcessRunsPool == ProcessSpec => PoolSpec
PROOF
<1>1. ProcessInit => PoolInit
  BY DEF ProcessInit
<1>2. ProcessInv /\ [ProcessNext]_allVars => [PoolNext]_poolVars
  BY ProcessPoolStep DEF ProcessInv, PoolInv, PoolTypeOK
<1> QED
  BY <1>1, <1>2, ProcessInvariant, PTL DEF ProcessSpec, PoolSpec

\* The state of the process stays within its types.
THEOREM ProcessTypes == ProcessSpec => []ProcessTypeOK
PROOF
<1>1. ProcessInv => ProcessTypeOK
  BY DEF ProcessInv
<1> QED
  BY <1>1, ProcessInvariant, PTL

\* The protection outlives the message tasks of a process, however it ends.
THEOREM ProcessProtected == ProcessSpec => []TasksProtected
PROOF
<1> QED
  BY ProcessRunsPool, ProtectionOutlivesTasks, PTL

\* A process drops a receive that SQS has counted only to stop.
THEOREM ProcessKeepsCounted == ProcessSpec => CountedNotDropped
PROOF
<1> QED
  BY ProcessRunsPool, CountedReceivesSurvive, PTL

\* No setting is refused by a constructor after the configuration: a process
\* that has connected to the database does not end for one of them.
THEOREM SettingsChecked == ProcessSpec => []SettingsRefusedFirst
PROOF
<1>1. ProcessInv => SettingsRefusedFirst
  BY DEF ProcessInv, SettingsInv
<1> QED
  BY <1>1, ProcessInvariant, PTL

\* A process whose connection was over before its loop was polled never asks
\* the queue for a message.
THEOREM BlindProcessIdle == ProcessSpec => []NothingReceivedBlind
PROOF
<1>1. ProcessInv => NothingReceivedBlind
  BY DEF ProcessInv, BlindInv, NothingReceivedBlind
<1> QED
  BY <1>1, ProcessInvariant, PTL

\* main leaves the loop without a message task and without a receive, and its
\* exit code is 0 only after a clean end.
THEOREM ReturnsDrained == ProcessSpec => []NoTaskLeftBehind
PROOF
<1>1. ProcessInv => NoTaskLeftBehind
  BY DEF ProcessInv, ReturnInv
<1> QED
  BY <1>1, ProcessInvariant, PTL
=============================================================================
