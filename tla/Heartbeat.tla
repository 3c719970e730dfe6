----------------------------- MODULE Heartbeat ------------------------------
(***************************************************************************)
(* One delivery with several acquired records: its heartbeat, which keeps   *)
(* the leases of all of them and the visibility of the message, the attempts *)
(* that end one after the other beside it, and the last call to the queue.  *)
(*                                                                         *)
(* Times are ticks; what ends at some instant is kept as the ticks left     *)
(* until then, at the server (lease, visible) and in the process (local,    *)
(* deadline).  The watchdog is polled when its deadline comes, before time  *)
(* goes on; every other call takes up to `latency' ticks.  A call to the    *)
(* queue that its caller has dropped may take effect all the same.         *)
(*                                                                         *)
(* This is the cli mode, in which an attempt retires from the heartbeat     *)
(* under the mutex of its last statement.                                  *)
(***************************************************************************)
EXTENDS Naturals, FiniteSetsExt

CONSTANTS
  NRecords,     \* records acquired from the message
  Lease,        \* lease_duration
  Visibility,   \* visibility_extension
  Interval,     \* interval of the heartbeat
  RetryDelay,   \* retry_delay, a new visibility of the message
  Latencies     \* how long a call may take, one of them per behaviour

\* HeartbeatSettings::from_seconds
ASSUME HeartbeatAssumption ==
  /\ NRecords \in Nat \ {0} /\ RetryDelay \in Nat \ {0} /\ Latencies \subseteq Nat
  /\ Interval \in Nat \ {0}
  /\ Lease \in Nat /\ Interval <= Lease \div 2
  /\ Visibility \in Nat /\ Interval <= Visibility \div 2

VARIABLES
  latency,   \* the latency of this behaviour
  lease,     \* lease[i]: ticks the row of record i is still leased
  ended,     \* records whose row the delivery has ended
  visible,   \* ticks the message stays hidden
  stray,     \* calls to the queue whose caller is gone
  final,     \* the last call: "none", "delay" or "delete" have taken effect
  local,     \* local[i]: ticks to the local deadline of record i
  deadline,  \* ticks to the local visibility deadline
  active,    \* records the heartbeat still tracks
  lost,      \* ownership_lost, and why
  beat,      \* where the heartbeat is
  at,        \* the record it renews
  budget,    \* the deadline if the call under way succeeds
  due,       \* the cadence has ticked
  grid,      \* ticks to the next tick of the cadence
  main,      \* where the delivery is
  current,   \* the record it works on
  retry,     \* retry_delay is set
  mutex,     \* who holds the database
  spent      \* ticks spent in the present call of the heartbeat

heartbeatVars == <<latency, lease, ended, visible, stray, final, local, deadline,
                   active, lost, beat, at, budget, due, grid, main, current, retry,
                   mutex, spent>>

serverVars == <<lease, ended, visible, stray, final>>
beatVars == <<local, deadline, lost, beat, at, budget, due, grid, spent>>
mainVars == <<main, current, retry>>

Record == 1..NRecords

Longest == Max({Lease, Visibility, RetryDelay})

HeartbeatTypeOK ==
  /\ latency \in Latencies
  /\ lease \in [Record -> 0..Lease] /\ ended \subseteq Record
  /\ visible \in 0..Longest /\ stray \subseteq {"extend", "delay", "delete"}
  /\ final \in {"none", "delay", "delete"}
  /\ local \in [Record -> 0..Lease] /\ deadline \in 0..Visibility
  /\ active \subseteq Record
  /\ lost \in {"no", "lease", "database", "visibility", "leaseDeadline",
               "visibilityDeadline"}
  /\ beat \in {"wait", "lock", "renew", "extend", "over"}
  /\ at \in Record /\ budget \in 0..Longest
  /\ due \in BOOLEAN /\ grid \in 1..Interval
  /\ main \in {"work", "lock", "end", "settle", "update", "over"}
  /\ current \in 1..(NRecords + 1) /\ retry \in BOOLEAN
  /\ mutex \in {"free", "main", "heartbeat"}
  /\ spent \in 0..latency

HeartbeatInit ==
  /\ latency \in Latencies
  /\ lease = [i \in Record |-> Lease] /\ ended = {}
  /\ visible = Visibility /\ stray = {} /\ final = "none"
  /\ local = [i \in Record |-> Lease] /\ deadline = Visibility
  /\ active = Record /\ lost = "no"
  /\ beat = "wait" /\ at = 1 /\ budget = 0 /\ due = FALSE /\ grid = Interval
  /\ main = "work" /\ current = 1 /\ retry = FALSE
  /\ mutex = "free" /\ spent = 0

-----------------------------------------------------------------------------
(* Time.                                                                   *)

Less(n) == IF n > 0 THEN n - 1 ELSE 0

\* Faulty variant: a retired record is not taken out of the deadlines.
EarliestOfAll == Min({deadline} \cup {local[i] : i \in Record})

\* OwnershipDeadlines::earliest
Earliest == Min({deadline} \cup {local[i] : i \in active})

\* A revoked permission no longer waits for its deadline; the cadence skips
\* the ticks that come while one is due.
Tick ==
  /\ main # "over"
  /\ beat # "over" => Earliest > 0
  /\ beat \in {"lock", "renew", "extend"} => spent < latency
  /\ beat = "wait" => ~due
  /\ lease' = [i \in Record |-> Less(lease[i])]
  /\ visible' = Less(visible)
  /\ local' = [i \in Record |-> Less(local[i])]
  /\ deadline' = Less(deadline)
  /\ budget' = Less(budget)
  /\ due' = (due \/ grid = 1)
  /\ grid' = IF grid = 1 THEN Interval ELSE grid - 1
  /\ spent' = IF beat \in {"lock", "renew", "extend"} THEN spent + 1 ELSE spent
  /\ UNCHANGED <<latency, ended, stray, final, active, lost, beat, at, mutex>>
  /\ UNCHANGED mainVars

-----------------------------------------------------------------------------
(* The heartbeat task.                                                     *)

\* What a dropped call to the queue leaves behind.
LeaveStray(call, pending) ==
  \/ UNCHANGED stray
  \/ pending /\ stray' = stray \cup {call}

\* The loop ends: RevokeOnDrop, and the call under way is dropped.
Revoke(why) ==
  /\ lost' = why /\ beat' = "over"
  /\ mutex' = IF mutex = "heartbeat" THEN "free" ELSE mutex
  /\ LeaveStray("extend", beat = "extend")
  /\ budget' = 0 /\ spent' = 0 /\ due' = FALSE
  /\ UNCHANGED <<latency, lease, ended, visible, final, local, deadline, active,
                 at, grid>>
  /\ UNCHANGED mainVars

\* before_deadline: a lease is reported before the visibility.
Watchdog ==
  /\ beat # "over" /\ Earliest = 0
  /\ Revoke(IF \E i \in active : local[i] = 0 THEN "leaseDeadline"
            ELSE "visibilityDeadline")

\* The first record from i on that is active, or the queue after the last.
Following(i) ==
  LET rest == {k \in active : k >= i}
  IN IF rest = {} THEN [beat |-> "extend", at |-> 1, budget |-> Visibility]
     ELSE [beat |-> "lock", at |-> Min(rest), budget |-> Lease]

Continue(next) ==
  /\ beat' = next.beat /\ at' = next.at /\ budget' = next.budget /\ spent' = 0

BeginCycle ==
  /\ beat = "wait" /\ due /\ Earliest > 0
  /\ due' = FALSE
  /\ Continue(Following(1))
  /\ UNCHANGED <<latency, local, deadline, active, lost, grid, mutex>>
  /\ UNCHANGED serverVars /\ UNCHANGED mainVars

\* Faulty variant: the record is not looked at again under the mutex.
StillTrackedUnchecked(i) == TRUE

\* The attempt retires under this mutex, after its last statement.
StillTracked(i) == i \in active

\* A record that has retired meanwhile counts as renewed.
LockToRenew ==
  /\ beat = "lock" /\ mutex = "free" /\ Earliest > 0
  /\ IF StillTracked(at)
     THEN /\ mutex' = "heartbeat" /\ beat' = "renew"
          /\ UNCHANGED <<local, at, budget, spent>>
     ELSE /\ local' = [local EXCEPT ![at] = budget]
          /\ Continue(Following(at + 1))
          /\ UNCHANGED mutex
  /\ UNCHANGED <<latency, deadline, active, lost, due, grid>>
  /\ UNCHANGED serverVars /\ UNCHANGED mainVars

CanRenewRow(i) == lease[i] > 0 /\ i \notin ended

\* Faulty variant: the deadline is counted from the answer.
RenewedBudgetLate(n) == Lease

\* The deadline is counted from before the mutex was waited for.
RenewedBudget(n) == n

\* The statement is executed and answered.
Renewed ==
  /\ beat = "renew" /\ Earliest > 0 /\ CanRenewRow(at)
  /\ \E ago \in 0..spent : lease' = [lease EXCEPT ![at] = Max({@, Lease - ago})]
  /\ local' = [local EXCEPT ![at] = RenewedBudget(budget)]
  /\ mutex' = "free"
  /\ Continue(Following(at + 1))
  /\ UNCHANGED <<latency, ended, visible, stray, final, deadline, active, lost, due, grid>>
  /\ UNCHANGED mainVars

RenewalFails ==
  /\ beat = "renew" /\ Earliest > 0
  /\ Revoke("database") \/ (~CanRenewRow(at) /\ Revoke("lease"))

\* ChangeMessageVisibility is applied and answered.
Extended ==
  /\ beat = "extend" /\ Earliest > 0
  /\ \E ago \in 0..spent : visible' = Max({visible, Visibility - ago})
  /\ deadline' = budget
  /\ beat' = "wait" /\ budget' = 0 /\ spent' = 0
  /\ UNCHANGED <<latency, lease, ended, stray, final, local, active, lost, at, due, grid, mutex>>
  /\ UNCHANGED mainVars

ExtensionFails ==
  /\ beat = "extend" /\ Earliest > 0
  /\ Revoke("visibility")

-----------------------------------------------------------------------------
(* The delivery.                                                           *)

Keep == UNCHANGED <<latency, lease, visible, stray, final>> /\ UNCHANGED beatVars

\* The pipeline of the current record is over; the attempt wants to end.
PipelineOver ==
  /\ main = "work" /\ current <= NRecords /\ lost = "no"
  /\ main' = "lock"
  /\ UNCHANGED <<ended, active, current, retry, mutex>> /\ Keep

SendEnd ==
  /\ main = "lock" /\ mutex = "free" /\ lost = "no"
  /\ main' = "end" /\ mutex' = "main"
  /\ UNCHANGED <<ended, active, current, retry>> /\ Keep

\* The last statement applies: COMPLETED or FAILED, or released for a retry.
\* The attempt retires, then leaves the mutex.
Ended ==
  /\ main = "end" /\ lease[current] > 0
  /\ ended' = ended \cup {current} /\ active' = active \ {current}
  /\ retry' \in {retry, TRUE}
  /\ mutex' = "free"
  /\ main' = "work" /\ current' = current + 1
  /\ UNCHANGED <<latency, lease, visible, stray, final>> /\ UNCHANGED beatVars

\* The statement is refused or fails, in doubt: the delivery stops.
EndInDoubt ==
  /\ main = "end"
  /\ ended' \in {ended} \cup (IF lease[current] > 0 THEN {ended \cup {current}} ELSE {})
  /\ active' = active \ {current} /\ mutex' = "free"
  /\ retry' = FALSE /\ main' = "settle"
  /\ UNCHANGED current /\ Keep

\* lost.changed(), or the flag at a checkpoint: the attempt is dropped.
StopLost ==
  /\ main \in {"work", "lock", "end"} /\ lost # "no"
  /\ main' = "settle"
  /\ mutex' = IF mutex = "main" THEN "free" ELSE mutex
  /\ ended' \in {ended} \cup (IF main = "end" /\ lease[current] > 0
                               THEN {ended \cup {current}} ELSE {})
  /\ UNCHANGED <<active, current, retry>> /\ Keep

AllProcessed ==
  /\ main = "work" /\ current > NRecords
  /\ main' = "settle"
  /\ UNCHANGED <<ended, active, current, retry, mutex>> /\ Keep

\* Faulty variant: the heartbeat goes on.
JoinNobody == UNCHANGED <<beat, mutex, stray, budget, spent, due>>

\* cancel_and_join: the task is dropped out of its wait or its call.
Join ==
  /\ beat' = "over"
  /\ mutex' = IF mutex = "heartbeat" THEN "free" ELSE mutex
  /\ LeaveStray("extend", beat = "extend")
  /\ budget' = 0 /\ spent' = 0 /\ due' = FALSE

\* The last call is made while the heartbeat was well and the time is not up.
JoinHeartbeat ==
  /\ main = "settle"
  /\ Join
  /\ main' = IF lost = "no" /\ deadline > 0 THEN "update" ELSE "over"
  /\ UNCHANGED <<latency, lease, ended, visible, final, local, deadline, active,
                 lost, at, grid, current, retry>>

\* Delay, delete or nothing; the call may fail, and time out.
LastCall ==
  IF retry THEN "delay" ELSE IF ended = Record THEN "delete" ELSE "none"

Update ==
  /\ main = "update" /\ deadline > 0
  /\ main' = "over"
  /\ \/ /\ final' = LastCall
        /\ visible' = IF LastCall = "delay" THEN RetryDelay ELSE visible
        /\ UNCHANGED stray
     \/ /\ UNCHANGED <<final, visible>>
        /\ LeaveStray(LastCall, LastCall # "none")
  /\ UNCHANGED <<latency, lease, ended, active, current, retry, mutex>>
  /\ UNCHANGED beatVars

TooLate ==
  /\ main = "update" /\ deadline = 0
  /\ main' = "over"
  /\ UNCHANGED <<ended, active, current, retry, mutex>> /\ Keep

\* A dropped call reaches the queue.
StrayApplied ==
  \E call \in stray :
    /\ stray' = stray \ {call}
    /\ final # "delete"
    /\ visible' = IF call = "extend" THEN Visibility
                  ELSE IF call = "delay" THEN RetryDelay ELSE visible
    /\ final' = IF call = "extend" THEN final ELSE call
    /\ UNCHANGED <<latency, lease, ended, active, mutex>>
    /\ UNCHANGED beatVars /\ UNCHANGED mainVars

HeartbeatNext ==
  \/ Tick
  \/ Watchdog \/ BeginCycle \/ LockToRenew \/ Renewed \/ RenewalFails
  \/ Extended \/ ExtensionFails
  \/ PipelineOver \/ SendEnd \/ Ended \/ EndInDoubt \/ StopLost \/ AllProcessed
  \/ JoinHeartbeat \/ Update \/ TooLate
  \/ StrayApplied

HeartbeatSpec == HeartbeatInit /\ [][HeartbeatNext]_heartbeatVars

-----------------------------------------------------------------------------
(* Properties.                                                             *)

\* As long as the process believes in its ownership it has it: every record
\* it still tracks is leased, and the message hidden, at least as long as the
\* local deadlines say, whatever the calls take.
BeliefSound ==
  lost = "no" /\ main \in {"work", "lock", "end"} =>
    /\ \A i \in active : lease[i] >= local[i] /\ i \notin ended
    /\ visible >= deadline

\* An attempt that ends never costs the other records of the message their
\* ownership: no renewal is refused because its own delivery has ended the row.
EndCostsNobody == lost = "lease" => at \notin ended

\* Calls short enough for all renewals to fit between two beats and before
\* the deadlines.
Prompt ==
  /\ (NRecords + 1) * latency <= Interval
  /\ Interval + NRecords * latency < Lease
  /\ Interval + (NRecords + 1) * latency < Visibility

\* With prompt calls a delivery never runs into a deadline, however long its
\* records take and however often the cadence ticks.
PromptNeverLate ==
  Prompt => lost \notin {"leaseDeadline", "visibilityDeadline"}

\* "The heartbeat must be joined before applying the final delay; otherwise a
\* later renewal can overwrite the retry schedule": once the delay has taken
\* effect the process sends the queue nothing more, and the message is hidden
\* longer at most once, by the extension that was under way when the heartbeat
\* was joined, which the join drops but cannot call back.
RetryScheduleKept ==
  [][final = "delay" =>
       /\ stray' \subseteq stray
       /\ visible' > visible => "extend" \in stray /\ stray' = stray \ {"extend"}
    ]_heartbeatVars
=============================================================================
