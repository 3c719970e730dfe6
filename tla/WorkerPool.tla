----------------------------- MODULE WorkerPool -----------------------------
(***************************************************************************)
(* The receive loop of a worker process (run_protected): a bounded set of  *)
(* message tasks, one outstanding receive, and in the cloud the protection *)
(* of the ECS task, which has to outlive every message task.               *)
(*                                                                         *)
(* Times are whole seconds.  The loop is a single task that is polled when *)
(* something it waits for is ready: no second passes while a timer of the  *)
(* loop is due or between two awaits.                                      *)
(***************************************************************************)
EXTENDS Integers

CONSTANTS
  MaxConcurrency,  \* message tasks at a time
  Cloud,           \* protection.enabled()
  Lifetime,        \* remaining lifetimes ECS confirms
  MinLifetime,     \* the least lifetime that is accepted
  UpdateTimeout,   \* the time an update of the protection may take
  GracePeriod,     \* SHUTDOWN_GRACE_PERIOD
  IdlePause        \* the pause after an idle receive

ASSUME PoolAssumption ==
  /\ MaxConcurrency \in Nat \ {0}
  /\ Cloud \in BOOLEAN
  /\ MinLifetime \in Nat \ {0} /\ UpdateTimeout \in Nat \ {0}
  /\ GracePeriod \in Nat \ {0} /\ IdlePause \in Nat \ {0}
  /\ Lifetime \subseteq Nat /\ Lifetime # {}
  /\ \A r \in Lifetime : r >= MinLifetime

\* An update begins when half of the least lifetime is left and may take its
\* full time; then the tasks may take the grace period to stop.
ASSUME LifetimeAssumption ==
  MinLifetime - MinLifetime \div 2 > UpdateTimeout + GracePeriod

VARIABLES
  phase,      \* where the loop is
  resume,     \* where it goes on after a renewal of the protection
  running,    \* message tasks that have not ended
  request,    \* the receive request: none, sent, or counted by SQS
  shutdown,   \* the process was asked to stop
  failed,     \* result is an error
  protected,  \* the loop knows itself protected
  left,       \* seconds the protection still lasts
  renew,      \* seconds until renew_at
  clock       \* seconds spent in the present update, drain or pause

poolVars == <<phase, resume, running, request, shutdown, failed, protected,
              left, renew, clock>>

PoolTypeOK ==
  /\ phase \in {"top", "full", "receive", "protect", "unprotect", "pause",
                "drain", "abort", "leave", "done"}
  /\ resume \in {"top", "full", "receive"}
  /\ running \in 0..MaxConcurrency
  /\ request \in {"none", "sent", "counted"}
  /\ shutdown \in BOOLEAN /\ failed \in BOOLEAN /\ protected \in BOOLEAN
  /\ left \in Nat /\ renew \in Nat /\ clock \in Nat

PoolInit ==
  /\ phase = "top" /\ resume = "top"
  /\ running = 0 /\ request = "none"
  /\ shutdown = FALSE /\ failed = FALSE
  /\ protected = FALSE /\ left = 0 /\ renew = 0 /\ clock = 0

\* Leaving the loop drops the receive future, whatever it has become.
Break(error) ==
  /\ phase' = "drain" /\ clock' = 0 /\ request' = "none"
  /\ failed' = (failed \/ error)

-----------------------------------------------------------------------------
\* With a valid protection the loop waits for a free place, then receives.
Top ==
  /\ phase = "top" /\ ~shutdown
  /\ ~(Cloud /\ (~protected \/ renew = 0))
  /\ phase' = IF running >= MaxConcurrency THEN "full" ELSE "receive"
  /\ request' = IF running >= MaxConcurrency THEN "none" ELSE "sent"
  /\ UNCHANGED <<resume, running, shutdown, failed, protected, left, renew, clock>>

\* A shutdown is seen wherever the loop waits, except during a renewal that
\* has begun in one of its selects.
NoticeShutdown ==
  /\ shutdown
  /\ \/ phase \in {"top", "full", "receive", "pause"}
     \/ phase = "protect" /\ resume = "top"
  /\ Break(FALSE)
  /\ UNCHANGED <<resume, running, shutdown, protected, left, renew>>

BeginProtect ==
  /\ Cloud /\ ~shutdown
  /\ \/ phase = "top" /\ (~protected \/ renew = 0)
     \/ phase \in {"full", "receive"} /\ renew = 0
  /\ phase' = "protect" /\ resume' = phase /\ clock' = 0
  /\ UNCHANGED <<running, request, shutdown, failed, protected, left, renew>>

\* Faulty variant: the renewal waits for the end of the protection.
RenewAfterLast(r) == r

RenewAfter(r) == r \div 2

Protected ==
  /\ phase = "protect"
  /\ \E r \in Lifetime : left' = r /\ renew' = RenewAfter(r)
  /\ protected' = TRUE
  /\ phase' = resume
  /\ UNCHANGED <<resume, running, request, shutdown, failed, clock>>

\* Refused, unanswered, or granted with an answer that was not accepted.
ProtectFails ==
  /\ phase = "protect"
  /\ Break(TRUE)
  /\ left' \in {left} \cup Lifetime
  /\ UNCHANGED <<resume, running, shutdown, protected, renew>>

-----------------------------------------------------------------------------
(* Message tasks and the queue.                                            *)

Reaped(error) ==
  /\ phase \in {"full", "receive"} /\ running > 0
  /\ running' = running - 1
  /\ error => Break(TRUE)
  /\ ~error => UNCHANGED <<failed, clock>>
  /\ UNCHANGED <<resume, shutdown, protected, left, renew>>

\* Faulty variant: the loop starts over and drops the receive under way.
TaskEndsRestarting(error) ==
  Reaped(error) /\ (~error => phase' = "top" /\ request' = "none")

\* A task ends; an error or a panic of one ends the loop.  A receive under way
\* goes on: SQS may have counted it already.
TaskEnds(error) ==
  /\ Reaped(error)
  /\ ~error => /\ phase' = "receive"
               /\ request' = IF phase = "full" THEN "sent" ELSE request

CountReceive ==
  /\ request = "sent"
  /\ request' = "counted"
  /\ UNCHANGED <<phase, resume, running, shutdown, failed, protected, left, renew, clock>>

Dispatch ==
  /\ phase = "receive" /\ request = "counted"
  /\ running' = running + 1
  /\ request' = "none"
  /\ phase' = "top"
  /\ UNCHANGED <<resume, shutdown, failed, protected, left, renew, clock>>

\* No message: tasks that have ended are reaped, and an idle process gives
\* its protection up and pauses.
EmptyReceive(error) ==
  /\ phase = "receive" /\ request = "sent"
  /\ running' \in 0..running
  /\ error => running' < running /\ Break(TRUE)
  /\ ~error =>
       /\ request' = "none" /\ clock' = 0
       /\ phase' = IF Cloud /\ running' = 0 THEN "unprotect" ELSE "top"
       /\ UNCHANGED failed
  /\ UNCHANGED <<resume, shutdown, protected, left, renew>>

ReceiveFails ==
  /\ phase = "receive"
  /\ Break(TRUE)
  /\ UNCHANGED <<resume, running, shutdown, protected, left, renew>>

Unprotect ==
  /\ phase = "unprotect"
  /\ left' \in {0, left}
  /\ \/ left' = 0 /\ protected' = FALSE /\ phase' = "pause" /\ clock' = 0
        /\ UNCHANGED <<request, failed>>
     \/ Break(TRUE) /\ UNCHANGED protected
  /\ UNCHANGED <<resume, running, shutdown, renew>>

PauseEnds ==
  /\ phase = "pause" /\ clock >= IdlePause
  /\ phase' = "top"
  /\ UNCHANGED <<resume, running, request, shutdown, failed, protected, left, renew, clock>>

-----------------------------------------------------------------------------
(* Draining: the message tasks are asked to stop, then aborted.            *)

DrainOne(error) ==
  /\ phase \in {"drain", "abort"} /\ running > 0
  /\ running' = running - 1
  /\ failed' = (failed \/ error)
  /\ UNCHANGED <<phase, resume, request, shutdown, protected, left, renew, clock>>

\* Faulty variant: the grace period starts again.
GraceEndsNever ==
  /\ phase = "drain" /\ running > 0 /\ clock >= GracePeriod
  /\ clock' = 0
  /\ UNCHANGED <<phase, resume, running, request, shutdown, failed, protected, left, renew>>

GraceEnds ==
  /\ phase = "drain" /\ running > 0 /\ clock >= GracePeriod
  /\ phase' = "abort"
  /\ UNCHANGED <<resume, running, request, shutdown, failed, protected, left, renew, clock>>

Drained ==
  /\ phase \in {"drain", "abort"} /\ running = 0
  /\ phase' = IF protected THEN "leave" ELSE "done"
  /\ clock' = 0
  /\ UNCHANGED <<resume, running, request, shutdown, failed, protected, left, renew>>

Leave ==
  /\ phase = "leave"
  /\ phase' = "done"
  /\ left' \in {0, left}
  /\ failed' \in BOOLEAN /\ (failed \/ left' # 0 => failed')
  /\ UNCHANGED <<resume, running, request, shutdown, protected, renew, clock>>

RequestShutdown ==
  /\ ~shutdown
  /\ shutdown' = TRUE
  /\ UNCHANGED <<phase, resume, running, request, failed, protected, left, renew, clock>>

\* Something the loop waits for is ready, or it is between two awaits.
Due ==
  \/ phase \in {"top", "abort", "done"}
  \/ phase \in {"full", "receive", "pause"} /\ shutdown
  \/ phase \in {"full", "receive"} /\ Cloud /\ renew = 0
  \/ phase = "protect" /\ resume = "top" /\ shutdown
  \/ phase \in {"protect", "unprotect", "leave"} /\ clock >= UpdateTimeout
  \/ phase = "drain" /\ (running = 0 \/ clock >= GracePeriod)
  \/ phase = "pause" /\ clock >= IdlePause

Less(n) == IF n > 0 THEN n - 1 ELSE 0

Counting == phase \in {"protect", "unprotect", "leave", "drain", "pause"}

Second ==
  /\ ~Due
  /\ left' = Less(left) /\ renew' = Less(renew)
  /\ clock' = IF Counting THEN clock + 1 ELSE clock
  /\ UNCHANGED <<phase, resume, running, request, shutdown, failed, protected>>

LoopStep ==
  \/ Top \/ NoticeShutdown \/ BeginProtect \/ Protected \/ ProtectFails
  \/ Unprotect \/ PauseEnds \/ GraceEnds \/ Drained \/ Leave

PoolNext ==
  \/ LoopStep \/ Second
  \/ \E error \in BOOLEAN : TaskEnds(error) \/ EmptyReceive(error) \/ DrainOne(error)
  \/ CountReceive \/ Dispatch \/ ReceiveFails
  \/ RequestShutdown

PoolSpec == PoolInit /\ [][PoolNext]_poolVars

-----------------------------------------------------------------------------
(* Properties.                                                             *)

\* ECS never takes the process down under a message task: the protection lasts
\* through the latest renewal that fails and the whole drain after it.
TasksProtected == Cloud /\ running > 0 => left > 0

\* A place is free for every message that may still come from a request.
PlaceForRequest == request # "none" => running < MaxConcurrency

\* A message SQS has counted as received is handed to a task, unless the whole
\* process stops: no other event cancels the receive that carries it.
CountedNotDropped ==
  [][request = "counted" /\ request' = "none"
       => running' = running + 1 \/ phase' = "drain"]_poolVars
=============================================================================
