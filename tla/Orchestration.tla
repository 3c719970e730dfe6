--------------------------- MODULE Orchestration ---------------------------
(***************************************************************************)
(* Distributed attempts of one job.  For each attempt a coordinator        *)
(* (OrchestrationBridge::run) bounds the encoders that earlier attempts    *)
(* left behind, starts one execution named after the attempt, polls it and *)
(* hands it to the finalizer.  Step Functions, ECS and the finalizer's     *)
(* statement are the environment, seen through the calls of sfn.rs.        *)
(*                                                                         *)
(* A pc is a call the coordinator awaits.  Between two calls the code      *)
(* checks for a signal and for the deadline (the ...Head operators); these *)
(* checks belong to the step that ends the previous call.  wait_or_signal  *)
(* makes the same checks before and after it sleeps, so a pause is part of *)
(* the await that follows it.  Locals that have gone out of scope are      *)
(* reset, and what a coordinator returns is left out: the caller gives the *)
(* row back or has lost it, and either way the next attempt may begin.     *)
(***************************************************************************)
EXTENDS Naturals, FiniteSets

CONSTANTS
  Attempts,       \* the attempt limit: attempts are 1..Attempts
  Planned,        \* renditions every attempt encodes
  Cap,            \* MAX_ACTIVE_CHILD_ENCODERS
  StartTries,     \* START_RECOVERY_ATTEMPTS
  Confirmations,  \* NOT_FOUND_CONFIRMATIONS
  Misses,         \* times a describe may miss an execution that exists
  Foreign,        \* attempts whose execution name somebody else has taken
  LateStart,      \* a start may take effect after its caller has given it up
  LateRecord      \* an encoder may run before, or without, its ARN in the history

Attempt == 1..Attempts

ASSUME OrchestrationAssumption ==
  /\ Attempts \in Nat \ {0}
  /\ IsFiniteSet(Planned) /\ Planned # {}
  /\ Cap \in Nat /\ Cardinality(Planned) <= Cap
  /\ StartTries \in Nat \ {0}
  /\ Misses \in Nat /\ Confirmations \in Nat /\ Misses < Confirmations
  /\ Foreign \subseteq Attempt
  /\ LateStart \in BOOLEAN /\ LateRecord \in BOOLEAN

VARIABLES
  current,   \* the attempt the row of the job counts
  done,      \* the attempt that completed the job, 0 if none
  lost,      \* lost[a]: attempt a was told to stop (ownership or shutdown)
  expired,   \* expired[a]: deadline_at of attempt a has passed
  co,        \* co[a]: the coordinator of attempt a
  exec,      \* exec[a]: the execution named after attempt a
  missed,    \* missed[a]: describes that have missed it
  late,      \* late[a]: a start of attempt a that was given up is "pending", or the
             \* execution of a is "overdue": it was started when a was not current
  child      \* child[a][r]: the encoder of rendition r

envVars == <<current, done, lost, expired>>
awsVars == <<exec, missed, late, child>>
orchestrationVars == <<current, done, lost, expired, co, exec, missed, late, child>>

Calling == {"inspecting", "counting", "starting", "resolving", "resolving_last",
            "polling", "finalizing"}
Stopping == {"cancelling_prior", "cancelling_priors", "cancelling"}
Active == Calling \cup Stopping

Coordinator ==
  [ pc: Active \cup {"idle", "returned", "crashed"},
    prior: Attempt,                   \* the earlier attempt being looked at
    notFound: 0..(Confirmations - 1),      \* not_found
    residual: Nat,
    pending: BOOLEAN,
    tries: 0..(StartTries - 1) ]

\* "scheduled" is in the history without an ARN; "unrecorded" runs without one;
\* "gone" has ended without one; "encoded" has ended with exit code 0.
EncoderState == {"none", "scheduled", "unrecorded", "recorded", "encoded", "ended", "gone"}

OrchestrationTypeOK ==
  /\ current \in 0..Attempts /\ done \in 0..Attempts
  /\ lost \in [Attempt -> BOOLEAN] /\ expired \in [Attempt -> BOOLEAN]
  /\ co \in [Attempt -> Coordinator]
  /\ exec \in [Attempt -> {"absent", "running", "succeeded", "failed"}]
  /\ missed \in [Attempt -> 0..Misses]
  /\ late \in [Attempt -> {"no", "pending", "overdue"}]
  /\ child \in [Attempt -> [Planned -> EncoderState]]

\* The locals of the observation of earlier attempts, and those of the tries.
Looking(pc, prior, notFound, residual, pending) ==
  [ pc |-> pc, prior |-> prior, notFound |-> notFound, residual |-> residual,
    pending |-> pending, tries |-> 0 ]

Trying(pc, tries) ==
  [ pc |-> pc, prior |-> 1, notFound |-> 0, residual |-> 0,
    pending |-> FALSE, tries |-> tries ]

Enter(pc) == Trying(pc, 0)

OrchestrationInit ==
  /\ current = 0 /\ done = 0
  /\ lost = [a \in Attempt |-> FALSE] /\ expired = [a \in Attempt |-> FALSE]
  /\ co = [a \in Attempt |-> Enter("idle")]
  /\ exec = [a \in Attempt |-> IF a \in Foreign THEN "running" ELSE "absent"]
  /\ missed = [a \in Attempt |-> 0]
  /\ late = [a \in Attempt |-> "no"]
  /\ child = [a \in Attempt |-> [r \in Planned |-> "none"]]

-----------------------------------------------------------------------------
(* Where the code goes between two awaits, as the coordinator's record.    *)

At(c, pc) == [c EXCEPT !.pc = pc]

\* What every head and every pause looks at: stop on a signal, then on the
\* deadline, else go on.
Checked(a, stopped, over, on) ==
  IF lost[a] THEN stopped ELSE IF expired[a] THEN over ELSE on

PollHead(a) == Checked(a, Enter("cancelling"), Enter("cancelling"), Enter("polling"))

\* After the last try the loop ends, and one look remains.
StartHead(a, tries) ==
  IF tries = StartTries
  THEN IF expired[a] THEN Enter("cancelling") ELSE Enter("resolving_last")
  ELSE Checked(a, Enter("cancelling"), Enter("cancelling"), Trying("starting", tries))

\* cancel_prior_attempts(job) on a signal and at the deadline.
InspectionHead(a, prior, notFound, residual, pending) ==
  Checked(a, Enter("cancelling_priors"), Enter("cancelling_priors"),
          Looking("inspecting", prior, notFound, residual, pending))

\* One pass over all earlier attempts begins.
BoundHead(a) == InspectionHead(a, 1, 0, 0, FALSE)

\* Faulty variant: the encoders about to be launched are forgotten.
BoundHoldsWithoutPlanned(residual, pending) == ~pending /\ residual <= Cap

\* child_bound_holds(residual, planned)
BoundHolds(residual, pending) ==
  ~pending /\ residual + Cardinality(Planned) <= Cap

\* An earlier attempt was observed, with n encoders left or without a result:
\* the next one, or the end of the pass.
NextPrior(a, n, unknown) ==
  LET residual == co[a].residual + n
      pending == co[a].pending \/ unknown
  IN IF co[a].prior < a - 1
     THEN InspectionHead(a, co[a].prior + 1, 0, residual, pending)
     ELSE IF BoundHolds(residual, pending) THEN StartHead(a, 0)
     ELSE BoundHead(a)

\* resolve_existing found nothing it can attach to: the next try.
NextTry(a) == StartHead(a, co[a].tries + 1)

Steps(a, pc, c) == co[a].pc = pc /\ co' = [co EXCEPT ![a] = c]

-----------------------------------------------------------------------------
(* What the calls see and do.                                              *)

Terminal(a) == exec[a] \in {"succeeded", "failed"}

\* DescribeExecution finds an execution, or may miss it for a while.
Described(k) == exec[k] # "absent" /\ UNCHANGED missed

NotDescribed(k) ==
  \/ exec[k] = "absent" /\ UNCHANGED missed
  \/ /\ exec[k] # "absent" /\ missed[k] < Misses
     /\ missed' = [missed EXCEPT ![k] = @ + 1]

\* The execution of a begins, in time or overdue.
TakesEffect(a) ==
  /\ exec[a] = "absent"
  /\ exec' = [exec EXCEPT ![a] = "running"]
  /\ late' = [late EXCEPT ![a] = IF a = current THEN "no" ELSE "overdue"]

\* A start nobody waits for any more, or that answered an error: it had no
\* effect, it had its effect, or it may still have it.
StartInDoubt(a) ==
  \/ UNCHANGED <<exec, late>>
  \/ TakesEffect(a)
  \/ /\ LateStart /\ exec[a] = "absent"
     /\ late' = [late EXCEPT ![a] = "pending"] /\ UNCHANGED exec

\* StopExecution: best effort, and its answer is ignored.
Stop(k) ==
  \/ UNCHANGED exec
  \/ exec[k] = "running" /\ exec' = [exec EXCEPT ![k] = "failed"]

\* ARNs of encoders in the history, running or not.
Recorded(k) == {r \in Planned : child[k][r] \in {"recorded", "encoded", "ended"}}

Running(k) == {r \in Planned : child[k][r] \in {"unrecorded", "recorded"}}

\* Faulty variant: encoders that have not ended are no residual.
ResidualOfEnded(k) == 0

\* Encoders in the history that ECS reports as not STOPPED.
ResidualOf(k) == Cardinality({r \in Recorded(k) : child[k][r] = "recorded"})

\* finish_history_task_scan: traces of encoders without a single ARN.
Unresolved(k) == Recorded(k) = {} /\ \E r \in Planned : child[k][r] # "none"

-----------------------------------------------------------------------------
(* The bound on the encoders of earlier attempts.                          *)

\* An attempt begins when the row was granted again: the one before has
\* returned, died or been told to stop.  It may be too late at once.
Begin(a) ==
  /\ done = 0 /\ a > current
  /\ current # 0 =>
       \/ co[current].pc \in {"returned", "crashed"}
       \/ lost[current] /\ (LateStart \/ co[current].pc # "starting")
  /\ current' = a
  /\ \/ /\ Steps(a, "idle", IF a = 1 THEN StartHead(a, 0) ELSE BoundHead(a))
        /\ UNCHANGED <<lost, expired>>
     \/ /\ Steps(a, "idle", Enter("cancelling"))
        /\ lost' = [lost EXCEPT ![a] = TRUE] /\ UNCHANGED expired
     \/ /\ Steps(a, "idle", Enter("returned"))
        /\ expired' = [expired EXCEPT ![a] = TRUE] /\ UNCHANGED lost
  /\ UNCHANGED <<done, awsVars>>

InspectPrior(a) ==
  LET c == co[a]  k == c.prior  n == c.notFound + 1 IN
  /\ UNCHANGED <<envVars, exec, late, child>>
  /\ \/ NotDescribed(k) /\ n >= Confirmations /\ Steps(a, "inspecting", NextPrior(a, 0, FALSE))
     \/ /\ NotDescribed(k) /\ n < Confirmations
        /\ Steps(a, "inspecting", InspectionHead(a, k, n, c.residual, c.pending))
     \/ /\ Described(k) /\ exec[k] = "running"
        /\ Steps(a, "inspecting", At(c, "cancelling_prior"))
     \/ Described(k) /\ Terminal(k) /\ Steps(a, "inspecting", At(c, "counting"))

\* A running execution is told to stop; the pass does not count.
StopPrior(a) ==
  /\ Stop(co[a].prior)
  /\ Steps(a, "cancelling_prior", NextPrior(a, 0, TRUE))
  /\ UNCHANGED <<envVars, missed, late, child>>

\* Encoders found alive are counted and told to stop; they end by EndChild.
CountResidual(a) ==
  /\ ~Unresolved(co[a].prior)
  /\ Steps(a, "counting", NextPrior(a, ResidualOf(co[a].prior), FALSE))
  /\ UNCHANGED <<envVars, awsVars>>

\* A retryable error of an observation.
PriorUnknown(a) ==
  /\ \E pc \in {"inspecting", "counting"} : Steps(a, pc, NextPrior(a, 0, TRUE))
  /\ UNCHANGED <<envVars, awsVars>>

\* Permission denied, or the deadline passed during the call.
PriorFails(a) ==
  /\ \E pc \in {"inspecting", "counting"} : Steps(a, pc, Enter("cancelling_priors"))
  /\ UNCHANGED <<envVars, awsVars>>

\* cancel_prior_attempts, one earlier attempt after the other.
StopPriors(a) ==
  LET c == co[a] IN
  /\ Stop(c.prior)
  /\ Steps(a, "cancelling_priors",
       IF c.prior < a - 1 THEN [c EXCEPT !.prior = @ + 1] ELSE Enter("returned"))
  /\ UNCHANGED <<envVars, missed, late, child>>

-----------------------------------------------------------------------------
(* start_or_attach                                                         *)

\* A name that is taken answers an error, unless the execution still runs with
\* the same input.
StartAccepted(a) ==
  /\ a \notin Foreign
  /\ TakesEffect(a) \/ (exec[a] = "running" /\ UNCHANGED <<exec, late>>)
  /\ Steps(a, "starting", PollHead(a))
  /\ UNCHANGED <<envVars, missed, child>>

\* Already exists, or unavailable: look what is there.
StartFails(a) ==
  /\ StartInDoubt(a)
  /\ Steps(a, "starting", At(co[a], "resolving"))
  /\ UNCHANGED <<envVars, missed, child>>

StartDenied(a) ==
  /\ Steps(a, "starting", Enter("returned"))
  /\ UNCHANGED <<envVars, awsVars>>

StartTimesOut(a) ==
  /\ expired[a] /\ StartInDoubt(a)
  /\ Steps(a, "starting", Enter("cancelling"))
  /\ UNCHANGED <<envVars, missed, child>>

\* Faulty variant: the input of the execution is not compared.
AttachableUnchecked(a) == exec[a] \in {"running", "succeeded"}

\* The input is identical and the execution has not failed.
Attachable(a) == a \notin Foreign /\ exec[a] \in {"running", "succeeded"}

\* The first looks and the last one differ in what an error leads to.
Resolve(a) ==
  \E pc \in {"resolving", "resolving_last"} :
    /\ \/ /\ Described(a) /\ Attachable(a)
          /\ Steps(a, pc, PollHead(a))
       \/ /\ Described(a) /\ ~Attachable(a)
          /\ Steps(a, pc, Enter("returned"))
       \/ /\ pc = "resolving" /\ NotDescribed(a)
          /\ Steps(a, pc, NextTry(a))
       \/ /\ pc = "resolving_last" /\ NotDescribed(a)
          /\ Steps(a, pc, Enter("returned"))
    /\ UNCHANGED <<envVars, exec, late, child>>

ResolveUnknown(a) ==
  /\ \/ Steps(a, "resolving", NextTry(a))
     \/ Steps(a, "resolving_last", Enter("returned"))
  /\ UNCHANGED <<envVars, awsVars>>

ResolveDenied(a) ==
  /\ Steps(a, "resolving", Enter("returned"))
  /\ UNCHANGED <<envVars, awsVars>>

\* Faulty variant: the looks between two tries have no deadline.
ResolveTimesOutAtLast(a) ==
  /\ expired[a]
  /\ Steps(a, "resolving_last", Enter("returned"))
  /\ UNCHANGED <<envVars, awsVars>>

ResolveTimesOut(a) ==
  /\ expired[a]
  /\ \/ Steps(a, "resolving", Enter("cancelling"))
     \/ Steps(a, "resolving_last", Enter("returned"))
  /\ UNCHANGED <<envVars, awsVars>>

-----------------------------------------------------------------------------
(* The polling loop and the finalizer.                                     *)

\* Faulty variant: an execution that runs is as good as one that succeeded.
PollAnything(a) ==
  /\ Described(a)
  /\ Steps(a, "polling", Checked(a, Enter("cancelling"),
       Enter("returned"), Enter("finalizing")))
  /\ UNCHANGED <<envVars, exec, late, child>>

\* SUCCEEDED is checked once more before the finalizer is called; FAILED and
\* TIMED_OUT end the attempt.  Everything else is asked again.
Poll(a) ==
  /\ \/ /\ Described(a) /\ exec[a] = "succeeded"
        /\ Steps(a, "polling", Checked(a, Enter("cancelling"),
             Enter("returned"), Enter("finalizing")))
     \/ /\ Described(a) /\ exec[a] = "failed"
        /\ Steps(a, "polling", Enter("returned"))
     \/ /\ \/ Described(a) /\ exec[a] = "running"
           \/ NotDescribed(a)
        /\ Steps(a, "polling", PollHead(a))
  /\ UNCHANGED <<envVars, exec, late, child>>

PollUnknown(a) ==
  /\ Steps(a, "polling", PollHead(a))
  /\ UNCHANGED <<envVars, awsVars>>

\* Permission denied, or the deadline passed during the call.
PollFails(a) ==
  /\ Steps(a, "polling", Enter("cancelling"))
  /\ UNCHANGED <<envVars, awsVars>>

\* complete_distributed applies to the attempt the row counts.
Finalize(a) ==
  /\ done = 0 /\ current = a
  /\ done' = a
  /\ Steps(a, "finalizing", Enter("returned"))
  /\ UNCHANGED <<current, lost, expired, awsVars>>

\* Refused, lost, invalid results, or dropped at the deadline.
FinalizeFails(a) ==
  /\ Steps(a, "finalizing", Enter("returned"))
  /\ UNCHANGED <<envVars, awsVars>>

\* cancel(name).await ends: no deadline bounds it.
CancelAnswered(a) ==
  /\ Stop(a)
  /\ Steps(a, "cancelling", Enter("returned"))
  /\ UNCHANGED <<envVars, missed, late, child>>

-----------------------------------------------------------------------------
(* The environment.                                                        *)

\* The heartbeat or the shutdown tells the attempt to stop.
Lose(a) ==
  /\ co[a].pc \in Active /\ ~lost[a]
  /\ lost' = [lost EXCEPT ![a] = TRUE]
  /\ UNCHANGED <<current, done, expired, co, awsVars>>

Expire(a) ==
  /\ co[a].pc # "idle" /\ ~expired[a]
  /\ expired' = [expired EXCEPT ![a] = TRUE]
  /\ UNCHANGED <<current, done, lost, co, awsVars>>

\* The process dies, or the task is aborted at an await.
Die(a) ==
  /\ \E pc \in Active : Steps(a, pc, Enter("crashed"))
  /\ IF co[a].pc = "starting" THEN StartInDoubt(a) ELSE UNCHANGED <<exec, late>>
  /\ IF co[a].pc = "finalizing" /\ done = 0 /\ current = a
     THEN done' \in {0, a} ELSE UNCHANGED done
  /\ UNCHANGED <<current, lost, expired, missed, child>>

LateStartLands(a) ==
  /\ late[a] = "pending" /\ TakesEffect(a)
  /\ UNCHANGED <<envVars, co, missed, child>>

\* The state machine launches nothing after deadline_at.
Schedule(a, r) ==
  /\ a \notin Foreign /\ exec[a] = "running" /\ ~expired[a]
  /\ child[a][r] = "none"
  /\ child' = [child EXCEPT ![a][r] = "scheduled"]
  /\ UNCHANGED <<envVars, co, exec, missed, late>>

Launch(a, r) ==
  /\ child[a][r] = "scheduled"
  /\ \/ exec[a] = "running" /\ child' = [child EXCEPT ![a][r] = "recorded"]
     \/ LateRecord /\ child' = [child EXCEPT ![a][r] = "unrecorded"]
  /\ UNCHANGED <<envVars, co, exec, missed, late>>

Record(a, r) ==
  /\ child[a][r] = "unrecorded" /\ exec[a] = "running"
  /\ child' = [child EXCEPT ![a][r] = "recorded"]
  /\ UNCHANGED <<envVars, co, exec, missed, late>>

\* The end of an encoder enters the history of a running execution.
EndChild(a, r) ==
  /\ r \in Running(a)
  /\ \/ /\ exec[a] = "running" \/ child[a][r] = "recorded"
        /\ child' = [child EXCEPT ![a][r] = "ended"]
     \/ exec[a] = "running" /\ child' = [child EXCEPT ![a][r] = "encoded"]
     \/ /\ exec[a] # "running" /\ child[a][r] = "unrecorded"
        /\ child' = [child EXCEPT ![a][r] = "gone"]
  /\ UNCHANGED <<envVars, co, exec, missed, late>>

\* An execution succeeds with all its encoders; it may fail at any time, with
\* encoders still running.
EndExecution(a) ==
  /\ exec[a] = "running"
  /\ \/ /\ a \in Foreign \/ \A r \in Planned : child[a][r] = "encoded"
        /\ exec' = [exec EXCEPT ![a] = "succeeded"]
     \/ exec' = [exec EXCEPT ![a] = "failed"]
  /\ UNCHANGED <<envVars, co, missed, late, child>>

BoundStep(a) ==
  \/ InspectPrior(a) \/ StopPrior(a) \/ CountResidual(a) \/ PriorUnknown(a)
  \/ PriorFails(a) \/ StopPriors(a)

StartStep(a) ==
  \/ StartAccepted(a) \/ StartFails(a) \/ StartDenied(a) \/ StartTimesOut(a)
  \/ Resolve(a) \/ ResolveUnknown(a) \/ ResolveDenied(a) \/ ResolveTimesOut(a)

PollStep(a) ==
  \/ Poll(a) \/ PollUnknown(a) \/ PollFails(a)
  \/ Finalize(a) \/ FinalizeFails(a) \/ CancelAnswered(a)

Cloud(a) ==
  \/ LateStartLands(a) \/ EndExecution(a)
  \/ \E r \in Planned : Schedule(a, r) \/ Launch(a, r) \/ Record(a, r) \/ EndChild(a, r)

OrchestrationNext ==
  \E a \in Attempt :
    \/ Begin(a) \/ BoundStep(a) \/ StartStep(a) \/ PollStep(a)
    \/ Lose(a) \/ Expire(a) \/ Die(a)
    \/ Cloud(a)

OrchestrationSpec == OrchestrationInit /\ [][OrchestrationNext]_orchestrationVars

\* Deadlines fire (until_deadline).  Other calls owe no answer.
CoordinatorFairness(a) ==
  /\ WF_orchestrationVars(expired[a] /\ PriorFails(a))
  /\ WF_orchestrationVars(StartTimesOut(a) \/ ResolveTimesOut(a))
  /\ WF_orchestrationVars(expired[a] /\ (PollFails(a) \/ FinalizeFails(a)))

\* StopExecution answers sooner or later.
AnsweredSpec ==
  /\ OrchestrationSpec
  /\ \A a \in Attempt : CoordinatorFairness(a)
  /\ \A a \in Attempt :
       WF_orchestrationVars(StopPrior(a) \/ StopPriors(a) \/ CancelAnswered(a))

-----------------------------------------------------------------------------
(* Properties.                                                             *)

Overdue(a) == late[a] = "overdue"

\* Encoders that run and a coordinator can account for: they have an ARN in the
\* history, and their execution was started while the row counted its attempt.
Accounted ==
  {e \in Attempt \X Planned : child[e[1]][e[2]] = "recorded" /\ ~Overdue(e[1])}

\* The encoders of a job that coordinators can account for, those of earlier
\* attempts included, never exceed the cap: neither a lost answer to a start,
\* nor a crash, nor an execution that a describe has missed, nor encoders beside
\* them that cannot be accounted for let a later attempt launch beside them.
\* Of those that cannot, the code makes no count: an encoder without an ARN
\* beside one that has one is neither counted nor stopped, and a start given up
\* may take effect behind the last look for it.
ChildBound == Cardinality(Accounted) <= Cap

\* Only the output of an execution that succeeded with all its encoders, and
\* that this service started with this input, completes the job.
CompletedBySuccess ==
  done # 0 =>
    /\ exec[done] = "succeeded"
    /\ done \notin Foreign
    /\ \A r \in Planned : child[done][r] = "encoded"

\* An attempt that was told to stop does not return before it has asked for
\* its execution to be stopped: what it returns while the execution may run is
\* an answer to the request.
LossCancels ==
  [][\A a \in Attempt :
       ( /\ lost[a] /\ exec[a] = "running" /\ a \notin Foreign
         /\ co[a].pc \in Active /\ co'[a].pc = "returned" )
       => co[a].pc = "cancelling"]_orchestrationVars

\* The deadline ends every coordinator.
BridgeReturns ==
  \A a \in Attempt : expired[a] ~> co[a].pc \in {"idle", "returned", "crashed"}

\* Attempts whose execution was started in time; the last of them launches.
InTime(a) == a \notin Foreign /\ exec[a] # "absent" /\ ~Overdue(a)

Launcher ==
  CHOOSE a \in 0..Attempts :
    /\ a = 0 \/ InTime(a)
    /\ \A b \in Attempt : InTime(b) => b <= a

\* Coordinators keep the promise made to the encoder cluster, for the encoders
\* they can account for.
Slots == INSTANCE EncoderSlots WITH launcher <- Launcher, live <- Accounted

ImplementsSlots == Slots!SlotSpec
=============================================================================
