---------------------------- MODULE WorkerProcess ----------------------------
(***************************************************************************)
(* A worker process from its start to its exit code: what it makes of its   *)
(* environment, what it opens in which order, and how the receive loop      *)
(* (WorkerPool), the database connection and the signals end it.           *)
(*                                                                         *)
(* A setting is the class its value belongs to: numbers are kept, with 0    *)
(* for everything that is no positive integer; addresses, buckets and names *)
(* are valid or not in the ways the code tells apart.  Sizes are in MiB.    *)
(* Once the loop runs the settings are forgotten: the processor keeps its   *)
(* own copies, and the other modules take them as their constants.          *)
(***************************************************************************)
EXTENDS WorkerPool

CONSTANTS
  Environments,  \* the environments a process may be started in
  NoSettings     \* the settings are forgotten

\* What is read as a duration or a number of attempts is a number.
ASSUME EnvironmentAssumption ==
  \A e \in Environments :
    {e.interval, e.visibility, e.lease, e.delay, e.attempts} \subseteq Nat

VARIABLES
  env,         \* the environment, or NoSettings
  stage,       \* the part of main that comes next
  connection,  \* the database connection: "none", "open" or "stopped"
  early,       \* it had stopped before the loop was polled first
  handler,     \* the signal handler is installed
  supervised,  \* supervise_database has seen the connection stop
  exit         \* the exit code, 0 while the process runs, and why it has ended

processVars == <<env, stage, connection, early, handler, supervised, exit>>
allVars == <<poolVars, processVars>>

Ended(code, why) == [code |-> code, why |-> why]

Alive == stage # "exited"

StartStages == {"config", "queue", "database", "storage", "heartbeat",
                "processor", "orchestration", "start"}

ProcessTypeOK ==
  /\ PoolTypeOK
  /\ env \in Environments \cup {NoSettings}
  /\ stage \in StartStages \cup {"pool", "exited"}
  /\ connection \in {"none", "open", "stopped"}
  /\ early \in BOOLEAN /\ handler \in BOOLEAN /\ supervised \in BOOLEAN
  /\ exit \in [code: {0, 1, 143}, why: StartStages \cup {"running", "signal", "handler",
                                                          "agent", "connection", "pool"}]

ProcessInit ==
  /\ PoolInit
  /\ env \in Environments /\ stage = "config"
  /\ connection = "none" /\ early = FALSE
  /\ handler = FALSE /\ supervised = FALSE
  /\ exit = Ended(0, "running")

-----------------------------------------------------------------------------
(* Config::from_lookup                                                     *)

MaxSeconds == 43200

Positive(n) == n > 0

\* optional_bounded_usize: a missing value is the default of two.
ConcurrencyOK(e) == e.concurrency \in 1..32

\* Agent::new
AgentOK(e) == e.agent

\* A policy has to be stated; to disable TLS is for local use only.
TlsPolicyOK(e) ==
  \/ e.database = "tls"
  \/ e.database = "disable" /\ e.mode = "local"

LimitsOK(e) ==
  /\ e.source \in 1..1024 /\ e.temporary \in 1..16384 /\ e.otherLimits
  /\ e.temporary > e.source

\* Faulty variant: each duration on its own.
IntervalsOKAlone(e) ==
  /\ e.visibility <= MaxSeconds /\ e.lease <= MaxSeconds
  /\ e.interval <= MaxSeconds

IntervalsOK(e) ==
  /\ e.visibility <= MaxSeconds /\ e.lease <= MaxSeconds
  /\ e.interval <= e.visibility \div 2
  /\ e.interval <= e.lease \div 2

RetriesOK(e) == e.attempts <= 10 /\ e.delay <= MaxSeconds

\* The region has the form of one, the queue URL is one.
AddressesOK(e) == e.addresses

\* Both names are valid, and not the same: "malformed" if one is not.
BucketsOK(e) == e.buckets = "distinct"

ConfigAccepted(e) ==
  /\ e.texts                      \* the variables that must not be blank
  /\ \A n \in {e.interval, e.visibility, e.lease, e.delay, e.attempts} : Positive(n)
  /\ ConcurrencyOK(e)
  /\ e.mode \in {"ecs", "local"}
  /\ e.mode = "ecs" => AgentOK(e)
  /\ TlsPolicyOK(e) /\ LimitsOK(e) /\ IntervalsOK(e) /\ RetriesOK(e)
  /\ AddressesOK(e) /\ BucketsOK(e)

-----------------------------------------------------------------------------
(* main                                                                    *)

\* std::process::exit: whatever is under way is gone.
Exit(code, why) ==
  /\ stage' = "exited" /\ exit' = Ended(code, why)
  /\ env' = NoSettings

Proceed(next) == stage' = next /\ UNCHANGED <<env, exit>>

Rest == UNCHANGED <<connection, early, handler, supervised>> /\ UNCHANGED poolVars

Configure ==
  /\ stage = "config"
  /\ IF ConfigAccepted(env) THEN Proceed("queue") ELSE Exit(1, "config")
  /\ Rest

\* Two clients, of which the second one is for the acknowledgements.
OpenQueues ==
  /\ stage = "queue"
  /\ Proceed("database")
  /\ Rest

\* connector: the file of the CA holds certificates and nothing else.
CaReadable(e) == e.ca # "unreadable"

\* A CA certificate that cannot be read is found out here, before connecting.
ConnectDatabase ==
  /\ stage = "database"
  /\ \/ /\ env.database = "tls" => CaReadable(env)
        /\ connection' = "open"
        /\ Proceed("storage")
     \/ Exit(1, "database") /\ UNCHANGED connection
  /\ UNCHANGED <<early, handler, supervised>> /\ UNCHANGED poolVars

OpenStorage ==
  /\ stage = "storage"
  /\ Proceed("heartbeat")
  /\ Rest

\* HeartbeatSettings::from_seconds
HeartbeatSettingsOK(e) ==
  /\ e.interval > 0 /\ e.lease > 0 /\ e.visibility > 0
  /\ e.visibility <= MaxSeconds /\ e.lease <= MaxSeconds
  /\ e.interval <= e.lease \div 2 /\ e.interval <= e.visibility \div 2

MakeHeartbeat ==
  /\ stage = "heartbeat"
  /\ IF HeartbeatSettingsOK(env) THEN Proceed("processor") ELSE Exit(1, "heartbeat")
  /\ Rest

\* RetrySettings::new
RetrySettingsOK(e) == e.attempts \in 1..10 /\ e.delay \in 1..MaxSeconds

MakeProcessor ==
  /\ stage = "processor"
  /\ IF RetrySettingsOK(env) THEN Proceed("orchestration") ELSE Exit(1, "processor")
  /\ Rest

\* The state machine is not part of what the configuration validates.
AttachOrchestration ==
  /\ stage = "orchestration"
  /\ IF env.stateMachine = "malformed" THEN Exit(1, "orchestration") ELSE Proceed("start")
  /\ Rest

PoolMode == IF Cloud THEN "ecs" ELSE "local"

\* The task of the signal handler is spawned and the loop is polled: an ended
\* connection is seen first.  In the cloud the agent is looked at once more.
\* The pool is that of one mode, Cloud: a process of the other one ends its
\* start here and is followed by an instance with the other constant.
StartPool ==
  /\ stage = "start" /\ env.mode = PoolMode
  /\ IF Cloud /\ ~AgentOK(env)
     THEN Exit(1, "agent") /\ UNCHANGED early
     ELSE /\ stage' = "pool" /\ env' = NoSettings
          /\ early' = (connection = "stopped")
          /\ UNCHANGED exit
  /\ UNCHANGED <<connection, handler, supervised>> /\ UNCHANGED poolVars

ConnectionStops ==
  /\ Alive /\ connection = "open"
  /\ connection' = "stopped"
  /\ UNCHANGED <<env, stage, early, handler, supervised, exit>>
  /\ UNCHANGED poolVars

-----------------------------------------------------------------------------
(* Signals.                                                                *)

InstallHandler ==
  /\ stage = "pool" /\ ~handler
  /\ \/ handler' = TRUE /\ UNCHANGED <<env, stage, exit>>
     \/ Exit(1, "handler") /\ UNCHANGED handler
  /\ UNCHANGED <<connection, early, supervised>> /\ UNCHANGED poolVars

\* Without a handler the signal ends the process.
Killed ==
  /\ Alive /\ ~handler
  /\ Exit(143, "signal")
  /\ Rest

Signalled ==
  /\ stage = "pool" /\ handler
  /\ RequestShutdown
  /\ UNCHANGED processVars

-----------------------------------------------------------------------------
(* supervise_database                                                      *)

\* stop.send(true)
StopPool ==
  /\ shutdown' = TRUE
  /\ UNCHANGED <<phase, resume, running, request, failed, protected, left, renew, clock>>

Supervise ==
  /\ stage = "pool" /\ connection = "stopped" /\ ~supervised
  /\ StopPool
  /\ supervised' = TRUE
  /\ UNCHANGED <<env, stage, connection, early, handler, exit>>

\* Faulty variant: the loop may be polled before the connection.
PolledUnordered == TRUE

\* biased: the loop is polled only while the connection is not known to be over.
Polled == connection = "stopped" => supervised

\* Faulty variant: the loop is dropped with the connection.
PoolOverOrSupervised == phase = "done" \/ supervised

\* worker.await, also after the connection has stopped.
PoolOver == phase = "done"

ReturnFromPool ==
  /\ stage = "pool" /\ PoolOver
  /\ IF supervised THEN Exit(1, "connection")
     ELSE IF failed THEN Exit(1, "pool")
     ELSE Exit(0, "pool")
  /\ Rest

\* Message tasks and timers run beside the task that polls the loop.
PoolStep ==
  /\ stage = "pool"
  /\ UNCHANGED processVars
  /\ \/ Polled /\ LoopStep
     \/ Second
     \/ \E error \in BOOLEAN :
          Polled /\ (TaskEnds(error) \/ EmptyReceive(error) \/ DrainOne(error))
     \/ Polled /\ (Dispatch \/ ReceiveFails)
     \/ CountReceive

StartStep ==
  \/ Configure \/ OpenQueues \/ ConnectDatabase \/ OpenStorage \/ MakeHeartbeat
  \/ MakeProcessor \/ AttachOrchestration \/ StartPool

ProcessNext ==
  \/ StartStep \/ PoolStep \/ Supervise \/ ReturnFromPool
  \/ InstallHandler \/ Killed \/ Signalled \/ ConnectionStops

ProcessSpec == ProcessInit /\ [][ProcessNext]_allVars

\* The loop and the supervisor are polled when they can go on, and time passes.
\* Message tasks and the queue owe nothing, but an aborted task is dropped.
FairProcessSpec ==
  /\ ProcessSpec
  /\ WF_allVars(stage = "pool" /\ Polled /\ LoopStep /\ UNCHANGED processVars)
  /\ WF_allVars(stage = "pool" /\ Second /\ UNCHANGED processVars)
  /\ WF_allVars(stage = "pool" /\ Polled /\ phase = "abort"
                /\ \E error \in BOOLEAN : DrainOne(error) /\ UNCHANGED processVars)
  /\ WF_allVars(Supervise) /\ WF_allVars(ReturnFromPool)

-----------------------------------------------------------------------------
(* Properties.                                                             *)

\* What the configuration accepts every later constructor accepts, although
\* each has its own checks: no setting it could have refused ends a process
\* that has connected.
SettingsRefusedFirst == exit.why \notin {"heartbeat", "processor", "agent"}

\* A process whose connection stopped while it was starting never asks for a
\* message, which it could only keep from the others.
NothingReceivedBlind == early => request = "none" /\ running = 0

\* main returns from the loop only when no message task is left, also when it
\* leaves because of the connection; and only a clean end is an exit code of 0.
NoTaskLeftBehind ==
  exit.why \in {"pool", "connection"} =>
    /\ running = 0 /\ request = "none"
    /\ exit.code = 0 => ~failed /\ ~supervised

\* A process that was asked to stop does so, whatever its tasks and its
\* connection are doing.
ProcessStops == shutdown ~> ~Alive
=============================================================================
