--------------------------- MODULE MCWorkerProcess ---------------------------
(* Instance of WorkerProcess for TLC: the time constants of the code, and   *)
(* environments that meet and miss every bound by one.                      *)
EXTENDS WorkerProcess

MCLifetime == {20, 24}

Plain ==
  [ texts |-> TRUE, interval |-> 10, visibility |-> 60, lease |-> 60, delay |-> 30,
    attempts |-> 3, concurrency |-> 2, mode |-> PoolMode, agent |-> TRUE,
    database |-> "tls", ca |-> "none", source |-> 64, temporary |-> 512,
    otherLimits |-> TRUE, addresses |-> TRUE, buckets |-> "distinct",
    stateMachine |-> "none" ]

\* The durations together, everything else one or two at a time.
MCEnvironments ==
  { [Plain EXCEPT !.interval = i, !.visibility = v, !.lease = l] :
      i \in {0, 1, 21600, 21601}, v \in {1, 2, 43199, 43200, 43202},
      l \in {1, 2, 43199, 43200, 43202} }
  \cup { [Plain EXCEPT !.attempts = a, !.delay = d] :
           a \in {0, 1, 10, 11}, d \in {0, 1, 43200, 43201} }
  \cup { [Plain EXCEPT !.source = s, !.temporary = t] :
           s \in {0, 64, 1024, 1025}, t \in {64, 65, 1025, 16384, 16385} }
  \cup { [Plain EXCEPT !.mode = m, !.agent = a, !.database = d, !.ca = c] :
           m \in {"ecs", "local", "other"}, a \in BOOLEAN,
           d \in {"tls", "disable", "unstated"}, c \in {"none", "unreadable"} }
  \cup { [Plain EXCEPT !.concurrency = n] : n \in {0, 1, 32, 33} }
  \cup { [Plain EXCEPT !.buckets = b, !.stateMachine = s] :
           b \in {"distinct", "equal", "malformed"}, s \in {"none", "valid", "malformed"} }
  \cup { [Plain EXCEPT !.texts = FALSE], [Plain EXCEPT !.addresses = FALSE],
         [Plain EXCEPT !.otherLimits = FALSE] }
=============================================================================
