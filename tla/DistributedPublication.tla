----------------------- MODULE DistributedPublication -----------------------
(***************************************************************************)
(* Publication of a distributed job: the encoders of its attempts upload    *)
(* their renditions, the finalizer of an attempt checks them, writes the    *)
(* master and completes the row (JobLease).  The row is the one of JobLease *)
(* with all its statements, also those of the API and of cli workers.      *)
(*                                                                         *)
(* Attempts overlap: an attempt that has lost the row may not know it yet, *)
(* and its encoders go on whatever happens to it.  Orchestration says when *)
(* encoders are launched and the finalizer is called; here both may happen *)
(* at any time of the attempt, so that what holds does not rest on it.     *)
(*                                                                         *)
(* An encoder or a finalizer that fails, is refused, runs into its deadline *)
(* or dies takes no further step.  What it has sent may still take effect, *)
(* at any time, more than once (the SDK repeats requests) or never.        *)
(***************************************************************************)
EXTENDS JobLease

CONSTANTS
  TheJob,        \* the only job
  NRenditions,   \* renditions of the input, in its order
  NSegments      \* segments of a rendition

ASSUME PublicationAssumption ==
  /\ Job = {TheJob}
  /\ NRenditions \in Nat \ {0}
  /\ NSegments \in Nat \ {0}

VARIABLES
  enc,       \* enc[a][r]: the encoder of rendition r launched for attempt a
  fin,       \* fin[a]: attempt a and its finalizer
  lost,      \* attempts whose ownership_lost flag is set
  objects,   \* objects[a][r][o]: whose encoder wrote object o, 0 if there is none
  masters    \* attempts whose master is stored

publicationVars == <<jobs, enc, fin, lost, objects, masters>>

Attempt == 1..MaxAttempts
Rendition == 1..NRenditions

\* The objects of a rendition in the order of their upload.
Segment == 1..NSegments
Playlist == NSegments + 1
Result == NSegments + 2
Object == 1..Result

row == jobs[TheJob]

\* The identities the texts of a payload are derived from.
Payload == [attempt: Attempt, execution: Attempt, prefix: Attempt]

Encoder ==
  [ prefix: 0..MaxAttempts,   \* the attempt of its output_prefix, 0 if none runs
    sent: 0..Result ]         \* uploads it has sent

Finalizer ==
  [ pc: {"none", "working", "reading", "master", "writing", "locked", "over"},
    worker: Worker \cup {NoWorker},
    rendition: Rendition,     \* the rendition that is validated
    step: Object ]            \* the read of it that is next

PublicationTypeOK ==
  /\ LeaseTypeOK
  /\ enc \in [Attempt -> [Rendition -> Encoder]]
  /\ fin \in [Attempt -> Finalizer]
  /\ lost \subseteq Attempt
  /\ objects \in [Attempt -> [Rendition -> [Object -> 0..MaxAttempts]]]
  /\ masters \subseteq Attempt

NoEncoder == [prefix |-> 0, sent |-> 0]

FinalizerAt(pc, w, r, s) == [pc |-> pc, worker |-> w, rendition |-> r, step |-> s]

PublicationInit ==
  /\ LeaseInit
  /\ enc = [a \in Attempt |-> [r \in Rendition |-> NoEncoder]]
  /\ fin = [a \in Attempt |-> FinalizerAt("none", NoWorker, 1, 1)]
  /\ lost = {}
  /\ objects = [a \in Attempt |-> [r \in Rendition |-> [o \in Object |-> 0]]]
  /\ masters = {}

-----------------------------------------------------------------------------
(* The row and the attempts.                                               *)

Acquire(w) ==
  /\ AcquireLease(TheJob, w, "distributed")
  /\ fin' = [fin EXCEPT ![row.attempt + 1] = FinalizerAt("working", w, 1, 1)]
  /\ UNCHANGED <<enc, lost, objects, masters>>

\* The API, the workers of the other mode, heartbeats, the ends of attempts
\* that complete nothing, and time.
OtherStatement ==
  /\ \/ InsertJob(TheJob) \/ ClaimUpload(TheJob)
     \/ \E w \in Worker :
          \/ AcquireLease(TheJob, w, "cli") \/ Complete(TheJob, w)
          \/ RenewLease(TheJob, w)
          \/ ReleaseForRetry(TheJob, w) \/ FailJob(TheJob, w)
     \/ LeaseTick
  /\ UNCHANGED <<enc, fin, lost, objects, masters>>

LoseOwnership(a) ==
  /\ fin[a].pc # "none"
  /\ lost' = lost \cup {a}
  /\ UNCHANGED <<jobs, enc, fin, objects, masters>>

-----------------------------------------------------------------------------
(* Child encoders.                                                         *)

\* validate_payload: everything in the payload is derived from one identity.
ValidPayload(p) == p.execution = p.attempt /\ p.prefix = p.attempt

\* The state machine runs each encoder of an attempt once; it downloads,
\* probes, encodes and checks the output before it uploads anything.
Launch(a, r, p) ==
  /\ fin[a].pc # "none" /\ enc[a][r] = NoEncoder
  /\ p.attempt = a /\ ValidPayload(p)
  /\ enc' = [enc EXCEPT ![a][r] = [prefix |-> p.prefix, sent |-> 0]]
  /\ UNCHANGED <<jobs, fin, lost, objects, masters>>

\* Segments in their order, then the media playlist, then the result.
Uploaded(n) == n

\* The next upload is sent when the one before has been answered.
SendUpload(a, r) ==
  LET e == enc[a][r] IN
  /\ e.prefix # 0 /\ e.sent < Result
  /\ e.sent > 0 => objects[e.prefix][r][Uploaded(e.sent)] = a
  /\ enc' = [enc EXCEPT ![a][r] = [prefix |-> e.prefix, sent |-> e.sent + 1]]
  /\ UNCHANGED <<jobs, fin, lost, objects, masters>>

\* An upload takes effect, whether or not its sender is still there.
UploadLands(a, r, n) ==
  /\ n \in 1..enc[a][r].sent
  /\ objects' = [objects EXCEPT ![enc[a][r].prefix][r][Uploaded(n)] = a]
  /\ UNCHANGED <<jobs, enc, fin, lost, masters>>

-----------------------------------------------------------------------------
(* DistributedFinalizer::finalize                                          *)

MoveFinalizer(a, pc, r, s) ==
  fin' = [fin EXCEPT ![a] = FinalizerAt(pc, fin[a].worker, r, s)]

\* Ownership is looked at, then the source is opened and inspected.
BeginFinalize(a) ==
  /\ fin[a].pc = "working" /\ a \notin lost
  /\ MoveFinalizer(a, "reading", 1, 1)
  /\ UNCHANGED <<jobs, enc, lost, objects, masters>>

\* The result, the playlist, and the segments it refers to.
Wanted(step) ==
  IF step = 1 THEN Result ELSE IF step = 2 THEN Playlist ELSE step - 2

\* Faulty variant: a rendition without a result yet is not waited for.
AcceptableWithoutResult(a, r, o) ==
  IF o = Result THEN objects[a][r][o] \in {0, a} ELSE objects[a][r][o] # 0

\* The object is there; a result has to name this attempt.
Acceptable(a, r, o) ==
  /\ objects[a][r][o] # 0
  /\ o = Result => objects[a][r][o] = a

\* Ownership is looked at before every rendition.
ReadObject(a) ==
  LET f == fin[a] IN
  /\ f.pc = "reading"
  /\ f.step = 1 => a \notin lost
  /\ Acceptable(a, f.rendition, Wanted(f.step))
  /\ IF f.step < Result
     THEN MoveFinalizer(a, "reading", f.rendition, f.step + 1)
     ELSE IF f.rendition < NRenditions
     THEN MoveFinalizer(a, "reading", f.rendition + 1, 1)
     ELSE MoveFinalizer(a, "master", f.rendition, f.step)
  /\ UNCHANGED <<jobs, enc, lost, objects, masters>>

\* Ownership is looked at, then the master is sent.
WriteMaster(a) ==
  /\ fin[a].pc = "master" /\ a \notin lost
  /\ MoveFinalizer(a, "writing", 1, 1)
  /\ UNCHANGED <<jobs, enc, lost, objects, masters>>

\* The master may appear after the finalizer has been dropped.
MasterLands(a) ==
  /\ fin[a].pc = "writing"
  /\ masters' = masters \cup {a}
  /\ UNCHANGED <<jobs, enc, fin, lost, objects>>

\* Faulty variant: the master has been sent, that is all.
MasterSent(a) == fin[a].pc = "writing"

\* Until then its upload is not answered.
MasterStored(a) == a \in masters

\* The upload is answered; ownership is looked at for the last time, and the
\* mutex is waited for.
CheckBeforeComplete(a) ==
  /\ fin[a].pc = "writing" /\ MasterStored(a) /\ a \notin lost
  /\ MoveFinalizer(a, "locked", 1, 1)
  /\ UNCHANGED <<jobs, enc, lost, objects, masters>>

CompleteAttempt(a) ==
  /\ fin[a].pc = "locked"
  /\ CompleteDistributed(TheJob, fin[a].worker, a, a)
  /\ MoveFinalizer(a, "over", 1, 1)
  /\ UNCHANGED <<enc, lost, objects, masters>>

EncoderStep(a, r) ==
  \/ \E p \in Payload : Launch(a, r, p)
  \/ SendUpload(a, r)
  \/ \E n \in Object : UploadLands(a, r, n)

FinalizerStep(a) ==
  \/ BeginFinalize(a) \/ ReadObject(a) \/ WriteMaster(a) \/ MasterLands(a)
  \/ CheckBeforeComplete(a) \/ CompleteAttempt(a)

PublicationNext ==
  \/ \E w \in Worker : Acquire(w)
  \/ OtherStatement
  \/ \E a \in Attempt : LoseOwnership(a) \/ FinalizerStep(a)
  \/ \E a \in Attempt : \E r \in Rendition : EncoderStep(a, r)

PublicationSpec == PublicationInit /\ [][PublicationNext]_publicationVars

-----------------------------------------------------------------------------
(* Properties.                                                             *)

\* The result of a rendition is the last of its objects: whoever finds it
\* finds the playlist and all segments, however its encoder has ended.
ResultLast ==
  \A a \in Attempt : \A r \in Rendition :
    objects[a][r][Result] # 0 => \A o \in Object : objects[a][r][o] # 0

\* Every object of a rendition is there, written by the encoder of a itself.
Whole(a, r) == \A o \in Object : objects[a][r][o] = a

\* A viewer who is shown a distributed job finds the master of the attempt
\* its pointer names and everything the master leads to, with nothing of
\* another attempt in it.
PublishedPlayable ==
  row.status = "COMPLETED" /\ row.mode = "distributed" =>
    /\ row.pointer \in masters
    /\ \A r \in Rendition : Whole(row.pointer, r)

\* What a stored master leads to, the objects of its renditions, is cached for
\* a year: no upload, however late, of this attempt or another ever changes it
\* again.
MasterImmutable ==
  [][\A a \in masters : \A r \in Rendition : objects'[a][r] = objects[a][r]]_publicationVars

\* Attempts with a master and everything it leads to.
CompleteAttempts == {a \in masters : \A r \in Rendition : Whole(a, r)}

\* Viewers see one switch, to an attempt that is complete and stays complete,
\* and never another.
Atomic == INSTANCE AtomicPublication
            WITH complete  <- CompleteAttempts,
                 published <- row.pointer

ImplementsPublication == Atomic!PublicationSpec
=============================================================================
